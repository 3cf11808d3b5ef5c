------------------------- MODULE MCIntentLifecycle -------------------------
EXTENDS IntentProperties
=============================================================================
