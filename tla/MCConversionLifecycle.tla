----------------------- MODULE MCConversionLifecycle -----------------------
EXTENDS ConversionProperties, TLC

Symmetry == Permutations(Requests) \cup Permutations(Deposits) \cup Permutations(Conversions)
=============================================================================
