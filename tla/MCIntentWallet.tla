--------------------------- MODULE MCIntentWallet ---------------------------
(* Intents and the activation of wallets share no row: a behaviour          *)
(* exercises one of them, and the other stays where it begins.              *)
EXTENDS IntentProperties, SponsoredWallets, TLC

VARIABLE focus

MCInit == focus \in {"intents", "wallets"} /\ Init /\ WalletInit

MCNext ==
    /\ UNCHANGED focus
    /\ \/ focus = "intents" /\ Next /\ UNCHANGED walletVars
       \/ focus = "wallets" /\ WalletNext /\ UNCHANGED vars

\* The fair actions of the one that stays where it begins are disabled there.
MCFairSpec == MCInit /\ [][MCNext]_<<focus, vars, walletVars>> /\ Fairness /\ WalletFairness
=============================================================================
