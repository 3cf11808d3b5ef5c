--------------------------- MODULE MCGiftAccounts ---------------------------
(* Gifts, the accounts of a person and the value of a portfolio share no    *)
(* row: a behaviour exercises one of them, and the others stay where they   *)
(* begin.                                                                   *)
EXTENDS GiftProperties, Accounts, PortfolioValue, TLC

CONSTANTS v1, v2, a1, a2
VARIABLE focus

\* The second asset has no feed, and no price of last resort either.
MCAssetOf == v1 :> a1 @@ v2 :> a2

MCInit ==
    /\ focus \in {"gifts", "accounts", "portfolio"}
    /\ Init
    /\ AccountsInit
    /\ ValueInit /\ (focus # "portfolio" => shown = {})

MCNext ==
    /\ UNCHANGED focus
    /\ \/ focus = "gifts" /\ Next /\ UNCHANGED <<accountVars, valueVars>>
       \/ focus = "accounts" /\ AccountsNext /\ UNCHANGED <<vars, valueVars>>
       \/ focus = "portfolio" /\ ValueNext /\ UNCHANGED <<vars, accountVars>>

\* The fair actions of the gifts are disabled where they begin.
MCFairSpec == MCInit /\ [][MCNext]_<<focus, vars, accountVars, valueVars>> /\ Fairness
=============================================================================
