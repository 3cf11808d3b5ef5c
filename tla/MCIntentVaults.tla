--------------------------- MODULE MCIntentVaults ---------------------------
(* Intents, the catalog of the vaults and the watcher of payments share no  *)
(* row: a behaviour exercises one of them, and the others stay where they   *)
(* begin.                                                                   *)
EXTENDS IntentProperties, VaultCatalog, IncomingPayments, TLC

VARIABLE focus

MCInit ==
    /\ focus \in {"intents", "catalog", "payments"}
    /\ Init
    /\ CatInit /\ (focus # "catalog" => ~deployed)
    /\ PayInit /\ (focus # "payments" => onramp = "none")

MCNext ==
    /\ UNCHANGED focus
    /\ \/ focus = "intents" /\ Next /\ UNCHANGED <<catVars, payVars>>
       \/ focus = "catalog" /\ CatNext /\ UNCHANGED <<vars, payVars>>
       \/ focus = "payments" /\ PayNext /\ UNCHANGED <<vars, catVars>>

MCSpec == MCInit /\ [][MCNext]_<<focus, vars, catVars, payVars>>

\* Requests, the catalog's calls and the watchers are named alike.
Symmetry == Permutations(Intents) \cup Permutations(Requests) \cup Permutations(Jobs)
=============================================================================
