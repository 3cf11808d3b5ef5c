--------------------------- MODULE IntentPromise ---------------------------
(***************************************************************************)
(* What the backend promises the owner of a deposit or withdrawal: the     *)
(* states the app shows, and when the money may move relative to them.     *)
(* No row, handler, job or transaction record appears here.                *)
(***************************************************************************)
CONSTANT Intents

VARIABLES
    shown,   \* the state the app renders for each intent
    moved    \* intents whose transaction the network has applied

vars == <<shown, moved>>

States == {"absent", "PENDING_SIGNATURE", "PENDING", "SUCCESS",
           "REJECTED", "FAILED", "EXPIRED", "purged"}

Init ==
    /\ shown = [i \in Intents |-> "absent"]
    /\ moved = {}

Show(i, state) ==
    /\ shown' = [shown EXCEPT ![i] = state]
    /\ UNCHANGED moved

Issue(i)  == shown[i] = "absent" /\ Show(i, "PENDING_SIGNATURE")
Refuse(i) == shown[i] = "PENDING_SIGNATURE" /\ \E s \in {"REJECTED", "FAILED"} : Show(i, s)
Lapse(i)  == shown[i] = "PENDING_SIGNATURE" /\ Show(i, "EXPIRED")

\* An authorisation accepted in time may be recorded late, after the intent was
\* shown as expired or was closed; one that was answered REJECTED stays so.
Authorise(i) ==
    /\ shown[i] \in {"PENDING_SIGNATURE", "EXPIRED", "FAILED"}
    /\ Show(i, "PENDING")

\* Only an authorised intent moves money, while it is shown as pending.
Move(i) ==
    /\ shown[i] = "PENDING"
    /\ moved' = moved \cup {i}
    /\ UNCHANGED shown

Confirm(i) == shown[i] = "PENDING" /\ i \in moved /\ Show(i, "SUCCESS")

\* The housekeeping works on many intents at once.
ShowAll(S, state) ==
    /\ shown' = [i \in Intents |-> IF i \in S THEN state ELSE shown[i]]
    /\ UNCHANGED moved

Close(S)  == (\A i \in S : shown[i] = "EXPIRED") /\ ShowAll(S, "FAILED")
Forget(S) == (\A i \in S : shown[i] \in {"REJECTED", "FAILED"}) /\ ShowAll(S, "purged")

Next ==
    \/ \E i \in Intents : \/ Issue(i) \/ Refuse(i) \/ Lapse(i)
                          \/ Authorise(i) \/ Move(i) \/ Confirm(i)
    \/ \E S \in SUBSET Intents : Close(S) \/ Forget(S)

Spec == Init /\ [][Next]_vars
=============================================================================
