--------------------------- MODULE MCDeletionPush ---------------------------
(* The clean-up of a deletion and the push outbox share no row: a behaviour *)
(* exercises one of them, and the other stays where it begins.              *)
EXTENDS DeletionProperties, PushProperties, TLC

CONSTANT u1
VARIABLE focus

MCUserOf == [e \in Events |-> u1]
MCTarget == [e \in Events |-> Tokens]

MCInit ==
    /\ focus \in {"deletion", "push"}
    /\ Init /\ blindpay = "customer" /\ (focus # "deletion" => activated)
    /\ PushInit

\* Bounds, beside those of the cfg: the account has a customer at BlindPay, the wallet's
\* balance stays as it is, and an event is not raised again once its row is there.
OncePerEvent ==
    \A p \in Producers, e \in Events : rowStatus[e] # "absent" => producing'[p] \in {NoEvent, producing[p]}

MCNext ==
    /\ UNCHANGED focus
    /\ \/ focus = "deletion" /\ Next /\ UNCHANGED <<balance, pushVars>>
       \/ focus = "push" /\ PushNext /\ OncePerEvent /\ UNCHANGED vars

\* What is asked of the schedule is asked of the one that moves.
MCFairness ==
    \/ focus = "deletion" /\ Fairness
    \/ focus = "push" /\ PushFairness

MCFairSpec == MCInit /\ [][MCNext]_<<focus, vars, pushVars>> /\ MCFairness
=============================================================================
