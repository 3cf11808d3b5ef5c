------------------------ MODULE DeletionProperties ------------------------
(***************************************************************************)
(* The correctness properties of the deletion of an account.               *)
(***************************************************************************)
EXTENDS AccountDeletion

\* CHAIN_CLOSED is written only of an account that left the ledger, although the
\* update names the row by id and an answer may be late or lost.
ClosedMeansMerged ==
    \A k \in Keys : status[k] = "CHAIN_CLOSED" => account = "merged"

\* COMPLETED says that all is gone: the rows, the customer and the identity, even
\* when the request and runs of the job work on it together.
CompletedMeansErased ==
    \A k \in Keys :
        status[k] = "COMPLETED" => scrubbed /\ blindpay # "customer" /\ privy = "deleted"

\* The identity goes last "by definition": nobody loses the means to log in and
\* sign while the account's rows are still there.
IdentityGoesLast == privy = "deleted" => scrubbed

\* A closure that was asked for and not seen to succeed stops the saga before
\* anything local is touched: the rows are scrubbed after the account left the
\* ledger, or by a handler that read a request without a closure.
ClosureComesFirst ==
    [][~scrubbed /\ scrubbed' =>
          \/ account = "merged"
          \/ \E h \in Handlers : pc[h] = "closed" /\ expected[h] = "none"]_vars

\* The steps of a request from which it still writes the row as if nothing had been
\* scrubbed: PENDING_SIGNATURE, CHAIN_CLOSED or FAILED, by id.
BeforeScrub == {"building", "saving", "read", "submitting", "sent", "landed", "refused"}

Behind(k) == \E h \in Handlers : pc[h] \in BeforeScrub /\ key[h] = k

AtEnd(k) == status[k] \in {"COMPLETED", "FAILED"}

\* A deletion whose external steps keep failing does not cycle for ever: a scrubbed
\* request comes to COMPLETED or to a human, and stays there, however runs of the job
\* and the confirming request overlap and crash, as long as one instance's job goes on.
\* Only a request that has been behind since before the scrub can write another status
\* over it, and is excepted.
CleanupEnds ==
    \A k \in Keys : status[k] = "LOCAL_SCRUBBED" /\ ~ Behind(k) ~> [](AtEnd(k))

-----------------------------------------------------------------------------
(* The inductive invariant.                                                *)

\* What a row's status says is true of the ledger, of the account's data and of
\* the partners.
RequestInv(k) ==
    /\ status[k] = "CHAIN_CLOSED" => account = "merged"
    /\ status[k] \in {"LOCAL_SCRUBBED", "COMPLETED"} => scrubbed
    /\ status[k] = "COMPLETED" => blindpay # "customer" /\ privy = "deleted"

AfterScrub == {"scrubbed", "cleaning", "identity", "forgetting", "finishing",
               "checking", "counting", "failing"}

\* What a worker remembers is still true when it acts on it, although others
\* worked meanwhile: what it relies on is never undone.
WorkerInv(w) ==
    /\ pc[w] # "idle" => key[w] \in Keys
    /\ pc[w] \in {"submitting", "sent", "landed"} => expected[w] # "none"
    /\ pc[w] = "landed" => account = "merged"
    /\ pc[w] = "closed" /\ expected[w] # "none" => account = "merged"
    /\ pc[w] \in AfterScrub => scrubbed
    /\ blindpayOk[w] => blindpay # "customer"
    /\ privyOk[w] => privy = "deleted"

SweptMeansMerged == swept # "none" => account = "merged"

DeletionInv ==
    /\ TypeOK
    /\ \A k \in Keys : RequestInv(k)
    /\ \A w \in Workers : WorkerInv(w)
    /\ SweptMeansMerged
    /\ IdentityGoesLast

-----------------------------------------------------------------------------
(* What the repository's documents say of deletion, and the code does not. *)

\* "LOCAL_SCRUBBED: ... and the Stellar account was already closed."
ScrubbedMeansClosed == scrubbed => account # "open"

\* Only dust is swept to the treasury: "when in doubt, block".
OnlyDustIsSwept == swept # "above"
=============================================================================
