-------------------------- MODULE AccountDeletion --------------------------
(***************************************************************************)
(* The deletion of one account: a saga over the database, the Stellar      *)
(* ledger, BlindPay and Privy, run by the request that confirms it and     *)
(* finished by a cleanup job.                                              *)
(*                                                                         *)
(* The wallet's balance is either within the dust threshold or above it;   *)
(* a closure transaction sweeps the balance it was built for, and the      *)
(* ledger refuses it when the balance has changed since.  The job goes     *)
(* through its rows one by one: a run of it stands for one row here.       *)
(***************************************************************************)
EXTENDS Naturals, FiniteSets

CONSTANTS
    Keys,           \* idempotency keys of the account's deletion requests
    Handlers,       \* HTTP requests in progress
    Jobs,           \* overlapping runs of the cleanup job
    MaxAttempts,    \* ACCOUNT_DELETION_MAX_CLEANUP_RETRIES
    ReadsFail,      \* whether a read of the wallet's balances may fail
    NoKey

ASSUME MaxAttemptsAssumption == MaxAttempts \in Nat \ {0}
ASSUME ReadsFailAssumption == ReadsFail \in BOOLEAN
ASSUME WorkersAssumption == Handlers \cap Jobs = {} /\ NoKey \notin Keys

VARIABLES
    status,         \* AccountDeletionRequest.status ("absent": no row yet)
    closure,        \* closureUnsignedXdr, as the balance it sweeps ("none": not set)
    provider,       \* privyUserId is set
    attempts,       \* cleanupAttempts
    activated,      \* WalletAccount.isActivated
    scrubbed,       \* the account's rows were scrubbed, its wallet is inactive
    account,        \* the wallet on the ledger
    balance,        \* what it holds
    flying,         \* closure transactions the network may still apply
    swept,          \* what the closure that was applied took
    blindpay, privy,
    pc, key, expected, blindpayOk, privyOk, tries

rows   == <<status, closure, provider, attempts>>
local  == <<activated, scrubbed>>
ledger == <<account, balance, flying, swept>>
extern == <<blindpay, privy>>
answers == <<blindpayOk, privyOk>>
vars   == <<status, closure, provider, attempts, activated, scrubbed, account, balance,
            flying, swept, blindpay, privy, pc, key, expected, blindpayOk, privyOk, tries>>

Workers == Handlers \cup Jobs
Amounts == {"dust", "above"}

AccountDeletionStatus == {"REQUESTED", "PENDING_SIGNATURE", "CHAIN_CLOSED", "LOCAL_SCRUBBED",
                          "COMPLETED", "FAILED"}

TypeOK ==
    /\ status \in [Keys -> AccountDeletionStatus \cup {"absent"}]
    /\ closure \in [Keys -> Amounts \cup {"none"}]
    /\ provider \in [Keys -> BOOLEAN]
    /\ attempts \in [Keys -> 0 .. MaxAttempts]
    /\ activated \in BOOLEAN
    /\ scrubbed \in BOOLEAN
    /\ account \in {"none", "open", "merged"}
    /\ balance \in Amounts
    /\ flying \in SUBSET Amounts
    /\ swept \in Amounts \cup {"none"}
    /\ blindpay \in {"none", "customer", "deleted"}
    /\ privy \in {"alive", "deleted"}
    /\ pc \in [Workers -> {"idle", "eligible", "creating", "building", "saving",
                           "read", "submitting", "sent", "landed", "refused", "closed", "scrubbed",
                           "cleaning", "identity", "forgetting", "finishing",
                           "checking", "counting", "failing"}]
    /\ key \in [Workers -> Keys \cup {NoKey}]
    /\ expected \in [Workers -> Amounts \cup {"none"}]
    /\ blindpayOk \in [Workers -> BOOLEAN]
    /\ privyOk \in [Workers -> BOOLEAN]
    /\ tries \in [Workers -> 0 .. MaxAttempts]

Init ==
    /\ status = [k \in Keys |-> "absent"]
    /\ closure = [k \in Keys |-> "none"]
    /\ provider = [k \in Keys |-> FALSE]
    /\ attempts = [k \in Keys |-> 0]
    /\ activated \in BOOLEAN
    /\ scrubbed = FALSE
    /\ account = IF activated THEN "open" ELSE "none"
    /\ balance = "dust"
    /\ flying = {}
    /\ swept = "none"
    /\ blindpay \in {"none", "customer"}
    /\ privy = "alive"
    /\ pc = [w \in Workers |-> "idle"]
    /\ key = [w \in Workers |-> NoKey]
    /\ expected = [w \in Workers |-> "none"]
    /\ blindpayOk = [w \in Workers |-> FALSE]
    /\ privyOk = [w \in Workers |-> FALSE]
    /\ tries = [w \in Workers |-> 0]

-----------------------------------------------------------------------------
Take(w, to, k, xdr, n) ==
    /\ pc[w] = "idle"
    /\ pc' = [pc EXCEPT ![w] = to]
    /\ key' = [key EXCEPT ![w] = k]
    /\ expected' = [expected EXCEPT ![w] = xdr]
    /\ tries' = [tries EXCEPT ![w] = n]

Step(w, from, to) ==
    /\ pc[w] = from
    /\ pc' = [pc EXCEPT ![w] = to]
    /\ UNCHANGED <<key, tries>>

Return(w) ==
    /\ pc' = [pc EXCEPT ![w] = "idle"]
    /\ key' = [key EXCEPT ![w] = NoKey]
    /\ expected' = [expected EXCEPT ![w] = "none"]
    /\ tries' = [tries EXCEPT ![w] = 0]
    /\ blindpayOk' = [blindpayOk EXCEPT ![w] = FALSE]
    /\ privyOk' = [privyOk EXCEPT ![w] = FALSE]

\* check: a scrubbed account has no wallet to look at, one that was not activated
\* is not read, and balances that could not be read count as none.
Eligible ==
    \/ scrubbed
    \/ ~activated
    \/ account = "merged"
    \/ balance = "dust"
    \/ ReadsFail

(* requestDeletion                                                         *)

\* No row carries the key.  (A row that does is answered as it is.)
RequestCheck(h, k) ==
    /\ ~scrubbed
    /\ status[k] = "absent"
    /\ Eligible
    /\ Take(h, "eligible", k, "none", 0)
    /\ UNCHANGED <<rows, local, ledger, extern, answers>>

Open(k) == status[k] \in {"REQUESTED", "PENDING_SIGNATURE"}

\* An open request is used again, whatever its key.
RequestFindOpen(h) ==
    /\ pc[h] = "eligible"
    /\ \/ \E k \in Keys :
             /\ Open(k)
             /\ key' = [key EXCEPT ![h] = k]
             /\ pc' = [pc EXCEPT ![h] = "building"]
       \/ /\ \A k \in Keys : ~Open(k)
          /\ pc' = [pc EXCEPT ![h] = "creating"]
          /\ UNCHANGED key
    /\ UNCHANGED <<rows, local, ledger, extern, expected, answers, tries>>

\* The insert loses to a request that used the key meanwhile.
RequestCreate(h) ==
    LET k == key[h] IN
    /\ pc[h] = "creating"
    /\ \/ /\ status[k] = "absent"
          /\ Step(h, "creating", "building")
          /\ status' = [status EXCEPT ![k] = "REQUESTED"]
          /\ provider' = [provider EXCEPT ![k] = TRUE]
          /\ UNCHANGED <<expected, answers>>
       \/ /\ status[k] # "absent"
          /\ Return(h)
          /\ UNCHANGED <<status, provider>>
    /\ UNCHANGED <<closure, attempts, local, ledger, extern>>

\* A wallet that was never activated has nothing to close.
RequestNoClosure(h) ==
    /\ pc[h] = "building"
    /\ ~activated
    /\ Return(h)
    /\ UNCHANGED <<rows, local, ledger, extern>>

\* The balances come from the ledger, whatever the check saw.
RequestBuild(h) ==
    /\ activated
    /\ account = "open"
    /\ Step(h, "building", "saving")
    /\ expected' = [expected EXCEPT ![h] = balance]
    /\ UNCHANGED <<rows, local, ledger, extern, answers>>

\* An update by id.
RequestSave(h) ==
    LET k == key[h] IN
    /\ pc[h] = "saving"
    /\ status' = [status EXCEPT ![k] = "PENDING_SIGNATURE"]
    /\ closure' = [closure EXCEPT ![k] = expected[h]]
    /\ Return(h)
    /\ UNCHANGED <<provider, attempts, local, ledger, extern>>

-----------------------------------------------------------------------------
(* confirmDeletion                                                         *)

\* The row is read once.
ConfirmRead(h, k) ==
    /\ ~scrubbed
    /\ status[k] \notin {"absent", "COMPLETED", "FAILED"}
    /\ Take(h, "read", k, closure[k], 0)
    /\ UNCHANGED <<rows, local, ledger, extern, answers>>

ConfirmCheck(h) ==
    /\ Eligible
    /\ Step(h, "read", IF expected[h] = "none" THEN "closed" ELSE "submitting")
    /\ UNCHANGED <<rows, local, ledger, extern, expected, answers>>

CloseSubmit(h) ==
    /\ Step(h, "submitting", "sent")
    /\ flying' = flying \cup {expected[h]}
    /\ UNCHANGED <<rows, local, account, balance, swept, extern, expected, answers>>

\* Mutant: accepted by the network is taken for applied.
AcceptedIsSuccess(xdr) == xdr \in flying \/ swept = xdr

Success(xdr) == swept = xdr

CloseLanded(h) ==
    /\ Step(h, "sent", "landed")
    /\ Success(expected[h])
    /\ UNCHANGED <<rows, local, ledger, extern, expected, answers>>

CloseMark(h) ==
    /\ Step(h, "landed", "closed")
    /\ status' = [status EXCEPT ![key[h]] = "CHAIN_CLOSED"]
    /\ UNCHANGED <<closure, provider, attempts, local, ledger, extern, expected, answers>>

\* Mutant: a closure that fails does not stop the saga.
GoOn == "closed"

AfterRefusal == "refused"

\* Not the transaction that was built, refused, not answered in time, or the
\* row could not be marked.
CloseThrows(h) ==
    /\ \E from \in {"submitting", "sent", "landed"} : Step(h, from, AfterRefusal)
    /\ UNCHANGED <<rows, local, ledger, extern, expected, answers>>

CloseFail(h) ==
    /\ pc[h] = "refused"
    /\ status' = [status EXCEPT ![key[h]] = "FAILED"]
    /\ Return(h)
    /\ UNCHANGED <<closure, provider, attempts, local, ledger, extern>>

\* One database transaction; a second one changes nothing that matters here.
Scrub(h) ==
    /\ Step(h, "closed", "scrubbed")
    /\ scrubbed' = TRUE
    /\ UNCHANGED <<rows, activated, ledger, extern, expected, answers>>

ScrubMark(h) ==
    /\ Step(h, "scrubbed", "cleaning")
    /\ status' = [status EXCEPT ![key[h]] = "LOCAL_SCRUBBED"]
    /\ UNCHANGED <<closure, provider, attempts, local, ledger, extern, expected, answers>>

\* The handler throws at a read, a gate or a write, or its instance dies.
Abort(h) ==
    /\ pc[h] # "idle"
    /\ Return(h)
    /\ UNCHANGED <<rows, local, ledger, extern>>

-----------------------------------------------------------------------------
(* cleanUpExternals, of the confirming request and of the job.             *)

\* A call that fails may have been carried out; one that finds nothing succeeds.
CleanBlindPay(w) ==
    /\ Step(w, "cleaning", "identity")
    /\ \E ok \in BOOLEAN :
          /\ blindpay = "none" => ok
          /\ blindpayOk' = [blindpayOk EXCEPT ![w] = ok]
          /\ \/ blindpay' = (IF blindpay = "none" THEN "none" ELSE "deleted")
             \/ ~ok /\ UNCHANGED blindpay
    /\ UNCHANGED <<rows, local, ledger, privy, expected, privyOk>>

\* Mutant: one of the two is enough.
CompletedByOne(w) == blindpayOk[w] \/ privyOk[w]

Completed(w) == blindpayOk[w] /\ privyOk[w]

CleanPrivy(w) ==
    /\ Step(w, "identity", "forgetting")
    /\ \E ok \in BOOLEAN :
          /\ privyOk' = [privyOk EXCEPT ![w] = ok]
          /\ privy' = "deleted" \/ (~ok /\ UNCHANGED privy)
    /\ UNCHANGED <<rows, local, ledger, blindpay, expected, blindpayOk>>

\* The account's other requests forget the identity.
CleanForget(w) ==
    /\ Step(w, "forgetting", "finishing")
    /\ provider' = [k \in Keys |-> provider[k] /\ (Completed(w) => k = key[w] \/ status[k] = "FAILED")]
    /\ UNCHANGED <<status, closure, attempts, local, ledger, extern, expected, answers>>

CleanFinish(w) ==
    LET k == key[w] IN
    /\ pc[w] = "finishing"
    /\ IF Completed(w)
       THEN /\ status' = [status EXCEPT ![k] = "COMPLETED"]
            /\ provider' = [provider EXCEPT ![k] = FALSE]
       ELSE UNCHANGED <<status, provider>>
    /\ \/ w \in Handlers /\ Return(w)
       \/ w \in Jobs /\ Step(w, "finishing", "checking") /\ UNCHANGED <<expected, answers>>
    /\ UNCHANGED <<closure, attempts, local, ledger, extern>>

-----------------------------------------------------------------------------
(* The cleanup job.                                                        *)

Pending(k) == status[k] = "LOCAL_SCRUBBED" /\ attempts[k] < MaxAttempts

JobTake(j, k) ==
    /\ Pending(k)
    /\ Take(j, IF provider[k] THEN "cleaning" ELSE "failing", k, "none", attempts[k] + 1)
    /\ UNCHANGED <<rows, local, ledger, extern, answers>>

\* A database error inside cleanUpExternals counts as an attempt.
JobCleanThrows(j) ==
    /\ \E from \in {"cleaning", "identity", "forgetting", "finishing"} : Step(j, from, "checking")
    /\ UNCHANGED <<rows, local, ledger, extern, expected, answers>>

\* Mutant: one attempt more, which the next run will not make.
ExhaustedLater(n) == n > MaxAttempts

Exhausted(n) == n >= MaxAttempts

JobCheck(j) ==
    /\ pc[j] = "checking"
    /\ \/ /\ status[key[j]] = "COMPLETED"
          /\ Return(j)
       \/ /\ status[key[j]] # "COMPLETED"
          /\ Step(j, "checking", IF Exhausted(tries[j]) THEN "failing" ELSE "counting")
          /\ UNCHANGED <<expected, answers>>
    /\ UNCHANGED <<rows, local, ledger, extern>>

JobCount(j) ==
    /\ pc[j] = "counting"
    /\ attempts' = [attempts EXCEPT ![key[j]] = tries[j]]
    /\ Return(j)
    /\ UNCHANGED <<status, closure, provider, local, ledger, extern>>

\* An update by id.
JobFail(j) ==
    /\ pc[j] = "failing"
    /\ status' = [status EXCEPT ![key[j]] = "FAILED"]
    /\ Return(j)
    /\ UNCHANGED <<closure, provider, attempts, local, ledger, extern>>

JobCrash(j) ==
    /\ pc[j] # "idle"
    /\ Return(j)
    /\ UNCHANGED <<rows, local, ledger, extern>>

-----------------------------------------------------------------------------
(* The ledger and the user's own use of the wallet.                        *)

\* The closure is applied when the wallet holds exactly what it sweeps.
ClosureApplied(xdr) ==
    /\ xdr \in flying
    /\ account = "open"
    /\ balance = xdr
    /\ account' = "merged"
    /\ swept' = xdr
    /\ flying' = flying \ {xdr}
    /\ UNCHANGED <<rows, local, balance, extern, pc, key, expected, answers, tries>>

ClosureDropped(xdr) ==
    /\ xdr \in flying
    /\ flying' = flying \ {xdr}
    /\ UNCHANGED <<rows, local, account, balance, swept, extern, pc, key, expected, answers, tries>>

BalanceChanges ==
    /\ account = "open"
    /\ \E b \in Amounts : b # balance /\ balance' = b
    /\ UNCHANGED <<rows, local, account, flying, swept, extern, pc, key, expected, answers, tries>>

-----------------------------------------------------------------------------
Clean(w) == CleanBlindPay(w) \/ CleanPrivy(w) \/ CleanForget(w) \/ CleanFinish(w)

HandlerNext(h) ==
    \/ \E k \in Keys : RequestCheck(h, k) \/ ConfirmRead(h, k)
    \/ RequestFindOpen(h) \/ RequestCreate(h) \/ RequestNoClosure(h)
    \/ RequestBuild(h) \/ RequestSave(h)
    \/ ConfirmCheck(h) \/ CloseSubmit(h) \/ CloseLanded(h) \/ CloseMark(h)
    \/ CloseThrows(h) \/ CloseFail(h) \/ Scrub(h) \/ ScrubMark(h)
    \/ Clean(h)
    \/ Abort(h)

JobNext(j) ==
    \/ \E k \in Keys : JobTake(j, k)
    \/ Clean(j)
    \/ JobCleanThrows(j) \/ JobCheck(j) \/ JobCount(j) \/ JobFail(j)
    \/ JobCrash(j)

Next ==
    \/ \E h \in Handlers : HandlerNext(h)
    \/ \E j \in Jobs : JobNext(j)
    \/ \E xdr \in Amounts : ClosureApplied(xdr) \/ ClosureDropped(xdr)
    \/ BalanceChanges

Spec == Init /\ [][Next]_vars

\* A run of the job comes to an end for row k, however it ends.
JobEnds(j, k) ==
    /\ key[j] = k
    /\ JobCheck(j) \/ JobCount(j) \/ JobFail(j)
    /\ pc'[j] = "idle"

(* In one instance at least the job runs every fifteen minutes, comes to every *)
(* pending row and goes on; of its runs over a row not every one dies on the   *)
(* way.  No other run, no request and no partner has to go on or to answer.    *)
Fairness ==
    \E j \in Jobs :
        /\ WF_vars(JobNext(j))
        /\ \A k \in Keys :
              /\ WF_vars(JobTake(j, k))
              /\ <>[][~JobTake(j, k)]_vars \/ []<><<JobEnds(j, k)>>_vars

FairSpec == Spec /\ Fairness
=============================================================================
