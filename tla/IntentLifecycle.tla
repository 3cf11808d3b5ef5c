-------------------------- MODULE IntentLifecycle --------------------------
(***************************************************************************)
(* Deposit and withdrawal intents, from the row's creation to its          *)
(* confirmation.  deposits.service.ts and withdrawals.service.ts carry the *)
(* same handlers over two tables of the same shape, so one table is        *)
(* modelled.                                                               *)
(*                                                                         *)
(* A request handler is asynchronous: every await lets other handlers and  *)
(* jobs run.  It is split there, with a program counter per handler; what  *)
(* it read earlier is kept in its local state and may be stale.  The jobs  *)
(* run once a minute or once an hour in every instance of the backend, and *)
(* the scheduler does not wait for the previous run: runs overlap.         *)
(***************************************************************************)
EXTENDS Naturals, FiniteSets

CONSTANTS
    Intents,    \* idempotency keys, each naming at most one row
    Requests,   \* HTTP requests in progress
    Jobs,       \* overlapping runs of the reconciliation job
    Take,       \* rows one reconciliation run reads (50 in the code)
    NoIntent    \* "not working on any intent"

ASSUME TakeAssumption == Take \in Nat \ {0}
ASSUME NoIntentAssumption == NoIntent \notin Intents

VARIABLES
    status,         \* DepositIntent.status ("absent": no row yet, "purged": row deleted)
    failureCode,    \* DepositIntent.failureCode
    hasSignedXdr,   \* DepositIntent.signedXdr is set
    record,         \* TransactionRecord of the intent, by its status ("UNNAMED": PENDING without a txHash)
    late,           \* now > expiresAt
    chain,          \* what the network did with the intent's one transaction
    pushed,         \* intents whose confirmation was handed to the push outbox
    reqPc, reqIntent,
    jobPc, jobBatch, jobIntent

rows    == <<status, failureCode, hasSignedXdr, record, late>>
reqVars == <<reqPc, reqIntent>>
jobVars == <<jobPc, jobBatch, jobIntent>>
vars    == <<status, failureCode, hasSignedXdr, record, late, chain, pushed,
             reqPc, reqIntent, jobPc, jobBatch, jobIntent>>

IntentStatus == {"CREATED", "XDR_GENERATED", "SIGNED_XDR_RECEIVED",
                 "SUBMITTED", "CONFIRMED", "FAILED"}

\* One code of each side of the split stands for all of that side.
UserActionable == {"INSUFFICIENT_BALANCE"}
FailureCode    == UserActionable \cup {"XDR_GENERATION_FAILED"}

TypeOK ==
    /\ status \in [Intents -> IntentStatus \cup {"absent", "purged"}]
    /\ failureCode \in [Intents -> FailureCode \cup {"none"}]
    /\ hasSignedXdr \in [Intents -> BOOLEAN]
    /\ record \in [Intents -> {"none", "PENDING", "UNNAMED", "CONFIRMED"}]
    /\ late \in [Intents -> BOOLEAN]
    /\ chain \in [Intents -> {"idle", "inflight", "landed", "void"}]
    /\ pushed \in SUBSET Intents
    /\ reqPc \in [Requests -> {"idle", "inserting", "building", "checked",
                               "signed", "sent", "confirmed", "unconfirmed"}]
    /\ reqIntent \in [Requests -> Intents \cup {NoIntent}]
    /\ jobPc \in [Jobs -> {"idle", "next", "sent", "landed", "notify"}]
    /\ jobBatch \in [Jobs -> SUBSET Intents]
    /\ jobIntent \in [Jobs -> Intents \cup {NoIntent}]

Init ==
    /\ status = [i \in Intents |-> "absent"]
    /\ failureCode = [i \in Intents |-> "none"]
    /\ hasSignedXdr = [i \in Intents |-> FALSE]
    /\ record = [i \in Intents |-> "none"]
    /\ late = [i \in Intents |-> FALSE]
    /\ chain = [i \in Intents |-> "idle"]
    /\ pushed = {}
    /\ reqPc = [r \in Requests |-> "idle"]
    /\ reqIntent = [r \in Requests |-> NoIntent]
    /\ jobPc = [j \in Jobs |-> "idle"]
    /\ jobBatch = [j \in Jobs |-> {}]
    /\ jobIntent = [j \in Jobs |-> NoIntent]

-----------------------------------------------------------------------------
(* The client's view of a row.                                             *)

ClientState(i) ==
    IF status[i] = "FAILED"
    THEN IF failureCode[i] \in UserActionable THEN "REJECTED" ELSE "FAILED"
    ELSE IF status[i] \in {"SIGNED_XDR_RECEIVED", "SUBMITTED", "CONFIRMED"}
    THEN IF status[i] = "CONFIRMED" \/ record[i] = "CONFIRMED" THEN "SUCCESS" ELSE "PENDING"
    ELSE IF status[i] \in {"CREATED", "XDR_GENERATED"}
    THEN IF late[i] THEN "EXPIRED" ELSE "PENDING_SIGNATURE"
    ELSE status[i]

\* listDeposits and listWithdrawals put a confirmed record over the row's status.
HistoryState(i) == IF record[i] = "CONFIRMED" THEN "SUCCESS" ELSE ClientState(i)

-----------------------------------------------------------------------------
(* Request handlers.                                                       *)

Step(r, from, to) ==
    /\ reqPc[r] = from
    /\ reqPc' = [reqPc EXCEPT ![r] = to]
    /\ UNCHANGED reqIntent

Return(r) ==
    /\ reqPc' = [reqPc EXCEPT ![r] = "idle"]
    /\ reqIntent' = [reqIntent EXCEPT ![r] = NoIntent]

\* createDeposit: no row carries the key.  (A row that does is returned as it is.)
CreateLookup(r, i) ==
    /\ reqPc[r] = "idle"
    /\ status[i] = "absent"
    /\ reqPc' = [reqPc EXCEPT ![r] = "inserting"]
    /\ reqIntent' = [reqIntent EXCEPT ![r] = i]
    /\ UNCHANGED <<rows, chain, pushed, jobVars>>

\* The gates passed; the insert loses to a request that used the key meanwhile.
CreateInsert(r) ==
    LET i == reqIntent[r] IN
    /\ reqPc[r] = "inserting"
    /\ \/ /\ status[i] = "absent"
          /\ status' = [status EXCEPT ![i] = "CREATED"]
          /\ reqPc' = [reqPc EXCEPT ![r] = "building"]
          /\ UNCHANGED reqIntent
       \/ /\ status[i] # "absent"
          /\ Return(r)
          /\ UNCHANGED status
    /\ UNCHANGED <<failureCode, hasSignedXdr, record, late, chain, pushed, jobVars>>

BuildXdr(r) ==
    /\ reqPc[r] = "building"
    /\ status' = [status EXCEPT ![reqIntent[r]] = "XDR_GENERATED"]
    /\ Return(r)
    /\ UNCHANGED <<failureCode, hasSignedXdr, record, late, chain, pushed, jobVars>>

BuildXdrFails(r, code) ==
    /\ reqPc[r] = "building"
    /\ status' = [status EXCEPT ![reqIntent[r]] = "FAILED"]
    /\ failureCode' = [failureCode EXCEPT ![reqIntent[r]] = code]
    /\ Return(r)
    /\ UNCHANGED <<hasSignedXdr, record, late, chain, pushed, jobVars>>

\* submitSignedXdr: the status and the expiry that were read, once.
Submittable(i) ==
    /\ status[i] \notin {"absent", "purged"}
    /\ status[i] \notin {"CONFIRMED", "SUBMITTED", "FAILED", "CREATED"}
    /\ ~late[i]

SubmitCheck(r, i) ==
    /\ reqPc[r] = "idle"
    /\ Submittable(i)
    /\ reqPc' = [reqPc EXCEPT ![r] = "checked"]
    /\ reqIntent' = [reqIntent EXCEPT ![r] = i]
    /\ UNCHANGED <<rows, chain, pushed, jobVars>>

\* The write of the signed XDR names the row only by id.  The hash pin makes the
\* fee-bumped XDR the same transaction whoever submits it.
StoreSigned(i) ==
    /\ status' = [status EXCEPT ![i] = "SIGNED_XDR_RECEIVED"]
    /\ hasSignedXdr' = [hasSignedXdr EXCEPT ![i] = TRUE]

SubmitSign(r) ==
    /\ Step(r, "checked", "signed")
    /\ status[reqIntent[r]] # "purged"
    /\ StoreSigned(reqIntent[r])
    /\ UNCHANGED <<failureCode, record, late, chain, pushed, jobVars>>

\* sendTransaction reaches the network; sending again what it already has is a no-op.
Deliver(i) ==
    chain' = [chain EXCEPT ![i] = IF @ = "idle" THEN "inflight" ELSE @]

SubmitSend(r) ==
    /\ Step(r, "signed", "sent")
    /\ Deliver(reqIntent[r])
    /\ UNCHANGED <<rows, pushed, jobVars>>

\* Mutant: accepted by the network is taken for applied.
AcceptedIsSuccess(i) == chain[i] \in {"inflight", "landed"}

\* result.success is true only of a transaction the network has applied.
Success(i) == chain[i] = "landed"

SubmitReply(r) ==
    /\ \/ /\ Step(r, "sent", "confirmed")
          /\ Success(reqIntent[r])
       \/ Step(r, "sent", "unconfirmed")
    /\ UNCHANGED <<rows, chain, pushed, jobVars>>

IntentAfter(success) == IF success THEN "CONFIRMED" ELSE "SUBMITTED"

\* The hash is what the SDK answered, and the column is optional.
RecordAfter(success) == IF success THEN {"CONFIRMED"} ELSE {"PENDING", "UNNAMED"}

\* Mutant: the record is upserted.
UpsertSubmission(i, success) ==
    /\ status' = [status EXCEPT ![i] = IntentAfter(success)]
    /\ \E state \in RecordAfter(success) : record' = [record EXCEPT ![i] = state]

\* One database transaction: the status and the record, or neither when the
\* intent already has a record (depositIntentId is unique).
RecordSubmission(i, success) ==
    \/ /\ record[i] = "none"
       /\ status' = [status EXCEPT ![i] = IntentAfter(success)]
       /\ \E state \in RecordAfter(success) : record' = [record EXCEPT ![i] = state]
    \/ /\ record[i] # "none"
       /\ UNCHANGED <<status, record>>

SubmitCommit(r) ==
    /\ reqPc[r] \in {"confirmed", "unconfirmed"}
    /\ RecordSubmission(reqIntent[r], reqPc[r] = "confirmed")
    /\ Return(r)
    /\ UNCHANGED <<failureCode, hasSignedXdr, late, chain, pushed, jobVars>>

\* A throw out of the handler (upstream error, timeout, lost database, hash pin)
\* or the death of its instance: nothing that was written is undone.
Abort(r) ==
    /\ reqPc[r] # "idle"
    /\ Return(r)
    /\ UNCHANGED <<rows, chain, pushed, jobVars>>

-----------------------------------------------------------------------------
(* The reconciliation job.                                                 *)

PendingRecords == {i \in Intents : record[i] \in {"PENDING", "UNNAMED"}}

\* findMany(take: Take) without an order: any Take of the pending records.
ReconStart(j) ==
    /\ jobPc[j] = "idle"
    /\ PendingRecords # {}
    /\ \E batch \in SUBSET PendingRecords :
          /\ batch = PendingRecords \/ Cardinality(batch) = Take
          /\ Cardinality(batch) <= Take
          /\ jobBatch' = [jobBatch EXCEPT ![j] = batch]
    /\ jobPc' = [jobPc EXCEPT ![j] = "next"]
    /\ UNCHANGED <<rows, chain, pushed, reqVars, jobIntent>>

\* Mutant: rows past their expiry are passed over.
ResendableInTime(i) == hasSignedXdr[i] /\ ~late[i]

Resendable(i) == hasSignedXdr[i]

\* Records that name no transaction, or whose intent kept no signed XDR.
PassedOver(j) == {i \in jobBatch[j] : record[i] = "UNNAMED" \/ ~Resendable(i)}

ReconPass(j) ==
    /\ jobPc[j] = "next"
    /\ PassedOver(j) # {}
    /\ jobBatch' = [jobBatch EXCEPT ![j] = @ \ PassedOver(j)]
    /\ UNCHANGED <<rows, chain, pushed, reqVars, jobPc, jobIntent>>

\* The next row of the batch.
ReconSend(j, i) ==
    /\ jobPc[j] = "next"
    /\ i \in jobBatch[j]
    /\ i \notin PassedOver(j)
    /\ Deliver(i)
    /\ jobBatch' = [jobBatch EXCEPT ![j] = @ \ {i}]
    /\ jobPc' = [jobPc EXCEPT ![j] = "sent"]
    /\ jobIntent' = [jobIntent EXCEPT ![j] = i]
    /\ UNCHANGED <<rows, pushed, reqVars>>

ReconReply(j) ==
    /\ jobPc[j] = "sent"
    /\ Success(jobIntent[j])
    /\ jobPc' = [jobPc EXCEPT ![j] = "landed"]
    /\ UNCHANGED <<rows, chain, pushed, reqVars, jobBatch, jobIntent>>

ReconCommit(j) ==
    LET i == jobIntent[j] IN
    /\ jobPc[j] = "landed"
    /\ record' = [record EXCEPT ![i] = "CONFIRMED"]
    /\ status' = [status EXCEPT ![i] = "CONFIRMED"]
    /\ jobPc' = [jobPc EXCEPT ![j] = "notify"]
    /\ UNCHANGED <<failureCode, hasSignedXdr, late, chain, pushed, reqVars,
                   jobBatch, jobIntent>>

\* The outbox row's dedupe key makes a second notification a no-op.
ReconNotify(j) ==
    /\ jobPc[j] = "notify"
    /\ pushed' = pushed \cup {jobIntent[j]}
    /\ jobPc' = [jobPc EXCEPT ![j] = "next"]
    /\ jobIntent' = [jobIntent EXCEPT ![j] = NoIntent]
    /\ UNCHANGED <<rows, chain, reqVars, jobBatch>>

\* success = false, or anything thrown while working on the row: go on with the next.
ReconSkip(j) ==
    /\ jobPc[j] \in {"sent", "landed", "notify"}
    /\ jobPc' = [jobPc EXCEPT ![j] = "next"]
    /\ jobIntent' = [jobIntent EXCEPT ![j] = NoIntent]
    /\ UNCHANGED <<rows, chain, pushed, reqVars, jobBatch>>

ReconEnd(j) ==
    /\ jobPc[j] = "next"
    /\ jobBatch[j] = {}
    /\ jobPc' = [jobPc EXCEPT ![j] = "idle"]
    /\ UNCHANGED <<rows, chain, pushed, reqVars, jobBatch, jobIntent>>

\* The instance running the job dies.
ReconCrash(j) ==
    /\ jobPc[j] # "idle"
    /\ jobPc' = [jobPc EXCEPT ![j] = "idle"]
    /\ jobBatch' = [jobBatch EXCEPT ![j] = {}]
    /\ jobIntent' = [jobIntent EXCEPT ![j] = NoIntent]
    /\ UNCHANGED <<rows, chain, pushed, reqVars>>

-----------------------------------------------------------------------------
(* The hourly expiry job, the clock and the network.                       *)

\* Mutant: everything not settled yet is taken for expirable.
ExpirableUnsettled ==
    {i \in Intents : status[i] \in IntentStatus \ {"CONFIRMED", "FAILED"} /\ late[i]}

Expirable == {i \in Intents : status[i] \in {"CREATED", "XDR_GENERATED"} /\ late[i]}

\* updateMany over every late row; failureCode is not among the columns it sets.
ExpireIntents ==
    /\ Expirable # {}
    /\ status' = [i \in Intents |-> IF i \in Expirable THEN "FAILED" ELSE status[i]]
    /\ UNCHANGED <<failureCode, hasSignedXdr, record, late, chain, pushed, reqVars, jobVars>>

\* Mutant: the purge looks at the age and the record only.
PurgeableAnyStatus ==
    {i \in Intents : /\ status[i] \in IntentStatus
                     /\ record[i] = "none"
                     /\ \A r \in Requests : reqIntent[r] # i}

\* Thirty days without an update: no request that is still running read the row before it.
Purgeable ==
    {i \in Intents : /\ status[i] = "FAILED"
                     /\ record[i] = "none"
                     /\ \A r \in Requests : reqIntent[r] # i}

PurgeFailed(old) ==
    /\ old # {}
    /\ status' = [i \in Intents |-> IF i \in old THEN "purged" ELSE status[i]]
    /\ UNCHANGED <<failureCode, hasSignedXdr, record, late, chain, pushed, reqVars, jobVars>>

\* The clock passes expiresAt, 24 hours after the insert: the request that
\* inserted the row has ended by then.
ExpiryPasses(i) ==
    /\ status[i] \notin {"absent", "purged"}
    /\ ~late[i]
    /\ \A r \in Requests : ~(reqPc[r] = "building" /\ reqIntent[r] = i)
    /\ late' = [late EXCEPT ![i] = TRUE]
    /\ UNCHANGED <<status, failureCode, hasSignedXdr, record, chain, pushed, reqVars, jobVars>>

\* A transaction the network holds is applied, or rejected for good.
Settle(i) ==
    /\ chain[i] = "inflight"
    /\ \E outcome \in {"landed", "void"} : chain' = [chain EXCEPT ![i] = outcome]
    /\ UNCHANGED <<rows, pushed, reqVars, jobVars>>

-----------------------------------------------------------------------------
RequestNext(r) ==
    \/ \E i \in Intents : CreateLookup(r, i) \/ SubmitCheck(r, i)
    \/ CreateInsert(r)
    \/ BuildXdr(r)
    \/ \E code \in FailureCode : BuildXdrFails(r, code)
    \/ SubmitSign(r)
    \/ SubmitSend(r)
    \/ SubmitReply(r)
    \/ SubmitCommit(r)
    \/ Abort(r)

JobNext(j) ==
    \/ ReconStart(j)
    \/ ReconPass(j)
    \/ \E i \in Intents : ReconSend(j, i)
    \/ ReconReply(j)
    \/ ReconCommit(j)
    \/ ReconNotify(j)
    \/ ReconSkip(j)
    \/ ReconEnd(j)
    \/ ReconCrash(j)

Next ==
    \/ \E r \in Requests : RequestNext(r)
    \/ \E j \in Jobs : JobNext(j)
    \/ ExpireIntents
    \/ \E old \in SUBSET Purgeable : PurgeFailed(old)
    \/ \E i \in Intents : ExpiryPasses(i) \/ Settle(i)

Spec == Init /\ [][Next]_vars

(* The cron keeps starting runs and a run that is alive keeps going (WF).  A *)
(* row that a run would read again and again is not dropped for ever by a    *)
(* crash, an upstream error or a failed commit at the same point (SF).  A    *)
(* request takes its next step unless it aborts (WF): its client may leave.  *)
Fairness ==
    /\ \A j \in Jobs :
          /\ WF_vars(ReconStart(j))
          /\ WF_vars(ReconPass(j))
          /\ WF_vars(ReconEnd(j))
          /\ WF_vars(ReconSkip(j))
          /\ \A i \in Intents : SF_vars(ReconSend(j, i))
          /\ SF_vars(ReconReply(j))
          /\ SF_vars(ReconCommit(j))
    /\ \A r \in Requests :
          WF_vars(SubmitSign(r) \/ SubmitSend(r) \/ SubmitReply(r) \/ SubmitCommit(r))
    /\ WF_vars(ExpireIntents)

FairSpec == Spec /\ Fairness
=============================================================================
