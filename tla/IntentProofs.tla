---------------------------- MODULE IntentProofs ----------------------------
(***************************************************************************)
(* The safety of deposit and withdrawal intents, for any number of         *)
(* intents, handlers and job runs: every action preserves IntentInv.       *)
(***************************************************************************)
EXTENDS IntentProperties, TLAPS

USE NoIntentAssumption

\* The initial states satisfy the invariant.
LEMMA InitInv == Init => IntentInv
BY DEF Init, IntentInv, TypeOK, RowInv, HandlerInv, OneBuilder, JobInv,
       Authorised, Landed, IntentStatus, FailureCode, UserActionable

\* Creating a row touches no other row, and gives the key one builder.
LEMMA CreateStep ==
    ASSUME IntentInv, NEW r \in Requests,
           \/ \E i \in Intents : CreateLookup(r, i)
           \/ CreateInsert(r)
    PROVE  IntentInv'
<1> USE DEF IntentInv, TypeOK, IntentStatus, FailureCode, UserActionable, Return,
            rows, reqVars, jobVars
<1>1. CASE \E i \in Intents : CreateLookup(r, i)
  <2>1. PICK i \in Intents : CreateLookup(r, i)
    BY <1>1
  <2>2. TypeOK'
    BY <2>1 DEF CreateLookup
  <2>3. ASSUME NEW k \in Intents PROVE RowInv(k)'
    BY <2>1 DEF CreateLookup, RowInv, Authorised, Landed
  <2>4. ASSUME NEW q \in Requests PROVE HandlerInv(q)'
    BY <2>1 DEF CreateLookup, HandlerInv, Landed
  <2>5. OneBuilder'
    BY <2>1 DEF CreateLookup, OneBuilder
  <2>6. ASSUME NEW j \in Jobs PROVE JobInv(j)'
    BY <2>1 DEF CreateLookup, JobInv, Landed
  <2> QED
    BY <2>2, <2>3, <2>4, <2>5, <2>6
<1>2. CASE CreateInsert(r)
  <2>1. TypeOK'
    BY <1>2 DEF CreateInsert, HandlerInv
  <2>2. ASSUME NEW k \in Intents PROVE RowInv(k)'
    BY <1>2 DEF CreateInsert, RowInv, Authorised, Landed, HandlerInv
  <2>3. ASSUME NEW q \in Requests PROVE HandlerInv(q)'
    BY <1>2 DEF CreateInsert, HandlerInv, Landed, RowInv
  <2>4. OneBuilder'
    BY <1>2 DEF CreateInsert, OneBuilder, HandlerInv
  <2>5. ASSUME NEW j \in Jobs PROVE JobInv(j)'
    BY <1>2 DEF CreateInsert, JobInv, Landed
  <2> QED
    BY <2>1, <2>2, <2>3, <2>4, <2>5
<1> QED
  BY <1>1, <1>2

\* Only its builder moves a CREATED row before it expires.
LEMMA BuildStep ==
    ASSUME IntentInv, NEW r \in Requests,
           \/ BuildXdr(r)
           \/ \E code \in FailureCode : BuildXdrFails(r, code)
    PROVE  IntentInv'
<1> USE DEF IntentInv, TypeOK, IntentStatus, FailureCode, UserActionable, Return,
            rows, reqVars, jobVars
<1>1. CASE BuildXdr(r)
  <2>1. TypeOK'
    BY <1>1 DEF BuildXdr, HandlerInv
  <2>2. ASSUME NEW k \in Intents PROVE RowInv(k)'
    BY <1>1 DEF BuildXdr, RowInv, Authorised, Landed, HandlerInv
  <2>3. ASSUME NEW q \in Requests PROVE HandlerInv(q)'
    BY <1>1 DEF BuildXdr, HandlerInv, Landed, RowInv, Authorised, OneBuilder
  <2>4. OneBuilder'
    BY <1>1 DEF BuildXdr, OneBuilder, HandlerInv
  <2>5. ASSUME NEW j \in Jobs PROVE JobInv(j)'
    BY <1>1 DEF BuildXdr, JobInv, Landed, HandlerInv, RowInv, Authorised
  <2> QED
    BY <2>1, <2>2, <2>3, <2>4, <2>5
<1>2. CASE \E code \in FailureCode : BuildXdrFails(r, code)
  <2>1. PICK code \in FailureCode : BuildXdrFails(r, code)
    BY <1>2
  <2>2. TypeOK'
    BY <2>1 DEF BuildXdrFails, HandlerInv
  <2>3. ASSUME NEW k \in Intents PROVE RowInv(k)'
    BY <2>1 DEF BuildXdrFails, RowInv, Authorised, Landed, HandlerInv
  <2>4. ASSUME NEW q \in Requests PROVE HandlerInv(q)'
    BY <2>1 DEF BuildXdrFails, HandlerInv, Landed, RowInv, Authorised, OneBuilder
  <2>5. OneBuilder'
    BY <2>1 DEF BuildXdrFails, OneBuilder, HandlerInv
  <2>6. ASSUME NEW j \in Jobs PROVE JobInv(j)'
    BY <2>1 DEF BuildXdrFails, JobInv, Landed, HandlerInv, RowInv, Authorised
  <2> QED
    BY <2>2, <2>3, <2>4, <2>5, <2>6
<1> QED
  BY <1>1, <1>2

\* However stale the row a submission read, what it writes keeps the row consistent
\* with the network and with the record.
LEMMA SubmitStep ==
    ASSUME IntentInv, NEW r \in Requests,
           \/ \E i \in Intents : SubmitCheck(r, i)
           \/ SubmitSign(r)
           \/ SubmitSend(r)
           \/ SubmitReply(r)
           \/ SubmitCommit(r)
           \/ Abort(r)
    PROVE  IntentInv'
<1> USE DEF IntentInv, TypeOK, IntentStatus, FailureCode, UserActionable, Return,
            rows, reqVars, jobVars
<1>1. CASE \E i \in Intents : SubmitCheck(r, i)
  <2>1. PICK i \in Intents : SubmitCheck(r, i)
    BY <1>1
  <2>2. TypeOK'
    BY <2>1 DEF SubmitCheck, Submittable
  <2>3. ASSUME NEW k \in Intents PROVE RowInv(k)'
    BY <2>1 DEF SubmitCheck, Submittable, RowInv, Authorised, Landed
  <2>4. ASSUME NEW q \in Requests PROVE HandlerInv(q)'
    BY <2>1 DEF SubmitCheck, Submittable, HandlerInv, Landed, RowInv, Authorised
  <2>5. OneBuilder'
    BY <2>1 DEF SubmitCheck, Submittable, OneBuilder
  <2>6. ASSUME NEW j \in Jobs PROVE JobInv(j)'
    BY <2>1 DEF SubmitCheck, Submittable, JobInv, Landed
  <2> QED
    BY <2>2, <2>3, <2>4, <2>5, <2>6
<1>2. CASE SubmitSign(r)
  <2>1. TypeOK'
    BY <1>2 DEF SubmitSign, Step, StoreSigned, HandlerInv
  <2>2. ASSUME NEW k \in Intents PROVE RowInv(k)'
    BY <1>2 DEF SubmitSign, Step, StoreSigned, RowInv, Authorised, Landed, HandlerInv
  <2>3. ASSUME NEW q \in Requests PROVE HandlerInv(q)'
    BY <1>2 DEF SubmitSign, Step, StoreSigned, HandlerInv, Landed, RowInv, Authorised
  <2>4. OneBuilder'
    BY <1>2 DEF SubmitSign, Step, StoreSigned, OneBuilder
  <2>5. ASSUME NEW j \in Jobs PROVE JobInv(j)'
    BY <1>2 DEF SubmitSign, Step, StoreSigned, JobInv, Landed, HandlerInv
  <2> QED
    BY <2>1, <2>2, <2>3, <2>4, <2>5
<1>3. CASE SubmitSend(r)
  <2>1. TypeOK'
    BY <1>3 DEF SubmitSend, Step, Deliver, HandlerInv
  <2>2. ASSUME NEW k \in Intents PROVE RowInv(k)'
    BY <1>3 DEF SubmitSend, Step, Deliver, RowInv, Authorised, Landed, HandlerInv
  <2>3. ASSUME NEW q \in Requests PROVE HandlerInv(q)'
    BY <1>3 DEF SubmitSend, Step, Deliver, HandlerInv, Landed
  <2>4. OneBuilder'
    BY <1>3 DEF SubmitSend, Step, Deliver, OneBuilder
  <2>5. ASSUME NEW j \in Jobs PROVE JobInv(j)'
    BY <1>3 DEF SubmitSend, Step, Deliver, JobInv, Landed
  <2> QED
    BY <2>1, <2>2, <2>3, <2>4, <2>5
<1>4. CASE SubmitReply(r)
  <2>1. TypeOK'
    BY <1>4 DEF SubmitReply, Step, Success, HandlerInv
  <2>2. ASSUME NEW k \in Intents PROVE RowInv(k)'
    BY <1>4 DEF SubmitReply, Step, Success, RowInv, Authorised, Landed
  <2>3. ASSUME NEW q \in Requests PROVE HandlerInv(q)'
    BY <1>4 DEF SubmitReply, Step, Success, HandlerInv, Landed
  <2>4. OneBuilder'
    BY <1>4 DEF SubmitReply, Step, Success, OneBuilder
  <2>5. ASSUME NEW j \in Jobs PROVE JobInv(j)'
    BY <1>4 DEF SubmitReply, Step, Success, JobInv, Landed
  <2> QED
    BY <2>1, <2>2, <2>3, <2>4, <2>5
<1>5. CASE SubmitCommit(r)
  <2>1. TypeOK'
    BY <1>5 DEF SubmitCommit, RecordSubmission, IntentAfter, RecordAfter, HandlerInv
  <2>2. ASSUME NEW k \in Intents PROVE RowInv(k)'
    BY <1>5 DEF SubmitCommit, RecordSubmission, IntentAfter, RecordAfter, RowInv, Authorised, Landed, HandlerInv
  <2>3. ASSUME NEW q \in Requests PROVE HandlerInv(q)'
    BY <1>5 DEF SubmitCommit, RecordSubmission, IntentAfter, RecordAfter, HandlerInv, Landed, RowInv, Authorised
  <2>4. OneBuilder'
    BY <1>5 DEF SubmitCommit, RecordSubmission, IntentAfter, RecordAfter, OneBuilder, HandlerInv
  <2>5. ASSUME NEW j \in Jobs PROVE JobInv(j)'
    BY <1>5 DEF SubmitCommit, RecordSubmission, IntentAfter, RecordAfter, JobInv, Landed, HandlerInv
  <2> QED
    BY <2>1, <2>2, <2>3, <2>4, <2>5
<1>6. CASE Abort(r)
  <2>1. TypeOK'
    BY <1>6 DEF Abort
  <2>2. ASSUME NEW k \in Intents PROVE RowInv(k)'
    BY <1>6 DEF Abort, RowInv, Authorised, Landed
  <2>3. ASSUME NEW q \in Requests PROVE HandlerInv(q)'
    BY <1>6 DEF Abort, HandlerInv, Landed
  <2>4. OneBuilder'
    BY <1>6 DEF Abort, OneBuilder
  <2>5. ASSUME NEW j \in Jobs PROVE JobInv(j)'
    BY <1>6 DEF Abort, JobInv, Landed
  <2> QED
    BY <2>1, <2>2, <2>3, <2>4, <2>5
<1> QED
  BY <1>1, <1>2, <1>3, <1>4, <1>5, <1>6

\* A reconciliation run works on records that exist, and confirms what landed.
LEMMA ReconStep ==
    ASSUME IntentInv, NEW j0 \in Jobs,
           \/ ReconStart(j0)
           \/ ReconPass(j0)
           \/ \E i \in Intents : ReconSend(j0, i)
           \/ ReconReply(j0)
           \/ ReconCommit(j0)
           \/ ReconNotify(j0)
           \/ ReconSkip(j0)
           \/ ReconEnd(j0)
           \/ ReconCrash(j0)
    PROVE  IntentInv'
<1> USE DEF IntentInv, TypeOK, IntentStatus, FailureCode, UserActionable, Return,
            rows, reqVars, jobVars
<1>1. CASE ReconStart(j0)
  <2>1. TypeOK'
    BY <1>1 DEF ReconStart, PendingRecords
  <2>2. ASSUME NEW k \in Intents PROVE RowInv(k)'
    BY <1>1 DEF ReconStart, PendingRecords, RowInv, Authorised, Landed
  <2>3. ASSUME NEW q \in Requests PROVE HandlerInv(q)'
    BY <1>1 DEF ReconStart, PendingRecords, HandlerInv, Landed
  <2>4. OneBuilder'
    BY <1>1 DEF ReconStart, PendingRecords, OneBuilder
  <2>5. ASSUME NEW j \in Jobs PROVE JobInv(j)'
    BY <1>1 DEF ReconStart, PendingRecords, JobInv, Landed
  <2> QED
    BY <2>1, <2>2, <2>3, <2>4, <2>5
<1>2. CASE \E i \in Intents : ReconSend(j0, i)
  <2>1. PICK i \in Intents : ReconSend(j0, i)
    BY <1>2
  <2>2. TypeOK'
    BY <2>1 DEF ReconSend, Deliver
  <2>3. ASSUME NEW k \in Intents PROVE RowInv(k)'
    BY <2>1 DEF ReconSend, Deliver, RowInv, Authorised, Landed, JobInv
  <2>4. ASSUME NEW q \in Requests PROVE HandlerInv(q)'
    BY <2>1 DEF ReconSend, Deliver, HandlerInv, Landed
  <2>5. OneBuilder'
    BY <2>1 DEF ReconSend, Deliver, OneBuilder
  <2>6. ASSUME NEW j \in Jobs PROVE JobInv(j)'
    BY <2>1 DEF ReconSend, PassedOver, Deliver, JobInv, Landed
  <2> QED
    BY <2>2, <2>3, <2>4, <2>5, <2>6
<1>3. CASE ReconReply(j0)
  <2>1. TypeOK'
    BY <1>3 DEF ReconReply, Success
  <2>2. ASSUME NEW k \in Intents PROVE RowInv(k)'
    BY <1>3 DEF ReconReply, Success, RowInv, Authorised, Landed
  <2>3. ASSUME NEW q \in Requests PROVE HandlerInv(q)'
    BY <1>3 DEF ReconReply, Success, HandlerInv, Landed
  <2>4. OneBuilder'
    BY <1>3 DEF ReconReply, Success, OneBuilder
  <2>5. ASSUME NEW j \in Jobs PROVE JobInv(j)'
    BY <1>3 DEF ReconReply, Success, JobInv, Landed
  <2> QED
    BY <2>1, <2>2, <2>3, <2>4, <2>5
<1>4. CASE ReconCommit(j0)
  <2>1. TypeOK'
    BY <1>4 DEF ReconCommit, JobInv
  <2>2. ASSUME NEW k \in Intents PROVE RowInv(k)'
    BY <1>4 DEF ReconCommit, RowInv, Authorised, Landed, JobInv
  <2>3. ASSUME NEW q \in Requests PROVE HandlerInv(q)'
    BY <1>4 DEF ReconCommit, HandlerInv, Landed, RowInv, JobInv, Authorised
  <2>4. OneBuilder'
    BY <1>4 DEF ReconCommit, OneBuilder, HandlerInv, RowInv, JobInv, Authorised
  <2>5. ASSUME NEW j \in Jobs PROVE JobInv(j)'
    BY <1>4 DEF ReconCommit, JobInv, Landed
  <2> QED
    BY <2>1, <2>2, <2>3, <2>4, <2>5
<1>5. CASE ReconNotify(j0)
  <2>1. TypeOK'
    BY <1>5 DEF ReconNotify, JobInv
  <2>2. ASSUME NEW k \in Intents PROVE RowInv(k)'
    BY <1>5 DEF ReconNotify, RowInv, Authorised, Landed, JobInv
  <2>3. ASSUME NEW q \in Requests PROVE HandlerInv(q)'
    BY <1>5 DEF ReconNotify, HandlerInv, Landed
  <2>4. OneBuilder'
    BY <1>5 DEF ReconNotify, OneBuilder
  <2>5. ASSUME NEW j \in Jobs PROVE JobInv(j)'
    BY <1>5 DEF ReconNotify, JobInv, Landed
  <2> QED
    BY <2>1, <2>2, <2>3, <2>4, <2>5
<1>6. CASE ReconSkip(j0)
  <2>1. TypeOK'
    BY <1>6 DEF ReconSkip
  <2>2. ASSUME NEW k \in Intents PROVE RowInv(k)'
    BY <1>6 DEF ReconSkip, RowInv, Authorised, Landed
  <2>3. ASSUME NEW q \in Requests PROVE HandlerInv(q)'
    BY <1>6 DEF ReconSkip, HandlerInv, Landed
  <2>4. OneBuilder'
    BY <1>6 DEF ReconSkip, OneBuilder
  <2>5. ASSUME NEW j \in Jobs PROVE JobInv(j)'
    BY <1>6 DEF ReconSkip, JobInv, Landed
  <2> QED
    BY <2>1, <2>2, <2>3, <2>4, <2>5
<1>7. CASE ReconEnd(j0)
  <2>1. TypeOK'
    BY <1>7 DEF ReconEnd
  <2>2. ASSUME NEW k \in Intents PROVE RowInv(k)'
    BY <1>7 DEF ReconEnd, RowInv, Authorised, Landed
  <2>3. ASSUME NEW q \in Requests PROVE HandlerInv(q)'
    BY <1>7 DEF ReconEnd, HandlerInv, Landed
  <2>4. OneBuilder'
    BY <1>7 DEF ReconEnd, OneBuilder
  <2>5. ASSUME NEW j \in Jobs PROVE JobInv(j)'
    BY <1>7 DEF ReconEnd, JobInv, Landed
  <2> QED
    BY <2>1, <2>2, <2>3, <2>4, <2>5
<1>8. CASE ReconCrash(j0)
  <2>1. TypeOK'
    BY <1>8 DEF ReconCrash
  <2>2. ASSUME NEW k \in Intents PROVE RowInv(k)'
    BY <1>8 DEF ReconCrash, RowInv, Authorised, Landed
  <2>3. ASSUME NEW q \in Requests PROVE HandlerInv(q)'
    BY <1>8 DEF ReconCrash, HandlerInv, Landed
  <2>4. OneBuilder'
    BY <1>8 DEF ReconCrash, OneBuilder
  <2>5. ASSUME NEW j \in Jobs PROVE JobInv(j)'
    BY <1>8 DEF ReconCrash, JobInv, Landed
  <2> QED
    BY <2>1, <2>2, <2>3, <2>4, <2>5
<1>9. CASE ReconPass(j0)
  <2>1. TypeOK'
    BY <1>9 DEF ReconPass
  <2>2. ASSUME NEW k \in Intents PROVE RowInv(k)'
    BY <1>9 DEF ReconPass, RowInv, Authorised, Landed
  <2>3. ASSUME NEW q \in Requests PROVE HandlerInv(q)'
    BY <1>9 DEF ReconPass, HandlerInv, Landed
  <2>4. OneBuilder'
    BY <1>9 DEF ReconPass, OneBuilder
  <2>5. ASSUME NEW j \in Jobs PROVE JobInv(j)'
    BY <1>9 DEF ReconPass, JobInv, Landed
  <2> QED
    BY <2>1, <2>2, <2>3, <2>4, <2>5
<1> QED
  BY <1>1, <1>2, <1>3, <1>4, <1>5, <1>6, <1>7, <1>8, <1>9

\* The expiry job and the purge leave authorised rows alone.
LEMMA EnvironmentStep ==
    ASSUME IntentInv,
           \/ ExpireIntents
           \/ \E old \in SUBSET Purgeable : PurgeFailed(old)
           \/ \E i \in Intents : ExpiryPasses(i)
           \/ \E i \in Intents : Settle(i)
    PROVE  IntentInv'
<1> USE DEF IntentInv, TypeOK, IntentStatus, FailureCode, UserActionable, Return,
            rows, reqVars, jobVars
<1>1. CASE ExpireIntents
  <2>1. TypeOK'
    BY <1>1 DEF ExpireIntents, Expirable
  <2>2. ASSUME NEW k \in Intents PROVE RowInv(k)'
    BY <1>1 DEF ExpireIntents, Expirable, RowInv, Authorised, Landed
  <2>3. ASSUME NEW q \in Requests PROVE HandlerInv(q)'
    BY <1>1 DEF ExpireIntents, Expirable, HandlerInv, Landed, RowInv, Authorised
  <2>4. OneBuilder'
    BY <1>1 DEF ExpireIntents, Expirable, OneBuilder
  <2>5. ASSUME NEW j \in Jobs PROVE JobInv(j)'
    BY <1>1 DEF ExpireIntents, Expirable, JobInv, Landed, RowInv, Authorised
  <2> QED
    BY <2>1, <2>2, <2>3, <2>4, <2>5
<1>2. CASE \E old \in SUBSET Purgeable : PurgeFailed(old)
  <2>1. PICK old \in SUBSET Purgeable : PurgeFailed(old)
    BY <1>2
  <2>2. TypeOK'
    BY <2>1 DEF PurgeFailed, Purgeable
  <2>3. ASSUME NEW k \in Intents PROVE RowInv(k)'
    BY <2>1 DEF PurgeFailed, Purgeable, RowInv, Authorised, Landed
  <2>4. ASSUME NEW q \in Requests PROVE HandlerInv(q)'
    BY <2>1 DEF PurgeFailed, Purgeable, HandlerInv, Landed, RowInv, Authorised
  <2>5. OneBuilder'
    BY <2>1 DEF PurgeFailed, Purgeable, OneBuilder
  <2>6. ASSUME NEW j \in Jobs PROVE JobInv(j)'
    BY <2>1 DEF PurgeFailed, Purgeable, JobInv, Landed, RowInv, Authorised
  <2> QED
    BY <2>2, <2>3, <2>4, <2>5, <2>6
<1>3. CASE \E i \in Intents : ExpiryPasses(i)
  <2>1. PICK i \in Intents : ExpiryPasses(i)
    BY <1>3
  <2>2. TypeOK'
    BY <2>1 DEF ExpiryPasses
  <2>3. ASSUME NEW k \in Intents PROVE RowInv(k)'
    BY <2>1 DEF ExpiryPasses, RowInv, Authorised, Landed
  <2>4. ASSUME NEW q \in Requests PROVE HandlerInv(q)'
    BY <2>1 DEF ExpiryPasses, HandlerInv, Landed
  <2>5. OneBuilder'
    BY <2>1 DEF ExpiryPasses, OneBuilder
  <2>6. ASSUME NEW j \in Jobs PROVE JobInv(j)'
    BY <2>1 DEF ExpiryPasses, JobInv, Landed
  <2> QED
    BY <2>2, <2>3, <2>4, <2>5, <2>6
<1>4. CASE \E i \in Intents : Settle(i)
  <2>1. PICK i \in Intents : Settle(i)
    BY <1>4
  <2>2. TypeOK'
    BY <2>1 DEF Settle
  <2>3. ASSUME NEW k \in Intents PROVE RowInv(k)'
    BY <2>1 DEF Settle, RowInv, Authorised, Landed
  <2>4. ASSUME NEW q \in Requests PROVE HandlerInv(q)'
    BY <2>1 DEF Settle, HandlerInv, Landed
  <2>5. OneBuilder'
    BY <2>1 DEF Settle, OneBuilder
  <2>6. ASSUME NEW j \in Jobs PROVE JobInv(j)'
    BY <2>1 DEF Settle, JobInv, Landed
  <2> QED
    BY <2>2, <2>3, <2>4, <2>5, <2>6
<1> QED
  BY <1>1, <1>2, <1>3, <1>4

\* The invariant is inductive.
LEMMA NextInv == IntentInv /\ [Next]_vars => IntentInv'
<1> SUFFICES ASSUME IntentInv, [Next]_vars PROVE IntentInv'
  OBVIOUS
<1>1. CASE UNCHANGED vars
  BY <1>1 DEF vars, IntentInv, TypeOK, RowInv, HandlerInv, OneBuilder, JobInv,
              Authorised, Landed, IntentStatus, FailureCode, UserActionable
<1>2. CASE \E r \in Requests : RequestNext(r)
  BY <1>2, CreateStep, BuildStep, SubmitStep DEF RequestNext
<1>3. CASE \E j \in Jobs : JobNext(j)
  BY <1>3, ReconStep DEF JobNext
<1>4. CASE \/ ExpireIntents
           \/ \E old \in SUBSET Purgeable : PurgeFailed(old)
           \/ \E i \in Intents : ExpiryPasses(i) \/ Settle(i)
  BY <1>4, EnvironmentStep
<1> QED
  BY <1>1, <1>2, <1>3, <1>4 DEF Next

\* Every reachable state satisfies the invariant.
THEOREM IntentInvariant == Spec => []IntentInv
<1>1. Init => IntentInv
  BY InitInv
<1>2. IntentInv /\ [Next]_vars => IntentInv'
  BY NextInv
<1> QED
  BY <1>1, <1>2, PTL DEF Spec
-----------------------------------------------------------------------------
(* The safety properties of the runs, for every value of the constants.    *)

\* SUCCESS is never shown, nor pushed, for money that did not move.
THEOREM ConfirmedOnlyWhenLanded == Spec => [](ConfirmedMeansLanded /\ PushedMeansLanded)
<1>1. IntentInv => ConfirmedMeansLanded /\ PushedMeansLanded
  BY DEF IntentInv, TypeOK, RowInv, ConfirmedMeansLanded, PushedMeansLanded
<1> QED
  BY <1>1, IntentInvariant, PTL

\* An intent whose transaction is, or may come to be, on the network is shown as
\* PENDING or SUCCESS, and never failed, expired or purged.
THEOREM NeverGivenUp == Spec => []SentIsNeverGivenUp
<1>1. IntentInv => SentIsNeverGivenUp
  <2> SUFFICES ASSUME IntentInv, NEW i \in Intents, chain[i] \in {"inflight", "landed"}
               PROVE  ClientState(i) \in {"PENDING", "SUCCESS"}
    BY DEF SentIsNeverGivenUp
  <2>1. status[i] \in Authorised
    BY DEF IntentInv, RowInv
  <2> QED
    BY <2>1 DEF ClientState, Authorised
<1> QED
  BY <1>1, IntentInvariant, PTL

\* No pending record lacks the signed XDR that a run would send, and a confirmed row has a
\* confirmed record.
THEOREM RecordsAreUsable ==
    Spec => [](PendingRecordCanBeReconciled /\ ConfirmedRowHasConfirmedRecord)
<1>1. IntentInv => PendingRecordCanBeReconciled /\ ConfirmedRowHasConfirmedRecord
  BY DEF IntentInv, RowInv, PendingRecords, PendingRecordCanBeReconciled, ConfirmedRowHasConfirmedRecord
<1> QED
  BY <1>1, IntentInvariant, PTL

\* History and detail show the same state: only authorised rows have records.
THEOREM RoutesAgree == Spec => []HistoryAgreesWithDetail
<1>1. IntentInv => HistoryAgreesWithDetail
  <2> SUFFICES ASSUME IntentInv, NEW i \in Intents, record[i] = "CONFIRMED"
               PROVE  ClientState(i) = "SUCCESS"
    BY DEF HistoryAgreesWithDetail, HistoryState
  <2>1. status[i] \in Authorised
    BY DEF IntentInv, RowInv
  <2> QED
    BY <2>1 DEF Authorised, ClientState
<1> QED
  BY <1>1, IntentInvariant, PTL

-----------------------------------------------------------------------------
(* The backend implements IntentPromise.                                   *)

shownNow == [i \in Intents |-> ClientState(i)]
movedNow == {i \in Intents : chain[i] = "landed"}
Stutters == shownNow' = shownNow /\ movedNow' = movedNow

\* The step of one intent's view, the others being left alone.
LEMMA OneShown ==
    ASSUME NEW i \in Intents, NEW s,
           \A k \in Intents \ {i} : ClientState(k)' = ClientState(k),
           ClientState(i)' = s,
           chain' = chain
    PROVE  Promise!Show(i, s)
BY DEF Promise!Show

\* Nothing is shown when no intent's view changes.
LEMMA NoneShown ==
    ASSUME \A k \in Intents : ClientState(k)' = ClientState(k),
           \A k \in Intents : chain[k]' = "landed" <=> chain[k] = "landed"
    PROVE  Stutters
BY DEF Stutters, shownNow, movedNow

\* Creating, building and refusing a row are the abstract Issue and Refuse.
LEMMA CreateRefines ==
    ASSUME IntentInv, NEW r \in Requests,
           \/ \E i \in Intents : CreateLookup(r, i)
           \/ CreateInsert(r)
           \/ BuildXdr(r)
           \/ \E code \in FailureCode : BuildXdrFails(r, code)
    PROVE  Promise!Next \/ Stutters
<1> USE DEF IntentInv, TypeOK, HandlerInv
<1>1. CASE \E k \in Intents : CreateLookup(r, k)
  BY <1>1, NoneShown DEF CreateLookup, rows, ClientState
<1>2. CASE CreateInsert(r)
  <2>1. PICK i \in Intents : i = reqIntent[r]
    BY <1>2 DEF CreateInsert
  <2>2. CASE status[i] = "absent"
    <3>1. /\ \A k \in Intents \ {i} : ClientState(k)' = ClientState(k)
          /\ chain' = chain
      BY <1>2, <2>1 DEF CreateInsert, ClientState
    <3>2. ClientState(i) = "absent" /\ ClientState(i)' = "PENDING_SIGNATURE"
      BY <1>2, <2>1, <2>2 DEF CreateInsert, ClientState, RowInv
    <3> QED
      BY <2>1, <3>1, <3>2, OneShown DEF Promise!Issue, Promise!Next
  <2>3. CASE status[i] # "absent"
    BY <1>2, <2>1, <2>3, NoneShown DEF CreateInsert, ClientState
  <2> QED
    BY <2>2, <2>3
<1>3. CASE BuildXdr(r)
  BY <1>3, NoneShown DEF BuildXdr, ClientState
<1>4. CASE \E code \in FailureCode : BuildXdrFails(r, code)
  <2>1. PICK i \in Intents : i = reqIntent[r]
    BY <1>4 DEF BuildXdrFails
  <2>2. /\ \A k \in Intents \ {i} : ClientState(k)' = ClientState(k)
        /\ chain' = chain
    BY <1>4, <2>1 DEF BuildXdrFails, ClientState
  <2>3. ClientState(i) = "PENDING_SIGNATURE" /\ ClientState(i)' \in {"REJECTED", "FAILED"}
    BY <1>4, <2>1 DEF BuildXdrFails, ClientState
  <2> QED
    BY <2>1, <2>2, <2>3, OneShown DEF Promise!Refuse, Promise!Next
<1> QED
  BY <1>1, <1>2, <1>3, <1>4

\* Recording an authorisation or a confirmation; the other steps show nothing.
LEMMA SubmitRefines ==
    ASSUME IntentInv, NEW r \in Requests,
           \/ \E i \in Intents : SubmitCheck(r, i)
           \/ SubmitSign(r)
           \/ SubmitSend(r)
           \/ SubmitReply(r)
           \/ SubmitCommit(r)
           \/ Abort(r)
    PROVE  Promise!Next \/ Stutters
<1> USE DEF IntentInv, TypeOK, HandlerInv
<1>1. CASE \E k \in Intents : SubmitCheck(r, k)
  BY <1>1, NoneShown DEF SubmitCheck, rows, ClientState
<1>2. CASE SubmitSign(r)
  <2>1. PICK i \in Intents : i = reqIntent[r]
    BY <1>2 DEF SubmitSign, Step
  <2>2. /\ \A k \in Intents \ {i} : ClientState(k)' = ClientState(k)
        /\ chain' = chain
    BY <1>2, <2>1 DEF SubmitSign, Step, StoreSigned, ClientState
  <2>3. ClientState(i) \in {"PENDING_SIGNATURE", "EXPIRED", "FAILED", "PENDING", "SUCCESS"}
    BY <1>2, <2>1 DEF SubmitSign, Step, IntentStatus, ClientState, RowInv, UserActionable
  <2>4. ClientState(i)' = IF ClientState(i) = "SUCCESS" THEN "SUCCESS" ELSE "PENDING"
    BY <1>2, <2>1 DEF SubmitSign, Step, StoreSigned, IntentStatus, ClientState, RowInv,
                      Authorised, Landed
  <2>5. CASE ClientState(i) \in {"PENDING_SIGNATURE", "EXPIRED", "FAILED"}
    BY <2>1, <2>2, <2>4, <2>5, OneShown DEF Promise!Authorise, Promise!Next
  <2>6. CASE ClientState(i) \in {"PENDING", "SUCCESS"}
    BY <2>1, <2>2, <2>4, <2>6, NoneShown
  <2> QED
    BY <2>3, <2>5, <2>6
<1>3. CASE SubmitSend(r)
  BY <1>3, NoneShown DEF SubmitSend, Step, Deliver, rows, ClientState
<1>4. CASE SubmitReply(r)
  BY <1>4, NoneShown DEF SubmitReply, Step, rows, ClientState
<1>5. CASE SubmitCommit(r)
  <2>1. PICK i \in Intents : i = reqIntent[r]
    BY <1>5 DEF SubmitCommit
  <2>2. /\ \A k \in Intents \ {i} : ClientState(k)' = ClientState(k)
        /\ chain' = chain
    BY <1>5, <2>1 DEF SubmitCommit, RecordSubmission, ClientState
  <2>3. CASE record[i] = "none" /\ reqPc[r] = "confirmed"
    <3>1. ClientState(i) = "PENDING" /\ ClientState(i)' = "SUCCESS" /\ chain[i] = "landed"
      BY <1>5, <2>1, <2>3 DEF SubmitCommit, RecordSubmission, IntentAfter, RecordAfter,
                              ClientState, RowInv, Authorised, Landed
    <3> QED
      BY <2>1, <2>2, <3>1, OneShown DEF Promise!Confirm, Promise!Next
  <2>4. CASE ~(record[i] = "none" /\ reqPc[r] = "confirmed")
    <3>1. ClientState(i)' = ClientState(i)
      BY <1>5, <2>1, <2>4 DEF SubmitCommit, RecordSubmission, IntentAfter, RecordAfter,
                              ClientState, RowInv, Authorised
    <3> QED
      BY <2>2, <3>1, NoneShown
  <2> QED
    BY <2>3, <2>4
<1>6. CASE Abort(r)
  BY <1>6, NoneShown DEF Abort, rows, ClientState
<1> QED
  BY <1>1, <1>2, <1>3, <1>4, <1>5, <1>6

\* Of a reconciliation run, only the commit is visible, and it is a Confirm.
LEMMA ReconRefines ==
    ASSUME IntentInv, NEW j \in Jobs, JobNext(j)
    PROVE  Promise!Next \/ Stutters
<1> USE DEF IntentInv, TypeOK, JobInv
<1>1. CASE \E k \in Intents : ReconSend(j, k)
  BY <1>1, NoneShown DEF ReconSend, Deliver, rows, ClientState
<1>2. CASE ReconCommit(j)
  <2>1. PICK i \in Intents : i = jobIntent[j]
    BY <1>2 DEF ReconCommit
  <2>2. /\ \A k \in Intents \ {i} : ClientState(k)' = ClientState(k)
        /\ chain' = chain
    BY <1>2, <2>1 DEF ReconCommit, ClientState
  <2>3. status[i] \in Authorised /\ i \in movedNow
    BY <1>2, <2>1 DEF ReconCommit, RowInv, Landed, movedNow
  <2>4. ClientState(i) \in {"PENDING", "SUCCESS"} /\ ClientState(i)' = "SUCCESS"
    BY <1>2, <2>1, <2>3 DEF ReconCommit, Authorised, ClientState
  <2>5. CASE ClientState(i) = "PENDING"
    <3>1. Promise!Show(i, "SUCCESS")
      BY <2>1, <2>2, <2>4, OneShown
    <3> QED
      BY <2>1, <2>3, <2>5, <3>1 DEF Promise!Confirm, Promise!Next, movedNow
  <2>6. CASE ClientState(i) = "SUCCESS"
    BY <2>2, <2>4, <2>6, NoneShown
  <2> QED
    BY <2>4, <2>5, <2>6
<1>3. CASE ReconStart(j) \/ ReconPass(j) \/ ReconReply(j) \/ ReconNotify(j) \/ ReconSkip(j)
           \/ ReconEnd(j) \/ ReconCrash(j)
  BY <1>3, NoneShown DEF ReconStart, ReconPass, ReconReply, ReconNotify, ReconSkip, ReconEnd,
                         ReconCrash, rows, ClientState
<1> QED
  BY <1>1, <1>2, <1>3 DEF JobNext

\* The expiry job closes what is EXPIRED, the purge forgets what failed, the clock
\* makes a row lapse and the network moves the money of an authorised one.
LEMMA EnvironmentRefines ==
    ASSUME IntentInv,
           \/ ExpireIntents
           \/ \E old \in SUBSET Purgeable : PurgeFailed(old)
           \/ \E i \in Intents : ExpiryPasses(i) \/ Settle(i)
    PROVE  Promise!Next \/ Stutters
<1> USE DEF IntentInv, TypeOK
<1>1. CASE ExpireIntents
  <2>1. PICK S \in SUBSET Intents : S = Expirable
    BY DEF Expirable
  <2>2. \A k \in S : ClientState(k) = "EXPIRED" /\ ClientState(k)' = "FAILED"
    BY <1>1, <2>1 DEF ExpireIntents, Expirable, UserActionable, ClientState, RowInv
  <2>3. /\ \A k \in Intents \ S : ClientState(k)' = ClientState(k)
        /\ chain' = chain
    BY <1>1, <2>1 DEF ExpireIntents, ClientState
  <2>4. Promise!Close(S)
    BY <2>1, <2>2, <2>3 DEF Promise!Close, Promise!ShowAll
  <2> QED
    BY <2>1, <2>4 DEF Promise!Next
<1>2. CASE \E old \in SUBSET Purgeable : PurgeFailed(old)
  <2>1. PICK old \in SUBSET Purgeable : PurgeFailed(old)
    BY <1>2
  <2>2. \A k \in old : ClientState(k) \in {"REJECTED", "FAILED"} /\ ClientState(k)' = "purged"
    BY <2>1 DEF PurgeFailed, Purgeable, ClientState
  <2>3. /\ \A k \in Intents \ old : ClientState(k)' = ClientState(k)
        /\ chain' = chain
    BY <2>1 DEF PurgeFailed, ClientState
  <2>4. old \in SUBSET Intents
    BY <2>1 DEF Purgeable
  <2>5. Promise!Forget(old)
    BY <2>2, <2>3, <2>4 DEF Promise!Forget, Promise!ShowAll
  <2> QED
    BY <2>4, <2>5 DEF Promise!Next
<1>3. CASE \E i \in Intents : ExpiryPasses(i)
  <2>1. PICK i \in Intents : ExpiryPasses(i)
    BY <1>3
  <2>2. /\ \A k \in Intents \ {i} : ClientState(k)' = ClientState(k)
        /\ chain' = chain
    BY <2>1 DEF ExpiryPasses, ClientState
  <2>3. \/ ClientState(i) = "PENDING_SIGNATURE" /\ ClientState(i)' = "EXPIRED"
        \/ ClientState(i)' = ClientState(i)
    BY <2>1 DEF ExpiryPasses, ClientState
  <2>4. CASE ClientState(i) = "PENDING_SIGNATURE" /\ ClientState(i)' = "EXPIRED"
    BY <2>1, <2>2, <2>4, OneShown DEF Promise!Lapse, Promise!Next
  <2>5. CASE ClientState(i)' = ClientState(i)
    BY <2>2, <2>5, NoneShown
  <2> QED
    BY <2>3, <2>4, <2>5
<1>4. CASE \E i \in Intents : Settle(i)
  <2>1. PICK i \in Intents : Settle(i)
    BY <1>4
  <2>2. \A k \in Intents : ClientState(k)' = ClientState(k)
    BY <2>1 DEF Settle, rows, ClientState
  <2>3. status[i] \in Authorised /\ record[i] # "CONFIRMED"
    BY <2>1 DEF Settle, Landed, RowInv
  <2>4. ClientState(i) = "PENDING"
    BY <2>1, <2>3 DEF Authorised, ClientState, RowInv
  <2>5. CASE chain' = [chain EXCEPT ![i] = "landed"]
    <3>1. movedNow' = movedNow \cup {i}
      BY <2>1, <2>5 DEF movedNow
    <3>2. shownNow' = shownNow
      BY <2>2 DEF shownNow
    <3>3. Promise!Move(i)
      BY <2>4, <3>1, <3>2 DEF Promise!Move, shownNow, movedNow
    <3> QED
      BY <3>3 DEF Promise!Next
  <2>6. CASE chain' = [chain EXCEPT ![i] = "void"]
    <3>1. \A k \in Intents : chain[k]' = "landed" <=> chain[k] = "landed"
      BY <2>1, <2>6 DEF Settle
    <3> QED
      BY <2>2, <3>1, NoneShown
  <2> QED
    BY <2>1, <2>5, <2>6 DEF Settle
<1> QED
  BY <1>1, <1>2, <1>3, <1>4

\* Every step of the backend is a step of the promise, or shows nothing.
LEMMA NextRefines == IntentInv /\ [Next]_vars => Promise!Next \/ Stutters
<1> SUFFICES ASSUME IntentInv, [Next]_vars PROVE Promise!Next \/ Stutters
  OBVIOUS
<1>1. CASE UNCHANGED vars
  BY <1>1 DEF vars, Stutters, shownNow, movedNow, ClientState
<1>2. CASE \E r \in Requests : RequestNext(r)
  BY <1>2, CreateRefines, SubmitRefines DEF RequestNext
<1>3. CASE \E j \in Jobs : JobNext(j)
  BY <1>3, ReconRefines
<1>4. CASE \/ ExpireIntents
           \/ \E old \in SUBSET Purgeable : PurgeFailed(old)
           \/ \E i \in Intents : ExpiryPasses(i) \/ Settle(i)
  BY <1>4, EnvironmentRefines
<1> QED
  BY <1>1, <1>2, <1>3, <1>4 DEF Next

\* Whatever overlaps, crashes or expires, the owner sees a behaviour of IntentPromise.
THEOREM ImplementsPromise == Spec => KeepsPromise
<1>1. Init => Promise!Init
  BY DEF Init, Promise!Init, ClientState
<1>2. IntentInv /\ [Next]_vars => [Promise!Next]_Promise!vars
  BY NextRefines DEF Promise!vars, Stutters, shownNow, movedNow
<1> QED
  BY <1>1, <1>2, IntentInvariant, PTL DEF Spec, KeepsPromise, Promise!Spec

\* What is shown as SUCCESS is shown as SUCCESS for ever.
THEOREM SuccessStays == Spec => SuccessIsFinal
<1>1. IntentInv /\ [Next]_vars =>
        [\A i \in Intents : ClientState(i) = "SUCCESS" => ClientState(i)' = "SUCCESS"]_vars
  <2> SUFFICES ASSUME IntentInv, [Next]_vars, NEW i \in Intents, ClientState(i) = "SUCCESS"
               PROVE  ClientState(i)' = "SUCCESS"
    OBVIOUS
  <2>1. CASE Stutters
    BY <2>1 DEF Stutters, shownNow
  <2>2. CASE Promise!Next
    <3>1. shownNow[i] = "SUCCESS" /\ shownNow'[i] = ClientState(i)'
      BY DEF shownNow
    <3>2. shownNow'[i] = "SUCCESS"
      BY <2>2, <3>1 DEF Promise!Next, Promise!Issue, Promise!Refuse, Promise!Lapse,
                        Promise!Authorise, Promise!Move, Promise!Confirm, Promise!Close,
                        Promise!Forget, Promise!Show, Promise!ShowAll, shownNow
    <3> QED
      BY <3>1, <3>2
  <2> QED
    BY <2>1, <2>2, NextRefines
<1> QED
  BY <1>1, IntentInvariant, PTL DEF Spec, SuccessIsFinal

\* A record is never taken back, whoever else submits or reconciles the intent.
THEOREM RecordsAdvance == Spec => RecordOnlyAdvances
<1> DEFINE Advances ==
      \A i \in Intents : /\ record[i] = "PENDING" => record[i]' \in {"PENDING", "CONFIRMED"}
                         /\ record[i] = "UNNAMED" => record[i]' = "UNNAMED"
                         /\ record[i] = "CONFIRMED" => record[i]' = "CONFIRMED"
<1>1. IntentInv /\ [Next]_vars => [Advances]_vars
  <2> SUFFICES ASSUME IntentInv, Next PROVE Advances
    OBVIOUS
  <2>1. CASE \E r \in Requests : SubmitCommit(r)
    BY <2>1 DEF SubmitCommit, RecordSubmission, IntentInv, TypeOK
  <2>2. CASE \E j \in Jobs : ReconCommit(j)
    BY <2>2 DEF ReconCommit, IntentInv, TypeOK, JobInv
  <2>3. CASE record' = record
    BY <2>3
  <2>4. \/ record' = record
        \/ \E r \in Requests : SubmitCommit(r)
        \/ \E j \in Jobs : ReconCommit(j)
    BY DEF Next, RequestNext, JobNext, rows, CreateLookup, SubmitCheck, CreateInsert, BuildXdr,
           BuildXdrFails, SubmitSign, SubmitSend, SubmitReply, Abort, ReconStart, ReconPass, ReconSend,
           ReconReply, ReconNotify, ReconSkip, ReconEnd, ReconCrash, ExpireIntents,
           PurgeFailed, ExpiryPasses, Settle
  <2> QED
    BY <2>1, <2>2, <2>3, <2>4
<1> QED
  BY <1>1, IntentInvariant, PTL DEF Spec, RecordOnlyAdvances

\* A failure with a code is never turned back into an authorised intent.
THEOREM CodedFailureStays == Spec => CodedFailureIsFinal
<1> DEFINE Final ==
      \A i \in Intents :
          status[i] = "FAILED" /\ failureCode[i] # "none" => status[i]' \in {"FAILED", "purged"}
<1>1. IntentInv /\ [Next]_vars => [Final]_vars
  <2> SUFFICES ASSUME IntentInv, Next,
                      NEW i \in Intents, status[i] = "FAILED", failureCode[i] # "none"
               PROVE  status[i]' \in {"FAILED", "purged"}
    OBVIOUS
  <2> USE DEF IntentInv, TypeOK
  <2>1. CASE \E r \in Requests : CreateInsert(r)
    BY <2>1 DEF CreateInsert
  <2>2. CASE \E r \in Requests : BuildXdr(r) \/ \E code \in FailureCode : BuildXdrFails(r, code)
    BY <2>2 DEF BuildXdr, BuildXdrFails, HandlerInv
  <2>3. CASE \E r \in Requests : SubmitSign(r) \/ SubmitCommit(r)
    BY <2>3 DEF SubmitSign, Step, StoreSigned, SubmitCommit, RecordSubmission, HandlerInv
  <2>4. CASE \E j \in Jobs : ReconCommit(j)
    BY <2>4 DEF ReconCommit, JobInv, RowInv, Authorised
  <2>5. CASE ExpireIntents \/ \E old \in SUBSET Purgeable : PurgeFailed(old)
    BY <2>5 DEF ExpireIntents, Expirable, PurgeFailed
  <2>6. CASE status' = status
    BY <2>6
  <2>7. \/ status' = status
        \/ \E r \in Requests : CreateInsert(r) \/ BuildXdr(r) \/ SubmitSign(r) \/ SubmitCommit(r)
        \/ \E r \in Requests : \E code \in FailureCode : BuildXdrFails(r, code)
        \/ \E j \in Jobs : ReconCommit(j)
        \/ ExpireIntents \/ \E old \in SUBSET Purgeable : PurgeFailed(old)
    BY DEF Next, RequestNext, JobNext, rows, CreateLookup, SubmitCheck, SubmitSend, SubmitReply,
           Abort, ReconStart, ReconPass, ReconSend, ReconReply, ReconNotify, ReconSkip, ReconEnd,
           ReconCrash, ExpiryPasses, Settle
  <2> QED
    BY <2>1, <2>2, <2>3, <2>4, <2>5, <2>6, <2>7
<1> QED
  BY <1>1, IntentInvariant, PTL DEF Spec, CodedFailureIsFinal
=============================================================================
