--------------------------- MODULE DeletionProofs ---------------------------
(***************************************************************************)
(* The safety of account deletion, for any number of requests, handlers    *)
(* and overlapping job runs: every action preserves DeletionInv.           *)
(***************************************************************************)
EXTENDS DeletionProperties, TLAPS

USE WorkersAssumption, MaxAttemptsAssumption DEF Workers, Amounts

\* The initial states satisfy the invariant.
LEMMA InitInv == Init => DeletionInv
<1> SUFFICES ASSUME Init PROVE DeletionInv
  OBVIOUS
<1> USE DEF Init
<1>1. TypeOK
  <2>1. 0 \in 0 .. MaxAttempts
    OBVIOUS
  <2>2. attempts \in [Keys -> 0 .. MaxAttempts] /\ tries \in [Workers -> 0 .. MaxAttempts]
    BY <2>1
  <2>3. account \in {"none", "open", "merged"}
    OBVIOUS
  <2> QED
    BY <2>2, <2>3 DEF TypeOK, AccountDeletionStatus
<1>2. \A k \in Keys : RequestInv(k)
  BY DEF RequestInv
<1>3. \A w \in Workers : WorkerInv(w)
  BY DEF WorkerInv, AfterScrub
<1> QED
  BY <1>1, <1>2, <1>3 DEF DeletionInv, SweptMeansMerged, IdentityGoesLast

\* A request for deletion touches no row that got past the ledger, but the one
\* it opened: that one only falls back to PENDING_SIGNATURE.
LEMMA RequestStep ==
    ASSUME DeletionInv, NEW h \in Handlers,
           \/ \E k \in Keys : RequestCheck(h, k)
           \/ RequestFindOpen(h)
           \/ RequestCreate(h)
           \/ RequestNoClosure(h)
           \/ RequestBuild(h)
           \/ RequestSave(h)
    PROVE  DeletionInv'
<1> USE DEF DeletionInv, TypeOK, AccountDeletionStatus, rows, local, ledger, extern, answers
<1>1. CASE \E k \in Keys : RequestCheck(h, k)
  <2>1. PICK k \in Keys : RequestCheck(h, k)
    BY <1>1
  <2>2. TypeOK'
    BY <2>1 DEF RequestCheck, Take, WorkerInv
  <2>3. ASSUME NEW r \in Keys PROVE RequestInv(r)'
    BY <2>1 DEF RequestCheck, Take, RequestInv, WorkerInv, AfterScrub
  <2>4. ASSUME NEW u \in Workers PROVE WorkerInv(u)'
    BY <2>1 DEF RequestCheck, Take, RequestInv, WorkerInv, AfterScrub, SweptMeansMerged
  <2>5. SweptMeansMerged' /\ IdentityGoesLast'
    BY <2>1 DEF RequestCheck, Take, SweptMeansMerged, IdentityGoesLast, WorkerInv, AfterScrub
  <2> QED
    BY <2>2, <2>3, <2>4, <2>5
<1>2. CASE RequestFindOpen(h)
  <2>1. TypeOK'
    BY <1>2 DEF RequestFindOpen, Open, WorkerInv
  <2>2. ASSUME NEW r \in Keys PROVE RequestInv(r)'
    BY <1>2 DEF RequestFindOpen, Open, RequestInv, WorkerInv, AfterScrub
  <2>3. ASSUME NEW u \in Workers PROVE WorkerInv(u)'
    BY <1>2 DEF RequestFindOpen, Open, RequestInv, WorkerInv, AfterScrub, SweptMeansMerged
  <2>4. SweptMeansMerged' /\ IdentityGoesLast'
    BY <1>2 DEF RequestFindOpen, Open, SweptMeansMerged, IdentityGoesLast, WorkerInv, AfterScrub
  <2> QED
    BY <2>1, <2>2, <2>3, <2>4
<1>3. CASE RequestCreate(h)
  <2>1. TypeOK'
    <3>1. /\ status' \in [Keys -> AccountDeletionStatus \cup {"absent"}]
          /\ provider' \in [Keys -> BOOLEAN]
          /\ UNCHANGED <<closure, attempts, local, ledger, extern>>
      BY <1>3 DEF RequestCreate, WorkerInv
    <3>2. \/ Return(h)
          \/ pc' = [pc EXCEPT ![h] = "building"] /\ UNCHANGED <<key, expected, answers, tries>>
      BY <1>3 DEF RequestCreate, Step
    <3>3. CASE Return(h)
      BY <3>1, <3>3 DEF Return
    <3>4. CASE pc' = [pc EXCEPT ![h] = "building"] /\ UNCHANGED <<key, expected, answers, tries>>
      BY <3>1, <3>4
    <3> QED
      BY <3>2, <3>3, <3>4
  <2>2. ASSUME NEW r \in Keys PROVE RequestInv(r)'
    BY <1>3 DEF RequestCreate, Step, Return, RequestInv, WorkerInv, AfterScrub
  <2>3. ASSUME NEW u \in Workers PROVE WorkerInv(u)'
    BY <1>3 DEF RequestCreate, Step, Return, RequestInv, WorkerInv, AfterScrub, SweptMeansMerged
  <2>4. SweptMeansMerged' /\ IdentityGoesLast'
    BY <1>3 DEF RequestCreate, Step, Return, SweptMeansMerged, IdentityGoesLast, WorkerInv, AfterScrub
  <2> QED
    BY <2>1, <2>2, <2>3, <2>4
<1>4. CASE RequestNoClosure(h)
  <2>1. TypeOK'
    BY <1>4 DEF RequestNoClosure, Return, WorkerInv
  <2>2. ASSUME NEW r \in Keys PROVE RequestInv(r)'
    BY <1>4 DEF RequestNoClosure, Return, RequestInv, WorkerInv, AfterScrub
  <2>3. ASSUME NEW u \in Workers PROVE WorkerInv(u)'
    BY <1>4 DEF RequestNoClosure, Return, RequestInv, WorkerInv, AfterScrub, SweptMeansMerged
  <2>4. SweptMeansMerged' /\ IdentityGoesLast'
    BY <1>4 DEF RequestNoClosure, Return, SweptMeansMerged, IdentityGoesLast, WorkerInv, AfterScrub
  <2> QED
    BY <2>1, <2>2, <2>3, <2>4
<1>5. CASE RequestBuild(h)
  <2>1. TypeOK'
    BY <1>5 DEF RequestBuild, Step, WorkerInv
  <2>2. ASSUME NEW r \in Keys PROVE RequestInv(r)'
    BY <1>5 DEF RequestBuild, Step, RequestInv, WorkerInv, AfterScrub
  <2>3. ASSUME NEW u \in Workers PROVE WorkerInv(u)'
    BY <1>5 DEF RequestBuild, Step, RequestInv, WorkerInv, AfterScrub, SweptMeansMerged
  <2>4. SweptMeansMerged' /\ IdentityGoesLast'
    BY <1>5 DEF RequestBuild, Step, SweptMeansMerged, IdentityGoesLast, WorkerInv, AfterScrub
  <2> QED
    BY <2>1, <2>2, <2>3, <2>4
<1>6. CASE RequestSave(h)
  <2>1. TypeOK'
    BY <1>6 DEF RequestSave, Return, WorkerInv
  <2>2. ASSUME NEW r \in Keys PROVE RequestInv(r)'
    BY <1>6 DEF RequestSave, Return, RequestInv, WorkerInv, AfterScrub
  <2>3. ASSUME NEW u \in Workers PROVE WorkerInv(u)'
    BY <1>6 DEF RequestSave, Return, RequestInv, WorkerInv, AfterScrub, SweptMeansMerged
  <2>4. SweptMeansMerged' /\ IdentityGoesLast'
    BY <1>6 DEF RequestSave, Return, SweptMeansMerged, IdentityGoesLast, WorkerInv, AfterScrub
  <2> QED
    BY <2>1, <2>2, <2>3, <2>4
<1> QED
  BY <1>1, <1>2, <1>3, <1>4, <1>5, <1>6

\* A confirmation goes past the closure when it saw it applied, or had none to send.
LEMMA CloseStep ==
    ASSUME DeletionInv, NEW h \in Handlers,
           \/ \E k \in Keys : ConfirmRead(h, k)
           \/ ConfirmCheck(h)
           \/ CloseSubmit(h)
           \/ CloseLanded(h)
           \/ CloseMark(h)
           \/ CloseThrows(h)
           \/ CloseFail(h)
           \/ Scrub(h)
           \/ ScrubMark(h)
           \/ Abort(h)
    PROVE  DeletionInv'
<1> USE DEF DeletionInv, TypeOK, AccountDeletionStatus, rows, local, ledger, extern, answers
<1>1. CASE \E k \in Keys : ConfirmRead(h, k)
  <2>1. PICK k \in Keys : ConfirmRead(h, k)
    BY <1>1
  <2>2. TypeOK'
    BY <2>1 DEF ConfirmRead, Take, WorkerInv
  <2>3. ASSUME NEW r \in Keys PROVE RequestInv(r)'
    BY <2>1 DEF ConfirmRead, Take, RequestInv, WorkerInv, AfterScrub
  <2>4. ASSUME NEW u \in Workers PROVE WorkerInv(u)'
    BY <2>1 DEF ConfirmRead, Take, RequestInv, WorkerInv, AfterScrub, SweptMeansMerged
  <2>5. SweptMeansMerged' /\ IdentityGoesLast'
    BY <2>1 DEF ConfirmRead, Take, SweptMeansMerged, IdentityGoesLast, WorkerInv, AfterScrub
  <2> QED
    BY <2>2, <2>3, <2>4, <2>5
<1>2. CASE ConfirmCheck(h)
  <2>1. TypeOK'
    BY <1>2 DEF ConfirmCheck, Step, WorkerInv
  <2>2. ASSUME NEW r \in Keys PROVE RequestInv(r)'
    BY <1>2 DEF ConfirmCheck, Step, RequestInv, WorkerInv, AfterScrub
  <2>3. ASSUME NEW u \in Workers PROVE WorkerInv(u)'
    BY <1>2 DEF ConfirmCheck, Step, RequestInv, WorkerInv, AfterScrub, SweptMeansMerged
  <2>4. SweptMeansMerged' /\ IdentityGoesLast'
    BY <1>2 DEF ConfirmCheck, Step, SweptMeansMerged, IdentityGoesLast, WorkerInv, AfterScrub
  <2> QED
    BY <2>1, <2>2, <2>3, <2>4
<1>3. CASE CloseSubmit(h)
  <2>1. TypeOK'
    BY <1>3 DEF CloseSubmit, Step, WorkerInv
  <2>2. ASSUME NEW r \in Keys PROVE RequestInv(r)'
    BY <1>3 DEF CloseSubmit, Step, RequestInv, WorkerInv, AfterScrub
  <2>3. ASSUME NEW u \in Workers PROVE WorkerInv(u)'
    BY <1>3 DEF CloseSubmit, Step, RequestInv, WorkerInv, AfterScrub, SweptMeansMerged
  <2>4. SweptMeansMerged' /\ IdentityGoesLast'
    BY <1>3 DEF CloseSubmit, Step, SweptMeansMerged, IdentityGoesLast, WorkerInv, AfterScrub
  <2> QED
    BY <2>1, <2>2, <2>3, <2>4
<1>4. CASE CloseLanded(h)
  <2>1. TypeOK'
    BY <1>4 DEF CloseLanded, Step, Success, WorkerInv
  <2>2. ASSUME NEW r \in Keys PROVE RequestInv(r)'
    BY <1>4 DEF CloseLanded, Step, Success, RequestInv, WorkerInv, AfterScrub
  <2>3. ASSUME NEW u \in Workers PROVE WorkerInv(u)'
    BY <1>4 DEF CloseLanded, Step, Success, RequestInv, WorkerInv, AfterScrub, SweptMeansMerged
  <2>4. SweptMeansMerged' /\ IdentityGoesLast'
    BY <1>4 DEF CloseLanded, Step, Success, SweptMeansMerged, IdentityGoesLast, WorkerInv, AfterScrub
  <2> QED
    BY <2>1, <2>2, <2>3, <2>4
<1>5. CASE CloseMark(h)
  <2>1. TypeOK'
    BY <1>5 DEF CloseMark, Step, WorkerInv
  <2>2. ASSUME NEW r \in Keys PROVE RequestInv(r)'
    BY <1>5 DEF CloseMark, Step, RequestInv, WorkerInv, AfterScrub
  <2>3. ASSUME NEW u \in Workers PROVE WorkerInv(u)'
    BY <1>5 DEF CloseMark, Step, RequestInv, WorkerInv, AfterScrub, SweptMeansMerged
  <2>4. SweptMeansMerged' /\ IdentityGoesLast'
    BY <1>5 DEF CloseMark, Step, SweptMeansMerged, IdentityGoesLast, WorkerInv, AfterScrub
  <2> QED
    BY <2>1, <2>2, <2>3, <2>4
<1>6. CASE CloseThrows(h)
  <2>1. TypeOK'
    BY <1>6 DEF CloseThrows, Step, AfterRefusal, WorkerInv
  <2>2. ASSUME NEW r \in Keys PROVE RequestInv(r)'
    BY <1>6 DEF CloseThrows, Step, AfterRefusal, RequestInv, WorkerInv, AfterScrub
  <2>3. ASSUME NEW u \in Workers PROVE WorkerInv(u)'
    BY <1>6 DEF CloseThrows, Step, AfterRefusal, RequestInv, WorkerInv, AfterScrub, SweptMeansMerged
  <2>4. SweptMeansMerged' /\ IdentityGoesLast'
    BY <1>6 DEF CloseThrows, Step, AfterRefusal, SweptMeansMerged, IdentityGoesLast, WorkerInv, AfterScrub
  <2> QED
    BY <2>1, <2>2, <2>3, <2>4
<1>7. CASE CloseFail(h)
  <2>1. TypeOK'
    BY <1>7 DEF CloseFail, Return, WorkerInv
  <2>2. ASSUME NEW r \in Keys PROVE RequestInv(r)'
    BY <1>7 DEF CloseFail, Return, RequestInv, WorkerInv, AfterScrub
  <2>3. ASSUME NEW u \in Workers PROVE WorkerInv(u)'
    BY <1>7 DEF CloseFail, Return, RequestInv, WorkerInv, AfterScrub, SweptMeansMerged
  <2>4. SweptMeansMerged' /\ IdentityGoesLast'
    BY <1>7 DEF CloseFail, Return, SweptMeansMerged, IdentityGoesLast, WorkerInv, AfterScrub
  <2> QED
    BY <2>1, <2>2, <2>3, <2>4
<1>8. CASE Scrub(h)
  <2>1. TypeOK'
    BY <1>8 DEF Scrub, Step, WorkerInv
  <2>2. ASSUME NEW r \in Keys PROVE RequestInv(r)'
    BY <1>8 DEF Scrub, Step, RequestInv, WorkerInv, AfterScrub
  <2>3. ASSUME NEW u \in Workers PROVE WorkerInv(u)'
    BY <1>8 DEF Scrub, Step, RequestInv, WorkerInv, AfterScrub, SweptMeansMerged
  <2>4. SweptMeansMerged' /\ IdentityGoesLast'
    BY <1>8 DEF Scrub, Step, SweptMeansMerged, IdentityGoesLast, WorkerInv, AfterScrub
  <2> QED
    BY <2>1, <2>2, <2>3, <2>4
<1>9. CASE ScrubMark(h)
  <2>1. TypeOK'
    BY <1>9 DEF ScrubMark, Step, WorkerInv
  <2>2. ASSUME NEW r \in Keys PROVE RequestInv(r)'
    BY <1>9 DEF ScrubMark, Step, RequestInv, WorkerInv, AfterScrub
  <2>3. ASSUME NEW u \in Workers PROVE WorkerInv(u)'
    BY <1>9 DEF ScrubMark, Step, RequestInv, WorkerInv, AfterScrub, SweptMeansMerged
  <2>4. SweptMeansMerged' /\ IdentityGoesLast'
    BY <1>9 DEF ScrubMark, Step, SweptMeansMerged, IdentityGoesLast, WorkerInv, AfterScrub
  <2> QED
    BY <2>1, <2>2, <2>3, <2>4
<1>10. CASE Abort(h)
  <2>1. TypeOK'
    BY <1>10 DEF Abort, Return, WorkerInv
  <2>2. ASSUME NEW r \in Keys PROVE RequestInv(r)'
    BY <1>10 DEF Abort, Return, RequestInv, WorkerInv, AfterScrub
  <2>3. ASSUME NEW u \in Workers PROVE WorkerInv(u)'
    BY <1>10 DEF Abort, Return, RequestInv, WorkerInv, AfterScrub, SweptMeansMerged
  <2>4. SweptMeansMerged' /\ IdentityGoesLast'
    BY <1>10 DEF Abort, Return, SweptMeansMerged, IdentityGoesLast, WorkerInv, AfterScrub
  <2> QED
    BY <2>1, <2>2, <2>3, <2>4
<1> QED
  BY <1>1, <1>2, <1>3, <1>4, <1>5, <1>6, <1>7, <1>8, <1>9, <1>10

\* The external steps, of a handler or of the job, come after the scrub.
LEMMA CleanStep ==
    ASSUME DeletionInv, NEW w \in Workers,
           \/ CleanBlindPay(w)
           \/ CleanPrivy(w)
           \/ CleanForget(w)
           \/ CleanFinish(w)
    PROVE  DeletionInv'
<1> USE DEF DeletionInv, TypeOK, AccountDeletionStatus, rows, local, ledger, extern, answers
<1>1. CASE CleanBlindPay(w)
  <2>1. TypeOK'
    BY <1>1 DEF CleanBlindPay, Step, WorkerInv
  <2>2. ASSUME NEW r \in Keys PROVE RequestInv(r)'
    BY <1>1 DEF CleanBlindPay, Step, RequestInv, WorkerInv, AfterScrub
  <2>3. ASSUME NEW u \in Workers PROVE WorkerInv(u)'
    BY <1>1 DEF CleanBlindPay, Step, RequestInv, WorkerInv, AfterScrub, SweptMeansMerged
  <2>4. SweptMeansMerged' /\ IdentityGoesLast'
    BY <1>1 DEF CleanBlindPay, Step, SweptMeansMerged, IdentityGoesLast, WorkerInv, AfterScrub
  <2> QED
    BY <2>1, <2>2, <2>3, <2>4
<1>2. CASE CleanPrivy(w)
  <2>1. TypeOK'
    BY <1>2 DEF CleanPrivy, Step, WorkerInv
  <2>2. ASSUME NEW r \in Keys PROVE RequestInv(r)'
    BY <1>2 DEF CleanPrivy, Step, RequestInv, WorkerInv, AfterScrub
  <2>3. ASSUME NEW u \in Workers PROVE WorkerInv(u)'
    BY <1>2 DEF CleanPrivy, Step, RequestInv, WorkerInv, AfterScrub, SweptMeansMerged
  <2>4. SweptMeansMerged' /\ IdentityGoesLast'
    BY <1>2 DEF CleanPrivy, Step, SweptMeansMerged, IdentityGoesLast, WorkerInv, AfterScrub
  <2> QED
    BY <2>1, <2>2, <2>3, <2>4
<1>3. CASE CleanForget(w)
  <2>1. TypeOK'
    BY <1>3 DEF CleanForget, Step, Completed, WorkerInv
  <2>2. ASSUME NEW r \in Keys PROVE RequestInv(r)'
    BY <1>3 DEF CleanForget, Step, Completed, RequestInv, WorkerInv, AfterScrub
  <2>3. ASSUME NEW u \in Workers PROVE WorkerInv(u)'
    BY <1>3 DEF CleanForget, Step, Completed, RequestInv, WorkerInv, AfterScrub, SweptMeansMerged
  <2>4. SweptMeansMerged' /\ IdentityGoesLast'
    BY <1>3 DEF CleanForget, Step, Completed, SweptMeansMerged, IdentityGoesLast, WorkerInv, AfterScrub
  <2> QED
    BY <2>1, <2>2, <2>3, <2>4
<1>4. CASE CleanFinish(w)
  <2>1. TypeOK'
    <3>1. /\ status' \in [Keys -> AccountDeletionStatus \cup {"absent"}]
          /\ provider' \in [Keys -> BOOLEAN]
          /\ UNCHANGED <<closure, attempts, local, ledger, extern>>
      BY <1>4 DEF CleanFinish, WorkerInv
    <3>2. \/ Return(w)
          \/ pc' = [pc EXCEPT ![w] = "checking"] /\ UNCHANGED <<key, expected, answers, tries>>
      BY <1>4 DEF CleanFinish, Step
    <3>3. CASE Return(w)
      BY <3>1, <3>3 DEF Return
    <3>4. CASE pc' = [pc EXCEPT ![w] = "checking"] /\ UNCHANGED <<key, expected, answers, tries>>
      BY <3>1, <3>4
    <3> QED
      BY <3>2, <3>3, <3>4
  <2>2. ASSUME NEW r \in Keys PROVE RequestInv(r)'
    BY <1>4 DEF CleanFinish, Step, Return, Completed, RequestInv, WorkerInv, AfterScrub
  <2>3. ASSUME NEW u \in Workers PROVE WorkerInv(u)'
    BY <1>4 DEF CleanFinish, Step, Return, Completed, RequestInv, WorkerInv, AfterScrub, SweptMeansMerged
  <2>4. SweptMeansMerged' /\ IdentityGoesLast'
    BY <1>4 DEF CleanFinish, Step, Return, Completed, SweptMeansMerged, IdentityGoesLast, WorkerInv, AfterScrub
  <2> QED
    BY <2>1, <2>2, <2>3, <2>4
<1> QED
  BY <1>1, <1>2, <1>3, <1>4

\* The job takes scrubbed requests only, and counts its attempts up to the limit.
LEMMA JobStep ==
    ASSUME DeletionInv, NEW j \in Jobs,
           \/ \E k \in Keys : JobTake(j, k)
           \/ JobCleanThrows(j)
           \/ JobCheck(j)
           \/ JobCount(j)
           \/ JobFail(j)
           \/ JobCrash(j)
    PROVE  DeletionInv'
<1> USE DEF DeletionInv, TypeOK, AccountDeletionStatus, rows, local, ledger, extern, answers
<1>1. CASE \E k \in Keys : JobTake(j, k)
  <2>1. PICK k \in Keys : JobTake(j, k)
    BY <1>1
  <2>2. TypeOK'
    BY <2>1 DEF JobTake, Take, Pending, WorkerInv
  <2>3. ASSUME NEW r \in Keys PROVE RequestInv(r)'
    BY <2>1 DEF JobTake, Take, Pending, RequestInv, WorkerInv, AfterScrub
  <2>4. ASSUME NEW u \in Workers PROVE WorkerInv(u)'
    BY <2>1 DEF JobTake, Take, Pending, RequestInv, WorkerInv, AfterScrub, SweptMeansMerged
  <2>5. SweptMeansMerged' /\ IdentityGoesLast'
    BY <2>1 DEF JobTake, Take, Pending, SweptMeansMerged, IdentityGoesLast, WorkerInv, AfterScrub
  <2> QED
    BY <2>2, <2>3, <2>4, <2>5
<1>2. CASE JobCleanThrows(j)
  <2>1. TypeOK'
    BY <1>2 DEF JobCleanThrows, Step, WorkerInv
  <2>2. ASSUME NEW r \in Keys PROVE RequestInv(r)'
    BY <1>2 DEF JobCleanThrows, Step, RequestInv, WorkerInv, AfterScrub
  <2>3. ASSUME NEW u \in Workers PROVE WorkerInv(u)'
    BY <1>2 DEF JobCleanThrows, Step, RequestInv, WorkerInv, AfterScrub, SweptMeansMerged
  <2>4. SweptMeansMerged' /\ IdentityGoesLast'
    BY <1>2 DEF JobCleanThrows, Step, SweptMeansMerged, IdentityGoesLast, WorkerInv, AfterScrub
  <2> QED
    BY <2>1, <2>2, <2>3, <2>4
<1>3. CASE JobCheck(j)
  <2>1. TypeOK'
    <3>1. /\ status' \in [Keys -> AccountDeletionStatus \cup {"absent"}]
          /\ provider' \in [Keys -> BOOLEAN]
          /\ UNCHANGED <<closure, attempts, local, ledger, extern>>
      BY <1>3 DEF JobCheck, WorkerInv
    <3>2. \/ Return(j)
          \/ pc' = [pc EXCEPT ![j] = IF Exhausted(tries[j]) THEN "failing" ELSE "counting"] /\ UNCHANGED <<key, expected, answers, tries>>
      BY <1>3 DEF JobCheck, Step
    <3>3. CASE Return(j)
      BY <3>1, <3>3 DEF Return
    <3>4. CASE pc' = [pc EXCEPT ![j] = IF Exhausted(tries[j]) THEN "failing" ELSE "counting"] /\ UNCHANGED <<key, expected, answers, tries>>
      BY <3>1, <3>4 DEF Exhausted
    <3> QED
      BY <3>2, <3>3, <3>4
  <2>2. ASSUME NEW r \in Keys PROVE RequestInv(r)'
    BY <1>3 DEF JobCheck, Step, Return, Exhausted, RequestInv, WorkerInv, AfterScrub
  <2>3. ASSUME NEW u \in Workers PROVE WorkerInv(u)'
    BY <1>3 DEF JobCheck, Step, Return, Exhausted, RequestInv, WorkerInv, AfterScrub, SweptMeansMerged
  <2>4. SweptMeansMerged' /\ IdentityGoesLast'
    BY <1>3 DEF JobCheck, Step, Return, Exhausted, SweptMeansMerged, IdentityGoesLast, WorkerInv, AfterScrub
  <2> QED
    BY <2>1, <2>2, <2>3, <2>4
<1>4. CASE JobCount(j)
  <2>1. TypeOK'
    BY <1>4 DEF JobCount, Return, WorkerInv
  <2>2. ASSUME NEW r \in Keys PROVE RequestInv(r)'
    BY <1>4 DEF JobCount, Return, RequestInv, WorkerInv, AfterScrub
  <2>3. ASSUME NEW u \in Workers PROVE WorkerInv(u)'
    BY <1>4 DEF JobCount, Return, RequestInv, WorkerInv, AfterScrub, SweptMeansMerged
  <2>4. SweptMeansMerged' /\ IdentityGoesLast'
    BY <1>4 DEF JobCount, Return, SweptMeansMerged, IdentityGoesLast, WorkerInv, AfterScrub
  <2> QED
    BY <2>1, <2>2, <2>3, <2>4
<1>5. CASE JobFail(j)
  <2>1. TypeOK'
    BY <1>5 DEF JobFail, Return, WorkerInv
  <2>2. ASSUME NEW r \in Keys PROVE RequestInv(r)'
    BY <1>5 DEF JobFail, Return, RequestInv, WorkerInv, AfterScrub
  <2>3. ASSUME NEW u \in Workers PROVE WorkerInv(u)'
    BY <1>5 DEF JobFail, Return, RequestInv, WorkerInv, AfterScrub, SweptMeansMerged
  <2>4. SweptMeansMerged' /\ IdentityGoesLast'
    BY <1>5 DEF JobFail, Return, SweptMeansMerged, IdentityGoesLast, WorkerInv, AfterScrub
  <2> QED
    BY <2>1, <2>2, <2>3, <2>4
<1>6. CASE JobCrash(j)
  <2>1. TypeOK'
    BY <1>6 DEF JobCrash, Return, WorkerInv
  <2>2. ASSUME NEW r \in Keys PROVE RequestInv(r)'
    BY <1>6 DEF JobCrash, Return, RequestInv, WorkerInv, AfterScrub
  <2>3. ASSUME NEW u \in Workers PROVE WorkerInv(u)'
    BY <1>6 DEF JobCrash, Return, RequestInv, WorkerInv, AfterScrub, SweptMeansMerged
  <2>4. SweptMeansMerged' /\ IdentityGoesLast'
    BY <1>6 DEF JobCrash, Return, SweptMeansMerged, IdentityGoesLast, WorkerInv, AfterScrub
  <2> QED
    BY <2>1, <2>2, <2>3, <2>4
<1> QED
  BY <1>1, <1>2, <1>3, <1>4, <1>5, <1>6

\* The ledger merges the account once and for all; the user's payments do not matter.
LEMMA LedgerStep ==
    ASSUME DeletionInv,
           \/ \E xdr \in Amounts : ClosureApplied(xdr) \/ ClosureDropped(xdr)
           \/ BalanceChanges
    PROVE  DeletionInv'
<1> USE DEF DeletionInv, TypeOK, AccountDeletionStatus, rows, local, extern, answers
<1>1. CASE \E xdr \in Amounts : ClosureApplied(xdr)
  <2>1. PICK xdr \in Amounts : ClosureApplied(xdr)
    BY <1>1
  <2>2. TypeOK'
    BY <2>1 DEF ClosureApplied
  <2>3. \A r \in Keys : RequestInv(r)'
    BY <2>1 DEF ClosureApplied, RequestInv
  <2>4. \A u \in Workers : WorkerInv(u)'
    BY <2>1 DEF ClosureApplied, WorkerInv
  <2>5. SweptMeansMerged' /\ IdentityGoesLast'
    BY <2>1 DEF ClosureApplied, SweptMeansMerged, IdentityGoesLast
  <2> QED
    BY <2>2, <2>3, <2>4, <2>5
<1>2. CASE \E xdr \in Amounts : ClosureDropped(xdr)
  <2>1. PICK xdr \in Amounts : ClosureDropped(xdr)
    BY <1>2
  <2>2. TypeOK'
    BY <2>1 DEF ClosureDropped
  <2>3. \A r \in Keys : RequestInv(r)'
    BY <2>1 DEF ClosureDropped, RequestInv
  <2>4. \A u \in Workers : WorkerInv(u)'
    BY <2>1 DEF ClosureDropped, WorkerInv
  <2>5. SweptMeansMerged' /\ IdentityGoesLast'
    BY <2>1 DEF ClosureDropped, SweptMeansMerged, IdentityGoesLast
  <2> QED
    BY <2>2, <2>3, <2>4, <2>5
<1>3. CASE BalanceChanges
  <2>1. TypeOK'
    BY <1>3 DEF BalanceChanges
  <2>2. \A r \in Keys : RequestInv(r)'
    BY <1>3 DEF BalanceChanges, RequestInv
  <2>3. \A u \in Workers : WorkerInv(u)'
    BY <1>3 DEF BalanceChanges, WorkerInv
  <2>4. SweptMeansMerged' /\ IdentityGoesLast'
    BY <1>3 DEF BalanceChanges, SweptMeansMerged, IdentityGoesLast
  <2> QED
    BY <2>1, <2>2, <2>3, <2>4
<1> QED
  BY <1>1, <1>2, <1>3

\* The invariant is inductive.
LEMMA NextInv == DeletionInv /\ [Next]_vars => DeletionInv'
<1> SUFFICES ASSUME DeletionInv, [Next]_vars PROVE DeletionInv'
  OBVIOUS
<1>1. CASE UNCHANGED vars
  BY <1>1 DEF vars, DeletionInv, TypeOK, RequestInv, WorkerInv, SweptMeansMerged, IdentityGoesLast
<1>2. CASE \E h \in Handlers : HandlerNext(h)
  BY <1>2, RequestStep, CloseStep, CleanStep DEF HandlerNext, Clean
<1>3. CASE \E j \in Jobs : JobNext(j)
  BY <1>3, CleanStep, JobStep DEF JobNext, Clean
<1>4. CASE \/ \E xdr \in Amounts : ClosureApplied(xdr) \/ ClosureDropped(xdr)
           \/ BalanceChanges
  BY <1>4, LedgerStep
<1> QED
  BY <1>1, <1>2, <1>3, <1>4 DEF Next

\* Every reachable state satisfies the invariant.
THEOREM DeletionInvariant == Spec => []DeletionInv
<1>1. Init => DeletionInv
  BY InitInv
<1>2. DeletionInv /\ [Next]_vars => DeletionInv'
  BY NextInv
<1> QED
  BY <1>1, <1>2, PTL DEF Spec

\* CHAIN_CLOSED is said only of an account that left the ledger.
THEOREM ClosedWasMerged == Spec => []ClosedMeansMerged
<1>1. DeletionInv => ClosedMeansMerged
  BY DEF DeletionInv, RequestInv, ClosedMeansMerged
<1> QED
  BY <1>1, DeletionInvariant, PTL

\* COMPLETED is said only when the rows, the customer and the identity are gone.
THEOREM CompletedWasErased == Spec => []CompletedMeansErased
<1>1. DeletionInv => CompletedMeansErased
  BY DEF DeletionInv, RequestInv, CompletedMeansErased
<1> QED
  BY <1>1, DeletionInvariant, PTL

\* The identity is deleted only after the account's rows were scrubbed.
THEOREM IdentityWentLast == Spec => []IdentityGoesLast
<1>1. DeletionInv => IdentityGoesLast
  BY DEF DeletionInv
<1> QED
  BY <1>1, DeletionInvariant, PTL

\* The rows are scrubbed after the account left the ledger, or by a handler that
\* read a request without a closure.
THEOREM ClosureCameFirst == Spec => ClosureComesFirst
<1> DEFINE First ==
      ~scrubbed /\ scrubbed' =>
          \/ account = "merged"
          \/ \E h \in Handlers : pc[h] = "closed" /\ expected[h] = "none"
<1>1. DeletionInv /\ [Next]_vars => [First]_vars
  <2> SUFFICES ASSUME DeletionInv, Next, ~scrubbed, scrubbed'
               PROVE  First
    OBVIOUS
  <2>1. PICK h \in Handlers : Scrub(h)
    BY DEF Next, HandlerNext, JobNext, Clean, local, RequestCheck, RequestFindOpen, RequestCreate,
           RequestNoClosure, RequestBuild, RequestSave, ConfirmRead, ConfirmCheck, CloseSubmit,
           CloseLanded, CloseMark, CloseThrows, CloseFail, ScrubMark, Abort, CleanBlindPay,
           CleanPrivy, CleanForget, CleanFinish, JobTake, JobCleanThrows, JobCheck, JobCount,
           JobFail, JobCrash, ClosureApplied, ClosureDropped, BalanceChanges
  <2>2. pc[h] = "closed"
    BY <2>1 DEF Scrub, Step
  <2> QED
    BY <2>2 DEF DeletionInv, WorkerInv
<1> QED
  BY <1>1, DeletionInvariant, PTL DEF Spec, ClosureComesFirst
=============================================================================
