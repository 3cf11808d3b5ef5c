----------------------------- MODULE LearningXp -----------------------------
(***************************************************************************)
(* What one user learns and earns: answers complete lessons, lessons and   *)
(* the whole introduction pay experience points into a ledger, and so does *)
(* the daily reward.  An answer runs in one transaction under an advisory  *)
(* lock of its user; a daily claim runs in one without that lock; the seed *)
(* of the editorial catalog runs in a third, beside both.                  *)
(*                                                                         *)
(* The transactions are READ COMMITTED: each reads what the others have    *)
(* committed and what it wrote itself.                                     *)
(***************************************************************************)
EXTENDS Naturals, Sequences, FiniteSets

CONSTANTS
    Lessons,        \* INTRO_LESSON_KEYS, five of them, published together by the seed
    Questions, LessonOf,
    Days,           \* days in Sao Paulo on which the reward may be claimed
    Devices,       \* transactions of the user's devices that may overlap
    Intro,          \* the ledger's source 'module:INTRO'
    LessonXp,       \* completionXp of a lesson
    IntroXp,        \* LEARNING_INTRO_MODULE_COMPLETION_XP
    DailyXp,        \* EXPERIENCE_DAILY_REWARD_XP
    Thresholds,     \* xpRequiredForLevel of 1, 2, ...
    NoQuestion

ASSUME XpAssumption == {LessonXp, IntroXp, DailyXp} \subseteq Nat \ {0}
\* 40 * level ** 1.8 is positive and rises (experience-level.ts:31).
ASSUME ThresholdAssumption ==
    /\ Thresholds \in Seq(Nat \ {0})
    /\ \A i, j \in DOMAIN Thresholds : i < j => Thresholds[i] < Thresholds[j]
\* "must contain exactly six questions" (seed-learning.ts:438).
ASSUME LessonOfAssumption ==
    LessonOf \in [Questions -> Lessons] /\ \A l \in Lessons : \E q \in Questions : LessonOf[q] = l
ASSUME CatalogAssumption ==
    IsFiniteSet(Lessons) /\ Lessons # {} /\ IsFiniteSet(Days) /\ Intro \notin Lessons \cup Days
    /\ Lessons \cap Days = {} /\ NoQuestion \notin Questions

VARIABLES
    required,       \* the active, required questions
    correct,        \* questions with a firstCorrectAt
    completed,      \* lessons with a completedAt
    ledger,         \* sources with an ExperienceXpLedgerEntry
    totalXp, level, \* the ExperienceAccount
    rewards,        \* levels whose reward is unlocked
    tx,             \* per request: where its transaction is and what it wrote
    rearranged      \* history: lessons whose required questions the seed has changed

account   == <<ledger, totalXp, level, rewards>>
learnVars == <<required, correct, completed, ledger, totalXp, level, rewards, tx, rearranged>>

Sources == Lessons \cup Days \cup {Intro}

Idle == [pc |-> "idle", question |-> NoQuestion, right |-> FALSE, done |-> FALSE, now |-> FALSE,
         keys |-> {}, total |-> 0, level |-> 0]

Max == LessonXp * Cardinality(Lessons) + DailyXp * Cardinality(Days) + IntroXp

DeviceRow == [pc: {"idle", "lock", "score", "lesson", "intro", "commit"},
              question: Questions \cup {NoQuestion}, right: BOOLEAN, done: BOOLEAN, now: BOOLEAN,
              keys: SUBSET Sources, total: 0 .. Max, level: 0 .. Len(Thresholds)]

LearnTypeOK ==
    /\ required \in SUBSET Questions
    /\ correct \in SUBSET Questions
    /\ completed \in SUBSET Lessons
    /\ ledger \in SUBSET Sources
    /\ totalXp \in 0 .. Max
    /\ level \in 0 .. Len(Thresholds)
    /\ rewards \in SUBSET (1 .. Len(Thresholds))
    /\ tx \in [Devices -> DeviceRow]
    /\ rearranged \in SUBSET Lessons

LearnInit ==
    /\ required = Questions
    /\ correct = {} /\ completed = {}
    /\ ledger = {} /\ totalXp = 0 /\ level = 0 /\ rewards = {}
    /\ tx = [r \in Devices |-> Idle]
    /\ rearranged = {}

-----------------------------------------------------------------------------
Stage(r, pc) == tx[r].pc = pc
Lesson(r) == LessonOf[tx[r].question]
RequiredOf(l) == {q \in required : LessonOf[q] = l}
PointsOf(S) == LessonXp * Cardinality(S \cap Lessons) + DailyXp * Cardinality(S \cap Days)
               + (IF Intro \in S THEN IntroXp ELSE 0)

\* calculateExperienceLevel: the thresholds rise, so that counting them is enough.
LevelOf(xp) == Cardinality({i \in DOMAIN Thresholds : Thresholds[i] <= xp})

(* ExperienceLedgerService.grant: the dedupe key, the account, its level   *)
(* and the rewards.                                                        *)

\* Mutant: the total is read, added to and written, without the row's lock.
AccountUnlocked(r) == \A s \in Devices \ {r} : tx[s].keys \cap tx[r].keys = {}

\* The increment locks the account's row until its transaction ends; the insert
\* of a key waits for an uncommitted insert of the same one.
AccountFree(r) == \A s \in Devices \ {r} : tx[s].keys = {}

\* skipDuplicates: a key that is there grants nothing.
Grant(r, key, pc) ==
    /\ AccountFree(r)
    /\ IF key \in ledger \cup tx[r].keys
       THEN tx' = [tx EXCEPT ![r].pc = pc]
       ELSE LET sum == PointsOf({key}) + (IF tx[r].keys = {} THEN totalXp ELSE tx[r].total) IN
            tx' = [tx EXCEPT ![r] = [tx[r] EXCEPT !.pc = pc, !.keys = tx[r].keys \cup {key}, !.total = sum,
                                                  !.level = LevelOf(sum)]]

(* submitAnswer.                                                           *)

\* The question is read before the lock is taken.
AnswerRead(r, q) ==
    /\ Stage(r, "idle") /\ q \in required
    /\ \E right \in BOOLEAN :
        tx' = [tx EXCEPT ![r] = [Idle EXCEPT !.pc = "lock", !.question = q, !.right = right]]
    /\ UNCHANGED <<required, correct, completed, account, rearranged>>

\* Mutant: there is no lock of the user; only the rows are locked.
RowFree(r) ==
    \A s \in Devices \ {r} : ~(tx[s].pc \in {"lesson", "intro", "commit"} /\ tx[s].question = tx[r].question)

\* pg_advisory_xact_lock: held by a transaction past it, until it ends.
UserFree(r) ==
    \A s \in Devices \ {r} : tx[s].question # NoQuestion => tx[s].pc \in {"idle", "lock"}

AnswerLock(r) ==
    /\ Stage(r, "lock") /\ UserFree(r)
    /\ tx' = [tx EXCEPT ![r].pc = "score"]
    /\ UNCHANGED <<required, correct, completed, account, rearranged>>

\* The answer is recorded, the lesson's questions are counted, its progress is written.
AnswerScore(r) ==
    LET mine == correct \cup (IF tx[r].right THEN {tx[r].question} ELSE {})
        done == RequiredOf(Lesson(r)) # {} /\ RequiredOf(Lesson(r)) \subseteq mine
    IN  /\ Stage(r, "score")
        /\ tx' = [tx EXCEPT ![r] = [tx[r] EXCEPT !.pc = IF done THEN "lesson" ELSE "commit",
                                                 !.done = done,
                                                 !.now = done /\ Lesson(r) \notin completed]]
        /\ UNCHANGED <<required, correct, completed, account, rearranged>>

\* A lesson that is complete is paid, even if it was complete before this answer.
AnswerGrant(r) ==
    /\ Stage(r, "lesson")
    /\ Grant(r, Lesson(r), "intro")
    /\ UNCHANGED <<required, correct, completed, account, rearranged>>

\* The introduction is paid only by the answer that completes its last lesson.
AnswerIntro(r) ==
    /\ Stage(r, "intro")
    /\ IF tx[r].now /\ completed \cup {Lesson(r)} = Lessons
       THEN Grant(r, Intro, "commit")
       ELSE tx' = [tx EXCEPT ![r].pc = "commit"]
    /\ UNCHANGED <<required, correct, completed, account, rearranged>>

Commit(r) ==
    /\ Stage(r, "commit")
    /\ IF tx[r].keys = {}
       THEN UNCHANGED account
       ELSE /\ ledger' = ledger \cup tx[r].keys
            /\ totalXp' = tx[r].total
            /\ level' = tx[r].level
            /\ rewards' = rewards \cup 1 .. tx[r].level
    /\ correct' = IF tx[r].right THEN correct \cup {tx[r].question} ELSE correct
    /\ completed' = IF tx[r].done THEN completed \cup {Lesson(r)} ELSE completed
    /\ tx' = [tx EXCEPT ![r] = Idle]
    /\ UNCHANGED <<required, rearranged>>

(* claimDailyReward: a key that is there is a 409, and rolls back.         *)

DailyClaim(r, d) ==
    /\ Stage(r, "idle") /\ d \notin ledger
    /\ Grant(r, d, "commit")
    /\ UNCHANGED <<required, correct, completed, account, rearranged>>

\* A statement fails, or the instance dies: nothing of the transaction is kept.
TransactionFails(r) ==
    /\ ~Stage(r, "idle")
    /\ tx' = [tx EXCEPT ![r] = Idle]
    /\ UNCHANGED <<required, correct, completed, account, rearranged>>

(* seedLearning: the questions that the catalog does not name are made     *)
(* inactive, those that it names are active and required.                  *)

SeedCatalog(S) ==
    /\ S # required
    /\ \A l \in Lessons : \E q \in S : LessonOf[q] = l
    /\ required' = S
    /\ rearranged' = rearranged \cup {LessonOf[q] : q \in (S \ required) \cup (required \ S)}
    /\ UNCHANGED <<correct, completed, account, tx>>

-----------------------------------------------------------------------------
LearnNext ==
    \/ \E r \in Devices :
        \/ \E q \in Questions : AnswerRead(r, q)
        \/ AnswerLock(r) \/ AnswerScore(r) \/ AnswerGrant(r) \/ AnswerIntro(r)
        \/ Commit(r) \/ TransactionFails(r)
        \/ \E d \in Days : DailyClaim(r, d)
    \/ \E S \in SUBSET Questions : SeedCatalog(S)

LearnSpec == LearnInit /\ [][LearnNext]_learnVars

-----------------------------------------------------------------------------
(* Properties *)

\* What was learned is paid, whichever devices the answers came from: a lesson
\* whose required questions were all answered right is complete and paid, and the
\* introduction is paid once its last lesson is.  Only the seed may leave a lesson
\* answered and not complete: no answer comes to notice a question it withdrew.
EarnedIsPaid ==
    /\ \A l \in Lessons \ rearranged : RequiredOf(l) \subseteq correct => l \in completed
    /\ completed = ledger \cap Lessons
    /\ completed = Lessons => Intro \in ledger

\* The account is the projection of the ledger, whatever grants overlap: its total
\* is the sum of the entries, its level and its rewards are those of the total.
AccountFollowsLedger ==
    /\ totalXp = PointsOf(ledger)
    /\ level = LevelOf(totalXp)
    /\ rewards = 1 .. level
=============================================================================
