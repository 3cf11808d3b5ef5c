----------------------------- MODULE GateProofs -----------------------------
(***************************************************************************)
(* What stands between a user and a vault, for any number of users,        *)
(* devices, instances and versions: the unlocks of the education gate, the *)
(* consents to the disclosures, what a new edition of the lessons does to  *)
(* progress, and what the catalogue says of a vault against what a deposit *)
(* into it does.                                                           *)
(***************************************************************************)
EXTENDS LearningXp, VaultEligibility, VaultDisclosure, LearningCatalogue, DepositAccess,
        FiniteSetTheorems, TLAPS

-----------------------------------------------------------------------------
(* What a user earns.                                                      *)

\* A product grows with its second factor.
LEMMA PointsGrow ==
    ASSUME NEW a \in Nat, NEW m \in Nat, NEW n \in Nat, m <= n
    PROVE  a * m \in Nat /\ a * n \in Nat /\ a * m <= a * n
<1>1. PICK d \in Nat : n = m + d
  BY m <= n
<1>2. a * n = a * m + a * d /\ a * d \in Nat /\ a * m \in Nat
  BY <1>1
<1> QED
  BY <1>2

\* How many lessons and days there are among some sources.
LEMMA SourcesAreCounted ==
    ASSUME NEW S \in SUBSET Sources, NEW T \in SUBSET S
    PROVE  /\ Cardinality(S \cap Lessons) \in Nat /\ Cardinality(S \cap Days) \in Nat
           /\ Cardinality(T \cap Lessons) \in Nat /\ Cardinality(T \cap Days) \in Nat
           /\ Cardinality(T \cap Lessons) <= Cardinality(S \cap Lessons)
           /\ Cardinality(T \cap Days) <= Cardinality(S \cap Days)
           /\ Cardinality(S \cap Lessons) <= Cardinality(Lessons)
           /\ Cardinality(S \cap Days) <= Cardinality(Days)
           /\ Cardinality(Lessons) \in Nat /\ Cardinality(Days) \in Nat
           /\ IsFiniteSet(S \cap Lessons) /\ IsFiniteSet(S \cap Days)
<1>1. IsFiniteSet(Lessons) /\ IsFiniteSet(Days)
  BY CatalogAssumption
<1>2. /\ S \cap Lessons \subseteq Lessons /\ S \cap Days \subseteq Days
      /\ T \cap Lessons \subseteq S \cap Lessons /\ T \cap Days \subseteq S \cap Days
  OBVIOUS
<1>3. IsFiniteSet(S \cap Lessons) /\ Cardinality(S \cap Lessons) <= Cardinality(Lessons)
  BY <1>1, <1>2, FS_Subset
<1>4. IsFiniteSet(S \cap Days) /\ Cardinality(S \cap Days) <= Cardinality(Days)
  BY <1>1, <1>2, FS_Subset
<1>5. IsFiniteSet(T \cap Lessons) /\ Cardinality(T \cap Lessons) <= Cardinality(S \cap Lessons)
  BY <1>2, <1>3, FS_Subset
<1>6. IsFiniteSet(T \cap Days) /\ Cardinality(T \cap Days) <= Cardinality(S \cap Days)
  BY <1>2, <1>4, FS_Subset
<1> QED
  BY <1>1, <1>3, <1>4, <1>5, <1>6, FS_CardinalityType

\* More sources are worth no fewer points, and all of them the most there is.
LEMMA PointsAre ==
    ASSUME NEW S \in SUBSET Sources, NEW T \in SUBSET S
    PROVE  PointsOf(S) \in 0 .. Max /\ PointsOf(T) \in 0 .. Max /\ PointsOf(T) <= PointsOf(S)
<1> DEFINE sl == Cardinality(S \cap Lessons)
           sd == Cardinality(S \cap Days)
           tl == Cardinality(T \cap Lessons)
           td == Cardinality(T \cap Days)
           cl == Cardinality(Lessons)
           cd == Cardinality(Days)
<1>1. /\ sl \in Nat /\ sd \in Nat /\ tl \in Nat /\ td \in Nat /\ cl \in Nat /\ cd \in Nat
      /\ tl <= sl /\ sl <= cl /\ td <= sd /\ sd <= cd
  BY SourcesAreCounted
<1>2. LessonXp \in Nat /\ IntroXp \in Nat /\ DailyXp \in Nat
  BY XpAssumption
<1>3. PointsOf(S) = LessonXp * sl + DailyXp * sd + (IF Intro \in S THEN IntroXp ELSE 0)
  BY DEF PointsOf
<1>4. PointsOf(T) = LessonXp * tl + DailyXp * td + (IF Intro \in T THEN IntroXp ELSE 0)
  BY DEF PointsOf
<1>5. Max = LessonXp * cl + DailyXp * cd + IntroXp
  BY DEF Max
<1> HIDE DEF sl, sd, tl, td, cl, cd
<1>6. /\ LessonXp * tl \in Nat /\ LessonXp * sl \in Nat /\ LessonXp * cl \in Nat
      /\ LessonXp * tl <= LessonXp * sl /\ LessonXp * sl <= LessonXp * cl
  BY <1>1, <1>2, PointsGrow
<1>7. /\ DailyXp * td \in Nat /\ DailyXp * sd \in Nat /\ DailyXp * cd \in Nat
      /\ DailyXp * td <= DailyXp * sd /\ DailyXp * sd <= DailyXp * cd
  BY <1>1, <1>2, PointsGrow
<1>8. Intro \in T => Intro \in S
  OBVIOUS
<1> DEFINE x1 == LessonXp * tl
           x2 == LessonXp * sl
           x3 == LessonXp * cl
           y1 == DailyXp * td
           y2 == DailyXp * sd
           y3 == DailyXp * cd
<1>9. /\ PointsOf(S) = x2 + y2 + (IF Intro \in S THEN IntroXp ELSE 0)
      /\ PointsOf(T) = x1 + y1 + (IF Intro \in T THEN IntroXp ELSE 0)
      /\ Max = x3 + y3 + IntroXp
  BY <1>3, <1>4, <1>5
<1>10. /\ x1 \in Nat /\ x2 \in Nat /\ x3 \in Nat /\ y1 \in Nat /\ y2 \in Nat /\ y3 \in Nat
       /\ x1 <= x2 /\ x2 <= x3 /\ y1 <= y2 /\ y2 <= y3
  BY <1>6, <1>7
<1> HIDE DEF x1, x2, x3, y1, y2, y3
<1> QED
  BY <1>2, <1>8, <1>9, <1>10

\* No source is worth no points.
LEMMA NoPoints == PointsOf({}) = 0 /\ 0 \in 0 .. Max
<1>1. PointsOf({}) \in 0 .. Max
  BY PointsAre
<1>2. {} \cap Lessons = {} /\ {} \cap Days = {} /\ Cardinality({}) = 0
  BY FS_EmptySet
<1>3. PointsOf({}) = LessonXp * 0 + DailyXp * 0 + 0
  BY <1>2 DEF PointsOf
<1> QED
  BY <1>1, <1>3, XpAssumption

\* A source that is granted adds its own points.
LEMMA PointsAdd ==
    ASSUME NEW S \in SUBSET Sources, NEW key \in Sources \ S
    PROVE  PointsOf(S \cup {key}) = PointsOf({key}) + PointsOf(S)
<1> DEFINE lessons == Cardinality(S \cap Lessons)
           days == Cardinality(S \cap Days)
           intro == IF Intro \in S THEN IntroXp ELSE 0
<1>1. LessonXp \in Nat /\ IntroXp \in Nat /\ DailyXp \in Nat /\ intro \in Nat
  BY XpAssumption
<1>2. lessons \in Nat /\ days \in Nat /\ IsFiniteSet(S \cap Lessons) /\ IsFiniteSet(S \cap Days)
  BY SourcesAreCounted
<1>3. Cardinality({}) = 0 /\ Cardinality({key}) = 1
  BY FS_EmptySet, FS_Singleton
<1>4. PointsOf(S) = LessonXp * lessons + DailyXp * days + intro
  BY DEF PointsOf
<1>5. LessonXp * lessons \in Nat /\ DailyXp * days \in Nat
  BY <1>1, <1>2
<1>6. /\ LessonXp * (lessons + 1) = LessonXp * lessons + LessonXp
      /\ DailyXp * (days + 1) = DailyXp * days + DailyXp
  BY <1>1, <1>2
<1>7. LessonXp * 0 = 0 /\ LessonXp * 1 = LessonXp /\ DailyXp * 0 = 0 /\ DailyXp * 1 = DailyXp
  BY <1>1
<1>8. CASE key \in Lessons
  <2>1. /\ (S \cup {key}) \cap Lessons = (S \cap Lessons) \cup {key} /\ (S \cup {key}) \cap Days = S \cap Days
        /\ {key} \cap Lessons = {key} /\ {key} \cap Days = {} /\ key # Intro
    BY <1>8, CatalogAssumption
  <2>2. Cardinality((S \cap Lessons) \cup {key}) = lessons + 1
    BY <1>2, FS_AddElement
  <2>3. PointsOf(S \cup {key}) = LessonXp * (lessons + 1) + DailyXp * days + intro
    BY <2>1, <2>2 DEF PointsOf
  <2>4. PointsOf({key}) = LessonXp * 1 + DailyXp * 0 + 0
    BY <1>3, <2>1 DEF PointsOf
  <2> HIDE DEF lessons, days, intro
  <2> QED
    BY <1>1, <1>4, <1>5, <1>6, <1>7, <2>3, <2>4
<1>9. CASE key \in Days
  <2>1. /\ (S \cup {key}) \cap Days = (S \cap Days) \cup {key} /\ (S \cup {key}) \cap Lessons = S \cap Lessons
        /\ {key} \cap Days = {key} /\ {key} \cap Lessons = {} /\ key # Intro
    BY <1>9, CatalogAssumption
  <2>2. Cardinality((S \cap Days) \cup {key}) = days + 1
    BY <1>2, FS_AddElement
  <2>3. PointsOf(S \cup {key}) = LessonXp * lessons + DailyXp * (days + 1) + intro
    BY <2>1, <2>2 DEF PointsOf
  <2>4. PointsOf({key}) = LessonXp * 0 + DailyXp * 1 + 0
    BY <1>3, <2>1 DEF PointsOf
  <2> HIDE DEF lessons, days, intro
  <2> QED
    BY <1>1, <1>4, <1>5, <1>6, <1>7, <2>3, <2>4
<1>10. CASE key = Intro
  <2>1. /\ (S \cup {key}) \cap Days = S \cap Days /\ (S \cup {key}) \cap Lessons = S \cap Lessons
        /\ {key} \cap Days = {} /\ {key} \cap Lessons = {}
    BY <1>10, CatalogAssumption
  <2>2. PointsOf(S \cup {key}) = LessonXp * lessons + DailyXp * days + IntroXp /\ intro = 0
    BY <1>10, <2>1 DEF PointsOf
  <2>3. PointsOf({key}) = LessonXp * 0 + DailyXp * 0 + IntroXp
    BY <1>3, <1>10, <2>1 DEF PointsOf
  <2> HIDE DEF lessons, days, intro
  <2> QED
    BY <1>1, <1>4, <1>5, <1>7, <2>2, <2>3
<1> QED
  BY <1>8, <1>9, <1>10 DEF Sources

\* Nobody begins with a level, and more points are no lower a level.
LEMMA LevelIs ==
    /\ \A x \in Nat : LevelOf(x) \in 0 .. Len(Thresholds)
    /\ \A x \in Nat : \A y \in Nat : x <= y => LevelOf(x) <= LevelOf(y)
    /\ LevelOf(0) = 0
<1> DEFINE Reached(x) == {i \in DOMAIN Thresholds : Thresholds[i] <= x}
<1>1. DOMAIN Thresholds = 1 .. Len(Thresholds) /\ Len(Thresholds) \in Nat
      /\ \A i \in DOMAIN Thresholds : Thresholds[i] \in Nat \ {0}
  BY ThresholdAssumption
<1>2. IsFiniteSet(1 .. Len(Thresholds)) /\ Cardinality(1 .. Len(Thresholds)) = Len(Thresholds)
  BY <1>1, FS_Interval
<1>3. ASSUME NEW x \in Nat
      PROVE  IsFiniteSet(Reached(x)) /\ Cardinality(Reached(x)) \in 0 .. Len(Thresholds)
  <2>1. Reached(x) \subseteq 1 .. Len(Thresholds)
    BY <1>1
  <2> QED
    BY <1>1, <1>2, <2>1, FS_Subset, FS_CardinalityType
<1>4. ASSUME NEW x \in Nat, NEW y \in Nat, x <= y
      PROVE  Cardinality(Reached(x)) <= Cardinality(Reached(y))
  <2>1. Reached(x) \subseteq Reached(y)
    BY <1>1, <1>4
  <2> QED
    BY <1>3, <2>1, FS_Subset
<1>5. Cardinality(Reached(0)) = 0
  <2>1. Reached(0) = {}
    BY <1>1
  <2> QED
    BY <2>1, FS_EmptySet
<1>6. \A x : LevelOf(x) = Cardinality(Reached(x))
  BY DEF LevelOf
<1> HIDE DEF Reached
<1> QED
  BY <1>3, <1>4, <1>5, <1>6

-----------------------------------------------------------------------------
(* The transactions.                                                       *)

\* An answer past its user's lock.
Locked(t) == t.question # NoQuestion /\ t.pc \notin {"idle", "lock"}

\* What a transaction has granted is new, and its total and level are those of the
\* ledger as it leaves it.
GrantInv(t) ==
    t.keys # {} =>
        /\ t.keys \cap ledger = {}
        /\ t.total = PointsOf(ledger \cup t.keys)
        /\ t.level = LevelOf(t.total)

\* A daily claim has granted a day, and ends.
DailyInv(t) ==
    t.question = NoQuestion =>
        /\ t.pc \in {"idle", "commit"} /\ t.keys \subseteq Days /\ ~t.right /\ ~t.done
        /\ t.pc = "idle" => t.keys = {}

\* An answer knows whether it completes its lesson, pays the lesson if it does, pays the
\* introduction if the lesson was the last, and says otherwise only if a question is missing.
AnswerInv(t) ==
    LET lesson == LessonOf[t.question] IN
    t.question # NoQuestion =>
        /\ t.pc # "idle"
        /\ t.pc \in {"lock", "score"} => t.keys = {} /\ ~t.done
        /\ t.pc = "lesson" => t.keys = {}
        /\ t.pc \in {"lesson", "intro"} => t.done
        /\ t.keys \subseteq {lesson, Intro}
        /\ lesson \in t.keys => t.done
        /\ t.done => (t.now <=> lesson \notin completed)
        /\ t.done /\ t.pc \in {"intro", "commit"} => lesson \in ledger \cup t.keys
        /\ t.pc = "commit" /\ t.done /\ t.now /\ completed \cup {lesson} = Lessons =>
               Intro \in ledger \cup t.keys
        /\ t.pc = "commit" /\ ~t.done =>
               \/ lesson \in rearranged
               \/ ~(RequiredOf(lesson) \subseteq correct \cup (IF t.right THEN {t.question} ELSE {}))

TxInv(t) == GrantInv(t) /\ DailyInv(t) /\ AnswerInv(t)

\* One transaction at most has granted anything, and one answer is past the lock.
Alone ==
    \A r, s \in Devices :
        r # s => /\ tx[r].keys = {} \/ tx[s].keys = {}
                 /\ ~(Locked(tx[r]) /\ Locked(tx[s]))

\* The inductive invariant of the trail.
LearnInv ==
    /\ LearnTypeOK /\ AccountFollowsLedger /\ EarnedIsPaid /\ Alone
    /\ \A l \in Lessons : RequiredOf(l) # {}
    /\ \A r \in Devices : TxInv(tx[r])

-----------------------------------------------------------------------------
\* A transaction that has not begun has done nothing.
LEMMA IdleIs == Idle \in DeviceRow /\ TxInv(Idle) /\ ~Locked(Idle) /\ Idle.keys = {}
<1>1. 0 \in 0 .. Len(Thresholds)
  BY LevelIs
<1> QED
  BY <1>1, NoPoints, CatalogAssumption DEF Idle, DeviceRow, TxInv, GrantInv, DailyInv, AnswerInv, Locked

\* A step within a transaction: nothing that the others read has changed.
LEMMA StepKeeps ==
    ASSUME LearnInv, NEW r \in Devices, NEW t \in DeviceRow, tx' = [tx EXCEPT ![r] = t],
           UNCHANGED <<required, correct, completed, account, rearranged>>, TxInv(t),
           t.keys # {} => \A s \in Devices \ {r} : tx[s].keys = {},
           Locked(t) => \A s \in Devices \ {r} : ~Locked(tx[s])
    PROVE  LearnInv'
<1>1. tx \in [Devices -> DeviceRow]
  BY DEF LearnInv, LearnTypeOK
<1>2. LearnTypeOK'
  BY <1>1 DEF LearnInv, LearnTypeOK, account
<1>3. Alone'
  BY <1>1 DEF LearnInv, Alone, Locked
<1>4. ASSUME NEW s \in Devices PROVE TxInv(tx[s])'
  <2>1. TxInv(tx'[s])
    BY <1>1 DEF LearnInv
  <2> QED
    BY <2>1 DEF TxInv, GrantInv, DailyInv, AnswerInv, account, RequiredOf, PointsOf, LevelOf
<1>5. AccountFollowsLedger'
  BY DEF LearnInv, AccountFollowsLedger, account, PointsOf, LevelOf
<1>6. EarnedIsPaid' /\ \A l \in Lessons : RequiredOf(l)' # {}
  BY DEF LearnInv, EarnedIsPaid, account, RequiredOf
<1> QED
  BY <1>2, <1>3, <1>4, <1>5, <1>6 DEF LearnInv

\* What a grant does to the transaction's row.
LEMMA GrantIs ==
    ASSUME LearnInv, NEW r \in Devices, NEW key \in Sources, NEW pc \in {"intro", "commit"},
           Grant(r, key, pc)
    PROVE  \E t \in DeviceRow :
               /\ tx' = [tx EXCEPT ![r] = t]
               /\ t.pc = pc /\ t.question = tx[r].question /\ t.right = tx[r].right
               /\ t.done = tx[r].done /\ t.now = tx[r].now
               /\ t.keys \in {tx[r].keys, tx[r].keys \cup {key}}
               /\ key \in ledger \cup t.keys
               /\ GrantInv(t)
               /\ \A s \in Devices \ {r} : tx[s].keys = {}
<1>1. tx \in [Devices -> DeviceRow] /\ tx[r] \in DeviceRow /\ GrantInv(tx[r]) /\ AccountFollowsLedger
      /\ ledger \in SUBSET Sources
  BY DEF LearnInv, LearnTypeOK, TxInv
<1>2. \A s \in Devices \ {r} : tx[s].keys = {}
  BY DEF Grant, AccountFree
<1>3. CASE key \in ledger \cup tx[r].keys
  <2> DEFINE t == [tx[r] EXCEPT !.pc = pc]
  <2>1. tx' = [tx EXCEPT ![r] = t]
    BY <1>1, <1>3 DEF Grant
  <2>2. t \in DeviceRow /\ t.pc = pc /\ t.question = tx[r].question /\ t.right = tx[r].right
        /\ t.done = tx[r].done /\ t.now = tx[r].now /\ t.keys = tx[r].keys /\ t.total = tx[r].total
        /\ t.level = tx[r].level
    BY <1>1 DEF DeviceRow
  <2> HIDE DEF t
  <2>3. GrantInv(t)
    BY <1>1, <2>2 DEF GrantInv
  <2> QED
    BY <1>2, <1>3, <2>1, <2>2, <2>3
<1>4. CASE key \notin ledger \cup tx[r].keys
  <2> DEFINE sum == PointsOf({key}) + (IF tx[r].keys = {} THEN totalXp ELSE tx[r].total)
             t == [tx[r] EXCEPT !.pc = pc, !.keys = tx[r].keys \cup {key}, !.total = sum,
                                !.level = LevelOf(sum)]
             before == ledger \cup tx[r].keys
  <2>1. tx' = [tx EXCEPT ![r] = t]
    BY <1>4 DEF Grant
  <2>2. before \in SUBSET Sources /\ key \in Sources \ before /\ tx[r].keys \in SUBSET Sources
    BY <1>1, <1>4 DEF DeviceRow
  <2>3. PointsOf(before) = IF tx[r].keys = {} THEN totalXp ELSE tx[r].total
    <3>1. CASE tx[r].keys = {}
      <4>1. before = ledger
        BY <3>1
      <4> QED
        BY <1>1, <3>1, <4>1 DEF AccountFollowsLedger
    <3>2. CASE tx[r].keys # {}
      BY <1>1, <3>2 DEF GrantInv
    <3> QED
      BY <3>1, <3>2
  <2>4. sum = PointsOf(before \cup {key})
    BY <2>2, <2>3, PointsAdd
  <2>5. before \cup {key} = ledger \cup (tx[r].keys \cup {key}) /\ before \cup {key} \in SUBSET Sources
    BY <2>2
  <2>6. sum \in 0 .. Max /\ sum \in Nat
    BY <2>4, <2>5, PointsAre
  <2>7. LevelOf(sum) \in 0 .. Len(Thresholds)
    BY <2>6, LevelIs
  <2> HIDE DEF sum, before
  <2>8. t \in DeviceRow /\ t.pc = pc /\ t.question = tx[r].question /\ t.right = tx[r].right
        /\ t.done = tx[r].done /\ t.now = tx[r].now /\ t.keys = tx[r].keys \cup {key} /\ t.total = sum
        /\ t.level = LevelOf(sum)
    BY <1>1, <2>2, <2>6, <2>7 DEF DeviceRow
  <2> HIDE DEF t
  <2>9. t.keys \cap ledger = {}
    BY <1>1, <1>4, <2>8 DEF GrantInv
  <2>10. GrantInv(t)
    BY <2>4, <2>5, <2>8, <2>9 DEF GrantInv
  <2> QED
    BY <1>2, <2>1, <2>8, <2>10
<1> QED
  BY <1>3, <1>4

-----------------------------------------------------------------------------
(* The steps.                                                              *)

\* An answer is read, takes the lock, and is scored; or a transaction is rolled back.
LEMMA AnswerBeginKeeps ==
    ASSUME LearnInv, NEW r \in Devices,
           (\E q \in Questions : AnswerRead(r, q)) \/ AnswerLock(r) \/ AnswerScore(r) \/ TransactionFails(r)
    PROVE  LearnInv'
<1>1. tx \in [Devices -> DeviceRow] /\ tx[r] \in DeviceRow /\ TxInv(tx[r]) /\ LessonOf \in [Questions -> Lessons]
      /\ NoQuestion \notin Questions
  BY LessonOfAssumption, CatalogAssumption DEF LearnInv, LearnTypeOK
<1>2. ASSUME NEW q \in Questions, AnswerRead(r, q) PROVE LearnInv'
  <2>1. PICK right \in BOOLEAN :
            tx' = [tx EXCEPT ![r] = [Idle EXCEPT !.pc = "lock", !.question = q, !.right = right]]
    BY <1>2 DEF AnswerRead
  <2> DEFINE t == [Idle EXCEPT !.pc = "lock", !.question = q, !.right = right]
  <2>2. t \in DeviceRow /\ t.pc = "lock" /\ t.question = q /\ t.keys = {} /\ ~t.done
    BY IdleIs DEF DeviceRow, Idle
  <2>3. tx' = [tx EXCEPT ![r] = t] /\ UNCHANGED <<required, correct, completed, account, rearranged>>
    BY <1>2, <2>1 DEF AnswerRead
  <2> HIDE DEF t
  <2>4. TxInv(t) /\ ~Locked(t)
    BY <1>1, <2>2 DEF TxInv, GrantInv, DailyInv, AnswerInv, Locked
  <2> QED
    BY <2>2, <2>3, <2>4, StepKeeps
<1>3. CASE AnswerLock(r)
  <2> DEFINE t == [tx[r] EXCEPT !.pc = "score"]
  <2>1. t \in DeviceRow /\ t.pc = "score" /\ t.question = tx[r].question /\ t.keys = tx[r].keys
        /\ t.done = tx[r].done
    BY <1>1 DEF DeviceRow
  <2>2. tx' = [tx EXCEPT ![r] = t] /\ UNCHANGED <<required, correct, completed, account, rearranged>>
        /\ tx[r].pc = "lock"
    BY <1>1, <1>3 DEF AnswerLock, Stage
  <2>3. \A s \in Devices \ {r} : ~Locked(tx[s])
    BY <1>3 DEF AnswerLock, UserFree, Locked
  <2> HIDE DEF t
  <2>4. TxInv(t) /\ t.keys = {}
    BY <1>1, <2>1, <2>2 DEF TxInv, GrantInv, DailyInv, AnswerInv
  <2> QED
    BY <2>1, <2>2, <2>3, <2>4, StepKeeps
<1>4. CASE AnswerScore(r)
  <2> DEFINE lesson == LessonOf[tx[r].question]
             mine == correct \cup (IF tx[r].right THEN {tx[r].question} ELSE {})
             done == RequiredOf(lesson) # {} /\ RequiredOf(lesson) \subseteq mine
             t == [tx[r] EXCEPT !.pc = IF done THEN "lesson" ELSE "commit", !.done = done,
                                !.now = done /\ lesson \notin completed]
  <2>1. tx[r].pc = "score" /\ tx[r].question # NoQuestion /\ tx[r].keys = {} /\ tx[r].question \in Questions
    BY <1>1, <1>4 DEF AnswerScore, Stage, TxInv, DailyInv, AnswerInv, DeviceRow
  <2>2. lesson \in Lessons /\ RequiredOf(lesson) # {}
    BY <1>1, <2>1 DEF LearnInv
  <2>3. done \in BOOLEAN /\ (done /\ lesson \notin completed) \in BOOLEAN
    OBVIOUS
  <2>4. tx' = [tx EXCEPT ![r] = t] /\ UNCHANGED <<required, correct, completed, account, rearranged>>
    BY <1>4 DEF AnswerScore, Lesson
  <2>5. ~done => ~(RequiredOf(lesson) \subseteq mine)
    BY <2>2
  <2> HIDE DEF done
  <2>6. /\ t \in DeviceRow /\ t.pc = IF done THEN "lesson" ELSE "commit"
        /\ t.question = tx[r].question /\ t.right = tx[r].right /\ t.keys = tx[r].keys
        /\ t.done = done /\ t.now = (done /\ lesson \notin completed)
    BY <1>1, <2>3 DEF DeviceRow
  <2>7. \A s \in Devices \ {r} : ~Locked(tx[s])
    BY <2>1 DEF LearnInv, Alone, Locked
  <2> HIDE DEF t
  <2>8. TxInv(t)
    BY <2>1, <2>3, <2>5, <2>6 DEF TxInv, GrantInv, DailyInv, AnswerInv
  <2> QED
    BY <2>1, <2>4, <2>6, <2>7, <2>8, StepKeeps
<1>5. CASE TransactionFails(r)
  BY <1>5, IdleIs, StepKeeps DEF TransactionFails
<1> QED
  BY <1>2, <1>3, <1>4, <1>5

\* A lesson, the introduction or a day is paid.
LEMMA GrantKeeps ==
    ASSUME LearnInv, NEW r \in Devices,
           AnswerGrant(r) \/ AnswerIntro(r) \/ (\E d \in Days : DailyClaim(r, d))
    PROVE  LearnInv'
<1>1. tx \in [Devices -> DeviceRow] /\ tx[r] \in DeviceRow /\ TxInv(tx[r]) /\ LessonOf \in [Questions -> Lessons]
      /\ NoQuestion \notin Questions
  BY LessonOfAssumption, CatalogAssumption DEF LearnInv, LearnTypeOK
<1> DEFINE lesson == LessonOf[tx[r].question]
<1>2. Lesson(r) = lesson
  BY DEF Lesson
<1>3. ASSUME tx[r].pc \in {"lesson", "intro"}
      PROVE  /\ tx[r].question \in Questions /\ lesson \in Lessons /\ Locked(tx[r])
             /\ \A s \in Devices \ {r} : ~Locked(tx[s])
  <2>1. tx[r].question # NoQuestion /\ tx[r].question \in Questions
    BY <1>1, <1>3 DEF TxInv, DailyInv, DeviceRow
  <2> QED
    BY <1>1, <1>3, <2>1 DEF LearnInv, Alone, Locked
<1>4. CASE AnswerGrant(r)
  <2>1. tx[r].pc = "lesson" /\ Grant(r, lesson, "intro")
        /\ UNCHANGED <<required, correct, completed, account, rearranged>>
    BY <1>2, <1>4 DEF AnswerGrant, Stage
  <2>2. lesson \in Sources
    BY <1>3, <2>1 DEF Sources
  <2>3. PICK t \in DeviceRow :
            /\ tx' = [tx EXCEPT ![r] = t]
            /\ t.pc = "intro" /\ t.question = tx[r].question /\ t.right = tx[r].right
            /\ t.done = tx[r].done /\ t.now = tx[r].now
            /\ t.keys \in {tx[r].keys, tx[r].keys \cup {lesson}}
            /\ lesson \in ledger \cup t.keys
            /\ GrantInv(t)
            /\ \A s \in Devices \ {r} : tx[s].keys = {}
    BY <2>1, <2>2, GrantIs
  <2>4. TxInv(t)
    BY <1>1, <1>3, <2>1, <2>3 DEF TxInv, DailyInv, AnswerInv
  <2> QED
    BY <1>3, <2>1, <2>3, <2>4, StepKeeps
<1>5. CASE AnswerIntro(r)
  <2>1. tx[r].pc = "intro" /\ UNCHANGED <<required, correct, completed, account, rearranged>>
    BY <1>5 DEF AnswerIntro, Stage
  <2>2. CASE tx[r].now /\ completed \cup {lesson} = Lessons
    <3>1. Grant(r, Intro, "commit") /\ Intro \in Sources
      BY <1>2, <1>5, <2>2 DEF AnswerIntro, Sources
    <3>2. PICK t \in DeviceRow :
              /\ tx' = [tx EXCEPT ![r] = t]
              /\ t.pc = "commit" /\ t.question = tx[r].question /\ t.right = tx[r].right
              /\ t.done = tx[r].done /\ t.now = tx[r].now
              /\ t.keys \in {tx[r].keys, tx[r].keys \cup {Intro}}
              /\ Intro \in ledger \cup t.keys
              /\ GrantInv(t)
              /\ \A s \in Devices \ {r} : tx[s].keys = {}
      BY <3>1, GrantIs
    <3>3. TxInv(t)
      BY <1>1, <1>3, <2>1, <3>2 DEF TxInv, DailyInv, AnswerInv
    <3> QED
      BY <1>3, <2>1, <3>2, <3>3, StepKeeps
  <2>3. CASE ~(tx[r].now /\ completed \cup {lesson} = Lessons)
    <3> DEFINE t == [tx[r] EXCEPT !.pc = "commit"]
    <3>1. tx' = [tx EXCEPT ![r] = t]
      BY <1>1, <1>2, <1>5, <2>3 DEF AnswerIntro
    <3>2. t \in DeviceRow /\ t.pc = "commit" /\ t.question = tx[r].question /\ t.right = tx[r].right
          /\ t.done = tx[r].done /\ t.now = tx[r].now /\ t.keys = tx[r].keys /\ t.total = tx[r].total
          /\ t.level = tx[r].level
      BY <1>1 DEF DeviceRow
    <3> HIDE DEF t
    <3>3. TxInv(t)
      BY <1>1, <1>3, <2>1, <2>3, <3>2 DEF TxInv, GrantInv, DailyInv, AnswerInv
    <3>4. t.keys # {} => \A s \in Devices \ {r} : tx[s].keys = {}
      BY <3>2 DEF LearnInv, Alone
    <3> QED
      BY <1>3, <2>1, <3>1, <3>2, <3>3, <3>4, StepKeeps
  <2> QED
    BY <2>2, <2>3
<1>6. ASSUME NEW d \in Days, DailyClaim(r, d) PROVE LearnInv'
  <2>1. tx[r].pc = "idle" /\ Grant(r, d, "commit") /\ d \in Sources
        /\ UNCHANGED <<required, correct, completed, account, rearranged>>
    BY <1>6 DEF DailyClaim, Stage, Sources
  <2>2. PICK t \in DeviceRow :
            /\ tx' = [tx EXCEPT ![r] = t]
            /\ t.pc = "commit" /\ t.question = tx[r].question /\ t.right = tx[r].right
            /\ t.done = tx[r].done /\ t.now = tx[r].now
            /\ t.keys \in {tx[r].keys, tx[r].keys \cup {d}}
            /\ d \in ledger \cup t.keys
            /\ GrantInv(t)
            /\ \A s \in Devices \ {r} : tx[s].keys = {}
    BY <2>1, GrantIs
  <2>3. tx[r].question = NoQuestion /\ tx[r].keys = {}
    BY <1>1, <2>1 DEF TxInv, DailyInv, AnswerInv
  <2>4. TxInv(t) /\ ~Locked(t)
    BY <1>1, <1>6, <2>2, <2>3 DEF TxInv, DailyInv, AnswerInv, Locked
  <2> QED
    BY <2>1, <2>2, <2>4, StepKeeps
<1> QED
  BY <1>4, <1>5, <1>6

\* A commit makes what the transaction did the account's, and frees its locks.
LEMMA CommitKeepsTrail ==
    ASSUME LearnInv, NEW r \in Devices, Commit(r)
    PROVE  LearnInv'
<1> DEFINE t == tx[r]
           lesson == LessonOf[t.question]
           after == ledger \cup t.keys
<1>1. /\ tx \in [Devices -> DeviceRow] /\ t \in DeviceRow /\ TxInv(t) /\ t.pc = "commit"
      /\ LessonOf \in [Questions -> Lessons] /\ NoQuestion \notin Questions
      /\ tx' = [tx EXCEPT ![r] = Idle] /\ UNCHANGED <<required, rearranged>>
      /\ ledger \in SUBSET Sources /\ completed \in SUBSET Lessons /\ correct \in SUBSET Questions
      /\ AccountFollowsLedger /\ EarnedIsPaid
  BY LessonOfAssumption, CatalogAssumption DEF LearnInv, LearnTypeOK, Commit, Stage
<1>2. /\ t.question = NoQuestion => t.keys \subseteq Days /\ ~t.right /\ ~t.done
      /\ t.question # NoQuestion => t.question \in Questions /\ lesson \in Lessons /\ Locked(t)
  BY <1>1 DEF TxInv, DailyInv, Locked, DeviceRow
<1>3. /\ ledger' = after /\ totalXp' = PointsOf(after) /\ level' = LevelOf(totalXp')
      /\ rewards' = 1 .. level'
  <2>1. CASE t.keys = {}
    <3>1. UNCHANGED account /\ after = ledger
      BY <2>1 DEF Commit
    <3> QED
      BY <1>1, <3>1 DEF account, AccountFollowsLedger
  <2>2. CASE t.keys # {}
    <3>1. ledger' = after /\ totalXp' = t.total /\ level' = t.level /\ rewards' = rewards \cup 1 .. t.level
      BY <2>2 DEF Commit
    <3>2. t.total = PointsOf(after) /\ t.level = LevelOf(t.total)
      BY <1>1, <2>2 DEF TxInv, GrantInv
    <3>3. after \in SUBSET Sources /\ ledger \in SUBSET after
      BY <1>1 DEF DeviceRow
    <3>4. PointsOf(after) \in 0 .. Max /\ PointsOf(ledger) \in 0 .. Max /\ PointsOf(ledger) <= PointsOf(after)
      BY <3>3, PointsAre
    <3>5. totalXp \in Nat /\ t.total \in Nat /\ totalXp <= t.total
      BY <1>1, <3>2, <3>4 DEF AccountFollowsLedger
    <3>6. level <= t.level /\ level \in Nat /\ t.level \in Nat
      <4>1. LevelOf(totalXp) <= LevelOf(t.total) /\ LevelOf(totalXp) \in 0 .. Len(Thresholds)
            /\ LevelOf(t.total) \in 0 .. Len(Thresholds)
        BY <3>5, LevelIs
      <4> QED
        BY <1>1, <3>2, <4>1 DEF AccountFollowsLedger
    <3>7. rewards' = 1 .. t.level
      <4>1. rewards = 1 .. level
        BY <1>1 DEF AccountFollowsLedger
      <4>2. (1 .. level) \subseteq 1 .. t.level
        BY <3>6
      <4> QED
        BY <3>1, <4>1, <4>2
    <3> QED
      BY <3>1, <3>2, <3>7
  <2> QED
    BY <2>1, <2>2
<1>4. AccountFollowsLedger'
  <2>1. PointsOf(after) = PointsOf(ledger)' /\ LevelOf(totalXp)' = LevelOf(totalXp')
    BY <1>3 DEF PointsOf, LevelOf
  <2> QED
    BY <1>3, <2>1 DEF AccountFollowsLedger
<1>5. /\ correct' = IF t.right THEN correct \cup {t.question} ELSE correct
      /\ completed' = IF t.done THEN completed \cup {lesson} ELSE completed
  BY DEF Commit, Lesson
<1>6. LearnTypeOK'
  <2>1. after \in SUBSET Sources
    BY <1>1 DEF DeviceRow
  <2>2. PointsOf(after) \in 0 .. Max /\ PointsOf(after) \in Nat
    BY <2>1, PointsAre
  <2>3. totalXp' \in 0 .. Max /\ level' \in 0 .. Len(Thresholds)
    BY <1>3, <2>2, LevelIs
  <2>4. rewards' \in SUBSET (1 .. Len(Thresholds))
    BY <1>3, <2>3, ThresholdAssumption
  <2>5. correct' \in SUBSET Questions /\ completed' \in SUBSET Lessons
    BY <1>1, <1>2, <1>5
  <2>6. tx' \in [Devices -> DeviceRow]
    BY <1>1, IdleIs
  <2> QED
    BY <1>1, <1>3, <2>1, <2>3, <2>4, <2>5, <2>6 DEF LearnInv, LearnTypeOK
<1>7. \A l : RequiredOf(l)' = RequiredOf(l)
  BY <1>1 DEF RequiredOf
<1>8. EarnedIsPaid'
  <2>1. ASSUME NEW l \in Lessons \ rearranged, RequiredOf(l) \subseteq correct' PROVE l \in completed'
    <3>1. CASE RequiredOf(l) \subseteq correct
      BY <1>1, <1>5, <2>1, <3>1 DEF EarnedIsPaid
    <3>2. CASE ~(RequiredOf(l) \subseteq correct)
      <4>1. t.right /\ t.question \in RequiredOf(l)
        BY <1>5, <2>1, <3>2
      <4>2. t.question # NoQuestion /\ l = lesson
        BY <1>2, <4>1 DEF RequiredOf
      <4>3. t.done
        BY <1>1, <1>5, <2>1, <4>1, <4>2 DEF TxInv, AnswerInv
      <4> QED
        BY <1>5, <4>2, <4>3
    <3> QED
      BY <3>1, <3>2
  <2>2. completed' = ledger' \cap Lessons
    <3>1. completed = ledger \cap Lessons
      BY <1>1 DEF EarnedIsPaid
    <3>2. CASE t.question = NoQuestion
      BY <1>2, <1>3, <1>5, <3>1, <3>2, CatalogAssumption
    <3>3. CASE t.question # NoQuestion
      <4>1. t.keys \subseteq {lesson, Intro} /\ (lesson \in t.keys => t.done)
            /\ (t.done => lesson \in after)
        BY <1>1, <3>3 DEF TxInv, AnswerInv
      <4> QED
        BY <1>2, <1>3, <1>5, <3>1, <3>3, <4>1, CatalogAssumption
    <3> QED
      BY <3>2, <3>3
  <2>3. completed' = Lessons => Intro \in ledger'
    <3>1. CASE completed' = completed
      BY <1>1, <1>3, <3>1 DEF EarnedIsPaid
    <3>2. CASE completed' # completed
      <4>1. t.done /\ lesson \notin completed /\ t.question # NoQuestion /\ completed' = completed \cup {lesson}
        BY <1>2, <1>5, <3>2
      <4> QED
        BY <1>1, <1>3, <4>1 DEF TxInv, AnswerInv
    <3> QED
      BY <3>1, <3>2
  <2> QED
    BY <1>1, <1>7, <2>1, <2>2, <2>3 DEF EarnedIsPaid
<1>9. Alone'
  BY <1>1, IdleIs DEF LearnInv, Alone
<1>10. ASSUME NEW s \in Devices PROVE TxInv(tx[s])'
  <2>1. CASE s = r
    <3>1. tx'[s] = Idle
      BY <1>1, <2>1
    <3> QED
      BY <3>1, CatalogAssumption DEF Idle, TxInv, GrantInv, DailyInv, AnswerInv
  <2>2. CASE s # r
    <3>1. tx'[s] = tx[s] /\ TxInv(tx[s]) /\ (t.keys = {} \/ tx[s].keys = {}) /\ ~(Locked(t) /\ Locked(tx[s]))
      BY <1>1, <2>2 DEF LearnInv, Alone
    <3>2. GrantInv(tx[s])'
      <4>1. CASE t.keys = {}
        <5>1. ledger' = ledger
          BY <1>3, <4>1
        <5> QED
          BY <3>1, <5>1 DEF TxInv, GrantInv, PointsOf, LevelOf
      <4>2. CASE tx[s].keys = {}
        BY <3>1, <4>2 DEF GrantInv
      <4> QED
        BY <3>1, <4>1, <4>2
    <3>3. DailyInv(tx[s])'
      BY <3>1 DEF TxInv, DailyInv
    <3>4. AnswerInv(tx[s])'
      <4>1. CASE Locked(t)
        <5>1. tx[s].question # NoQuestion => tx[s].pc \in {"idle", "lock"}
          BY <3>1, <4>1 DEF Locked
        <5> QED
          BY <3>1, <5>1 DEF TxInv, AnswerInv
      <4>2. CASE ~Locked(t)
        <5>1. correct' = correct /\ completed' = completed /\ ledger \subseteq ledger'
          BY <1>2, <1>3, <1>5, <4>2
        <5> QED
          BY <1>1, <1>7, <3>1, <5>1 DEF TxInv, AnswerInv
      <4> QED
        BY <4>1, <4>2
    <3> QED
      BY <3>2, <3>3, <3>4 DEF TxInv
  <2> QED
    BY <2>1, <2>2
<1>11. \A l \in Lessons : RequiredOf(l)' # {}
  BY <1>7 DEF LearnInv
<1> QED
  BY <1>4, <1>6, <1>8, <1>9, <1>10, <1>11 DEF LearnInv

\* The seed rearranges the lessons whose questions it changes.
LEMMA SeedKeeps ==
    ASSUME LearnInv, NEW S \in SUBSET Questions, SeedCatalog(S)
    PROVE  LearnInv'
<1>1. /\ required' = S /\ UNCHANGED <<correct, completed, account, tx>> /\ LessonOf \in [Questions -> Lessons]
      /\ rearranged' = rearranged \cup {LessonOf[q] : q \in (S \ required) \cup (required \ S)}
      /\ \A l \in Lessons : \E q \in S : LessonOf[q] = l
      /\ required \in SUBSET Questions /\ tx \in [Devices -> DeviceRow]
  BY LessonOfAssumption DEF LearnInv, LearnTypeOK, SeedCatalog
<1>2. ASSUME NEW l, l \notin rearranged' PROVE RequiredOf(l)' = RequiredOf(l) /\ l \notin rearranged
  BY <1>1, <1>2 DEF RequiredOf
<1>3. LearnTypeOK'
  BY <1>1 DEF LearnInv, LearnTypeOK, account
<1>4. AccountFollowsLedger'
  BY <1>1 DEF LearnInv, AccountFollowsLedger, account, PointsOf, LevelOf
<1>5. EarnedIsPaid'
  BY <1>1, <1>2 DEF LearnInv, EarnedIsPaid, account
<1>6. Alone'
  BY <1>1 DEF LearnInv, Alone, Locked
<1>7. \A l \in Lessons : RequiredOf(l)' # {}
  BY <1>1 DEF RequiredOf
<1>8. ASSUME NEW s \in Devices PROVE TxInv(tx[s])'
  <2>1. TxInv(tx[s]) /\ tx'[s] = tx[s]
    BY <1>1 DEF LearnInv
  <2>2. GrantInv(tx[s])' /\ DailyInv(tx[s])'
    BY <1>1, <2>1 DEF TxInv, GrantInv, DailyInv, account, PointsOf, LevelOf
  <2>3. AnswerInv(tx[s])'
    BY <1>1, <1>2, <2>1 DEF TxInv, AnswerInv, account
  <2> QED
    BY <2>2, <2>3 DEF TxInv
<1> QED
  BY <1>3, <1>4, <1>5, <1>6, <1>7, <1>8 DEF LearnInv

-----------------------------------------------------------------------------
\* LearnInv is inductive: it holds whatever answers, claims and editions overlap.
THEOREM LearnInvariant == LearnSpec => []LearnInv
<1>1. LearnInit => LearnInv
  <2> SUFFICES ASSUME LearnInit PROVE LearnInv
    OBVIOUS
  <2>1. PointsOf({}) = 0 /\ 0 \in 0 .. Max
    BY NoPoints
  <2>2. LevelOf(0) = 0 /\ 0 \in 0 .. Len(Thresholds)
    BY LevelIs
  <2>3. LearnTypeOK
    BY <2>1, <2>2, IdleIs DEF LearnInit, LearnTypeOK
  <2>4. AccountFollowsLedger
    BY <2>1, <2>2 DEF LearnInit, AccountFollowsLedger
  <2>5. \A l \in Lessons : RequiredOf(l) # {}
    BY LessonOfAssumption DEF LearnInit, RequiredOf
  <2>6. EarnedIsPaid
    BY <2>5, CatalogAssumption DEF LearnInit, EarnedIsPaid
  <2>7. Alone /\ \A r \in Devices : TxInv(tx[r])
    BY IdleIs DEF LearnInit, Alone
  <2> QED
    BY <2>3, <2>4, <2>5, <2>6, <2>7 DEF LearnInv
<1>2. LearnInv /\ [LearnNext]_learnVars => LearnInv'
  <2> SUFFICES ASSUME LearnInv, [LearnNext]_learnVars PROVE LearnInv'
    OBVIOUS
  <2>1. CASE UNCHANGED learnVars
    <3>1. LearnTypeOK' /\ Alone'
      BY <2>1 DEF learnVars, LearnInv, LearnTypeOK, Alone, Locked
    <3>2. AccountFollowsLedger'
      BY <2>1 DEF learnVars, LearnInv, AccountFollowsLedger, PointsOf, LevelOf
    <3>3. EarnedIsPaid' /\ \A l \in Lessons : RequiredOf(l)' # {}
      BY <2>1 DEF learnVars, LearnInv, EarnedIsPaid, RequiredOf
    <3>4. ASSUME NEW r \in Devices PROVE TxInv(tx[r])'
      <4>1. TxInv(tx[r])
        BY DEF LearnInv
      <4>2. GrantInv(tx[r])'
        BY <2>1, <4>1 DEF learnVars, TxInv, GrantInv, PointsOf, LevelOf
      <4>3. DailyInv(tx[r])'
        BY <2>1, <4>1 DEF learnVars, TxInv, DailyInv
      <4>4. AnswerInv(tx[r])'
        BY <2>1, <4>1 DEF learnVars, TxInv, AnswerInv, RequiredOf
      <4> QED
        BY <4>2, <4>3, <4>4 DEF TxInv
    <3> QED
      BY <3>1, <3>2, <3>3, <3>4 DEF LearnInv
  <2>2. CASE LearnNext
    BY <2>2, AnswerBeginKeeps, GrantKeeps, CommitKeepsTrail, SeedKeeps DEF LearnNext
  <2> QED
    BY <2>1, <2>2
<1> QED
  BY <1>1, <1>2, PTL DEF LearnSpec

\* Whichever devices the answers came from, and whatever the seed did in between: what was
\* learned is complete and paid, unless the seed withdrew the question that was missing.
THEOREM EarnedWasPaid == LearnSpec => []EarnedIsPaid
<1>1. LearnInv => EarnedIsPaid
  BY DEF LearnInv
<1> QED
  BY <1>1, LearnInvariant, PTL

\* Whatever grants overlap, no point is lost and none is given twice: the total is that of
\* the ledger, and level and rewards are those of the total.
THEOREM AccountsFollowLedgers == LearnSpec => []AccountFollowsLedger
<1>1. LearnInv => AccountFollowsLedger
  BY DEF LearnInv
<1> QED
  BY <1>1, LearnInvariant, PTL

-----------------------------------------------------------------------------
(* The gate: policies, evaluations and unlocks.                            *)

USE VersionAssumption, SeedAssumption, MaxLevelAssumption

\* A rule that is in force, or was when an evaluation read it, is on record.
InForceIsRecorded ==
    \A v \in Versions : InForce(v) =>
        [version |-> v, needs |-> policy[v].needs, min |-> policy[v].min] \in inForce

\* What an evaluation may still rely on: progress is never taken back.
EvaluationInv(e) ==
    LET u == eval[e].learner IN
    /\ eval[e].pc # "idle" => u \in Learners /\ eval[e].rule \in inForce
    /\ eval[e].pc = "persist" =>
        /\ eval[e].rule.min <= eval[e].level /\ eval[e].level <= reached[u]
        /\ eval[e].rule.needs \subseteq finished[u]

\* What an unlock of a user's is worth.
Earned(u) ==
    unlock[u] # NoUnlock =>
        \E rule \in inForce :
            /\ rule.version = unlock[u].version
            /\ rule.min <= unlock[u].level /\ unlock[u].level <= reached[u]
            /\ rule.needs \subseteq finished[u]

\* The inductive invariant of the gate.
GateInv ==
    /\ GateTypeOK /\ InForceIsRecorded
    /\ \A e \in Evaluations : EvaluationInv(e)
    /\ \A u \in Learners : Earned(u)

\* Progress leaves what was earned earned.
LEMMA ProgressKeeps ==
    ASSUME GateInv, NEW u \in Learners, SetMode(u) \/ Progress(u)
    PROVE  GateInv'
<1> USE DEF GateInv
<1>1. GateTypeOK'
  <2>1. CASE SetMode(u)
    BY <2>1 DEF GateTypeOK, SetMode
  <2>2. CASE reached[u] < MaxLevel /\ reached' = [reached EXCEPT ![u] = @ + 1] /\ UNCHANGED finished
    <3>1. reached[u] + 1 \in Levels
      BY <2>2 DEF GateTypeOK, Levels
    <3> QED
      BY <2>2, <3>1 DEF GateTypeOK, SetMode, Progress
  <2>3. ASSUME NEW m \in Modules, finished' = [finished EXCEPT ![u] = @ \cup {m}], UNCHANGED reached
        PROVE  GateTypeOK'
    BY <2>3 DEF GateTypeOK, SetMode, Progress
  <2> QED
    BY <2>1, <2>2, <2>3 DEF Progress
<1>2. \A w \in Learners : reached[w] <= reached'[w] /\ finished[w] \subseteq finished'[w]
                          /\ reached[w] \in Nat /\ reached'[w] \in Nat
  BY DEF GateTypeOK, SetMode, Progress, Levels
<1>3. UNCHANGED <<policy, unlock, eval, inForce>>
  BY DEF SetMode, Progress
<1>4. InForceIsRecorded'
  BY <1>3 DEF InForceIsRecorded, InForce
<1>5. ASSUME NEW e \in Evaluations PROVE EvaluationInv(e)'
  <2>1. eval[e].level \in Nat
    BY DEF GateTypeOK, EvalRow, Levels
  <2> QED
    BY <1>2, <1>3, <2>1 DEF EvaluationInv
<1>6. ASSUME NEW w \in Learners PROVE Earned(w)'
  <2>1. unlock[w].level \in Nat
    BY DEF GateTypeOK, Levels
  <2> QED
    BY <1>2, <1>3, <2>1 DEF Earned
<1> QED
  BY <1>1, <1>4, <1>5, <1>6

\* A transaction that has not committed changes nothing that others see.
LEMMA PolicyKeeps ==
    ASSUME GateInv,
           \/ SeedBegin
           \/ \E o \in Operators, rule \in Rule, publish \in BOOLEAN : PolicyBegin(o, rule, publish)
           \/ \E o \in Operators \cup {Seed} : PolicyScan(o) \/ PolicyDeactivate(o) \/ PolicyFails(o)
    PROVE  GateInv'
<1>1. GateTypeOK'
  <2>1. CASE SeedBegin
    BY <2>1 DEF SeedBegin, Rule, Levels, GateInv, GateTypeOK, user, TxRow
  <2>2. ASSUME NEW o \in Operators, NEW rule \in Rule, NEW publish \in BOOLEAN,
               PolicyBegin(o, rule, publish)
        PROVE  GateTypeOK'
    BY <2>2 DEF PolicyBegin, GateInv, GateTypeOK, user, TxRow
  <2>3. ASSUME NEW o \in Operators \cup {Seed},
               PolicyScan(o) \/ PolicyDeactivate(o) \/ PolicyFails(o)
        PROVE  GateTypeOK'
    <3>1. ptx[o] \in TxRow /\ NoTx \in TxRow /\ Active \in SUBSET Versions
      BY DEF GateInv, GateTypeOK, TxRow, NoTx, NoRule, Rule, Levels, Active
    <3>2. [ptx[o] EXCEPT !.pc = "deactivate", !.off = Active] \in TxRow
      BY <3>1 DEF TxRow
    <3>3. [ptx[o] EXCEPT !.pc = "commit", !.off = ptx[o].off \cap Active] \in TxRow
      BY <3>1 DEF TxRow
    <3>4. \E t \in TxRow : ptx' = [ptx EXCEPT ![o] = t]
      <4>1. CASE PolicyScan(o)
        BY <4>1, <3>2 DEF PolicyScan
      <4>2. CASE PolicyDeactivate(o)
        <5>1. ptx' = [ptx EXCEPT ![o] = [@ EXCEPT !.pc = "commit", !.off = @ \cap Active]]
          BY <4>2 DEF PolicyDeactivate
        <5> QED
          BY <3>1, <5>1 DEF TxRow
      <4>3. CASE PolicyFails(o)
        BY <4>3, <3>1 DEF PolicyFails
      <4> QED
        BY <2>3, <4>1, <4>2, <4>3
    <3>5. UNCHANGED <<policy, unlock, user, eval, inForce>>
      BY <2>3 DEF PolicyScan, PolicyDeactivate, PolicyFails
    <3> QED
      BY <3>4, <3>5 DEF GateInv, GateTypeOK, user
  <2> QED
    BY <2>1, <2>2, <2>3
<1>2. UNCHANGED <<policy, unlock, reached, finished, eval, inForce>>
  BY DEF SeedBegin, PolicyBegin, PolicyScan, PolicyDeactivate, PolicyFails, user
<1> QED
  BY <1>1, <1>2 DEF GateInv, InForceIsRecorded, InForce, EvaluationInv, Earned

\* A commit puts its rule on record before anybody is unlocked by it.
LEMMA CommitKeeps ==
    ASSUME GateInv, NEW o \in Operators \cup {Seed}, PolicyCommit(o)
    PROVE  GateInv'
<1> DEFINE rule == ptx[o].rule
           publish == ptx[o].publish
<1> USE DEF GateInv
<1>1. rule \in Rule /\ publish \in BOOLEAN
  BY DEF GateTypeOK, TxRow
<1>2. ASSUME NEW u \in Learners
      PROVE  reached[u] \in Levels /\ unlock[u] \in [version: Versions \cup {0}, level: Levels]
  BY DEF GateTypeOK
<1>3. UNCHANGED <<lite, reached, finished, eval>> /\ inForce \subseteq inForce'
      /\ inForce' \in SUBSET Rule
  BY <1>1 DEF PolicyCommit, user, GateTypeOK
<1>4. GateTypeOK'
  <2>1. policy' \in [Versions -> PolicyRow]
    <3>1. ASSUME NEW v \in Versions
          PROVE  [policy[v] EXCEPT !.active = policy[v].active /\ v \notin ptx[o].off] \in PolicyRow
      <4>1. policy[v] \in PolicyRow /\ (policy[v].active /\ v \notin ptx[o].off) \in BOOLEAN
        BY DEF GateTypeOK
      <4> QED
        BY <4>1 DEF PolicyRow
    <3>2. [state |-> IF publish THEN "published"
                     ELSE IF policy[rule.version].state = "absent" THEN "draft"
                     ELSE policy[rule.version].state,
           active |-> publish, needs |-> rule.needs, min |-> rule.min] \in PolicyRow
      BY <1>1 DEF GateTypeOK, PolicyRow, Rule
    <3> QED
      BY <3>1, <3>2 DEF PolicyCommit
  <2>2. unlock' \in [Learners -> [version: Versions \cup {0}, level: Levels]]
    BY <1>1, <1>2 DEF PolicyCommit, Materialized, GateTypeOK, Rule
  <2>3. ptx' \in [Operators \cup {Seed} -> TxRow]
    BY DEF PolicyCommit, GateTypeOK, TxRow, NoTx, NoRule, Rule, Levels
  <2> QED
    BY <1>3, <2>1, <2>2, <2>3 DEF GateTypeOK
<1>5. InForceIsRecorded'
  <2> SUFFICES ASSUME NEW v \in Versions, InForce(v)'
               PROVE  [version |-> v, needs |-> policy'[v].needs, min |-> policy'[v].min] \in inForce'
    BY DEF InForceIsRecorded
  <2>1. CASE v = rule.version
    <3>1. publish /\ policy'[v].needs = rule.needs /\ policy'[v].min = rule.min
      BY <2>1, <1>1 DEF PolicyCommit, InForce
    <3>2. rule \in inForce'
      BY <3>1 DEF PolicyCommit
    <3>3. rule = [version |-> rule.version, needs |-> rule.needs, min |-> rule.min]
      BY <1>1 DEF Rule
    <3> QED
      BY <2>1, <3>1, <3>2, <3>3
  <2>2. CASE v # rule.version
    <3>1. policy'[v] = [policy[v] EXCEPT !.active = policy[v].active /\ v \notin ptx[o].off]
      BY <2>2 DEF PolicyCommit
    <3>2. policy[v] \in PolicyRow
      BY DEF GateTypeOK
    <3>3. InForce(v) /\ policy'[v].needs = policy[v].needs /\ policy'[v].min = policy[v].min
      BY <3>1, <3>2 DEF InForce, PolicyRow
    <3> QED
      BY <1>3, <3>3 DEF InForceIsRecorded
  <2> QED
    BY <2>1, <2>2
<1>6. ASSUME NEW e \in Evaluations PROVE EvaluationInv(e)'
  BY <1>3 DEF EvaluationInv
<1>7. ASSUME NEW u \in Learners PROVE Earned(u)'
  <2>1. CASE unlock'[u] = unlock[u]
    BY <1>3, <2>1 DEF Earned
  <2>2. CASE unlock'[u] # unlock[u]
    <3>1. publish /\ Meets(u, rule) /\ unlock'[u] = [version |-> rule.version, level |-> reached[u]]
      BY <2>2 DEF PolicyCommit, Materialized, GateTypeOK
    <3>2. rule \in inForce'
      BY <3>1 DEF PolicyCommit
    <3>3. rule.min <= reached[u] /\ reached[u] <= reached[u]
      BY <1>1, <1>2, <3>1 DEF Meets, Rule, Levels
    <3> QED
      BY <1>3, <3>1, <3>2, <3>3 DEF Earned, Meets
  <2> QED
    BY <2>1, <2>2
<1> QED
  BY <1>4, <1>5, <1>6, <1>7

\* An evaluation carries the rule that it read until it writes the unlock.
LEMMA EvaluationKeeps ==
    ASSUME GateInv, NEW e \in Evaluations,
           \/ \E u \in Learners, v \in Versions : EvaluateRead(e, u, v)
           \/ EvaluateCheck(e) \/ EvaluatePersist(e) \/ EvaluateFails(e)
    PROVE  GateInv'
<1> USE DEF GateInv
<1>1. eval[e] \in EvalRow /\ NoEval \in EvalRow
  BY DEF GateTypeOK, EvalRow, NoEval, NoRule, Rule, Levels
<1>2. UNCHANGED <<policy, ptx, inForce, user>>
  BY DEF EvaluateRead, EvaluateCheck, EvaluatePersist, EvaluateFails, user
<1>3. InForceIsRecorded'
  BY <1>2 DEF InForceIsRecorded, InForce
<1>4. ASSUME NEW d \in Evaluations, d # e PROVE EvaluationInv(d)'
  BY <1>2, <1>4 DEF EvaluationInv, EvaluateRead, EvaluateCheck, EvaluatePersist, EvaluateFails, user,
                    GateTypeOK
<1>5. ASSUME NEW u \in Learners, NEW v \in Versions, EvaluateRead(e, u, v)
      PROVE  GateInv'
  <2>1. [version |-> v, needs |-> policy[v].needs, min |-> policy[v].min] \in Rule \cap inForce
    BY <1>5 DEF EvaluateRead, InForceIsRecorded, GateTypeOK
  <2>2. GateTypeOK'
    BY <1>5, <1>2, <2>1 DEF EvaluateRead, GateTypeOK, EvalRow, user, Levels
  <2>3. EvaluationInv(e)'
    BY <1>5, <1>2, <2>1 DEF EvaluateRead, EvaluationInv, GateTypeOK
  <2>4. ASSUME NEW w \in Learners PROVE Earned(w)'
    BY <1>5, <1>2 DEF EvaluateRead, Earned, user
  <2> QED
    BY <1>3, <1>4, <2>2, <2>3, <2>4
<1>6. CASE EvaluateCheck(e)
  <2>1. eval[e].learner \in Learners /\ eval[e].rule \in inForce
    BY <1>6 DEF EvaluateCheck, EvaluationInv
  <2>2. [eval[e] EXCEPT !.pc = "persist", !.level = reached[eval[e].learner]] \in EvalRow
    BY <1>1, <2>1 DEF EvalRow, GateTypeOK
  <2>3. GateTypeOK'
    BY <1>6, <1>1, <1>2, <2>2 DEF EvaluateCheck, GateTypeOK, user
  <2>4. EvaluationInv(e)'
    <3>1. CASE Meets(eval[e].learner, eval[e].rule)
      <4>1. eval'[e] = [eval[e] EXCEPT !.pc = "persist", !.level = reached[eval[e].learner]]
        BY <1>6, <3>1 DEF EvaluateCheck, GateTypeOK
      <4>2. reached[eval[e].learner] \in Nat /\ eval[e].rule.min \in Nat
        BY <1>1, <2>1 DEF GateTypeOK, EvalRow, Rule, Levels
      <4> QED
        BY <1>1, <1>2, <2>1, <3>1, <4>1, <4>2 DEF EvaluationInv, EvalRow, Meets, user
    <3>2. CASE ~Meets(eval[e].learner, eval[e].rule)
      BY <1>6, <3>2 DEF EvaluateCheck, EvaluationInv, NoEval, GateTypeOK
    <3> QED
      BY <3>1, <3>2
  <2>5. ASSUME NEW w \in Learners PROVE Earned(w)'
    BY <1>6, <1>2 DEF EvaluateCheck, Earned, user
  <2> QED
    BY <1>3, <1>4, <2>3, <2>4, <2>5
<1>7. CASE EvaluatePersist(e)
  <2> DEFINE u == eval[e].learner
             given == [version |-> eval[e].rule.version, level |-> eval[e].level]
  <2>1. u \in Learners /\ EvaluationInv(e) /\ eval[e].pc = "persist"
    BY <1>7 DEF EvaluatePersist, EvaluationInv
  <2>2. given \in [version: Versions \cup {0}, level: Levels]
    BY <1>1 DEF EvalRow, Rule
  <2>3. GateTypeOK'
    BY <1>7, <1>1, <1>2, <2>1, <2>2 DEF EvaluatePersist, GateTypeOK, user
  <2>4. EvaluationInv(e)'
    BY <1>7 DEF EvaluatePersist, EvaluationInv, NoEval, GateTypeOK
  <2>5. ASSUME NEW w \in Learners PROVE Earned(w)'
    <3>1. CASE unlock'[w] = unlock[w]
      BY <1>2, <3>1 DEF Earned, user
    <3>2. CASE unlock'[w] # unlock[w]
      <4>1. w = u /\ unlock'[w] = given
        BY <1>7, <3>2 DEF EvaluatePersist, GateTypeOK
      <4> QED
        BY <1>2, <2>1, <4>1 DEF Earned, EvaluationInv, user
    <3> QED
      BY <3>1, <3>2
  <2> QED
    BY <1>3, <1>4, <2>3, <2>4, <2>5
<1>8. CASE EvaluateFails(e)
  <2>1. GateTypeOK'
    BY <1>8, <1>1, <1>2 DEF EvaluateFails, GateTypeOK, user
  <2>2. EvaluationInv(e)'
    BY <1>8 DEF EvaluateFails, EvaluationInv, NoEval, GateTypeOK
  <2>3. ASSUME NEW w \in Learners PROVE Earned(w)'
    BY <1>8, <1>2 DEF EvaluateFails, Earned, user
  <2> QED
    BY <1>3, <1>4, <2>1, <2>2, <2>3
<1> QED
  BY <1>5, <1>6, <1>7, <1>8

\* The gate's inductive invariant holds whatever transactions and evaluations overlap.
THEOREM GateInvariant == GateSpec => []GateInv
<1>1. GateInit => GateInv
  <2> SUFFICES ASSUME GateInit PROVE GateInv
    OBVIOUS
  <2>1. GateTypeOK
    BY DEF GateInit, GateTypeOK, PolicyRow, TxRow, EvalRow, NoRow, NoUnlock, NoTx, NoEval, NoRule,
           Rule, Levels
  <2> QED
    BY <2>1 DEF GateInit, GateInv, InForceIsRecorded, InForce, NoRow, EvaluationInv, NoEval, Earned
<1>2. GateInv /\ [GateNext]_gateVars => GateInv'
  <2>1. CASE GateNext
    BY <2>1, ProgressKeeps, PolicyKeeps, CommitKeeps, EvaluationKeeps DEF GateNext
  <2>2. CASE UNCHANGED gateVars
    BY <2>2 DEF gateVars, GateInv, GateTypeOK, InForceIsRecorded, InForce, EvaluationInv, Earned
  <2> QED
    BY <2>1, <2>2
<1> QED
  BY <1>1, <1>2, PTL DEF GateSpec

\* No unlock is given on a rule that was never in force, or on progress that was never made.
THEOREM UnlocksAreEarned == GateSpec => []UnlockWasEarned
<1>1. GateInv => UnlockWasEarned
  BY DEF GateInv, Earned, UnlockWasEarned
<1> QED
  BY <1>1, GateInvariant, PTL

-----------------------------------------------------------------------------
(* The disclosures: versions, the cache of the current one, consents.      *)

USE MaxVersionAssumption, TtlAssumption, NoInstanceAssumption

\* A version that has aged was superseded, and stays so.
AgeInv == \A v \in Version : old[v] > 0 => Superseded(v)

\* An entry is dropped before its text is older than the cache's time.
CacheInv(i) ==
    cache[i].left > 0 /\ cache[i].version # 0 => old[cache[i].version] + cache[i].left <= Ttl

\* What a call may still rely on: what it read of the database in this tick is the
\* current text of this tick, what it read of the cache is not older than that, and
\* the version it is to accept, if it names one, was shown.
VisitInv(c) ==
    /\ Is(c, "cache") /\ visit[c].version # 0 => old[visit[c].version] = 0
    /\ Is(c, "end") /\ visit[c].version # 0 => old[visit[c].version] < Ttl
    /\ ~Is(c, "idle") => visit[c].at \in Instances
    /\ ~Is(c, "idle") /\ visit[c].op = "accept" => visit[c].expected \in shown \cup {0}

\* The inductive invariant of the disclosures.
DiscInv ==
    /\ DiscTypeOK /\ AgeInv /\ DepositNeedsRecentConsent /\ NamedConsentIsOfTextShown
    /\ \A i \in Instances : CacheInv(i)
    /\ \A c \in Visits : VisitInv(c)

\* Calls that begin, and entries that are empty, are rows.
LEMMA SmallRows ==
    /\ NoVisit \in VisitRow /\ NoEntry \in CacheRow
    /\ \A op \in Op, i \in Instances, pc \in {"lookup", "db", "end"},
          u \in 0 .. MaxVersion, v \in 0 .. MaxVersion :
        [pc |-> pc, op |-> op, at |-> i, version |-> u, expected |-> v] \in VisitRow
BY DEF NoVisit, NoEntry, VisitRow, CacheRow, Op

\* A step of the cache's lookup.
LEMMA LookupKeeps ==
    ASSUME DiscInv, NEW c \in Visits, Lookup(c) \/ ReadCurrent(c) \/ CacheCurrent(c)
    PROVE  DiscInv'
<1> USE DEF DiscInv, Is
<1>1. UNCHANGED <<text, vault, acked, shown, blind, old, stalest>>
  BY DEF Lookup, ReadCurrent, CacheCurrent
<1>2. AgeInv' /\ DepositNeedsRecentConsent' /\ NamedConsentIsOfTextShown'
  BY <1>1 DEF AgeInv, Superseded, Published, DepositNeedsRecentConsent, NamedConsentIsOfTextShown
<1>3. visit[c] \in VisitRow /\ \A i \in Instances : cache[i] \in CacheRow
  BY DEF DiscTypeOK
<1>4. \A v \in Version : old[v] \in Nat
  BY DEF DiscTypeOK, Ticks
<1>5. ASSUME NEW d \in Visits, d # c PROVE VisitInv(d)'
  BY <1>1, <1>5 DEF VisitInv, Lookup, ReadCurrent, CacheCurrent, DiscTypeOK
<1>6. CASE Lookup(c)
  <2> DEFINE i == visit[c].at
  <2>1. CASE cache[i].left > 0
    <3>1. visit' = [visit EXCEPT ![c] = [@ EXCEPT !.pc = "end", !.version = cache[i].version]]
          /\ cache' = [cache EXCEPT ![i].left = @]
      BY <1>6, <2>1 DEF Lookup, Left
    <3>2. i \in Instances /\ cache[i] \in CacheRow
      BY <1>3, <1>6 DEF Lookup, VisitInv
    <3>3. cache' = cache
      BY <3>1, <3>2 DEF DiscTypeOK, CacheRow
    <3>4. [visit[c] EXCEPT !.pc = "end", !.version = cache[i].version] \in VisitRow
      BY <1>3, <3>2 DEF VisitRow, CacheRow
    <3>5. DiscTypeOK'
      BY <1>1, <3>1, <3>3, <3>4 DEF DiscTypeOK
    <3>6. visit'[c].pc = "end" /\ visit'[c].version = cache[i].version /\ visit'[c].op = visit[c].op
          /\ visit'[c].expected = visit[c].expected /\ visit'[c].at = i
      BY <1>3, <3>1 DEF VisitRow, DiscTypeOK
    <3>7. cache[i].version # 0 => old[cache[i].version] < Ttl
      BY <1>4, <2>1, <3>2 DEF CacheInv, CacheRow, Version
    <3>8. VisitInv(c)'
      BY <1>1, <1>6, <3>6, <3>7 DEF VisitInv, Lookup
    <3>9. ASSUME NEW j \in Instances PROVE CacheInv(j)'
      BY <1>1, <3>3 DEF CacheInv
    <3> QED
      BY <1>2, <1>5, <3>5, <3>8, <3>9
  <2>2. CASE ~(cache[i].left > 0)
    BY <1>1, <1>2, <1>3, <1>5, <1>6, <2>2 DEF Lookup, DiscTypeOK, CacheInv, VisitInv, VisitRow
  <2> QED
    BY <2>1, <2>2
<1>7. CASE ReadCurrent(c)
  <2>1. PICK v \in 0 .. MaxVersion :
            IsCurrent(v) /\ visit' = [visit EXCEPT ![c] = [@ EXCEPT !.pc = "cache", !.version = v]]
    BY <1>7 DEF ReadCurrent
  <2>2. cache' = cache
    BY <1>7 DEF ReadCurrent
  <2>3. [visit[c] EXCEPT !.pc = "cache", !.version = v] \in VisitRow
    BY <1>3 DEF VisitRow
  <2>4. DiscTypeOK'
    BY <1>1, <2>1, <2>2, <2>3 DEF DiscTypeOK
  <2>5. v # 0 => old[v] = 0
    BY <2>1, <1>4 DEF IsCurrent, AgeInv, Superseded, Version, Published
  <2>6. visit'[c].pc = "cache" /\ visit'[c].version = v /\ visit'[c].op = visit[c].op
        /\ visit'[c].expected = visit[c].expected /\ visit'[c].at = visit[c].at
    BY <1>3, <2>1 DEF VisitRow, DiscTypeOK
  <2>7. VisitInv(c)'
    BY <1>1, <1>7, <2>5, <2>6 DEF VisitInv, ReadCurrent
  <2>8. ASSUME NEW i \in Instances PROVE CacheInv(i)'
    BY <1>1, <2>2 DEF CacheInv
  <2> QED
    BY <1>2, <1>5, <2>4, <2>7, <2>8
<1>8. CASE CacheCurrent(c)
  <2> DEFINE entry == [version |-> visit[c].version, left |-> Ttl]
  <2>1. entry \in CacheRow
    BY <1>3 DEF VisitRow, CacheRow
  <2>2. [visit[c] EXCEPT !.pc = "end"] \in VisitRow
    BY <1>3 DEF VisitRow
  <2>3. DiscTypeOK'
    BY <1>1, <1>8, <2>1, <2>2 DEF CacheCurrent, DiscTypeOK
  <2>4. VisitInv(c)'
    BY <1>1, <1>3, <1>8 DEF CacheCurrent, VisitInv, VisitRow, DiscTypeOK
  <2>5. ASSUME NEW i \in Instances PROVE CacheInv(i)'
    <3>1. CASE cache'[i] = cache[i]
      BY <1>1, <3>1 DEF CacheInv
    <3>2. CASE cache'[i] # cache[i]
      <4>1. cache'[i] = entry
        BY <1>8, <3>2 DEF CacheCurrent, DiscTypeOK
      <4>2. visit[c].version # 0 => old[visit[c].version] = 0
        BY <1>8 DEF CacheCurrent, VisitInv
      <4> QED
        BY <1>1, <4>1, <4>2 DEF CacheInv
    <3> QED
      BY <3>1, <3>2
  <2> QED
    BY <1>2, <1>5, <2>3, <2>4, <2>5
<1> QED
  BY <1>6, <1>7, <1>8

\* A request of the user.
LEMMA UserKeeps ==
    ASSUME DiscInv, NEW c \in Visits,
           \/ \E i \in Instances : Show(c, i) \/ Accept(c, i) \/ Deposit(c, i)
           \/ ShowEnd(c) \/ AcceptEnd(c) \/ DepositEnd(c)
    PROVE  DiscInv'
<1> USE DEF DiscInv, Is, Ends
<1>1. UNCHANGED <<text, vault, cache, old>> /\ shown \subseteq shown'
  <2>1. ASSUME NEW i \in Instances PROVE [cache EXCEPT ![i].left = Left(i)] = cache
    BY <2>1 DEF Left, DiscTypeOK, CacheRow
  <2> QED
    BY <2>1 DEF Show, Accept, Deposit, ShowEnd, AcceptEnd, DepositEnd
<1>2. visit[c] \in VisitRow /\ \A v \in Version : old[v] \in Nat
  BY DEF DiscTypeOK, Ticks
<1>3. AgeInv' /\ \A j \in Instances : CacheInv(j)'
  BY <1>1 DEF AgeInv, Superseded, Published, CacheInv
<1>4. ASSUME NEW d \in Visits, d # c PROVE VisitInv(d)'
  BY <1>1, <1>4 DEF VisitInv, Show, Accept, Deposit, ShowEnd, AcceptEnd, DepositEnd, Enter, Leave,
                    DiscTypeOK
<1>5. ASSUME NEW i \in Instances, NEW op \in Op, NEW v \in 0 .. MaxVersion,
             NEW pc \in {"lookup", "db"},
             Enter(c, op, i, pc, v), op = "accept" => v \in shown \cup {0},
             UNCHANGED <<acked, shown, blind, stalest>>
      PROVE  DiscInv'
  <2>1. [pc |-> pc, op |-> op, at |-> i, version |-> 0, expected |-> v] \in VisitRow
    BY SmallRows
  <2>2. DiscTypeOK'
    BY <1>1, <1>5, <2>1 DEF DiscTypeOK, Enter
  <2>3. VisitInv(c)'
    BY <1>5 DEF VisitInv, Enter, DiscTypeOK
  <2> QED
    BY <1>3, <1>4, <1>5, <2>2, <2>3 DEF DepositNeedsRecentConsent, NamedConsentIsOfTextShown
<1>6. ASSUME NEW i \in Instances, Show(c, i) \/ Accept(c, i) \/ Deposit(c, i)
      PROVE  DiscInv'
  <2>1. CASE Show(c, i) \/ Deposit(c, i) \/ (Accept(c, i) /\ ~(cache[i].left > 0))
    BY <1>5, <2>1 DEF Show, Accept, Deposit, Op, DiscTypeOK, Version
  <2>2. CASE Accept(c, i) /\ cache[i].left > 0
    <3> DEFINE row(v) == [pc |-> "end", op |-> "accept", at |-> i, version |-> cache[i].version, expected |-> v]
    <3>1. PICK v \in shown \cup {0} : visit' = [visit EXCEPT ![c] = row(v)]
      BY <2>2 DEF Accept
    <3>2. cache[i] \in CacheRow /\ v \in 0 .. MaxVersion
      BY DEF DiscTypeOK, Version
    <3>3. row(v) \in VisitRow
      BY <3>2, SmallRows DEF CacheRow, Op
    <3>4. UNCHANGED <<acked, shown, blind, stalest>>
      BY <2>2 DEF Accept
    <3>5. DiscTypeOK'
      BY <1>1, <3>1, <3>3, <3>4 DEF DiscTypeOK
    <3>6. cache[i].version # 0 => old[cache[i].version] < Ttl
      BY <1>2, <2>2, <3>2 DEF CacheInv, CacheRow, Version
    <3>7. visit'[c] = row(v)
      BY <3>1 DEF DiscTypeOK
    <3>8. VisitInv(c)'
      BY <1>1, <3>4, <3>6, <3>7 DEF VisitInv
    <3> QED
      BY <1>3, <1>4, <3>4, <3>5, <3>8 DEF DepositNeedsRecentConsent, NamedConsentIsOfTextShown
  <2> QED
    BY <1>6, <2>1, <2>2
<1>7. ASSUME ShowEnd(c) \/ AcceptEnd(c) \/ DepositEnd(c)
      PROVE  DiscInv'
  <2>1. visit' = [visit EXCEPT ![c] = NoVisit]
    BY <1>7 DEF ShowEnd, AcceptEnd, DepositEnd, Leave
  <2>2. VisitInv(c)'
    BY <2>1 DEF VisitInv, NoVisit, DiscTypeOK
  <2>3. visit[c].version # 0 => visit[c].version \in Version
    BY <1>2 DEF VisitRow, Version
  <2>4. visit' \in [Visits -> VisitRow]
    BY <2>1, SmallRows DEF DiscTypeOK
  <2>5. /\ acked' \in SUBSET Version /\ shown' \in SUBSET Version /\ blind' \in SUBSET Version
        /\ acked' \ blind' \subseteq shown'
    <3>1. CASE ShowEnd(c)
      BY <3>1, <2>3 DEF ShowEnd, DiscTypeOK, NamedConsentIsOfTextShown
    <3>2. CASE AcceptEnd(c)
      BY <3>2, <2>3 DEF AcceptEnd, Accepts, VisitInv, DiscTypeOK, NamedConsentIsOfTextShown
    <3>3. CASE DepositEnd(c)
      BY <3>3 DEF DepositEnd, DiscTypeOK, NamedConsentIsOfTextShown
    <3> QED
      BY <1>7, <3>1, <3>2, <3>3
  <2>6. stalest' \in Ticks /\ stalest' < Ttl
    <3>1. CASE stalest' = stalest
      BY <3>1 DEF DiscTypeOK, DepositNeedsRecentConsent
    <3>2. CASE stalest' # stalest
      <4>1. DepositEnd(c) /\ visit[c].version \in acked /\ stalest' = old[visit[c].version]
        BY <1>7, <3>2 DEF ShowEnd, AcceptEnd, DepositEnd
      <4>2. visit[c].version \in Version
        BY <4>1 DEF DiscTypeOK
      <4> QED
        BY <4>1, <4>2 DEF DepositEnd, VisitInv, DiscTypeOK, Version
    <3> QED
      BY <3>1, <3>2
  <2>7. DiscTypeOK'
    BY <1>1, <2>4, <2>5, <2>6 DEF DiscTypeOK
  <2> QED
    BY <1>3, <1>4, <2>2, <2>5, <2>6, <2>7 DEF DepositNeedsRecentConsent, NamedConsentIsOfTextShown
<1> QED
  BY <1>6, <1>7

\* A request of the operator, an error, and the death of an instance with its cache.
LEMMA OperatorKeeps ==
    ASSUME DiscInv,
           \/ \E c \in Visits :
                \/ ActivateEnd(c) \/ CreateEnd(c) \/ PublishEnd(c) \/ Invalidate(c) \/ VisitFails(c)
                \/ \E i \in Instances :
                    \/ Activate(c, i)
                    \/ \E v \in Version : Create(c, i, v) \/ Publish(c, i, v)
           \/ \E v \in {"unlisted", "open"} : Update(v)
    PROVE  DiscInv'
<1> USE DEF DiscInv, Is, Ends
<1>1. ASSUME UNCHANGED <<acked, shown, blind, old, stalest>>,
             vault' \in {"unlisted", "open"},
             text' \in [Version -> DisclosureRow], Published \subseteq Published',
             \A i \in Instances : cache'[i] \in {cache[i], NoEntry},
             cache' \in [Instances -> CacheRow],
             visit' \in [Visits -> VisitRow],
             \A d \in Visits :
                \/ visit'[d] \in {visit[d], NoVisit}
                \/ /\ visit'[d].version = 0 \/ visit'[d].pc = "invalidate"
                   /\ visit'[d].at \in Instances /\ visit'[d].op # "accept"
      PROVE  DiscInv'
  <2>1. DiscTypeOK'
    BY <1>1 DEF DiscTypeOK
  <2>2. AgeInv'
    BY <1>1 DEF AgeInv, Superseded
  <2>3. ASSUME NEW i \in Instances PROVE CacheInv(i)'
    BY <1>1 DEF CacheInv, NoEntry
  <2>4. ASSUME NEW d \in Visits PROVE VisitInv(d)'
    BY <1>1 DEF VisitInv, NoVisit
  <2> QED
    BY <1>1, <2>1, <2>2, <2>3, <2>4 DEF DepositNeedsRecentConsent, NamedConsentIsOfTextShown
<1>2. ASSUME NEW c \in Visits
      PROVE  visit[c] \in VisitRow
  BY DEF DiscTypeOK
<1>3. ASSUME NEW c \in Visits, ActivateEnd(c)
      PROVE  DiscInv'
  <2>1. vault' \in {"unlisted", "open"}
    BY <1>3 DEF ActivateEnd, DiscTypeOK
  <2> QED
    BY <1>1, <1>3, <2>1, SmallRows DEF ActivateEnd, Leave, DiscTypeOK, Published
<1>4. ASSUME NEW c \in Visits, CreateEnd(c) \/ PublishEnd(c)
      PROVE  DiscInv'
  <2>1. PICK s \in {"draft", "published"} :
            \/ text' = text
            \/ /\ text' = [text EXCEPT ![visit[c].expected] = s]
               /\ s = "draft" => text[visit[c].expected] = "absent"
    BY <1>4 DEF CreateEnd, PublishEnd
  <2>2. text' \in [Version -> DisclosureRow] /\ Published \subseteq Published'
    BY <2>1 DEF DiscTypeOK, DisclosureRow, Published
  <2>3. [visit[c] EXCEPT !.pc = "invalidate"] \in VisitRow
    BY <1>2 DEF VisitRow
  <2>4. visit' \in [Visits -> VisitRow]
    BY <1>4, <2>3, SmallRows DEF CreateEnd, PublishEnd, Leave, DiscTypeOK
  <2>5. visit[c].at \in Instances /\ visit[c].op # "accept"
    BY <1>4 DEF CreateEnd, PublishEnd, VisitInv
  <2>6. ASSUME NEW d \in Visits
        PROVE  \/ visit'[d] \in {visit[d], NoVisit}
               \/ visit'[d].pc = "invalidate" /\ visit'[d].at \in Instances /\ visit'[d].op # "accept"
    BY <1>2, <1>4, <2>5 DEF CreateEnd, PublishEnd, Leave, DiscTypeOK, VisitRow
  <2>7. UNCHANGED <<vault, cache, acked, shown, blind, old, stalest>>
    BY <1>4 DEF CreateEnd, PublishEnd
  <2> QED
    BY <1>1, <2>2, <2>4, <2>6, <2>7 DEF DiscTypeOK
<1>5. ASSUME NEW c \in Visits, Invalidate(c) \/ VisitFails(c)
      PROVE  DiscInv'
  <2>1. UNCHANGED <<text, vault, acked, shown, blind, old, stalest>>
    BY <1>5 DEF Invalidate, VisitFails
  <2>2. cache' = cache \/ cache' = [cache EXCEPT ![visit[c].at] = NoEntry]
    BY <1>5 DEF Invalidate, VisitFails
  <2>3. visit' \in [Visits -> VisitRow] /\ \A d \in Visits : visit'[d] \in {visit[d], NoVisit}
    BY <1>5, SmallRows DEF Invalidate, VisitFails, Leave, DiscTypeOK
  <2> QED
    BY <1>1, <2>1, <2>2, <2>3, SmallRows DEF DiscTypeOK, Published
<1>6. ASSUME NEW c \in Visits, NEW i \in Instances, NEW op \in Op \ {"accept"},
             NEW pc \in {"lookup", "end"}, NEW v \in 0 .. MaxVersion, Enter(c, op, i, pc, v),
             UNCHANGED <<text, vault, cache, acked, shown, blind, old, stalest>>
      PROVE  DiscInv'
  <2>1. [pc |-> pc, op |-> op, at |-> i, version |-> 0, expected |-> v] \in VisitRow
    BY SmallRows
  <2>2. visit' \in [Visits -> VisitRow]
    BY <1>6, <2>1 DEF Enter, DiscTypeOK
  <2>3. ASSUME NEW d \in Visits, visit'[d] # visit[d]
        PROVE  visit'[d].version = 0 /\ visit'[d].at \in Instances /\ visit'[d].op # "accept"
    BY <1>6, <2>3 DEF Enter, DiscTypeOK
  <2> QED
    BY <1>1, <1>6, <2>2, <2>3 DEF DiscTypeOK, Published
<1>7. ASSUME NEW c \in Visits, NEW i \in Instances,
             Activate(c, i) \/ (\E v \in Version : Create(c, i, v) \/ Publish(c, i, v))
      PROVE  DiscInv'
  BY <1>6, <1>7 DEF Activate, Create, Publish, Op, Version
<1>8. ASSUME NEW v \in {"unlisted", "open"}, Update(v)
      PROVE  DiscInv'
  BY <1>1, <1>8 DEF Update, DiscTypeOK, Published
<1> QED
  BY <1>3, <1>4, <1>5, <1>7, <1>8

\* In a tick an entry loses what its text, if it was superseded, gains in age.
LEMMA TickKeeps ==
    ASSUME DiscInv, Tick
    PROVE  DiscInv'
<1> USE DEF DiscInv, Is
<1>1. ASSUME NEW v \in Version
      PROVE  /\ old[v] \in Ticks /\ old'[v] \in Ticks
             /\ old'[v] = old[v] \/ (old'[v] = old[v] + 1 /\ Superseded(v))
  <2>1. old[v] \in Ticks
    BY DEF DiscTypeOK
  <2>2. old'[v] = IF Superseded(v) /\ old[v] <= Ttl THEN old[v] + 1 ELSE old[v]
    BY DEF Tick
  <2>3. old'[v] = old[v] \/ (old'[v] = old[v] + 1 /\ Superseded(v) /\ old[v] <= Ttl)
    BY <2>2
  <2> QED
    BY <2>1, <2>3 DEF Ticks
<1>2. ASSUME NEW i \in Instances
      PROVE  /\ cache'[i] \in CacheRow
             /\ cache'[i].left > 0 =>
                    cache'[i].version = cache[i].version /\ cache'[i].left = cache[i].left - 1
  <2>1. cache[i] \in CacheRow
    BY DEF DiscTypeOK
  <2>2. CASE cache[i].left < 2
    BY <2>2, SmallRows DEF NoEntry, Tick
  <2>3. CASE ~(cache[i].left < 2)
    BY <2>1, <2>3 DEF CacheRow, Tick
  <2> QED
    BY <2>2, <2>3
<1>3. DiscTypeOK'
  BY <1>1, <1>2 DEF DiscTypeOK, Tick
<1>4. AgeInv'
  BY <1>1 DEF AgeInv, Superseded, Published, Ticks, Tick
<1>5. ASSUME NEW i \in Instances PROVE CacheInv(i)'
  <2>1. cache[i] \in CacheRow
    BY DEF DiscTypeOK
  <2> DEFINE v == cache[i].version
  <2> SUFFICES ASSUME cache'[i].left > 0, v # 0
               PROVE  old'[v] + cache'[i].left <= Ttl
    BY <1>2 DEF CacheInv
  <2>2. v \in Version /\ cache[i].left \in Nat
    BY <2>1 DEF CacheRow, Version
  <2>3. cache'[i].left = cache[i].left - 1 /\ cache'[i].left \in Nat
    <3>1. cache'[i] \in CacheRow
      BY <1>2
    <3> QED
      BY <1>2, <3>1 DEF CacheRow
  <2>4. old[v] + cache[i].left <= Ttl
    BY <2>2, <2>3 DEF CacheInv
  <2> QED
    BY <1>1, <2>2, <2>3, <2>4 DEF Ticks
<1>6. ASSUME NEW c \in Visits PROVE VisitInv(c)'
  BY DEF VisitInv, Tick
<1> QED
  BY <1>3, <1>4, <1>5, <1>6 DEF Tick, DepositNeedsRecentConsent, NamedConsentIsOfTextShown

\* The inductive invariant of the disclosures holds however their calls overlap.
THEOREM DisclosureInvariant == DiscSpec => []DiscInv
<1>1. DiscInit => DiscInv
  <2> SUFFICES ASSUME DiscInit PROVE DiscInv
    OBVIOUS
  <2>1. DiscTypeOK
    BY SmallRows DEF DiscInit, DiscTypeOK, Version, DisclosureRow, Ticks
  <2> QED
    BY <2>1 DEF DiscInit, DiscInv, AgeInv, CacheInv, VisitInv, NoEntry, NoVisit, Is,
                DepositNeedsRecentConsent, NamedConsentIsOfTextShown
<1>2. DiscInv /\ [DiscNext]_discVars => DiscInv'
  <2>1. CASE DiscNext
    BY <2>1, LookupKeeps, UserKeeps, OperatorKeeps, TickKeeps DEF DiscNext
  <2>2. CASE UNCHANGED discVars
    BY <2>2 DEF discVars, DiscInv, DiscTypeOK, AgeInv, Superseded, Published, CacheInv, VisitInv, Is,
                DepositNeedsRecentConsent, NamedConsentIsOfTextShown
  <2> QED
    BY <2>1, <2>2
<1> QED
  BY <1>1, <1>2, PTL DEF DiscSpec

\* For any number of instances, versions and overlapping calls: no deposit rests on a text
\* that was superseded a cache's time ago.
THEOREM ConsentIsRecent == DiscSpec => []DepositNeedsRecentConsent
<1>1. DiscInv => DepositNeedsRecentConsent
  BY DEF DiscInv
<1> QED
  BY <1>1, DisclosureInvariant, PTL

\* A consent that was recorded by a call naming its text is to a text that was shown,
\* whatever is published meanwhile and whichever instances answer.
THEOREM NamedConsentIsInformed == DiscSpec => []NamedConsentIsOfTextShown
<1>1. DiscInv => NamedConsentIsOfTextShown
  BY DEF DiscInv
<1> QED
  BY <1>1, DisclosureInvariant, PTL

-----------------------------------------------------------------------------
(* A new edition of the catalogue: "Stable legacy mappings preserve
   progress during this upgrade" (learning-catalog.ts:3-4).*)

\* The entry of a key of a well-keyed edition is the one that has it.
LEMMA EntryIsItsOwn ==
    ASSUME NEW E, WellKeyed(E), NEW e \in E
    PROVE  Entry(E, e.key) = e
<1>1. \A f \in E : f.key = e.key => f = e
  BY DEF WellKeyed
<1> QED
  BY <1>1 DEF Entry

\* No row is lost: whatever answers refer to, by its id, the seed keeps under some key.
THEOREM NoRowIsLost ==
    ASSUME NEW E, WellKeyed(E), NEW rows, NEW new, NEW k \in DOMAIN rows
    PROVE  \E j \in DOMAIN Seeded(rows, E, new) : Seeded(rows, E, new)[j].id = rows[k].id
<1> DEFINE after == Seeded(rows, E, new)
<1>1. DOMAIN after = (DOMAIN rows \ TakenKeys(rows, E)) \cup KeysOf(E)
  BY DEF Seeded
<1>2. CASE k \in KeysOf(E)
  <2>1. PICK e \in E : e.key = k
    BY <1>2 DEF KeysOf
  <2>2. Entry(E, k) = e
    BY <2>1, EntryIsItsOwn
  <2>3. after[k].id = SeededId(rows, new, e)
    BY <1>2, <2>2 DEF Seeded
  <2> QED
    BY <1>1, <1>2, <2>1, <2>3 DEF SeededId
<1>3. CASE k \notin KeysOf(E) /\ k \in TakenKeys(rows, E)
  <2>1. PICK e \in E : e.legacy = k /\ Takes(rows, e)
    BY <1>3 DEF TakenKeys
  <2>2. e.key \in KeysOf(E) /\ Entry(E, e.key) = e
    BY <2>1, EntryIsItsOwn DEF KeysOf
  <2>3. after[e.key].id = SeededId(rows, new, e)
    BY <2>2 DEF Seeded
  <2>4. SeededId(rows, new, e) = rows[k].id
    BY <2>1 DEF SeededId, Takes
  <2> QED
    BY <1>1, <2>2, <2>3, <2>4
<1>4. CASE k \notin KeysOf(E) /\ k \notin TakenKeys(rows, E)
  <2>1. k \in DOMAIN after /\ after[k] = Withdrawn(rows, E, k)
    BY <1>1, <1>4 DEF Seeded
  <2>2. CASE rows[k].lesson \in LessonsOf(E)
    <3>1. after[k] = [rows[k] EXCEPT !.active = FALSE]
      BY <2>1, <2>2 DEF Withdrawn
    <3>2. [rows[k] EXCEPT !.active = FALSE].id = rows[k].id
      OBVIOUS
    <3> QED
      BY <2>1, <3>1, <3>2
  <2>3. CASE rows[k].lesson \notin LessonsOf(E)
    BY <2>1, <2>3 DEF Withdrawn
  <2> QED
    BY <2>2, <2>3
<1> QED
  BY <1>2, <1>3, <1>4

\* No answer stops counting: of a question that the edition names, and that the rows had
\* under its key or, failing that, under its legacy key, an answer is among those that
\* `progress` reports, under the key of today (learning.service.ts progress).
THEOREM AnswerStaysCounted ==
    ASSUME NEW E, WellKeyed(E), NEW rows, NEW new, NEW answered, NEW e \in E,
           \/ e.key \in DOMAIN rows /\ rows[e.key].id \in answered
           \/ Takes(rows, e) /\ rows[e.legacy].id \in answered
    PROVE  e.key \in CompletedKeys(Seeded(rows, E, new), answered)
<1> DEFINE after == Seeded(rows, E, new)
<1>1. e.key \in KeysOf(E) /\ Entry(E, e.key) = e
  BY EntryIsItsOwn DEF KeysOf
<1>2. e.key \in DOMAIN after
  BY <1>1 DEF Seeded
<1>3. after[e.key] = [id |-> SeededId(rows, new, e), lesson |-> e.lesson, active |-> TRUE]
  BY <1>1 DEF Seeded
<1>4. after[e.key].active /\ after[e.key].id = SeededId(rows, new, e)
  BY <1>3
<1>5. SeededId(rows, new, e) \in answered
  BY DEF SeededId, Takes
<1> QED
  BY <1>2, <1>4, <1>5 DEF CompletedKeys

\* The seed may run again: the second time it changes no row (README.md:111-119: it is for
\* existing databases too).
THEOREM SeedIsIdempotent ==
    ASSUME NEW E, WellKeyed(E), NEW rows, NEW new, NEW newer
    PROVE  Seeded(Seeded(rows, E, new), E, newer) = Seeded(rows, E, new)
<1> DEFINE once == Seeded(rows, E, new)
           twice == Seeded(once, E, newer)
<1>1. DOMAIN once = (DOMAIN rows \ TakenKeys(rows, E)) \cup KeysOf(E)
  BY DEF Seeded
<1>2. TakenKeys(once, E) = {}
  BY <1>1 DEF TakenKeys, Takes, KeysOf
<1>3. DOMAIN twice = DOMAIN once
  BY <1>1, <1>2 DEF Seeded
<1>4. ASSUME NEW k \in DOMAIN once
      PROVE  twice[k] = once[k]
  <2>1. CASE k \in KeysOf(E)
    <3>1. PICK e \in E : e.key = k /\ Entry(E, k) = e
      BY <2>1, EntryIsItsOwn DEF KeysOf
    <3>2. once[k] = [id |-> SeededId(rows, new, e), lesson |-> e.lesson, active |-> TRUE]
      BY <2>1, <3>1 DEF Seeded
    <3>3. twice[k] = [id |-> SeededId(once, newer, e), lesson |-> e.lesson, active |-> TRUE]
      BY <2>1, <3>1, <1>3 DEF Seeded
    <3>4. SeededId(once, newer, e) = once[k].id
      BY <3>1 DEF SeededId
    <3> QED
      BY <3>2, <3>3, <3>4
  <2>2. CASE k \notin KeysOf(E)
    <3>1. once[k] = Withdrawn(rows, E, k)
      BY <2>2, <1>1 DEF Seeded
    <3>2. twice[k] = Withdrawn(once, E, k)
      BY <2>2, <1>3 DEF Seeded
    <3>3. CASE rows[k].lesson \in LessonsOf(E)
      <4>1. once[k] = [rows[k] EXCEPT !.active = FALSE]
        BY <3>1, <3>3 DEF Withdrawn
      <4>2. [once[k] EXCEPT !.active = FALSE] = once[k]
        BY <4>1
      <4> QED
        BY <3>2, <4>2 DEF Withdrawn
    <3>4. CASE rows[k].lesson \notin LessonsOf(E)
      BY <3>1, <3>2, <3>4 DEF Withdrawn
    <3> QED
      BY <3>3, <3>4
  <2> QED
    BY <2>1, <2>2
<1>5. once = [k \in DOMAIN once |-> once[k]] /\ twice = [k \in DOMAIN twice |-> twice[k]]
  BY DEF Seeded
<1> QED
  BY <1>3, <1>4, <1>5

-----------------------------------------------------------------------------
(* What the catalogue says of a vault and what a deposit into it does.     *)

\* For a vault on the list whose disclosure is published, what the app is shown as
\* open is open: the deposit is refused by none of the four checks
\* (vaults.service.ts withAccessProjection, deposits.service.ts createDeposit).
THEOREM ShownOpenIsOpen ==
    ASSUME NEW v \in Vaults, NEW u \in Users, NEW s \in Switches,
           Listed(v), Current(v) # 0, CanDeposit(v, u, s)
    PROVE  Admits(v, u, s)
<1>1. v.enabled /\ (s.education => Eligible(v, u)) /\ (s.disclosure => ~Owes(v, u))
  BY DEF CanDeposit
<1>2. s.disclosure => Acknowledged(v, u)
  BY <1>1 DEF Owes, Acknowledged
<1> QED
  BY <1>1, <1>2 DEF Admits, Refusal

\* For any vault but a USDC one, what a deposit would accept is shown as open: the app
\* hides no door that the backend leaves unlocked.
THEOREM OpenIsShownOpen ==
    ASSUME NEW v \in Vaults, NEW u \in Users, NEW s \in Switches,
           ~v.usdc, Admits(v, u, s)
    PROVE  Listed(v) /\ CanDeposit(v, u, s)
<1>1. Listed(v) /\ v.enabled /\ (s.education => Eligible(v, u))
  BY DEF Admits, Refusal
<1>2. s.disclosure => Acknowledged(v, u)
  BY <1>1 DEF Admits, Refusal
<1>3. s.disclosure => ~Owes(v, u)
  BY <1>2 DEF Acknowledged, Owes
<1> QED
  BY <1>1, <1>3 DEF CanDeposit

\* The exemption of USDC is not in the projection: the two answers about a listed USDC
\* vault that takes deposits differ exactly when the switch is on and the user owes the
\* acknowledgment that the deposit will not ask for.
THEOREM UsdcDiffersWhenOwed ==
    ASSUME NEW v \in Vaults, NEW u \in Users, NEW s \in Switches,
           v.usdc, Listed(v), v.enabled
    PROVE  /\ Admits(v, u, s)
           /\ ~CanDeposit(v, u, s) <=> (s.disclosure /\ Owes(v, u))
<1>1. Eligible(v, u)
  BY DEF Eligible, Source, Users
<1> QED
  BY <1>1 DEF Admits, Refusal, CanDeposit

\* "Lite fails closed": with the gate on, a Lite user without an unlock deposits into a
\* vault of another asset only if a policy is in force and he meets all of it
\* (vault-eligibility.service.ts evaluate).
THEOREM LiteFailsClosed ==
    ASSUME NEW v \in Vaults, NEW u \in Users, NEW s \in Switches,
           s.education, u.mode = "LITE", ~u.unlocked, ~v.usdc, Admits(v, u, s)
    PROVE  v.policy \in Policies /\ u.level >= v.policy.min /\ v.policy.needs \subseteq u.finished
<1>1. Eligible(v, u)
  BY DEF Admits, Refusal
<1>2. Source(v, u) = "POLICY"
  BY DEF Source
<1>3. v.policy # NoPolicy /\ u.level >= v.policy.min /\ Missing(v, u) = {}
  BY <1>1, <1>2 DEF Eligible
<1>4. v.policy \in Policies
  BY <1>3 DEF Vaults
<1> QED
  BY <1>3, <1>4 DEF Missing

\* Consent is to the last text: a deposit that the disclosure let through, of an asset
\* that is not exempt, needs the user's acknowledgment of the highest version that is
\* published, and of no other (disclosure.guard.service.ts assertAcknowledged).
THEOREM ConsentIsToTheLast ==
    ASSUME Texts \subseteq Nat,
           NEW v \in Vaults, NEW u \in Users, NEW s \in Switches,
           s.disclosure, ~v.usdc, Admits(v, u, s),
           NEW n \in v.published, \A m \in v.published : m <= n
    PROVE  n \in u.acked
<1>1. Acknowledged(v, u)
  BY DEF Admits, Refusal
<1>2. Current(v) \in v.published /\ \A m \in v.published : m <= Current(v)
  BY DEF Current
<1>3. v.published \subseteq Nat
  BY DEF Vaults
<1>4. Current(v) = n
  BY <1>2, <1>3
<1> QED
  BY <1>1, <1>4 DEF Acknowledged
=============================================================================
