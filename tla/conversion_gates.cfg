\* Two conversions, two overlapping requests, two deposit keys; two lessons and two
\* devices; two versions of a policy, two operators and the seed, one evaluation at a
\* time; two versions of a disclosure, two instances and two calls.
SPECIFICATION MCSpec
CONSTANTS
    Conversions = {c1, c2}
    Deposits = {d1, d2}
    Requests = {h1, h2}
    NoConversion = NoConversion
    NoDeposit = NoDeposit
    l1 = l1
    l2 = l2
    q1 = q1
    q2 = q2
    q3 = q3
    Lessons = {l1, l2}
    Questions = {q1, q2, q3}
    LessonOf <- MCLessonOf
    Days = {d1, d2}
    Devices = {h1, h2}
    Intro = Intro
    LessonXp = 15
    IntroXp = 45
    DailyXp = 10
    Thresholds <- MCThresholds
    NoQuestion = NoQuestion
    Learners = {u1}
    Modules = {m1}
    MaxLevel = 1
    Versions = {2, 3}
    Meridian = 2
    SeedNeeds = {m1}
    Operators = {h1, h2}
    Seed = Seed
    Evaluations = {e1}
    NoLearner = NoLearner
    MaxVersion = 2
    Ttl = 2
    Instances = {c1, c2}
    Visits = {h1, h2}
    NoInstance = NoInstance
SYMMETRY Symmetry
\* The system may stop: every conversion is settled, everything is learned, unlocked
\* and published.
CHECK_DEADLOCK FALSE
INVARIANTS
    ConfirmedMeansConverted
    ExpiredNeverMoved
    DepositSizedByArrival
    EarnedIsPaid
    AccountFollowsLedger
    UnlockWasEarned
    DepositNeedsRecentConsent
    NamedConsentIsOfTextShown
