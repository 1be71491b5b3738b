\* Settings: two readers and two requests that change them; every fault.
\* Course: a plain content and a learning test, two requests at a time.
\* Coins: three activities, two calls at a time, a negative amount among them.
\* Grading: two questions, every combination of answers and settings; lists
\* with a gap, an unknown id and a repeat.
\* The system may stop: nobody has to ask for or change anything.
SPECIFICATION Spec
CONSTANTS
    Readers = {r1, r2}
    Writers = {w1, w2}
    Discounts = {d1, d2}
    None = none
    Contents = {text, quiz}
    Quizzes = {quiz}
    Optional = {}
    Demo = text
    Tabs = {tab1, tab2}
    NoContent = none
    MaxAsked = 4
    Activities = {v1, v2, v3}
    Amounts <- MCAmounts
    OwnCoins = 2
    Counters = {k1, k2}
    q1 = q1
    q2 = q2
    other = other
    TestQuestions <- MCTest
    SubjectPlans <- MCSubjectPlans
    Parts = 2
    TestMarks <- MCTestMarks
    QuestionMarks <- MCQuestionMarks
    Listings <- MCListings
CHECK_DEADLOCK FALSE
INVARIANTS
    StaleOnlyAfterUpset CouponsFollowDiscount
    StartedIsListed CompletionsStay CertificateIsEarned
    CountsMatchStatuses MarksAddUp   EveryQuestionCounts
    CoinsCoverRequests
PROPERTY CacheCatchesUp
