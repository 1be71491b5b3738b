\* Payment and marking: one of them per behaviour.
\* Sets of different services share model values: fewer permutations.
SPECIFICATION Spec
CONSTANTS
    Orders = {x1, x2}
    i1 = i1
    i2 = i2
    Items = {i1, i2}
    Courses = {i1}
    Series = {i2}
    Baskets <- MCBaskets
    ForSale = {i1}
    Handlers = {h1, h2}
    UsageLimit = 2
    MaxCalls = 2
    NoOrder = noOrder
    q1 = q1
    q2 = q2
    a1 = a1
    Attempts = {a1}
    Questions = {q1, q2}
    AttemptOf <- MCAttemptOf
    Teachers = {x1, x2}
    Desks = {h1, h2}
    Nobody = nobody
    MaxVisits = 3
SYMMETRY Symmetry
CHECK_DEADLOCK FALSE
INVARIANTS
    EnrolledHadSuccess SettledIsEnrolled OneEnrolment TallyIsEnrolments LimitSwitchesOff
    EvaluatedIsMarked MarkedIsEvaluated OneEvaluator FlaggedHasEvaluator
