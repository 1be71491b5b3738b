SPECIFICATION Spec
CONSTANTS
  None = None
  u1 = u1
  u2 = u2
  a1 = a1
  a2 = a2
  Users = {u1, u2}
  Author = u2
  Admitted = {u1}
  Attempts = {a1, a2}
  Calls = {c1, c2, c3}
  Held <- HeldByFirst
  AttemptAllowed = 1
  ShowFeedback = TRUE
  AutoEvaluation = TRUE
  Adaptive = FALSE
  Timed = TRUE
  Kinds = {"start", "finish", "mark", "capture"}
  OneAtATime = TRUE
  Failures = TRUE
SYMMETRY CallSymmetry
INVARIANTS
  Type
  HandInComplete
  AttemptLimit
PROPERTIES
  GradedStaysGraded
  HandsInOnce
CHECK_DEADLOCK FALSE
