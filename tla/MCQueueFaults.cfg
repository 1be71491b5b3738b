SPECIFICATION Spec
CONSTANTS
  None = None
  Attempts = {a1}
  Calls = {c1, c2}
  Workers = {w1, w2}
  LongCalls = {}
  Kinds = {"submit", "reset", "question"}
  Faults = {"call", "worker", "outage", "crash", "stall"}
  OneAtATime = FALSE
SYMMETRY Symmetry
INVARIANTS
  Type
  ClaimsCarryAnswers
  ProcessedWasGraded
  UnprocessedIsInHand
PROPERTIES
  GradesAtMostOnce
CHECK_DEADLOCK FALSE
