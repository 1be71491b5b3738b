SPECIFICATION Spec
CONSTANTS
  None = None
  Attempts = {a1}
  Calls = {c1, c2, c3}
  Workers = {w1, w2}
  LongCalls = {c1}
  Kinds = {"submit"}
  Faults = {}
  OneAtATime = TRUE
INVARIANTS
  TimeWithinLimit
CHECK_DEADLOCK FALSE
