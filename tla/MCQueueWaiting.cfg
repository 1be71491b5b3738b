SPECIFICATION Spec
CONSTANTS
  None = None
  Attempts = {a1, a2}
  Calls = {c1, c2, c3}
  Workers = {w1, w2}
  LongCalls = {}
  Kinds = {"submit", "question"}
  Faults = {"worker"}
  OneAtATime = TRUE
SYMMETRY Symmetry
INVARIANTS
  NothingLeftBehind
CHECK_DEADLOCK FALSE
