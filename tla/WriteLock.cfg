\* Processes that may die anywhere.
SPECIFICATION Spec
CONSTANTS
  Procs = {p1, p2, p3}
  MaxTries = 2
  NoDir = NoDir
SYMMETRY Symmetry
INVARIANTS MutualExclusion AloneEnters NothingLeftBehind
PROPERTY OnlyTheDeadAreRobbed
\* Processes may all have died, or made all their attempts.
CHECK_DEADLOCK FALSE
