\* One worker may die; a preparation may be stopped at any file.
SPECIFICATION FairSpec
CONSTANTS
  NumSlots = 2
  NumFiles = 3
  NumChunks = 2
  MaxTickets = 4
  MayFail = {1}
  MayStop = TRUE
INVARIANTS OnlyCutIsKept LoadIsReal HandedBack
PROPERTY CallersEnd
\* The pool rests when no caller comes any more.
CHECK_DEADLOCK FALSE
