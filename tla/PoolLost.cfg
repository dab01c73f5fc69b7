\* One worker may die.
SPECIFICATION FairSpec
CONSTANTS
  NumSlots = 2
  NumFiles = 3
  NumChunks = 2
  MaxTickets = 6
  MayFail = {1}
  MayStop = FALSE
PROPERTY PreparationEnds
\* The pool rests when no caller comes any more.
CHECK_DEADLOCK FALSE
