SPECIFICATION AppSpec
CONSTANTS
  c1 = c1
  c2 = c2
  c3 = c3
  Caller = {c1, c2, c3}
  Capacity = 2
  ReadSlots = 1
  Saved = 5
  None = None
SYMMETRY Symmetry
INVARIANTS
  CleanExitLosesNothing
  WriterToldLast
  NothingOutlivesExit
PROPERTIES
  DrainKeepsAdmitting
  ReadinessTruthful
  ImplementsQueue
\* The process really stops: it exits.
CHECK_DEADLOCK FALSE
