SPECIFICATION FairSpec
CONSTANTS
  c1 = c1
  c2 = c2
  c3 = c3
  Caller = {c1, c2, c3}
  Capacity = 2
  ReadSlots = 1
  Saved = 5
  None = None
INVARIANTS
  CommitsInAdmissionOrder
  AnswersMatchLog
  CleanStopRunsEverything
  StoppedIsQuiescent
PROPERTIES
  Answered
  ShutdownCompletes
  ImplementsService
\* The process really stops: the writer returns and no call is left.
CHECK_DEADLOCK FALSE
