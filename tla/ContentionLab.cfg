SPECIFICATION LabFairSpec
CONSTANTS
  c1 = c1
  c2 = c2
  c3 = c3
  p1 = p1
  p2 = p2
  Caller = {c1, c2, c3}
  Post = {p1, p2}
  Capacity = 3
  ReadSlots = 1
  Saved = 0
  None = None
INVARIANTS
  NothingOutlivesHandler
PROPERTIES
  EveryPostAnswered
  ReportIsComplete
  QueueFits
\* It really stops: every request has been answered.
CHECK_DEADLOCK FALSE
