SPECIFICATION Spec
CONSTANTS
  c1 = c1
  c2 = c2
  Caller = {c1, c2}
  Capacity = 2
  ReadSlots = 1
  Saved = 5
  None = None
INVARIANTS
  AcceptedWritesExecute
\* The process really stops: the writer returns and no call is left.
CHECK_DEADLOCK FALSE
