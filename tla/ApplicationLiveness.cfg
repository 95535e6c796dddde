SPECIFICATION AppFairSpec
CONSTANTS
  c1 = c1
  c2 = c2
  Caller = {c1, c2}
  Capacity = 1
  ReadSlots = 1
  Saved = 5
  None = None
PROPERTY
  EndsWhenItMust
\* The process really stops: it exits.
CHECK_DEADLOCK FALSE
