SPECIFICATION FairSpec
CONSTANTS
  w1 = w1
  w2 = w2
  w3 = w3
  w4 = w4
  Writer = {w1, w2, w3, w4}
  None = None
INVARIANTS
  ReportIsTrue
  ContentionIsNoError
\* The round really ends.
CHECK_DEADLOCK FALSE
PROPERTIES
  RoundEnds
