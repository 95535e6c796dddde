SPECIFICATION FairSpec
CONSTANTS
  c1 = c1
  v1 = v1
  p1 = p1
  p2 = p2
  Commit = {c1}
  Version = {v1}
  Run = {p1, p2}
  None = None
PROPERTY
  PromotionEnds
