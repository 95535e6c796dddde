SPECIFICATION Spec
CONSTANTS
  c1 = c1
  c2 = c2
  v1 = v1
  p1 = p1
  p2 = p2
  Commit = {c1, c2}
  Version = {v1}
  Run = {p1, p2}
  None = None
SYMMETRY Symmetry
INVARIANTS
  ReleasedIsTested
  SuccessIsTrue
