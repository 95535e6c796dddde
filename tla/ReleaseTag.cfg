SPECIFICATION Spec
CONSTANTS
  k1 = k1
  k2 = k2
  c1 = c1
  c2 = c2
  Clone = {k1, k2}
  Commit = {c1, c2}
  ByHand = {c2}
  Version = {1, 2}
  None = None
SYMMETRY Symmetry
CONSTRAINT FewAbandoned
INVARIANTS
  PublishedIsChecked
  PushedIsTrue
PROPERTY
  OrderAsReported
