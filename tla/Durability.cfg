SPECIFICATION FairSpec
CONSTANTS
  MaxCommits = 4
  Absent = Absent
INVARIANTS
  ReplicaIsPrefix
  OnlyTheLastRunIsAtRisk
  FreshOnlyAtFirst
PROPERTIES
  FileOnlyGrows
  ImplementsLog
  BarrierEnds
