SPECIFICATION Spec
CONSTANTS
  Pods = {"p1", "p2"}
  Values <- Usages
  Base = 1
  LastBucket = 3
  Percentile = 90
  MaxExp = 1
  MaxTime = 4
INVARIANTS
  Covers
  Smallest
