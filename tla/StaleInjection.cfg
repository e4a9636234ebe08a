SPECIFICATION Spec
CONSTANTS
  DRs = {1, 2}
  Workloads = {"w1", "w2"}
  Specs <- Overlaps
  InitDRs <- OneOld
  Prometheus = FALSE
  MaxBorn = 2
  MaxEdits = 2
INVARIANTS
  InjectedByManager
