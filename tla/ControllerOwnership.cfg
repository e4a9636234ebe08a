SPECIFICATION FairSpec
CONSTANTS
  DRs = {1, 2}
  Workloads = {"w1"}
  Specs <- Usable
  InitDRs <- Twins
  Prometheus = FALSE
  MaxBorn = 2
  MaxEdits = 2
PROPERTIES
  OneMaster
  OldestManages
