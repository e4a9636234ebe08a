SPECIFICATION FairSpec
CONSTANTS
  CPURounding = 1
  MemRounding = 1
  MinMemory = 2
  Containers = {"app", "side"}
  OffContainers = {"side"}
  Template <- GuaranteedTemplate
  CPUBounds <- CPU2to9
  MemBounds <- Memory5to9
  Policy <- HalfSteps
  UpdateMode = "InPlaceOrRecreate"
  WebhookEnabled = TRUE
  LimitBound = 16
  Base = 1
  LastBucket = 3
  Percentile = 70
  MaxExp = 1
  MaxTime = 4
  Loads = {1, 4}
  LastChange = 1
  Providers = {"MetricsServer", "Prometheus"}
INVARIANTS
  NeverRefused
PROPERTIES
  SizesPods
  CoversUsage
  Tracks
