SPECIFICATION Spec
CONSTANTS
  CPURounding = 1
  MemRounding = 1
  MinMemory = 2
  Containers = {"app"}
  OffContainers = {}
  Template <- BurstableTemplate
  CPUBounds <- Bounds2to9
  MemBounds <- Bounds2to9
  Policy <- BothValues
  UpdateMode = "InPlaceOnly"
  WebhookEnabled = TRUE
  HPAs <- CPUHPA
  Readings <- Busy
  Gaps = TRUE
  LimitBound = 16
INVARIANTS
  SizedWithinBounds
