SPECIFICATION Spec
CONSTANTS
  CPURounding = 1
  MemRounding = 1
  MinMemory = 2
  Containers = {"app"}
  OffContainers = {}
  Template <- BurstableTemplate
  CPUBounds <- Bounds2to9
  MemBounds <- Bounds2to9
  Policy <- BothValues
  UpdateMode = "InPlaceOnly"
  WebhookEnabled = TRUE
  HPAs <- NoHPAs
  Readings <- Varied
  Gaps = TRUE
  LimitBound = 24
INVARIANTS
  LimitWithinRatio
