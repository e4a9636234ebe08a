SPECIFICATION Spec
CONSTANTS
  CPURounding = 1
  MemRounding = 1
  MinMemory = 2
  Containers = {"app"}
  OffContainers = {}
  Template <- BurstableTemplate
  CPUBounds <- Bounds2to9
  MemBounds <- Bounds2to9
  Policy <- BothValues
  UpdateMode = "InPlaceOrRecreate"
  WebhookEnabled = TRUE
  HPAs <- SomeHPA
  Readings <- Loads
  Gaps = TRUE
  LimitBound = 16
INVARIANTS
  SizedWithinBounds
  RequestsUnderLimits
  NeverRefused
PROPERTIES
  MemLimitNeverShrinks
  HeadroomKept
  OOMStaysRaised
