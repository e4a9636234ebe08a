SPECIFICATION Spec
CONSTANTS
  NumWorkloads = 1
  Pods = {"p1", "p2"}
  PodsOf <- OneWorkload
  Cooldowns <- Edited
  Cap = 3
  Modes = {"Off", "InPlaceOnly", "InPlaceOrRecreate"}
  WebhookEnabled = TRUE
  Scalable = {}
  Demands <- Mixed
  Errors = TRUE
  Crashes = TRUE
INVARIANTS
  TypeOK
  SiblingsTogether
PROPERTIES
  CooldownRespected
  KeepsSpacing
