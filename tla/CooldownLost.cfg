SPECIFICATION Spec
CONSTANTS
  NumWorkloads = 1
  Pods = {"p1", "p2"}
  PodsOf <- OneWorkload
  Cooldowns <- UpDown
  Cap = 3
  Modes = {"InPlaceOnly", "InPlaceOrRecreate"}
  WebhookEnabled = TRUE
  Scalable = {}
  Demands <- AnyNeed
  Errors = TRUE
  Crashes = FALSE
PROPERTIES
  CooldownSpacing
