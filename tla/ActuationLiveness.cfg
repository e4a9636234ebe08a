SPECIFICATION FairSpec
CONSTANTS
  NumWorkloads = 2
  Pods = {"p1", "p2", "p3"}
  PodsOf <- Split
  Cooldowns <- LongUp
  Cap = 2
  Modes = {"Off", "InPlaceOnly", "InPlaceOrRecreate"}
  WebhookEnabled = FALSE
  Scalable = {1}
  Demands <- StuckThenUp
  Errors = FALSE
  Crashes = FALSE
PROPERTIES
  Served
  InfeasibleReported
  ScalingReported
