SPECIFICATION Spec
CONSTANTS
  Pods = {p1, p2}
  MaxReplicas = 1
  MaxTemplate = 2
  MaxGeneration = 2
  UpdatePolls = 2
  Timeout = 2
  Every = 1
  None = None
INVARIANT TypeOK
PROPERTIES ReadyIsOfThisDeploy PanicsOnlyAlongDelete WaitEnds
CHECK_DEADLOCK FALSE
