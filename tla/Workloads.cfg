SPECIFICATION Spec
CONSTANTS
  Procs = {web, worker}
  CronProcs = {clock}
  Web = web
  Cmd = cmd
  Builds = {b1, b2}
  Procfiles = {b1, b2}
  Envs = {e1}
  MaxReplicas = 1
  Resources = {cpu}
  Limits = {l1}
  NoLimit = NoLimit
  Handlers = {h1, h2}
  MaxNamed = 2
  MaxRequests = 3
  None = None
SYMMETRY Symmetry
INVARIANT TypeOK
PROPERTIES LimitsPersist ImplementsTable DeployReachesAll DeleteLeavesNothing
CHECK_DEADLOCK FALSE
