SPECIFICATION Spec
CONSTANTS
  Providers = {"aws", "gcp", "local"}
  Apps = {a1}
  Domains = {d1, d2}
  Builds = {b1, b2}
  ReleaseIds = {r1, r2, r3}
  Handlers = {h1}
  MaxDeploys = 1
  NoDomain = NoDomain
  Nobody = Nobody
SYMMETRY Symmetry
INVARIANTS RecordHasStack 
PROPERTIES ImplementsRegistry DeployedIsRecorded
