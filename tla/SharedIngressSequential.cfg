SPECIFICATION Spec
CONSTANTS
  Providers = {"aws", "gcp"}
  Apps = {a1, a2}
  Domains = {d1, d2, d3}
  CertDomains = {d1}
  Ports = {p1}
  Handlers = {h1}
  MaxDomains = 2
  None = None
SYMMETRY Symmetry
INVARIANT TLSHasSecret
PROPERTIES DeleteSparesRoutes ControllerBeforeRoutes
