SPECIFICATION Spec
CONSTANTS
  Providers = {"gcp"}
  Apps = {a1, a2}
  Domains = {d1, d2}
  CertDomains = {d1}
  Ports = {p1}
  Handlers = {h1, h2}
  MaxDomains = 1
  None = None
SYMMETRY Symmetry
INVARIANTS TypeOK OneRulePerHost
PROPERTIES DeployKeepsOthers DeployRoutesDomains
