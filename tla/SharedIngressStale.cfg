SPECIFICATION Spec
CONSTANTS
  Providers = {"gcp"}
  Apps = {a1}
  Domains = {d1, d2, d3}
  CertDomains = {}
  Ports = {p1}
  Handlers = {h1}
  MaxDomains = 3
  None = None
SYMMETRY Symmetry
PROPERTY NoStaleRoutes
