SPECIFICATION Spec
CONSTANTS
  Providers = {"aws", "local"}
  Apps = {a1}
  Domains = {d1}
  Builds = {b1, b2}
  ReleaseIds = {r1, r2}
  Handlers = {h1, h2}
  MaxDeploys = 1
  NoDomain = NoDomain
  Nobody = Nobody
SYMMETRY Symmetry
CONSTRAINT OneLocalBuild
INVARIANTS TypeOK RecordNamesRelease LiveWasReleased
PROPERTY OnlyCreateRevives
