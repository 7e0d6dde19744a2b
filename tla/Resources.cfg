SPECIFICATION Spec
CONSTANTS
  Providers = {"aws", "gcp"}
  Databases = {r1}
  KindNamed = {r1}
  Processes = {p1, p2}
  Variables = {v1}
  Terminals = {t1, t2}
  Nothing = Nothing
SYMMETRY Symmetry
PROPERTIES DoneAsAsked ProxyKept LinkTakesEffect
