SPECIFICATION Spec
CONSTANTS
  Providers = {"aws"}
  Ids = {b1}
  Tags = {t1}
  Untagged = {}
  Clients = {c1, c2}
  MaxCommands = 3
  None = None
INVARIANT ReleasedIsBuilt
