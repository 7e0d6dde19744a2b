SPECIFICATION Spec
CONSTANTS
  Providers = {"aws", "gcp", "local"}
  Ids = {b1, b2}
  Tags = {t1}
  Untagged = {}
  Clients = {c1, c2}
  MaxCommands = 2
  None = None
INVARIANTS TypeOK SuccessHasImage NoOlderSource
PROPERTIES EndedStays ReleasedAfterBuild WaitingEnds
CHECK_DEADLOCK FALSE
