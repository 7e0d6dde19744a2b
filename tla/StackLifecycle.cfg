SPECIFICATION Spec
CONSTANTS
  AwsStacks = {s1}
  GcpStacks = {s2}
  LocalStacks = {s3}
  Keys = {k1}
  Terminals = {t1, t2}
  MaxCommands = 3
  None = None
INVARIANT ContextIsListed
PROPERTIES InterruptedIsNotRecorded NothingLeftBehind CommandsEnd
CHECK_DEADLOCK FALSE
