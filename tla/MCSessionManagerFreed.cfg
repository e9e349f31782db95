SPECIFICATION Spec
CONSTANTS
  Workers = {w1}
  Endpoints = {e1}
  None = None
  Kinds = {"data"}
  Half = 4
  MaxSessions = 1
  MaxSpawn = 1
INVARIANT SafeAfterUnlock
CHECK_DEADLOCK FALSE
