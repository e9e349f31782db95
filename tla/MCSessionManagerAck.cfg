SPECIFICATION Spec
CONSTANTS
  Workers = {w1, w2}
  Endpoints = {e1}
  None = None
  Kinds = {}
  Half = 4
  MaxSessions = 1
  MaxSpawn = 1
INVARIANT AckIsLocked
CHECK_DEADLOCK FALSE
