SPECIFICATION Spec
CONSTANTS
  Workers = {w1, w2}
  Endpoints = {e1, e2}
  None = None
  Kinds = {}
  Half = 4
  MaxSessions = 3
  MaxSpawn = 1
SYMMETRY WorkerSymmetry
INVARIANTS OneOwner
PROPERTIES LostOnlyAsDuplicate
CHECK_DEADLOCK FALSE
