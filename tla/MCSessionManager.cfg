SPECIFICATION FairSpec
CONSTANTS
  Workers = {w1, w2}
  Endpoints = {e1}
  None = None
  Kinds = {"beat", "data"}
  Half = 4
  MaxSessions = 1
  MaxSpawn = 1
INVARIANTS TypeOK ReaperNeverMisses StartedComplete
PROPERTIES HeardStaysConnected DisconnectedIsReaped ServerListens
CHECK_DEADLOCK FALSE
