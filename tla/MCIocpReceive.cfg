SPECIFICATION FairSpec
CONSTANTS
  Clients = {c1, c2}
  Workers = {w1, w2}
  None = None
  Limit = 2
  Modulus = 8
  HasPostAccept = FALSE
  HasPreDisconnect = FALSE
  HasPostDisconnect = FALSE
  AppDisconnects = FALSE
  DisconnectMayFail = FALSE
  MaxMade = 3
  MaxSends = 0
  MaxContexts = 3
INVARIANTS CountExact
PROPERTIES ClosedIsRemoved
CHECK_DEADLOCK FALSE
