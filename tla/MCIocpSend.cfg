SPECIFICATION Spec
CONSTANTS
  Clients = {c1, c2}
  Workers = {w1, w2}
  None = None
  Limit = 2
  Modulus = 4
  HasPostAccept = TRUE
  HasPreDisconnect = TRUE
  HasPostDisconnect = FALSE
  AppDisconnects = TRUE
  DisconnectMayFail = TRUE
  MaxMade = 2
  MaxSends = 2
  MaxContexts = 3
SYMMETRY Symmetry
INVARIANTS NoStaleClient OneReceive OneSend ClientsAreLive
CHECK_DEADLOCK FALSE
