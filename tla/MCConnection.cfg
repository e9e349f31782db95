SPECIFICATION FairSpec
CONSTANTS
  Threads = {t1, t2, t3}
  IocpAmount = 2
  a = a
  b = b
  c = c
  d = d
  z = z
  Msgs = {a, b, c, d, z}
  Size <- MCSize
  Loads <- MCLoads
  BufSize = 4
  HeaderSize = 1
  RecvSize = 6
  Half = 2
  Wide = 16
  None = None
INVARIANTS TypeOK OffsetIsInFlight SoloSendIntact AlignedInOrder HandlerOfInit
PROPERTIES BufferReleased WorkStarts StreamIsRead
CHECK_DEADLOCK FALSE
