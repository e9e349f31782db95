SPECIFICATION FairSpec
CONSTANTS
  a = a
  b = b
  n = n
  io = io
  Workers = {w1, w2, w3}
  Tasks = {a, b, n, io}
  Parent <- Submitter
  Endless = {io}
  Dtor = Dtor
  None = None
INVARIANTS TypeOK FifoNoLoss StartedAccountedFor ShutdownRunsEverything
PROPERTIES ShutdownTerminates AcceptedGetsStarted
CHECK_DEADLOCK FALSE
