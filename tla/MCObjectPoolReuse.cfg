SPECIFICATION Spec
CONSTANTS
  Threads = {t1}
  Kinds = {"tagged"}
  Allocators <- OwnersAllocate
  Owner = t1
  Leavers = {t1}
  None = None
  FirstSize = 2
  PurgeSize = 2
  MaxThreads = 1
  MaxChunks = 4
  Starts <- BlockStarts
  MaxEnds = 1
INVARIANT PurgedPoolUsable
CHECK_DEADLOCK FALSE
