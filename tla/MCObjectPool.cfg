SPECIFICATION Spec
CONSTANTS
  Threads = {t1, t2, t3}
  Kinds = {"tagged", "plain"}
  Allocators <- OwnersAllocate
  Owner = t1
  Leavers = {t1, t2, t3}
  None = None
  FirstSize = 2
  PurgeSize = 2
  MaxThreads = 3
  MaxChunks = 6
  Starts <- BlockStarts
  MaxEnds = 1
SYMMETRY FreerSymmetry
INVARIANTS TypeOK ListWellFormed NoBadDereference FreedToItsPool OverrunNeedsTurnover LeakOnlyInGrowRace
PROPERTIES ImplementsAllocator
CHECK_DEADLOCK FALSE
