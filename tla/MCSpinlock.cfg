SPECIFICATION FairSpec
CONSTANT Threads = {t1, t2, t3}
INVARIANTS TypeOK WriterMutex
PROPERTIES DrainSeesNoReader WriterGetsIn ImplementsMutex
