--------------------------- MODULE SpinlockProofs ---------------------------
(***************************************************************************)
(* Proofs about Spinlock for any finite set of threads.  The inductive     *)
(* invariant is TypeOK, WriterMutex and ReaderCount together: WriterMutex  *)
(* needs "lock_ is 1 exactly while somebody is past the exchange", and     *)
(* reader_ stays a natural number only because it counts a set.            *)
(***************************************************************************)
EXTENDS Spinlock, FiniteSetTheorems, TLAPS

IInv == TypeOK /\ WriterMutex /\ ReaderCount

\* The set of readers is finite, so its cardinality behaves.
LEMMA ReadersFinite ==
  IsFiniteSet(At({"read"})) /\ Cardinality(At({"read"})) \in Nat
BY ThreadsFinite, FS_Subset, FS_CardinalityType DEF At

\* A step that neither opens nor closes a shared section, nor changes reader_,
\* keeps the count.
LEMMA CountUnchanged ==
  ASSUME ReaderCount, UNCHANGED reader,
         \A t \in Threads : pc'[t] = "read" <=> pc[t] = "read"
  PROVE  ReaderCount'
<1>1. At({"read"})' = At({"read"})
  BY DEF At
<1>2. QED
  BY <1>1 DEF ReaderCount

\* The invariant holds when the lock is constructed.
LEMMA InitIInv == Init => IInv
<1> SUFFICES ASSUME Init PROVE IInv
  OBVIOUS
<1> USE DEF Init
<1>1. TypeOK
  BY DEF TypeOK, Steps
<1>2. WriterMutex
  BY DEF WriterMutex, At
<1>3. ReaderCount
  <2>1. At({"read"}) = {}
    BY DEF At
  <2>2. QED
    BY <2>1, FS_EmptySet DEF ReaderCount
<1>4. QED
  BY <1>1, <1>2, <1>3 DEF IInv

\* Every atomic operation of the lock preserves the invariant.
LEMMA NextIInv == IInv /\ [Next]_vars => IInv'
<1> SUFFICES ASSUME IInv, [Next]_vars PROVE IInv'
  OBVIOUS
<1> USE DEF IInv
<1>1. ASSUME NEW t \in Threads, CallLock(t) PROVE IInv'
  <2>1. TypeOK' /\ WriterMutex'
    BY <1>1 DEF CallLock, Goto, TypeOK, Steps, WriterMutex, At
  <2>2. ReaderCount'
    BY <1>1, CountUnchanged DEF CallLock, Goto, TypeOK
  <2>3. QED BY <2>1, <2>2
<1>2. ASSUME NEW t \in Threads, Exchange(t) PROVE IInv'
  <2>1. TypeOK' /\ WriterMutex'
    BY <1>2 DEF Exchange, Goto, TypeOK, Steps, WriterMutex, At
  <2>2. ReaderCount'
    BY <1>2, CountUnchanged DEF Exchange, Goto, TypeOK
  <2>3. QED BY <2>1, <2>2
<1>3. ASSUME NEW t \in Threads, Drain(t) PROVE IInv'
  <2>1. TypeOK' /\ WriterMutex'
    BY <1>3 DEF Drain, Goto, TypeOK, Steps, WriterMutex, At
  <2>2. ReaderCount'
    BY <1>3, CountUnchanged DEF Drain, Goto, TypeOK
  <2>3. QED BY <2>1, <2>2
<1>4. ASSUME NEW t \in Threads, Unlock(t) PROVE IInv'
  <2>1. TypeOK' /\ WriterMutex'
    BY <1>4 DEF Unlock, Goto, TypeOK, Steps, WriterMutex, At
  <2>2. ReaderCount'
    BY <1>4, CountUnchanged DEF Unlock, Goto, TypeOK
  <2>3. QED BY <2>1, <2>2
<1>5. ASSUME NEW t \in Threads, CallReadLock(t) PROVE IInv'
  <2>1. TypeOK' /\ WriterMutex'
    BY <1>5 DEF CallReadLock, Goto, TypeOK, Steps, WriterMutex, At
  <2>2. ReaderCount'
    BY <1>5, CountUnchanged DEF CallReadLock, Goto, TypeOK
  <2>3. QED BY <2>1, <2>2
<1>6. ASSUME NEW t \in Threads, Check(t) PROVE IInv'
  <2>1. TypeOK' /\ WriterMutex'
    BY <1>6 DEF Check, Goto, TypeOK, Steps, WriterMutex, At
  <2>2. ReaderCount'
    BY <1>6, CountUnchanged DEF Check, Goto, TypeOK
  <2>3. QED BY <2>1, <2>2
<1>7. ASSUME NEW t \in Threads, Enter(t) PROVE IInv'
  <2>1. TypeOK' /\ WriterMutex'
    BY <1>7 DEF Enter, Goto, TypeOK, Steps, WriterMutex, At
  <2>2. At({"read"})' = At({"read"}) \cup {t} /\ t \notin At({"read"})
    BY <1>7 DEF Enter, Goto, TypeOK, At
  <2>3. Cardinality(At({"read"})') = Cardinality(At({"read"})) + 1
    BY <2>2, ReadersFinite, FS_AddElement
  <2>4. ReaderCount'
    BY <1>7, <2>3 DEF Enter, ReaderCount
  <2>5. QED BY <2>1, <2>4
<1>8. ASSUME NEW t \in Threads, ReadUnlock(t) PROVE IInv'
  <2>1. At({"read"})' = At({"read"}) \ {t} /\ t \in At({"read"})
    BY <1>8 DEF ReadUnlock, Goto, TypeOK, At
  <2>2. /\ Cardinality(At({"read"})') = Cardinality(At({"read"})) - 1
        /\ Cardinality(At({"read"})') \in Nat
    BY <2>1, ReadersFinite, FS_RemoveElement, FS_CardinalityType
  <2>3. ReaderCount' /\ reader' \in Nat
    BY <1>8, <2>2 DEF ReadUnlock, ReaderCount
  <2>4. TypeOK' /\ WriterMutex'
    BY <1>8, <2>3 DEF ReadUnlock, Goto, TypeOK, Steps, WriterMutex, At
  <2>5. QED BY <2>3, <2>4
<1>9. CASE UNCHANGED vars
  <2>1. TypeOK' /\ WriterMutex'
    BY <1>9 DEF vars, TypeOK, WriterMutex, At
  <2>2. ReaderCount'
    BY <1>9, CountUnchanged DEF vars
  <2>3. QED BY <2>1, <2>2
<1>10. QED
  BY <1>1, <1>2, <1>3, <1>4, <1>5, <1>6, <1>7, <1>8, <1>9 DEF Next

\* The whole inductive invariant of the lock.
THEOREM Invariance == Spec => []IInv
BY InitIInv, NextIInv, PTL DEF Spec

\* lock_, reader_ and the program counters stay in range; in particular
\* reader_ is never decremented below 0.
THEOREM TypeCorrect == Spec => []TypeOK
BY Invariance, PTL DEF IInv

\* Lock()/Unlock() sections of two threads never overlap.
THEOREM WritersExclude == Spec => []WriterMutex
BY Invariance, PTL DEF IInv

\* reader_ counts the open shared sections.
THEOREM ReadersCounted == Spec => []ReaderCount
BY Invariance, PTL DEF IInv

\* Lock() returns only while no shared section is open.
THEOREM WriterEntersAlone == Spec => DrainSeesNoReader
<1>1. ASSUME IInv, [Next]_vars
      PROVE  [\A t \in Threads :
               (pc[t] = "drain" /\ pc'[t] = "write") => At({"read"}) = {}]_vars
  <2> SUFFICES ASSUME ~ UNCHANGED vars, NEW t \in Threads,
                      pc[t] = "drain", pc'[t] = "write"
               PROVE  At({"read"}) = {}
    OBVIOUS
  <2>1. reader = 0
    BY <1>1 DEF Next, CallLock, Exchange, Drain, Unlock, CallReadLock, Check,
                Enter, ReadUnlock, Goto, IInv, TypeOK
  <2>2. QED
    BY <2>1, <1>1, ReadersFinite, FS_EmptySet DEF IInv, ReaderCount
<1>2. QED
  BY <1>1, Invariance, PTL DEF Spec, DrainSeesNoReader

\* No thread is admitted to a shared section behind a writer's exchange.
THEOREM ReadersCannotOvertake == Spec => NoReaderAdmittedBehindWriter
<1>1. ASSUME IInv, [Next]_vars
      PROVE  [(lock = 1 /\ lock' = 1) =>
               \A t \in Threads :
                 pc'[t] \in {"enter", "read"} => pc[t] \in {"enter", "read"}]_vars
  BY <1>1 DEF Next, CallLock, Exchange, Drain, Unlock, CallReadLock, Check,
              Enter, ReadUnlock, Goto, IInv, TypeOK, vars
<1>2. QED
  BY <1>1, Invariance, PTL DEF Spec, NoReaderAdmittedBehindWriter

\* Spinlock used exclusively implements Mutex: readers' steps and the two
\* halves of Lock() are stuttering steps of the abstract lock.
THEOREM SpinlockImplementsMutex == Spec => ImplementsMutex
<1>1. Init => M!Init
  BY DEF Init, M!Init, At
<1>2. ASSUME IInv, IInv', [Next]_vars PROVE [M!Next]_(At({"write"}))
  <2>1. ASSUME NEW t \in Threads, Drain(t) PROVE M!Acquire(t)
    <3>1. At({"write"}) = {}
      BY <2>1, <1>2 DEF Drain, Goto, IInv, TypeOK, WriterMutex, At
    <3>2. At({"write"})' = {t}
      BY <2>1, <3>1, <1>2 DEF Drain, Goto, IInv, TypeOK, At
    <3>3. QED BY <3>1, <3>2 DEF M!Acquire
  <2>2. ASSUME NEW t \in Threads, Unlock(t) PROVE M!Release(t)
    <3>1. At({"write"}) = {t}
      BY <2>2, <1>2 DEF Unlock, Goto, IInv, TypeOK, WriterMutex, At
    <3>2. At({"write"})' = {}
      BY <2>2, <3>1, <1>2 DEF Unlock, Goto, IInv, TypeOK, At
    <3>3. QED BY <3>1, <3>2 DEF M!Release
  <2>3. ASSUME NEW t \in Threads,
               CallLock(t) \/ Exchange(t) \/ CallReadLock(t) \/ Check(t)
                 \/ Enter(t) \/ ReadUnlock(t)
        PROVE  At({"write"})' = At({"write"})
    BY <2>3, <1>2 DEF CallLock, Exchange, CallReadLock, Check, Enter, ReadUnlock,
                      Goto, IInv, TypeOK, At
  <2>4. ASSUME UNCHANGED vars PROVE At({"write"})' = At({"write"})
    BY <2>4 DEF vars, At
  <2>5. QED
    BY <1>2, <2>1, <2>2, <2>3, <2>4 DEF Next, M!Next
<1>3. QED
  BY <1>1, <1>2, Invariance, PTL DEF Spec, ImplementsMutex, M!Spec
=============================================================================
