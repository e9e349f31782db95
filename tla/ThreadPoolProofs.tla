-------------------------- MODULE ThreadPoolProofs --------------------------
(***************************************************************************)
(* Proofs about ThreadPool for any workers, tasks, nesting of Enqueue      *)
(* calls and choice of endless tasks.  The safety properties are not       *)
(* inductive one by one: that a popped task was never popped before needs  *)
(* the queue and the started tasks to be the accepted ones in order        *)
(* (FifoNoLoss) and no task to be accepted twice (AcceptedOnce), and that  *)
(* an exited worker leaves an empty queue behind needs `stop` to be set    *)
(* for good (StopIsDtor).                                                  *)
(***************************************************************************)
EXTENDS ThreadPool, SequenceTheorems, TLAPS

\* No task is in the accepted history twice, and it is there when and only
\* when its Enqueue call returned.
AcceptedOnce ==
  /\ \A i, j \in 1..Len(accepted) : accepted[i] = accepted[j] => i = j
  /\ \A t \in Tasks : call[t] = "accepted" <=> t \in Elems(accepted)

\* stop is set by the destructor, before it joins, and never reset.
StopIsDtor == stop <=> dtor \in {"join", "done"}

\* A worker's local `task` is a task exactly while it runs it.
TaskIsRun == \A w \in Workers : wpc[w] = "run" <=> task[w] # None

\* The destructor returns after every worker.
DoneMeansExited == dtor = "done" => \A w \in Workers : wpc[w] = "exited"

IInv ==
  /\ TypeOK
  /\ FifoNoLoss
  /\ AcceptedOnce
  /\ StopIsDtor
  /\ TaskIsRun
  /\ StartedAccountedFor
  /\ ExitMeansDrained
  /\ DoneMeansExited
-----------------------------------------------------------------------------
(* Facts about sequences.                                                  *)

\* Appending an element adds it to the elements.
LEMMA ElemsAppend ==
  ASSUME NEW S, NEW s \in Seq(S), NEW e \in S
  PROVE  Elems(Append(s, e)) = Elems(s) \cup {e}
<1>1. \A i \in 1..Len(s) : Append(s, e)[i] = s[i]
  BY AppendProperties
<1>2. Len(Append(s, e)) = Len(s) + 1 /\ Append(s, e)[Len(s) + 1] = e /\ Len(s) \in Nat
  BY AppendProperties, LenProperties
<1>3. QED
  BY <1>1, <1>2 DEF Elems

\* Taking the head of the second of two sequences over to the first does not
\* change their concatenation.
LEMMA MoveHead ==
  ASSUME NEW S, NEW s \in Seq(S), NEW t \in Seq(S), t # <<>>
  PROVE  Append(s, Head(t)) \o Tail(t) = s \o t
<1>1. Head(t) \in S /\ Tail(t) \in Seq(S)
  BY HeadTailProperties
<1>2. Append(s, Head(t)) \in Seq(S)
  BY <1>1, AppendProperties
<1>3. /\ Append(s, Head(t)) \o Tail(t) \in Seq(S)
      /\ s \o t \in Seq(S)
  BY <1>1, <1>2, ConcatProperties
<1>4. QED
  BY <1>1, <1>2, <1>3, SMT

\* Appending to the second of two sequences appends to their concatenation.
LEMMA ConcatAppend ==
  ASSUME NEW S, NEW s \in Seq(S), NEW t \in Seq(S), NEW e \in S
  PROVE  s \o Append(t, e) = Append(s \o t, e)
OBVIOUS

\* The head of a waiting queue is none of the tasks started before it.
LEMMA HeadIsFresh ==
  ASSUME TypeOK, FifoNoLoss, AcceptedOnce, tasks # <<>>
  PROVE  Head(tasks) \in Tasks /\ Head(tasks) \notin Elems(started)
<1>1. Head(tasks) \in Tasks
  BY HeadTailProperties DEF TypeOK
<1>2. Len(tasks) \in Nat \ {0} /\ Len(started) \in Nat
  BY EmptySeq, LenProperties DEF TypeOK
<1>3. Len(accepted) = Len(started) + Len(tasks)
  BY ConcatProperties DEF TypeOK, FifoNoLoss
<1>4. accepted[Len(started) + 1] = Head(tasks)
  BY <1>2 DEF TypeOK, FifoNoLoss
<1>5. \A i \in 1..Len(started) : accepted[i] = started[i]
  BY <1>2 DEF TypeOK, FifoNoLoss
<1>6. QED
  BY <1>1, <1>2, <1>3, <1>4, <1>5 DEF AcceptedOnce, Elems
-----------------------------------------------------------------------------
\* The invariant holds when the constructor has returned.
LEMMA InitIInv == Init => IInv
<1> SUFFICES ASSUME Init PROVE IInv
  OBVIOUS
<1> USE DEF Init
<1>1. TypeOK
  <2>1. <<>> \in Seq(Tasks) /\ FALSE \in BOOLEAN
    BY EmptySeq
  <2>2. holder \in {{}} \cup {{x} : x \in Workers \cup Tasks \cup {Dtor}}
    BY DEF L!Init
  <2>3. /\ wpc \in [Workers -> {"lock", "scan", "run", "exited"}]
        /\ task \in [Workers -> Tasks \cup {None}]
        /\ call \in [Tasks -> {"none", "lock", "push", "accepted", "rejected"}]
        /\ dtor \in {"no", "lock", "set", "join", "done"}
        /\ finished \subseteq Tasks
    OBVIOUS
  <2>4. QED
    BY <2>1, <2>2, <2>3 DEF TypeOK
<1>2. FifoNoLoss /\ AcceptedOnce
  BY DEF FifoNoLoss, AcceptedOnce, Elems
<1>3. StopIsDtor /\ TaskIsRun /\ ExitMeansDrained /\ DoneMeansExited
  BY DEF StopIsDtor, TaskIsRun, ExitMeansDrained, DoneMeansExited
<1>4. StartedAccountedFor
  BY PoolAssumption DEF StartedAccountedFor, Elems
<1>5. QED
  BY <1>1, <1>2, <1>3, <1>4 DEF IInv

\* The steps that move a thread's program counter and the lock, but neither
\* the queue, a worker's task nor the histories, keep the invariant.
LEMMA ControlSteps ==
  ASSUME IInv,
         UNCHANGED <<tasks, task, accepted, started, finished>>,
         TypeOK', StopIsDtor', DoneMeansExited',
         \A w \in Workers : wpc'[w] = "run" <=> wpc[w] = "run",
         \A w \in Workers : wpc'[w] = "exited" => wpc[w] = "exited" \/ (stop /\ tasks = <<>>),
         \A t \in Tasks : call'[t] = "accepted" <=> call[t] = "accepted",
         stop => stop'
  PROVE  IInv'
<1>1. FifoNoLoss' /\ AcceptedOnce'
  BY DEF IInv, FifoNoLoss, AcceptedOnce, Elems
<1>2. TaskIsRun'
  BY DEF IInv, TaskIsRun
<1>3. StartedAccountedFor'
  BY DEF IInv, StartedAccountedFor, Elems
<1>4. ExitMeansDrained'
  BY DEF IInv, ExitMeansDrained
<1>5. QED
  BY <1>1, <1>2, <1>3, <1>4 DEF IInv

\* Every step of a worker, of a caller and of the destructor keeps it.
LEMMA NextIInv == IInv /\ [Next]_vars => IInv'
<1> SUFFICES ASSUME IInv, [Next]_vars PROVE IInv'
  OBVIOUS
<1> USE DEF L!Acquire, L!Release
<1>1. ASSUME NEW w \in Workers, LockWorker(w) PROVE IInv'
  <2>1. TypeOK' /\ StopIsDtor' /\ DoneMeansExited'
    BY <1>1 DEF IInv, LockWorker, TypeOK, StopIsDtor, DoneMeansExited
  <2>2. QED
    BY <1>1, <2>1, ControlSteps DEF IInv, LockWorker, TypeOK
<1>2. ASSUME NEW w \in Workers, ExitWorker(w) PROVE IInv'
  <2>1. TypeOK' /\ StopIsDtor' /\ DoneMeansExited'
    BY <1>2 DEF IInv, ExitWorker, TypeOK, StopIsDtor, DoneMeansExited
  <2>2. QED
    BY <1>2, <2>1, ControlSteps DEF IInv, ExitWorker, TypeOK
<1>3. ASSUME NEW w \in Workers, PopTask(w) PROVE IInv'
  <2> DEFINE h == Head(tasks)
  <2>0. tasks \in Seq(Tasks) /\ tasks # <<>> /\ started \in Seq(Tasks)
    BY <1>3 DEF IInv, TypeOK, PopTask
  <2>1. h \in Tasks /\ h \notin Elems(started)
    BY <1>3, HeadIsFresh DEF IInv, PopTask
  <2>2. tasks' \in Seq(Tasks) /\ started' \in Seq(Tasks)
    BY <1>3, <2>0, <2>1, HeadTailProperties, AppendProperties DEF PopTask
  <2>3. TypeOK'
    BY <1>3, <2>1, <2>2 DEF IInv, PopTask, TypeOK
  <2>4. FifoNoLoss'
    BY <1>3, <2>0, MoveHead DEF IInv, PopTask, FifoNoLoss
  <2>5. AcceptedOnce' /\ StopIsDtor' /\ DoneMeansExited'
    BY <1>3 DEF IInv, PopTask, AcceptedOnce, StopIsDtor, DoneMeansExited, Elems, TypeOK
  <2>6. TaskIsRun'
    BY <1>3, <2>1, PoolAssumption DEF IInv, PopTask, TaskIsRun, TypeOK
  <2>7. StartedAccountedFor'
    <3>1. Elems(started') = Elems(started) \cup {h}
      BY <1>3, <2>0, <2>1, ElemsAppend DEF PopTask
    <3>2. task[w] = None /\ h # None
      BY <1>3, <2>1, PoolAssumption DEF IInv, PopTask, TaskIsRun
    <3>3. task' = [task EXCEPT ![w] = h] /\ finished' = finished
      BY <1>3 DEF PopTask
    <3>4. \A v \in Workers : task'[v] = IF v = w THEN h ELSE task[v]
      BY <3>3 DEF IInv, TypeOK
    <3>5. {task'[v] : v \in Workers} \ {None} = ({task[v] : v \in Workers} \ {None}) \cup {h}
      BY <3>2, <3>4
    <3>6. h \notin finished /\ \A v \in Workers : task[v] # h
      BY <2>1, <3>2 DEF IInv, StartedAccountedFor
    <3>7. QED
      BY <3>1, <3>2, <3>3, <3>4, <3>5, <3>6 DEF IInv, StartedAccountedFor
  <2>8. ExitMeansDrained'
    BY <1>3 DEF IInv, PopTask, ExitMeansDrained, TypeOK
  <2>9. QED
    BY <2>3, <2>4, <2>5, <2>6, <2>7, <2>8 DEF IInv
<1>4. ASSUME NEW w \in Workers, FindNothing(w) PROVE IInv'
  <2>1. TypeOK' /\ StopIsDtor' /\ DoneMeansExited'
    BY <1>4 DEF IInv, FindNothing, TypeOK, StopIsDtor, DoneMeansExited
  <2>2. QED
    BY <1>4, <2>1, ControlSteps DEF IInv, FindNothing, TypeOK
<1>5. ASSUME NEW w \in Workers, FinishTask(w) PROVE IInv'
  <2>1. task[w] \in Tasks
    BY <1>5 DEF IInv, FinishTask, TypeOK, TaskIsRun
  <2>2. TypeOK'
    BY <1>5, <2>1 DEF IInv, FinishTask, TypeOK
  <2>3. FifoNoLoss' /\ AcceptedOnce' /\ StopIsDtor' /\ DoneMeansExited'
    BY <1>5 DEF IInv, FinishTask, FifoNoLoss, AcceptedOnce, StopIsDtor, DoneMeansExited, Elems, TypeOK
  <2>4. TaskIsRun' /\ ExitMeansDrained'
    BY <1>5 DEF IInv, FinishTask, TaskIsRun, ExitMeansDrained, TypeOK
  <2>5. StartedAccountedFor'
    <3>1. \A v \in Workers : task'[v] = IF v = w THEN None ELSE task[v]
      BY <1>5 DEF FinishTask, IInv, TypeOK
    <3>2. finished' = finished \cup {task[w]} /\ started' = started /\ task[w] # None
      BY <1>5, <2>1, PoolAssumption DEF FinishTask
    <3>3. \A v \in Workers : v # w => task[v] # task[w]
      BY <3>2 DEF IInv, StartedAccountedFor
    <3>4. finished' \cup ({task'[v] : v \in Workers} \ {None})
            = finished \cup ({task[v] : v \in Workers} \ {None})
      BY <3>1, <3>2
    <3>5. Elems(started)' = Elems(started)
      BY <3>2
    <3>6. None \notin finished'
      BY <3>2, <2>1, PoolAssumption DEF IInv, TypeOK
    <3>7. \A v \in Workers : task'[v] \notin finished'
      BY <3>1, <3>2, <3>3, <3>6 DEF IInv, StartedAccountedFor
    <3>8. \A u, v \in Workers : task'[u] = task'[v] => u = v \/ task'[u] = None
      BY <3>1 DEF IInv, StartedAccountedFor
    <3>9. Elems(started)' = finished' \cup ({task'[v] : v \in Workers} \ {None})
      BY <3>4, <3>5 DEF IInv, StartedAccountedFor
    <3>10. QED
      BY <3>7, <3>8, <3>9 DEF StartedAccountedFor
  <2>6. QED
    BY <2>2, <2>3, <2>4, <2>5 DEF IInv
<1>6. ASSUME NEW t \in Tasks, CallEnqueue(t) \/ LockEnqueue(t) \/ Reject(t) PROVE IInv'
  <2>1. TypeOK' /\ StopIsDtor' /\ DoneMeansExited'
    <3>1. CASE CallEnqueue(t)
      BY <3>1 DEF IInv, CallEnqueue, TypeOK, StopIsDtor, DoneMeansExited
    <3>2. CASE LockEnqueue(t)
      BY <3>2 DEF IInv, LockEnqueue, TypeOK, StopIsDtor, DoneMeansExited
    <3>3. CASE Reject(t)
      BY <3>3 DEF IInv, Reject, TypeOK, StopIsDtor, DoneMeansExited
    <3>4. QED
      BY <1>6, <3>1, <3>2, <3>3
  <2>2. QED
    BY <1>6, <2>1, ControlSteps DEF IInv, CallEnqueue, LockEnqueue, Reject, TypeOK
<1>7. ASSUME NEW t \in Tasks, Emplace(t) PROVE IInv'
  <2>0. tasks \in Seq(Tasks) /\ accepted \in Seq(Tasks) /\ started \in Seq(Tasks)
    BY DEF IInv, TypeOK
  <2>1. tasks' \in Seq(Tasks) /\ accepted' \in Seq(Tasks)
    BY <1>7, <2>0, AppendProperties DEF Emplace
  <2>2. TypeOK'
    BY <1>7, <2>1 DEF IInv, Emplace, TypeOK
  <2>3. FifoNoLoss'
    <3>1. started \o Append(tasks, t) = Append(started \o tasks, t)
      BY <2>0, ConcatAppend
    <3>2. QED
      BY <1>7, <3>1 DEF IInv, Emplace, FifoNoLoss
  <2>4. AcceptedOnce'
    <3>1. Elems(accepted') = Elems(accepted) \cup {t}
      BY <1>7, <2>0, ElemsAppend DEF Emplace
    <3>2. t \notin Elems(accepted)
      BY <1>7 DEF IInv, Emplace, AcceptedOnce
    <3>3. \A i, j \in 1..Len(accepted') : accepted'[i] = accepted'[j] => i = j
      <4>1. /\ Len(accepted') = Len(accepted) + 1 /\ Len(accepted) \in Nat
            /\ \A i \in 1..Len(accepted) : accepted'[i] = accepted[i]
            /\ accepted'[Len(accepted) + 1] = t
        BY <1>7, <2>0, AppendProperties, LenProperties DEF Emplace
      <4>2. \A i \in 1..Len(accepted) : accepted[i] # t
        BY <3>2 DEF Elems
      <4>3. QED
        BY <4>1, <4>2 DEF IInv, AcceptedOnce
    <3>4. \A u \in Tasks : call'[u] = "accepted" <=> u \in Elems(accepted')
      BY <1>7, <3>1 DEF IInv, Emplace, AcceptedOnce, TypeOK
    <3>5. QED
      BY <3>3, <3>4 DEF AcceptedOnce
  <2>5. StopIsDtor' /\ DoneMeansExited' /\ TaskIsRun' /\ StartedAccountedFor'
    BY <1>7 DEF IInv, Emplace, StopIsDtor, DoneMeansExited, TaskIsRun, StartedAccountedFor, Elems
  <2>6. ExitMeansDrained'
    BY <1>7 DEF IInv, Emplace, ExitMeansDrained
  <2>7. QED
    BY <2>2, <2>3, <2>4, <2>5, <2>6 DEF IInv
<1>8. CASE CallDtor \/ LockDtor \/ SetStop \/ Joined
  <2>1. TypeOK' /\ StopIsDtor' /\ DoneMeansExited'
    <3>1. CASE CallDtor
      BY <3>1 DEF IInv, CallDtor, TypeOK, StopIsDtor, DoneMeansExited
    <3>2. CASE LockDtor
      BY <3>2 DEF IInv, LockDtor, TypeOK, StopIsDtor, DoneMeansExited
    <3>3. CASE SetStop
      <4>1. TypeOK'
        BY <3>3 DEF IInv, SetStop, TypeOK
      <4>2. StopIsDtor' /\ DoneMeansExited'
        BY <3>3 DEF SetStop, StopIsDtor, DoneMeansExited
      <4>3. QED
        BY <4>1, <4>2
    <3>4. CASE Joined
      BY <3>4 DEF IInv, Joined, TypeOK, StopIsDtor, DoneMeansExited
    <3>5. QED
      BY <1>8, <3>1, <3>2, <3>3, <3>4
  <2>2. QED
    BY <1>8, <2>1, ControlSteps DEF IInv, CallDtor, LockDtor, SetStop, Joined, TypeOK
<1>9. CASE UNCHANGED vars
  BY <1>9, ControlSteps DEF vars, IInv, TypeOK, StopIsDtor, DoneMeansExited
<1>10. QED
  BY <1>1, <1>2, <1>3, <1>4, <1>5, <1>6, <1>7, <1>8, <1>9 DEF Next, WorkerStep, EnqueueStep

\* The whole inductive invariant of the pool.
THEOREM Invariance == Spec => []IInv
BY InitIInv, NextIInv, PTL DEF Spec

\* All variables of the pool stay in range.
THEOREM TypeCorrect == Spec => []TypeOK
BY Invariance, PTL DEF IInv

\* Between emplace and pop no task is lost, duplicated or overtaken.
THEOREM QueueIsFifo == Spec => []FifoNoLoss
BY Invariance, PTL DEF IInv

\* A started task is finished or runs on exactly one worker.
THEOREM TasksRunOnce == Spec => []StartedAccountedFor
BY Invariance, PTL DEF IInv

\* Workers leave only a stopped, empty pool, which stays empty.
THEOREM WorkersDrain == Spec => []ExitMeansDrained
BY Invariance, PTL DEF IInv

\* After ~ThreadPool every accepted task has completed.  With no worker there
\* is nobody to run anything, hence the extra hypothesis.
THEOREM DestructorCompletesTasks ==
  ASSUME Workers # {}
  PROVE  Spec => []ShutdownRunsEverything
<1>1. ASSUME IInv PROVE ShutdownRunsEverything
  <2> SUFFICES ASSUME dtor = "done" PROVE Elems(accepted) = finished
    BY DEF ShutdownRunsEverything
  <2>1. tasks = <<>>
    BY <1>1 DEF IInv, DoneMeansExited, ExitMeansDrained
  <2>2. accepted = started
    BY <1>1, <2>1, ConcatEmptySeq DEF IInv, TypeOK, FifoNoLoss
  <2>3. \A w \in Workers : task[w] = None
    BY <1>1 DEF IInv, DoneMeansExited, TaskIsRun
  <2>4. QED
    BY <1>1, <2>2, <2>3 DEF IInv, StartedAccountedFor
<1>2. QED
  BY <1>1, Invariance, PTL

\* A stopped pool accepts nothing.
THEOREM StoppedPoolAcceptsNothing == Spec => NoAcceptAfterStop
<1>1. ASSUME [Next]_vars PROVE [stop => UNCHANGED accepted]_vars
  BY <1>1 DEF Next, WorkerStep, EnqueueStep, LockWorker, ExitWorker, PopTask, FindNothing,
     FinishTask, CallEnqueue, LockEnqueue, Emplace, Reject, CallDtor, LockDtor, SetStop,
     Joined, vars
<1>2. QED
  BY <1>1, PTL DEF Spec, NoAcceptAfterStop
=============================================================================
