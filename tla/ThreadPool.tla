----------------------------- MODULE ThreadPool -----------------------------
(***************************************************************************)
(* core::ThreadPool (core/thread_manager/ThreadPool.{h,cpp}): worker       *)
(* threads that poll one queue under a Spinlock, Enqueue from any thread,  *)
(* and a destructor that sets `stop` and joins the workers.                *)
(*                                                                         *)
(* spinlock_ is only taken exclusively here, so its two operations are the *)
(* actions of Mutex, which Spinlock implements.  tasks_ and stop are only  *)
(* touched under it: a critical section is one action, entered by a        *)
(* separate acquiring action and released by the holder's destructor.      *)
(*                                                                         *)
(* A task is named by the Enqueue call that submits it.  Parent[t] is the  *)
(* task whose body makes that call (core::Server::AddWork from a handler), *)
(* or None for a call from outside the pool.  Tasks in Endless never       *)
(* return: core::Server::Init submits IocpWork, a `while (TRUE)` loop, to  *)
(* iocp_worker_amount_ of the workers.  An exception thrown by a task,     *)
(* Enqueue's own included, is caught by its packaged_task and ends it.     *)
(***************************************************************************)
EXTENDS Integers, Sequences, FiniteSets

CONSTANTS Workers, Tasks, Parent, Endless, Dtor, None

ASSUME PoolAssumption ==
  /\ Workers \cap Tasks = {}
  /\ Dtor \notin Workers \cup Tasks
  /\ None \notin Tasks
  /\ Parent \in [Tasks -> Tasks \cup {None}]
  /\ Endless \subseteq Tasks

VARIABLES
  holder,     \* spinlock_: {} or {thread}
  tasks,      \* tasks_, head first
  stop,       \* stop
  wpc,        \* program counter of each worker's loop
  task,       \* each worker's local `task`, None for nullptr
  call,       \* progress of the Enqueue call of each task
  dtor,       \* progress of ~ThreadPool
  accepted,   \* history: tasks in the order emplace put them in tasks_
  started,    \* history: tasks in the order workers took them out
  finished    \* history: tasks whose body has returned (future is ready)

vars == <<holder, tasks, stop, wpc, task, call, dtor, accepted, started, finished>>

L == INSTANCE Mutex WITH Threads <- Workers \cup Tasks \cup {Dtor}

Elems(s) == {s[i] : i \in 1..Len(s)}

Init ==
  /\ L!Init
  /\ tasks = <<>>
  /\ stop = FALSE
  /\ wpc = [w \in Workers |-> "lock"]
  /\ task = [w \in Workers |-> None]
  /\ call = [t \in Tasks |-> "none"]
  /\ dtor = "no"
  /\ accepted = <<>>
  /\ started = <<>>
  /\ finished = {}
-----------------------------------------------------------------------------
(* The worker's loop.                                                      *)

MutLockShared(w) ==      \* mutant: SharedLockHolder instead of ExclusiveLockHolder
  /\ wpc[w] = "lock"
  /\ holder' = holder \cup {w}
  /\ wpc' = [wpc EXCEPT ![w] = "scan"]
  /\ UNCHANGED <<tasks, stop, task, call, dtor, accepted, started, finished>>

LockWorker(w) ==
  /\ wpc[w] = "lock"
  /\ L!Acquire(w)
  /\ wpc' = [wpc EXCEPT ![w] = "scan"]
  /\ UNCHANGED <<tasks, stop, task, call, dtor, accepted, started, finished>>

ExitWorker(w) ==
  /\ wpc[w] = "scan"
  /\ L!Release(w)
  /\ stop /\ tasks = <<>>
  /\ wpc' = [wpc EXCEPT ![w] = "exited"]
  /\ UNCHANGED <<tasks, stop, task, call, dtor, accepted, started, finished>>

MutPopKeeps(w) ==        \* mutant: front() without pop()
  /\ wpc[w] = "scan"
  /\ L!Release(w)
  /\ tasks # <<>>
  /\ task' = [task EXCEPT ![w] = Head(tasks)]
  /\ wpc' = [wpc EXCEPT ![w] = "run"]
  /\ started' = Append(started, Head(tasks))
  /\ UNCHANGED <<tasks, stop, call, dtor, accepted, finished>>

MutPopLeavesOne(w) ==    \* mutant: `tasks_.size() > 1` for `!tasks_.empty()`
  /\ wpc[w] = "scan"
  /\ L!Release(w)
  /\ Len(tasks) > 1
  /\ task' = [task EXCEPT ![w] = Head(tasks)]
  /\ tasks' = Tail(tasks)
  /\ wpc' = [wpc EXCEPT ![w] = "run"]
  /\ started' = Append(started, Head(tasks))
  /\ UNCHANGED <<stop, call, dtor, accepted, finished>>

PopTask(w) ==
  /\ wpc[w] = "scan"
  /\ L!Release(w)
  /\ tasks # <<>>
  /\ task' = [task EXCEPT ![w] = Head(tasks)]
  /\ tasks' = Tail(tasks)
  /\ wpc' = [wpc EXCEPT ![w] = "run"]
  /\ started' = Append(started, Head(tasks))
  /\ UNCHANGED <<stop, call, dtor, accepted, finished>>

\* Nothing to do: the scope ends, `task` is still nullptr, and the loop polls.
FindNothing(w) ==
  /\ wpc[w] = "scan"
  /\ L!Release(w)
  /\ ~stop /\ tasks = <<>>
  /\ wpc' = [wpc EXCEPT ![w] = "lock"]
  /\ UNCHANGED <<tasks, stop, task, call, dtor, accepted, started, finished>>

\* The body of the task returns; it cannot while an Enqueue it called has not.
FinishTask(w) ==
  /\ wpc[w] = "run"
  /\ task[w] \notin Endless
  /\ \A t \in Tasks : Parent[t] = task[w] => call[t] \notin {"lock", "push"}
  /\ finished' = finished \cup {task[w]}
  /\ task' = [task EXCEPT ![w] = None]
  /\ wpc' = [wpc EXCEPT ![w] = "lock"]
  /\ UNCHANGED <<holder, tasks, stop, call, dtor, accepted, started>>
-----------------------------------------------------------------------------
(* Enqueue.  A call from outside starts before the destructor does (the    *)
(* object's lifetime); a call from a running task may start at any time.   *)

CallEnqueue(t) ==
  /\ call[t] = "none"
  /\ IF Parent[t] = None THEN dtor = "no"
     ELSE \E w \in Workers : wpc[w] = "run" /\ task[w] = Parent[t]
  /\ call' = [call EXCEPT ![t] = "lock"]
  /\ UNCHANGED <<holder, tasks, stop, wpc, task, dtor, accepted, started, finished>>

LockEnqueue(t) ==
  /\ call[t] = "lock"
  /\ L!Acquire(t)
  /\ call' = [call EXCEPT ![t] = "push"]
  /\ UNCHANGED <<tasks, stop, wpc, task, dtor, accepted, started, finished>>

MutEmplaceFront(t) ==    \* mutant: a stack instead of a queue
  /\ call[t] = "push"
  /\ L!Release(t)
  /\ ~stop
  /\ tasks' = <<t>> \o tasks
  /\ accepted' = Append(accepted, t)
  /\ call' = [call EXCEPT ![t] = "accepted"]
  /\ UNCHANGED <<stop, wpc, task, dtor, started, finished>>

Emplace(t) ==
  /\ call[t] = "push"
  /\ L!Release(t)
  /\ ~stop
  /\ tasks' = Append(tasks, t)
  /\ accepted' = Append(accepted, t)
  /\ call' = [call EXCEPT ![t] = "accepted"]
  /\ UNCHANGED <<stop, wpc, task, dtor, started, finished>>

MutRejectHoldsLock(t) == \* mutant: no lock holder, the throw skips Unlock
  /\ call[t] = "push"
  /\ stop
  /\ call' = [call EXCEPT ![t] = "rejected"]
  /\ UNCHANGED <<holder, tasks, stop, wpc, task, dtor, accepted, started, finished>>

\* throw std::runtime_error; the lock holder's destructor still unlocks.
Reject(t) ==
  /\ call[t] = "push"
  /\ L!Release(t)
  /\ stop
  /\ call' = [call EXCEPT ![t] = "rejected"]
  /\ UNCHANGED <<tasks, stop, wpc, task, dtor, accepted, started, finished>>
-----------------------------------------------------------------------------
(* ~ThreadPool.                                                            *)

CallDtor ==
  /\ dtor = "no"
  /\ dtor' = "lock"
  /\ UNCHANGED <<holder, tasks, stop, wpc, task, call, accepted, started, finished>>

LockDtor ==
  /\ dtor = "lock"
  /\ L!Acquire(Dtor)
  /\ dtor' = "set"
  /\ UNCHANGED <<tasks, stop, wpc, task, call, accepted, started, finished>>

SetStop ==
  /\ dtor = "set"
  /\ L!Release(Dtor)
  /\ stop' = TRUE
  /\ dtor' = "join"
  /\ UNCHANGED <<tasks, wpc, task, call, accepted, started, finished>>

MutJoinAny ==            \* mutant: the join loop ends after the first worker
  /\ dtor = "join"
  /\ \E w \in Workers : wpc[w] = "exited"
  /\ dtor' = "done"
  /\ UNCHANGED <<holder, tasks, stop, wpc, task, call, accepted, started, finished>>

\* Every join() returned.  Calls from outside that are still inside Enqueue
\* would use a dead object: the owner has to keep the pool alive for them.
Joined ==
  /\ dtor = "join"
  /\ \A w \in Workers : wpc[w] = "exited"
  /\ \A t \in Tasks : call[t] \notin {"lock", "push"}
  /\ dtor' = "done"
  /\ UNCHANGED <<holder, tasks, stop, wpc, task, call, accepted, started, finished>>
-----------------------------------------------------------------------------
WorkerStep(w) == LockWorker(w) \/ ExitWorker(w) \/ PopTask(w) \/ FindNothing(w) \/ FinishTask(w)

EnqueueStep(t) == LockEnqueue(t) \/ Emplace(t) \/ Reject(t)

Next ==
  \/ \E w \in Workers : WorkerStep(w)
  \/ \E t \in Tasks : CallEnqueue(t) \/ EnqueueStep(t)
  \/ CallDtor \/ LockDtor \/ SetStop \/ Joined

Spec == Init /\ [][Next]_vars

(***************************************************************************)
(* Threads keep running and finite tasks return.  Nothing forces a call of *)
(* Enqueue or of the destructor, and since Spinlock has no queue no thread *)
(* is promised the lock: only weak fairness.                               *)
(***************************************************************************)
Fairness ==
  /\ \A w \in Workers : WF_vars(WorkerStep(w))
  /\ \A t \in Tasks : WF_vars(EnqueueStep(t))
  /\ WF_vars(LockDtor \/ SetStop \/ Joined)

FairSpec == Spec /\ Fairness
-----------------------------------------------------------------------------
TypeOK ==
  /\ holder \in {{}} \cup {{x} : x \in Workers \cup Tasks \cup {Dtor}}
  /\ tasks \in Seq(Tasks) /\ accepted \in Seq(Tasks) /\ started \in Seq(Tasks)
  /\ stop \in BOOLEAN
  /\ wpc \in [Workers -> {"lock", "scan", "run", "exited"}]
  /\ task \in [Workers -> Tasks \cup {None}]
  /\ call \in [Tasks -> {"none", "lock", "push", "accepted", "rejected"}]
  /\ dtor \in {"no", "lock", "set", "join", "done"}
  /\ finished \subseteq Tasks

\* What was accepted is what was started followed by what still waits, in the
\* order of acceptance: no task is lost, duplicated or overtaken between
\* emplace and pop, whichever workers and callers interleave.
FifoNoLoss == accepted = started \o tasks

\* A started task is either finished or in the hands of exactly one worker:
\* no body runs twice, and none disappears between pop() and task().
StartedAccountedFor ==
  /\ Elems(started) = finished \cup ({task[w] : w \in Workers} \ {None})
  /\ \A w \in Workers : task[w] \notin finished
  /\ \A v, w \in Workers : task[v] = task[w] => v = w \/ task[v] = None

\* A worker leaves its loop only in a stopped pool whose queue is empty, and
\* the queue stays empty afterwards: no late Enqueue slips a task in that
\* nobody would run.
ExitMeansDrained ==
  (\E w \in Workers : wpc[w] = "exited") => stop /\ tasks = <<>>

\* When the destructor returns, every task whose Enqueue returned a future has
\* run to completion: no future is left that never becomes ready.
ShutdownRunsEverything == dtor = "done" => Elems(accepted) = finished

\* Enqueue never hands out a future any more once stop is set.
NoAcceptAfterStop == [][stop => UNCHANGED accepted]_vars

\* Every accepted task is eventually taken by a worker, as long as the endless
\* tasks do not occupy all workers (DEFAULT_IOCP_WORKER_AMOUNT 14 of
\* DEFAULT_WORKER_AMOUNT 16 in core::Server).
AcceptedGetsStarted ==
  \A t \in Tasks : (call[t] = "accepted") ~> (t \in Elems(started))

\* Once stop is set the destructor's joins all return, although tasks are
\* still queued or running and may themselves call Enqueue, unless an endless
\* task is among them.
ShutdownTerminates ==
  (dtor = "join") ~> (dtor = "done" \/ Elems(accepted) \cap Endless # {})
=============================================================================
