------------------------------ MODULE Spinlock ------------------------------
(***************************************************************************)
(* core::Spinlock (core/lock/Spinlock.cpp): a reader/writer spin lock made *)
(* of two atomic words.  Every action is one atomic operation, so every    *)
(* interleaving the hardware allows between two of them is a behaviour.    *)
(*                                                                         *)
(* A failed exchange or test followed by Sleep(1) changes nothing and is a *)
(* stuttering step: a spinning thread stays at "acquire", "drain", "check".*)
(***************************************************************************)
EXTENDS Integers, FiniteSets

CONSTANT Threads

ASSUME ThreadsFinite == IsFiniteSet(Threads)

VARIABLES
  lock,     \* lock_  : 1 from a writer's exchange to its Unlock
  reader,   \* reader_: number of threads between ++reader_ and --reader_
  pc        \* where each thread is inside (or outside) the lock's operations

vars == <<lock, reader, pc>>

(***************************************************************************)
(* "acquire"  in Lock(), spinning on lock_.exchange(1)                     *)
(* "drain"    in Lock(), exchange won, spinning on reader_.load() != 0     *)
(* "write"    Lock() has returned                                          *)
(* "check"    in ReadLock(), spinning on !lock_                            *)
(* "enter"    in ReadLock(), has seen lock_ = 0, ++reader_ not yet done    *)
(* "read"     ReadLock() has returned                                      *)
(***************************************************************************)
Steps == {"idle", "acquire", "drain", "write", "check", "enter", "read"}

At(S) == {t \in Threads : pc[t] \in S}

Goto(t, from, to) == pc[t] = from /\ pc' = [pc EXCEPT ![t] = to]

Init ==
  /\ lock = 0
  /\ reader = 0
  /\ pc = [t \in Threads |-> "idle"]
-----------------------------------------------------------------------------
(* Exclusive mode: Lock() and Unlock(), or an ExclusiveLockHolder's life.  *)

CallLock(t) == Goto(t, "idle", "acquire") /\ UNCHANGED <<lock, reader>>

MutExchangeBlind(t) ==   \* mutant: the result of the exchange is ignored
  /\ Goto(t, "acquire", "drain")
  /\ lock' = 1
  /\ UNCHANGED reader

MutExchangeNoStore(t) == \* mutant: a plain test instead of an exchange
  /\ lock = 0
  /\ Goto(t, "acquire", "drain")
  /\ UNCHANGED <<lock, reader>>

Exchange(t) ==
  /\ lock = 0
  /\ Goto(t, "acquire", "drain")
  /\ lock' = 1
  /\ UNCHANGED reader

MutDrainOff(t) ==        \* mutant: the loop on reader_ is left after one reader is gone
  /\ reader <= 1
  /\ Goto(t, "drain", "write")
  /\ UNCHANGED <<lock, reader>>

Drain(t) ==
  /\ reader = 0
  /\ Goto(t, "drain", "write")
  /\ UNCHANGED <<lock, reader>>

Unlock(t) ==
  /\ Goto(t, "write", "idle")
  /\ lock' = 0
  /\ UNCHANGED reader
-----------------------------------------------------------------------------
(* Shared mode: ReadLock() and ReadUnlock(), or a SharedLockHolder's life. *)
(* The test of lock_ and the increment of reader_ are two operations.      *)

CallReadLock(t) == Goto(t, "idle", "check") /\ UNCHANGED <<lock, reader>>

MutCheckBlind(t) ==      \* mutant: readers do not look at lock_
  Goto(t, "check", "enter") /\ UNCHANGED <<lock, reader>>

Check(t) ==
  /\ lock = 0
  /\ Goto(t, "check", "enter")
  /\ UNCHANGED <<lock, reader>>

MutEnterLost(t) ==       \* mutant: ++reader_ as a plain increment that can be lost
  /\ Goto(t, "enter", "read")
  /\ reader' \in {reader, reader + 1}
  /\ UNCHANGED lock

Enter(t) ==
  /\ Goto(t, "enter", "read")
  /\ reader' = reader + 1
  /\ UNCHANGED lock

ReadUnlock(t) ==
  /\ Goto(t, "read", "idle")
  /\ reader' = reader - 1
  /\ UNCHANGED lock
-----------------------------------------------------------------------------
Next ==
  \E t \in Threads :
    \/ CallLock(t) \/ Exchange(t) \/ Drain(t) \/ Unlock(t)
    \/ CallReadLock(t) \/ Check(t) \/ Enter(t) \/ ReadUnlock(t)

Spec == Init /\ [][Next]_vars

(***************************************************************************)
(* A thread that runs keeps running: each step inside an operation is      *)
(* weakly fair, and so is leaving a critical section, because holders      *)
(* release in their destructor.  Nothing makes a thread call the lock, and *)
(* nothing (no queue, no ticket) makes the exchange or the test strongly   *)
(* fair.                                                                   *)
(***************************************************************************)
Fairness ==
  \A t \in Threads :
    /\ WF_vars(Exchange(t)) /\ WF_vars(Drain(t)) /\ WF_vars(Unlock(t))
    /\ WF_vars(Check(t)) /\ WF_vars(Enter(t)) /\ WF_vars(ReadUnlock(t))

FairSpec == Spec /\ Fairness
-----------------------------------------------------------------------------
TypeOK ==
  /\ lock \in {0, 1}
  /\ reader \in Nat
  /\ pc \in [Threads -> Steps]

\* At most one thread is between winning the exchange on lock_ and Unlock, and
\* lock_ is 1 exactly then: exclusive sections never overlap each other.
WriterMutex ==
  /\ \A t, u \in At({"drain", "write"}) : t = u
  /\ (lock = 1) <=> (At({"drain", "write"}) # {})

\* reader_ counts the threads inside a shared section: no increment or
\* decrement is lost, it never goes negative, and 0 means nobody reads.
ReaderCount == reader = Cardinality(At({"read"}))

\* Lock() returns only in a state in which no shared section is open, because
\* the loop on reader_ saw 0 after lock_ was taken.
DrainSeesNoReader ==
  [][\A t \in Threads :
       (pc[t] = "drain" /\ pc'[t] = "write") => At({"read"}) = {}]_vars

\* While a writer owns lock_ no further thread passes ReadLock's test: the
\* readers the writer waits for, or that slip in beside it, were all admitted
\* before its exchange, so readers cannot starve a writer.
NoReaderAdmittedBehindWriter ==
  [][(lock = 1 /\ lock' = 1) =>
       \A t \in Threads : pc'[t] \in {"enter", "read"} => pc[t] \in {"enter", "read"}]_vars

\* A writer that won the exchange gets in: the admitted readers leave and no
\* new one is let through.
WriterGetsIn == \A t \in Threads : (pc[t] = "drain") ~> (pc[t] = "write")

\* Used exclusively, the lock implements Mutex: its holder is the thread whose
\* Lock() has returned.
M == INSTANCE Mutex WITH holder <- At({"write"})
ImplementsMutex == M!Spec

\* What the "// Lock ... // Unlock" brackets around ReadLock/ReadUnlock in
\* session_manager.cpp rely on: nobody writes while somebody reads.  The code
\* does not keep it: Check and Enter are two steps.
ReadersExcludeWriters == At({"write"}) = {} \/ At({"read"}) = {}
=============================================================================
