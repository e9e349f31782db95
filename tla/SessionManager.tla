--------------------------- MODULE SessionManager ---------------------------
(***************************************************************************)
(* core::udp::SessionManager (core/udp_server/src/session_manager.cpp):    *)
(* worker threads that take datagrams from a completion port and drive the *)
(* SYN / ACK handshake and the liveness counter of each Session, and the   *)
(* thread that checks heartbeats every 10 s and deletes silent sessions.   *)
(*                                                                         *)
(* The two maps are guarded by one Spinlock each; a locked section is one  *)
(* action, so readers and writers are taken to exclude each other here     *)
(* (Spinlock.tla shows when they do not).  What the code does after the    *)
(* unlock, with the pointer or iterator it found under the lock, is an     *)
(* action of its own.  The network delivers any datagram from any endpoint *)
(* at any time: loss, duplication and reordering are all included.         *)
(*                                                                         *)
(* A datagram that fits no branch and the completion of a send only        *)
(* recycle their buffer: stuttering steps.                                 *)
(*                                                                         *)
(* Start-up is part of the model: core::udp::Server passes the setters and *)
(* Run() on to the manager, whose port or socket may have failed to open.  *)
(***************************************************************************)
EXTENDS Integers, FiniteSets

CONSTANTS
  Workers, Endpoints, None,
  Kinds,         \* datagrams clients send in a session: "beat", "data" or both
  Half,          \* is_alive_ is a short: -Half .. Half-1 (32768)
  MaxSessions,   \* bound: Session objects ever made
  MaxSpawn       \* bound: detached handler threads per worker not yet run

ASSUME ManagerAssumption ==
  /\ IsFiniteSet(Workers) /\ None \notin Workers \cup Endpoints
  /\ Kinds \subseteq {"beat", "data"}
  /\ Half \in Nat /\ Half >= 4
  /\ MaxSessions \in Nat /\ MaxSpawn \in Nat

Sessions == 1..MaxSessions
Nobody == 0

\* The bits 0x001, 0x010 and 0x100 of is_inited_all; "failed" is 0x1000.
Handlers == {"accept", "disconnect", "packet"}

VARIABLES
  port,          \* how opening iocp_ and socket_ went, see Init
  inited,        \* is_inited_all, the set of its bits
  made,          \* Session objects made so far; session s is the s-th of them
  endpoint,      \* endpoint_ of each session
  isAlive,       \* is_alive_ of each session
  deleted,       \* sessions the heartbeat thread has deleted
  pending,       \* pending_sessions_
  sessions,      \* sessions_
  disconnected,  \* the heartbeat thread's local vector
  pc,            \* where each worker is in iocp_task
  cur,           \* the Session* of the worker's current branch, on its stack
  spawned,       \* detached threads that hold a reference to that pointer
  posted,        \* WSARecvFrom calls that are outstanding
  hpc, todo,     \* where the heartbeat thread is, what its second loop has left
  victim,        \* the session whose counter that loop has just found at -3
  stop,          \* have_to_stop_
  heard,         \* history: sessions counted up since the last check
  wrapped,       \* history: sessions whose is_alive_ has overflowed
  lapsed,        \* history: receives that were not posted (again)
  ub             \* undefined behaviour that has happened, "none" if none has

vars == <<port, inited, made, endpoint, isAlive, deleted, pending, sessions, disconnected, pc, cur,
          spawned, posted, hpc, todo, victim, stop, heard, wrapped,
          lapsed, ub>>

objects == <<made, endpoint, isAlive, heard, wrapped>>
maps == <<pending, sessions>>
startup == <<port, inited>>
reaper == <<disconnected, hpc, todo, victim, deleted>>

Wrap(x) == ((x + Half) % (2 * Half)) - Half

(***************************************************************************)
(* Without a port there is no socket_ ("none").  A socket that could not   *)
(* be associated with it leaves is_with_iocp_ uninitialised: Recv() then   *)
(* does nothing ("deaf"), or posts what never completes here ("lost").     *)
(***************************************************************************)
Init ==
  /\ port \in {"ok", "none", "deaf", "lost"}
  /\ inited = IF port = "none" THEN {"failed"} ELSE {}
  /\ made = 0
  /\ endpoint = [s \in Sessions |-> None]
  /\ isAlive = [s \in Sessions |-> 0]
  /\ deleted = {}
  /\ pending = [e \in Endpoints |-> Nobody]
  /\ sessions = [e \in Endpoints |-> Nobody]
  /\ disconnected = {}
  /\ pc = [w \in Workers |-> "off"]
  /\ cur = [w \in Workers |-> Nobody]
  /\ spawned = [w \in Workers |-> [k \in {"accept", "packet"} |-> 0]]
  /\ posted = 0
  /\ hpc = "off" /\ todo = {} /\ victim = Nobody
  /\ stop = FALSE
  /\ heard = {} /\ wrapped = {} /\ lapsed = 0
  /\ ub = "none"

\* `while (!have_to_stop_)`, where every branch ends.
Top == IF stop THEN "exited" ELSE "wait"

Goto(w, from, to) == ub = "none" /\ pc[w] = from /\ pc' = [pc EXCEPT ![w] = to]

\* A receive completes.
Complete == port = "ok" /\ posted > 0 /\ posted' = posted - 1

\* A `continue` in front of Recv(), or a Recv() that posts nothing.
NoRepost == lapsed' = lapsed + 1

\* mutant: a branch calls Recv() itself
MutRepostTwice == posted' = posted + 2 /\ UNCHANGED lapsed
\* mutant: a branch returns to the loop before Recv(), unnoticed
MutRepostLost == UNCHANGED <<posted, lapsed>>

\* Recv() at the end of the branch posts the next receive, unless the socket is
\* deaf or WSARecvFrom fails at once, as it does on a socket that bind() did not
\* bind: nobody looks at either result.
Repost ==
  \/ port # "deaf" /\ posted' = posted + 1 /\ UNCHANGED lapsed
  \/ NoRepost /\ UNCHANGED posted

MutInsert(map, e, s) == [map EXCEPT ![e] = s]   \* mutant: map[e] = s
\* std::map::insert keeps the entry that is already there.
Insert(map, e, s) == [map EXCEPT ![e] = IF @ = Nobody THEN s ELSE @]

Spawn(w, k) ==
  /\ spawned[w]["accept"] + spawned[w]["packet"] < MaxSpawn
  /\ spawned' = [spawned EXCEPT ![w][k] = @ + 1]
-----------------------------------------------------------------------------
(* Start-up, by the thread that owns the Server.                           *)

SetHandler(h) ==
  /\ ub = "none" /\ h \notin inited
  /\ inited' = inited \cup {h}
  /\ UNCHANGED <<port, objects, maps, reaper, pc, cur, spawned, posted, stop, lapsed, ub>>

MutReady == inited \cap Handlers = Handlers   \* mutant: (is_inited_all & 0x0111) == 0x0111
Ready == inited = Handlers

\* Run() returns false unless Ready, and starts the threads.
Run ==
  /\ ub = "none" /\ ~stop /\ hpc = "off" /\ Ready
  /\ pc' = [w \in Workers |-> "start"]
  /\ hpc' = "sleep"
  /\ UNCHANGED <<startup, objects, maps, disconnected, todo, victim, deleted, cur, spawned, posted,
                 stop, lapsed, ub>>
-----------------------------------------------------------------------------
(* Worker threads: each starts with one receive through socket_.           *)

StartWorker(w) ==
  /\ Goto(w, "start", Top)
  /\ IF port = "none" THEN ub' = "unset" /\ UNCHANGED <<posted, lapsed>> ELSE Repost /\ UNCHANGED ub
  /\ UNCHANGED <<objects, maps, reaper, cur, spawned, startup, stop>>

\* GetQueuedCompletionStatus times out after wait_time; without a stop request
\* the loop calls it again.
Timeout(w) ==
  /\ stop
  /\ Goto(w, "wait", Top)
  /\ UNCHANGED <<objects, maps, reaper, cur, spawned, posted, startup, stop, lapsed, ub>>

\* A failed completion, or fewer than 4 bytes: `continue`.
RecvShort(w) ==
  /\ Goto(w, "wait", Top)
  /\ Complete /\ NoRepost
  /\ UNCHANGED <<objects, maps, reaper, cur, spawned, startup, stop, ub>>

\* SYN: a new Session; a second one for a pending endpoint is not inserted.
RecvSyn(w, e) ==
  LET s == made + 1
  IN /\ Goto(w, "wait", "send")
     /\ Complete
     /\ s \in Sessions
     /\ made' = s
     /\ endpoint' = [endpoint EXCEPT ![s] = e]
     /\ pending' = Insert(pending, e, s)
     /\ cur' = [cur EXCEPT ![w] = s]
     /\ UNCHANGED <<isAlive, heard, wrapped, sessions, reaper, spawned, startup, stop, lapsed, ub>>

\* ... answered through the new object after the unlock.
SendSynAck(w) ==
  /\ Goto(w, "send", Top)
  /\ IF cur[w] \in deleted THEN ub' = "freed" /\ UNCHANGED <<posted, lapsed>>
     ELSE Repost /\ UNCHANGED ub
  /\ UNCHANGED <<objects, maps, reaper, cur, spawned, startup, stop>>

\* ACK: the pending entry is looked up under ReadLock ...
RecvAck(w, e) ==
  /\ Complete
  /\ IF pending[e] = Nobody
     THEN Goto(w, "wait", Top) /\ NoRepost /\ UNCHANGED cur
     ELSE Goto(w, "wait", "erase") /\ cur' = [cur EXCEPT ![w] = pending[e]] /\ UNCHANGED lapsed
  /\ UNCHANGED <<objects, maps, reaper, spawned, startup, stop, ub>>

MutValid(w) == TRUE             \* mutant: erase(endpoint), whatever is there
Valid(w) == pending[endpoint[cur[w]]] = cur[w]

\* ... its iterator is erased under Lock, valid only if the entry is still there ...
ErasePending(w) ==
  LET e == endpoint[cur[w]]
  IN /\ Goto(w, "erase", "insert")
     /\ IF Valid(w)
        THEN pending' = [pending EXCEPT ![e] = Nobody] /\ UNCHANGED ub
        ELSE ub' = "iterator" /\ UNCHANGED pending
     /\ UNCHANGED <<objects, sessions, reaper, cur, spawned, posted, startup, stop, lapsed>>

\* ... and the session moves to sessions_, unless its endpoint has one there;
\* a thread is detached to call ahandler_ in either case.
InsertSession(w) ==
  LET e == endpoint[cur[w]]
  IN /\ Goto(w, "insert", Top)
     /\ sessions' = Insert(sessions, e, cur[w])
     /\ Spawn(w, "accept")
     /\ Repost
     /\ UNCHANGED <<objects, pending, reaper, cur, startup, stop, ub>>

\* Heartbeat or data: the session is looked up under ReadLock ...
RecvKnown(w, e, kind) ==
  /\ Complete
  /\ IF sessions[e] = Nobody
     THEN Goto(w, "wait", Top) /\ NoRepost /\ UNCHANGED cur
     ELSE Goto(w, "wait", kind) /\ cur' = [cur EXCEPT ![w] = sessions[e]] /\ UNCHANGED lapsed
  /\ UNCHANGED <<objects, maps, reaper, spawned, startup, stop, ub>>

MutIncrementDown(s) ==          \* mutant: InterlockedDecrement16
  /\ isAlive' = [isAlive EXCEPT ![s] = Wrap(@ - 1)]
  /\ heard' = heard \cup {s}
  /\ UNCHANGED wrapped

\* InterlockedIncrement16(&session->is_alive_)
Increment(s) ==
  /\ isAlive' = [isAlive EXCEPT ![s] = Wrap(@ + 1)]
  /\ heard' = heard \cup {s}
  /\ wrapped' = wrapped \cup {x \in {s} : isAlive[x] = Half - 1}

\* ... and counted up after the unlock.
Heartbeat(w) ==
  /\ Goto(w, "beat", Top)
  /\ IF cur[w] \in deleted THEN ub' = "freed" /\ UNCHANGED <<objects, posted, lapsed>>
     ELSE Increment(cur[w]) /\ Repost /\ UNCHANGED <<made, endpoint, ub>>
  /\ UNCHANGED <<maps, reaper, cur, spawned, startup, stop>>

\* Data goes to phandler_, on a detached thread, unless the session is on its
\* way out.
Data(w) ==
  /\ Goto(w, "data", Top)
  /\ IF cur[w] \in deleted THEN ub' = "freed" /\ UNCHANGED <<objects, posted, lapsed, spawned>>
     ELSE /\ Increment(cur[w])
          /\ IF isAlive'[cur[w]] > -2 THEN Spawn(w, "packet") ELSE UNCHANGED spawned
          /\ Repost /\ UNCHANGED <<made, endpoint, ub>>
  /\ UNCHANGED <<maps, reaper, cur, startup, stop>>

\* The detached thread reads the session through the reference it captured,
\* that is, whatever the worker's stack slot holds by now.
RunHandler(w, k) ==
  /\ ub = "none"
  /\ spawned[w][k] > 0
  /\ spawned' = [spawned EXCEPT ![w][k] = @ - 1]
  /\ ub' = IF k \notin inited THEN "unset" ELSE IF cur[w] \in deleted THEN "handler" ELSE "none"
  /\ UNCHANGED <<objects, maps, reaper, pc, cur, posted, startup, stop, lapsed>>
-----------------------------------------------------------------------------
(* The heartbeat thread.                                                   *)

MutAppended(out) == out         \* mutant: the vector is declared inside the loop
Appended(out) == disconnected \cup out

Silent(s) == Wrap(isAlive[s] - 1) < -1

\* Every session is counted down under Lock; those below -1 leave sessions_.
Sweep ==
  LET in == {sessions[e] : e \in Endpoints} \ {Nobody}
      out == {s \in in : Silent(s)}
  IN /\ ub = "none" /\ hpc = "sleep" /\ hpc' = "reap"
     /\ isAlive' = [s \in Sessions |-> IF s \in in THEN Wrap(isAlive[s] - 1) ELSE isAlive[s]]
     /\ sessions' = [e \in Endpoints |-> IF sessions[e] \in out THEN Nobody ELSE sessions[e]]
     /\ disconnected' = Appended(out)
     /\ todo' = disconnected'
     /\ heard' = {} /\ wrapped' = wrapped \cup {s \in in : isAlive[s] = -Half}
     /\ UNCHANGED <<made, endpoint, pending, deleted, victim, pc, cur, spawned, posted,
                    startup, stop, lapsed, ub>>

MutHit(s) == Wrap(isAlive[s] - 1) < -3     \* mutant: `< -3`
Hit(s) == Wrap(isAlive[s] - 1) = -3

\* Each disconnected session is counted down once more, without the lock ...
Reap(s) ==
  /\ ub = "none" /\ hpc = "reap" /\ victim = Nobody /\ s \in todo
  /\ isAlive' = [isAlive EXCEPT ![s] = Wrap(@ - 1)]
  /\ victim' = IF Hit(s) THEN s ELSE Nobody
  /\ todo' = todo \ {s}
  /\ UNCHANGED <<made, endpoint, maps, disconnected, deleted, hpc, pc, cur, spawned, posted,
                 startup, stop,
                 heard, wrapped, lapsed, ub>>

\* ... and dhandler_, delete and erase follow for the one that hit -3.  The
\* object was placed in memory of session_pool_, which is not for delete to
\* free: the process breaks there or goes on as if the memory were given back.
Kill ==
  /\ ub = "none" /\ victim # Nobody
  /\ victim' = Nobody
  /\ disconnected' = disconnected \ {victim}
  /\ deleted' = deleted \cup {victim}
  /\ ub' \in IF "disconnect" \in inited THEN {"none", "delete"} ELSE {"unset"}
  /\ UNCHANGED <<objects, maps, hpc, todo, pc, cur, spawned, posted, startup, stop, lapsed>>

RoundDone ==
  /\ ub = "none" /\ hpc = "reap" /\ todo = {} /\ victim = Nobody
  /\ hpc' = "sleep"
  /\ UNCHANGED <<objects, maps, disconnected, deleted, todo, victim, pc, cur, spawned, posted,
                 startup, stop,
                 lapsed, ub>>

\* ~SessionManager sets the flag and joins; the heartbeat thread never looks.
Destroy ==
  /\ ub = "none" /\ ~stop /\ stop' = TRUE
  /\ UNCHANGED <<startup, objects, maps, reaper, pc, cur, spawned, posted, lapsed, ub>>
-----------------------------------------------------------------------------
Receive(w) ==
  \/ RecvShort(w)
  \/ \E e \in Endpoints :
       RecvSyn(w, e) \/ RecvAck(w, e) \/ \E kind \in Kinds : RecvKnown(w, e, kind)

WorkerStep(w) ==
  \/ StartWorker(w) \/ Timeout(w)
  \/ SendSynAck(w) \/ ErasePending(w) \/ InsertSession(w) \/ Heartbeat(w) \/ Data(w)

HeartbeatThread == Sweep \/ (\E s \in Sessions : Reap(s)) \/ Kill \/ RoundDone

Handler(w) == \E k \in {"accept", "packet"} : RunHandler(w, k)

Next ==
  \/ Run \/ \E h \in Handlers : SetHandler(h)
  \/ \E w \in Workers : Receive(w) \/ WorkerStep(w) \/ Handler(w)
  \/ HeartbeatThread
  \/ Destroy

Spec == Init /\ [][Next]_vars

(***************************************************************************)
(* Threads keep running: every worker leaves GetQueuedCompletionStatus     *)
(* after wait_time at the latest, the heartbeat thread wakes up, and a     *)
(* detached thread gets to run.  No datagram ever has to arrive.           *)
(***************************************************************************)
Fairness ==
  /\ \A w \in Workers : WF_vars(WorkerStep(w)) /\ WF_vars(Handler(w))
  /\ WF_vars(HeartbeatThread)

FairSpec == Spec /\ Fairness
-----------------------------------------------------------------------------
Mapped(m) == {m[e] : e \in Endpoints} \ {Nobody}

\* Sessions a worker has taken out of pending_ and not yet put into sessions_.
Moving == {cur[w] : w \in {x \in Workers : pc[x] = "insert"}}

Known == Mapped(pending) \cup Moving \cup Mapped(sessions) \cup disconnected

\* Objects that exist and that nothing of the manager leads to.
Lost == 1..made \ (Known \cup deleted)

TypeOK ==
  /\ port \in {"ok", "none", "deaf", "lost"}
  /\ inited \subseteq Handlers \cup {"failed"}
  /\ made \in 0..MaxSessions
  /\ endpoint \in [Sessions -> Endpoints \cup {None}]
  /\ isAlive \in [Sessions -> -Half .. Half - 1]
  /\ pending \in [Endpoints -> Sessions \cup {Nobody}]
  /\ sessions \in [Endpoints -> Sessions \cup {Nobody}]
  /\ disconnected \subseteq Sessions /\ deleted \subseteq Sessions
  /\ todo \subseteq disconnected
  /\ victim \in Sessions \cup {Nobody}
  /\ pc \in [Workers -> {"off", "start", "wait", "send", "erase", "insert", "beat",
                         "data", "exited"}]
  /\ cur \in [Workers -> Sessions \cup {Nobody}]
  /\ spawned \in [Workers -> [{"accept", "packet"} -> 0..MaxSpawn]]
  /\ posted \in 0..Cardinality(Workers) /\ lapsed \in 0..Cardinality(Workers)
  /\ hpc \in {"off", "sleep", "reap"}
  /\ stop \in BOOLEAN
  /\ heard \subseteq Sessions /\ wrapped \subseteq Sessions
  /\ ub \in {"none", "unset", "iterator", "freed", "handler", "delete"}

\* Up to the first undefined behaviour a session is in at most one of
\* pending_sessions_, a worker's hands on the way to sessions_, sessions_ and
\* the heartbeat thread's vector, under its own endpoint, and a deleted one in
\* none: so dhandler_ and delete run at most once for it.
OneOwner ==
  ub = "none" =>
    /\ \A e \in Endpoints, s \in Sessions :
         s \in {pending[e], sessions[e]} => endpoint[s] = e
    /\ Mapped(pending) \cap (Moving \cup Mapped(sessions) \cup disconnected) = {}
    /\ Moving \cap (Mapped(sessions) \cup disconnected) = {}
    /\ Mapped(sessions) \cap disconnected = {}
    /\ Known \cap deleted = {}
    /\ victim # Nobody => victim \in disconnected

\* Whatever order the setters and Run() are called in, and however opening the
\* port and the socket ended: no thread calls a handler that was never set or
\* goes through a null socket_, since Run() tests is_inited_all.
StartedComplete == ub # "unset"

\* Workers may still count up a session that has left sessions_.  Its counter
\* nevertheless never gets past -3 unnoticed by the `== -3` test.
ReaperNeverMisses ==
  \A s \in disconnected \ wrapped : isAlive[s] >= -2 \/ s = victim

\* A client that is heard from between two checks is not disconnected by the
\* second one, as long as its 16-bit counter has not overflowed.
HeardStaysConnected ==
  [][\A s \in heard \ wrapped : s \in Mapped(sessions) => s \in Mapped(sessions')]_vars

\* A Session object is only lost track of when insert() found its endpoint
\* taken: after a second SYN, or a handshake of an endpoint in session.
LostOnlyAsDuplicate ==
  [][\A s \in Lost' \ Lost :
       IF s > made THEN pending[endpoint'[s]] # Nobody ELSE sessions[endpoint[s]] # Nobody]_vars

\* A session that left sessions_ comes to dhandler_ and delete in the end,
\* whatever counts it up meanwhile.  What delete does to it is undefined.
DisconnectedIsReaped ==
  \A s \in Sessions : (s \in disconnected) ~> (s \in deleted \/ ub # "none")

\* Every worker brings one receive along, and each receive that is not posted
\* again costs one of them: after Run() receives are outstanding again and again
\* until as many as there are workers were lost to a short datagram, an unknown
\* endpoint or a Recv() that posted nothing.
ServerListens ==
  []<>(posted > 0 \/ lapsed = Cardinality(Workers) \/ stop \/ ub # "none" \/ hpc = "off")

\* "have to be safe" (after the lookup of a data packet's session): the session
\* found under the lock is still there when is_alive_ is counted up.
SafeAfterUnlock == ub # "freed"

\* "// Lock" to "// Unlock" around the ACK branch: nobody else erases the
\* pending entry between the lookup and the erase.
AckIsLocked == ub # "iterator"
=============================================================================
