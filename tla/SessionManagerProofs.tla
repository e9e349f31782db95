------------------------ MODULE SessionManagerProofs ------------------------
(***************************************************************************)
(* Proofs about SessionManager for any workers, endpoints, width of the    *)
(* counter (Half), and number of sessions.                                 *)
(*                                                                         *)
(* None of the properties is inductive.  That a session has one owner      *)
(* (OneOwner) needs every pointer a worker or a map holds to be one of an  *)
(* object that was made, filed under its own endpoint (Pointers), and no   *)
(* two workers to move the same session (Apart).  That the `== -3` test    *)
(* never misses needs the counters of the sessions that have not left      *)
(* sessions_ to be at least -1 (Counters), and the one owner: a session in *)
(* sessions_ and in the vector would be counted down twice in a round.     *)
(***************************************************************************)
EXTENDS SessionManager, FiniteSetTheorems, TLAPS

Holding == {"send", "erase", "insert", "beat", "data"}   \* places where cur is used

\* Threads exist only once Run() found all handlers and no failure.
RunningIsReady ==
  /\ "failed" \in inited <=> port = "none"
  /\ hpc # "off" => Handlers \subseteq inited /\ port # "none"
  /\ hpc = "off" => /\ \A w \in Workers : /\ pc[w] = "off"
                                          /\ spawned[w]["accept"] = 0 /\ spawned[w]["packet"] = 0
                    /\ victim = Nobody

\* Each worker that is not in a branch stands for one receive, outstanding or
\* lost; only a step into undefined behaviour leaves the books open.
Idle == {w \in Workers : pc[w] \in {"wait", "exited"}}

PostedByIdle ==
  /\ posted + lapsed <= Cardinality(Idle)
  /\ ub = "none" => posted + lapsed = Cardinality(Idle)

\* Every pointer leads to an object that was made, and every entry of a map is
\* filed under the object's endpoint.
Pointers ==
  /\ \A s \in 1..made : endpoint[s] \in Endpoints
  /\ \A e \in Endpoints : pending[e] # Nobody => pending[e] \in 1..made /\ endpoint[pending[e]] = e
  /\ \A e \in Endpoints : sessions[e] # Nobody => sessions[e] \in 1..made /\ endpoint[sessions[e]] = e
  /\ \A w \in Workers : pc[w] \in Holding => cur[w] \in 1..made
  /\ disconnected \subseteq 1..made /\ deleted \subseteq 1..made

\* The session that has just hit -3 waits for Kill, in this round.
VictimWaits == victim # Nobody => victim \in disconnected \ todo /\ hpc = "reap"

\* The places a session can be in exclude each other, entry by entry.
Apart ==
  ub = "none" =>
    /\ \A e, f \in Endpoints : pending[e] # Nobody => pending[e] # sessions[f]
    /\ \A e \in Endpoints : /\ pending[e] \notin disconnected \cup deleted
                            /\ sessions[e] \notin disconnected \cup deleted
    /\ \A w \in Workers : pc[w] = "insert" =>
         /\ cur[w] \notin disconnected \cup deleted
         /\ \A e \in Endpoints : cur[w] # pending[e] /\ cur[w] # sessions[e]
         /\ \A v \in Workers \ {w} : pc[v] = "insert" => cur[v] # cur[w]
    /\ disconnected \cap deleted = {}

\* A counter that did not overflow is at least -1 before the session is
\* disconnected, at least 0 if it was counted up since the last check.
Counters ==
  \A s \in Sessions \ (wrapped \cup disconnected \cup deleted) :
    isAlive[s] >= -1 /\ (s \in heard => isAlive[s] >= 0)

IInv ==
  /\ TypeOK
  /\ RunningIsReady
  /\ StartedComplete
  /\ PostedByIdle
  /\ Pointers
  /\ VictimWaits
  /\ Apart
  /\ Counters
  /\ ReaperNeverMisses
-----------------------------------------------------------------------------
(* The 16-bit counter.                                                     *)

\* What % does at the two ends of its range and between them.
LEMMA ModAtEnds ==
  ASSUME NEW d \in Nat, d > 0, NEW x \in Int
  PROVE  /\ x \in 0..d-1 => x % d = x
         /\ x = d => x % d = 0
         /\ x = -1 => x % d = d - 1
<1>1. x \in 0..d-1 => x % d = x
  OBVIOUS
<1>2. x = d => x % d = 0
  OBVIOUS
<1>3. x = -1 => x % d = d - 1
  OBVIOUS
<1>4. QED
  BY <1>1, <1>2, <1>3

\* Counting up and down is exact except at the ends, where it wraps around.
LEMMA WrapStep ==
  ASSUME NEW a \in -Half .. Half - 1
  PROVE  /\ Wrap(a + 1) = IF a = Half - 1 THEN -Half ELSE a + 1
         /\ Wrap(a - 1) = IF a = -Half THEN Half - 1 ELSE a - 1
<1>1. 2 * Half \in Nat /\ 2 * Half > 0 /\ a \in Int /\ Half \in Nat
  BY ManagerAssumption
<1>2. CASE a = Half - 1
  BY <1>1, <1>2, ModAtEnds DEF Wrap
<1>3. CASE a = -Half
  BY <1>1, <1>3, ModAtEnds DEF Wrap
<1>4. CASE a # -Half /\ a # Half - 1
  BY <1>1, <1>4, ModAtEnds DEF Wrap
<1>5. QED
  BY <1>2, <1>3, <1>4

\* The counter stays a short.
LEMMA WrapType ==
  ASSUME NEW a \in -Half .. Half - 1
  PROVE  Wrap(a + 1) \in -Half .. Half - 1 /\ Wrap(a - 1) \in -Half .. Half - 1
BY WrapStep, ManagerAssumption
-----------------------------------------------------------------------------
(* The invariant holds at the start.                                       *)

\* Nothing is connected, pending or deleted at first.
LEMMA InitIInv == Init => IInv
<1> SUFFICES ASSUME Init PROVE IInv
  OBVIOUS
<1> USE ManagerAssumption DEF Init
<1>1. Cardinality(Workers) \in Nat /\ Cardinality(Idle) \in Nat
  BY FS_CardinalityType, FS_Subset DEF Idle
<1>2. TypeOK
  <2>1. inited \subseteq Handlers \cup {"failed"}
    OBVIOUS
  <2>2. spawned \in [Workers -> [{"accept", "packet"} -> 0..MaxSpawn]]
    OBVIOUS
  <2>3. posted \in 0..Cardinality(Workers) /\ lapsed \in 0..Cardinality(Workers)
    BY <1>1
  <2>4. isAlive \in [Sessions -> -Half .. Half - 1] /\ made \in 0..MaxSessions
    OBVIOUS
  <2>5. QED
    BY <2>1, <2>2, <2>3, <2>4 DEF TypeOK
<1>3. RunningIsReady
  BY DEF RunningIsReady
<1>4. StartedComplete /\ PostedByIdle
  <2>1. Idle = {}
    BY DEF Idle
  <2>2. posted + lapsed = Cardinality(Idle)
    BY <2>1, FS_EmptySet
  <2>3. QED
    BY <1>1, <2>2 DEF StartedComplete, PostedByIdle
<1>5. Pointers /\ VictimWaits /\ Apart
  BY DEF Pointers, VictimWaits, Apart, Holding
<1>6. Counters /\ ReaperNeverMisses
  BY DEF Counters, ReaperNeverMisses, Sessions
<1>7. QED
  BY <1>2, <1>3, <1>4, <1>5, <1>6 DEF IInv
-----------------------------------------------------------------------------
(* Each part of the invariant is kept by every step.                       *)

\* When a worker moves, the books stay closed if leaving the idle ones takes a
\* receive and coming back adds one, posted or lost.
LEMMA PostedMoves ==
  ASSUME TypeOK, PostedByIdle, ub = "none", NEW w \in Workers, pc' = [pc EXCEPT ![w] = pc'[w]],
         posted' \in Nat, lapsed' \in Nat,
         pc[w] \in {"wait", "exited"} /\ pc'[w] \notin {"wait", "exited"}
           => posted' + lapsed' = posted + lapsed - 1,
         pc[w] \notin {"wait", "exited"} /\ pc'[w] \in {"wait", "exited"}
           => \/ posted' + lapsed' = posted + lapsed + 1
              \/ posted' + lapsed' = posted + lapsed /\ ub' # "none",
         pc[w] \in {"wait", "exited"} /\ pc'[w] \in {"wait", "exited"}
           => posted' + lapsed' = posted + lapsed,
         pc[w] \notin {"wait", "exited"} /\ pc'[w] \notin {"wait", "exited"}
           => posted' + lapsed' = posted + lapsed
  PROVE  PostedByIdle' /\ posted' \in 0..Cardinality(Workers) /\ lapsed' \in 0..Cardinality(Workers)
<1>1. PICK n \in Nat, k \in Nat : posted' = n /\ lapsed' = k
  OBVIOUS
<1>2. IsFiniteSet(Workers) /\ IsFiniteSet(Idle) /\ IsFiniteSet(Idle')
  BY ManagerAssumption, FS_Subset DEF Idle
<1>3. /\ Cardinality(Workers) \in Nat /\ Cardinality(Idle) \in Nat
      /\ posted \in Nat /\ lapsed \in Nat
      /\ Cardinality(Idle') \in Nat /\ Cardinality(Idle') <= Cardinality(Workers)
  <2>1. Cardinality(Workers) \in Nat /\ Cardinality(Idle) \in Nat /\ Cardinality(Idle') \in Nat
    BY <1>2, FS_CardinalityType
  <2>2. Idle' \subseteq Workers
    BY DEF Idle
  <2>3. QED
    BY <1>2, <2>1, <2>2, FS_Subset DEF TypeOK
<1>4. posted + lapsed = Cardinality(Idle)
  BY DEF PostedByIdle
<1>5. ASSUME posted' + lapsed' <= Cardinality(Idle'),
             ub' = "none" => posted' + lapsed' = Cardinality(Idle')
      PROVE  /\ PostedByIdle'
             /\ posted' \in 0..Cardinality(Workers) /\ lapsed' \in 0..Cardinality(Workers)
  <2>1. PostedByIdle'
    BY <1>5 DEF PostedByIdle
  <2>2. posted' <= Cardinality(Workers) /\ lapsed' <= Cardinality(Workers)
    BY <1>1, <1>3, <1>5
  <2>3. QED
    BY <1>3, <2>1, <2>2
<1>6. CASE pc[w] \in {"wait", "exited"} /\ pc'[w] \notin {"wait", "exited"}
  <2>1. Idle' = Idle \ {w} /\ w \in Idle
    BY <1>6 DEF Idle, TypeOK
  <2>2. Cardinality(Idle') = Cardinality(Idle) - 1
    BY <1>2, <2>1, FS_RemoveElement
  <2>3. posted' + lapsed' = posted + lapsed - 1
    BY <1>6, Zenon
  <2>4. posted' + lapsed' = Cardinality(Idle') /\ posted' + lapsed' <= Cardinality(Idle')
    BY <1>1, <1>3, <1>4, <2>2, <2>3
  <2>5. QED
    BY <1>5, <2>4, Zenon
<1>7. CASE pc[w] \notin {"wait", "exited"} /\ pc'[w] \in {"wait", "exited"}
  <2>1. Idle' = Idle \cup {w} /\ w \notin Idle
    BY <1>7 DEF Idle, TypeOK
  <2>2. Cardinality(Idle') = Cardinality(Idle) + 1
    BY <1>2, <2>1, FS_AddElement
  <2>3. \/ posted' + lapsed' = posted + lapsed + 1
        \/ posted' + lapsed' = posted + lapsed /\ ub' # "none"
    BY <1>7, Zenon
  <2>4. CASE posted' + lapsed' = posted + lapsed + 1
    <3>1. posted' + lapsed' = Cardinality(Idle') /\ posted' + lapsed' <= Cardinality(Idle')
      BY <1>1, <1>3, <1>4, <2>2, <2>4
    <3>2. QED
      BY <1>5, <3>1, Zenon
  <2>5. CASE posted' + lapsed' = posted + lapsed /\ ub' # "none"
    <3>1. posted' + lapsed' <= Cardinality(Idle')
      BY <1>1, <1>3, <1>4, <2>2, <2>5
    <3>2. QED
      BY <1>5, <2>5, <3>1, Zenon
  <2>6. QED
    BY <2>3, <2>4, <2>5
<1>8. CASE pc[w] \in {"wait", "exited"} <=> pc'[w] \in {"wait", "exited"}
  <2>1. Idle' = Idle
    BY <1>8 DEF Idle, TypeOK
  <2>2. posted' + lapsed' = posted + lapsed
    BY <1>8, Zenon
  <2>3. posted' + lapsed' = Cardinality(Idle') /\ posted' + lapsed' <= Cardinality(Idle')
    BY <1>1, <1>3, <1>4, <2>1, <2>2
  <2>4. QED
    BY <1>5, <2>3, Zenon
<1>9. QED
  BY <1>6, <1>7, <1>8

\* The receives outstanding and lost, by every step.
LEMMA PostedStep ==
  ASSUME TypeOK, PostedByIdle, RunningIsReady, [Next]_vars
  PROVE  PostedByIdle' /\ posted' \in 0..Cardinality(Workers) /\ lapsed' \in 0..Cardinality(Workers)
<1> DEFINE Goal ==
      PostedByIdle' /\ posted' \in 0..Cardinality(Workers) /\ lapsed' \in 0..Cardinality(Workers)
<1> USE DEF Goto, Top, Complete, NoRepost, Repost
<1>1. posted \in Nat /\ lapsed \in Nat
  BY ManagerAssumption, FS_CardinalityType DEF TypeOK
<1>2. ASSUME NEW w \in Workers, Receive(w) PROVE Goal
  <2>1. /\ posted' = posted - 1 /\ posted > 0 /\ pc[w] = "wait" /\ ub = "none"
        /\ pc' = [pc EXCEPT ![w] = pc'[w]]
    BY <1>2 DEF Receive, RecvShort, RecvSyn, RecvAck, RecvKnown, TypeOK
  <2>2. IF pc'[w] \in {"wait", "exited"} THEN lapsed' = lapsed + 1 ELSE lapsed' = lapsed
    BY <1>2, ManagerAssumption DEF Receive, RecvShort, RecvSyn, RecvAck, RecvKnown, TypeOK
  <2>3. posted' \in Nat /\ lapsed' \in Nat
    BY <1>1, <2>1, <2>2
  <2>4. CASE pc'[w] \in {"wait", "exited"}
    <3>1. posted' + lapsed' = posted + lapsed
      BY <1>1, <2>1, <2>2, <2>4
    <3>2. QED
      BY <2>1, <2>3, <2>4, <3>1, PostedMoves, Zenon
  <2>5. CASE pc'[w] \notin {"wait", "exited"}
    <3>1. posted' + lapsed' = posted + lapsed - 1
      BY <1>1, <2>1, <2>2, <2>5
    <3>2. QED
      BY <2>1, <2>3, <2>5, <3>1, PostedMoves, Zenon
  <2>6. QED
    BY <2>4, <2>5
<1>3. ASSUME NEW w \in Workers, WorkerStep(w) PROVE Goal
  <2>1. CASE StartWorker(w) \/ SendSynAck(w) \/ InsertSession(w) \/ Heartbeat(w) \/ Data(w)
    <3>1. /\ pc[w] \notin {"wait", "exited"} /\ ub = "none"
          /\ pc' = [pc EXCEPT ![w] = pc'[w]] /\ pc'[w] \in {"wait", "exited"}
      BY <2>1 DEF StartWorker, SendSynAck, InsertSession, Heartbeat, Data, TypeOK
    <3>2. \/ posted' = posted + 1 /\ lapsed' = lapsed
          \/ posted' = posted /\ lapsed' = lapsed + 1
          \/ posted' = posted /\ lapsed' = lapsed /\ ub' # "none"
      BY <2>1 DEF StartWorker, SendSynAck, InsertSession, Heartbeat, Data
    <3>3. posted' \in Nat /\ lapsed' \in Nat
      BY <1>1, <3>2
    <3>4. \/ posted' + lapsed' = posted + lapsed + 1
          \/ posted' + lapsed' = posted + lapsed /\ ub' # "none"
      BY <1>1, <3>2
    <3>5. QED
      BY <3>1, <3>3, <3>4, PostedMoves, Zenon
  <2>2. CASE Timeout(w) \/ ErasePending(w)
    <3>1. /\ posted' = posted /\ lapsed' = lapsed /\ pc' = [pc EXCEPT ![w] = pc'[w]] /\ ub = "none"
          /\ pc'[w] \in {"wait", "exited"} <=> pc[w] \in {"wait", "exited"}
      BY <2>2 DEF Timeout, ErasePending, TypeOK
    <3>2. posted' \in Nat /\ lapsed' \in Nat /\ posted' + lapsed' = posted + lapsed
      BY <1>1, <3>1
    <3>3. QED
      BY <3>1, <3>2, PostedMoves, Zenon
  <2>3. QED
    BY <1>3, <2>1, <2>2 DEF WorkerStep
<1>4. CASE Run
  <2>1. Idle = {} /\ Idle' = {} /\ UNCHANGED <<posted, lapsed, ub>>
    BY <1>4 DEF Run, RunningIsReady, Idle
  <2>2. QED
    BY <2>1 DEF PostedByIdle, TypeOK
<1>5. CASE UNCHANGED <<pc, posted, lapsed>> /\ (ub' = "none" => ub = "none")
  BY <1>5 DEF PostedByIdle, Idle, TypeOK
<1>6. QED
  BY <1>2, <1>3, <1>4, <1>5
  DEF Next, SetHandler, Handler, RunHandler, HeartbeatThread, Sweep, Reap, Kill, RoundDone, Destroy, vars

\* The threads not yet run stay within the bound.
LEMMA SpawnType ==
  ASSUME TypeOK, NEW w \in Workers, NEW k \in {"accept", "packet"},
         Spawn(w, k) \/ (spawned[w][k] > 0 /\ spawned' = [spawned EXCEPT ![w][k] = @ - 1])
  PROVE  spawned' \in [Workers -> [{"accept", "packet"} -> 0..MaxSpawn]]
<1>1. spawned[w] \in [{"accept", "packet"} -> 0..MaxSpawn] /\ MaxSpawn \in Nat
  BY ManagerAssumption DEF TypeOK
<1>2. PICK n \in 0..MaxSpawn : spawned' = [spawned EXCEPT ![w] = [spawned[w] EXCEPT ![k] = n]]
  <2>1. CASE Spawn(w, k)
    <3>1. spawned[w][k] + 1 \in 0..MaxSpawn
      BY <1>1, <2>1 DEF Spawn
    <3>2. QED
      BY <2>1, <3>1 DEF Spawn
  <2>2. CASE spawned[w][k] > 0 /\ spawned' = [spawned EXCEPT ![w][k] = @ - 1]
    <3>1. spawned[w][k] - 1 \in 0..MaxSpawn
      BY <1>1, <2>2
    <3>2. QED
      BY <2>2, <3>1
  <2>3. QED
    BY <2>1, <2>2
<1>3. QED
  BY <1>1, <1>2 DEF TypeOK

\* Counting up keeps the types of the counter and of its histories.
LEMMA IncrementType ==
  ASSUME TypeOK, NEW s \in Sessions, Increment(s)
  PROVE  /\ isAlive' \in [Sessions -> -Half .. Half - 1]
         /\ heard' \subseteq Sessions /\ wrapped' \subseteq Sessions
<1>1. isAlive[s] \in -Half .. Half - 1
  BY DEF TypeOK
<1>2. Wrap(isAlive[s] + 1) \in -Half .. Half - 1
  BY <1>1, WrapType
<1>3. QED
  BY <1>2 DEF Increment, TypeOK

\* Types.
LEMMA TypeStep == IInv /\ [Next]_vars => TypeOK'
<1> SUFFICES ASSUME IInv, [Next]_vars PROVE TypeOK'
  OBVIOUS
<1> USE DEF IInv, Sessions, Nobody, Goto, Top, objects, maps, startup, reaper
<1>1. posted' \in 0..Cardinality(Workers) /\ lapsed' \in 0..Cardinality(Workers)
  BY PostedStep
<1>2. ASSUME NEW w \in Workers, StartWorker(w) \/ Timeout(w) \/ RecvShort(w) \/ SendSynAck(w)
      PROVE  TypeOK'
  BY <1>1, <1>2 DEF StartWorker, Timeout, RecvShort, SendSynAck, TypeOK
<1>3. ASSUME NEW w \in Workers, NEW e \in Endpoints, RecvSyn(w, e)
      PROVE  TypeOK'
  <2>1. /\ made' \in 0..MaxSessions /\ made' \in Sessions
        /\ endpoint' \in [Sessions -> Endpoints \cup {None}]
        /\ cur' \in [Workers -> Sessions \cup {Nobody}]
    BY <1>3 DEF RecvSyn, TypeOK
  <2>2. pending' \in [Endpoints -> Sessions \cup {Nobody}]
    BY <1>3 DEF RecvSyn, Insert, TypeOK
  <2>3. QED
    BY <1>1, <1>3, <2>1, <2>2 DEF RecvSyn, TypeOK
<1>4. ASSUME NEW w \in Workers, NEW e \in Endpoints,
             RecvAck(w, e) \/ \E kind \in Kinds : RecvKnown(w, e, kind)
      PROVE  TypeOK'
  <2>1. /\ cur' \in [Workers -> Sessions \cup {Nobody}]
        /\ pc' \in [Workers -> {"off", "start", "wait", "send", "erase", "insert", "beat",
                                "data", "exited"}]
    <3>1. pending[e] \in Sessions \cup {Nobody} /\ sessions[e] \in Sessions \cup {Nobody}
      BY DEF TypeOK
    <3>2. CASE RecvAck(w, e)
      BY <3>1, <3>2 DEF RecvAck, TypeOK
    <3>3. CASE \E kind \in Kinds : RecvKnown(w, e, kind)
      BY <3>1, <3>3, ManagerAssumption DEF RecvKnown, TypeOK
    <3>4. QED
      BY <1>4, <3>2, <3>3
  <2>2. QED
    BY <1>1, <1>4, <2>1 DEF RecvAck, RecvKnown, TypeOK
<1>5. ASSUME NEW w \in Workers, ErasePending(w)
      PROVE  TypeOK'
  BY <1>1, <1>5 DEF ErasePending, TypeOK
<1>6. ASSUME NEW w \in Workers, InsertSession(w)
      PROVE  TypeOK'
  <2>1. spawned' \in [Workers -> [{"accept", "packet"} -> 0..MaxSpawn]]
    BY <1>6, SpawnType DEF InsertSession
  <2>2. QED
    BY <1>1, <1>6, <2>1 DEF InsertSession, Insert, TypeOK
<1>7. ASSUME NEW w \in Workers, Heartbeat(w) \/ Data(w)
      PROVE  TypeOK'
  <2>1. cur[w] \in Sessions
    BY <1>7 DEF Heartbeat, Data, Pointers, Holding, TypeOK
  <2>2. /\ isAlive' \in [Sessions -> -Half .. Half - 1]
        /\ heard' \subseteq Sessions /\ wrapped' \subseteq Sessions
    BY <1>7, <2>1, IncrementType DEF Heartbeat, Data, TypeOK
  <2>3. spawned' \in [Workers -> [{"accept", "packet"} -> 0..MaxSpawn]]
    <3>1. Spawn(w, "packet") \/ UNCHANGED spawned
      BY <1>7 DEF Heartbeat, Data
    <3>2. QED
      BY <3>1, SpawnType DEF TypeOK
  <2>4. QED
    BY <1>1, <1>7, <2>2, <2>3 DEF Heartbeat, Data, Increment, TypeOK
<1>8. ASSUME NEW w \in Workers, NEW k \in {"accept", "packet"}, RunHandler(w, k)
      PROVE  TypeOK'
  <2>1. spawned' \in [Workers -> [{"accept", "packet"} -> 0..MaxSpawn]]
    BY <1>8, SpawnType DEF RunHandler
  <2>2. QED
    BY <1>1, <1>8, <2>1 DEF RunHandler, TypeOK
<1>9. CASE Sweep
  <2>1. isAlive' \in [Sessions -> -Half .. Half - 1]
    <3>1. \A s \in Sessions : Wrap(isAlive[s] - 1) \in -Half .. Half - 1 /\ isAlive[s] \in -Half .. Half - 1
      BY WrapType DEF TypeOK
    <3>2. QED
      BY <1>9, <3>1 DEF Sweep
  <2>2. sessions' \in [Endpoints -> Sessions \cup {Nobody}]
    BY <1>9 DEF Sweep, TypeOK
  <2>3. disconnected' \subseteq Sessions /\ wrapped' \subseteq Sessions /\ heard' \subseteq Sessions
    <3>1. {sessions[e] : e \in Endpoints} \ {Nobody} \subseteq Sessions
      BY DEF TypeOK
    <3>2. QED
      BY <1>9, <3>1 DEF Sweep, Appended, TypeOK
  <2>4. QED
    BY <1>1, <1>9, <2>1, <2>2, <2>3 DEF Sweep, TypeOK
<1>10. ASSUME NEW s \in Sessions, Reap(s) PROVE TypeOK'
  BY <1>1, <1>10, WrapType DEF Reap, TypeOK
<1>11. CASE Kill \/ RoundDone
  BY <1>1, <1>11 DEF Kill, RoundDone, VictimWaits, TypeOK
<1>12. CASE Run \/ Destroy \/ \E h \in Handlers : SetHandler(h)
  BY <1>1, <1>12 DEF Run, Destroy, SetHandler, TypeOK
<1>13. CASE UNCHANGED vars
  BY <1>13 DEF vars, TypeOK
<1>14. QED
  BY <1>2, <1>3, <1>4, <1>5, <1>6, <1>7, <1>8, <1>9, <1>10, <1>11, <1>12, <1>13
  DEF Next, Receive, WorkerStep, Handler, HeartbeatThread

\* Start-up: no thread runs before Run() found everything set, and so no
\* handler is called that was not, and no null socket_.
LEMMA ReadyStep == IInv /\ [Next]_vars => RunningIsReady' /\ StartedComplete'
<1> SUFFICES ASSUME IInv, [Next]_vars PROVE RunningIsReady' /\ StartedComplete'
  OBVIOUS
<1> USE DEF IInv, RunningIsReady, StartedComplete, Goto, startup, reaper
<1>1. ASSUME NEW w \in Workers, Receive(w) \/ WorkerStep(w)
      PROVE  RunningIsReady' /\ StartedComplete'
  <2>1. hpc # "off" /\ UNCHANGED <<port, inited, hpc>>
    BY <1>1 DEF Receive, RecvShort, RecvSyn, RecvAck, RecvKnown, WorkerStep, StartWorker, Timeout,
                SendSynAck, ErasePending, InsertSession, Heartbeat, Data
  <2>2. ub' # "unset"
    BY <1>1, <2>1 DEF Receive, RecvShort, RecvSyn, RecvAck, RecvKnown, WorkerStep, StartWorker,
                      Timeout, SendSynAck, ErasePending, InsertSession, Heartbeat, Data
  <2>3. QED
    BY <2>1, <2>2
<1>2. ASSUME NEW w \in Workers, NEW k \in {"accept", "packet"}, RunHandler(w, k)
      PROVE  RunningIsReady' /\ StartedComplete'
  <2>1. hpc # "off" /\ UNCHANGED <<port, inited, hpc>>
    BY <1>2, ManagerAssumption DEF RunHandler, TypeOK
  <2>2. QED
    BY <1>2, <2>1 DEF RunHandler, Handlers
<1>3. CASE HeartbeatThread
  <2>1. hpc # "off" /\ hpc' # "off" /\ UNCHANGED <<port, inited>>
    BY <1>3 DEF HeartbeatThread, Sweep, Reap, Kill, RoundDone
  <2>2. ub' # "unset"
    BY <1>3, <2>1 DEF HeartbeatThread, Sweep, Reap, Kill, RoundDone, Handlers
  <2>3. QED
    BY <2>1, <2>2
<1>4. CASE Run
  BY <1>4 DEF Run, Ready, Handlers
<1>5. ASSUME NEW h \in Handlers, SetHandler(h) PROVE RunningIsReady' /\ StartedComplete'
  BY <1>5 DEF SetHandler, Handlers
<1>6. CASE Destroy \/ UNCHANGED vars
  BY <1>6 DEF Destroy, vars
<1>7. QED
  BY <1>1, <1>2, <1>3, <1>4, <1>5, <1>6 DEF Next, Handler

\* Steps that only move workers keep Pointers if their new cur was made.
LEMMA PointersFrame ==
  ASSUME Pointers, UNCHANGED <<made, endpoint, pending, sessions, disconnected, deleted>>,
         \A w \in Workers : pc'[w] \in Holding => cur'[w] \in 1..made
  PROVE  Pointers'
BY DEF Pointers

\* Pointers lead to objects that were made, under their own endpoint.
LEMMA PointersStep == IInv /\ [Next]_vars => Pointers'
<1> SUFFICES ASSUME IInv, [Next]_vars PROVE Pointers'
  OBVIOUS
<1> USE DEF IInv, Sessions, Nobody, Goto, Top, objects, maps, startup, reaper
<1>1. ASSUME NEW w \in Workers,
             StartWorker(w) \/ Timeout(w) \/ RecvShort(w) \/ SendSynAck(w) \/ Heartbeat(w) \/ Data(w)
      PROVE  Pointers'
  <2>1. /\ UNCHANGED <<made, endpoint, pending, sessions, disconnected, deleted, cur>>
        /\ pc' = [pc EXCEPT ![w] = Top]
    BY <1>1 DEF StartWorker, Timeout, RecvShort, SendSynAck, Heartbeat, Data, Increment
  <2>2. \A v \in Workers : pc'[v] \in Holding => cur'[v] \in 1..made
    BY <2>1 DEF Pointers, Holding, TypeOK
  <2>3. QED
    BY <2>1, <2>2, PointersFrame
<1>2. ASSUME NEW w \in Workers, NEW e \in Endpoints, RecvSyn(w, e)
      PROVE  Pointers'
  BY <1>2 DEF RecvSyn, Insert, Pointers, Holding, TypeOK
<1>3. ASSUME NEW w \in Workers, NEW e \in Endpoints,
             RecvAck(w, e) \/ \E kind \in Kinds : RecvKnown(w, e, kind)
      PROVE  Pointers'
  <2>1. UNCHANGED <<made, endpoint, pending, sessions, disconnected, deleted>>
    BY <1>3 DEF RecvAck, RecvKnown
  <2>2. \/ pc' = [pc EXCEPT ![w] = Top] /\ cur' = cur
        \/ /\ \E to \in {"erase"} \cup Kinds : pc' = [pc EXCEPT ![w] = to]
           /\ \E x \in {pending[e], sessions[e]} \ {Nobody} : cur' = [cur EXCEPT ![w] = x]
    BY <1>3 DEF RecvAck, RecvKnown
  <2>3. \A v \in Workers : pc'[v] \in Holding => cur'[v] \in 1..made
    BY <2>2 DEF Pointers, Holding, TypeOK
  <2>4. QED
    BY <2>1, <2>3, PointersFrame
<1>4. ASSUME NEW w \in Workers, ErasePending(w)
      PROVE  Pointers'
  <2>1. pending' \in {pending, [pending EXCEPT ![endpoint[cur[w]]] = Nobody]}
    BY <1>4 DEF ErasePending
  <2>2. UNCHANGED <<made, endpoint, sessions, disconnected, deleted, cur>> /\ pc[w] = "erase"
    BY <1>4 DEF ErasePending
  <2>3. \A v \in Workers : pc'[v] \in Holding => cur'[v] \in 1..made
    BY <1>4, <2>2 DEF ErasePending, Pointers, Holding, TypeOK
  <2>4. \A f \in Endpoints : pending'[f] \in {pending[f], Nobody}
    BY <2>1 DEF TypeOK
  <2>5. QED
    BY <2>2, <2>3, <2>4 DEF Pointers
<1>5. ASSUME NEW w \in Workers, InsertSession(w)
      PROVE  Pointers'
  BY <1>5 DEF InsertSession, Insert, Pointers, Holding, TypeOK
<1>6. CASE Sweep
  <2>1. {sessions[e] : e \in Endpoints} \ {Nobody} \subseteq 1..made
    BY DEF Pointers
  <2>2. disconnected' \subseteq 1..made
    BY <1>6, <2>1 DEF Sweep, Appended, Pointers
  <2>3. \A e \in Endpoints : sessions'[e] \in {sessions[e], Nobody}
    BY <1>6 DEF Sweep
  <2>4. UNCHANGED <<made, endpoint, pending, deleted, pc, cur>>
    BY <1>6 DEF Sweep
  <2>5. QED
    BY <2>2, <2>3, <2>4 DEF Pointers
<1>7. CASE Kill
  <2>1. disconnected' \subseteq 1..made /\ deleted' \subseteq 1..made
    BY <1>7 DEF Kill, VictimWaits, Pointers
  <2>2. QED
    BY <1>7, <2>1 DEF Kill, Pointers
<1>8. CASE Run
  BY <1>8 DEF Run, Pointers, Holding
<1>9. CASE UNCHANGED <<made, endpoint, pending, sessions, disconnected, deleted, pc, cur>>
  BY <1>9 DEF Pointers
<1>10. QED
  BY <1>1, <1>2, <1>3, <1>4, <1>5, <1>6, <1>7, <1>8, <1>9
  DEF Next, Receive, WorkerStep, Handler, RunHandler, HeartbeatThread, Reap, RoundDone, Destroy,
      SetHandler, vars

\* The victim waits in the vector for Kill.
LEMMA VictimStep == IInv /\ [Next]_vars => VictimWaits'
<1> SUFFICES ASSUME IInv, [Next]_vars PROVE VictimWaits'
  OBVIOUS
<1> USE DEF IInv, VictimWaits, Nobody, Goto, objects, maps, startup, reaper
<1>1. ASSUME NEW s \in Sessions, Reap(s) PROVE VictimWaits'
  BY <1>1 DEF Reap, TypeOK
<1>2. CASE Sweep \/ Kill \/ RoundDone \/ Run
  BY <1>2 DEF Sweep, Kill, RoundDone, Run, RunningIsReady
<1>3. CASE UNCHANGED reaper
  BY <1>3
<1>4. QED
  BY <1>1, <1>2, <1>3
  DEF Next, Receive, RecvShort, RecvSyn, RecvAck, RecvKnown, WorkerStep, StartWorker, Timeout,
      SendSynAck, ErasePending, InsertSession, Heartbeat, Data, Handler, RunHandler,
      HeartbeatThread, Destroy, SetHandler, vars

\* Every step starts without undefined behaviour.
LEMMA NextDefined == Next => ub = "none"
BY DEF Next, Receive, RecvShort, RecvSyn, RecvAck, RecvKnown, WorkerStep, StartWorker, Timeout,
       SendSynAck, ErasePending, InsertSession, Heartbeat, Data, Handler, RunHandler,
       HeartbeatThread, Sweep, Reap, Kill, RoundDone, Run, Destroy, SetHandler, Goto

\* A session is in one place: the moves between the places keep it so.
LEMMA ApartStep == IInv /\ [Next]_vars => Apart'
<1> SUFFICES ASSUME IInv, Next, ub' = "none" PROVE Apart'
  <2>1. CASE UNCHANGED vars
    BY <2>1 DEF IInv, Apart, vars
  <2>2. QED
    BY <2>1 DEF Apart
<1> USE DEF IInv, Sessions, Nobody, Goto, Top, objects, maps, startup, reaper
<1>1. ub = "none"
  BY NextDefined
<1>2. ASSUME NEW w \in Workers, NEW e \in Endpoints, RecvSyn(w, e)
      PROVE  Apart'
  BY <1>1, <1>2 DEF RecvSyn, Insert, Pointers, Holding, Apart, TypeOK
<1>3. ASSUME NEW w \in Workers, ErasePending(w)
      PROVE  Apart'
  <2>1. /\ pc[w] = "erase" /\ pc' = [pc EXCEPT ![w] = "insert"]
        /\ pending[endpoint[cur[w]]] = cur[w]
        /\ pending' = [pending EXCEPT ![endpoint[cur[w]]] = Nobody]
        /\ UNCHANGED <<sessions, disconnected, deleted, cur>>
    BY <1>1, <1>3 DEF ErasePending, Valid
  <2>2. cur[w] \in 1..made /\ endpoint[cur[w]] \in Endpoints
    BY <2>1 DEF Pointers, Holding
  <2>3. \A f \in Endpoints : pending'[f] # cur[w]
    BY <2>1, <2>2 DEF Pointers, TypeOK
  <2>4. \A f \in Endpoints : pending'[f] \in {pending[f], Nobody}
    BY <2>1 DEF TypeOK
  <2>5. \A v \in Workers \ {w} : pc[v] = "insert" => cur[v] # cur[w]
    BY <1>1, <2>1, <2>2 DEF Apart
  <2>6. 0 \notin disconnected \cup deleted
    BY DEF Pointers
  <2>7. /\ \A e, f \in Endpoints : pending'[e] # Nobody => pending'[e] # sessions'[f]
        /\ \A e \in Endpoints : /\ pending'[e] \notin disconnected' \cup deleted'
                                /\ sessions'[e] \notin disconnected' \cup deleted'
        /\ disconnected' \cap deleted' = {}
    BY <1>1, <2>1, <2>4, <2>6 DEF Apart
  <2>8. /\ cur[w] \notin disconnected \cup deleted
        /\ \A f \in Endpoints : cur[w] # pending'[f] /\ cur[w] # sessions[f]
    BY <1>1, <2>1, <2>2, <2>3 DEF Apart
  <2>9. \A v \in Workers \ {w} : pc'[v] = "insert" =>
          /\ pc[v] = "insert" /\ cur[v] # cur[w] /\ cur[v] \notin disconnected \cup deleted
          /\ \A f \in Endpoints : cur[v] # pending'[f] /\ cur[v] # sessions[f]
    <3>1. \A v \in Workers \ {w} : pc'[v] = "insert" => pc[v] = "insert" /\ cur[v] # 0
      BY <2>1 DEF TypeOK, Pointers, Holding
    <3>2. QED
      BY <1>1, <2>4, <2>5, <3>1 DEF Apart
  <2>10. \A u, v \in Workers : u # v /\ pc'[u] = "insert" /\ pc'[v] = "insert" => cur[u] # cur[v]
    BY <1>1, <2>9 DEF Apart
  <2>11. QED
    BY <2>1, <2>7, <2>8, <2>9, <2>10 DEF Apart
<1>4. ASSUME NEW w \in Workers, InsertSession(w)
      PROVE  Apart'
  <2>1. /\ pc[w] = "insert" /\ pc' = [pc EXCEPT ![w] = Top]
        /\ UNCHANGED <<pending, disconnected, deleted, cur>>
    BY <1>4 DEF InsertSession
  <2>2. cur[w] \in 1..made /\ endpoint[cur[w]] \in Endpoints
    BY <2>1 DEF Pointers, Holding
  <2>3. \A f \in Endpoints : sessions'[f] \in {sessions[f], cur[w]}
    BY <1>4 DEF InsertSession, Insert, TypeOK
  <2>4. \A v \in Workers : pc'[v] = "insert" => v # w /\ pc[v] = "insert"
    BY <2>1 DEF TypeOK
  <2>5. QED
    BY <1>1, <2>1, <2>2, <2>3, <2>4 DEF Apart
<1>5. CASE Sweep
  <2>1. UNCHANGED <<pending, deleted, pc, cur>>
    BY <1>5 DEF Sweep
  <2>2. \A e \in Endpoints : /\ sessions'[e] \in {sessions[e], Nobody}
                             /\ sessions'[e] # Nobody => sessions'[e] \notin disconnected'
    BY <1>1, <1>5 DEF Sweep, Appended, Apart
  <2>3. \A s \in disconnected' \ disconnected : s # Nobody /\ \E e \in Endpoints : sessions[e] = s
    BY <1>5 DEF Sweep, Appended
  <2>4. 0 \notin disconnected' \cup deleted
    BY <2>3 DEF Pointers
  <2>5. /\ \A e, f \in Endpoints : pending'[e] # Nobody => pending'[e] # sessions'[f]
        /\ \A e \in Endpoints : /\ pending'[e] \notin disconnected' \cup deleted'
                                /\ sessions'[e] \notin disconnected' \cup deleted'
    BY <1>1, <2>1, <2>2, <2>3, <2>4 DEF Apart
  <2>6. \A w \in Workers : pc'[w] = "insert" =>
          /\ cur'[w] \notin disconnected' \cup deleted'
          /\ \A e \in Endpoints : cur'[w] # pending'[e] /\ cur'[w] # sessions'[e]
          /\ \A v \in Workers \ {w} : pc'[v] = "insert" => cur'[v] # cur'[w]
    <3>1. \A w \in Workers : pc[w] = "insert" => cur[w] # Nobody
      BY DEF Pointers, Holding
    <3>2. QED
      BY <1>1, <2>1, <2>2, <2>3, <3>1 DEF Apart
  <2>7. disconnected' \cap deleted' = {}
    BY <1>1, <2>1, <2>3 DEF Apart
  <2>8. QED
    BY <2>5, <2>6, <2>7 DEF Apart
<1>6. CASE Kill
  BY <1>1, <1>6 DEF Kill, VictimWaits, Apart
<1>7. ASSUME UNCHANGED <<pending, sessions, disconnected, deleted>>,
             \A w \in Workers : pc'[w] = "insert" => pc[w] = "insert" /\ cur'[w] = cur[w]
      PROVE  Apart'
  BY <1>1, <1>7 DEF Apart
<1>8. ASSUME NEW w \in Workers, RecvShort(w) \/ StartWorker(w) \/ Timeout(w) \/ SendSynAck(w)
                                \/ Heartbeat(w) \/ Data(w)
      PROVE  Apart'
  <2>1. pc' = [pc EXCEPT ![w] = Top] /\ UNCHANGED <<pending, sessions, disconnected, deleted, cur>>
    BY <1>8 DEF RecvShort, StartWorker, Timeout, SendSynAck, Heartbeat, Data
  <2>2. QED
    BY <1>7, <2>1 DEF TypeOK
<1>9. ASSUME NEW w \in Workers, NEW e \in Endpoints,
             RecvAck(w, e) \/ \E kind \in Kinds : RecvKnown(w, e, kind)
      PROVE  Apart'
  <2>1. /\ UNCHANGED <<pending, sessions, disconnected, deleted>>
        /\ \E to \in {Top, "erase"} \cup Kinds : pc' = [pc EXCEPT ![w] = to]
        /\ \E x \in {cur[w], pending[e], sessions[e]} : cur' = [cur EXCEPT ![w] = x]
    BY <1>9 DEF RecvAck, RecvKnown, TypeOK
  <2>2. \A v \in Workers : pc'[v] = "insert" => pc[v] = "insert" /\ cur'[v] = cur[v]
    BY <2>1, ManagerAssumption DEF TypeOK
  <2>3. QED
    BY <1>7, <2>1, <2>2
<1>10. CASE Run
  BY <1>7, <1>10 DEF Run
<1>11. CASE UNCHANGED <<pending, sessions, disconnected, deleted, pc, cur>>
  BY <1>7, <1>11
<1>12. QED
  BY <1>2, <1>3, <1>4, <1>5, <1>6, <1>8, <1>9, <1>10, <1>11
  DEF Next, Receive, WorkerStep, Handler, RunHandler, HeartbeatThread, Reap, RoundDone, Destroy,
      SetHandler

\* A counter is stepped by one worker or by the heartbeat thread, and what it
\* then is depends on whether it overflowed.
LEMMA CountersStep == IInv /\ [Next]_vars => Counters' /\ ReaperNeverMisses'
<1> SUFFICES ASSUME IInv, [Next]_vars PROVE Counters' /\ ReaperNeverMisses'
  OBVIOUS
<1> USE DEF IInv, Nobody, objects, maps, startup, reaper
<1>1. \A s \in Sessions : isAlive[s] \in -Half .. Half - 1 /\ isAlive[s] \in Int
  BY ManagerAssumption DEF TypeOK
<1>2. ASSUME NEW w \in Workers, Heartbeat(w) \/ Data(w)
      PROVE  Counters' /\ ReaperNeverMisses'
  <2>1. CASE UNCHANGED <<isAlive, heard, wrapped>>
    BY <1>2, <2>1 DEF Heartbeat, Data, Counters, ReaperNeverMisses
  <2>2. CASE Increment(cur[w])
    <3>1. cur[w] \in Sessions
      BY <1>2 DEF Heartbeat, Data, Goto, Pointers, Holding, TypeOK, Sessions
    <3>2. /\ isAlive'[cur[w]] = Wrap(isAlive[cur[w]] + 1)
          /\ \A s \in Sessions \ {cur[w]} : isAlive'[s] = isAlive[s]
      BY <2>2, <3>1 DEF Increment, TypeOK
    <3>3. cur[w] \notin wrapped' => isAlive'[cur[w]] = isAlive[cur[w]] + 1 /\ cur[w] \notin wrapped
      BY <1>1, <2>2, <3>1, <3>2, WrapStep DEF Increment
    <3>4. heard' = heard \cup {cur[w]} /\ wrapped \subseteq wrapped'
      BY <2>2 DEF Increment
    <3>5. UNCHANGED <<disconnected, deleted, victim>>
      BY <1>2 DEF Heartbeat, Data
    <3>6. Counters'
      BY <1>1, <3>1, <3>2, <3>3, <3>4, <3>5 DEF Counters
    <3>7. ReaperNeverMisses'
      BY <1>1, <3>1, <3>2, <3>3, <3>4, <3>5 DEF ReaperNeverMisses, TypeOK
    <3>8. QED
      BY <3>6, <3>7
  <2>3. QED
    BY <1>2, <2>1, <2>2 DEF Heartbeat, Data
<1>3. CASE Sweep
  <2>1. ub = "none"
    BY <1>3 DEF Sweep
  <2> DEFINE in == {sessions[e] : e \in Endpoints} \ {Nobody}
  <2>2. in \subseteq Sessions /\ in \cap (disconnected \cup deleted) = {}
    BY <2>1 DEF Apart, Pointers, TypeOK
  <2>3. \A s \in Sessions : isAlive'[s] = IF s \in in THEN Wrap(isAlive[s] - 1) ELSE isAlive[s]
    BY <1>3 DEF Sweep
  <2>4. \A s \in in \ wrapped' : isAlive'[s] = isAlive[s] - 1
    BY <1>1, <1>3, <2>2, <2>3, WrapStep DEF Sweep
  <2>5. /\ wrapped \subseteq wrapped' /\ heard' = {} /\ UNCHANGED <<deleted, victim>>
        /\ disconnected' = disconnected \cup {s \in in : isAlive'[s] < -1}
    <3>1. {s \in in : Silent(s)} = {s \in in : isAlive'[s] < -1}
      BY <2>2, <2>3 DEF Silent
    <3>2. QED
      BY <1>3, <3>1 DEF Sweep, Appended
  <2>6. Counters'
    BY <1>1, <2>2, <2>3, <2>4, <2>5 DEF Counters
  <2>7. ReaperNeverMisses'
    BY <1>1, <2>2, <2>3, <2>4, <2>5 DEF Counters, ReaperNeverMisses, TypeOK
  <2>8. QED
    BY <2>6, <2>7
<1>4. ASSUME NEW s \in Sessions, Reap(s) PROVE Counters' /\ ReaperNeverMisses'
  <2>1. /\ s \in disconnected /\ victim = Nobody
        /\ isAlive' = [isAlive EXCEPT ![s] = Wrap(@ - 1)]
        /\ victim' = IF Wrap(isAlive[s] - 1) = -3 THEN s ELSE Nobody
        /\ UNCHANGED <<disconnected, deleted, heard, wrapped>>
    BY <1>4 DEF Reap, Hit, TypeOK
  <2>2. Counters'
    BY <2>1 DEF Counters, TypeOK
  <2>3. s \notin wrapped => isAlive[s] >= -2 /\ Wrap(isAlive[s] - 1) = isAlive[s] - 1
    BY <1>1, <2>1, WrapStep, ManagerAssumption DEF ReaperNeverMisses, Sessions
  <2>4. ReaperNeverMisses'
    BY <1>1, <2>1, <2>3 DEF ReaperNeverMisses, TypeOK, Sessions
  <2>5. QED
    BY <2>2, <2>4
<1>5. CASE Kill
  BY <1>5 DEF Kill, VictimWaits, Counters, ReaperNeverMisses
<1>6. CASE UNCHANGED <<isAlive, heard, wrapped, disconnected, deleted, victim>>
  BY <1>6 DEF Counters, ReaperNeverMisses
<1>7. QED
  BY <1>2, <1>3, <1>4, <1>5, <1>6
  DEF Next, Receive, RecvShort, RecvSyn, RecvAck, RecvKnown, WorkerStep, StartWorker, Timeout,
      SendSynAck, ErasePending, InsertSession, Handler, RunHandler,
      HeartbeatThread, RoundDone, Run, Destroy, SetHandler, vars
-----------------------------------------------------------------------------
(* The results.                                                            *)

\* The invariant holds in every state the manager reaches.
THEOREM Invariance == Spec => []IInv
<1>1. IInv /\ [Next]_vars => IInv'
  <2>1. IInv /\ [Next]_vars => PostedByIdle'
    BY PostedStep DEF IInv
  <2>2. QED
    BY <2>1, TypeStep, ReadyStep, PointersStep, VictimStep, ApartStep, CountersStep DEF IInv
<1>2. QED
  BY <1>1, InitIInv, PTL DEF Spec

\* Types: among them, that no more receives are outstanding, or lost, than there
\* are workers, and that is_alive_ stays a short.
THEOREM TypeCorrect == Spec => []TypeOK
BY Invariance, PTL DEF IInv

\* Receives are conserved: as long as nothing undefined has happened, each worker
\* that waits at the port or has left stands for exactly one receive, outstanding
\* or lost.
THEOREM ReceivesConserved ==
  Spec => [](ub = "none" =>
               posted + lapsed = Cardinality({w \in Workers : pc[w] \in {"wait", "exited"}}))
<1>1. IInv => (ub = "none" =>
               posted + lapsed = Cardinality({w \in Workers : pc[w] \in {"wait", "exited"}}))
  BY DEF IInv, PostedByIdle, Idle
<1>2. QED
  BY <1>1, Invariance, PTL

\* No thread calls a handler that was never set or goes through a null socket_,
\* whatever order the setters and Run() are called in.
THEOREM StartedCompleteAlways == Spec => []StartedComplete
BY Invariance, PTL DEF IInv

\* The `== -3` test of the heartbeat thread misses no session that has left
\* sessions_, however workers count it up meanwhile.
THEOREM ReaperAlwaysHits == Spec => []ReaperNeverMisses
BY Invariance, PTL DEF IInv

\* A session is in at most one of pending_sessions_, a worker's hands, sessions_
\* and the vector, and a deleted one in none.
THEOREM OneOwnerAlways == Spec => []OneOwner
<1>1. IInv => OneOwner
  <2> SUFFICES ASSUME IInv, ub = "none" PROVE OneOwner
    BY DEF OneOwner
  <2> USE DEF IInv, Nobody
  <2>1. \A e \in Endpoints, s \in Sessions : s \in {pending[e], sessions[e]} => endpoint[s] = e
    BY DEF Pointers, Sessions
  <2>2. Mapped(pending) \cap (Moving \cup Mapped(sessions) \cup disconnected) = {}
    BY DEF Apart, Mapped, Moving
  <2>3. Moving \cap (Mapped(sessions) \cup disconnected) = {}
    BY DEF Apart, Mapped, Moving
  <2>4. Mapped(sessions) \cap disconnected = {}
    BY DEF Apart, Mapped
  <2>5. Known \cap deleted = {}
    BY DEF Apart, Mapped, Moving, Known
  <2>6. victim # Nobody => victim \in disconnected
    BY DEF VictimWaits
  <2>7. QED
    BY <2>1, <2>2, <2>3, <2>4, <2>5, <2>6 DEF OneOwner
<1>2. QED
  BY <1>1, Invariance, PTL

\* Only Sweep takes a session out of sessions_.
LEMMA SessionsKept ==
  ASSUME IInv, [Next]_vars, ~Sweep
  PROVE  \A e \in Endpoints : sessions[e] # Nobody => sessions'[e] = sessions[e]
<1>1. CASE UNCHANGED sessions
  BY <1>1
<1>2. ASSUME NEW w \in Workers, InsertSession(w)
      PROVE  \A e \in Endpoints : sessions[e] # Nobody => sessions'[e] = sessions[e]
  BY <1>2 DEF InsertSession, Insert, IInv, TypeOK
<1>3. QED
  BY <1>1, <1>2
  DEF Next, Receive, RecvShort, RecvSyn, RecvAck, RecvKnown, WorkerStep, StartWorker, Timeout,
      SendSynAck, ErasePending, Heartbeat, Data, Handler, RunHandler, HeartbeatThread, Reap, Kill,
      RoundDone, Run, Destroy, SetHandler, vars, maps

\* A client heard from since the last check survives the next one.
THEOREM HeardAlwaysStays == Spec => HeardStaysConnected
<1>1. IInv /\ [Next]_vars =>
        [\A s \in heard \ wrapped : s \in Mapped(sessions) => s \in Mapped(sessions')]_vars
  <2> SUFFICES ASSUME IInv, [Next]_vars, NEW s \in heard \ wrapped, s \in Mapped(sessions)
               PROVE  s \in Mapped(sessions')
    OBVIOUS
  <2>1. PICK e \in Endpoints : sessions[e] = s /\ s # Nobody
    BY DEF Mapped
  <2>2. CASE ~Sweep
    BY <2>1, <2>2, SessionsKept DEF Mapped
  <2>3. CASE Sweep
    <3>1. ub = "none"
      BY <2>3 DEF Sweep
    <3>2. s \in Sessions /\ s \notin disconnected \cup deleted
      BY <2>1, <3>1 DEF IInv, Apart, TypeOK
    <3>3. isAlive[s] >= 0 /\ isAlive[s] \in -Half .. Half - 1
      BY <3>2 DEF IInv, Counters, TypeOK
    <3>4. ~Silent(s)
      BY <3>3, WrapStep, ManagerAssumption DEF Silent
    <3>5. sessions'[e] = s
      BY <2>1, <2>3, <3>4 DEF Sweep
    <3>6. QED
      BY <2>1, <3>5 DEF Mapped
  <2>4. QED
    BY <2>2, <2>3
<1>2. QED
  BY <1>1, Invariance, PTL DEF Spec, HeardStaysConnected

\* A step that keeps the maps, the vector and the deleted ones, and takes no
\* worker out of the "insert" branch, loses nothing.
LEMMA NothingLost ==
  ASSUME UNCHANGED <<made, pending, sessions, disconnected, deleted>>,
         \A w \in Workers : pc[w] = "insert" => pc'[w] = "insert" /\ cur'[w] = cur[w]
  PROVE  Lost' \subseteq Lost
<1>1. Moving \subseteq Moving'
  BY DEF Moving
<1>2. Known \subseteq Known'
  BY <1>1 DEF Known, Mapped
<1>3. QED
  BY <1>2 DEF Lost

\* The manager only loses track of a Session object when insert() found its
\* endpoint taken.
THEOREM LostIsDuplicate == Spec => LostOnlyAsDuplicate
<1> DEFINE Duplicate == \A s \in Lost' \ Lost :
             IF s > made THEN pending[endpoint'[s]] # Nobody ELSE sessions[endpoint[s]] # Nobody
<1>1. IInv /\ [Next]_vars => [Duplicate]_vars
  <2> SUFFICES ASSUME IInv, Next PROVE Duplicate
    OBVIOUS
  <2> USE DEF IInv, Sessions, Nobody, Goto, Top, objects, maps, startup, reaper
  <2>1. ASSUME Lost' \subseteq Lost PROVE Duplicate
    BY <2>1
  <2>2. ASSUME NEW w \in Workers, NEW e \in Endpoints, RecvSyn(w, e) PROVE Duplicate
    <3>1. /\ made' = made + 1 /\ endpoint'[made + 1] = e /\ made \in Nat
          /\ UNCHANGED <<sessions, disconnected, deleted>>
      BY <2>2 DEF RecvSyn, TypeOK
    <3>2. \A f \in Endpoints : pending[f] # Nobody => pending'[f] = pending[f]
      BY <2>2 DEF RecvSyn, Insert, TypeOK
    <3>3. Moving \subseteq Moving'
      BY <2>2 DEF RecvSyn, Moving, TypeOK
    <3>4. Known \subseteq Known'
      BY <3>1, <3>2, <3>3 DEF Known, Mapped
    <3>5. pending[e] = Nobody => made + 1 \in Known'
      BY <2>2, <3>1 DEF RecvSyn, Insert, Known, Mapped, TypeOK
    <3>6. \A s \in Lost' \ Lost : s = made + 1 /\ s \notin Known'
      BY <3>1, <3>4 DEF Lost
    <3>7. QED
      BY <3>1, <3>5, <3>6
  <2>3. ASSUME NEW w \in Workers, ErasePending(w) PROVE Duplicate
    <3>1. /\ pc' = [pc EXCEPT ![w] = "insert"] /\ pc[w] = "erase"
          /\ pending' \in {pending, [pending EXCEPT ![endpoint[cur[w]]] = Nobody]}
          /\ UNCHANGED <<made, endpoint, sessions, disconnected, deleted, cur>>
          /\ pending' # pending => pending[endpoint[cur[w]]] = cur[w]
      BY <2>3 DEF ErasePending, Valid
    <3>2. Moving \cup {cur[w]} \subseteq Moving'
      BY <3>1 DEF Moving, TypeOK
    <3>3. \A f \in Endpoints : pending'[f] # pending[f] => pending[f] = cur[w]
      BY <3>1 DEF TypeOK
    <3>4. Known \subseteq Known'
      BY <3>1, <3>2, <3>3 DEF Known, Mapped
    <3>5. QED
      BY <2>1, <3>1, <3>4 DEF Lost
  <2>4. ASSUME NEW w \in Workers, InsertSession(w) PROVE Duplicate
    <3>1. UNCHANGED <<made, endpoint, pending, disconnected, deleted, cur>> /\ pc[w] = "insert"
      BY <2>4 DEF InsertSession
    <3>2. cur[w] \in 1..made /\ endpoint[cur[w]] \in Endpoints
      BY <3>1 DEF Pointers, Holding
    <3>3. Moving \ {cur[w]} \subseteq Moving'
      BY <2>4, <3>1 DEF InsertSession, Moving, TypeOK
    <3>4. \A f \in Endpoints : sessions[f] # Nobody => sessions'[f] = sessions[f]
      BY <2>4 DEF InsertSession, Insert, TypeOK
    <3>5. Known \ {cur[w]} \subseteq Known'
      BY <3>1, <3>3, <3>4 DEF Known, Mapped
    <3>6. sessions[endpoint[cur[w]]] = Nobody => cur[w] \in Known'
      BY <2>4, <3>2 DEF InsertSession, Insert, Known, Mapped, TypeOK
    <3>7. \A s \in Lost' \ Lost : s = cur[w] /\ s \notin Known'
      BY <3>1, <3>5 DEF Lost
    <3>8. QED
      BY <3>2, <3>6, <3>7 DEF TypeOK
  <2>5. CASE Sweep
    <3>1. UNCHANGED <<made, pending, deleted, pc, cur>> /\ disconnected \subseteq disconnected'
      BY <2>5 DEF Sweep, Appended
    <3>2. \A f \in Endpoints : sessions[f] # Nobody =>
            sessions'[f] = sessions[f] \/ sessions[f] \in disconnected'
      BY <2>5 DEF Sweep, Appended
    <3>3. Known \subseteq Known'
      BY <3>1, <3>2 DEF Known, Mapped, Moving
    <3>4. QED
      BY <2>1, <3>1, <3>3 DEF Lost
  <2>6. CASE Kill
    BY <2>1, <2>6 DEF Kill, Lost, Known, Mapped, Moving
  <2>7. ASSUME NEW w \in Workers, RecvShort(w) \/ StartWorker(w) \/ Timeout(w) \/ SendSynAck(w)
                                  \/ Heartbeat(w) \/ Data(w)
        PROVE  Lost' \subseteq Lost
    <3>1. /\ pc' = [pc EXCEPT ![w] = Top] /\ pc[w] # "insert"
          /\ UNCHANGED <<made, pending, sessions, disconnected, deleted, cur>>
      BY <2>7 DEF RecvShort, StartWorker, Timeout, SendSynAck, Heartbeat, Data
    <3>2. QED
      BY <3>1, NothingLost DEF TypeOK
  <2>8. ASSUME NEW w \in Workers, NEW e \in Endpoints,
               RecvAck(w, e) \/ \E kind \in Kinds : RecvKnown(w, e, kind)
        PROVE  Lost' \subseteq Lost
    <3>1. /\ UNCHANGED <<made, pending, sessions, disconnected, deleted>> /\ pc[w] = "wait"
          /\ \E to : pc' = [pc EXCEPT ![w] = to]
          /\ \E x : cur' = [cur EXCEPT ![w] = x]
      BY <2>8 DEF RecvAck, RecvKnown, TypeOK
    <3>2. QED
      BY <3>1, NothingLost DEF TypeOK
  <2>9. CASE Run
    BY <2>1, <2>9, NothingLost DEF Run, RunningIsReady
  <2>10. CASE UNCHANGED <<made, pending, sessions, disconnected, deleted, pc, cur>>
    BY <2>1, <2>10, NothingLost
  <2>11. QED
    BY <2>1, <2>2, <2>3, <2>4, <2>5, <2>6, <2>7, <2>8, <2>9, <2>10
    DEF Next, Receive, WorkerStep, Handler, RunHandler, HeartbeatThread, Reap, RoundDone, Destroy,
        SetHandler
<1>2. QED
  BY <1>1, Invariance, PTL DEF Spec, LostOnlyAsDuplicate
=============================================================================
