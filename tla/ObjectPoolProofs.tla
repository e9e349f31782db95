-------------------------- MODULE ObjectPoolProofs --------------------------
(***************************************************************************)
(* Proofs about the pools, for any number of threads, chunks, block sizes  *)
(* and ends of threads.                                                    *)
(*                                                                         *)
(* What the properties say of a free list they say of Reach, the links     *)
(* followed from head_; no step of the code can be followed through it.    *)
(* The invariant describes the lists from outside instead: there are own   *)
(* and pos such that own[c] is the pool that chunk c is free in (0 if      *)
(* none), and pos[c] its place there, which grows by one along each link.  *)
(* A push takes the place before the first, an append the place behind the *)
(* last, a new block the places before that of tail_.  FreeListIs shows    *)
(* that Reach finds exactly the chunks with own[c] = p: a list has no more *)
(* places than there are chunks.                                           *)
(*                                                                         *)
(* All of that is said of Tame states.  Once chunks were passed between    *)
(* plain pools and the memory of one went back, ::malloc may provide again *)
(* an address that is still in a list: then only Basic is left.            *)
(***************************************************************************)
EXTENDS ObjectPool, SetInduction, FiniteSetTheorems

\* A pool with blocks.
Live(p) == blocks[p] # {}

\* The numbers of pools: given once, to one thread each.
Numbers ==
  /\ \A t \in Threads : threadId[t] <= threadIdCounter
  /\ \A t, u \in Threads : threadId[t] = threadId[u] /\ threadId[t] # 0 => t = u
  /\ \A p \in Pools : p > threadIdCounter => tail[p] = Null
  /\ threadIdCounter = exits + Cardinality({t \in Threads : threadId[t] # 0})

\* Only threads with a pool are in its code, and chunks with a number return to
\* the pool of that number.
Steps ==
  /\ Tagged => ~crossed
  /\ \A t \in Threads : /\ threadId[t] = 0 => pc[t] = "idle"
                        /\ pc[t] = "publish" => Tagged

\* What the variables hold, whatever was done with the chunks.
Basic == Types /\ Numbers /\ Steps /\ OverrunNeedsTurnover

\* No chunk is with the application twice.
Typed == Types /\ held \in [Chunks -> {0, 1}]

\* Where the threads are.
Positions ==
  /\ Steps
  /\ \A t \in Threads :
       /\ pc[t] # "publish" => arg[t] = Null
       /\ pc[t] = "pop" => head[threadId[t]] # tail[threadId[t]]
       /\ pc[t] = "grow" => \/ Live(threadId[t])
                            \/ tail[threadId[t]] = Null /\ head[threadId[t]] = Null
       /\ pc[t] = "publish" => /\ arg[t] \in Chunks
                               /\ lockTail[tag[arg[t]]] = t
                               /\ next[tail[tag[arg[t]]]] = arg[t]

\* The chunks on their way are with nobody, and nobody has memory outside of
\* the blocks.
Exclusive ==
  /\ \A t \in Threads : arg[t] \in Chunks => held[arg[t]] = 0
  /\ InUse \subseteq Provided

\* As long as no pool was purged and no chunk went to a strange pool, a pool
\* without blocks is one that was not used yet or whose thread is gone.
Unused ==
  Sound => /\ crashed # "link"
           /\ \A p \in Pools : ~Live(p) => head[p] = Null
           /\ \A t \in Threads : threadId[t] # 0 /\ ~Live(threadId[t]) => tail[threadId[t]] = Null
           /\ \A t \in Threads : pc[t] = "pop" => Live(threadId[t])

\* The free lists, given by the pool that each chunk is free in (0 if none) and
\* its place: own[c] and pos[c].
Heads(own, pos) ==
  \A p \in Pools :
    IF head[p] = Null THEN \A c \in Chunks : own[c] # p
    ELSE /\ head[p] \in Chunks /\ own[head[p]] = p
         /\ \A c \in Chunks : own[c] = p => pos[head[p]] <= pos[c]

Tails(own) ==
  \A p \in Pools :
    IF Live(p) THEN tail[p] \in Chunks /\ own[tail[p]] = p
    ELSE purges = 0 /\ exits = 0 => tail[p] = Null

Places(own, pos) ==
  \A c, d \in Chunks : own[c] = own[d] /\ own[c] # 0 /\ pos[c] = pos[d] => c = d

\* A chunk is linked to the next one, or it is the last.
Links(own, pos) ==
  \A c \in Chunks : own[c] # 0 =>
    \/ /\ c # tail[own[c]] /\ next[c] \in Chunks
       /\ own[next[c]] = own[c] /\ pos[next[c]] = pos[c] + 1
    \/ /\ \A d \in Chunks : own[d] = own[c] => pos[d] <= pos[c]
       /\ IF Live(own[c]) THEN c = tail[own[c]] ELSE next[c] = Null

\* Free chunks are with nobody, in the blocks, and in those of their pool.
Free(own) ==
  \A c \in Chunks : own[c] # 0 =>
    /\ c \in Provided /\ held[c] = 0 /\ \A t \in Threads : arg[t] # c
    /\ ~crossed => c \in blocks[own[c]]

\* From the answer of Empty() to segregate(), what lies in front of tail_ was
\* tail_ when an append came in.
Racing(own) ==
  \A t \in Threads : pc[t] = "grow" =>
    \A c \in Chunks : own[c] = threadId[t] => c = tail[threadId[t]] \/ c \in raced

\* No chunk is lost.
Kept(own) ==
  Sound /\ (Plain => exits = 0) => \A c \in Provided : c \in InUse \/ own[c] # 0 \/ c \in raced

Lists(own, pos) ==
  /\ own \in [Chunks -> {0} \cup Pools] /\ pos \in [Chunks -> Int]
  /\ Heads(own, pos) /\ Tails(own) /\ Places(own, pos) /\ Links(own, pos)
  /\ Free(own) /\ Racing(own) /\ Kept(own)

Full ==
  /\ Tame /\ Typed /\ Numbers /\ Positions /\ Exclusive /\ Unused
  /\ FreedToItsPool
  /\ OverrunNeedsTurnover
  /\ \E own, pos : Lists(own, pos)

\* The lists are as described until the memory of a pool goes back to ::free
\* after chunks were passed between plain pools.
IInv == Basic /\ (Tame => Full)
-----------------------------------------------------------------------------
\* The constants: Null and Junk are no chunks, 0 is no pool.
LEMMA Consts ==
  /\ MaxThreads \in Nat /\ MaxChunks \in Nat /\ MaxEnds \in Nat
  /\ Null \notin Chunks /\ Junk \notin Chunks /\ 0 \notin Pools /\ Junk # Null
  /\ Chunks \subseteq Nat /\ Pools \subseteq Nat
BY SizeAssumption DEF Chunks, Pools, Null, Junk

\* What ::malloc has provided are chunks.
LEMMA ProvidedChunks == ASSUME Types PROVE Provided \subseteq Chunks
BY DEF Types, Provided

\* Nothing was allocated at first.
LEMMA InitIInv == Init => IInv
<1> SUFFICES ASSUME Init PROVE IInv
  OBVIOUS
<1> USE DEF Init
<1>1. Typed
  <2>1. FirstSize \in Nat \ {0, 1} /\ MaxThreads \in Nat /\ MaxChunks \in Nat /\ MaxEnds \in Nat
    BY SizeAssumption
  <2>2. 0 \in 0..MaxThreads /\ 0 \in 0..MaxEnds
    BY <2>1
  <2>3. nextSize \in [Pools -> Nat \ {0, 1}]
    BY <2>1
  <2>4. /\ threadId \in [Threads -> {0} \cup Pools] /\ lockTail \in [Pools -> Threads \cup {None}]
        /\ head \in [Pools -> Chunks \cup {Null, Junk}] /\ tail \in [Pools -> Chunks \cup {Null}]
        /\ blocks \in [Pools -> SUBSET Chunks] /\ next \in [Chunks -> Chunks \cup {Null, Junk}]
    OBVIOUS
  <2>5. /\ tag \in [Chunks -> {0} \cup Pools] /\ held \in [Chunks -> {0, 1}] /\ held \in [Chunks -> Nat]
        /\ pc \in [Threads -> {"idle", "pop", "grow", "publish"}]
        /\ arg \in [Threads -> Chunks \cup {Null}]
    OBVIOUS
  <2>6. QED
    BY <2>2, <2>3, <2>4, <2>5 DEF Typed, Types
<1>2. {t \in Threads : threadId[t] # 0} = {}
  OBVIOUS
<1>3. Numbers
  BY <1>2, FS_EmptySet, Consts DEF Numbers
<1>4. InUse = {}
  BY DEF InUse, Null
<1>5. Positions /\ Tame /\ FreedToItsPool /\ OverrunNeedsTurnover
  BY <1>4 DEF Positions, Steps, Tame, FreedToItsPool, OverrunNeedsTurnover
<1>6. Exclusive
  BY <1>4, Consts DEF Exclusive
<1>7. Unused
  BY DEF Unused, Live
<1>8. Lists([c \in Chunks |-> 0], [c \in Chunks |-> 0])
  <2> DEFINE z == [c \in Chunks |-> 0]
  <2>1. z \in [Chunks -> {0} \cup Pools] /\ z \in [Chunks -> Int] /\ \A c \in Chunks : z[c] = 0
    OBVIOUS
  <2> HIDE DEF z
  <2>2. Heads(z, z) /\ Tails(z) /\ Places(z, z) /\ Links(z, z) /\ Free(z) /\ Racing(z)
    BY <2>1, Consts DEF Heads, Tails, Places, Links, Free, Racing, Live
  <2>3. Kept(z)
    BY DEF Kept, Provided
  <2>4. QED
    BY <2>1, <2>2, <2>3 DEF Lists
<1>9. Full
  BY <1>1, <1>3, <1>5, <1>6, <1>7, <1>8, Zenon DEF Full
<1>10. QED
  BY <1>1, <1>3, <1>5, <1>9 DEF IInv, Basic, Typed, Positions

\* A step that moves no chunk.
LEMMA NoChunkMoves ==
  ASSUME Full, NEW own, NEW pos, Lists(own, pos), Racing(own)',
         UNCHANGED <<kind, head, tail, blocks, next, held, arg, tag, raced, crossed, purges, exits>>
  PROVE  FreedToItsPool' /\ Exclusive' /\ Lists(own, pos)'
<1>1. InUse' = InUse /\ Provided' = Provided
  BY DEF InUse, Provided
<1>2. FreedToItsPool' /\ Exclusive'
  BY <1>1 DEF Full, FreedToItsPool, Exclusive
<1>3. Lists(own, pos)'
  BY <1>1 DEF Lists, Heads, Tails, Places, Links, Free, Kept, Live, Sound, Plain
<1>4. QED
  BY <1>2, <1>3

\* object_pool(): a number more.  Without one left, as many threads as there are
\* other threads with a pool, and all that ended, have taken them.
LEMMA RegisterBasic == ASSUME Basic, NEW t \in Threads, Register(t) PROVE Basic'
<1> USE DEF Basic, memory
<1> DEFINE With == {u \in Threads : threadId[u] # 0}
<1>1. /\ crashed = "no" /\ pc[t] = "idle" /\ pc' = [pc EXCEPT ![t] = "idle"] /\ threadId[t] = 0
      /\ UNCHANGED <<kind, head, tail, lockTail, nextSize, blocks, next, tag, held, arg, purges,
                     exits, raced, crossed>>
  BY DEF Register, Goto, HasPool
<1>2. IsFiniteSet(With) /\ Cardinality(With) \in Nat /\ t \notin With
      /\ Cardinality(With) + 1 <= MaxThreads /\ Cardinality(With \cup {t}) = Cardinality(With) + 1
  <2>1. With \in SUBSET Threads /\ IsFiniteSet(Threads) /\ Cardinality(Threads) <= MaxThreads /\ t \notin With
    BY <1>1, SizeAssumption
  <2>2. IsFiniteSet(With) /\ Cardinality(With) \in Nat /\ Cardinality(Threads) \in Nat
    BY <2>1, FS_Subset, FS_CardinalityType
  <2>3. Cardinality(With \cup {t}) = Cardinality(With) + 1
    BY <2>1, <2>2, FS_AddElement
  <2>4. With \cup {t} \in SUBSET Threads
    BY <2>1
  <2>5. Cardinality(With \cup {t}) <= Cardinality(Threads)
    BY <2>1, <2>4, FS_Subset
  <2>6. QED
    BY <2>1, <2>2, <2>3, <2>5, Consts
<1>3. pc' = pc
  BY <1>1 DEF Types
<1>4. CASE threadIdCounter < MaxThreads
  <2>1. /\ threadIdCounter' = threadIdCounter + 1 /\ crashed' = crashed
        /\ threadId' = [threadId EXCEPT ![t] = threadIdCounter + 1]
    BY <1>4 DEF Register
  <2>2. threadIdCounter \in Nat /\ threadIdCounter + 1 \in Pools /\ threadIdCounter + 1 # 0
    BY <1>4, Consts DEF Types, Pools
  <2>3. Types'
    <3>1. threadIdCounter' \in 0..MaxThreads
      BY <1>4, <2>1, <2>2, Consts
    <3>2. threadId' \in [Threads -> {0} \cup Pools]
      BY <2>1, <2>2 DEF Types
    <3>3. QED
      BY <1>1, <1>3, <2>1, <3>1, <3>2 DEF Types
  <2>4. \A u \in Threads : threadId'[u] = IF u = t THEN threadIdCounter + 1 ELSE threadId[u]
    BY <2>1 DEF Types
  <2>5. \A u \in Threads : threadId[u] \in Nat
    <3>1. \A u \in Threads : threadId[u] \in {0} \cup Pools
      BY DEF Types
    <3>2. QED
      BY <3>1, SizeAssumption DEF Pools
  <2>6. Numbers'
    <3>1. {u \in Threads : threadId'[u] # 0} = With \cup {t}
      BY <2>2, <2>4
    <3>2. threadIdCounter' = exits' + Cardinality({u \in Threads : threadId'[u] # 0})
      <4>1. threadIdCounter = exits + Cardinality(With) /\ exits \in Nat
        BY Consts DEF Numbers, Types
      <4> HIDE DEF With
      <4>2. PICK n \in Nat : n = Cardinality(With)
        BY <1>2
      <4>3. Cardinality({u \in Threads : threadId'[u] # 0}) = n + 1
        BY <1>2, <3>1, <4>2
      <4>4. PICK k \in Nat : k = exits /\ exits' = k /\ threadIdCounter' = k + n + 1
        BY <1>1, <2>1, <4>1, <4>2
      <4>5. QED
        BY <4>3, <4>4
    <3>3. \A u \in Threads : threadId'[u] <= threadIdCounter'
      BY <2>1, <2>2, <2>4, <2>5 DEF Numbers
    <3>4. \A u, w \in Threads : threadId'[u] = threadId'[w] /\ threadId'[u] # 0 => u = w
      BY <2>1, <2>2, <2>4, <2>5 DEF Numbers
    <3>5. \A p \in Pools : p > threadIdCounter' => tail'[p] = Null
      BY <1>1, <2>1, <2>2, Consts DEF Numbers
    <3>6. QED
      BY <3>2, <3>3, <3>4, <3>5 DEF Numbers
  <2>7. Steps'
    BY <1>1, <1>3, <2>4 DEF Steps, Tagged
  <2>8. OverrunNeedsTurnover'
    BY <1>1, <2>1 DEF OverrunNeedsTurnover
  <2>9. QED
    BY <2>3, <2>6, <2>7, <2>8
<1>5. CASE ~(threadIdCounter < MaxThreads)
  <2>1. crashed' = "threads" /\ UNCHANGED <<threadIdCounter, threadId>>
    BY <1>5 DEF Register
  <2>2. Types' /\ Numbers' /\ Steps'
    BY <1>1, <1>3, <2>1 DEF Types, Numbers, Steps, Tagged
  <2>3. OverrunNeedsTurnover'
    <3>1. threadIdCounter = MaxThreads /\ exits \in Nat /\ threadIdCounter = exits + Cardinality(With)
      BY <1>5, Consts DEF Types, Numbers
    <3>2. exits > 0 /\ exits + Cardinality(With) = MaxThreads
      BY <1>2, <3>1, Consts
    <3>3. QED
      BY <1>1, <2>1, <3>2 DEF OverrunNeedsTurnover
  <2>4. QED
    BY <2>2, <2>3
<1>6. QED
  BY <1>4, <1>5

\* The lists know nothing of a new number.
LEMMA RegisterI == ASSUME Full, Tame', NEW t \in Threads, Register(t) PROVE Full'
<1> USE DEF Full, memory
<1>1. /\ crashed = "no" /\ pc[t] = "idle" /\ pc' = [pc EXCEPT ![t] = "idle"] /\ threadId[t] = 0
      /\ UNCHANGED <<kind, head, tail, lockTail, nextSize, blocks, next, tag, held, arg, purges,
                     exits, raced, crossed>>
  BY DEF Register, Goto, HasPool
<1>2. FreedToItsPool' /\ Exclusive' /\ \E own, pos : Lists(own, pos)'
  <2>1. PICK own, pos : Lists(own, pos)
    OBVIOUS
  <2>2. \A u \in Threads : pc'[u] = "grow" => pc[u] = "grow" /\ u # t /\ threadId'[u] = threadId[u]
    BY <1>1 DEF Register, Typed, Types
  <2>3. Racing(own)'
    BY <1>1, <2>1, <2>2 DEF Lists, Racing
  <2>4. QED
    BY <1>1, <2>1, <2>3, NoChunkMoves
<1>3. Basic' /\ Typed'
  <2>1. Basic'
    BY RegisterBasic DEF Basic, Typed, Positions
  <2>2. QED
    BY <1>1, <2>1 DEF Basic, Typed
<1>4. pc' = pc /\ crashed' # "link"
  BY <1>1 DEF Typed, Types, Register
<1>5. /\ \A u \in Threads : u # t => threadId'[u] = threadId[u]
      /\ threadId'[t] # 0 => threadId'[t] \in Pools /\ tail[threadId'[t]] = Null
  <2>1. CASE threadIdCounter < MaxThreads
    <3>1. threadId' = [threadId EXCEPT ![t] = threadIdCounter + 1]
      BY <2>1 DEF Register
    <3>2. threadIdCounter \in Nat /\ threadIdCounter + 1 \in Pools /\ threadIdCounter + 1 > threadIdCounter
      BY <2>1, Consts DEF Typed, Types, Pools
    <3>3. tail[threadIdCounter + 1] = Null
      BY <3>2 DEF Numbers
    <3>4. QED
      BY <3>1, <3>2, <3>3 DEF Typed, Types
  <2>2. CASE ~(threadIdCounter < MaxThreads)
    BY <1>1, <2>2 DEF Register
  <2>3. QED
    BY <2>1, <2>2
<1>6. Positions'
  BY <1>1, <1>3, <1>4, <1>5 DEF Basic, Positions, Tagged, Live
<1>7. Unused'
  BY <1>1, <1>4, <1>5 DEF Unused, Sound, Live
<1>8. QED
  BY <1>2, <1>3, <1>6, <1>7 DEF Basic

\* Malloc(): if Empty() is false, the list has a chunk that is not its last.
LEMMA CallMallocI == ASSUME Full, Tame', NEW t \in Threads, CallMalloc(t) PROVE Full'
<1> USE DEF Full, registry, memory
<1> DEFINE p == threadId[t]
<1>1. /\ crashed = "no" /\ pc[t] = "idle" /\ p # 0
      /\ pc' = [pc EXCEPT ![t] = IF head[p] = tail[p] THEN "grow" ELSE "pop"]
      /\ UNCHANGED <<kind, threadIdCounter, threadId, head, tail, lockTail, nextSize, blocks, next, tag,
                     held, arg, purges, exits, raced, crossed, crashed>>
  BY DEF CallMalloc, Goto, Empty
<1>2. Typed' /\ Numbers' /\ OverrunNeedsTurnover'
  BY <1>1 DEF Typed, Types, Numbers, OverrunNeedsTurnover
<1>3. p \in Pools
  BY <1>1 DEF Typed, Types
<1>4. PICK own, pos : Lists(own, pos)
  OBVIOUS
<1>5. head[p] = tail[p] => Live(p) \/ (tail[p] = Null /\ head[p] = Null)
  <2>1. ASSUME head[p] = tail[p], ~Live(p), head[p] # Null PROVE FALSE
    <3>1. head[p] \in Chunks /\ own[head[p]] = p
      BY <1>3, <1>4, <2>1 DEF Lists, Heads
    <3>2. crossed \/ head[p] \in blocks[p]
      BY <1>1, <3>1 , <1>4 DEF Lists, Free
    <3>3. tail[p] = Null
      BY <1>3, <1>4, <2>1, <3>2 DEF Lists, Tails, Live, Tame
    <3>4. QED
      BY <2>1, <3>3
  <2>2. QED
    BY <2>1
<1>6. /\ pc'[t] = IF head[p] = tail[p] THEN "grow" ELSE "pop"
      /\ \A u \in Threads : u # t => pc'[u] = pc[u]
  BY <1>1 DEF Typed, Types
<1>7. FreedToItsPool' /\ Exclusive' /\ Lists(own, pos)'
  <2>1. ASSUME head[p] = tail[p], NEW c \in Chunks, own[c] = p PROVE c = tail[p]
    <3>1. p # 0 /\ head[p] # Null /\ head[p] \in Chunks /\ own[head[p]] = p /\ pos[head[p]] <= pos[c]
      BY <1>1, <1>3, <1>4, <2>1 DEF Lists, Heads
    <3>2. Live(p) /\ pos[c] <= pos[tail[p]]
      BY <1>3, <1>4, <1>5, <2>1, <3>1 DEF Lists, Links
    <3>3. pos[c] \in Int /\ pos[tail[p]] \in Int
      BY <1>4, <2>1, <3>1 DEF Lists
    <3>4. pos[c] = pos[tail[p]]
      BY <2>1, <3>1, <3>2, <3>3
    <3>5. QED
      BY <1>4, <2>1, <3>1, <3>4 DEF Lists, Places
  <2>2. Racing(own)'
    BY <1>1, <1>4, <1>6, <2>1 DEF Lists, Racing
  <2>3. QED
    BY <1>1, <1>4, <2>2, NoChunkMoves
<1>8. Positions'
  BY <1>1, <1>5, <1>6 DEF Positions, Steps, Tagged, Live
<1>9. Unused'
  BY <1>1, <1>3, <1>6 DEF Unused, Sound, Live
<1>10. QED
  BY <1>7, <1>2, <1>8, <1>9

\* ::malloc fails: nothing moves.
LEMMA OutOfMemoryI == ASSUME Full, Tame', NEW t \in Threads, OutOfMemory(t) PROVE Full'
<1> USE DEF Full, registry, memory
<1>1. /\ crashed = "no" /\ pc[t] = "grow" /\ pc' = [pc EXCEPT ![t] = "idle"]
      /\ crashed' \in {"memory", "no"}
      /\ UNCHANGED <<kind, threadIdCounter, threadId, head, tail, lockTail, nextSize, blocks, next, tag,
                     held, arg, purges, exits, raced, crossed>>
  BY DEF OutOfMemory, Goto
<1>2. Typed' /\ Numbers' /\ OverrunNeedsTurnover'
  BY <1>1 DEF Typed, Types, Numbers, OverrunNeedsTurnover
<1>3. pc'[t] = "idle" /\ \A u \in Threads : u # t => pc'[u] = pc[u]
  BY <1>1 DEF Typed, Types
<1>4. FreedToItsPool' /\ Exclusive' /\ \E own, pos : Lists(own, pos)'
  <2>1. PICK own, pos : Lists(own, pos)
    OBVIOUS
  <2>2. Racing(own)'
    BY <1>1, <1>3, <2>1 DEF Lists, Racing
  <2>3. QED
    BY <1>1, <2>1, <2>2, NoChunkMoves
<1>5. Positions' /\ Unused'
  BY <1>1, <1>3 DEF Positions, Steps, Tagged, Live, Unused, Sound
<1>6. QED
  BY <1>4, <1>2, <1>5

\* The last chunk of a pool with blocks is in no other list.
LEMMA TailsApart ==
  ASSUME NEW own, NEW pos, Lists(own, pos), NEW c \in Chunks, own[c] # 0, NEW q \in Pools, Live(q), tail[q] = c
  PROVE  own[c] = q
BY DEF Lists, Tails

\* Publishing threads have a pool with blocks before them.
LEMMA PublishLive ==
  ASSUME Full, NEW t \in Threads, pc[t] = "publish"
  PROVE  /\ arg[t] \in Chunks /\ tag[arg[t]] \in Pools /\ Live(tag[arg[t]]) /\ arg[t] \in InUse
         /\ arg[t] \in blocks[tag[arg[t]]] /\ tail[tag[arg[t]]] \in Chunks
<1>1. arg[t] \in Chunks /\ ~crossed
  BY DEF Full, Positions, Steps
<1>2. arg[t] \in InUse
  BY <1>1, Consts DEF InUse
<1>3. tag[arg[t]] \in Pools /\ arg[t] \in blocks[tag[arg[t]]]
  BY <1>1, <1>2 DEF Full, FreedToItsPool
<1>4. Live(tag[arg[t]])
  BY <1>3 DEF Live
<1>5. QED
  BY <1>1, <1>2, <1>3, <1>4 DEF Full, Lists, Tails

\* segregated_storage::malloc(): the head leaves the list, the next is the head.
LEMMA PopI == ASSUME Full, Tame', NEW t \in Threads, Pop(t) PROVE Full'
<1> DEFINE p == threadId[t]
           h == head[p]
<1>1. /\ crashed = "no" /\ pc[t] = "pop" /\ pc' = [pc EXCEPT ![t] = "idle"]
      /\ UNCHANGED <<kind, threadIdCounter, threadId, tail, lockTail, nextSize, blocks, arg,
                     purges, exits, raced, crossed>>
  BY DEF Pop, Goto, registry, memory
<1>2. Typed
  BY DEF Full
<1>3. p \in Pools /\ h # tail[p] /\ pc'[t] = "idle" /\ \A u \in Threads : u # t => pc'[u] = pc[u]
  BY <1>1, <1>2 DEF Full, Positions, Steps, Typed, Types
<1>4. Numbers'
  BY <1>1 DEF Full, Numbers
<1>5. CASE h \notin Chunks
  <2>1. crashed' = "link" /\ UNCHANGED <<tag, held, head, next>>
    BY <1>5 DEF Pop
  <2>2. ~Sound
    <3>1. ASSUME Sound PROVE FALSE
      <4>1. Live(p)
        BY <1>1, <3>1 DEF Full, Unused
      <4>2. PICK own, pos : Lists(own, pos)
        BY DEF Full
      <4>3. tail[p] \in Chunks /\ own[tail[p]] = p
        BY <1>3, <4>1, <4>2 DEF Lists, Tails
      <4>4. QED
        BY <1>3, <1>5, <4>2, <4>3 DEF Lists, Heads
    <3>2. QED
      BY <3>1
  <2>3. FreedToItsPool' /\ Exclusive' /\ \E own, pos : Lists(own, pos)'
    <3>1. PICK own, pos : Lists(own, pos)
      BY DEF Full
    <3>2. \A u \in Threads : pc'[u] = "grow" => pc[u] = "grow"
      BY <1>3
    <3>3. Racing(own)'
      BY <1>1, <3>1, <3>2 DEF Lists, Racing
    <3>4. QED
      BY <1>1, <2>1, <3>1, <3>3, NoChunkMoves
  <2>4. Typed' /\ OverrunNeedsTurnover'
    BY <1>1, <1>2, <2>1 DEF Typed, Types, OverrunNeedsTurnover
  <2>5. Positions' /\ Unused'
    BY <1>1, <1>3, <2>1, <2>2 DEF Full, Positions, Steps, Tagged, Live, Unused, Sound
  <2>6. QED
    BY <1>4, <2>3, <2>4, <2>5 DEF Full
<1>6. CASE h \in Chunks
  <2>1. /\ head' = [head EXCEPT ![p] = next[h]] /\ next' = [next EXCEPT ![h] = Junk]
        /\ tag' = [tag EXCEPT ![h] = p] /\ held' = [held EXCEPT ![h] = held[h] + 1]
        /\ crashed' = IF held[h] > 0 THEN "twice" ELSE "no"
    BY <1>1, <1>6 DEF Pop, HandOver, TagOf, Popped
  <2>2. PICK own, pos : Lists(own, pos)
    BY DEF Full
  <2>3. /\ own \in [Chunks -> {0} \cup Pools] /\ pos \in [Chunks -> Int] /\ own[h] = p /\ p # 0
        /\ \A c \in Chunks : pos[c] \in Int
        /\ \A c \in Chunks : own[c] = p => pos[h] <= pos[c]
    BY <1>3, <1>6, <2>2, Consts DEF Lists, Heads
  <2>4. /\ h \in Provided /\ held[h] = 0 /\ (\A u \in Threads : arg[u] # h) /\ (~crossed => h \in blocks[p])
        /\ crashed' = "no"
    BY <1>6, <2>1, <2>2, <2>3 DEF Lists, Free
  <2>5. \A q \in Pools : Live(q) => tail[q] # h
    BY <1>3, <1>6, <2>2, <2>3, TailsApart
  <2>6. /\ \A q \in Pools : head'[q] = IF q = p THEN next[h] ELSE head[q]
        /\ \A c \in Chunks : /\ next'[c] = IF c = h THEN Junk ELSE next[c]
                             /\ tag'[c] = IF c = h THEN p ELSE tag[c]
                             /\ held'[c] = IF c = h THEN 1 ELSE held[c]
    BY <1>2, <2>1, <2>4 DEF Typed, Types
  <2>7. Typed'
    <3>1. head' \in [Pools -> Chunks \cup {Null, Junk}] /\ next' \in [Chunks -> Chunks \cup {Null, Junk}]
      BY <1>2, <1>6, <2>1 DEF Typed, Types
    <3>2. tag' \in [Chunks -> {0} \cup Pools] /\ held' \in [Chunks -> {0, 1}]
      <4>1. held[h] + 1 = 1
        BY <2>4
      <4>2. QED
        BY <1>2, <1>3, <2>1, <4>1 DEF Typed, Types
    <3>3. pc' \in [Threads -> {"idle", "pop", "grow", "publish"}]
      BY <1>1, <1>2 DEF Typed, Types
    <3>4. held' \in [Chunks -> Nat]
      BY <3>2
    <3>5. QED
      BY <1>1, <1>2, <2>4, <3>1, <3>2, <3>3, <3>4 DEF Typed, Types
  <2>8. InUse' = InUse \cup {h} /\ Provided' = Provided
    BY <1>1, <1>6, <2>6 DEF InUse, Provided
  <2>9. FreedToItsPool'
    <3>1. \A c \in InUse : c # h /\ c \in Chunks
      BY <1>2, <2>4 DEF InUse, Typed, Types
    <3>2. QED
      BY <1>1, <1>3, <1>6, <2>4, <2>6, <2>8, <3>1 DEF Full, FreedToItsPool
  <2>10. Exclusive'
    BY <1>1, <1>6, <2>4, <2>6, <2>8 DEF Full, Exclusive
  <2>11. Positions'
    <3>1. \A u \in Threads : u # t /\ threadId[u] # 0 => threadId[u] # p /\ threadId[u] \in Pools
      BY <1>2, <2>3 DEF Full, Numbers, Typed, Types
    <3>2. \A u \in Threads : pc[u] = "publish" => /\ tag'[arg[u]] = tag[arg[u]]
                                                  /\ next'[tail[tag[arg[u]]]] = next[tail[tag[arg[u]]]]
      BY <2>4, <2>5, <2>6, PublishLive
    <3>3. QED
      BY <1>1, <1>3, <2>6, <3>1, <3>2 DEF Full, Positions, Steps, Tagged, Live
  <2>12. Unused'
    <3>1. Sound => Live(p)
      BY <1>1 DEF Full, Unused
    <3>2. QED
      BY <1>1, <1>3, <2>1, <2>4, <2>6, <3>1 DEF Full, Unused, Sound, Live
  <2>13. OverrunNeedsTurnover'
    BY <2>4 DEF OverrunNeedsTurnover
  <2>14. PICK own1 \in [Chunks -> {0} \cup Pools] : \A c \in Chunks : own1[c] = IF c = h THEN 0 ELSE own[c]
    <3>1. [own EXCEPT ![h] = 0] \in [Chunks -> {0} \cup Pools]
      BY <2>3
    <3>2. \A c \in Chunks : [own EXCEPT ![h] = 0][c] = IF c = h THEN 0 ELSE own[c]
      BY <2>3
    <3>3. QED
      BY <3>1, <3>2
  <2>15. \/ /\ next[h] \in Chunks /\ own[next[h]] = p /\ pos[next[h]] = pos[h] + 1
            /\ \A c \in Chunks : own[c] = p /\ c # h => pos[next[h]] <= pos[c]
         \/ next[h] = Null /\ \A c \in Chunks : own[c] = p => c = h
    <3>1. \A c \in Chunks : own[c] = p /\ c # h => pos[h] + 1 <= pos[c]
      BY <1>6, <2>2, <2>3 DEF Lists, Places
    <3>2. \/ next[h] \in Chunks /\ own[next[h]] = p /\ pos[next[h]] = pos[h] + 1
          \/ next[h] = Null /\ \A c \in Chunks : own[c] = p => pos[c] <= pos[h]
      BY <1>3, <1>6, <2>2, <2>3 DEF Lists, Links
    <3>3. QED
      BY <1>6, <2>3, <3>1, <3>2
  <2>16. Heads(own1, pos)'
    <3>1. next[h] \in Chunks => next[h] # h
      <4>1. Null \notin Chunks /\ pos[h] \in Int
        BY <1>6, <2>3, Consts
      <4>2. QED
        BY <2>15, <4>1
    <3>2. ASSUME NEW q \in Pools, q = p
          PROVE  IF head'[q] = Null THEN \A c \in Chunks : own1[c] # q
                 ELSE /\ head'[q] \in Chunks /\ own1[head'[q]] = q
                      /\ \A c \in Chunks : own1[c] = q => pos[head'[q]] <= pos[c]
      <4>1. Null \notin Chunks /\ head'[q] = next[h] /\ p # 0
        BY <2>3, <2>6, <3>2, Consts
      <4>2. CASE next[h] \in Chunks
        <5>1. own[next[h]] = p /\ \A c \in Chunks : own[c] = p /\ c # h => pos[next[h]] <= pos[c]
          BY <2>15, <4>1, <4>2
        <5>2. own1[next[h]] = p /\ \A c \in Chunks : own1[c] = p => own[c] = p /\ c # h
          BY <2>14, <3>1, <4>1, <4>2, <5>1
        <5>3. QED
          BY <3>2, <4>1, <4>2, <5>1, <5>2
      <4>3. CASE next[h] \notin Chunks
        <5>1. next[h] = Null /\ \A c \in Chunks : own[c] = p => c = h
          BY <2>15, <4>3
        <5>2. \A c \in Chunks : own1[c] # p
          BY <2>14, <4>1, <5>1
        <5>3. QED
          BY <3>2, <4>1, <5>1, <5>2
      <4>4. QED
        BY <4>2, <4>3
    <3>3. ASSUME NEW q \in Pools, q # p
          PROVE  IF head'[q] = Null THEN \A c \in Chunks : own1[c] # q
                 ELSE /\ head'[q] \in Chunks /\ own1[head'[q]] = q
                      /\ \A c \in Chunks : own1[c] = q => pos[head'[q]] <= pos[c]
      <4>1. head'[q] = head[q] /\ \A c \in Chunks : own1[c] = q <=> own[c] = q
        BY <2>3, <2>6, <2>14, <3>3, Consts
      <4>2. QED
        BY <2>2, <4>1 DEF Lists, Heads
    <3>4. QED
      BY <3>2, <3>3 DEF Heads
  <2>17. Tails(own1)'
    BY <1>1, <2>2, <2>5, <2>14 DEF Lists, Tails, Live
  <2>18. Places(own1, pos)' /\ Free(own1)'
    BY <1>1, <2>2, <2>6, <2>8, <2>14 DEF Lists, Places, Free
  <2>19. Links(own1, pos)'
    <3>1. ASSUME NEW c \in Chunks, c # h, own[c] # 0, next[c] \in Chunks, own[next[c]] = own[c],
                 pos[next[c]] = pos[c] + 1
          PROVE  next[c] # h
      BY <2>3, <3>1
    <3>2. ASSUME NEW c \in Chunks, own1[c] # 0
          PROVE  \/ /\ c # tail[own1[c]] /\ next'[c] \in Chunks
                    /\ own1[next'[c]] = own1[c] /\ pos[next'[c]] = pos[c] + 1
                 \/ /\ \A d \in Chunks : own1[d] = own1[c] => pos[d] <= pos[c]
                    /\ IF Live(own1[c]) THEN c = tail[own1[c]] ELSE next'[c] = Null
      <4>1. c # h /\ own1[c] = own[c] /\ next'[c] = next[c]
        BY <2>6, <2>14, <3>2
      <4>2. CASE /\ c # tail[own[c]] /\ next[c] \in Chunks
                 /\ own[next[c]] = own[c] /\ pos[next[c]] = pos[c] + 1
        BY <2>14, <3>1, <3>2, <4>1, <4>2
      <4>3. CASE /\ \A d \in Chunks : own[d] = own[c] => pos[d] <= pos[c]
                 /\ IF Live(own[c]) THEN c = tail[own[c]] ELSE next[c] = Null
        BY <2>14, <3>2, <4>1, <4>3
      <4>4. QED
        BY <2>2, <3>2, <4>1, <4>2, <4>3 DEF Lists, Links
    <3>3. QED
      BY <1>1, <3>2 DEF Links, Live
  <2>20. Kept(own1)'
    <3>1. Provided \subseteq Chunks
      BY <1>2, ProvidedChunks DEF Typed
    <3>2. Kept(own)
      BY <2>2 DEF Lists
    <3>3. QED
      BY <1>1, <2>8, <2>14, <3>1, <3>2 DEF Kept, Sound, Plain
  <2>21. Racing(own1)'
    <3>1. \A u \in Threads : pc'[u] = "grow" => pc[u] = "grow" /\ threadId[u] # 0
      BY <1>3 DEF Full, Positions, Steps
    <3>2. QED
      BY <1>1, <2>2, <2>14, <3>1 DEF Lists, Racing
  <2>22. Lists(own1, pos)'
    BY <2>3, <2>14, <2>16, <2>17, <2>18, <2>19, <2>20, <2>21 DEF Lists
  <2>23. QED
    BY <1>4, <2>7, <2>9, <2>10, <2>11, <2>12, <2>13, <2>22 DEF Full
<1>7. QED
  BY <1>5, <1>6

\* A chunk in use is in no list, nor the end of one.
LEMMA InUseApart ==
  ASSUME Full, NEW own, NEW pos, Lists(own, pos), NEW c \in Chunks, held[c] > 0
  PROVE  /\ c \in InUse /\ c \in Provided /\ held[c] = 1 /\ own[c] = 0
         /\ \A q \in Pools : Live(q) => tail[q] # c
         /\ \A u \in Threads : arg[u] # c
         /\ ~crossed => tag[c] \in Pools /\ c \in blocks[tag[c]] /\ Live(tag[c])
<1>1. c \in InUse
  BY DEF InUse
<1>2. held[c] = 1
  BY DEF Full, Typed, Types
<1>3. c \in Provided /\ \A u \in Threads : arg[u] # c
  BY <1>1, <1>2 DEF Full, Exclusive
<1>4. own[c] = 0
  BY <1>2 DEF Lists, Free
<1>5. \A q \in Pools : Live(q) => tail[q] # c
  BY <1>4, Consts DEF Lists, Tails
<1>6. ~crossed => tag[c] \in Pools /\ c \in blocks[tag[c]]
  BY <1>1 DEF Full, FreedToItsPool
<1>7. QED
  BY <1>1, <1>2, <1>3, <1>4, <1>6, <1>5 DEF Live

\* segregated_storage::free: the chunk is the new head.
LEMMA PushI ==
  ASSUME Full, Tame', NEW t \in Threads, NEW c \in Chunks, Push(t, c),
         \/ Tagged /\ tag[c] = threadId[t] /\ crossed' = crossed
         \/ Plain /\ crossed' = (crossed \/ tag[c] # threadId[t])
  PROVE  Full'
<1> DEFINE p == threadId[t]
           h == head[p]
<1>1. /\ crashed = "no" /\ crashed' = "no" /\ pc[t] = "idle" /\ p # 0 /\ held[c] > 0
      /\ pc' = [pc EXCEPT ![t] = "idle"] /\ held' = [held EXCEPT ![c] = held[c] - 1]
      /\ next' = [next EXCEPT ![c] = h] /\ head' = [head EXCEPT ![p] = c]
      /\ UNCHANGED <<kind, threadIdCounter, threadId, tail, lockTail, nextSize, blocks, tag, arg,
                     purges, exits, raced>>
  BY DEF Push, Goto, registry, memory
<1>2. Typed
  BY DEF Full
<1>3. p \in Pools /\ pc' = pc
  BY <1>1, <1>2 DEF Typed, Types
<1>4. PICK own, pos : Lists(own, pos)
  BY DEF Full
<1>5. /\ c \in InUse /\ c \in Provided /\ held[c] = 1 /\ own[c] = 0
      /\ \A q \in Pools : Live(q) => tail[q] # c
      /\ \A u \in Threads : arg[u] # c
      /\ Provided' = Provided
  <2>1. Provided' = Provided
    BY <1>1 DEF Provided
  <2>2. QED
    BY <1>1, <1>4, <2>1, InUseApart
<1>6. /\ crossed => crossed'
      /\ ~crossed' => c \in blocks[p] /\ Live(p)
      /\ Tagged' => ~crossed'
      /\ crossed' \in BOOLEAN
  <2>1. crossed \in BOOLEAN /\ (Tagged => ~crossed) /\ ~(Tagged /\ Plain)
    BY <1>2 DEF Full, Positions, Steps, Typed, Types, Tagged, Plain
  <2>2. ~crossed => c \in blocks[tag[c]] /\ Live(tag[c])
    BY <1>1, <1>4, InUseApart
  <2>3. Tagged' <=> Tagged
    BY <1>1 DEF Tagged
  <2>4. CASE Tagged /\ tag[c] = threadId[t] /\ crossed' = crossed
    BY <2>1, <2>2, <2>3, <2>4
  <2>5. CASE Plain /\ crossed' = (crossed \/ tag[c] # threadId[t])
    <3>1. crossed' \in BOOLEAN
      BY <2>5
    <3>2. ~crossed' => ~crossed /\ tag[c] = threadId[t]
      BY <2>5, Zenon
    <3>3. crossed => crossed'
      BY <2>5, Zenon
    <3>4. QED
      BY <2>1, <2>2, <2>3, <2>5, <3>1, <3>2, <3>3
  <2>6. QED
    BY <2>4, <2>5
<1>7. own \in [Chunks -> {0} \cup Pools] /\ pos \in [Chunks -> Int]
  BY <1>4 DEF Lists
<1>8. \/ h = Null /\ ~Live(p) /\ \A d \in Chunks : own[d] # p
      \/ h \in Chunks /\ own[h] = p /\ pos[h] \in Int /\ \A d \in Chunks : own[d] = p => pos[h] <= pos[d]
  BY <1>3, <1>4, <1>7 DEF Lists, Heads, Tails
<1>9. /\ \A q \in Pools : head'[q] = IF q = p THEN c ELSE head[q]
      /\ \A d \in Chunks : /\ next'[d] = IF d = c THEN h ELSE next[d]
                           /\ held'[d] = IF d = c THEN 0 ELSE held[d]
  BY <1>1, <1>2, <1>5 DEF Typed, Types
<1>10. Typed'
  <2>1. head' \in [Pools -> Chunks \cup {Null, Junk}] /\ next' \in [Chunks -> Chunks \cup {Null, Junk}]
    BY <1>1, <1>2, <1>3 DEF Typed, Types
  <2>2. held' \in [Chunks -> {0, 1}]
    <3>1. held[c] - 1 = 0
      BY <1>5
    <3>2. QED
      BY <1>1, <1>2, <3>1 DEF Typed, Types
  <2>3. QED
    BY <1>1, <1>2, <1>3, <1>6, <2>1, <2>2 DEF Typed, Types
<1>11. tail[p] # c
  <2>1. CASE Live(p)
    BY <1>3, <1>5, <2>1
  <2>2. CASE ~Live(p)
    <3>1. crossed' /\ purges = 0 /\ exits = 0
      BY <1>1, <1>6, <2>2 DEF Tame
    <3>2. tail[p] = Null
      BY <1>3, <1>4, <2>2, <3>1 DEF Lists, Tails
    <3>3. QED
      BY <3>2, Consts
  <2>3. QED
    BY <2>1, <2>2
<1>12. InUse' = InUse \ {c}
  BY <1>1, <1>5, <1>9 DEF InUse
<1>13. FreedToItsPool'
  BY <1>1, <1>6, <1>12 DEF Full, FreedToItsPool
<1>14. Exclusive'
  BY <1>1, <1>5, <1>9, <1>12 DEF Full, Exclusive
<1>15. Numbers' /\ OverrunNeedsTurnover'
  BY <1>1 DEF Full, Numbers, OverrunNeedsTurnover
<1>16. Positions'
  <2>1. \A u \in Threads : u # t /\ threadId[u] # 0 => threadId[u] # p /\ threadId[u] \in Pools
    BY <1>1, <1>2 DEF Full, Numbers, Typed, Types
  <2>2. \A u \in Threads : pc[u] = "publish" => next'[tail[tag[arg[u]]]] = next[tail[tag[arg[u]]]]
    BY <1>5, <1>9, PublishLive
  <2>3. QED
    BY <1>1, <1>3, <1>6, <1>9, <2>1, <2>2 DEF Full, Positions, Steps, Tagged, Live
<1>17. Unused'
  <2>1. Sound' => Sound /\ Live(p)
    BY <1>1, <1>6 DEF Sound
  <2>2. QED
    BY <1>1, <1>3, <1>9, <2>1 DEF Full, Unused, Live
<1>18. PICK own1 \in [Chunks -> {0} \cup Pools] : \A d \in Chunks : own1[d] = IF d = c THEN p ELSE own[d]
  <2>1. [own EXCEPT ![c] = p] \in [Chunks -> {0} \cup Pools]
    BY <1>3, <1>7
  <2>2. \A d \in Chunks : [own EXCEPT ![c] = p][d] = IF d = c THEN p ELSE own[d]
    BY <1>7
  <2>3. QED
    BY <2>1, <2>2
<1>19. PICK pos1 \in [Chunks -> Int] :
         \A d \in Chunks : pos1[d] = IF d = c THEN IF h = Null THEN 0 ELSE pos[h] - 1 ELSE pos[d]
  <2> DEFINE n == IF h = Null THEN 0 ELSE pos[h] - 1
  <2>1. n \in Int
    BY <1>8
  <2> HIDE DEF n
  <2>2. [pos EXCEPT ![c] = n] \in [Chunks -> Int] /\ \A d \in Chunks : [pos EXCEPT ![c] = n][d] = IF d = c THEN n ELSE pos[d]
    BY <1>7, <2>1
  <2>3. QED
    BY <2>2 DEF n
<1>20. /\ \A d \in Chunks : pos[d] \in Int /\ pos1[d] \in Int
       /\ \A d \in Chunks : own[d] = p => h # Null /\ h # c /\ d # c /\ pos1[c] = pos[h] - 1 /\ pos1[c] < pos1[d]
  <2>1. \A d \in Chunks : pos[d] \in Int /\ pos1[d] \in Int
    BY <1>7, <1>19
  <2>2. ASSUME NEW d \in Chunks, own[d] = p
        PROVE  h # Null /\ h # c /\ d # c /\ pos1[c] = pos[h] - 1 /\ pos1[c] < pos1[d]
    <3>1. h \in Chunks /\ own[h] = p /\ pos[h] <= pos[d] /\ h # Null
      BY <1>8, <2>2, Consts
    <3>2. h # c /\ d # c
      BY <1>1, <1>5, <2>2, <3>1
    <3>3. pos1[c] = pos[h] - 1 /\ pos1[d] = pos[d]
      BY <1>19, <3>1, <3>2
    <3>4. QED
      BY <2>1, <3>1, <3>2, <3>3
  <2>3. QED
    BY <2>1, <2>2
<1>21. Heads(own1, pos1)'
  <2>1. ASSUME NEW q \in Pools, q # p
        PROVE  IF head'[q] = Null THEN \A d \in Chunks : own1[d] # q
               ELSE /\ head'[q] \in Chunks /\ own1[head'[q]] = q
                    /\ \A d \in Chunks : own1[d] = q => pos1[head'[q]] <= pos1[d]
    <3>1. head'[q] = head[q] /\ \A d \in Chunks : (own1[d] = q <=> own[d] = q) /\ (own1[d] = q => pos1[d] = pos[d])
      BY <1>5, <1>9, <1>18, <1>19, <2>1, Consts
    <3>2. QED
      BY <1>4, <3>1 DEF Lists, Heads
  <2>2. /\ head'[p] \in Chunks /\ head'[p] # Null /\ own1[head'[p]] = p
        /\ \A d \in Chunks : own1[d] = p => pos1[head'[p]] <= pos1[d]
    <3>1. head'[p] = c /\ c # Null /\ own1[c] = p
      BY <1>3, <1>9, <1>18, Consts
    <3>2. \A d \in Chunks : own1[d] = p => pos1[c] <= pos1[d]
      BY <1>18, <1>20
    <3>3. QED
      BY <3>1, <3>2
  <2>3. QED
    BY <2>1, <2>2 DEF Heads
<1>22. Tails(own1)'
  BY <1>1, <1>4, <1>5, <1>18 DEF Lists, Tails, Live
<1>23. Places(own1, pos1)'
  <2>1. ASSUME NEW d \in Chunks, NEW e \in Chunks, own1[d] = own1[e], own1[d] # 0, pos1[d] = pos1[e], d # e
        PROVE  FALSE
    <3>1. CASE d = c
      BY <1>18, <1>20, <2>1, <3>1
    <3>2. CASE e = c
      BY <1>18, <1>20, <2>1, <3>2
    <3>3. CASE d # c /\ e # c
      BY <1>4, <1>18, <1>19, <2>1, <3>3 DEF Lists, Places
    <3>4. QED
      BY <3>1, <3>2, <3>3
  <2>2. QED
    BY <2>1 DEF Places
<1>24. Free(own1)'
  BY <1>1, <1>4, <1>5, <1>6, <1>9, <1>18 DEF Lists, Free
<1>25. Links(own1, pos1)'
  <2>1. ASSUME NEW d \in Chunks, own1[d] # 0
        PROVE  \/ /\ d # tail[own1[d]] /\ next'[d] \in Chunks
                  /\ own1[next'[d]] = own1[d] /\ pos1[next'[d]] = pos1[d] + 1
               \/ /\ \A e \in Chunks : own1[e] = own1[d] => pos1[e] <= pos1[d]
                  /\ IF Live(own1[d]) THEN d = tail[own1[d]] ELSE next'[d] = Null
    <3>1. CASE d = c /\ h = Null
      <4>1. own1[d] = p /\ next'[d] = Null /\ ~Live(p) /\ \A e \in Chunks : own1[e] = p => e = c
        BY <1>8, <1>9, <1>18, <3>1, Consts
      <4>2. QED
        BY <1>20, <3>1, <4>1
    <3>2. CASE d = c /\ h # Null
      <4>1. own1[d] = p /\ next'[d] = h /\ h \in Chunks /\ own[h] = p
        BY <1>8, <1>9, <1>18, <3>2
      <4>2. own1[h] = p /\ pos1[h] = pos[h] /\ pos1[c] = pos[h] - 1 /\ pos[h] \in Int
        BY <1>18, <1>19, <1>20, <4>1
      <4>3. QED
        BY <1>3, <1>11, <3>2, <4>1, <4>2
    <3>3. CASE d # c
      <4>1. own1[d] = own[d] /\ pos1[d] = pos[d] /\ next'[d] = next[d]
        BY <1>9, <1>18, <1>19, <3>3
      <4>2. CASE /\ d # tail[own[d]] /\ next[d] \in Chunks
                 /\ own[next[d]] = own[d] /\ pos[next[d]] = pos[d] + 1
        <5>1. next[d] # c
          BY <1>5, <2>1, <4>1, <4>2
        <5>2. QED
          BY <1>18, <1>19, <4>1, <4>2, <5>1
      <4>3. CASE /\ \A e \in Chunks : own[e] = own[d] => pos[e] <= pos[d]
                 /\ IF Live(own[d]) THEN d = tail[own[d]] ELSE next[d] = Null
        <5>1. \A e \in Chunks : own1[e] = own[d] => pos1[e] <= pos1[d]
          <6>1. ASSUME NEW e \in Chunks, own1[e] = own[d] PROVE pos1[e] <= pos1[d]
            <7>1. CASE e = c
              BY <1>18, <1>20, <6>1, <7>1
            <7>2. CASE e # c
              BY <1>18, <1>19, <4>1, <4>3, <6>1, <7>2
            <7>3. QED
              BY <7>1, <7>2
          <6>2. QED
            BY <6>1
        <5>2. QED
          BY <4>1, <4>3, <5>1
      <4>4. QED
        BY <1>4, <2>1, <4>1, <4>2, <4>3 DEF Lists, Links
    <3>4. QED
      BY <3>1, <3>2, <3>3
  <2>2. QED
    BY <1>1, <2>1 DEF Links, Live
<1>26. Kept(own1)'
  <2>1. Provided \subseteq Chunks /\ Kept(own) /\ p # 0 /\ (Sound' => Sound)
    BY <1>1, <1>2, <1>4, <1>6, ProvidedChunks DEF Lists, Sound, Typed
  <2>2. QED
    BY <1>1, <1>5, <1>12, <1>18, <2>1 DEF Kept, Plain
<1>27. Racing(own1)'
  <2>1. \A u \in Threads : pc[u] = "grow" => u # t /\ threadId[u] # p
    BY <1>1 DEF Full, Numbers
  <2>2. QED
    BY <1>1, <1>3, <1>4, <1>18, <2>1 DEF Lists, Racing
<1>28. Lists(own1, pos1)'
  BY <1>18, <1>19, <1>21, <1>22, <1>23, <1>24, <1>25, <1>26, <1>27 DEF Lists
<1>29. QED
  BY <1>10, <1>13, <1>14, <1>15, <1>16, <1>17, <1>28 DEF Full

\* free_append, first half: the last chunk is linked to the one that is freed.
LEMMA FreeAppendI == ASSUME Full, Tame', NEW t \in Threads, NEW c \in Chunks, FreeAppend(t, c) PROVE Full'
<1> DEFINE p == tag[c]
<1>1. /\ crashed = "no" /\ pc[t] = "idle" /\ threadId[t] # 0 /\ held[c] > 0 /\ Tagged
      /\ pc' = [pc EXCEPT ![t] = "publish"] /\ held' = [held EXCEPT ![c] = held[c] - 1]
      /\ arg' = [arg EXCEPT ![t] = c] /\ lockTail[p] = None /\ lockTail' = [lockTail EXCEPT ![p] = t]
      /\ next' = [d \in Chunks |-> IF d = tail[p] THEN c ELSE next[d]]
      /\ UNCHANGED <<kind, threadIdCounter, threadId, head, tail, nextSize, blocks, tag,
                     purges, exits, raced, crossed>>
  BY DEF FreeAppend, Goto, LockFree, Linked, registry, memory
<1>2. Typed /\ ~crossed
  BY <1>1 DEF Full, Positions, Steps
<1>3. PICK own, pos : Lists(own, pos)
  BY DEF Full
<1>4. /\ c \in InUse /\ c \in Provided /\ held[c] = 1 /\ own[c] = 0
      /\ \A u \in Threads : arg[u] # c
      /\ p \in Pools /\ c \in blocks[p] /\ Live(p)
  BY <1>1, <1>2, <1>3, InUseApart
<1>5. tail[p] \in Chunks /\ own[tail[p]] = p
  BY <1>3, <1>4 DEF Lists, Tails
<1>6. crashed' = "no" /\ arg[t] = Null
  BY <1>1, <1>5, Consts DEF FreeAppend, Full, Positions, Steps
<1>7. /\ \A u \in Threads : /\ pc'[u] = IF u = t THEN "publish" ELSE pc[u]
                            /\ arg'[u] = IF u = t THEN c ELSE arg[u]
      /\ \A d \in Chunks : /\ next'[d] = IF d = tail[p] THEN c ELSE next[d]
                           /\ held'[d] = IF d = c THEN 0 ELSE held[d]
      /\ \A q \in Pools : lockTail'[q] = IF q = p THEN t ELSE lockTail[q]
  BY <1>1, <1>2, <1>4 DEF Typed, Types
<1>8. Typed'
  <2>1. held' \in [Chunks -> {0, 1}]
    <3>1. held[c] - 1 = 0
      BY <1>4
    <3>2. QED
      BY <1>1, <1>2, <3>1 DEF Typed, Types
  <2>2. next' \in [Chunks -> Chunks \cup {Null, Junk}]
    BY <1>1, <1>2 DEF Typed, Types
  <2>3. pc' \in [Threads -> {"idle", "pop", "grow", "publish"}] /\ arg' \in [Threads -> Chunks \cup {Null}]
        /\ lockTail' \in [Pools -> Threads \cup {None}]
    BY <1>1, <1>2 DEF Typed, Types
  <2>4. QED
    BY <1>1, <1>2, <1>6, <2>1, <2>2, <2>3 DEF Typed, Types
<1>9. Provided' = Provided
  BY <1>1 DEF Provided
<1>10. InUse' = InUse
  <2>1. {arg'[u] : u \in Threads} \ {Null} = ({arg[u] : u \in Threads} \ {Null}) \cup {c}
    BY <1>6, <1>7, Consts
  <2>2. {d \in Chunks : held'[d] > 0} = {d \in Chunks : held[d] > 0} \ {c}
    BY <1>7
  <2>3. QED
    BY <1>4, <2>1, <2>2 DEF InUse
<1>11. FreedToItsPool' /\ Numbers' /\ OverrunNeedsTurnover'
  BY <1>1, <1>6, <1>10 DEF Full, FreedToItsPool, Numbers, OverrunNeedsTurnover
<1>12. Exclusive'
  BY <1>1, <1>4, <1>7, <1>10, <1>9 DEF Full, Exclusive
<1>13. Unused'
  BY <1>1, <1>6, <1>7 DEF Full, Unused, Sound, Live
<1>14. Positions'
  <2>1. ASSUME NEW u \in Threads, pc[u] = "publish"
        PROVE  /\ tag[arg[u]] # p /\ arg'[u] = arg[u]
               /\ lockTail'[tag[arg[u]]] = u
               /\ next'[tail[tag[arg[u]]]] = next[tail[tag[arg[u]]]]
    <3>1. u # t /\ arg'[u] = arg[u] /\ lockTail[tag[arg[u]]] = u /\ None # u
      BY <1>1, <1>7, <2>1, SizeAssumption DEF Full, Positions, Steps
    <3>2. tag[arg[u]] # p /\ tag[arg[u]] \in Pools /\ tail[tag[arg[u]]] \in Chunks /\ Live(tag[arg[u]])
      BY <1>1, <2>1, <3>1, PublishLive
    <3>3. tail[tag[arg[u]]] # tail[p]
      BY <1>3, <1>5, <3>2 DEF Lists, Tails
    <3>4. QED
      BY <1>7, <3>1, <3>2, <3>3
  <2>2. lockTail'[p] = t /\ next'[tail[p]] = c
    BY <1>4, <1>5, <1>7
  <2>3. QED
    BY <1>1, <1>7, <2>1, <2>2 DEF Full, Positions, Steps, Tagged, Live
<1>15. Heads(own, pos)' /\ Tails(own)' /\ Places(own, pos)'
  BY <1>1, <1>3 DEF Lists, Heads, Tails, Places, Live
<1>16. Links(own, pos)'
  BY <1>1, <1>3, <1>4, <1>5, <1>7 DEF Lists, Links, Live
<1>17. Free(own)'
  BY <1>1, <1>3, <1>4, <1>7, <1>9 DEF Lists, Free
<1>18. Kept(own)' /\ Racing(own)'
  BY <1>1, <1>3, <1>7, <1>10, <1>9 DEF Lists, Kept, Racing, Sound, Plain
<1>19. Lists(own, pos)'
  BY <1>3, <1>15, <1>16, <1>17, <1>18 DEF Lists
<1>20. QED
  BY <1>8, <1>11, <1>12, <1>13, <1>14, <1>19 DEF Full

\* free_append, second half: the chunk is the last of the list.
LEMMA PublishI == ASSUME Full, Tame', NEW t \in Threads, Publish(t) PROVE Full'
<1> DEFINE c == arg[t]
           p == tag[c]
           last == tail[p]
<1>1. /\ crashed = "no" /\ pc[t] = "publish" /\ pc' = [pc EXCEPT ![t] = "idle"]
      /\ tail' = [tail EXCEPT ![p] = c] /\ lockTail' = [lockTail EXCEPT ![p] = None]
      /\ arg' = [arg EXCEPT ![t] = Null]
      /\ UNCHANGED <<kind, threadIdCounter, threadId, head, nextSize, blocks, next, tag, held,
                     purges, exits, crossed, crashed>>
      /\ raced' = IF \E u \in Threads : threadId[u] = p /\ pc[u] = "grow" THEN raced \cup {last} ELSE raced
  BY DEF Publish, Goto, registry, memory
<1>2. Typed
  BY DEF Full
<1>3. PICK own, pos : Lists(own, pos)
  BY DEF Full
<1>4. c \in Chunks /\ p \in Pools /\ Live(p) /\ c \in InUse /\ c \in blocks[p] /\ last \in Chunks
  BY <1>1, PublishLive
<1>5. /\ held[c] = 0 /\ c \in Provided /\ own[c] = 0 /\ next[last] = c /\ lockTail[p] = t
      /\ Provided' = Provided
  <2>1. Provided' = Provided
    BY <1>1 DEF Provided
  <2>2. QED
    BY <1>1, <1>3, <1>4, <2>1 DEF Full, Exclusive, Positions, Steps, Lists, Free
<1>6. \A u \in Threads : u # t /\ pc[u] = "publish" => tag[arg[u]] # p /\ arg[u] # c
  BY <1>1, <1>5 DEF Full, Positions, Steps
<1>7. \A u \in Threads : u # t => arg[u] # c
  BY <1>4, <1>6, Consts DEF Full, Positions, Steps
<1>8. /\ own \in [Chunks -> {0} \cup Pools] /\ pos \in [Chunks -> Int]
      /\ own[last] = p /\ p # 0 /\ \A d \in Chunks : own[d] = p => pos[d] <= pos[last]
  <2>1. own \in [Chunks -> {0} \cup Pools] /\ pos \in [Chunks -> Int] /\ own[last] = p /\ p # 0
    BY <1>3, <1>4, Consts DEF Lists, Tails
  <2>2. QED
    BY <1>3, <1>4, <2>1 DEF Lists, Links
<1>9. /\ \A u \in Threads : /\ pc'[u] = IF u = t THEN "idle" ELSE pc[u]
                            /\ arg'[u] = IF u = t THEN Null ELSE arg[u]
      /\ \A q \in Pools : /\ tail'[q] = IF q = p THEN c ELSE tail[q]
                          /\ lockTail'[q] = IF q = p THEN None ELSE lockTail[q]
  BY <1>1, <1>2 DEF Typed, Types
<1>10. Typed'
  <2>1. /\ tail' \in [Pools -> Chunks \cup {Null}] /\ lockTail' \in [Pools -> Threads \cup {None}]
        /\ pc' \in [Threads -> {"idle", "pop", "grow", "publish"}] /\ arg' \in [Threads -> Chunks \cup {Null}]
    BY <1>1, <1>2, <1>4 DEF Typed, Types
  <2>2. raced' \subseteq Chunks
    BY <1>1, <1>2, <1>4 DEF Typed, Types
  <2>3. QED
    BY <1>1, <1>2, <2>1, <2>2 DEF Typed, Types
<1>11. InUse' = InUse \ {c}
  <2>1. {arg'[u] : u \in Threads} \ {Null} = ({arg[u] : u \in Threads} \ {Null}) \ {c}
    BY <1>7, <1>9
  <2>2. QED
    BY <1>1, <1>5, <2>1 DEF InUse
<1>12. FreedToItsPool' /\ OverrunNeedsTurnover'
  BY <1>1, <1>11 DEF Full, FreedToItsPool, OverrunNeedsTurnover
<1>13. Numbers'
  <2>1. last # Null
    BY <1>4, Consts
  <2>2. QED
    BY <1>1, <1>9, <2>1 DEF Full, Numbers
<1>14. Exclusive'
  <2>1. Null \notin Chunks
    BY Consts
  <2>2. QED
    BY <1>1, <1>5, <1>9, <1>11, <2>1 DEF Full, Exclusive
<1>15. Unused'
  BY <1>1, <1>4, <1>9 DEF Full, Unused, Sound, Live, Typed, Types
<1>16. Positions'
  <2>1. \A u \in Threads : u # t /\ pc[u] = "publish" =>
          /\ arg'[u] = arg[u] /\ lockTail'[tag[arg[u]]] = lockTail[tag[arg[u]]]
          /\ tail'[tag[arg[u]]] = tail[tag[arg[u]]]
    BY <1>6, <1>9, PublishLive
  <2>2. head[p] # c
    BY <1>3, <1>4, <1>5, <1>8 DEF Lists, Heads
  <2>3. \A u \in Threads : threadId[u] # 0 => threadId[u] \in Pools
    BY <1>2 DEF Typed, Types
  <2>4. QED
    BY <1>1, <1>4, <1>9, <2>1, <2>2, <2>3 DEF Full, Positions, Steps, Tagged, Live
<1>17. PICK own1 \in [Chunks -> {0} \cup Pools] : \A d \in Chunks : own1[d] = IF d = c THEN p ELSE own[d]
  <2>1. [own EXCEPT ![c] = p] \in [Chunks -> {0} \cup Pools]
    BY <1>4, <1>8
  <2>2. \A d \in Chunks : [own EXCEPT ![c] = p][d] = IF d = c THEN p ELSE own[d]
    BY <1>8
  <2>3. QED
    BY <2>1, <2>2
<1>18. PICK pos1 \in [Chunks -> Int] : \A d \in Chunks : pos1[d] = IF d = c THEN pos[last] + 1 ELSE pos[d]
  <2>1. pos[last] + 1 \in Int
    BY <1>4, <1>8
  <2>2. /\ [pos EXCEPT ![c] = pos[last] + 1] \in [Chunks -> Int]
        /\ \A d \in Chunks : [pos EXCEPT ![c] = pos[last] + 1][d] = IF d = c THEN pos[last] + 1 ELSE pos[d]
    BY <1>8, <2>1
  <2>3. QED
    BY <2>2
<1>19. /\ \A d \in Chunks : pos[d] \in Int /\ pos1[d] \in Int
       /\ \A d \in Chunks : own[d] = p => d # c /\ pos1[d] < pos1[c]
  <2>1. \A d \in Chunks : pos[d] \in Int /\ pos1[d] \in Int
    BY <1>8, <1>18
  <2>2. QED
    BY <1>4, <1>5, <1>8, <1>18, <2>1
<1>20. Heads(own1, pos1)'
  <2>1. ASSUME NEW q \in Pools, q # p
        PROVE  IF head[q] = Null THEN \A d \in Chunks : own1[d] # q
               ELSE /\ head[q] \in Chunks /\ own1[head[q]] = q
                    /\ \A d \in Chunks : own1[d] = q => pos1[head[q]] <= pos1[d]
    <3>1. \A d \in Chunks : (own1[d] = q <=> own[d] = q) /\ (own1[d] = q => pos1[d] = pos[d])
      BY <1>5, <1>17, <1>18, <2>1, Consts
    <3>2. QED
      BY <1>3, <3>1 DEF Lists, Heads
  <2>2. /\ head[p] \in Chunks /\ head[p] # Null /\ own1[head[p]] = p
        /\ \A d \in Chunks : own1[d] = p => pos1[head[p]] <= pos1[d]
    <3>1. head[p] # Null /\ head[p] \in Chunks /\ own[head[p]] = p /\ \A d \in Chunks : own[d] = p => pos[head[p]] <= pos[d]
      BY <1>3, <1>4, <1>8 DEF Lists, Heads
    <3>2. head[p] # c
      BY <1>5, <1>8, <3>1
    <3>3. own1[head[p]] = p /\ pos1[head[p]] = pos[head[p]]
      BY <1>17, <1>18, <3>1, <3>2
    <3>4. ASSUME NEW d \in Chunks, own1[d] = p PROVE pos1[head[p]] <= pos1[d]
      <4>1. CASE d = c
        BY <1>19, <3>1, <4>1
      <4>2. CASE d # c
        BY <1>17, <1>18, <3>1, <3>3, <3>4, <4>2
      <4>3. QED
        BY <4>1, <4>2
    <3>5. QED
      BY <3>1, <3>3, <3>4
  <2>3. QED
    BY <1>1, <2>1, <2>2 DEF Heads
<1>21. Tails(own1)'
  <2>1. ASSUME NEW q \in Pools
        PROVE  IF Live(q) THEN tail'[q] \in Chunks /\ own1[tail'[q]] = q
               ELSE purges = 0 /\ exits = 0 => tail'[q] = Null
    <3>1. CASE q = p
      BY <1>4, <1>9, <1>17, <3>1
    <3>2. CASE q # p
      <4>1. /\ Live(q) => tail[q] \in Chunks /\ own[tail[q]] = q
            /\ ~Live(q) /\ purges = 0 /\ exits = 0 => tail[q] = Null
        BY <1>3 DEF Lists, Tails
      <4>2. Live(q) => tail[q] # c
        BY <1>5, <4>1, Consts
      <4>3. QED
        BY <1>9, <1>17, <3>2, <4>1, <4>2
    <3>3. QED
      BY <3>1, <3>2
  <2>2. QED
    BY <1>1, <2>1 DEF Tails, Live
<1>22. Places(own1, pos1)'
  <2>1. ASSUME NEW d \in Chunks, NEW e \in Chunks, own1[d] = own1[e], own1[d] # 0, pos1[d] = pos1[e], d # e
        PROVE  FALSE
    <3>1. CASE d = c
      BY <1>17, <1>19, <2>1, <3>1
    <3>2. CASE e = c
      BY <1>17, <1>19, <2>1, <3>2
    <3>3. CASE d # c /\ e # c
      BY <1>3, <1>17, <1>18, <2>1, <3>3 DEF Lists, Places
    <3>4. QED
      BY <3>1, <3>2, <3>3
  <2>2. QED
    BY <2>1 DEF Places
<1>23. Free(own1)'
  <2>1. \A d \in Chunks : d # Null
    BY Consts
  <2>2. QED
    BY <1>1, <1>3, <1>4, <1>5, <1>7, <1>9, <1>17, <2>1 DEF Lists, Free
<1>24. Links(own1, pos1)'
  <2>1. ASSUME NEW d \in Chunks, own1[d] # 0
        PROVE  \/ /\ d # tail'[own1[d]] /\ next[d] \in Chunks
                  /\ own1[next[d]] = own1[d] /\ pos1[next[d]] = pos1[d] + 1
               \/ /\ \A e \in Chunks : own1[e] = own1[d] => pos1[e] <= pos1[d]
                  /\ IF Live(own1[d]) THEN d = tail'[own1[d]] ELSE next[d] = Null
    <3>1. CASE d = c
      <4>1. own1[d] = p /\ d = tail'[p]
        BY <1>4, <1>9, <1>17, <3>1
      <4>2. \A e \in Chunks : own1[e] = p => pos1[e] <= pos1[c]
        BY <1>4, <1>17, <1>19
      <4>3. QED
        BY <1>4, <3>1, <4>1, <4>2
    <3>2. CASE d = last
      <4>1. d # c /\ own1[d] = p /\ pos1[d] = pos[last] /\ next[d] = c /\ own1[c] = p
            /\ pos1[c] = pos[last] + 1 /\ tail'[p] = c
        BY <1>4, <1>5, <1>8, <1>9, <1>17, <1>18, <3>2
      <4>2. QED
        BY <1>4, <4>1
    <3>3. CASE d # c /\ d # last
      <4>1. own1[d] = own[d] /\ pos1[d] = pos[d] /\ own[d] \in Pools /\ own[d] # 0
        BY <1>8, <1>17, <1>18, <2>1, <3>3
      <4>2. CASE /\ d # tail[own[d]] /\ next[d] \in Chunks
                 /\ own[next[d]] = own[d] /\ pos[next[d]] = pos[d] + 1
        <5>1. next[d] # c /\ d # tail'[own[d]]
          BY <1>5, <1>9, <3>3, <4>1, <4>2
        <5>2. QED
          BY <1>17, <1>18, <4>1, <4>2, <5>1
      <4>3. CASE /\ \A e \in Chunks : own[e] = own[d] => pos[e] <= pos[d]
                 /\ IF Live(own[d]) THEN d = tail[own[d]] ELSE next[d] = Null
        <5>1. own[d] # p
          BY <1>4, <3>3, <4>3
        <5>2. tail'[own[d]] = tail[own[d]]
          BY <1>9, <4>1, <5>1
        <5>3. \A e \in Chunks : own1[e] = own[d] => own[e] = own[d] /\ pos1[e] = pos[e]
          BY <1>17, <1>18, <5>1
        <5>4. QED
          BY <4>1, <4>3, <5>2, <5>3
      <4>4. QED
        BY <1>3, <4>1, <4>2, <4>3 DEF Lists, Links
    <3>4. QED
      BY <3>1, <3>2, <3>3
  <2>2. QED
    BY <1>1, <2>1 DEF Links, Live
<1>25. Kept(own1)'
  <2>1. Provided \subseteq Chunks /\ Kept(own) /\ raced \subseteq raced'
    BY <1>1, <1>2, <1>3, ProvidedChunks DEF Lists, Typed
  <2>2. QED
    BY <1>1, <1>5, <1>8, <1>11, <1>17, <2>1 DEF Kept, Plain, Sound
<1>26. Racing(own1)'
  <2>1. ASSUME NEW u \in Threads, pc'[u] = "grow", NEW d \in Chunks, own1[d] = threadId[u]
        PROVE  d = tail'[threadId[u]] \/ d \in raced'
    <3>1. pc[u] = "grow" /\ raced \subseteq raced' /\ threadId[u] # 0 /\ threadId[u] \in Pools
      BY <1>1, <1>2, <1>9, <2>1 DEF Full, Positions, Steps, Typed, Types
    <3>2. CASE threadId[u] = p
      <4>1. last \in raced' /\ tail'[p] = c
        BY <1>1, <1>4, <1>9, <3>1, <3>2
      <4>2. CASE d = c
        BY <3>2, <4>1, <4>2
      <4>3. CASE d # c
        BY <1>3, <1>17, <2>1, <3>1, <3>2, <4>1, <4>3 DEF Lists, Racing
      <4>4. QED
        BY <4>2, <4>3
    <3>3. CASE threadId[u] # p
      <4>1. own[d] = threadId[u] /\ tail'[threadId[u]] = tail[threadId[u]]
        BY <1>9, <1>17, <2>1, <3>1, <3>3
      <4>2. QED
        BY <1>3, <3>1, <4>1 DEF Lists, Racing
    <3>4. QED
      BY <3>2, <3>3
  <2>2. QED
    BY <1>1, <2>1 DEF Racing
<1>27. Lists(own1, pos1)'
  BY <1>17, <1>18, <1>20, <1>21, <1>22, <1>23, <1>24, <1>25, <1>26 DEF Lists
<1>28. QED
  BY <1>10, <1>12, <1>13, <1>14, <1>15, <1>16, <1>27 DEF Full

\* PurgeMemory: the list is given up and nothing of the blocks is in use.
LEMMA PurgeMemoryI ==
  ASSUME Full, NEW p \in Pools, PurgeMemory(p),
         UNCHANGED <<kind, tail, next, tag, arg, raced, crossed>>,
         ~Sound' \/ (Plain' /\ exits' # 0), ~crossed, purges' # 0 \/ exits' # 0,
         \A u \in Threads : pc'[u] = "grow" => pc[u] = "grow" /\ threadId'[u] = threadId[u]
  PROVE  FreedToItsPool' /\ Exclusive' /\ \E own, pos : Lists(own, pos)'
<1>1. /\ \A u \in Threads : arg[u] \notin blocks[p]
      /\ blocks' = [blocks EXCEPT ![p] = {}] /\ head' = [head EXCEPT ![p] = Null]
      /\ held' = [c \in Chunks |-> IF c \in blocks[p] THEN 0 ELSE held[c]]
  BY DEF PurgeMemory
<1>2. Typed
  BY DEF Full
<1>3. /\ \A q \in Pools : /\ blocks'[q] = IF q = p THEN {} ELSE blocks[q]
                          /\ head'[q] = IF q = p THEN Null ELSE head[q]
      /\ \A c \in Chunks : held'[c] = IF c \in blocks[p] THEN 0 ELSE held[c]
  BY <1>1, <1>2 DEF Typed, Types
<1>4. InUse' = InUse \ blocks[p]
  BY <1>1, <1>3 DEF InUse
<1>5. FreedToItsPool'
  <2>1. ASSUME ~crossed, NEW c \in InUse' PROVE tag[c] \in Pools /\ c \in blocks'[tag[c]]
    <3>1. tag[c] \in Pools /\ c \in blocks[tag[c]] /\ c \notin blocks[p]
      BY <1>4, <2>1 DEF Full, FreedToItsPool
    <3>2. QED
      BY <1>3, <3>1
  <2>2. QED
    BY <2>1 DEF FreedToItsPool
<1>6. Exclusive'
  <2>1. ASSUME NEW c \in InUse' PROVE c \in Provided'
    <3>1. tag[c] \in Pools /\ c \in blocks[tag[c]] /\ c \notin blocks[p]
      BY <1>4, <2>1 DEF Full, FreedToItsPool
    <3>2. c \in blocks'[tag[c]]
      BY <1>3, <3>1
    <3>3. QED
      BY <3>1, <3>2 DEF Provided
  <2>2. QED
    BY <1>3, <2>1 DEF Full, Exclusive
<1>7. PICK own, pos : Lists(own, pos)
  BY DEF Full
<1>8. own \in [Chunks -> {0} \cup Pools] /\ pos \in [Chunks -> Int] /\ p # 0
  BY <1>7, Consts DEF Lists
<1>9. PICK own1 \in [Chunks -> {0} \cup Pools] : \A c \in Chunks : own1[c] = IF own[c] = p THEN 0 ELSE own[c]
  <2> DEFINE f == [c \in Chunks |-> IF own[c] = p THEN 0 ELSE own[c]]
  <2>1. f \in [Chunks -> {0} \cup Pools] /\ \A c \in Chunks : f[c] = IF own[c] = p THEN 0 ELSE own[c]
    BY <1>8
  <2>2. QED
    BY <2>1
<1>10. \A c \in Chunks : own1[c] # p /\ (own1[c] # 0 => own1[c] = own[c])
  BY <1>8, <1>9
<1>11. Heads(own1, pos)'
  <2>1. ASSUME NEW q \in Pools, q # p
        PROVE  IF head'[q] = Null THEN \A c \in Chunks : own1[c] # q
               ELSE /\ head'[q] \in Chunks /\ own1[head'[q]] = q
                    /\ \A c \in Chunks : own1[c] = q => pos[head'[q]] <= pos[c]
    <3>1. head'[q] = head[q] /\ q # 0 /\ \A c \in Chunks : own1[c] = q <=> own[c] = q
      BY <1>3, <1>9, <2>1, Consts
    <3>2. QED
      BY <1>7, <3>1 DEF Lists, Heads
  <2>2. head'[p] = Null /\ \A c \in Chunks : own1[c] # p
    BY <1>3, <1>10
  <2>3. QED
    BY <2>1, <2>2 DEF Heads
<1>12. Tails(own1)'
  <2>1. ASSUME NEW q \in Pools
        PROVE  IF blocks'[q] # {} THEN tail[q] \in Chunks /\ own1[tail[q]] = q
               ELSE purges' = 0 /\ exits' = 0 => tail[q] = Null
    <3>1. blocks[q] # {} => tail[q] \in Chunks /\ own[tail[q]] = q
      BY <1>7 DEF Lists, Tails, Live
    <3>2. CASE q = p
      BY <1>3, <1>9, <3>1, <3>2
    <3>3. CASE q # p
      BY <1>3, <1>9, <3>1, <3>3
    <3>4. QED
      BY <3>2, <3>3
  <2>2. QED
    BY <2>1 DEF Tails, Live
<1>13. Places(own1, pos)'
  BY <1>7, <1>10 DEF Lists, Places
<1>14. Links(own1, pos)'
  <2>1. ASSUME NEW c \in Chunks, own1[c] # 0
        PROVE  \/ /\ c # tail[own1[c]] /\ next[c] \in Chunks
                  /\ own1[next[c]] = own1[c] /\ pos[next[c]] = pos[c] + 1
               \/ /\ \A d \in Chunks : own1[d] = own1[c] => pos[d] <= pos[c]
                  /\ IF blocks'[own1[c]] # {} THEN c = tail[own1[c]] ELSE next[c] = Null
    <3>1. own1[c] = own[c] /\ own[c] # p /\ own[c] # 0 /\ own[c] \in Pools /\ blocks'[own[c]] = blocks[own[c]]
      BY <1>3, <1>8, <1>9, <2>1
    <3>2. CASE /\ c # tail[own[c]] /\ next[c] \in Chunks
               /\ own[next[c]] = own[c] /\ pos[next[c]] = pos[c] + 1
      BY <1>9, <3>1, <3>2
    <3>3. CASE /\ \A d \in Chunks : own[d] = own[c] => pos[d] <= pos[c]
               /\ IF blocks[own[c]] # {} THEN c = tail[own[c]] ELSE next[c] = Null
      BY <1>10, <2>1, <3>1, <3>3
    <3>4. QED
      BY <1>7, <3>1, <3>2, <3>3 DEF Lists, Links, Live
  <2>2. QED
    BY <2>1 DEF Links, Live
<1>15. Free(own1)'
  <2>1. ASSUME NEW c \in Chunks, own1[c] # 0
        PROVE  /\ c \in Provided' /\ held'[c] = 0 /\ \A t \in Threads : arg[t] # c
               /\ ~crossed => c \in blocks'[own1[c]]
    <3>1. own1[c] = own[c] /\ own[c] # p /\ own[c] # 0 /\ own[c] \in Pools /\ blocks'[own[c]] = blocks[own[c]]
      BY <1>3, <1>8, <1>9, <2>1
    <3>2. held[c] = 0 /\ (\A t \in Threads : arg[t] # c) /\ c \in blocks[own[c]]
      BY <1>7, <3>1 DEF Lists, Free
    <3>3. c \in Provided'
      BY <3>1, <3>2 DEF Provided
    <3>4. QED
      BY <1>3, <3>1, <3>2, <3>3
  <2>2. QED
    BY <2>1 DEF Free
<1>16. Kept(own1)'
  BY DEF Kept
<1>17. Racing(own1)'
  <2>1. \A u \in Threads : pc[u] = "grow" => threadId[u] # 0
    BY DEF Full, Positions, Steps
  <2>2. QED
    BY <1>7, <1>9, <2>1 DEF Lists, Racing
<1>18. Lists(own1, pos)'
  BY <1>8, <1>9, <1>11, <1>12, <1>13, <1>14, <1>15, <1>16, <1>17 DEF Lists
<1>19. QED
  BY <1>5, <1>6, <1>18

\* Purge.
LEMMA PurgeI == ASSUME Full, Tame', NEW t \in Threads, Purge(t) PROVE Full'
<1> DEFINE p == threadId[t]
<1>1. /\ crashed = "no" /\ crashed' = "no" /\ pc[t] = "idle" /\ pc' = [pc EXCEPT ![t] = "idle"] /\ p # 0
      /\ purges + exits < MaxEnds /\ purges' = purges + 1 /\ PurgeMemory(p)
      /\ UNCHANGED <<kind, threadIdCounter, threadId, exits, tail, lockTail, next, tag, arg, raced, crossed>>
  BY DEF Purge, Goto, registry
<1>2. Typed
  BY DEF Full
<1>3. p \in Pools /\ pc' = pc /\ purges \in Nat /\ exits \in Nat /\ purges + 1 # 0 /\ purges + 1 <= MaxEnds
  BY <1>1, <1>2, Consts DEF Typed, Types
<1>4. ~Sound' /\ purges' # 0 /\ ~crossed
  BY <1>1, <1>3 DEF Sound, Tame
<1>5. FreedToItsPool' /\ Exclusive' /\ \E own, pos : Lists(own, pos)'
  BY <1>1, <1>3, <1>4, PurgeMemoryI
<1>6. Typed'
  <2>1. /\ head' \in [Pools -> Chunks \cup {Null, Junk}] /\ blocks' \in [Pools -> SUBSET Chunks]
        /\ held' \in [Chunks -> {0, 1}]
    BY <1>1, <1>2 DEF PurgeMemory, Typed, Types
  <2>2. nextSize' \in [Pools -> Nat \ {0, 1}]
    <3>1. PurgeSize \in Nat \ {0, 1}
      BY SizeAssumption
    <3>2. QED
      BY <1>1, <1>2, <3>1 DEF PurgeMemory, Typed, Types
  <2>3. purges' \in 0..MaxEnds
    BY <1>1, <1>3, Consts
  <2>4. QED
    BY <1>1, <1>2, <1>3, <2>1, <2>2, <2>3 DEF Typed, Types
<1>7. Numbers' /\ OverrunNeedsTurnover' /\ Unused'
  BY <1>1, <1>4 DEF Full, Numbers, OverrunNeedsTurnover, Unused
<1>8. \A q \in Pools : q # p => head'[q] = head[q] /\ blocks'[q] = blocks[q]
  BY <1>1, <1>2 DEF PurgeMemory, Typed, Types
<1>9. Positions'
  <2>1. \A u \in Threads : u # t /\ threadId[u] # 0 => threadId[u] # p /\ threadId[u] \in Pools
    BY <1>1, <1>2 DEF Full, Numbers, Typed, Types
  <2>2. QED
    BY <1>1, <1>3, <1>8, <2>1 DEF Full, Positions, Steps, Tagged, Live
<1>10. QED
  BY <1>5, <1>6, <1>7, <1>9 DEF Full

\* A thread ends: its number is not given to another thread.
LEMMA ExitBasic == ASSUME Basic, NEW t \in Threads, Exit(t) PROVE Basic'
<1> USE DEF Basic
<1> DEFINE p == threadId[t]
           With == {u \in Threads : threadId[u] # 0}
<1>1. /\ crashed = "no" /\ crashed' = "no" /\ pc[t] = "idle" /\ pc' = [pc EXCEPT ![t] = "idle"] /\ p # 0
      /\ purges + exits < MaxEnds /\ exits' = exits + 1 /\ threadId' = [threadId EXCEPT ![t] = 0]
      /\ (Plain => PurgeMemory(p)) /\ (~Plain => UNCHANGED <<blocks, held, nextSize, head>>)
      /\ UNCHANGED <<kind, threadIdCounter, tail, lockTail, next, tag, arg, purges, raced, crossed>>
  BY DEF Exit, Goto
<1>2. p \in Pools /\ pc' = pc /\ purges \in Nat /\ exits \in Nat /\ exits + 1 <= MaxEnds
  BY <1>1, Consts DEF Types
<1>3. \A u \in Threads : threadId'[u] = IF u = t THEN 0 ELSE threadId[u]
  BY <1>1 DEF Types
<1>4. Types'
  <2>1. /\ head' \in [Pools -> Chunks \cup {Null, Junk}] /\ blocks' \in [Pools -> SUBSET Chunks]
        /\ held' \in [Chunks -> Nat]
    BY <1>1 DEF PurgeMemory, Types
  <2>2. nextSize' \in [Pools -> Nat \ {0, 1}]
    <3>1. PurgeSize \in Nat \ {0, 1}
      BY SizeAssumption
    <3>2. QED
      BY <1>1, <3>1 DEF PurgeMemory, Types
  <2>3. exits' \in 0..MaxEnds
    BY <1>1, <1>2, Consts
  <2>4. threadId' \in [Threads -> {0} \cup Pools]
    BY <1>1 DEF Types
  <2>5. QED
    BY <1>1, <1>2, <2>1, <2>2, <2>3, <2>4 DEF Types
<1>5. Numbers'
  <2>1. {u \in Threads : threadId'[u] # 0} = With \ {t} /\ t \in With
    BY <1>1, <1>3
  <2>2. IsFiniteSet(With) /\ Cardinality(With) \in Nat
    <3>1. With \in SUBSET Threads /\ IsFiniteSet(Threads)
      BY SizeAssumption
    <3>2. QED
      BY <3>1, FS_Subset, FS_CardinalityType
  <2>3. Cardinality(With \ {t}) = Cardinality(With) - 1
    BY <2>1, <2>2, FS_RemoveElement
  <2>4. threadIdCounter = exits + Cardinality(With)
    BY DEF Numbers
  <2>5. threadIdCounter' = exits' + Cardinality({u \in Threads : threadId'[u] # 0})
    <3> HIDE DEF With
    <3>1. PICK n \in Nat : n = Cardinality(With)
      BY <2>2
    <3>2. Cardinality({u \in Threads : threadId'[u] # 0}) = n - 1
      BY <2>1, <2>3, <3>1
    <3>3. PICK k \in Nat : k = exits /\ exits' = k + 1 /\ threadIdCounter' = k + n
      BY <1>1, <1>2, <2>4, <3>1
    <3>4. QED
      BY <3>2, <3>3
  <2>6. threadIdCounter \in Nat
    BY Consts DEF Types
  <2>7. QED
    BY <1>1, <1>3, <2>5, <2>6 DEF Numbers
<1>6. Steps' /\ OverrunNeedsTurnover'
  BY <1>1, <1>2, <1>3 DEF Steps, OverrunNeedsTurnover, Tagged
<1>7. QED
  BY <1>4, <1>5, <1>6

\* The pool of a thread that ends stays, or it is purged.
LEMMA ExitI == ASSUME Full, Tame', NEW t \in Threads, Exit(t) PROVE Full'
<1> DEFINE p == threadId[t]
<1>1. /\ crashed = "no" /\ crashed' = "no" /\ pc[t] = "idle" /\ pc' = [pc EXCEPT ![t] = "idle"] /\ p # 0
      /\ purges + exits < MaxEnds /\ exits' = exits + 1 /\ threadId' = [threadId EXCEPT ![t] = 0]
      /\ (Plain => PurgeMemory(p)) /\ (~Plain => UNCHANGED <<blocks, held, nextSize, head>>)
      /\ UNCHANGED <<kind, threadIdCounter, tail, lockTail, next, tag, arg, purges, raced, crossed>>
  BY DEF Exit, Goto
<1>2. Typed
  BY DEF Full
<1>3. p \in Pools /\ pc' = pc /\ purges \in Nat /\ exits \in Nat /\ exits + 1 # 0
  BY <1>1, <1>2, Consts DEF Typed, Types
<1>4. \A u \in Threads : threadId'[u] = IF u = t THEN 0 ELSE threadId[u]
  BY <1>1, <1>2 DEF Typed, Types
<1>5. \A u \in Threads : u # t /\ threadId[u] # 0 => threadId[u] # p /\ threadId[u] \in Pools
  BY <1>1, <1>2 DEF Full, Numbers, Typed, Types
<1>6. FreedToItsPool' /\ Exclusive' /\ \E own, pos : Lists(own, pos)'
  <2>1. CASE Plain
    <3>1. Plain' /\ exits' # 0 /\ ~crossed
      BY <1>1, <1>3, <2>1 DEF Plain, Tame
    <3>2. \A u \in Threads : pc'[u] = "grow" => pc[u] = "grow" /\ threadId'[u] = threadId[u]
      BY <1>1, <1>3, <1>4
    <3>3. QED
      BY <1>1, <1>3, <2>1, <3>1, <3>2, PurgeMemoryI
  <2>2. CASE ~Plain
    <3>1. UNCHANGED <<kind, blocks, held, nextSize, head, tail, next, tag, arg, purges, raced, crossed>>
      BY <1>1, <2>2
    <3>2. InUse' = InUse /\ ~Plain' /\ Provided' = Provided /\ exits' # 0
      BY <1>1, <1>3, <2>2, <3>1 DEF InUse, Plain, Provided
    <3>3. FreedToItsPool' /\ Exclusive'
      BY <3>1, <3>2 DEF Full, FreedToItsPool, Exclusive
    <3>4. PICK own, pos : Lists(own, pos)
      BY DEF Full
    <3>5. Kept(own)'
      BY <2>2, <3>1, <3>2, <3>4 DEF Lists, Kept, Sound
    <3>6. Racing(own)'
      <4>1. \A u \in Threads : pc'[u] = "grow" => pc[u] = "grow" /\ threadId'[u] = threadId[u]
        BY <1>1, <1>3, <1>4
      <4>2. QED
        BY <3>1, <3>4, <4>1 DEF Lists, Racing
    <3>7. Lists(own, pos)'
      BY <3>1, <3>2, <3>4, <3>5, <3>6 DEF Lists, Heads, Tails, Places, Links, Free, Live
    <3>8. QED
      BY <3>3, <3>7
  <2>3. QED
    BY <2>1, <2>2
<1>7. Basic' /\ Typed'
  <2>1. Basic'
    BY ExitBasic DEF Full, Basic, Typed, Positions
  <2>2. held' \in [Chunks -> {0, 1}]
    BY <1>1, <1>2 DEF PurgeMemory, Typed
  <2>3. QED
    BY <2>1, <2>2 DEF Basic, Typed
<1>8. \A q \in Pools : q # p => head'[q] = head[q] /\ blocks'[q] = blocks[q]
  BY <1>1, <1>2 DEF PurgeMemory, Typed, Types
<1>9. Positions'
  <2>1. Steps'
    BY <1>7 DEF Basic
  <2>2. QED
    BY <1>1, <1>3, <1>4, <1>5, <1>8, <2>1 DEF Full, Positions, Steps, Tagged, Live
<1>10. Unused'
  <2>1. (Sound' <=> Sound) /\ crashed' # "link"
    BY <1>1 DEF Sound
  <2>2. Sound /\ blocks'[p] = {} => head'[p] = Null
    BY <1>1, <1>2, <1>3 DEF Full, Unused, PurgeMemory, Typed, Types, Live
  <2>3. QED
    BY <1>1, <1>3, <1>4, <1>5, <1>8, <2>1, <2>2 DEF Full, Unused, Live, Positions, Steps
<1>11. QED
  BY <1>6, <1>7, <1>9, <1>10 DEF Full, Basic
-----------------------------------------------------------------------------
(* Following the links.                                                    *)

\* The chunks within i links of the head.
Followed(p, f, n) ==
  /\ f[0] = {head[p]}
  /\ \A i \in 1..n : f[i] = {head[p]} \cup {next[c] : c \in (f[i - 1] \cap Chunks) \ {tail[p]}}

\* Reach is well-defined, and what it says.
LEMMA ReachDef ==
  ASSUME NEW p \in Pools
  PROVE  \E f : Reach(p) = f[MaxChunks] /\ Followed(p, f, MaxChunks)
<1> DEFINE Upto(n, f) == /\ f = [i \in 0..n |-> f[i]] /\ f[0] = {head[p]}
                         /\ \A i \in 1..n : f[i] = {head[p]} \cup {next[c] : c \in (f[i - 1] \cap Chunks) \ {tail[p]}}
           S == {n \in Nat : \E f : Upto(n, f)}
<1>1. MaxChunks \in Nat
  BY Consts
<1>2. 0 \in S
  <2>1. PICK f : f = [i \in 0..0 |-> {head[p]}]
    OBVIOUS
  <2>2. f[0] = {head[p]} /\ f = [i \in 0..0 |-> f[i]] /\ 1..0 = {}
    BY <2>1
  <2>3. QED
    BY <2>2
<1>3. ASSUME NEW n \in Nat, n \in S PROVE n + 1 \in S
  <2>1. PICK f : Upto(n, f)
    BY <1>3
  <2>2. PICK g : g = [i \in 0..n + 1 |-> IF i = n + 1 THEN {head[p]} \cup {next[c] : c \in (f[n] \cap Chunks) \ {tail[p]}}
                                      ELSE f[i]]
    OBVIOUS
  <2>3. /\ \A i \in 0..n : g[i] = f[i]
        /\ g[n + 1] = {head[p]} \cup {next[c] : c \in (f[n] \cap Chunks) \ {tail[p]}}
        /\ g = [i \in 0..n + 1 |-> g[i]]
    BY <2>2
  <2>4. g[0] = {head[p]}
    <3>1. 0 \in 0..n /\ f[0] = {head[p]}
      BY <2>1
    <3>2. QED
      BY <2>3, <3>1
  <2>5. ASSUME NEW i \in 1..n + 1
        PROVE  g[i] = {head[p]} \cup {next[c] : c \in (g[i - 1] \cap Chunks) \ {tail[p]}}
    <3>1. CASE i = n + 1
      <4>1. i - 1 = n /\ n \in 0..n
        BY <3>1
      <4>2. QED
        BY <2>3, <3>1, <4>1
    <3>2. CASE i # n + 1
      <4>1. i \in 1..n /\ i \in 0..n /\ i - 1 \in 0..n
        BY <3>2
      <4>2. QED
        BY <2>1, <2>3, <4>1
    <3>3. QED
      BY <3>1, <3>2
  <2>6. Upto(n + 1, g)
    BY <2>3, <2>4, <2>5
  <2>7. n + 1 \in Nat
    OBVIOUS
  <2>8. QED
    <3> HIDE DEF Upto
    <3>1. QED
      BY <2>6, <2>7
<1>4. MaxChunks \in S
  <2> HIDE DEF S
  <2>1. QED
    BY <1>1, <1>2, <1>3, NatSetInduction
<1>5. PICK f : Upto(MaxChunks, f)
  BY <1>4
<1>6. f = [i \in 0..MaxChunks |-> {head[p]} \cup IF i = 0 THEN {}
                                  ELSE {next[c] : c \in (f[i - 1] \cap Chunks) \ {tail[p]}}]
  <2>1. \A i \in 0..MaxChunks : f[i] = {head[p]} \cup IF i = 0 THEN {}
                                  ELSE {next[c] : c \in (f[i - 1] \cap Chunks) \ {tail[p]}}
    <3>1. ASSUME NEW i \in 0..MaxChunks
          PROVE  f[i] = {head[p]} \cup IF i = 0 THEN {}
                                  ELSE {next[c] : c \in (f[i - 1] \cap Chunks) \ {tail[p]}}
      <4>1. CASE i = 0
        BY <1>5, <4>1
      <4>2. CASE i # 0
        <5>1. i \in 1..MaxChunks
          BY <1>1, <4>2
        <5>2. QED
          BY <1>5, <4>2, <5>1
      <4>3. QED
        BY <4>1, <4>2
    <3>2. QED
      BY <3>1
  <2>2. f = [i \in 0..MaxChunks |-> f[i]]
    BY <1>5
  <2>3. QED
    BY <2>1, <2>2, Zenon
<1> DEFINE w == CHOOSE w : w = [i \in 0..MaxChunks |-> {head[p]} \cup IF i = 0 THEN {}
                                  ELSE {next[c] : c \in (w[i - 1] \cap Chunks) \ {tail[p]}}]
<1>7. w = [i \in 0..MaxChunks |-> {head[p]} \cup IF i = 0 THEN {}
                                  ELSE {next[c] : c \in (w[i - 1] \cap Chunks) \ {tail[p]}}]
  BY <1>6
<1>8. Reach(p) = w[MaxChunks]
  BY DEF Reach
<1> HIDE DEF w
<1>9. w[0] = {head[p]}
  BY <1>1, <1>7
<1>10. \A i \in 1..MaxChunks : w[i] = {head[p]} \cup {next[c] : c \in (w[i - 1] \cap Chunks) \ {tail[p]}}
  BY <1>1, <1>7
<1>11. QED
  BY <1>8, <1>9, <1>10 DEF Followed

\* The links from head_ lead through the whole list: what is reached is what
\* the pool has.
LEMMA FreeListIs ==
  ASSUME Typed, NEW own, NEW pos, Lists(own, pos), NEW p \in Pools, Live(p)
  PROVE  Reach(p) = {c \in Chunks : own[c] = p}
<1> DEFINE L == {c \in Chunks : own[c] = p}
           H == pos[head[p]]
           T == pos[tail[p]]
<1>1. PICK f : Reach(p) = f[MaxChunks] /\ Followed(p, f, MaxChunks)
  BY ReachDef
<1>2. MaxChunks \in Nat /\ p # 0 /\ 0 \in 0..MaxChunks
  BY Consts
<1>3. own \in [Chunks -> {0} \cup Pools] /\ pos \in [Chunks -> Int] /\ \A c \in Chunks : pos[c] \in Int
  BY DEF Lists
<1>4. tail[p] \in L
  BY DEF Lists, Tails
<1>5. head[p] \in L /\ \A c \in L : H <= pos[c]
  BY <1>4 DEF Lists, Heads
<1>6. /\ \A c \in L : c # tail[p] => next[c] \in L /\ pos[next[c]] = pos[c] + 1
      /\ \A c \in L : pos[c] <= T
  <2>1. ASSUME NEW c \in L
        PROVE  \/ c # tail[p] /\ next[c] \in L /\ pos[next[c]] = pos[c] + 1
               \/ c = tail[p] /\ \A d \in L : pos[d] <= pos[c]
    <3>1. own[c] = p /\ own[c] # 0 /\ c \in Chunks
      BY <1>2
    <3>2. QED
      BY <3>1 DEF Lists, Links
  <2>2. QED
    BY <1>4, <2>1
<1>7. \A c, d \in L : pos[c] = pos[d] => c = d
  BY <1>2 DEF Lists, Places
<1>8. H \in Int /\ T \in Int /\ H <= T
  BY <1>3, <1>4, <1>5
<1> HIDE DEF L, H, T
<1>9. ASSUME NEW n \in Nat PROVE n <= MaxChunks => f[n] \subseteq L
  <2> DEFINE S == {i \in Nat : i <= MaxChunks => f[i] \subseteq L}
  <2>1. 0 \in S
    BY <1>1, <1>5 DEF Followed
  <2>2. ASSUME NEW i \in Nat, i \in S PROVE i + 1 \in S
    <3>1. SUFFICES ASSUME i + 1 <= MaxChunks PROVE f[i + 1] \subseteq L
      OBVIOUS
    <3>2. i + 1 \in 1..MaxChunks /\ i + 1 - 1 = i /\ i <= MaxChunks
      BY <1>2, <3>1
    <3>3. f[i + 1] = {head[p]} \cup {next[c] : c \in (f[i] \cap Chunks) \ {tail[p]}}
      BY <1>1, <3>2 DEF Followed
    <3>4. f[i] \subseteq L
      BY <2>2, <3>2
    <3>5. QED
      BY <1>5, <1>6, <3>3, <3>4
  <2>3. n \in S
    <3> HIDE DEF S
    <3>1. QED
      BY <2>1, <2>2, NatSetInduction
  <2>4. QED
    BY <2>3
<1>10. ASSUME NEW n \in Nat PROVE n <= T - H => \E c \in L : pos[c] = H + n
  <2> DEFINE S == {i \in Nat : i <= T - H => \E c \in L : pos[c] = H + i}
  <2>1. 0 \in S
    BY <1>5, <1>8 DEF H
  <2>2. ASSUME NEW i \in Nat, i \in S PROVE i + 1 \in S
    <3>1. SUFFICES ASSUME i + 1 <= T - H PROVE \E c \in L : pos[c] = H + (i + 1)
      OBVIOUS
    <3>2. PICK c \in L : pos[c] = H + i
      BY <1>8, <2>2, <3>1
    <3>3. pos[c] # T
      BY <1>8, <3>1, <3>2
    <3>4. c # tail[p]
      BY <3>3 DEF T
    <3>5. next[c] \in L /\ pos[next[c]] = pos[c] + 1
      BY <1>6, <3>4
    <3>6. pos[next[c]] = H + (i + 1)
      BY <1>8, <3>2, <3>5
    <3>7. QED
      BY <3>5, <3>6
  <2>3. n \in S
    <3> HIDE DEF S
    <3>1. QED
      BY <2>1, <2>2, NatSetInduction
  <2>4. QED
    BY <2>3
<1>11. T - H <= MaxChunks
  <2> DEFINE g == [i \in 0..T - H |-> CHOOSE c \in L : pos[c] = H + i]
  <2>1. \A i \in 0..T - H : g[i] \in L /\ pos[g[i]] = H + i
    BY <1>8, <1>10
  <2>2. L \subseteq Chunks
    BY DEF L
  <2>3. g \in [0..T - H -> Chunks]
    BY <2>1, <2>2
  <2> HIDE DEF g
  <2>4. \A i, j \in 0..T - H : g[i] = g[j] => i = j
    BY <1>8, <2>1
  <2>5. g \in Injection(0..T - H, Chunks)
    BY <2>3, <2>4 DEF Injection, IsInjective
  <2>6. IsFiniteSet(Chunks) /\ Cardinality(Chunks) = MaxChunks
    BY <1>2, FS_Interval DEF Chunks
  <2>7. Cardinality(0..T - H) = T - H + 1
    BY <1>8, FS_Interval
  <2>8. Cardinality(0..T - H) <= Cardinality(Chunks)
    BY <2>5, <2>6, FS_Injection
  <2>9. QED
    BY <1>2, <1>8, <2>6, <2>7, <2>8
<1>12. ASSUME NEW n \in Nat PROVE n <= MaxChunks => \A d \in L : pos[d] <= H + n => d \in f[n]
  <2> DEFINE S == {i \in Nat : i <= MaxChunks => \A d \in L : pos[d] <= H + i => d \in f[i]}
  <2>1. 0 \in S
    <3>1. ASSUME NEW d \in L, pos[d] <= H + 0 PROVE d \in f[0]
      <4>1. pos[d] \in Int
        BY <1>3 DEF L
      <4>2. pos[d] = H
        BY <1>5, <1>8, <3>1, <4>1
      <4>3. d = head[p]
        BY <1>5, <1>7, <4>2 DEF H
      <4>4. QED
        BY <1>1, <4>3 DEF Followed
    <3>2. QED
      BY <3>1
  <2>2. ASSUME NEW i \in Nat, i \in S PROVE i + 1 \in S
    <3>1. SUFFICES ASSUME i + 1 <= MaxChunks, NEW d \in L, pos[d] <= H + (i + 1) PROVE d \in f[i + 1]
      OBVIOUS
    <3>2. i + 1 \in 1..MaxChunks /\ i + 1 - 1 = i /\ i <= MaxChunks
      BY <1>2, <3>1
    <3>3. f[i + 1] = {head[p]} \cup {next[c] : c \in (f[i] \cap Chunks) \ {tail[p]}}
      BY <1>1, <3>2 DEF Followed
    <3>4. pos[d] \in Int /\ H <= pos[d] /\ pos[d] <= T
      BY <1>3, <1>5, <1>6 DEF L
    <3>5. CASE pos[d] = H
      <4>1. d = head[p]
        BY <1>5, <1>7, <3>5 DEF H
      <4>2. QED
        BY <3>3, <4>1
    <3>6. CASE pos[d] # H
      <4>1. pos[d] - H - 1 \in Nat /\ pos[d] - H - 1 <= T - H
        BY <1>8, <3>4, <3>6
      <4>2. PICK c \in L : pos[c] = H + (pos[d] - H - 1)
        BY <1>10, <4>1
      <4>3. pos[c] = pos[d] - 1
        BY <1>8, <3>4, <4>2
      <4>4. pos[c] <= H + i /\ pos[c] # T /\ pos[c] + 1 = pos[d]
        BY <1>8, <3>1, <3>4, <4>3
      <4>5. c \in f[i] /\ c \in Chunks
        BY <2>2, <3>2, <4>4 DEF L
      <4>6. c # tail[p]
        BY <4>4 DEF T
      <4>7. next[c] \in L /\ pos[next[c]] = pos[d]
        BY <1>6, <4>4, <4>6
      <4>8. next[c] = d
        BY <1>7, <4>7
      <4>9. QED
        BY <3>3, <4>5, <4>6, <4>8
    <3>7. QED
      BY <3>5, <3>6
  <2>3. n \in S
    <3> HIDE DEF S
    <3>1. QED
      BY <2>1, <2>2, NatSetInduction
  <2>4. QED
    BY <2>3
<1>13. L \subseteq f[MaxChunks]
  <2>1. ASSUME NEW d \in L PROVE d \in f[MaxChunks]
    <3>1. pos[d] \in Int /\ pos[d] <= T
      BY <1>3, <1>6 DEF L
    <3>2. pos[d] <= H + MaxChunks
      BY <1>2, <1>8, <1>11, <3>1
    <3>3. QED
      BY <1>2, <1>12, <3>2
  <2>2. QED
    BY <2>1
<1>14. f[MaxChunks] \subseteq L
  BY <1>2, <1>9
<1>15. QED
  BY <1>1, <1>13, <1>14 DEF L

\* resize_and_malloc(): the list is the new block, but for its first chunk, and
\* the chunk at tail_ as segregate() finds it.  The block lies where no other
\* one does, and so where no chunk is listed or in use.
LEMMA GrowI == ASSUME Full, Tame', NEW t \in Threads, Grow(t) PROVE Full'
<1> DEFINE p == threadId[t]
<1>1. PICK first \in Starts[kind] : GrowAt(t, first)
  BY DEF Grow
<1> DEFINE last == first + nextSize[p] - 1
           New == first + 1 .. last
<1>2. /\ crashed = "no" /\ pc[t] = "grow" /\ pc' = [pc EXCEPT ![t] = "idle"]
      /\ first..last \subseteq Chunks \ Provided
      /\ tail' = [tail EXCEPT ![p] = IF @ = Null THEN last ELSE @]
      /\ next' = [c \in Chunks |->
                   CASE c = first -> Junk
                     [] c \in first + 1 .. last - 1 -> c + 1
                     [] c = last -> tail[p]
                     [] OTHER -> next[c]]
      /\ head' = [head EXCEPT ![p] = first + 1]
      /\ tag' = [tag EXCEPT ![first] = p] /\ held' = [held EXCEPT ![first] = @ + 1]
      /\ crashed' = IF held[first] > 0 THEN "twice" ELSE "no"
      /\ blocks' = [blocks EXCEPT ![p] = @ \cup first..last]
      /\ nextSize' = [nextSize EXCEPT ![p] = 2 * @]
      /\ UNCHANGED <<lockTail, arg, purges, raced, crossed, kind, threadIdCounter, threadId, exits>>
  BY <1>1 DEF GrowAt, Goto, HandOver, TagOf, LastLink, registry
<1>3. Typed
  BY DEF Full
<1>4. PICK own, pos : Lists(own, pos)
  BY DEF Full
<1>5. /\ p \in Pools /\ p # 0 /\ pc'[t] = "idle" /\ \A u \in Threads : u # t => pc'[u] = pc[u]
      /\ Live(p) \/ (tail[p] = Null /\ head[p] = Null)
  <2>1. p # 0
    BY <1>2 DEF Full, Positions, Steps
  <2>2. QED
    BY <1>2, <1>3, <2>1 DEF Typed, Types, Full, Positions, Steps
<1>6. /\ nextSize[p] \in Nat /\ nextSize[p] >= 2 /\ MaxChunks \in Nat
      /\ first \in Nat /\ last \in Nat /\ first < last
  <2>1. nextSize[p] \in Nat \ {0, 1}
    BY <1>3, <1>5 DEF Typed, Types
  <2>2. nextSize[p] \in Nat /\ nextSize[p] >= 2
    BY <2>1
  <2>3. first \in 1..MaxChunks
    BY <1>3, SizeAssumption DEF Typed, Types
  <2>4. QED
    BY <2>2, <2>3, Consts
<1> HIDE DEF last
<1>7. /\ first \in Chunks /\ last \in Chunks /\ first + 1 \in Chunks /\ first + 1 \in New /\ last \in New
      /\ New \subseteq Chunks /\ first \notin New /\ first..last = {first} \cup New
      /\ \A c \in Chunks : c \in Nat
      /\ \A c \in New : c \in Nat /\ c \notin Provided /\ first < c /\ c <= last
      /\ first \notin Provided
  <2>1. first \in first..last /\ last \in first..last /\ first + 1 \in first..last
    BY <1>6
  <2>2. first + 1 \in New /\ last \in New /\ first \notin New /\ first..last = {first} \cup New
    BY <1>6
  <2>3. \A c \in New : c \in Nat /\ first < c /\ c <= last
    BY <1>6
  <2>4. QED
    BY <1>2, <2>1, <2>2, <2>3, Consts
<1>8. Provided' = Provided \cup {first} \cup New
  <2>1. \A q \in Pools : blocks'[q] = IF q = p THEN blocks[q] \cup {first} \cup New ELSE blocks[q]
    BY <1>2, <1>3, <1>5, <1>7 DEF Typed, Types
  <2> HIDE DEF New
  <2>2. ASSUME NEW c \in Provided' PROVE c \in Provided \cup {first} \cup New
    <3>1. PICK q \in Pools : c \in blocks'[q]
      BY <2>2 DEF Provided
    <3>2. QED
      BY <2>1, <3>1 DEF Provided
  <2>3. ASSUME NEW c \in Provided \cup {first} \cup New PROVE c \in Provided'
    <3>1. CASE c \in Provided
      <4>1. PICK q \in Pools : c \in blocks[q]
        BY <3>1 DEF Provided
      <4>2. c \in blocks'[q]
        BY <2>1, <4>1
      <4>3. QED
        BY <4>2 DEF Provided
    <3>2. CASE c \in {first} \cup New
      <4>1. c \in blocks'[p]
        BY <1>5, <2>1, <3>2
      <4>2. QED
        BY <1>5, <4>1 DEF Provided
    <3>3. QED
      BY <2>3, <3>1, <3>2
  <2>4. QED
    BY <2>2, <2>3
<1>9. /\ \A c \in Chunks : held[c] \in {0, 1} /\ (held[c] # 0 => c \in Provided)
      /\ \A u \in Threads : arg[u] # Null => arg[u] \in Chunks /\ arg[u] \in Provided
      /\ \A c \in Chunks : own[c] # 0 => c \in Provided
      /\ \A q \in Pools : Live(q) => tail[q] \in Chunks /\ tail[q] \in Provided
  <2>1. InUse \subseteq Provided
    BY DEF Full, Exclusive
  <2>2. \A c \in Chunks : held[c] \in {0, 1} /\ (held[c] # 0 => c \in Provided)
    BY <1>3, <2>1 DEF Typed, Types, InUse
  <2>3. \A u \in Threads : arg[u] # Null => arg[u] \in Chunks /\ arg[u] \in Provided
    BY <1>3, <2>1 DEF Typed, Types, InUse
  <2>4. \A c \in Chunks : own[c] # 0 => c \in Provided
    BY <1>4 DEF Lists, Free
  <2>5. \A q \in Pools : Live(q) => tail[q] \in Chunks /\ tail[q] \in Provided
    BY <1>4, <2>4, Consts DEF Lists, Tails
  <2>6. QED
    BY <2>2, <2>3, <2>4, <2>5
<1>10. /\ \A q \in Pools : /\ q # p => tail'[q] = tail[q] /\ head'[q] = head[q] /\ blocks'[q] = blocks[q]
       /\ tail'[p] = IF tail[p] = Null THEN last ELSE tail[p]
       /\ head'[p] = first + 1 /\ blocks'[p] = blocks[p] \cup {first} \cup New
       /\ \A c \in Chunks : c # first => tag'[c] = tag[c] /\ held'[c] = held[c]
       /\ tag'[first] = p /\ held'[first] = held[first] + 1
  BY <1>2, <1>3, <1>5, <1>7 DEF Typed, Types
<1>11. held[first] = 0 /\ held'[first] = 1 /\ crashed' = "no" /\ \A u \in Threads : arg[u] # first
  <2>1. held[first] = 0 /\ \A u \in Threads : arg[u] # first
    BY <1>7, <1>9, Consts
  <2>2. QED
    BY <1>2, <1>10, <2>1
<1>12. InUse' = InUse \cup {first}
  <2>1. \A c \in Chunks : held'[c] > 0 <=> held[c] > 0 \/ c = first
    BY <1>9, <1>10, <1>11
  <2>2. QED
    BY <1>2, <1>7, <2>1 DEF InUse
<1>13. /\ \A c \in Chunks : c # first /\ c \notin New => next'[c] = next[c]
       /\ \A c \in New : c # last => next'[c] = c + 1
       /\ next'[last] = tail[p]
       /\ next' \in [Chunks -> Chunks \cup {Null, Junk}]
  <2>1. \A c \in Chunks : c # first /\ c \notin New => next'[c] = next[c]
    <3>1. ASSUME NEW c \in Chunks, c # first, c \notin New PROVE c # last /\ c \notin first + 1 .. last - 1
      BY <1>6, <1>7, <3>1
    <3>2. QED
      BY <1>2, <3>1
  <2>2. \A c \in New : c # last => next'[c] = c + 1 /\ c + 1 \in Chunks
    <3>1. ASSUME NEW c \in New, c # last PROVE c \in first + 1 .. last - 1 /\ c + 1 \in New /\ c # first /\ c \in Chunks
      BY <1>6, <1>7, <3>1
    <3>2. QED
      BY <1>2, <1>7, <3>1
  <2>3. next'[last] = tail[p]
    <3>1. last \notin first + 1 .. last - 1 /\ last # first
      BY <1>6
    <3>2. QED
      BY <1>2, <1>7, <3>1
  <2>4. next'[first] = Junk
    BY <1>2, <1>7
  <2>5. /\ \A c \in Chunks : next[c] \in Chunks \cup {Null, Junk}
        /\ tail[p] \in Chunks \cup {Null, Junk}
    BY <1>3, <1>5 DEF Typed, Types
  <2> HIDE DEF New
  <2>6. \A c \in Chunks : next'[c] \in Chunks \cup {Null, Junk}
    BY <2>1, <2>2, <2>3, <2>4, <2>5
  <2>7. next' = [c \in Chunks |-> next'[c]]
    BY <1>2
  <2>8. QED
    BY <2>1, <2>2, <2>3, <2>6, <2>7
<1>14. Typed'
  <2>1. tail' \in [Pools -> Chunks \cup {Null}] /\ head' \in [Pools -> Chunks \cup {Null, Junk}]
    BY <1>2, <1>3, <1>7 DEF Typed, Types
  <2>2. blocks' \in [Pools -> SUBSET Chunks]
    BY <1>2, <1>3, <1>7 DEF Typed, Types
  <2>3. tag' \in [Chunks -> {0} \cup Pools] /\ pc' \in [Threads -> {"idle", "pop", "grow", "publish"}]
    BY <1>2, <1>3, <1>5 DEF Typed, Types
  <2>4. held' \in [Chunks -> {0, 1}]
    BY <1>2, <1>3, <1>11 DEF Typed, Types
  <2>5. nextSize' \in [Pools -> Nat \ {0, 1}]
    <3>1. 2 * nextSize[p] \in Nat \ {0, 1}
      BY <1>6
    <3>2. QED
      BY <1>2, <1>3, <3>1 DEF Typed, Types
  <2>6. held' \in [Chunks -> Nat]
    BY <2>4
  <2>7. QED
    BY <1>2, <1>3, <1>11, <1>13, <2>1, <2>2, <2>3, <2>4, <2>5, <2>6 DEF Typed, Types
<1>15. Numbers'
  <2>1. p <= threadIdCounter /\ p \in Nat /\ threadIdCounter \in Nat
    <3>1. threadIdCounter \in 0..MaxThreads /\ p <= threadIdCounter
      BY <1>3 DEF Full, Numbers, Typed, Types
    <3>2. QED
      BY <1>5, <3>1, SizeAssumption DEF Pools
  <2>2. \A q \in Pools : q > threadIdCounter => tail'[q] = Null
    BY <1>10, <2>1 DEF Full, Numbers
  <2>3. QED
    BY <1>2, <2>2 DEF Full, Numbers
<1>16. \A u \in Threads : u # t /\ threadId[u] # 0 => threadId[u] # p /\ threadId[u] \in Pools
  BY <1>3, <1>5 DEF Full, Numbers, Typed, Types
<1>17. Positions'
  <2>1. ASSUME NEW u \in Threads, pc'[u] = "publish"
        PROVE  /\ Tagged /\ arg[u] \in Chunks /\ lockTail[tag'[arg[u]]] = u
               /\ next'[tail'[tag'[arg[u]]]] = arg[u]
    <3>1. u # t /\ pc[u] = "publish"
      BY <1>5, <2>1
    <3>2. Tagged /\ arg[u] \in Chunks /\ lockTail[tag[arg[u]]] = u /\ next[tail[tag[arg[u]]]] = arg[u]
      BY <3>1 DEF Full, Positions, Steps
    <3>3. tag[arg[u]] \in Pools /\ tail[tag[arg[u]]] \in Chunks
      BY <3>1, PublishLive
    <3>4. tag'[arg[u]] = tag[arg[u]]
      BY <1>10, <1>11, <3>2
    <3>5. tail[tag[arg[u]]] # Null
      BY <3>3, Consts
    <3>6. tail'[tag[arg[u]]] = tail[tag[arg[u]]]
      BY <1>10, <3>3, <3>5
    <3>7. next'[tail[tag[arg[u]]]] = next[tail[tag[arg[u]]]]
      <4>1. tail[tag[arg[u]]] \in Provided
        BY <1>9, <3>1, <3>3, PublishLive
      <4>2. QED
        BY <1>7, <1>13, <3>3, <4>1
    <3>8. QED
      BY <3>2, <3>4, <3>6, <3>7
  <2>2. ASSUME NEW u \in Threads
        PROVE  /\ pc'[u] # "publish" => arg[u] = Null
               /\ threadId[u] = 0 => pc'[u] = "idle"
               /\ pc'[u] = "pop" => head'[threadId[u]] # tail'[threadId[u]]
               /\ pc'[u] = "grow" => \/ blocks'[threadId[u]] # {}
                                     \/ tail'[threadId[u]] = Null /\ head'[threadId[u]] = Null
    <3>1. CASE u = t
      BY <1>2, <1>5, <3>1 DEF Full, Positions, Steps
    <3>2. CASE u # t
      BY <1>5, <1>10, <1>16, <3>2 DEF Full, Positions, Steps, Live
    <3>3. QED
      BY <3>1, <3>2
  <2>3. (Tagged => ~crossed) /\ (Tagged' <=> Tagged)
    BY <1>2 DEF Full, Positions, Steps, Tagged
  <2>4. QED
    BY <1>2, <2>1, <2>2, <2>3 DEF Positions, Steps, Live
<1>18. Exclusive'
  <2>1. \A u \in Threads : arg[u] \in Chunks => held'[arg[u]] = 0
    BY <1>10, <1>11 DEF Full, Exclusive
  <2>2. InUse' \subseteq Provided'
    BY <1>12, <1>8 DEF Full, Exclusive
  <2>3. QED
    BY <1>2, <2>1, <2>2 DEF Exclusive
<1>19. FreedToItsPool'
  <2>1. ASSUME ~crossed, NEW c \in InUse' PROVE tag'[c] \in Pools /\ c \in blocks'[tag'[c]]
    <3>1. CASE c = first
      BY <1>5, <1>10, <3>1
    <3>2. CASE c # first
      <4>1. c \in InUse /\ c \in Chunks
        BY <1>9, <1>12, <2>1, <3>2 DEF InUse
      <4>2. tag[c] \in Pools /\ c \in blocks[tag[c]]
        BY <2>1, <4>1 DEF Full, FreedToItsPool
      <4>3. QED
        BY <1>10, <3>2, <4>1, <4>2
    <3>3. QED
      BY <3>1, <3>2
  <2>2. QED
    BY <1>2, <2>1 DEF FreedToItsPool
<1>20. Unused' /\ OverrunNeedsTurnover'
  <2>1. blocks'[p] # {}
    BY <1>10
  <2>2. OverrunNeedsTurnover'
    BY <1>2, <1>11 DEF OverrunNeedsTurnover
  <2>3. Unused'
    BY <1>2, <1>5, <1>10, <1>11, <1>16, <2>1 DEF Full, Unused, Sound, Live, Positions, Steps
  <2>4. QED
    BY <2>2, <2>3
<1>21. own \in [Chunks -> {0} \cup Pools] /\ pos \in [Chunks -> Int] /\ \A c \in Chunks : pos[c] \in Int
  BY <1>4 DEF Lists
<1>22. PICK end \in Int : Live(p) => end = pos[tail[p]]
  <2>1. CASE Live(p)
    BY <1>4, <1>5, <1>21, <2>1 DEF Lists, Tails
  <2>2. CASE ~Live(p)
    <3>1. 0 \in Int
      OBVIOUS
    <3>2. QED
      BY <2>2, <3>1
  <2>3. QED
    BY <2>1, <2>2
<1>23. PICK own1 \in [Chunks -> {0} \cup Pools] :
         \A c \in Chunks : own1[c] = IF c \in New THEN p ELSE IF own[c] = p /\ c # tail[p] THEN 0 ELSE own[c]
  <2> DEFINE f == [c \in Chunks |-> IF c \in New THEN p ELSE IF own[c] = p /\ c # tail[p] THEN 0 ELSE own[c]]
  <2>1. f \in [Chunks -> {0} \cup Pools] /\ \A c \in Chunks : f[c] = IF c \in New THEN p ELSE IF own[c] = p /\ c # tail[p] THEN 0 ELSE own[c]
    BY <1>5, <1>21
  <2>2. QED
    BY <2>1
<1>24. PICK pos1 \in [Chunks -> Int] :
         \A c \in Chunks : pos1[c] = IF c \in New THEN end - (last + 1 - c) ELSE pos[c]
  <2> DEFINE f == [c \in Chunks |-> IF c \in New THEN end - (last + 1 - c) ELSE pos[c]]
  <2>1. \A c \in New : end - (last + 1 - c) \in Int
    BY <1>6, <1>7, <1>22
  <2>2. f \in [Chunks -> Int] /\ \A c \in Chunks : f[c] = IF c \in New THEN end - (last + 1 - c) ELSE pos[c]
    BY <1>21, <2>1
  <2>3. QED
    BY <2>2
<1> HIDE DEF New
<1>25. \A c \in New : /\ c \in Chunks /\ own[c] = 0 /\ own1[c] = p /\ pos1[c] \in Int /\ pos1[c] < end
                      /\ pos1[first + 1] <= pos1[c] /\ pos1[c] <= pos1[last]
                      /\ c # last => pos1[c + 1] = pos1[c] + 1
  <2>1. \A c \in New : c \in Chunks /\ own[c] = 0 /\ own1[c] = p /\ pos1[c] = end - (last + 1 - c)
    BY <1>7, <1>9, <1>23, <1>24
  <2>2. \A c \in New : c # last => c + 1 \in New
    BY <1>6, <1>7 DEF New
  <2>3. \A c \in New : pos1[c] \in Int /\ pos1[c] < end
    BY <1>6, <1>7, <1>22, <2>1
  <2>4. \A c \in New : pos1[first + 1] <= pos1[c] /\ pos1[c] <= pos1[last]
    BY <1>6, <1>7, <1>22, <2>1
  <2>5. \A c \in New : c # last => pos1[c + 1] = pos1[c] + 1
    <3>1. ASSUME NEW c \in New, c # last PROVE pos1[c + 1] = pos1[c] + 1
      <4>1. pos1[c] = end - (last + 1 - c) /\ pos1[c + 1] = end - (last + 1 - (c + 1)) /\ c \in Nat
        BY <1>7, <2>1, <2>2, <3>1
      <4>2. QED
        BY <1>6, <1>22, <4>1
    <3>2. QED
      BY <3>1
  <2>6. QED
    BY <2>1, <2>3, <2>4, <2>5
<1>26. /\ Live(p) => /\ tail[p] \in Chunks /\ tail[p] # Null /\ own[tail[p]] = p /\ tail[p] \notin New
                     /\ own1[tail[p]] = p /\ pos1[tail[p]] = end /\ tail'[p] = tail[p]
       /\ ~Live(p) => /\ tail[p] = Null /\ tail'[p] = last
       /\ \A c \in Chunks : own1[c] = p <=> c \in New \/ (Live(p) /\ c = tail[p])
  <2>1. Live(p) => tail[p] \in Chunks /\ own[tail[p]] = p /\ tail[p] # Null
    BY <1>4, <1>5, Consts DEF Lists, Tails
  <2>2. Live(p) => /\ tail[p] \notin New /\ own1[tail[p]] = p /\ pos1[tail[p]] = end
                   /\ tail'[p] = tail[p]
    BY <1>5, <1>7, <1>9, <1>10, <1>22, <1>23, <1>24, <2>1
  <2>3. ~Live(p) => tail[p] = Null /\ tail'[p] = last /\ \A c \in Chunks : own[c] # p
    BY <1>4, <1>5, <1>10 DEF Lists, Heads
  <2>4. ASSUME NEW c \in Chunks PROVE own1[c] = p <=> c \in New \/ (Live(p) /\ c = tail[p])
    BY <1>5, <1>23, <2>1, <2>2, <2>3, <2>4
  <2>5. QED
    BY <2>1, <2>2, <2>3, <2>4
<1>27. \A c \in Chunks : c \notin New => pos1[c] = pos[c] /\ (own1[c] # 0 => own1[c] = own[c])
  BY <1>23, <1>24
<1>28. \A q \in Pools : q # p =>
         \A c \in Chunks : (own1[c] = q <=> own[c] = q) /\ (own1[c] = q => c \notin New /\ pos1[c] = pos[c])
  <2>1. ASSUME NEW q \in Pools, q # p, NEW c \in Chunks
        PROVE  (own1[c] = q <=> own[c] = q) /\ (own1[c] = q => c \notin New /\ pos1[c] = pos[c])
    <3>1. q # 0
      BY Consts
    <3>2. CASE c \in New
      BY <1>25, <2>1, <3>1, <3>2
    <3>3. CASE c \notin New
      BY <1>23, <1>24, <2>1, <3>1, <3>3
    <3>4. QED
      BY <3>2, <3>3
  <2>2. QED
    BY <2>1
<1>29. Heads(own1, pos1)'
  <2>1. ASSUME NEW q \in Pools, q # p
        PROVE  IF head'[q] = Null THEN \A d \in Chunks : own1[d] # q
               ELSE /\ head'[q] \in Chunks /\ own1[head'[q]] = q
                    /\ \A d \in Chunks : own1[d] = q => pos1[head'[q]] <= pos1[d]
    <3>1. \A d \in Chunks : (own1[d] = q <=> own[d] = q) /\ (own1[d] = q => pos1[d] = pos[d])
      BY <1>28, <2>1
    <3>2. QED
      BY <1>4, <1>10, <2>1, <3>1 DEF Lists, Heads
  <2>2. /\ head'[p] \in Chunks /\ head'[p] # Null /\ own1[head'[p]] = p
        /\ \A d \in Chunks : own1[d] = p => pos1[head'[p]] <= pos1[d]
    <3>1. head'[p] = first + 1 /\ first + 1 \in New /\ first + 1 \in Chunks
      BY <1>7, <1>10
    <3>2. pos1[first + 1] \in Int /\ pos1[first + 1] <= end
      BY <1>22, <1>25, <3>1
    <3>3. QED
      BY <1>25, <1>26, <3>1, <3>2, Consts
  <2>3. QED
    BY <2>1, <2>2 DEF Heads
<1>30. Tails(own1)'
  <2>1. ASSUME NEW q \in Pools
        PROVE  IF blocks'[q] # {} THEN tail'[q] \in Chunks /\ own1[tail'[q]] = q
               ELSE purges = 0 /\ exits = 0 => tail'[q] = Null
    <3>1. CASE q = p
      <4>1. blocks'[p] # {}
        BY <1>10
      <4>2. tail'[p] \in Chunks /\ own1[tail'[p]] = p
        BY <1>7, <1>25, <1>26
      <4>3. QED
        BY <3>1, <4>1, <4>2
    <3>2. CASE q # p
      <4>1. tail'[q] = tail[q] /\ blocks'[q] = blocks[q]
        BY <1>10, <3>2
      <4>2. IF blocks[q] # {} THEN tail[q] \in Chunks /\ own[tail[q]] = q
            ELSE purges = 0 /\ exits = 0 => tail[q] = Null
        BY <1>4 DEF Lists, Tails, Live
      <4>3. QED
        BY <1>28, <3>2, <4>1, <4>2
    <3>3. QED
      BY <3>1, <3>2
  <2>2. QED
    BY <1>2, <2>1 DEF Tails, Live
<1>31. Places(own1, pos1)'
  <2>1. ASSUME NEW c \in Chunks, NEW d \in Chunks, own1[c] = own1[d], own1[c] # 0, pos1[c] = pos1[d], c # d
        PROVE  FALSE
    <3>1. CASE c \in New /\ d \in New
      <4>1. end - (last + 1 - c) = end - (last + 1 - d) /\ c \in Nat /\ d \in Nat
        BY <1>7, <1>24, <2>1, <3>1
      <4>2. QED
        BY <1>6, <1>22, <2>1, <4>1
    <3>2. CASE c \in New /\ d \notin New
      BY <1>22, <1>25, <1>26, <2>1, <3>2
    <3>3. CASE c \notin New /\ d \in New
      BY <1>22, <1>25, <1>26, <2>1, <3>3
    <3>4. CASE c \notin New /\ d \notin New
      BY <1>4, <1>27, <2>1, <3>4 DEF Lists, Places
    <3>5. QED
      BY <3>1, <3>2, <3>3, <3>4
  <2>2. QED
    BY <2>1 DEF Places
<1>32. Links(own1, pos1)'
  <2>1. ASSUME NEW c \in Chunks, own1[c] # 0
        PROVE  \/ /\ c # tail'[own1[c]] /\ next'[c] \in Chunks
                  /\ own1[next'[c]] = own1[c] /\ pos1[next'[c]] = pos1[c] + 1
               \/ /\ \A d \in Chunks : own1[d] = own1[c] => pos1[d] <= pos1[c]
                  /\ IF blocks'[own1[c]] # {} THEN c = tail'[own1[c]] ELSE next'[c] = Null
    <3>1. CASE c \in New /\ c # last
      <4>1. own1[c] = p /\ next'[c] = c + 1 /\ pos1[c + 1] = pos1[c] + 1
        BY <1>13, <1>25, <3>1
      <4>2. c + 1 \in New
        BY <1>6, <1>7, <3>1 DEF New
      <4>3. c # tail'[p]
        BY <1>26, <3>1
      <4>4. QED
        BY <1>25, <4>1, <4>2, <4>3
    <3>2. CASE c = last /\ Live(p)
      <4>1. own1[c] = p /\ next'[c] = tail[p] /\ c # tail'[p] /\ c \in New
        BY <1>7, <1>13, <1>25, <1>26, <3>2
      <4>2. pos1[c] = end - (last + 1 - last)
        BY <1>24, <3>2, <4>1
      <4>3. end = pos1[c] + 1
        BY <1>6, <1>22, <4>2
      <4>4. QED
        BY <1>26, <3>2, <4>1, <4>3
    <3>3. CASE c = last /\ ~Live(p)
      <4>1. own1[c] = p /\ c = tail'[p] /\ blocks'[p] # {}
        BY <1>7, <1>10, <1>25, <1>26, <3>3
      <4>2. \A d \in Chunks : own1[d] = p => pos1[d] <= pos1[c]
        BY <1>25, <1>26, <3>3
      <4>3. QED
        BY <4>1, <4>2
    <3>4. CASE c \notin New /\ own1[c] = p
      <4>1. Live(p) /\ c = tail[p] /\ c = tail'[p] /\ pos1[c] = end /\ blocks'[p] # {}
        BY <1>10, <1>26, <3>4
      <4>2. \A d \in Chunks : own1[d] = p => pos1[d] <= pos1[c]
        BY <1>22, <1>25, <1>26, <4>1
      <4>3. QED
        BY <3>4, <4>1, <4>2
    <3>5. CASE own1[c] # p
      <4>1. PICK q \in Pools : q = own1[c] /\ q # p
        BY <1>23, <2>1, <3>5
      <4>2. own[c] = q /\ q # 0 /\ c \notin New /\ pos1[c] = pos[c] /\ tail'[q] = tail[q] /\ blocks'[q] = blocks[q]
        BY <1>10, <1>28, <2>1, <4>1
      <4>3. next'[c] = next[c]
        BY <1>7, <1>9, <1>13, <4>2
      <4>4. \A d \in Chunks : own1[d] = q <=> own[d] = q
        BY <1>28, <4>1
      <4>5. \A d \in Chunks : own1[d] = q => pos1[d] = pos[d]
        BY <1>28, <4>1
      <4>6. CASE c # tail[q] /\ next[c] \in Chunks /\ own[next[c]] = q /\ pos[next[c]] = pos[c] + 1
        BY <4>1, <4>2, <4>3, <4>4, <4>5, <4>6
      <4>7. CASE /\ \A d \in Chunks : own[d] = q => pos[d] <= pos[c]
                 /\ IF blocks[q] # {} THEN c = tail[q] ELSE next[c] = Null
        BY <4>1, <4>2, <4>3, <4>4, <4>5, <4>7
      <4>8. QED
        BY <1>4, <4>2, <4>6, <4>7 DEF Lists, Links, Live
    <3>6. QED
      BY <3>1, <3>2, <3>3, <3>4, <3>5
  <2>2. QED
    BY <2>1 DEF Links, Live
<1>33. Free(own1)'
  <2>1. ASSUME NEW c \in Chunks, own1[c] # 0
        PROVE  /\ c \in Provided' /\ held'[c] = 0 /\ \A u \in Threads : arg[u] # c
               /\ ~crossed => c \in blocks'[own1[c]]
    <3>1. CASE c \in New
      <4>1. c \in Provided' /\ c # first /\ c \notin Provided /\ own1[c] = p
        BY <1>7, <1>25, <1>8, <3>1
      <4>2. held[c] = 0 /\ held'[c] = held[c] /\ \A u \in Threads : arg[u] # c
        BY <1>9, <1>10, <4>1, Consts
      <4>3. QED
        BY <1>10, <3>1, <4>1, <4>2
    <3>2. CASE c \notin New
      <4>1. own1[c] = own[c] /\ own[c] # 0 /\ own[c] \in Pools
        BY <1>21, <1>27, <2>1, <3>2
      <4>2. c \in Provided /\ held[c] = 0 /\ (\A u \in Threads : arg[u] # c) /\ (~crossed => c \in blocks[own[c]])
        BY <1>4, <4>1 DEF Lists, Free
      <4>3. c # first /\ c \in Provided'
        BY <1>7, <1>8, <4>2
      <4>4. blocks[own[c]] \subseteq blocks'[own[c]]
        BY <1>10, <4>1
      <4>5. QED
        BY <1>10, <4>1, <4>2, <4>3, <4>4
    <3>3. QED
      BY <3>1, <3>2
  <2>2. QED
    BY <1>2, <2>1 DEF Free
<1>34. Kept(own1)'
  <2>1. SUFFICES ASSUME Sound, Plain => exits = 0, NEW c \in Provided'
                 PROVE  c \in InUse' \/ own1[c] # 0 \/ c \in raced
    BY <1>2 DEF Kept, Sound, Plain
  <2>2. CASE c \in Provided
    <3>1. c \in Chunks /\ c \notin New
      BY <1>3, <1>7, <2>2, ProvidedChunks DEF Typed
    <3>2. c \in InUse \/ own[c] # 0 \/ c \in raced
      BY <1>4, <2>1, <2>2 DEF Lists, Kept
    <3>3. own[c] = p /\ c # tail[p] => c \in raced
      BY <1>2, <1>4, <3>1 DEF Lists, Racing
    <3>4. QED
      BY <1>12, <1>23, <3>1, <3>2, <3>3
  <2>3. CASE c = first
    BY <1>12, <2>3
  <2>4. CASE c \in New
    BY <1>5, <1>25, <2>4
  <2>5. QED
    BY <1>8, <2>2, <2>3, <2>4
<1>35. Racing(own1)'
  <2>1. ASSUME NEW u \in Threads, pc'[u] = "grow", NEW d \in Chunks, own1[d] = threadId[u]
        PROVE  d = tail'[threadId[u]] \/ d \in raced
    <3>1. u # t /\ pc[u] = "grow" /\ threadId[u] # 0
      BY <1>5, <2>1 DEF Full, Positions, Steps
    <3>2. threadId[u] # p /\ threadId[u] \in Pools
      BY <1>16, <3>1
    <3>3. own[d] = threadId[u] /\ tail'[threadId[u]] = tail[threadId[u]]
      BY <1>10, <1>28, <2>1, <3>2
    <3>4. QED
      BY <1>4, <3>1, <3>3 DEF Lists, Racing
  <2>2. QED
    BY <1>2, <2>1 DEF Racing
<1>36. Lists(own1, pos1)'
  BY <1>23, <1>24, <1>29, <1>30, <1>31, <1>32, <1>33, <1>34, <1>35 DEF Lists
<1>37. QED
  BY <1>14, <1>15, <1>17, <1>18, <1>19, <1>20, <1>36 DEF Full
-----------------------------------------------------------------------------
(* The results.                                                            *)

\* Once lost, the promise is not given again.
LEMMA TameBefore == ASSUME Types, [Next]_vars PROVE Tame' => Tame
<1>1. purges \in Nat /\ exits \in Nat
  BY Consts DEF Types
<1>2. ASSUME UNCHANGED <<purges, exits, crossed>> PROVE Tame' => Tame
  BY <1>2 DEF Tame
<1>3. CASE UNCHANGED vars
  BY <1>2, <1>3 DEF vars
<1>4. ASSUME Next PROVE Tame' => Tame
  <2>1. PICK t \in Threads :
          \/ Register(t) \/ CallMalloc(t) \/ Pop(t) \/ Grow(t) \/ OutOfMemory(t)
          \/ \E c \in Chunks : FreeOwn(t, c) \/ FreePlain(t, c) \/ FreeAppend(t, c)
          \/ Publish(t)
          \/ Purge(t) \/ Exit(t)
    BY <1>4 DEF Next
  <2>2. CASE Register(t) \/ CallMalloc(t) \/ Pop(t) \/ OutOfMemory(t) \/ Publish(t)
    BY <1>2, <2>2 DEF Register, CallMalloc, Pop, OutOfMemory, Publish, registry, memory
  <2>3. CASE Grow(t)
    <3>1. PICK first \in Starts[kind] : GrowAt(t, first)
      BY <2>3 DEF Grow
    <3>2. QED
      BY <1>2, <3>1 DEF GrowAt, registry
  <2>4. ASSUME NEW c \in Chunks, FreeOwn(t, c) \/ FreeAppend(t, c) PROVE Tame' => Tame
    BY <1>2, <2>4 DEF FreeOwn, FreeAppend, Push, registry, memory
  <2>5. ASSUME NEW c \in Chunks, FreePlain(t, c) PROVE Tame' => Tame
    <3>1. UNCHANGED <<purges, exits>> /\ crossed' = (crossed \/ tag[c] # threadId[t])
      BY <2>5 DEF FreePlain, Push, registry, memory
    <3>2. ~crossed' => ~crossed
      BY <3>1, Zenon
    <3>3. QED
      BY <3>1, <3>2 DEF Tame
  <2>6. CASE Purge(t)
    <3>1. purges' # 0 /\ crossed' = crossed
      BY <1>1, <2>6 DEF Purge
    <3>2. QED
      BY <3>1 DEF Tame
  <2>7. CASE Exit(t)
    <3>1. exits' # 0 /\ crossed' = crossed
      BY <1>1, <2>7 DEF Exit
    <3>2. QED
      BY <3>1 DEF Tame
  <2>8. QED
    BY <2>1, <2>2, <2>3, <2>4, <2>5, <2>6, <2>7
<1>5. QED
  BY <1>3, <1>4

\* The operations of plain pools, whatever was done with the chunks.
LEMMA PlainBasic ==
  ASSUME Basic, Plain, NEW t \in Threads,
         \/ CallMalloc(t) \/ Pop(t) \/ Grow(t) \/ OutOfMemory(t) \/ Purge(t)
         \/ \E c \in Chunks : FreePlain(t, c)
  PROVE  Basic'
<1> DEFINE p == threadId[t]
<1>1. Types /\ ~Tagged /\ ~(kind = "tagged")
  BY DEF Basic, Plain, Tagged
<1>2. ASSUME UNCHANGED <<kind, threadIdCounter, threadId, exits, tail>>, crashed' # "threads", Types',
             NEW to \in {"idle", "pop", "grow"}, pc' = [pc EXCEPT ![t] = to], p = 0 => to = "idle"
      PROVE  Basic'
  <2>1. \A u \in Threads : pc'[u] = IF u = t THEN to ELSE pc[u]
    BY <1>1, <1>2 DEF Types
  <2>2. Steps'
    BY <1>1, <1>2, <2>1 DEF Basic, Steps, Tagged
  <2>3. Numbers' /\ OverrunNeedsTurnover'
    BY <1>2 DEF Basic, Numbers, OverrunNeedsTurnover
  <2>4. QED
    BY <1>2, <2>2, <2>3 DEF Basic
<1>3. CASE CallMalloc(t)
  <2>1. PICK to \in {"pop", "grow"} : pc' = [pc EXCEPT ![t] = to]
    BY <1>3 DEF CallMalloc, Goto
  <2>2. /\ crashed = "no" /\ p # 0
        /\ UNCHANGED <<kind, threadIdCounter, threadId, head, tail, lockTail, nextSize, blocks, next, tag,
                       held, arg, purges, exits, raced, crossed, crashed>>
    BY <1>3 DEF CallMalloc, Goto, registry, memory
  <2>3. Types'
    BY <1>1, <2>1, <2>2 DEF Types
  <2>4. QED
    BY <1>2, <2>1, <2>2, <2>3
<1>4. CASE OutOfMemory(t)
  <2>1. /\ pc' = [pc EXCEPT ![t] = "idle"] /\ crashed' = "no"
        /\ UNCHANGED <<kind, threadIdCounter, threadId, head, tail, lockTail, nextSize, blocks, next, tag,
                       held, arg, purges, exits, raced, crossed>>
    BY <1>1, <1>4 DEF OutOfMemory, Goto, registry, memory
  <2>2. Types'
    BY <1>1, <2>1 DEF Types
  <2>3. QED
    BY <1>2, <2>1, <2>2
<1>5. CASE Pop(t)
  <2>1. /\ pc[t] = "pop" /\ pc' = [pc EXCEPT ![t] = "idle"]
        /\ UNCHANGED <<kind, threadIdCounter, threadId, tail, lockTail, nextSize, blocks, arg,
                       purges, exits, raced, crossed>>
    BY <1>5 DEF Pop, Goto, registry, memory
  <2>2. p \in Pools
    BY <1>1, <2>1 DEF Basic, Steps, Types
  <2>3. /\ head' \in [Pools -> Chunks \cup {Null, Junk}] /\ next' \in [Chunks -> Chunks \cup {Null, Junk}]
        /\ tag' \in [Chunks -> {0} \cup Pools] /\ crashed' \in {"no", "link", "twice"}
    BY <1>1, <1>5, <2>2 DEF Pop, HandOver, TagOf, Popped, Types
  <2>4. held' \in [Chunks -> Nat]
    BY <1>1, <1>5, <2>2 DEF Pop, HandOver, Types
  <2>5. Types'
    BY <1>1, <2>1, <2>3, <2>4 DEF Types
  <2>6. QED
    BY <1>2, <2>1, <2>3, <2>5
<1>6. CASE Grow(t)
  <2>1. PICK first \in Starts[kind] : GrowAt(t, first)
    BY <1>6 DEF Grow
  <2> DEFINE last == first + nextSize[p] - 1
  <2>2. /\ pc[t] = "grow" /\ pc' = [pc EXCEPT ![t] = "idle"]
        /\ first..last \subseteq Chunks
        /\ tail' = [tail EXCEPT ![p] = IF @ = Null THEN last ELSE @]
        /\ next' = [c \in Chunks |->
                     CASE c = first -> Junk
                       [] c \in first + 1 .. last - 1 -> c + 1
                       [] c = last -> tail[p]
                       [] OTHER -> next[c]]
        /\ head' = [head EXCEPT ![p] = first + 1]
        /\ tag' = [tag EXCEPT ![first] = p] /\ held' = [held EXCEPT ![first] = @ + 1]
        /\ crashed' \in {"no", "twice"}
        /\ blocks' = [blocks EXCEPT ![p] = @ \cup first..last]
        /\ nextSize' = [nextSize EXCEPT ![p] = 2 * @]
        /\ UNCHANGED <<lockTail, arg, purges, raced, crossed, kind, threadIdCounter, threadId, exits>>
    BY <2>1 DEF GrowAt, Goto, HandOver, TagOf, LastLink, registry
  <2>3. p \in Pools
    BY <1>1, <2>2 DEF Basic, Steps, Types
  <2>4. nextSize[p] \in Nat \ {0, 1} /\ first \in 1..MaxChunks
    BY <1>1, <2>3, SizeAssumption DEF Types
  <2>5. first \in Nat /\ last \in Nat /\ first < last
    BY <2>4, Consts
  <2> HIDE DEF last
  <2>6. first \in Chunks /\ last \in Chunks /\ first + 1 \in Chunks
    BY <2>2, <2>5
  <2>7. \A c \in first + 1 .. last - 1 : c + 1 \in Chunks
    BY <2>2, <2>5
  <2>8. next' \in [Chunks -> Chunks \cup {Null, Junk}]
    <3>1. tail[p] \in Chunks \cup {Null, Junk} /\ \A c \in Chunks : next[c] \in Chunks \cup {Null, Junk}
      BY <1>1, <2>3 DEF Types
    <3>2. \A c \in Chunks : next'[c] \in Chunks \cup {Null, Junk}
      BY <2>2, <2>7, <3>1
    <3>3. next' = [c \in Chunks |-> next'[c]]
      BY <2>2
    <3>4. QED
      BY <3>2, <3>3
  <2>9. /\ tail' \in [Pools -> Chunks \cup {Null}] /\ head' \in [Pools -> Chunks \cup {Null, Junk}]
        /\ blocks' \in [Pools -> SUBSET Chunks] /\ tag' \in [Chunks -> {0} \cup Pools]
        /\ pc' \in [Threads -> {"idle", "pop", "grow", "publish"}]
    BY <1>1, <2>2, <2>3, <2>6 DEF Types
  <2>10. held' \in [Chunks -> Nat]
    BY <1>1, <2>2, <2>6 DEF Types
  <2>11. nextSize' \in [Pools -> Nat \ {0, 1}]
    <3>1. 2 * nextSize[p] \in Nat \ {0, 1}
      BY <2>4
    <3>2. QED
      BY <1>1, <2>2, <3>1 DEF Types
  <2>12. Types'
    BY <1>1, <2>2, <2>8, <2>9, <2>10, <2>11 DEF Types
  <2>13. Steps' /\ OverrunNeedsTurnover'
    <3>1. \A u \in Threads : pc'[u] = IF u = t THEN "idle" ELSE pc[u]
      BY <1>1, <2>2 DEF Types
    <3>2. QED
      BY <1>1, <2>2, <3>1 DEF Basic, Steps, Tagged, OverrunNeedsTurnover
  <2>14. Numbers'
    <3>1. p <= threadIdCounter /\ p \in Nat /\ threadIdCounter \in Nat
      <4>1. threadIdCounter \in 0..MaxThreads /\ p <= threadIdCounter
        BY <1>1 DEF Basic, Numbers, Types
      <4>2. QED
        BY <2>3, <4>1, SizeAssumption DEF Pools
    <3>2. \A q \in Pools : q # p => tail'[q] = tail[q]
      BY <1>1, <2>2 DEF Types
    <3>3. \A q \in Pools : q > threadIdCounter => tail'[q] = Null
      BY <3>1, <3>2 DEF Basic, Numbers
    <3>4. QED
      BY <2>2, <3>3 DEF Basic, Numbers
  <2>15. QED
    BY <2>12, <2>13, <2>14 DEF Basic
<1>7. CASE Purge(t)
  <2>1. /\ crashed = "no" /\ crashed' = "no" /\ pc[t] = "idle" /\ pc' = [pc EXCEPT ![t] = "idle"]
        /\ purges + exits < MaxEnds /\ purges' = purges + 1 /\ PurgeMemory(p)
        /\ UNCHANGED <<kind, threadIdCounter, threadId, exits, tail, lockTail, next, tag, arg, raced, crossed>>
    BY <1>7 DEF Purge, Goto, registry
  <2>2. /\ head' \in [Pools -> Chunks \cup {Null, Junk}] /\ blocks' \in [Pools -> SUBSET Chunks]
        /\ held' \in [Chunks -> Nat]
    BY <1>1, <2>1 DEF PurgeMemory, Types
  <2>3. nextSize' \in [Pools -> Nat \ {0, 1}]
    <3>1. PurgeSize \in Nat \ {0, 1}
      BY SizeAssumption
    <3>2. QED
      BY <1>1, <2>1, <3>1 DEF PurgeMemory, Types
  <2>4. purges' \in 0..MaxEnds
    BY <1>1, <2>1, Consts DEF Types
  <2>5. Types'
    BY <1>1, <2>1, <2>2, <2>3, <2>4 DEF Types
  <2>6. QED
    BY <1>2, <2>1, <2>5
<1>8. ASSUME NEW c \in Chunks, FreePlain(t, c) PROVE Basic'
  <2>1. /\ crashed = "no" /\ crashed' = "no" /\ p # 0 /\ held[c] > 0
        /\ pc' = [pc EXCEPT ![t] = "idle"] /\ held' = [held EXCEPT ![c] = held[c] - 1]
        /\ next' = [next EXCEPT ![c] = head[p]] /\ head' = [head EXCEPT ![p] = c]
        /\ UNCHANGED <<kind, threadIdCounter, threadId, tail, lockTail, nextSize, blocks, tag, arg,
                       purges, exits, raced>>
    BY <1>8 DEF FreePlain, Push, Goto, registry, memory
  <2>2. p \in Pools
    BY <1>1, <2>1 DEF Types
  <2>3. /\ head' \in [Pools -> Chunks \cup {Null, Junk}] /\ next' \in [Chunks -> Chunks \cup {Null, Junk}]
        /\ pc' \in [Threads -> {"idle", "pop", "grow", "publish"}]
    BY <1>1, <2>1, <2>2 DEF Types
  <2>4. held' \in [Chunks -> Nat]
    <3>1. held[c] - 1 \in Nat
      BY <1>1, <2>1 DEF Types
    <3>2. QED
      BY <1>1, <2>1, <3>1 DEF Types
  <2>5. crossed' \in BOOLEAN
    BY <1>8 DEF FreePlain
  <2>6. Types'
    BY <1>1, <2>1, <2>3, <2>4, <2>5 DEF Types
  <2>7. QED
    BY <1>2, <2>1, <2>6
<1>9. QED
  BY <1>3, <1>4, <1>5, <1>6, <1>7, <1>8

\* Every operation keeps the invariant.
LEMMA NextIInv == IInv /\ [Next]_vars => IInv'
<1>1. ASSUME IInv, Next PROVE IInv'
  <2>1. PICK t \in Threads :
          \/ Register(t) \/ CallMalloc(t) \/ Pop(t) \/ Grow(t) \/ OutOfMemory(t)
          \/ \E c \in Chunks : FreeOwn(t, c) \/ FreePlain(t, c) \/ FreeAppend(t, c)
          \/ Publish(t)
          \/ Purge(t) \/ Exit(t)
    BY <1>1 DEF Next
  <2>2. ASSUME Tame' PROVE Full'
    <3>1. Full
      BY <1>1, <2>2, TameBefore DEF IInv, Basic
    <3>2. ASSUME NEW c \in Chunks, FreeOwn(t, c) \/ FreePlain(t, c) PROVE Full'
      BY <2>2, <3>1, <3>2, PushI DEF FreeOwn, FreePlain
    <3>3. QED
      BY <2>1, <2>2, <3>1, <3>2, RegisterI, CallMallocI, PopI, GrowI, OutOfMemoryI, FreeAppendI,
         PublishI, PurgeI, ExitI
  <2>3. CASE Tame'
    BY <2>2, <2>3 DEF IInv, Full, Basic, Typed, Positions
  <2>4. CASE ~Tame'
    <3>1. Plain
      <4>1. ASSUME Tagged PROVE ~crossed'
        <5>1. ~crossed /\ ~Plain
          BY <1>1, <4>1 DEF IInv, Basic, Steps, Tagged, Plain
        <5>2. crossed' = crossed
          <6>1. ASSUME NEW c \in Chunks, FreeOwn(t, c) \/ FreePlain(t, c) \/ FreeAppend(t, c) PROVE crossed' = crossed
            BY <5>1, <6>1 DEF FreeOwn, FreePlain, FreeAppend
          <6>2. CASE Grow(t)
            <7>1. PICK first \in Starts[kind] : GrowAt(t, first)
              BY <6>2 DEF Grow
            <7>2. QED
              BY <7>1 DEF GrowAt
          <6>3. CASE \/ Register(t) \/ CallMalloc(t) \/ Pop(t) \/ OutOfMemory(t) \/ Publish(t)
                     \/ Purge(t) \/ Exit(t)
            BY <6>3 DEF Register, CallMalloc, Pop, OutOfMemory, Publish, Purge, Exit
          <6>4. QED
            BY <2>1, <6>1, <6>2, <6>3
        <5>3. QED
          BY <5>1, <5>2
      <4>2. ~Tagged
        BY <2>4, <4>1 DEF Tame
      <4>3. kind \in {"tagged", "plain"}
        BY <1>1, SizeAssumption DEF IInv, Basic, Types
      <4>4. QED
        BY <4>2, <4>3 DEF Tagged, Plain
    <3>2. ~Tagged /\ ~Publish(t) /\ \A c \in Chunks : ~FreeOwn(t, c) /\ ~FreeAppend(t, c)
      BY <1>1, <3>1 DEF IInv, Basic, Steps, Plain, Tagged, Publish, Goto, FreeOwn, FreeAppend
    <3>3. Basic'
      BY <1>1, <2>1, <3>1, <3>2, RegisterBasic, ExitBasic, PlainBasic DEF IInv
    <3>4. QED
      BY <2>4, <3>3 DEF IInv
  <2>5. QED
    BY <2>3, <2>4
<1>2. ASSUME IInv, UNCHANGED vars PROVE IInv'
  <2>1. Basic'
    BY <1>2 DEF IInv, Basic, vars, Types, Numbers, Steps, OverrunNeedsTurnover, Tagged
  <2>2. ASSUME Tame' PROVE Full'
    <3>1. Full
      BY <1>2, <2>2 DEF IInv, vars, Tame
    <3>2. PICK own, pos : Lists(own, pos)
      BY <3>1 DEF Full
    <3>3. Racing(own)'
      BY <1>2, <3>2 DEF vars, Lists, Racing
    <3>4. FreedToItsPool' /\ Exclusive' /\ Lists(own, pos)'
      BY <1>2, <3>1, <3>2, <3>3, NoChunkMoves DEF vars
    <3>5. Typed'
      BY <1>2, <2>1, <3>1 DEF Full, Typed, Basic, vars
    <3>6. Positions' /\ Unused'
      BY <1>2, <2>1, <3>1 DEF Full, Basic, vars, Positions, Unused, Live, Sound
    <3>7. QED
      BY <2>1, <2>2, <3>4, <3>5, <3>6 DEF Full, Basic
  <2>3. QED
    BY <2>1, <2>2 DEF IInv
<1>3. QED
  BY <1>1, <1>2

\* The invariant holds in every state the pools reach.
THEOREM Invariance == Spec => []IInv
BY InitIInv, NextIInv, PTL DEF Spec

\* Types: among them, that no chunk is with the application twice, up to the end
\* of a pool whose chunks were passed to others.
THEOREM TypeCorrect == Spec => []TypeOK
<1>1. IInv => TypeOK
  BY DEF IInv, Basic, Full, Typed, TypeOK
<1>2. QED
  BY <1>1, Invariance, PTL

\* The application never has memory that was given back to ::free, as long as
\* chunks of plain pools return to the pool they came from.
THEOREM FreedAlwaysToItsPool == Spec => []FreedToItsPool
<1>1. IInv => FreedToItsPool
  <2>1. IInv /\ ~crossed => FreedToItsPool
    BY DEF IInv, Tame, Full
  <2>2. crossed => FreedToItsPool
    BY DEF FreedToItsPool
  <2>3. QED
    BY <2>1, <2>2
<1>2. QED
  BY <1>1, Invariance, PTL

\* As long as no thread ends, object_pool_array_ is large enough for any
\* max_thread_num threads.
THEOREM OverrunAlwaysByTurnover == Spec => []OverrunNeedsTurnover
<1>1. IInv => OverrunNeedsTurnover
  BY DEF IInv, Basic
<1>2. QED
  BY <1>1, Invariance, PTL

\* In a sound history the lists are as described.
LEMMA SoundFull == IInv /\ Sound => Full
BY DEF IInv, Sound, Tame

\* In a sound history a chunk in a free list is in the list of a pool with
\* blocks and a tail_, and the links from head_ lead to it.
LEMMA FreeIsReached ==
  ASSUME Full, Sound, NEW own, NEW pos, Lists(own, pos), NEW c \in Chunks, own[c] # 0
  PROVE  own[c] \in Pools /\ Live(own[c]) /\ tail[own[c]] # Null /\ c \in FreeList(own[c])
<1>1. own[c] \in Pools
  BY DEF Lists
<1>2. head[own[c]] # Null
  BY <1>1 DEF Lists, Heads
<1>3. Live(own[c])
  BY <1>1, <1>2 DEF Full, Unused
<1>4. tail[own[c]] # Null
  BY <1>1, <1>3, Consts DEF Lists, Tails
<1>5. c \in Reach(own[c])
  BY <1>1, <1>3, FreeListIs DEF Full
<1>6. QED
  BY <1>1, <1>3, <1>4, <1>5 DEF FreeList

\* The free lists lead from head_ to tail_ through free chunks of their own
\* blocks, whenever other threads append.
THEOREM ListAlwaysWellFormed == Spec => []ListWellFormed
<1>1. IInv => ListWellFormed
  <2>1. SUFFICES ASSUME Full, Sound, NEW p \in Pools
                 PROVE  IF tail[p] = Null \/ blocks[p] = {} THEN head[p] = Null
                        ELSE tail[p] \in Reach(p) /\ FreeList(p) \subseteq blocks[p] \ InUse
    BY SoundFull DEF ListWellFormed
  <2>2. PICK own, pos : Lists(own, pos)
    BY <2>1 DEF Full
  <2>3. tail[p] = Null => ~Live(p)
    BY <2>2, Consts DEF Lists, Tails
  <2>4. ~Live(p) => head[p] = Null
    BY <2>1 DEF Full, Unused
  <2>5. ASSUME Live(p) PROVE tail[p] \in Reach(p) /\ FreeList(p) \subseteq blocks[p] \ InUse
    <3>1. Reach(p) = {c \in Chunks : own[c] = p}
      BY <2>1, <2>2, <2>5, FreeListIs DEF Full
    <3>2. tail[p] \in Reach(p)
      BY <2>2, <2>5, <3>1 DEF Lists, Tails
    <3>3. ASSUME NEW c \in FreeList(p) PROVE c \in blocks[p] /\ c \notin InUse
      <4>1. c \in Chunks /\ own[c] = p /\ own[c] # 0
        BY <3>1, <3>3, Consts DEF FreeList
      <4>2. held[c] = 0 /\ (\A t \in Threads : arg[t] # c) /\ c \in blocks[p]
        BY <2>1, <2>2, <4>1 DEF Lists, Free, Sound
      <4>3. QED
        BY <4>2 DEF InUse
    <3>4. QED
      BY <3>2, <3>3
  <2>6. QED
    BY <2>3, <2>4, <2>5 DEF Live
<1>2. QED
  BY <1>1, Invariance, PTL

\* Neither the owner, which decided from a tail_ that others move, nor a thread
\* that appends follows a null or junk link.
THEOREM NeverBadDereference == Spec => []NoBadDereference
<1>1. IInv => NoBadDereference
  <2>1. SUFFICES ASSUME Full, Sound
                 PROVE  /\ crashed # "link"
                        /\ \A t \in Threads :
                             /\ pc[t] = "publish" => tail[tag[arg[t]]] # Null
                             /\ pc[t] = "pop" => head[threadId[t]] \in Chunks \ {tail[threadId[t]]}
    BY SoundFull DEF NoBadDereference
  <2>2. crashed # "link"
    BY <2>1 DEF Full, Unused
  <2>3. ASSUME NEW t \in Threads, pc[t] = "publish" PROVE tail[tag[arg[t]]] # Null
    BY <2>1, <2>3, PublishLive, Consts
  <2>4. ASSUME NEW t \in Threads, pc[t] = "pop" PROVE head[threadId[t]] \in Chunks \ {tail[threadId[t]]}
    <3>1. threadId[t] \in Pools /\ head[threadId[t]] # tail[threadId[t]]
      BY <2>1, <2>4 DEF Full, Positions, Steps, Typed, Types
    <3>2. Live(threadId[t])
      BY <2>1, <2>4 DEF Full, Unused
    <3>3. head[threadId[t]] \in Chunks
      BY <2>1, <3>1, <3>2 DEF Full, Lists, Tails, Heads
    <3>4. QED
      BY <3>1, <3>3
  <2>5. QED
    BY <2>2, <2>3, <2>4
<1>2. QED
  BY <1>1, Invariance, PTL

\* No chunk is lost but in the race of an append with resize_and_malloc.
THEOREM LeaksOnlyInGrowRace == Spec => []LeakOnlyInGrowRace
<1>1. IInv => LeakOnlyInGrowRace
  <2>1. SUFFICES ASSUME Full, Sound, Plain => exits = 0, NEW c \in Provided
                 PROVE  c \in Accounted \cup raced
    BY SoundFull DEF LeakOnlyInGrowRace
  <2>2. PICK own, pos : Lists(own, pos)
    BY <2>1 DEF Full
  <2>3. c \in Chunks
    BY <2>1, ProvidedChunks DEF Full, Typed
  <2>4. c \in InUse \/ own[c] # 0 \/ c \in raced
    BY <2>1, <2>2 DEF Lists, Kept
  <2>5. CASE own[c] # 0
    BY <2>1, <2>2, <2>3, <2>5, FreeIsReached DEF Accounted
  <2>6. QED
    BY <2>4, <2>5 DEF Accounted
<1>2. QED
  BY <1>1, Invariance, PTL
-----------------------------------------------------------------------------
(* The pools implement the allocator.                                      *)

Out == [c \in Chunks |-> IF Tame THEN held[c] + Cardinality({t \in Threads : arg[t] = c}) ELSE 0]

\* A chunk is out once if it is in use: with the application, or on its way
\* back in the hands of the one thread that holds the lock of its pool.
LEMMA OutIsInUse == Full => Out = [c \in Chunks |-> IF c \in InUse THEN 1 ELSE 0]
<1> SUFFICES ASSUME Full PROVE Out = [c \in Chunks |-> IF c \in InUse THEN 1 ELSE 0]
  OBVIOUS
<1>1. ASSUME NEW c \in Chunks
      PROVE  held[c] + Cardinality({t \in Threads : arg[t] = c}) = IF c \in InUse THEN 1 ELSE 0
  <2>1. held[c] \in {0, 1} /\ c # Null
    BY Consts DEF Full, Typed, Types
  <2>2. CASE \A t \in Threads : arg[t] # c
    <3>1. {t \in Threads : arg[t] = c} = {}
      BY <2>2
    <3>2. Cardinality({t \in Threads : arg[t] = c}) = 0
      BY <3>1, FS_EmptySet
    <3>3. c \in InUse <=> held[c] = 1
      BY <2>1, <2>2 DEF InUse
    <3>4. QED
      BY <2>1, <3>2, <3>3
  <2>3. CASE \E t \in Threads : arg[t] = c
    <3>1. PICK t \in Threads : arg[t] = c
      BY <2>3
    <3>2. \A u \in Threads : arg[u] = c => lockTail[tag[c]] = u
      BY <2>1 DEF Full, Positions
    <3>3. {u \in Threads : arg[u] = c} = {t}
      BY <3>1, <3>2
    <3>4. Cardinality({u \in Threads : arg[u] = c}) = 1
      BY <3>3, FS_Singleton
    <3>5. held[c] = 0
      BY <3>1 DEF Full, Exclusive
    <3>6. c \in InUse
      BY <2>1, <3>1 DEF InUse
    <3>7. QED
      BY <3>4, <3>5, <3>6
  <2>4. QED
    BY <2>2, <2>3
<1>2. QED
  BY <1>1 DEF Out, Full

\* A step hands out one chunk that nobody has, or none.
LEMMA OneHandedOut ==
  ASSUME Full, [Next]_vars
  PROVE  \/ InUse' \subseteq InUse
         \/ \E c \in Chunks \ InUse : InUse' = InUse \cup {c}
<1>1. Types /\ \A c \in Chunks : held[c] \in {0, 1}
  BY DEF Full, Typed, Types
<1>2. CASE UNCHANGED <<held, arg>>
  BY <1>2 DEF InUse
<1>3. ASSUME NEW c \in Chunks, held[c] = 0, \A u \in Threads : arg[u] # c, arg' = arg,
             held' = [held EXCEPT ![c] = @ + 1]
      PROVE  \E d \in Chunks \ InUse : InUse' = InUse \cup {d}
  <2>1. c \notin InUse
    BY <1>3 DEF InUse
  <2>2. \A d \in Chunks : held'[d] > 0 <=> held[d] > 0 \/ d = c
    BY <1>1, <1>3 DEF Types
  <2>3. InUse' = InUse \cup {c}
    BY <1>3, <2>2 DEF InUse
  <2>4. QED
    BY <2>1, <2>3
<1>4. ASSUME NEW t \in Threads, Pop(t), ~UNCHANGED <<held, arg>>
      PROVE  \E d \in Chunks \ InUse : InUse' = InUse \cup {d}
  <2> DEFINE h == head[threadId[t]]
  <2>1. h \in Chunks /\ held' = [held EXCEPT ![h] = @ + 1] /\ arg' = arg /\ pc[t] = "pop"
    BY <1>4 DEF Pop, Goto, HandOver
  <2>2. threadId[t] \in Pools /\ h # Null
    BY <1>1, <2>1, Consts DEF Full, Positions, Steps, Typed, Types
  <2>3. PICK own, pos : Lists(own, pos)
    BY DEF Full
  <2>4. own[h] # 0
    BY <2>2, <2>3, Consts DEF Lists, Heads
  <2>5. held[h] = 0 /\ \A u \in Threads : arg[u] # h
    BY <2>1, <2>3, <2>4 DEF Lists, Free
  <2>6. QED
    BY <1>3, <2>1, <2>5
<1>5. ASSUME NEW t \in Threads, Grow(t) PROVE \E d \in Chunks \ InUse : InUse' = InUse \cup {d}
  <2>1. PICK first \in Starts[kind] : GrowAt(t, first)
    BY <1>5 DEF Grow
  <2>2. /\ pc[t] = "grow" /\ first..first + nextSize[threadId[t]] - 1 \subseteq Chunks \ Provided
        /\ held' = [held EXCEPT ![first] = @ + 1] /\ arg' = arg
    BY <2>1 DEF GrowAt, Goto, HandOver
  <2>3. threadId[t] \in Pools
    BY <1>1, <2>2 DEF Full, Positions, Steps, Types
  <2>4. nextSize[threadId[t]] \in Nat \ {0, 1} /\ first \in 1..MaxChunks
    BY <1>1, <2>3, SizeAssumption DEF Types
  <2>5. first \in first..first + nextSize[threadId[t]] - 1
    BY <2>4, Consts
  <2>6. first \in Chunks /\ first \notin InUse
    BY <2>2, <2>5 DEF Full, Exclusive
  <2>7. held[first] = 0 /\ \A u \in Threads : arg[u] # first
    BY <1>1, <2>6, Consts DEF InUse
  <2>8. QED
    BY <1>3, <2>2, <2>6, <2>7
<1>6. ASSUME NEW t \in Threads, NEW c \in Chunks, FreeOwn(t, c) \/ FreePlain(t, c) \/ FreeAppend(t, c)
      PROVE  InUse' \subseteq InUse
  <2>1. /\ held[c] > 0 /\ held' = [held EXCEPT ![c] = @ - 1]
        /\ arg' = arg \/ arg' = [arg EXCEPT ![t] = c]
    BY <1>6 DEF FreeOwn, FreePlain, Push, FreeAppend
  <2>2. \A d \in Chunks : held'[d] > 0 => held[d] > 0
    BY <1>1, <2>1 DEF Types
  <2>3. c \in InUse /\ \A u \in Threads : arg'[u] \in {arg[u], c}
    BY <1>1, <2>1 DEF InUse, Types
  <2>4. QED
    BY <2>2, <2>3 DEF InUse
<1>7. ASSUME NEW t \in Threads, Publish(t) PROVE InUse' \subseteq InUse
  <2>1. held' = held /\ arg' = [arg EXCEPT ![t] = Null]
    BY <1>7 DEF Publish
  <2>2. \A u \in Threads : arg'[u] \in {arg[u], Null}
    BY <1>1, <2>1 DEF Types
  <2>3. QED
    BY <2>1, <2>2 DEF InUse
<1>8. ASSUME NEW t \in Threads, Purge(t) \/ Exit(t) PROVE InUse' \subseteq InUse
  <2>1. arg' = arg /\ \A d \in Chunks : held'[d] > 0 => held[d] > 0
    BY <1>1, <1>8 DEF Purge, Exit, PurgeMemory
  <2>2. QED
    BY <2>1 DEF InUse
<1>9. ASSUME NEW t \in Threads, Register(t) \/ CallMalloc(t) \/ OutOfMemory(t) PROVE UNCHANGED <<held, arg>>
  BY <1>9 DEF Register, CallMalloc, OutOfMemory
<1>10. CASE UNCHANGED vars
  BY <1>2, <1>10 DEF vars
<1>11. CASE Next
  <2>1. PICK t \in Threads :
          \/ Register(t) \/ CallMalloc(t) \/ Pop(t) \/ Grow(t) \/ OutOfMemory(t)
          \/ \E c \in Chunks : FreeOwn(t, c) \/ FreePlain(t, c) \/ FreeAppend(t, c)
          \/ Publish(t)
          \/ Purge(t) \/ Exit(t)
    BY <1>11 DEF Next
  <2>2. QED
    BY <1>2, <1>4, <1>5, <1>6, <1>7, <1>8, <1>9, <2>1
<1>12. QED
  BY <1>10, <1>11

\* core::ObjectPool implements Allocator: whatever the lists, the races on tail_
\* and the addresses ::malloc uses again, every operation hands out a chunk that
\* is not out, or takes some back.  So do plain pools until the memory of one
\* goes back after chunks were passed between them.
THEOREM PoolsImplementAllocator == Spec => ImplementsAllocator
<1>1. Init => A!Init
  <2>1. ASSUME Init PROVE InUse = {}
    BY <2>1 DEF Init, InUse
  <2>2. ASSUME Init PROVE Out = [c \in Chunks |-> 0]
    <3>1. Full
      BY <2>2, InitIInv DEF IInv, Init, Tame
    <3>2. Out = [c \in Chunks |-> IF c \in InUse THEN 1 ELSE 0]
      BY <3>1, OutIsInUse
    <3>3. QED
      BY <2>1, <2>2, <3>2
  <2>3. QED
    BY <2>2 DEF A!Init, Out
<1>2. ASSUME IInv, IInv', [Next]_vars PROVE [A!Next]_Out
  <2>1. ASSUME Tame, Tame' PROVE [A!Next]_Out
    <3>1. Out = [c \in Chunks |-> IF c \in InUse THEN 1 ELSE 0]
      BY <1>2, <2>1, OutIsInUse DEF IInv
    <3>2. Out' = [c \in Chunks |-> IF c \in InUse' THEN 1 ELSE 0]
      <4>1. Full'
        BY <1>2, <2>1 DEF IInv
      <4>2. (Out = [c \in Chunks |-> IF c \in InUse THEN 1 ELSE 0])'
        BY <4>1, OutIsInUse, PTL
      <4>3. QED
        BY <4>2
    <3>3. CASE InUse' \subseteq InUse
      <4>1. Out' \in [Chunks -> {0, 1}] /\ \A c \in Chunks : Out'[c] \in {0, Out[c]}
        BY <3>1, <3>2, <3>3
      <4>2. A!TakeBack
        BY <4>1 DEF A!TakeBack, Out
      <4>3. QED
        BY <4>2 DEF A!Next
    <3>4. CASE \E c \in Chunks \ InUse : InUse' = InUse \cup {c}
      <4>1. PICK c \in Chunks \ InUse : InUse' = InUse \cup {c}
        BY <3>4
      <4>2. Out[c] = 0 /\ Out' = [Out EXCEPT ![c] = 1]
        BY <3>1, <3>2, <4>1
      <4>3. A!HandOut
        BY <4>2 DEF A!HandOut, Out
      <4>4. QED
        BY <4>3 DEF A!Next
    <3>5. QED
      BY <1>2, <2>1, <3>3, <3>4, OneHandedOut DEF IInv
  <2>2. ASSUME ~Tame' PROVE [A!Next]_Out
    <3>1. Out' = [c \in Chunks |-> 0]
      BY <2>2 DEF Out
    <3>2. Out' \in [Chunks -> {0, 1}] /\ \A c \in Chunks : Out'[c] \in {0, Out[c]}
      BY <3>1
    <3>3. A!TakeBack
      BY <3>2 DEF A!TakeBack, Out
    <3>4. QED
      BY <3>3 DEF A!Next
  <2>3. Tame' => Tame
    BY <1>2, TameBefore DEF IInv, Basic
  <2>4. QED
    BY <2>1, <2>2, <2>3
<1>3. QED
  BY <1>1, <1>2, Invariance, PTL DEF Spec, ImplementsAllocator, A!Spec, Out
=============================================================================
