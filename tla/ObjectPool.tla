----------------------------- MODULE ObjectPool -----------------------------
(***************************************************************************)
(* The pools of core/memory_pool over core::Pool and                       *)
(* core::segregated_storage: a singly linked free list threaded through    *)
(* the free chunks, of which the owner pops and pushes the head without a  *)
(* lock.  Two kinds of owners use it:                                      *)
(*  - "tagged": core::ObjectPool gives every thread a pool and a number,   *)
(*    stored behind each object.  A thread that frees a chunk of another   *)
(*    one's pool appends it at that pool's tail_ under lock_tail_, a       *)
(*    Spinlock that is only taken exclusively (see Mutex).  The owner      *)
(*    never takes that lock: it reads tail_ in empty() and again in        *)
(*    segregate().  A thread that ends leaves its pool and number behind.  *)
(*  - "plain": the pool of a thread (core::SingletonPool) or of a          *)
(*    container (core::FastPoolAllocator).  Whoever frees a chunk pushes   *)
(*    it on its own list, and the end of the owner frees its blocks.       *)
(*                                                                         *)
(* Actions are cut at the reads and writes of tail_ and of next_of(tail_), *)
(* the only words two threads touch; what lies between two cuts is local   *)
(* to one thread.  Sizes count chunks, a chunk is the number of its place  *)
(* in memory, and ::malloc returns any places that no block covers: those  *)
(* of a block that went back to ::free may be used again.                  *)
(***************************************************************************)
EXTENDS Integers, FiniteSets

CONSTANTS
  Threads,     \* the threads, or containers, that use a pool
  Kinds,       \* the kinds of pool: "tagged", "plain"
  None,
  Allocators,  \* bound, by kind: the threads that call Malloc; the others only free
  Leavers,     \* bound: the threads that may end
  FirstSize,   \* next_size_ of a new pool (64)
  PurgeSize,   \* next_size_ after PurgeMemory (32)
  MaxThreads,  \* max_thread_num (64)
  MaxChunks,   \* chunks the memory has room for
  Starts,      \* by kind: the places at which ::malloc lets a block begin
  MaxEnds      \* bound: calls of PurgeMemory and threads that end, together

\* segregate() steps from the last chunk down to the first and has to meet it
\* from above, so a block has two chunks or more.
ASSUME SizeAssumption ==
  /\ FirstSize \in Nat /\ FirstSize >= 2
  /\ PurgeSize \in Nat /\ PurgeSize >= 2
  /\ {MaxThreads, MaxChunks, MaxEnds} \subseteq Nat
  /\ IsFiniteSet(Threads) /\ Cardinality(Threads) <= MaxThreads
  /\ None \notin Threads /\ Leavers \subseteq Threads
  /\ Kinds \subseteq {"tagged", "plain"}
  /\ Allocators \in [Kinds -> SUBSET Threads]
  /\ Starts \in [Kinds -> SUBSET (1..MaxChunks)]

Chunks == 1..MaxChunks
Pools == 1..MaxThreads
Null == 0
Junk == -1    \* what the application wrote over the link of its chunk

VARIABLES
  kind,             \* the kind of pool; never changes
  threadIdCounter,  \* thread_id_counter: pools made so far
  threadId,         \* thread_id_, the number of a thread's pool; 0 before
  head, tail,       \* head_, tail_ of each pool
  lockTail,         \* lock_tail_ of each pool: the thread that holds it
  nextSize,         \* next_size_
  blocks,           \* chunks in the blocks linked from first_
  next,             \* next_of(chunk)
  tag,              \* the number malloc() stores behind the object
  held,             \* how often the application has each chunk
  pc, arg,          \* where a thread is in the pool's code, chunk it frees
  purges, exits,
  raced,            \* history: chunks that an append took the place of at tail_
                    \* while the owner was between empty() and segregate()
  crossed,          \* history: a plain pool got a chunk of another one
  crashed           \* "no", or what went wrong: a null or junk "link", no "memory",
                    \* more "threads" than object_pool_array_ holds, or a chunk
                    \* that is given to two users ("twice")

vars == <<kind, threadIdCounter, threadId, head, tail, lockTail, nextSize, blocks,
          next, tag, held, pc, arg, purges, exits, raced, crossed, crashed>>

registry == <<kind, threadIdCounter, threadId, exits>>
memory == <<nextSize, blocks, purges>>

Init ==
  /\ kind \in Kinds
  /\ threadIdCounter = 0
  /\ threadId = [t \in Threads |-> 0]
  /\ head = [p \in Pools |-> Null]
  /\ tail = [p \in Pools |-> Null]
  /\ lockTail = [p \in Pools |-> None]
  /\ nextSize = [p \in Pools |-> FirstSize]
  /\ blocks = [p \in Pools |-> {}]
  /\ next = [c \in Chunks |-> Junk]
  /\ tag = [c \in Chunks |-> 0]
  /\ held = [c \in Chunks |-> 0]
  /\ pc = [t \in Threads |-> "idle"]
  /\ arg = [t \in Threads |-> Null]
  /\ purges = 0 /\ exits = 0
  /\ raced = {} /\ crossed = FALSE
  /\ crashed = "no"

Tagged == kind = "tagged"
Plain == kind = "plain"

\* What the blocks cover; ::malloc has the rest.
Provided == UNION {blocks[p] : p \in Pools}

Goto(t, from, to) == crashed = "no" /\ pc[t] = from /\ pc' = [pc EXCEPT ![t] = to]

\* The free list of a pool, followed from head_ up to tail_.
Reach(p) ==
  LET within[i \in 0..MaxChunks] ==
        {head[p]} \cup IF i = 0 THEN {}
                       ELSE {next[c] : c \in (within[i-1] \cap Chunks) \ {tail[p]}}
  IN within[MaxChunks]

FreeList(p) == Reach(p) \cap Chunks
-----------------------------------------------------------------------------
MutHasPool(t) == FALSE     \* mutant: object_pool_ is not remembered
HasPool(t) == threadId[t] # 0

\* object_pool(): the first call of a thread makes its pool and its number,
\* whether or not object_pool_array_ has room for it.
Register(t) ==
  /\ Goto(t, "idle", "idle") /\ ~HasPool(t)
  /\ IF threadIdCounter < MaxThreads
     THEN /\ threadIdCounter' = threadIdCounter + 1
          /\ threadId' = [threadId EXCEPT ![t] = threadIdCounter']
          /\ UNCHANGED crashed
     ELSE /\ Tagged /\ crashed' = "threads"
          /\ UNCHANGED <<threadIdCounter, threadId>>
  /\ UNCHANGED <<kind, exits, head, tail, lockTail, next, tag, held, arg, raced, crossed, memory>>

MutEmpty(p) == TRUE        \* mutant: Malloc() always adds a block
Empty(p) == head[p] = tail[p]

\* Malloc(): Empty() decides between the list and a new block.
CallMalloc(t) ==
  /\ t \in Allocators[kind] /\ threadId[t] # 0
  /\ Goto(t, "idle", IF Empty(threadId[t]) THEN "grow" ELSE "pop")
  /\ UNCHANGED <<head, tail, lockTail, next, tag, held, arg, raced, crossed, crashed, registry, memory>>

MutTagOf(t, c) == tag[c]         \* mutant: malloc() stores no number
TagOf(t, c) == threadId[t]

\* The chunk is tagged and goes to the application, which writes over the link.
HandOver(t, c) ==
  /\ tag' = [tag EXCEPT ![c] = TagOf(t, c)]
  /\ held' = [held EXCEPT ![c] = @ + 1]
  /\ crashed' = IF held[c] > 0 THEN "twice" ELSE "no"

MutPopped(p) == head[p]          \* mutant: head_ is returned and not advanced
Popped(p) == next[head[p]]

\* segregated_storage::malloc(), reached with head_ # tail_.
Pop(t) ==
  LET p == threadId[t]
  IN /\ Goto(t, "pop", "idle")
     /\ IF head[p] \in Chunks
        THEN /\ HandOver(t, head[p])
             /\ head' = [head EXCEPT ![p] = Popped(p)]
             /\ next' = [next EXCEPT ![head[p]] = Junk]
        ELSE crashed' = "link" /\ UNCHANGED <<tag, held, head, next>>
     /\ UNCHANGED <<tail, lockTail, arg, raced, crossed, registry, memory>>

MutLastLink(p) == Null           \* mutant: segregate() ends the block with nullptr
LastLink(p) == tail[p]

\* resize_and_malloc() when ::malloc returns the place first: a block of
\* next_size_ chunks in front of tail_, as segregate() now finds it; head_ moves
\* to the block whatever it was; then the first chunk is popped.
GrowAt(t, first) ==
  LET p == threadId[t]
      last == first + nextSize[p] - 1
  IN /\ Goto(t, "grow", "idle")
     /\ first..last \subseteq Chunks \ Provided
     /\ tail' = [tail EXCEPT ![p] = IF @ = Null THEN last ELSE @]
     /\ next' = [c \in Chunks |->
                  CASE c = first -> Junk
                    [] c \in first + 1 .. last - 1 -> c + 1
                    [] c = last -> LastLink(p)
                    [] OTHER -> next[c]]
     /\ head' = [head EXCEPT ![p] = first + 1]
     /\ HandOver(t, first)
     /\ blocks' = [blocks EXCEPT ![p] = @ \cup first..last]
     /\ nextSize' = [nextSize EXCEPT ![p] = 2 * @]
     /\ UNCHANGED <<lockTail, arg, purges, raced, crossed, registry>>

Grow(t) == \E first \in Starts[kind] : GrowAt(t, first)

\* ::malloc fails, which it may at any time: a plain pool returns null, and
\* ObjectPool::malloc() stores the number behind it.
OutOfMemory(t) ==
  /\ Goto(t, "grow", "idle")
  /\ crashed' = IF Tagged THEN "memory" ELSE "no"
  /\ UNCHANGED <<head, tail, lockTail, next, tag, held, arg, raced, crossed, registry, memory>>
-----------------------------------------------------------------------------
\* segregated_storage::free: chunk c becomes the head of the thread's own pool.
Push(t, c) ==
  LET p == threadId[t]
  IN /\ Goto(t, "idle", "idle") /\ p # 0 /\ held[c] > 0
     /\ held' = [held EXCEPT ![c] = @ - 1]
     /\ next' = [next EXCEPT ![c] = head[p]]
     /\ head' = [head EXCEPT ![p] = c]
     /\ UNCHANGED <<tail, lockTail, tag, arg, raced, crashed, registry, memory>>

\* Free(c) of a chunk with the thread's own number.
FreeOwn(t, c) == Tagged /\ tag[c] = threadId[t] /\ Push(t, c) /\ UNCHANGED crossed

\* Free(c) and deallocate(c, 1) of a plain pool: nobody asks where c is from.
FreePlain(t, c) == Plain /\ Push(t, c) /\ crossed' = (crossed \/ tag[c] # threadId[t])

MutLockFree(p) == TRUE           \* mutant: free_append without lock_tail_
LockFree(p) == lockTail[p] = None

MutLinked(p, c) == next          \* mutant: the old tail is not linked to the chunk
Linked(p, c) == [d \in Chunks |-> IF d = tail[p] THEN c ELSE next[d]]

\* Free(c) of another thread's chunk: free_append on the pool of the tag, whether
\* or not its thread still runs.  lock_tail_.lock(); next_of(tail_) = chunk.
FreeAppend(t, c) ==
  LET p == tag[c]
  IN /\ Goto(t, "idle", "publish")
     /\ Tagged /\ threadId[t] # 0 /\ held[c] > 0 /\ p # threadId[t]
     /\ held' = [held EXCEPT ![c] = @ - 1]
     /\ arg' = [arg EXCEPT ![t] = c]
     /\ LockFree(p) /\ lockTail' = [lockTail EXCEPT ![p] = t]
     /\ next' = Linked(p, c)
     /\ crashed' = IF tail[p] = Null THEN "link" ELSE "no"
     /\ UNCHANGED <<head, tail, tag, raced, crossed, registry, memory>>

\* tail_ = chunk; lock_tail_.unlock()
Publish(t) ==
  LET p == tag[arg[t]]
  IN /\ Goto(t, "publish", "idle")
     /\ tail' = [tail EXCEPT ![p] = arg[t]]
     /\ lockTail' = [lockTail EXCEPT ![p] = None]
     /\ arg' = [arg EXCEPT ![t] = Null]
     /\ raced' = IF \E u \in Threads : threadId[u] = p /\ pc[u] = "grow"
                 THEN raced \cup {tail[p]} ELSE raced
     /\ UNCHANGED <<head, next, tag, held, crossed, crashed, registry, memory>>
-----------------------------------------------------------------------------
\* PurgeMemory of pool p: the blocks go back to ::free.  The application may
\* not use its chunks of this pool any more, nor be freeing one.
PurgeMemory(p) ==
  /\ \A u \in Threads : arg[u] \notin blocks[p]
  /\ blocks' = [blocks EXCEPT ![p] = {}]
  /\ held' = [c \in Chunks |-> IF c \in blocks[p] THEN 0 ELSE held[c]]
  /\ nextSize' = [nextSize EXCEPT ![p] = PurgeSize]
  /\ head' = [head EXCEPT ![p] = Null]

Purge(t) ==
  /\ purges + exits < MaxEnds /\ purges' = purges + 1
  /\ Goto(t, "idle", "idle") /\ threadId[t] # 0
  /\ PurgeMemory(threadId[t])
  /\ UNCHANGED <<tail, lockTail, next, tag, arg, raced, crossed, crashed, registry>>

\* A thread ends; what is started next finds no pool.  object_pool_ is a plain
\* pointer, so that its pool stays behind; the plain pool is destroyed.
Exit(t) ==
  /\ t \in Leavers /\ purges + exits < MaxEnds /\ exits' = exits + 1
  /\ Goto(t, "idle", "idle") /\ threadId[t] # 0
  /\ threadId' = [threadId EXCEPT ![t] = 0]
  /\ IF Plain THEN PurgeMemory(threadId[t])
     ELSE UNCHANGED <<blocks, held, nextSize, head>>
  /\ UNCHANGED <<kind, threadIdCounter, tail, lockTail, next, tag, arg, purges,
                 raced, crossed, crashed>>

Next ==
  \E t \in Threads :
    \/ Register(t) \/ CallMalloc(t) \/ Pop(t) \/ Grow(t) \/ OutOfMemory(t)
    \/ \E c \in Chunks : FreeOwn(t, c) \/ FreePlain(t, c) \/ FreeAppend(t, c)
    \/ Publish(t)
    \/ Purge(t) \/ Exit(t)

Spec == Init /\ [][Next]_vars
-----------------------------------------------------------------------------
InUse == {c \in Chunks : held[c] > 0} \cup ({arg[t] : t \in Threads} \ {Null})

Accounted == InUse \cup UNION {FreeList(p) : p \in {q \in Pools : tail[q] # Null}}

\* Nothing is promised of a pool that was purged, or of plain pools between
\* which chunks were passed.
Sound == purges = 0 /\ ~crossed

\* A chunk of a block that went back to ::free is in no list, unless chunks of
\* plain pools were passed around: such a pool keeps it, and hands it out.
Tame == ~crossed \/ (purges = 0 /\ exits = 0)

Types ==
  /\ kind \in Kinds
  /\ threadIdCounter \in 0..MaxThreads
  /\ threadId \in [Threads -> {0} \cup Pools]
  /\ head \in [Pools -> Chunks \cup {Null, Junk}]
  /\ tail \in [Pools -> Chunks \cup {Null}]
  /\ lockTail \in [Pools -> Threads \cup {None}]
  /\ nextSize \in [Pools -> Nat \ {0, 1}]
  /\ blocks \in [Pools -> SUBSET Chunks]
  /\ next \in [Chunks -> Chunks \cup {Null, Junk}]
  /\ tag \in [Chunks -> {0} \cup Pools]
  /\ held \in [Chunks -> Nat]
  /\ pc \in [Threads -> {"idle", "pop", "grow", "publish"}]
  /\ arg \in [Threads -> Chunks \cup {Null}]
  /\ purges \in 0..MaxEnds /\ exits \in 0..MaxEnds
  /\ raced \subseteq Chunks /\ crossed \in BOOLEAN
  /\ crashed \in {"no", "link", "memory", "threads", "twice"}

\* The types, and that nobody is given a chunk that another one has.
TypeOK == Types /\ (Tame => held \in [Chunks -> {0, 1}])

\* From head_ the links lead to tail_, through chunks of this pool's own
\* blocks that nobody has: remote appends at any moment, also to the pool of a
\* thread that has ended, never cut the list, close it to a cycle or let a
\* chunk in use into it.
ListWellFormed ==
  Sound =>
    \A p \in Pools :
      IF tail[p] = Null \/ blocks[p] = {} THEN head[p] = Null
      ELSE /\ tail[p] \in Reach(p)
           /\ FreeList(p) \subseteq blocks[p] \ InUse

\* Before any PurgeMemory no operation follows a null or junk link, and
\* free_append's assert(tail_ != nullptr) holds.  The owner that decided to pop
\* because head_ # tail_ a while ago finds that still so: appends that came in
\* between never make the answer wrong.
NoBadDereference ==
  Sound =>
    /\ crashed # "link"
    /\ \A t \in Threads :
         /\ pc[t] = "publish" => tail[tag[arg[t]]] # Null
         /\ pc[t] = "pop" => head[threadId[t]] \in Chunks \ {tail[threadId[t]]}

\* A chunk in use lies in a block of the pool whose number it carries, also
\* when it is freed by another thread, after the owner ended, or after a purge:
\* the application never has memory that was given back to ::free, as long as
\* chunks of plain pools return to the pool they came from.
FreedToItsPool == ~crossed => \A c \in InUse : tag[c] \in Pools /\ c \in blocks[tag[c]]

\* A fixed set of at most max_thread_num threads, whatever they allocate and
\* free, never outgrows object_pool_array_; it takes threads that end, whose
\* numbers are not given back.
OverrunNeedsTurnover ==
  crashed = "threads" =>
    exits > 0 /\ exits + Cardinality({t \in Threads : threadId[t] # 0}) = MaxThreads

\* Every chunk of a block is in use or in its free list, but for those lost in
\* one race: free_append comes in after Empty() was answered and before
\* segregate() reads tail_.  The chunk appended last is kept, as the tail_ in
\* front of which the block is put; the tail_ that Empty() saw, and what was
\* appended before the last, are unreachable until the pool is purged.
LeakOnlyInGrowRace ==
  Sound /\ (Plain => exits = 0) => Provided \subseteq Accounted \cup raced

A == INSTANCE Allocator
       WITH out <- [c \in Chunks |->
                      IF Tame THEN held[c] + Cardinality({t \in Threads : arg[t] = c}) ELSE 0]

\* The pools together are an allocator, also of addresses that come back from
\* ::free: no chunk is handed out while it is with the application or on its
\* way back.  For plain pools that lasts until the memory of one goes back
\* after chunks were passed between pools (Tame).
ImplementsAllocator == A!Spec

\* TestObjectPool purges its pool and goes on to allocate from it
\* (object_pool_.PurgeMemory(); assert(object_pool_.Preallocate(50))): a purged
\* pool serves Malloc like a new one.
PurgedPoolUsable == crashed # "link"
=============================================================================
