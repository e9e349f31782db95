# server-core: TLA+ models, checks and proofs

server-core is a C++ (Windows, IOCP) library for game servers. This directory
models the parts of it in which several threads or several messages meet, checks
them with TLC on small instances and proves, with TLAPS and for every instance,
the safety properties of all of them. Paths below are relative to `src/core/`.

## Inventory

| Component | State | Operations | Met by |
|---|---|---|---|
| `lock/` Spinlock | two atomic words `lock_`, `reader_` | Lock, Unlock, ReadLock, ReadUnlock, the two holders | every other component |
| `thread_manager/` ThreadPool | `tasks_`, `stop`, workers, one Spinlock | worker loop, Enqueue, destructor | TCP Server (IocpWork, AddWork) |
| `memory_pool/` segregated_storage, Pool, ObjectPool | per thread a free list `head_`/`tail_`, `lock_tail_`, blocks; globally `object_pool_array_`, a thread counter | Malloc, Free, free_append, resize, PurgeMemory, first use by a thread | TCP (Client, IoContext), UDP (Session, io_data, Packet) |
| SingletonPool, FastPoolAllocator | a Pool per thread or container | Malloc, Free, PurgeMemory, the end of the thread or container | applications |
| `udp_server/` SessionManager, Session | `pending_sessions_`, `sessions_`, a Spinlock each, `is_alive_` per session, `is_inited_all`, `have_to_stop_` | setters, Run, iocp_task on N threads, heartbeat thread, destructor | network, application handlers |
| `udp_server/` Socket, Packet, Endpoint, Server | association with the port, receives outstanding, packet buffers | Recv, Send, set-up | SessionManager |
| `server/` Server, ClientManager, Client, IoContext, Buffer | `clients_`, `current_`, a client's socket and its two buffers (`offset_`, `lock_`), IoContexts in the kernel, handlers and their copies | Init, Run (accept), IocpWork, AddWork, Send, Receive, PostSend, PostReceive, Disconnect | kernel, peers, application handlers |

What makes each correct:

* Spinlock: writers exclude each other and readers; who waits gets in.
* ThreadPool: every accepted task runs once, in order, and before the destructor
  returns; nothing is accepted after `stop`.
* ObjectPool: no chunk is handed out twice, freed chunks come home, the list is
  never broken although the owner takes no lock.
* Plain pools: an owner that ends takes only its own chunks with it.
* SessionManager: threads start only with all handlers and a port; a session has one owner and is deleted once, silent clients go
  and talking clients stay, the server goes on listening, threads use live sessions.
* TCP server: one receive and one send per client at a time, live clients only,
  a right count, ended connections are removed; a message is sent as it was
  given, packets are delivered whole and in order, nobody waits for ever for a
  buffer, jobs get a thread.

The hard behaviours are listed, each at its line, under `hazards` in
`PROJECT.json`: check-then-act on two atomic words, pointers and iterators used
after an unlock, raw pointers in kernel-held contexts, a lock taken by one thread
and released by another, 16-bit and unsigned counters, lost, repeated and reordered
datagrams, receives that are not re-posted, shutdown races.

## Modules

| Module | Models |
|---|---|
| `Mutex` | an atomic mutex, what `Lock`/`Unlock` promise |
| `Spinlock`, `MCSpinlock` | the Spinlock, one action per atomic operation |
| `SpinlockProofs` | theorems about Spinlock |
| `ThreadPool`, `MCThreadPool` | the pool, on top of `Mutex` (its Spinlock is only used exclusively, and Spinlock implements Mutex) |
| `ThreadPoolProofs` | theorems about ThreadPool |
| `Allocator` | what the pools promise their callers |
| `ObjectPool`, `MCObjectPool` | segregated_storage + Pool + ObjectPool, shown to implement Allocator |
| `ObjectPoolProofs` | theorems about ObjectPool |
| `SessionManager`, `MCSessionManager` | the UDP session manager |
| `SessionManagerProofs` | theorems about SessionManager |
| `IocpServer`, `MCIocpServer` | the life of TCP connections: objects, contexts, removal |
| `IocpServerProofs` | theorems about IocpServer |
| `Connection`, `MCConnection` | the bytes of one TCP connection: buffers, framing, handlers, and the pool's threads that handle them |
| `ConnectionProofs` | theorems about Connection |
| `SetInduction` | induction over the naturals for a set, used by the proofs |

Definitions named `Mut...` are wrong variants of the definition that follows
them (a dropped guard, a missing reset). They are used by no specification: each
shows that a property fails when the code has that fault (`mutants` in
`PROJECT.json`).

### Spinlock

`pc` says where a thread is inside the operations. `Exchange` is line 16 of
`Spinlock.cpp`, `Drain` line 18, `Check` line 35 and `Enter` line 36: the last two
are separate atomic operations. Failed attempts change nothing. The mapping to
`Mutex` takes the threads whose `Lock()` has returned as the holder.

### ThreadPool

A critical section of `spinlock_` is an acquiring action and one action for its
body and the holder's destructor. The histories `accepted`, `started` and
`finished` record what emplace, pop and the end of a body did. Tasks may submit
tasks (`Parent`) and may never return (`Endless`: `IocpWork`, `Server.cpp:71-72`).
Enqueue from outside starts before the destructor is called and the destructor
does not return while such a call is inside: the owner of any C++ object owes this.

### ObjectPool

Pools are numbered. With `kind = "tagged"` they are those of `ObjectPool`: a
thread gets its pool and number at first use (`Register`), frees go by the number
behind the object, to the own head (`FreeOwn`) or to another pool's tail
(`FreeAppend`, `Publish`). With `kind = "plain"` they are those of
`SingletonPool` (one per thread) and `FastPoolAllocator` (one per container, the
"threads" then being containers): frees go to the own list, whatever the chunk
(`FreePlain`). Actions are cut at the reads and writes of `tail_` and of the link
of the last chunk, the only words two threads touch without a common lock:
`CallMalloc` reads `tail_` (Empty), `Pop` and `Grow` follow later; the statements
of `free_append` before `tail_` is written are one action, since nobody else writes
them under `lock_tail_` and nobody reads a tail's link. An allocated chunk's link
is overwritten (`Junk`). A chunk is the number of its place in memory: `::malloc`
returns any places (`Starts`) that no block covers now, so those of a block that went
back to `::free` come again, and may fail at any time (`OutOfMemory`). Block headers
are left out and chunks lie on one grid, so that a reused place is a whole chunk or
none; in the program it may also overlap two. A thread may end (`Exit`): a tagged pool
stays behind and its number is lost, a plain one frees its blocks. What ends the
program is recorded in `crashed` and stops the model. So does a chunk that is handed
out while somebody has it (`"twice"`): plain pools come to that when chunks were
passed between them and the block of such a chunk then goes back to `::free` and is
used again. `Tame` says that this has not begun; what is promised of plain pools is
promised in `Tame` states. `raced` records the chunks that an append replaced at
`tail_` while the owner was between `Empty()` and `segregate()`: these, and not the
chunk appended last, are what the new block cuts off.
`Preallocate`, `Construct` and `Destroy` are sequences of Malloc and Free calls
and add no behaviour of their own.

### SessionManager

The model starts with the constructor's result (`port`): no completion port and no
socket (`none`), a socket that could not be associated, whose `is_with_iocp_` is
then uninitialised (`deaf` if it reads false and Recv() returns at once, `lost` if
it reads true and what is posted never completes at the port), or `ok`. The setters
(`SetHandler`) and `Run` come in any order; `Run` starts the threads if
`is_inited_all` is exactly 0x0111. It is called once.

A section under a Spinlock is one action; what a worker does after the unlock,
with the pointer or iterator it found, is the next action. Any datagram from any
endpoint may arrive at any time, which includes loss, repetition and reordering.
`posted` counts the outstanding receives: `Recv()` gives one back at the end of a
branch, and a `continue` does not. `Recv()` itself may post nothing, as nobody looks
at the results of `WSARecvFrom` (`socket.cpp:60`) and of `bind` (`socket.cpp:27`);
`lapsed` counts both cases. `is_alive_` wraps at `Half` as the 16-bit
`InterlockedIncrement16` does. `ub` records the first undefined behaviour (a
handler that was never set, a deleted session used, an invalid iterator erased, a
detached handler that reads a deleted session through its captured reference) and
stops the model. `Kill` is undefined whenever it is reached: `session_manager.cpp:56`
applies `delete` to an object that line 88 placed in memory of `session_pool_`. The
model lets that break the program (`ub = "delete"`) or go on as if the memory had been
given back; what holds of later reaps holds in the second case only.
A locked section is atomic against readers and writers alike. `spinlock_readers`
shows that the Spinlock does not quite give that; the properties of this module
are those that hold once the lock does its work.

### IocpServer

An IoContext is a record (type, client, generation) that is in the kernel,
completed, or held by a thread. Kernel, port and peer are external: operations
complete in any order, those on a dead connection fail, a `WSASend` of no bytes ends
on a live one and counts as failed (`EmptySent`, `Server.cpp:102`), and
`WSARecv`/`WSASend` may be refused at once on any connection. `gen` tells the objects that were made at
one address apart, so that a stale `Client*` is recognised although the pool hands
the address out again; `stale` records the first use of one and stops the model.
`++current_` in `NewClient` is split into its read and its write, since
`DeleteClient` decrements it under a lock that `NewClient` does not take. Of the
handlers only the receive handler calls Send or Disconnect here. The post-accept
handler runs beside the first receive, the pre-disconnect handler gets a client that
an earlier disconnect may have deleted, and the post-disconnect handler always gets
one that was deleted two lines above (`Server.cpp:138-140`): whether these handlers are
set and look at their client are the constants `HasPostAccept`, `HasPreDisconnect` and
`HasPostDisconnect`. The remaining ones are called in the same step as a use of the
client by IocpWork. `busy` records the addresses at whose clients a handler sent,
disconnected or ran beside the first receive. `broken` records that the last send of a
client was refused, failed or had no bytes, after which its buffer is never unlocked.
An empty receive handler, whose call throws (`Client.cpp:50`) and ends the task and the
chain of receives, is in Connection only (`NoHandler`). Received data, framing and the contents of
the buffers are left out (see Connection); the lock of the send buffer is not.

### Connection

One client from its accept on, never deleted (that is IocpServer's subject), and
all the threads of the pool. `ServerInit` queues the endless `IocpWork` tasks, each
with a copy of the Server and so of the handler that was set by then; `AddWork`
queues jobs behind them.

* Sending. `Send` is cut where the code can be interrupted: the offset is read
  without the lock (`Enter`), memcpy writes byte by byte (`CopyByte`), the context's
  pointer is read from the offset again (`Point`), then `Produce` waits for the lock
  and WSASend takes the message. Consume is the memmove (`Move`) and the rest
  (`Consume`), run by whichever thread took the completion. A byte of a message is
  the pair of message and index, so a torn or foreign byte is seen.
* Receiving. The peer's stream is a sequence of packets; the kernel cuts it into
  segments of any length that fits the buffer. A body has any length a `UWORD` can say
  (`Packet.h:6`). `PostReceive` reads the first byte of that, the low one (`LowByte`),
  as a signed char, compares, drops or delivers. What is delivered is recorded as the
  packet that begins there, or 0, and whether it is all of it.
* Handlers. With no handler at Init() the call throws, which ends that thread's
  IocpWork task; the pool's thread goes on to its next task.

Threads that wait for a task, and threads that wait at the port, are alike, so one
of them stands for all. `Produce` and the `WSASend` after it are one action: the
buffer is locked between them and nobody looks at the context. The handler of
another client may send to this one (`OtherHandler`); packets of other clients that
meet an empty handler are not followed. The `char` boundary 128 is `Half`, a `UWORD`
is below `Wide`.

## Runs

All bounds are constants of the modules, named there.

| Run | Instance | What it shows |
|---|---|---|
| `spinlock` | 3 threads | `WriterMutex`, `DrainSeesNoReader`, refinement of `Mutex`, `WriterGetsIn`. Three threads are two competitors for one holder in every mixture of modes. |
| `spinlock_readers` | 2 threads | violated: a reader and a writer are inside together (reader tests `lock_`, writer takes the lock and sees no reader, reader counts itself) |
| `threadpool` | 3 workers, 4 tasks, two submitted by tasks, one endless | FIFO without loss, one run per task, the destructor returns and then everything has run, accepted tasks are started |
| `objectpool` | both kinds, 6 chunks, room for 3 numbers, one purge or one thread that ends and another in its place. Tagged: 1 allocating thread, 2 that free its chunks, blocks of 2 and 4. Plain: 2 allocating threads and 1 that frees, blocks of 2 at three places that overlap | `ListWellFormed`, `NoBadDereference`, `FreedToItsPool`, `OverrunNeedsTurnover`, `LeakOnlyInGrowRace`, refinement of `Allocator`. Two appending threads make them compete for `lock_tail_`; the second block is where resize meets append; overlapping places let a block be used again; one thread more than numbers makes the array overrun happen. |
| `objectpool_reuse` | 1 thread | violated: Malloc after PurgeMemory goes through a null `head_` |
| `sessions` | 2 workers, 1 endpoint, 1 session, counter in -4..3 | `StartedComplete`, `ReaperNeverMisses`, `HeardStaysConnected`, `DisconnectedIsReaped`, `ServerListens`. -4..3 is the smallest range with -3 inside and room to overflow. |
| `sessions_handshake` | 2 workers, 2 endpoints, 3 sessions | `OneOwner`, `LostOnlyAsDuplicate` |
| `sessions_freed` | 1 worker | violated: a session is counted up after it was deleted |
| `sessions_ack` | 2 workers | violated: two workers erase the same pending iterator |
| `iocp_receive` | 2 threads, 2 addresses, 3 clients made, no sends | `CountExact`, `ClosedIsRemoved` |
| `iocp_send` | 2 threads, 2 addresses, 2 clients made, 2 sends, a post-accept and a pre-disconnect handler, disconnects by the receive handler and DisconnectEx that may fail | `NoStaleClient`, and `OneReceive`, `OneSend`, `ClientsAreLive` up to the first use of a stale client. Two addresses let one client be quiet while the other is not; one address is also used twice. |
| `connection` | 3 threads, 2 of them for IocpWork, buffers of 4 bytes, messages of 0, 1 and 2 bytes, a receive buffer of 6, streams of up to 3 packets with bodies of 1, 2 and 5 bytes (2 is past `Half`, the low byte of 5 is 1), six loads | `OffsetIsInFlight`, `SoloSendIntact`, `AlignedInOrder`, `HandlerOfInit`, `BufferReleased`, `WorkStarts`, `StreamIsRead`. Two IOCP threads are the fewest that can both be caught in `Produce`; three messages make a third sender meet two; half the buffer is the length at which two messages just fit. |

The largest state spaces are those of `objectpool` (1.6 million distinct states) and
`iocp_send` (1.6 million, up to the symmetry of threads and addresses).

Deadlock checking is off where the system may stop: a pool whose destructor is
done, workers that have left, bounds that are used up, and states after undefined
behaviour. The Spinlock runs check for deadlock.

What the violated runs say about the code, with the lines they contradict, is
under `findings`. More observations come with the passing runs:
`HeardStaysConnected` needs the proviso that the 16-bit counter has not
overflowed (32768 more packets than checks and a talking client is dropped), and
`LostOnlyAsDuplicate` names the two places where `insert()` keeps the old entry
and the new Session is never freed, although `ahandler_` is still called for it.
`Connection` makes precise what a caller of `Client::Send` can rely on: one sender
at a time (`SoloSendIntact`) and no message over half the buffer (`OffsetIsInFlight`).
Senders that meet write over each other, and when every IOCP thread is among them
they wait for ever (`Deadlocked`). Packets that arrive in a segment each are delivered
whole and in order if their body is below 128 bytes (`AlignedInOrder`); with a size
byte from 128 on they are lost, and otherwise, from 256 to 383 bytes for instance, the
handler gets a beginning of them. Of coalesced packets the
first is delivered and the rest dropped, and parts of a packet are delivered or
dropped by what their first byte happens to be. A Send of no bytes ends the
connection and leaves its buffer locked, as does any send that is refused (`OneSend`). `OverrunNeedsTurnover` bounds the threads that ever touch an ObjectPool
by 64, and `iocp_task` starts a thread, with a Packet of its own, per data packet.

### Fairness

* Spinlock: weak fairness for each thread's steps inside an operation and for
  releasing the lock; nobody has to ask for it. A single thread is not promised
  the lock (there is no queue); `WriterGetsIn` speaks of one that won the exchange.
* ThreadPool: weak fairness for workers, Enqueue calls and the destructor; tasks
  outside `Endless` return.
* SessionManager: weak fairness for workers (`GetQueuedCompletionStatus` returns
  after `wait_time`), detached handlers and the heartbeat thread. No datagram has
  to arrive.
* IocpServer: weak fairness for threads and for the kernel ending operations on
  dead connections and DisconnectEx; strong fairness for taking a completion, as
  the port's queue is FIFO. No data and no peer has to come. `ClosedIsRemoved`
  assumes that DisconnectEx succeeds: `Client.cpp:81` ignores its result, and a
  client whose DisconnectEx fails at once stays for ever. It also assumes that a
  receive handler is set, without which the chain of receives ends at the first packet.
* Connection: weak fairness for the pool's threads and for the kernel, which
  completes sends and receives; the peer sends its stream and reads what it is sent
  while the connection is up. Strong fairness for taking a completion: the port is a
  FIFO queue, and threads come back to it again and again. Jobs, answers and the end
  of the connection need not happen. Spinning in `Produce` for a locked buffer is a
  disabled step: fairness does not give such a thread the lock.

## Proofs

`SpinlockProofs`, from `ThreadsFinite` alone: type correctness, `WriterMutex`,
`ReaderCount`, `DrainSeesNoReader`, `NoReaderAdmittedBehindWriter` and
`Spec => M!Spec`. The inductive invariant is `TypeOK /\ WriterMutex /\ ReaderCount`.
`WriterMutex` says besides exclusion that `lock_` is 1 exactly while a thread is
past its exchange, without which the next exchange could not be excluded, and
`ReaderCount` keeps `reader_` a natural number: a decrement is always by a thread
that was counted. The action properties and the refinement follow step by step
from it.

`ThreadPoolProofs`, from `PoolAssumption`: type correctness, `FifoNoLoss`,
`StartedAccountedFor`, `ExitMeansDrained`, `NoAcceptAfterStop`, and, if there is at
least one worker, `ShutdownRunsEverything`. The inductive invariant adds to these:
a task is accepted at most once (`AcceptedOnce`), `stop` is set exactly when the
destructor is past it (`StopIsDtor`), a worker has a task exactly while it runs one
(`TaskIsRun`), and a destructor that is done found every worker gone
(`DoneMeansExited`). With these, done gives an empty queue and idle workers, and
`FifoNoLoss` turns that into "all accepted are finished". A pool of no workers
accepts tasks that never run, hence the hypothesis.

`ObjectPoolProofs`, from `SizeAssumption`: type correctness, `FreedToItsPool`,
`OverrunNeedsTurnover`, `ListWellFormed`, `NoBadDereference`, `LeakOnlyInGrowRace`
and the refinement of `Allocator`. The properties speak of `Reach`, the links
followed from `head_`, and no step can be followed through that. The invariant
therefore says that there are `own` and `pos` (`Lists`): the pool each chunk is free
in, and its place there, which grows by one along every link. A push takes the place
before the first, an append the one behind the last, a new block those before
`tail_`; the other parts say who has which number (`Numbers`), what each thread may
assume where it is (`Positions`), and that the last chunk of a list is with nobody
else (`Exclusive`), which is what lets the owner work without the lock. `FreeListIs`
closes the gap: `Reach(p)` is exactly the chunks with `own[c] = p`, because a list
has no more places than there are chunks. The refinement then needs only that the
chunk at `head_` is not in use. `LeakOnlyInGrowRace` rests on `Racing`: while the
owner is between `Empty()` and `segregate()`, its list is the chunk `tail_` points to
and others that an append has replaced there. All of this is the invariant of `Tame`
states (`Full`); outside of them, where plain pools hand out chunks that ::malloc has
given away again, `Basic` (types, numbers, program counters) remains. `ListWellFormed`,
`NoBadDereference`, `FreedToItsPool` and `LeakOnlyInGrowRace` state their condition
themselves; the types (`held` is 0 or 1) and the refinement hold up to `Tame`, which
for ObjectPools is always.

`SessionManagerProofs`, from `ManagerAssumption`: type correctness,
`StartedComplete`, `ReaperNeverMisses`, `OneOwner`, and the action properties
`HeardStaysConnected` and `LostOnlyAsDuplicate`, and that receives are conserved
(`ReceivesConserved`: those outstanding and those lapsed are one per worker at the port
or gone), which is the safety part of `ServerListens`. The invariant adds that every
pointer in a map or a worker's hands leads to an object that was made, filed under
its own endpoint (`Pointers`), that the places of a session exclude each other entry
by entry (`Apart`), and that a session in the map has a counter of at least -1, 0 if
it was heard (`Counters`). `ReaperNeverMisses` rests on that and on the one owner: a
session in the map and in the vector would be counted down twice in a round.

`IocpServerProofs`, from `ServerAssumption`: type correctness, `ClientsAreLive`,
`CountExact`, `OneReceive`, `OneSend` and `NoStaleClient`. The invariant says who
handles which context (`Handling`), that a context is for a client that is or was at
its address (`Contexts`), and that until AddClient the accept is its client's only
context and nobody deletes that client (`Accepting`). `Receiving` is `OneReceive` with
"equal" for "at most one", `Sending` adds to `OneSend` that a pending send is not a broken
one. For `NoStaleClient` a second invariant says that a client at an address
outside `busy` has one context and lives as long as that (`OneContext`): RemoveClient
then deletes a client nobody else has, whatever the handlers of other clients do. What
is left out is a server with a post-disconnect handler that uses its client, for which
the property says nothing: the code gives that handler a deleted client every time.

`ConnectionProofs`, from `ConnectionAssumption`: type correctness,
`OffsetIsInFlight`, `SoloSendIntact`, `HandlerOfInit` and `AlignedInOrder`. The
sending part of the invariant says where the holder of the buffer's lock is: a send
under way, the thread that handles its completion, or nobody any more
(`OneHolder`); that an offset is 0 or the length of one message, also where a memcpy
read it earlier (`OffsetOfOne`); and that a send that was alone has its bytes at the
front, with later copies behind them (`SoloCopy`, `SoloWire`). The receiving part
says that one thread is in PostReceive at a time, that `recv_buffer_` is empty
before it, and where in the stream a packet begins. The third part counts the
IocpWork tasks in the queue and on threads.

The assumptions on the constants are what the code's constants satisfy: finite sets
of threads and objects, limits below the modulus of their counter, model values that
differ (`None`, `"top"`, `"iocp"`), messages that fit the send buffer, packets whose
length fits the `UWORD` of their header. The bounds of the runs are constants of the
theorems too, of any value.

Induction over data. The library's induction theorems take an operator, which the
provers cannot instantiate; `SetInduction` states the principle for a set of numbers
instead. The facts about `Reach` (a recursive function) and about positions in the
stream are proved with it.

Only model-checked: all liveness (`WriterGetsIn`, `ShutdownTerminates`,
`AcceptedGetsStarted`, `DisconnectedIsReaped`, `ServerListens`, `ClosedIsRemoved`,
`BufferReleased`, `WorkStarts`, `StreamIsRead`): fairness and ENABLED are out of the
prover's reach. Every safety property of a passing run is also a theorem.

## Not modelled

* UDP packet contents and read buffers: a detached handler reads the worker's
  buffer through a reference after the worker has freed it. No document says what
  a handler may rely on, and nothing holds of it but what is recorded as `ub`.
* `GetAllClient`: what an application does with the unlocked vector is outside the
  repository, and no code in it calls it.
* Socket set-up in `Server::Init` and its asserts, socket options, and the handler
  setters of the TCP server other than that of the receive handler (`Connection`) and
  those of IocpServer's constants: pre-accept, pre-send, post-send and timeout handlers
  are called with a null test beside a use of the client by IocpWork itself. What they,
  or the post-accept and pre-disconnect handlers, do by calling Send or Disconnect is
  not modelled.
* A second call of `SessionManager::Run`, and handlers replaced while threads run
  (an unsynchronised write of a std::function).
* `~ObjectPool`, which frees the calling thread's pool object while other
  ObjectPools of the type, and other threads' chunks, still lead to it. The
  library's own pools are static or belong to objects that are never deleted.
* Memory that is never given back without any race: the socket of a deleted Client
  is not closed, and the completion of a UDP send frees its write_io_data without
  running the destructor that would release the packet.
* allocator_interface, null_mutex, tests and benchmarks: no state of the library.
* Weak memory: atomics are sequentially consistent by default in the code; the
  plain accesses to `head_`/`tail_`/links and to the buffers' `offset_` are taken in
  program order, as x86 does.

## Plan

1. Done: Spinlock, ThreadPool, ObjectPool with the plain pools, SessionManager from
   start-up on, IocpServer, Connection, with the runs above, and proofs of all their
   safety properties.
2. Next, proofs: shorter ones where two modules share an argument.
3. Open: SessionManager on top of the Spinlock's real reader/writer guarantee.
