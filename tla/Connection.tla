----------------------------- MODULE Connection -----------------------------
(***************************************************************************)
(* The data path of one TCP connection in core::Server: the byte stream    *)
(* received, cut into packets by Client::PostReceive and handed to the     *)
(* application's handler, and Client::Send through the one send_buffer_ of *)
(* the client, which several threads call and IocpWork threads complete.   *)
(*                                                                         *)
(* The threads are those of the ThreadPool: Init() queues the IocpWork     *)
(* tasks, which never return, and AddWork queues the application's jobs    *)
(* behind them.  Here a job, like a handler, sends at most one message.    *)
(* The life of the Client object is the subject of IocpServer; this module *)
(* follows one client from its accept on and never deletes it.             *)
(*                                                                         *)
(* Bytes are cells: cell k of message m is <<m, k>>, and what matters of a *)
(* received byte is its place in the peer's stream.                        *)
(***************************************************************************)
EXTENDS Integers, Sequences, FiniteSets

CONSTANTS
  Threads,      \* the ThreadPool's threads: worker_amount_ of them
  IocpAmount,   \* iocp_worker_amount_
  Msgs, Size,   \* the messages sent, each once, and their lengths
  BufSize,      \* SEND_BUFFER_SIZE
  Loads,        \* bound: what the peer sends (the packets' body lengths), what
                \* is sent to it, and whether the connection may end
  HeaderSize,   \* packet_header_size_
  RecvSize,     \* RECV_BUFFER_SIZE
  Half, Wide,   \* a char is negative from Half (128) on; a UWORD is below Wide
  None

ASSUME ConnectionAssumption ==
  /\ IsFiniteSet(Threads) /\ None \notin Threads \cup Msgs /\ "iocp" \notin Msgs
  /\ {IocpAmount, BufSize, HeaderSize, RecvSize, Half, Wide} \subseteq Nat
  /\ Size \in [Msgs -> 0..BufSize]
  /\ Loads \subseteq [packets : Seq(0..Wide - 1), msgs : SUBSET Msgs, ends : BOOLEAN]
  /\ HeaderSize >= 1 /\ Half >= 1
  /\ 2 * Half <= Wide /\ RecvSize < Wide - Half /\ HeaderSize + Half <= RecvSize

NoSend == [m |-> None, dst |-> 0, k |-> 0, ptr |-> 0, alone |-> FALSE]
Zero == <<None, 0>>        \* a byte no message has written

VARIABLES
  handler,   \* post_receive_handler_ of the Server: "unset", "early" or "late"
  copy,      \* that of the copies of the Server the IocpWork tasks hold
  queue,     \* the ThreadPool's tasks: "iocp" or the message a job sends
  role, pc,  \* what each thread runs, and where it is in it
  snd,       \* the Send or PostSend a thread is in
  Packets, mayEnd,     \* the load that was chosen; never changes
  unsent,    \* bound: messages not sent yet
  sbuf, soff, slock,   \* send_buffer_: buffer_, offset_, lock_
  overrun,   \* memcpy wrote behind send_buffer_
  refused,   \* history: a WSASend failed at once, which leaves the buffer locked
  tx,        \* the WSASends under way
  conn,      \* "none", "up", "closing" (DisconnectEx called) or "down"
  rx,        \* the connection's receive and how far it is
  rpos,      \* how much of the peer's stream was received
  seg,       \* the last segment: its place, length and what PostReceive read
  roff,      \* offset_ of recv_buffer_
  aligned,   \* history: every segment was exactly one packet
  delivered, \* history: what the handler got, see Delivery
  ranBy      \* history: the handlers that ran

vars == <<handler, copy, Packets, mayEnd, queue, role, pc, snd, unsent, sbuf,
          soff, slock, overrun, refused, tx, conn, rx, rpos, seg, roff, aligned, delivered, ranBy>>

load == <<Packets, mayEnd>>
server == <<handler, copy, load>>
sendBuffer == <<sbuf, soff, slock, overrun, refused>>
receive == <<rx, rpos, seg, roff, aligned>>
heard == <<delivered, ranBy>>

NoSegment == [at |-> 0, n |-> 0, size |-> 0, by |-> None]

Init ==
  /\ handler = "unset" /\ copy = "none"
  /\ queue = <<>>
  /\ role = [t \in Threads |-> "idle"]
  /\ pc = [t \in Threads |-> "idle"]
  /\ snd = [t \in Threads |-> NoSend]
  /\ \E l \in Loads : Packets = l.packets /\ unsent = l.msgs /\ mayEnd = l.ends
  /\ sbuf = [i \in 0..BufSize - 1 |-> Zero]
  /\ soff = 0 /\ slock = FALSE /\ overrun = FALSE /\ refused = FALSE
  /\ tx = {}
  /\ conn = "none"
  /\ rx = "off" /\ rpos = 0 /\ seg = NoSegment /\ roff = 0
  /\ aligned = TRUE /\ delivered = <<>> /\ ranBy = {}

Goto(t, to) == pc' = [pc EXCEPT ![t] = to]

\* Threads that wait for a task, and for a completion, are alike: one of them
\* stands for all.
One(S) == CHOOSE t \in S : TRUE
Idle(t) == role[t] = "idle" /\ t = One({u \in Threads : role[u] = "idle"})
AtPort(t) == role[t] = "iocp" /\ pc[t] = "wait"
Waiting(t) == AtPort(t) /\ t = One({u \in Threads : AtPort(u)})
-----------------------------------------------------------------------------
(* Starting the server and its tasks.                                      *)

\* SetPostReceiveHandler, once, before or after Init().
SetPostReceiveHandler ==
  /\ handler = "unset"
  /\ handler' = IF copy = "none" THEN "early" ELSE "late"
  /\ UNCHANGED <<copy, load, queue, role, pc, snd, unsent, sendBuffer, tx, conn, receive, heard>>

MutIocpTasks == [i \in 1..IocpAmount + 1 |-> "iocp"]   \* mutant: i <= amount
IocpTasks == [i \in 1..IocpAmount |-> "iocp"]

\* Init(): every IocpWork task is bound to a copy of the Server.
ServerInit ==
  /\ copy = "none" /\ copy' = handler
  /\ queue' = IocpTasks
  /\ UNCHANGED <<handler, load, role, pc, snd, unsent, sendBuffer, tx, conn, receive, heard>>

\* AddWork: a job that will send message m.
AddWork(m) ==
  /\ conn # "none" /\ m \in unsent
  /\ queue' = Append(queue, m) /\ unsent' = unsent \ {m}
  /\ UNCHANGED <<server, role, pc, snd, sendBuffer, tx, conn, receive, heard>>

\* A thread of the pool takes the oldest task.
TakeTask(t) ==
  /\ Idle(t) /\ queue # <<>> /\ queue' = Tail(queue)
  /\ IF Head(queue) = "iocp"
     THEN /\ role' = [role EXCEPT ![t] = "iocp"] /\ Goto(t, "wait")
          /\ UNCHANGED snd
     ELSE /\ role' = [role EXCEPT ![t] = "job"] /\ Goto(t, "send")
          /\ snd' = [snd EXCEPT ![t].m = Head(queue)]
  /\ UNCHANGED <<server, unsent, sendBuffer, tx, conn, receive, heard>>
-----------------------------------------------------------------------------
(* Buffer.  Threads read offset_ without the lock; Produce locks, and       *)
(* Consume, in whichever thread, unlocks.                                  *)

MutGetBuffer == 0          \* mutant: GetBuffer() is Read()
GetBuffer == soff

MutLock == slock' = TRUE   \* mutant: Produce does not lock
Lock == ~slock /\ slock' = TRUE

MutUnlock == slock' = slock    \* mutant: Consume does not unlock
Unlock == slock' = FALSE

MutConsumed(offset, length) == offset   \* mutant: Consume forgets offset_
Consumed(offset, length) == offset - length
-----------------------------------------------------------------------------
(* Client::Send: memcpy, the context's pointer, Produce, WSASend.          *)

Sending(t) == pc[t] \in {"copy", "produce"}

\* A handler starts to send m.
StartSend(t, m) ==
  /\ m \in unsent /\ unsent' = unsent \ {m}
  /\ snd' = [snd EXCEPT ![t].m = m]
  /\ Goto(t, "send")

\* memcpy(send_buffer_.GetBuffer(), ...) reads offset_ without the lock.  For
\* the properties, the send is alone when the buffer is idle and nobody else is
\* between here and Produce.
Enter(t) ==
  /\ pc[t] = "send" /\ Goto(t, "copy")
  /\ LET others == {u \in Threads \ {t} : Sending(u)}
     IN snd' = [u \in Threads |->
          IF u = t THEN [snd[t] EXCEPT !.dst = GetBuffer, !.k = 0, !.alone = ~slock /\ others = {}]
          ELSE IF u \in others THEN [snd[u] EXCEPT !.alone = FALSE] ELSE snd[u]]
  /\ UNCHANGED <<server, queue, role, unsent, sendBuffer, tx, conn, receive, heard>>

\* memcpy writes the next byte.
CopyByte(t) ==
  LET s == snd[t] to == s.dst + s.k
  IN /\ pc[t] = "copy" /\ s.k < Size[s.m]
     /\ sbuf' = IF to < BufSize THEN [sbuf EXCEPT ![to] = <<s.m, s.k>>] ELSE sbuf
     /\ overrun' = (overrun \/ to >= BufSize)
     /\ snd' = [snd EXCEPT ![t].k = @ + 1]
     /\ UNCHANGED <<server, queue, role, pc, unsent, soff, slock, refused, tx, conn, receive, heard>>

\* send_context->buffer_.buf = send_buffer_.GetBuffer().
Point(t) ==
  /\ pc[t] = "copy" /\ snd[t].k = Size[snd[t].m]
  /\ snd' = [snd EXCEPT ![t].ptr = GetBuffer]
  /\ Goto(t, "produce")
  /\ UNCHANGED <<server, queue, role, unsent, sendBuffer, tx, conn, receive, heard>>

\* Where a thread goes when its Send returns.
Return(t) ==
  /\ snd' = [snd EXCEPT ![t] = NoSend]
  /\ IF role[t] = "job"
     THEN role' = [role EXCEPT ![t] = "idle"] /\ Goto(t, "idle")
     ELSE role' = role /\ Goto(t, IF seg.by = t THEN "handled" ELSE "wait")

\* send_buffer_.Produce spins for lock_, which stays locked; then WSASend is
\* pending or fails at once, for whatever reason.
Produce(t) ==
  LET s == snd[t]
  IN /\ pc[t] = "produce" /\ Lock
     /\ soff' = soff + Size[s.m]
     /\ \/ /\ tx' = tx \cup {[m |-> s.m, ptr |-> s.ptr, alone |-> s.alone, st |-> "kernel"]}
           /\ UNCHANGED refused
        \/ refused' = TRUE /\ UNCHANGED tx
     /\ Return(t)
     /\ UNCHANGED <<server, queue, unsent, sbuf, overrun, conn, receive, heard>>
-----------------------------------------------------------------------------
(* IO_SEND completions.                                                    *)

\* The kernel has sent the bytes, or given up on a dead connection.
SendDone(x) ==
  /\ x.st = "kernel"
  /\ \/ conn # "down" /\ tx' = (tx \ {x}) \cup {[x EXCEPT !.st = "ok"]}
     \/ conn = "down" /\ tx' = (tx \ {x}) \cup {[x EXCEPT !.st = "fail"]}
  /\ UNCHANGED <<server, queue, role, pc, snd, unsent, sendBuffer, conn, receive, heard>>

\* Disconnect(): the connection is down some time later.
Disconnect == conn' = IF conn = "up" THEN "closing" ELSE conn

\* A failed send, and one of no bytes, disconnects and leaves the buffer
\* locked; PostSend calls Consume.
TakeSend(t, x) ==
  /\ Waiting(t) /\ x.st \in {"ok", "fail"}
  /\ tx' = tx \ {x}
  /\ IF x.st = "fail" \/ Size[x.m] = 0
     THEN Disconnect /\ UNCHANGED <<pc, snd>>
     ELSE /\ snd' = [snd EXCEPT ![t] = [NoSend EXCEPT !.m = x.m]]
          /\ Goto(t, "move") /\ UNCHANGED conn
  /\ UNCHANGED <<server, queue, role, unsent, sendBuffer, receive, heard>>

\* Consume: memmove(buffer_, buffer_ + offset_, size_ - length).  A memcpy that
\* is under way may be caught at any byte of it.
Move(t) ==
  /\ pc[t] = "move" /\ Goto(t, "consume")
  /\ LET length == Size[snd[t].m]
     IN sbuf' = [i \in 0..BufSize - 1 |->
          IF i >= BufSize - length THEN sbuf[i]
          ELSE IF soff + i < BufSize THEN sbuf[soff + i] ELSE Zero]
  /\ UNCHANGED <<server, queue, role, snd, unsent, soff, slock, overrun, refused, tx, conn, receive, heard>>

\* The rest of Consume: offset_ -= length and unlock.
Consume(t) ==
  LET m == snd[t].m
  IN /\ pc[t] = "consume"
     /\ soff' = Consumed(soff, Size[m]) /\ Unlock
     /\ snd' = [snd EXCEPT ![t] = NoSend] /\ Goto(t, "wait")
     /\ UNCHANGED <<server, queue, role, unsent, sbuf, overrun, refused, tx, conn, receive, heard>>
-----------------------------------------------------------------------------
(* The peer's stream.                                                      *)

\* Where packet p begins; p = Len(Packets) + 1 is the end.
PacketStart[p \in 1..Len(Packets) + 1] ==
  IF p = 1 THEN 0 ELSE PacketStart[p - 1] + HeaderSize + Packets[p - 1]

Total == PacketStart[Len(Packets) + 1]

\* The packet that begins at a place of the stream; 0 if none does.
PacketAt(at) ==
  IF \E p \in 1..Len(Packets) : PacketStart[p] = at
  THEN CHOOSE p \in 1..Len(Packets) : PacketStart[p] = at ELSE 0

\* A header is size_, a UWORD, whose low byte comes first.
LowByte(size) == size % (2 * Half)

\* The values the first byte of a segment can have; of a body it can be anything.
FirstByte(at) == IF PacketAt(at) # 0 THEN {LowByte(Packets[PacketAt(at)])} ELSE 0..2 * Half - 1

MutPacketSize(b) == b      \* mutant: the byte is read as unsigned

\* packet_size = (UWORD)*(recv_buffer_.Read()): a signed char, sign-extended.
PacketSize(b) == IF b < Half THEN b ELSE Wide - 2 * Half + b

\* IO_ACCEPT and PrepareReceive: a receive of no bytes waits for data, or is
\* refused, which ends the connection.
Accept(t) ==
  /\ Waiting(t) /\ conn = "none"
  /\ \/ conn' = "up" /\ rx' = "ready"
     \/ conn' = "closing" /\ rx' = "off"
  /\ UNCHANGED <<server, queue, role, pc, snd, unsent, sendBuffer, tx, rpos, seg, roff, aligned, heard>>

MutPrepareReceive == rx' = "off" /\ UNCHANGED conn   \* mutant: nothing is posted

\* PrepareReceive: pending, or refused, which ends the chain of receives with
\* Disconnect().
PrepareReceive ==
  \/ rx' = "ready" /\ UNCHANGED conn
  \/ rx' = "off" /\ Disconnect

\* The kernel completes the receive of no bytes, and the one after it.
ReadyDone ==
  /\ rx = "ready" /\ (rpos < Total \/ conn = "down")
  /\ rx' = "readyDone"
  /\ UNCHANGED <<server, queue, role, pc, snd, unsent, sendBuffer, tx, conn, rpos, seg, roff, aligned, heard>>

\* IO_RECV_READY: Receive() offers recv_buffer_ from offset_ on.
Receive(t) ==
  /\ Waiting(t) /\ rx = "readyDone"
  /\ \/ rx' = "recv" /\ UNCHANGED conn
     \/ rx' = "off" /\ Disconnect
  /\ UNCHANGED <<server, queue, role, pc, snd, unsent, sendBuffer, tx, rpos, seg, roff, aligned, heard>>

\* A segment of n bytes arrives.
RecvDone(n) ==
  /\ rx = "recv" /\ conn # "down" /\ rpos < Total
  /\ n \in 1..RecvSize - roff /\ rpos + n <= Total
  /\ rx' = "recvDone" /\ rpos' = rpos + n
  /\ seg' = [NoSegment EXCEPT !.at = rpos, !.n = n]
  /\ LET p == PacketAt(rpos)
     IN aligned' = (aligned /\ p # 0 /\ n = HeaderSize + Packets[p])
  /\ UNCHANGED <<server, queue, role, pc, snd, unsent, sendBuffer, tx, conn, roff, heard>>

RecvFailed ==
  /\ rx = "recv" /\ conn = "down" /\ rx' = "recvFail"
  /\ UNCHANGED <<server, queue, role, pc, snd, unsent, sendBuffer, tx, conn, rpos, seg, roff, aligned, heard>>

\* A failed IO_RECV disconnects.
RecvGone(t) ==
  /\ Waiting(t) /\ rx = "recvFail" /\ rx' = "off" /\ Disconnect
  /\ UNCHANGED <<server, queue, role, pc, snd, unsent, sendBuffer, tx, rpos, seg, roff, aligned, heard>>

\* IO_RECV: PostReceive takes the segment for one packet if it is at least as
\* long as the size says, header not counted, and else drops it.
PostReceive(t) ==
  /\ Waiting(t) /\ rx = "recvDone"
  /\ \E b \in FirstByte(seg.at) : LET size == PacketSize(b) IN
       IF seg.n >= (size - roff) % Wide
       THEN /\ rx' = "held" /\ roff' = roff + HeaderSize + size
            /\ seg' = [seg EXCEPT !.size = size, !.by = t]
            /\ Goto(t, "handler") /\ UNCHANGED conn
       ELSE PrepareReceive /\ UNCHANGED <<roff, seg, pc>>
  /\ UNCHANGED <<server, queue, role, snd, unsent, sendBuffer, tx, rpos, aligned, heard>>

\* What the handler is given: the packet of the peer that begins there, 0 if
\* none does, and whether it is all of it.
Delivery ==
  LET p == PacketAt(seg.at)
  IN [p |-> p, whole |-> p # 0 /\ seg.size = Packets[p] /\ seg.n >= HeaderSize + seg.size]

MutHandler == handler      \* mutant: the tasks hold a reference to the Server
Handler == copy

\* The handler runs, and may answer.
RunHandler(t) ==
  /\ pc[t] = "handler" /\ Handler # "unset"
  /\ delivered' = Append(delivered, Delivery) /\ ranBy' = ranBy \cup {Handler}
  /\ \/ Goto(t, "handled") /\ UNCHANGED <<unsent, snd>>
     \/ \E m \in unsent : StartSend(t, m)
  /\ UNCHANGED <<server, queue, role, sendBuffer, tx, conn, receive>>

\* PostReceive calls its handler without testing it: an empty one throws, which
\* ends this thread's IocpWork task with recv_buffer_ locked.
NoHandler(t) ==
  /\ pc[t] = "handler" /\ Handler = "unset"
  /\ role' = [role EXCEPT ![t] = "idle"] /\ Goto(t, "idle")
  /\ seg' = [seg EXCEPT !.by = None]
  /\ UNCHANGED <<server, queue, snd, unsent, sendBuffer, tx, conn, rx, rpos, roff, aligned, heard>>

\* recv_buffer_.Consume, then PrepareReceive.  What Consume moves to the front
\* is where the next segment is put.
Handled(t) ==
  /\ pc[t] = "handled" /\ Goto(t, "wait")
  /\ roff' = Consumed(roff, HeaderSize + seg.size)
  /\ seg' = NoSegment
  /\ PrepareReceive
  /\ UNCHANGED <<server, queue, role, snd, unsent, sendBuffer, tx, rpos, aligned, heard>>

\* The handler of another client's packet sends to this client.
OtherHandler(t) ==
  /\ Waiting(t) /\ conn # "none" /\ Handler # "unset"
  /\ \E m \in unsent : StartSend(t, m)
  /\ UNCHANGED <<server, queue, role, sendBuffer, tx, conn, receive, heard>>

\* The connection ends: peer, network, or the DisconnectEx that was called.
ConnectionEnds ==
  /\ conn = "closing" \/ (conn = "up" /\ mayEnd)
  /\ conn' = "down"
  /\ UNCHANGED <<server, queue, role, pc, snd, unsent, sendBuffer, tx, receive, heard>>
-----------------------------------------------------------------------------
ThreadStep(t) ==
  \/ TakeTask(t)
  \/ Enter(t) \/ CopyByte(t) \/ Point(t) \/ Produce(t)
  \/ Move(t) \/ Consume(t)
  \/ RunHandler(t) \/ NoHandler(t) \/ Handled(t)

\* A waiting thread dequeues a completion.
Dequeue(t) == Accept(t) \/ Receive(t) \/ RecvGone(t) \/ PostReceive(t)

Kernel == ReadyDone \/ RecvFailed \/ (\E n \in 1..RecvSize : RecvDone(n))

Next ==
  \/ SetPostReceiveHandler \/ ServerInit \/ ConnectionEnds \/ Kernel
  \/ \E m \in Msgs : AddWork(m)
  \/ \E t \in Threads : \/ ThreadStep(t) \/ Dequeue(t) \/ OtherHandler(t)
                        \/ \E x \in tx : TakeSend(t, x)
  \/ \E x \in tx : SendDone(x)

Spec == Init /\ [][Next]_vars

(***************************************************************************)
(* The threads run.  The peer sends its stream and reads what it is sent   *)
(* while the connection is up; the kernel completes every operation.  The  *)
(* completion port is a FIFO queue, so that a completion is handled if     *)
(* some thread is waiting again and again.  Jobs, handlers that send and   *)
(* the end of the connection need not happen.                              *)
(***************************************************************************)
Fairness ==
  /\ WF_vars(Kernel) /\ WF_vars(\E x \in tx : SendDone(x))
  /\ \A t \in Threads : WF_vars(ThreadStep(t))
  /\ SF_vars(\E t \in Threads : Dequeue(t))
  /\ SF_vars(\E t \in Threads, x \in tx : TakeSend(t, x))

FairSpec == Spec /\ Fairness
-----------------------------------------------------------------------------
Sends == [m : Msgs \cup {None}, dst : 0..BufSize, k : 0..BufSize, ptr : 0..BufSize, alone : BOOLEAN]

TypeOK ==
  /\ handler \in {"unset", "early", "late"} /\ copy \in {"none", "unset", "early"}
  /\ queue \in Seq({"iocp"} \cup Msgs)
  /\ role \in [Threads -> {"idle", "iocp", "job"}]
  /\ pc \in [Threads -> {"idle", "wait", "send", "copy", "produce", "move", "consume", "handler", "handled"}]
  /\ snd \in [Threads -> Sends]
  /\ unsent \subseteq Msgs
  /\ sbuf \in [0..BufSize - 1 -> (Msgs \X (0..BufSize)) \cup {Zero}]
  /\ soff \in 0..BufSize /\ slock \in BOOLEAN /\ overrun \in BOOLEAN /\ refused \in BOOLEAN
  /\ tx \subseteq [m : Msgs, ptr : 0..BufSize, alone : BOOLEAN, st : {"kernel", "ok", "fail"}]
  /\ conn \in {"none", "up", "closing", "down"}
  /\ rx \in {"off", "ready", "readyDone", "recv", "recvDone", "recvFail", "held"}
  /\ rpos \in 0..Total /\ roff \in 0..RecvSize /\ aligned \in BOOLEAN
  /\ seg \in [at : 0..Total, n : 0..RecvSize, size : 0..Half - 1, by : Threads \cup {None}]
  /\ delivered \in Seq([p : 0..Len(Packets), whole : BOOLEAN]) /\ ranBy \subseteq {"early", "late"}

\* The send under way, or whose completion is being handled.
InFlight == {x.m : x \in tx} \cup {snd[t].m : t \in {u \in Threads : pc[u] \in {"move", "consume"}}}

\* The offset_ of send_buffer_ is 0 whenever its lock is free, and otherwise the
\* length of the one message under way: it never adds up over messages, so the
\* asserts in Produce and Consume hold whoever sends and whoever completes.  And
\* while messages are at most half of the buffer, no memcpy writes behind it,
\* although it takes the offset without the lock.
OffsetIsInFlight ==
  /\ Cardinality(InFlight) <= 1
  /\ ~slock => soff = 0 /\ InFlight = {}
  /\ \A m \in InFlight : soff = Size[m]
  /\ soff <= BufSize
  /\ (\A m \in Msgs : 2 * Size[m] <= BufSize) => ~overrun

\* A Send that met an idle buffer, and whom no other Send joined before its
\* Produce, is on the wire as it was written: all the time the kernel may read
\* it the buffer holds the message, whatever later Sends copy meanwhile.
SoloSendIntact ==
  \A x \in tx : x.alone => \A k \in 0..Size[x.m] - 1 : /\ x.ptr + k < BufSize
                                                     /\ sbuf[x.ptr + k] = <<x.m, k>>

\* As long as the peer's packets come in one segment each, the handler gets, once
\* each and in order, those whose size_ has a low byte below 128, and gets all of
\* a packet exactly if its body is below 128 bytes.  The size is read from one
\* signed char: of the other packets those with a low byte from 128 on are lost,
\* and of the rest (256 to 383 bytes, for instance) the handler gets a beginning.
AlignedInOrder ==
  aligned =>
    LET got == {p \in 1..Len(Packets) : PacketStart[p + 1] <= rpos /\ LowByte(Packets[p]) < Half}
        owed == IF rx = "recvDone" \/ \E t \in Threads : pc[t] = "handler" THEN 1 ELSE 0
    IN copy = "early" =>
         /\ \A i \in 1..Len(delivered) :
              delivered[i].p \in got /\ (delivered[i].whole <=> Packets[delivered[i].p] < Half)
         /\ \A i, j \in 1..Len(delivered) : i < j => delivered[i].p < delivered[j].p
         /\ Cardinality(got) - owed <= Len(delivered)

\* Only a handler that was set when Init() copied the Server ever runs, and an
\* IOCP thread is only lost when there was none.
HandlerOfInit ==
  /\ ranBy \subseteq {"early"}
  /\ (copy = "early" /\ conn # "none" =>
        Cardinality({t \in Threads : role[t] = "iocp"})
          + Cardinality({i \in 1..Len(queue) : queue[i] = "iocp"}) = IocpAmount)

\* All that run IocpWork wait in Produce for a buffer that is locked until one
\* of them handles the completion of the send under way.
Deadlocked == slock /\ \A t \in Threads : role[t] = "iocp" => pc[t] = "produce"

\* Nothing is promised once the connection ended, a refused WSASend left the
\* buffer locked or the IOCP threads deadlock.
Stuck == conn \in {"closing", "down"} \/ refused \/ Deadlocked

\* A locked send_buffer_ is released, so that those who wait in Produce can go
\* on, unless Stuck.
BufferReleased == slock ~> (~slock \/ Stuck)

\* The jobs given to AddWork are begun, unless Stuck: the IocpWork tasks, which
\* never end, leave them a thread.
WorkStarts == (queue # <<>>) ~> (queue = <<>> \/ Stuck)

\* The peer's stream is read to its end, however it is cut and whatever of it
\* PostReceive drops, unless Stuck or no handler was set.
StreamIsRead == (conn = "up") ~> (rpos = Total \/ Stuck \/ copy = "unset")
=============================================================================
