-------------------------- MODULE ConnectionProofs --------------------------
(***************************************************************************)
(* Proofs about the data path of a connection, for any number of threads,  *)
(* messages, buffer sizes and any stream of the peer.                      *)
(*                                                                         *)
(* The inductive invariant has three parts.  SInv is the sending side: one *)
(* WSASend, or the thread that handles its completion, holds the lock of   *)
(* send_buffer_, so that offset_ is the length of one message; a send that *)
(* was alone has its bytes at the front, and whoever copies meanwhile took *)
(* an offset behind them.  RInv is the receiving side: one thread at a     *)
(* time is in PostReceive, recv_buffer_ is empty before it, and as long as *)
(* every segment was one packet the stream was read up to where a packet   *)
(* begins.  HInv counts the IocpWork tasks.                                *)
(***************************************************************************)
EXTENDS Connection, SetInduction, FiniteSetTheorems, SequenceTheorems

\* TypeOK in three parts: the threads and what they run, send_buffer_, and the
\* receiving side.
ThreadType ==
  /\ handler \in {"unset", "early", "late"} /\ copy \in {"none", "unset", "early"}
  /\ queue \in Seq({"iocp"} \cup Msgs)
  /\ role \in [Threads -> {"idle", "iocp", "job"}]
  /\ pc \in [Threads -> {"idle", "wait", "send", "copy", "produce", "move", "consume", "handler", "handled"}]
  /\ snd \in [Threads -> Sends]
  /\ unsent \subseteq Msgs

BufferType ==
  /\ sbuf \in [0..BufSize - 1 -> (Msgs \X (0..BufSize)) \cup {Zero}]
  /\ soff \in 0..BufSize /\ slock \in BOOLEAN /\ overrun \in BOOLEAN /\ refused \in BOOLEAN
  /\ tx \subseteq [m : Msgs, ptr : 0..BufSize, alone : BOOLEAN, st : {"kernel", "ok", "fail"}]

\* The program counters that go with each role.
RoleOfPc ==
  \A t \in Threads :
    /\ role[t] = "idle" <=> pc[t] = "idle"
    /\ pc[t] \in {"wait", "move", "consume", "handler", "handled"} => role[t] = "iocp"

\* A thread that sends, or handles the completion of a send, has a message.
HasMessage ==
  \A t \in Threads :
    /\ pc[t] \in {"send", "copy", "produce", "move", "consume"} => snd[t].m \in Msgs
    /\ pc[t] = "copy" => snd[t].k <= Size[snd[t].m]

Completes(t) == pc[t] \in {"move", "consume"}

\* The one holder of send_buffer_'s lock is a WSASend under way or the thread
\* that handles its completion; or nobody is left who will release it.
OneHolder ==
  /\ \A x, y \in tx : x = y
  /\ \A t, u \in Threads : Completes(t) /\ Completes(u) => t = u
  /\ tx # {} => \A t \in Threads : ~Completes(t)
  /\ ~slock => soff = 0 /\ tx = {} /\ \A t \in Threads : ~Completes(t)
  /\ \A x \in tx : soff = Size[x.m]
  /\ \A t \in Threads : Completes(t) => soff = Size[snd[t].m]

\* An offset is 0 or the length of one message, also where a memcpy read it.
OffsetOfOne ==
  /\ soff \in {0} \cup {Size[m] : m \in Msgs}
  /\ \A t \in Threads : pc[t] = "copy" => snd[t].dst \in {0} \cup {Size[m] : m \in Msgs}

NoOverrun == (\A m \in Msgs : 2 * Size[m] <= BufSize) => ~overrun

\* While a send is alone the lock is free and the buffer has what it copied.
SoloCopy ==
  \A t \in Threads : Sending(t) /\ snd[t].alone =>
    /\ ~slock /\ snd[t].dst = 0
    /\ \A u \in Threads \ {t} : ~Sending(u)
    /\ \A i \in 0..snd[t].k - 1 : sbuf[i] = <<snd[t].m, i>>
    /\ pc[t] = "produce" => snd[t].ptr = 0 /\ snd[t].k = Size[snd[t].m]

\* What was sent alone stays: those who copy now do so behind it.
SoloWire ==
  \A x \in tx : x.alone =>
    /\ x.ptr = 0
    /\ \A i \in 0..Size[x.m] - 1 : sbuf[i] = <<x.m, i>>
    /\ \A u \in Threads : pc[u] = "copy" => snd[u].dst = Size[x.m]

\* The sending side.
SInv ==
  /\ ThreadType /\ BufferType
  /\ RoleOfPc
  /\ HasMessage
  /\ OneHolder
  /\ OffsetOfOne
  /\ NoOverrun
  /\ SoloCopy
  /\ SoloWire
-----------------------------------------------------------------------------
\* Messages fit in the buffer.
LEMMA SizeType == \A m \in Msgs : Size[m] \in Nat /\ Size[m] <= BufSize /\ BufSize \in Nat
BY ConnectionAssumption

\* A thread that sends nothing.
LEMMA NoSendType == NoSend \in Sends
BY ConnectionAssumption DEF NoSend, Sends

\* The steps of the receiving side that concern the sending side only by where
\* a waiting thread, or one in PostReceive, is next.
ReceiverStep ==
  /\ UNCHANGED <<sbuf, soff, slock, overrun, refused, tx, snd, unsent, queue>>
  /\ \/ UNCHANGED <<role, pc>>
     \/ \E t \in Threads : /\ pc[t] \in {"wait", "handler", "handled"}
                           /\ \/ \E to \in {"wait", "handler", "handled"} :
                                   role' = role /\ pc' = [pc EXCEPT ![t] = to]
                              \/ role' = [role EXCEPT ![t] = "idle"] /\ pc' = [pc EXCEPT ![t] = "idle"]

\* Nothing is sent at first.
LEMMA InitSInv == Init => SInv
<1> SUFFICES ASSUME Init PROVE SInv
  OBVIOUS
<1> USE ConnectionAssumption DEF Init
<1>1. PICK l \in Loads : unsent = l.msgs
  OBVIOUS
<1>2. unsent \subseteq Msgs
  BY <1>1
<1>3. ThreadType
  BY <1>2 DEF ThreadType, Sends, NoSend
<1>4. BufferType
  <2>1. BufSize \in Nat
    OBVIOUS
  <2>2. sbuf \in [0..BufSize - 1 -> (Msgs \X (0..BufSize)) \cup {Zero}]
    OBVIOUS
  <2>3. soff \in 0..BufSize /\ tx = {}
    BY <2>1
  <2>4. slock \in BOOLEAN /\ overrun \in BOOLEAN /\ refused \in BOOLEAN
    OBVIOUS
  <2>5. QED
    BY <2>2, <2>3, <2>4 DEF BufferType
<1>5. RoleOfPc /\ HasMessage
  BY DEF RoleOfPc, HasMessage
<1>6. OneHolder /\ OffsetOfOne /\ NoOverrun
  BY DEF OneHolder, Completes, OffsetOfOne, NoOverrun
<1>7. SoloCopy /\ SoloWire
  BY DEF SoloCopy, SoloWire, Sending
<1>8. QED
  BY <1>3, <1>4, <1>5, <1>6, <1>7 DEF SInv

\* Such steps keep the sending side as it is.
LEMMA ReceiverStepS == ASSUME SInv, ReceiverStep,
                              handler' \in {"unset", "early", "late"}, copy' \in {"none", "unset", "early"}
                       PROVE  SInv'
<1>1. \A t \in Threads : pc'[t] # pc[t] => /\ pc[t] \in {"wait", "handler", "handled"}
                                           /\ pc'[t] \in {"wait", "handler", "handled", "idle"}
  BY DEF ReceiverStep, SInv, ThreadType
<1>2. ThreadType' /\ BufferType' /\ RoleOfPc'
  BY DEF ReceiverStep, SInv, ThreadType, BufferType, RoleOfPc
<1>3. HasMessage' /\ OneHolder' /\ OffsetOfOne' /\ NoOverrun'
  BY <1>1 DEF ReceiverStep, SInv, HasMessage, OneHolder, Completes, OffsetOfOne, NoOverrun
<1>4. SoloCopy' /\ SoloWire'
  BY <1>1 DEF ReceiverStep, SInv, SoloCopy, SoloWire, Sending
<1>5. QED
  BY <1>2, <1>3, <1>4 DEF SInv

\* Enter: the memcpy takes the offset without the lock.
LEMMA EnterS == ASSUME SInv, NEW t \in Threads, Enter(t) PROVE SInv'
<1> USE DEF SInv, server, load, sendBuffer
<1> DEFINE others == {u \in Threads \ {t} : Sending(u)}
<1>1. /\ pc[t] = "send" /\ pc' = [pc EXCEPT ![t] = "copy"]
      /\ UNCHANGED <<handler, copy, queue, role, unsent, sbuf, soff, slock, overrun, refused, tx>>
  BY DEF Enter, Goto
<1>2. snd' = [u \in Threads |->
          IF u = t THEN [snd[t] EXCEPT !.dst = soff, !.k = 0, !.alone = ~slock /\ others = {}]
          ELSE IF u \in others THEN [snd[u] EXCEPT !.alone = FALSE] ELSE snd[u]]
  BY DEF Enter, GetBuffer
<1>3. snd' \in [Threads -> Sends]
  <2>1. \A u \in Threads : snd[u] \in Sends /\ [snd[u] EXCEPT !.alone = FALSE] \in Sends
    BY DEF ThreadType, Sends
  <2>2. soff \in 0..BufSize /\ 0 \in 0..BufSize
    BY ConnectionAssumption DEF BufferType
  <2>3. (~slock /\ others = {}) \in BOOLEAN
    OBVIOUS
  <2>4. [snd[t] EXCEPT !.dst = soff, !.k = 0, !.alone = ~slock /\ others = {}] \in Sends
    BY <2>1, <2>2, <2>3 DEF Sends
  <2>5. QED
    BY <1>2, <2>1, <2>4
<1>4. /\ snd'[t].m = snd[t].m /\ snd'[t].dst = soff /\ snd'[t].k = 0
      /\ snd'[t].alone = (~slock /\ others = {})
  BY <1>2 DEF ThreadType, Sends
<1>5. \A u \in Threads \ {t} : /\ snd'[u].m = snd[u].m /\ snd'[u].dst = snd[u].dst
                               /\ snd'[u].k = snd[u].k /\ snd'[u].ptr = snd[u].ptr
                               /\ snd'[u].alone => snd[u].alone /\ ~Sending(u)
  BY <1>2 DEF ThreadType, Sends
<1>6. ThreadType' /\ BufferType'
  BY <1>1, <1>3 DEF ThreadType, BufferType
<1>7. RoleOfPc' /\ HasMessage'
  BY <1>1, <1>4, <1>5, SizeType DEF RoleOfPc, HasMessage, ThreadType
<1>8. OneHolder' /\ OffsetOfOne' /\ NoOverrun'
  BY <1>1, <1>4, <1>5 DEF OneHolder, Completes, OffsetOfOne, NoOverrun, ThreadType
<1>9. SoloCopy'
  <2>1. \A u \in Threads \ {t} : Sending(u)' <=> Sending(u)
    BY <1>1 DEF Sending, ThreadType
  <2>2. \A u \in Threads \ {t} : ~(Sending(u)' /\ snd'[u].alone)
    BY <1>5, <2>1
  <2>3. snd'[t].alone => ~slock' /\ snd'[t].dst = 0 /\ \A u \in Threads \ {t} : ~Sending(u)'
    BY <1>1, <1>4, <2>1 DEF OneHolder
  <2>4. pc'[t] = "copy" /\ 0..snd'[t].k - 1 = {}
    BY <1>1, <1>4 DEF ThreadType
  <2>5. QED
    BY <2>2, <2>3, <2>4 DEF SoloCopy
<1>10. SoloWire'
  BY <1>1, <1>4, <1>5 DEF SoloWire, OneHolder, ThreadType
<1>11. QED
  BY <1>6, <1>7, <1>8, <1>9, <1>10

\* CopyByte: a byte goes to the place the memcpy took, plus its index.
LEMMA CopyByteS == ASSUME SInv, NEW t \in Threads, CopyByte(t) PROVE SInv'
<1> USE DEF SInv, server, load, sendBuffer
<1> DEFINE s == snd[t]
           to == s.dst + s.k
<1>1. /\ pc[t] = "copy" /\ s.k < Size[s.m] /\ overrun' = (overrun \/ to >= BufSize)
      /\ sbuf' = IF to < BufSize THEN [sbuf EXCEPT ![to] = <<s.m, s.k>>] ELSE sbuf
      /\ snd' = [snd EXCEPT ![t].k = @ + 1]
      /\ UNCHANGED <<handler, copy, queue, role, pc, unsent, soff, slock, refused, tx>>
  BY DEF CopyByte
<1>2. /\ s.m \in Msgs /\ s.k \in Nat /\ s.dst \in Nat /\ Size[s.m] \in Nat /\ Size[s.m] <= BufSize
      /\ BufSize \in Nat /\ s.alone \in BOOLEAN
  BY <1>1, SizeType DEF HasMessage, ThreadType, Sends
<1>3. /\ snd'[t].k = s.k + 1 /\ snd'[t].m = s.m /\ snd'[t].dst = s.dst /\ snd'[t].ptr = s.ptr
      /\ snd'[t].alone = s.alone
      /\ \A u \in Threads \ {t} : snd'[u] = snd[u]
  BY <1>1 DEF ThreadType, Sends
<1>4. ThreadType'
  <2>1. s.k + 1 \in 0..BufSize
    BY <1>1, <1>2
  <2>2. [s EXCEPT !.k = s.k + 1] \in Sends
    BY <2>1 DEF ThreadType, Sends
  <2>3. snd' = [snd EXCEPT ![t] = [s EXCEPT !.k = s.k + 1]]
    BY <1>1 DEF ThreadType
  <2>4. QED
    BY <1>1, <2>2, <2>3 DEF ThreadType
<1>5. BufferType'
  <2>1. <<s.m, s.k>> \in Msgs \X (0..BufSize)
    BY <1>1, <1>2
  <2>2. sbuf' \in [0..BufSize - 1 -> (Msgs \X (0..BufSize)) \cup {Zero}]
    BY <1>1, <1>2, <2>1 DEF BufferType
  <2>3. overrun' \in BOOLEAN
    BY <1>1 DEF BufferType
  <2>4. QED
    BY <1>1, <2>2, <2>3 DEF BufferType
<1>6. RoleOfPc' /\ HasMessage'
  BY <1>1, <1>2, <1>3 DEF RoleOfPc, HasMessage
<1>7. OneHolder' /\ OffsetOfOne'
  BY <1>1, <1>3 DEF OneHolder, Completes, OffsetOfOne
<1>8. NoOverrun'
  <2>1. SUFFICES ASSUME \A m \in Msgs : 2 * Size[m] <= BufSize PROVE ~(to >= BufSize)
    <3>1. NoOverrun /\ overrun' = (overrun \/ to >= BufSize)
      BY <1>1
    <3>2. QED
      BY <3>1, Zenon DEF NoOverrun
  <2>2. s.dst = 0 \/ \E m \in Msgs : s.dst = Size[m]
    BY <1>1 DEF OffsetOfOne
  <2>3. 2 * s.dst <= BufSize
    BY <1>2, <2>1, <2>2
  <2>4. QED
    BY <1>1, <1>2, <2>1, <2>3
<1>9. SoloCopy'
  <2>1. \A u \in Threads \ {t} : Sending(u) => ~snd[u].alone
    BY <1>1 DEF SoloCopy, Sending
  <2>2. s.alone => to = s.k /\ \A i \in 0..s.k - 1 : sbuf[i] = <<s.m, i>>
    BY <1>1, <1>2 DEF SoloCopy, Sending
  <2>3. s.alone => \A i \in 0..s.k : sbuf'[i] = <<s.m, i>>
    <3>1. ASSUME s.alone PROVE sbuf' = [sbuf EXCEPT ![s.k] = <<s.m, s.k>>]
      <4>1. to = s.k /\ to < BufSize
        BY <1>1, <1>2, <2>2, <3>1
      <4>2. QED
        BY <1>1, <4>1
    <3>2. s.alone => \A i \in 0..s.k : i \in 0..BufSize - 1 /\ (i = s.k \/ i \in 0..s.k - 1)
      BY <1>1, <1>2
    <3>3. QED
      BY <1>2, <2>2, <3>1, <3>2 DEF BufferType
  <2>4. QED
    BY <1>1, <1>2, <1>3, <2>1, <2>3 DEF SoloCopy, Sending
<1>10. SoloWire'
  <2>1. ASSUME NEW x \in tx, x.alone
        PROVE  \A i \in 0..Size[x.m] - 1 : sbuf'[i] = <<x.m, i>>
    <3>1. s.dst = Size[x.m] /\ Size[x.m] \in Nat
      BY <1>1, <2>1, SizeType DEF SoloWire, BufferType
    <3>2. \A i \in 0..Size[x.m] - 1 : sbuf'[i] = sbuf[i]
      BY <1>1, <1>2, <3>1 DEF BufferType
    <3>3. QED
      BY <2>1, <3>2 DEF SoloWire
  <2>2. QED
    BY <1>1, <1>3, <2>1 DEF SoloWire
<1>11. QED
  BY <1>4, <1>5, <1>6, <1>7, <1>8, <1>9, <1>10

\* Point: the context's pointer is read like the memcpy's, without the lock.
LEMMA PointS == ASSUME SInv, NEW t \in Threads, Point(t) PROVE SInv'
<1> USE DEF SInv, server, load, sendBuffer
<1>1. /\ pc[t] = "copy" /\ snd[t].k = Size[snd[t].m] /\ pc' = [pc EXCEPT ![t] = "produce"]
      /\ snd' = [snd EXCEPT ![t].ptr = soff]
      /\ UNCHANGED <<handler, copy, queue, role, unsent, sbuf, soff, slock, overrun, refused, tx>>
  BY DEF Point, Goto, GetBuffer
<1>2. [snd[t] EXCEPT !.ptr = soff] \in Sends
  <2>1. snd[t] \in Sends /\ soff \in 0..BufSize
    BY DEF ThreadType, BufferType
  <2>2. QED
    BY <2>1 DEF Sends
<1>3. ThreadType' /\ BufferType'
  BY <1>1, <1>2 DEF ThreadType, BufferType
<1>4. /\ snd'[t].m = snd[t].m /\ snd'[t].dst = snd[t].dst /\ snd'[t].k = snd[t].k
      /\ snd'[t].ptr = soff /\ snd'[t].alone = snd[t].alone
      /\ \A u \in Threads \ {t} : snd'[u] = snd[u] /\ pc'[u] = pc[u]
      /\ pc'[t] = "produce"
  BY <1>1 DEF ThreadType, Sends
<1>5. RoleOfPc' /\ HasMessage'
  BY <1>1, <1>4 DEF RoleOfPc, HasMessage
<1>6. OneHolder' /\ OffsetOfOne' /\ NoOverrun'
  BY <1>1, <1>4 DEF OneHolder, Completes, OffsetOfOne, NoOverrun
<1>7. SoloCopy'
  BY <1>1, <1>4 DEF SoloCopy, Sending, OneHolder
<1>8. SoloWire'
  BY <1>1, <1>4 DEF SoloWire
<1>9. QED
  BY <1>3, <1>5, <1>6, <1>7, <1>8

\* Produce: takes the lock, so that nothing is under way; afterwards this send
\* is, or nothing if the connection refused it.
LEMMA ProduceS == ASSUME SInv, NEW t \in Threads, Produce(t) PROVE SInv'
<1> USE DEF SInv, server, load
<1> DEFINE s == snd[t]
           x0 == [m |-> s.m, ptr |-> s.ptr, alone |-> s.alone, st |-> "kernel"]
<1>1. /\ pc[t] = "produce" /\ ~slock /\ slock' = TRUE
      /\ soff' = soff + Size[s.m]
      /\ tx' = tx \cup {x0} \/ tx' = tx
      /\ refused' \in {refused, TRUE}
      /\ snd' = [snd EXCEPT ![t] = NoSend]
      /\ UNCHANGED <<handler, copy, queue, unsent, sbuf, overrun>>
  BY DEF Produce, Lock, Return
<1>2. \/ role' = [role EXCEPT ![t] = "idle"] /\ pc' = [pc EXCEPT ![t] = "idle"]
      \/ /\ role' = role /\ role[t] # "job"
         /\ \E to \in {"handled", "wait"} : pc' = [pc EXCEPT ![t] = to]
  BY DEF Produce, Return, Goto
<1>3. s.m \in Msgs /\ s \in Sends /\ Size[s.m] \in 0..BufSize
  BY <1>1, ConnectionAssumption DEF HasMessage, ThreadType
<1>4. soff = 0 /\ tx = {} /\ (\A u \in Threads : ~Completes(u))
  BY <1>1 DEF OneHolder
<1>5. soff' = Size[s.m] /\ tx' \in {{}, {x0}}
  BY <1>1, <1>3, <1>4
<1>6. x0 \in [m : Msgs, ptr : 0..BufSize, alone : BOOLEAN, st : {"kernel", "ok", "fail"}]
  BY <1>3 DEF Sends
<1>7. /\ pc'[t] \in {"idle", "handled", "wait"}
      /\ \A u \in Threads \ {t} : snd'[u] = snd[u] /\ pc'[u] = pc[u] /\ role'[u] = role[u]
  BY <1>1, <1>2 DEF ThreadType
<1>8. ThreadType'
  <2>1. NoSend \in Sends
    BY NoSendType
  <2>2. QED
    BY <1>1, <1>2, <2>1 DEF ThreadType
<1>9. BufferType'
  BY <1>1, <1>3, <1>5, <1>6 DEF BufferType
<1>10. RoleOfPc'
  BY <1>1, <1>2 DEF RoleOfPc, ThreadType
<1>11. HasMessage'
  BY <1>7 DEF HasMessage
<1>12. OneHolder'
  <2>1. \A u \in Threads : ~Completes(u)'
    BY <1>4, <1>7 DEF Completes
  <2>2. \A x \in tx' : x = x0 /\ x.m = s.m
    BY <1>5
  <2>3. QED
    BY <1>1, <1>5, <2>1, <2>2 DEF OneHolder
<1>13. OffsetOfOne' /\ NoOverrun'
  BY <1>1, <1>3, <1>5, <1>7 DEF OffsetOfOne, NoOverrun
<1>14. SoloCopy'
  BY <1>1, <1>7 DEF SoloCopy, Sending
<1>15. SoloWire'
  <2>1. SUFFICES ASSUME s.alone, NEW x \in tx', x = x0
                 PROVE  /\ x.ptr = 0
                        /\ \A i \in 0..Size[x.m] - 1 : sbuf'[i] = <<x.m, i>>
                        /\ \A u \in Threads : pc'[u] = "copy" => snd'[u].dst = Size[x.m]
    BY <1>5 DEF SoloWire
  <2>2. \A u \in Threads : pc'[u] # "copy"
    BY <1>1, <1>7, <2>1 DEF SoloCopy, Sending
  <2>3. s.ptr = 0 /\ \A i \in 0..Size[s.m] - 1 : sbuf[i] = <<s.m, i>>
    BY <1>1, <2>1 DEF SoloCopy, Sending
  <2>4. x.m = s.m /\ x.ptr = s.ptr
    BY <2>1
  <2>5. QED
    BY <1>1, <2>2, <2>3, <2>4
<1>16. QED
  BY <1>8, <1>9, <1>10, <1>11, <1>12, <1>13, <1>14, <1>15

\* SendDone: the kernel only changes the state of the one send under way.
LEMMA SendDoneS == ASSUME SInv, NEW x \in tx, SendDone(x) PROVE SInv'
<1> USE DEF SInv, server, load, sendBuffer
<1>1. PICK st \in {"ok", "fail"} : tx' = (tx \ {x}) \cup {[x EXCEPT !.st = st]}
  BY DEF SendDone
<1>2. UNCHANGED <<handler, copy, queue, role, pc, snd, unsent, sbuf, soff, slock, overrun, refused>>
  BY DEF SendDone
<1>3. x \in [m : Msgs, ptr : 0..BufSize, alone : BOOLEAN, st : {"kernel", "ok", "fail"}] /\ tx = {x}
  BY DEF BufferType, OneHolder
<1>4. PICK y : tx' = {y} /\ y = [x EXCEPT !.st = st]
  BY <1>1, <1>3
<1>5. /\ y.m = x.m /\ y.ptr = x.ptr /\ y.alone = x.alone
      /\ y \in [m : Msgs, ptr : 0..BufSize, alone : BOOLEAN, st : {"kernel", "ok", "fail"}]
  BY <1>3, <1>4
<1>6. ThreadType' /\ BufferType' /\ RoleOfPc' /\ HasMessage'
  BY <1>2, <1>4, <1>5 DEF ThreadType, BufferType, RoleOfPc, HasMessage
<1>7. OneHolder' /\ OffsetOfOne' /\ NoOverrun'
  BY <1>2, <1>3, <1>4, <1>5 DEF OneHolder, Completes, OffsetOfOne, NoOverrun
<1>8. SoloCopy' /\ SoloWire'
  BY <1>2, <1>3, <1>4, <1>5 DEF SoloCopy, SoloWire, Sending
<1>9. QED
  BY <1>6, <1>7, <1>8

\* TakeSend: the lock's holder is now the thread that handles the completion,
\* or nobody, if that disconnects.
LEMMA TakeSendS == ASSUME SInv, NEW t \in Threads, NEW x \in tx, TakeSend(t, x) PROVE SInv'
<1> USE DEF SInv, server, load, sendBuffer
<1>1. pc[t] = "wait" /\ role[t] = "iocp" /\ tx' = tx \ {x}
  BY DEF TakeSend, Waiting, AtPort
<1>2. UNCHANGED <<handler, copy, queue, role, unsent, sbuf, soff, slock, overrun, refused>>
  BY DEF TakeSend
<1>3. tx = {x} /\ tx' = {} /\ x.m \in Msgs /\ slock /\ soff = Size[x.m]
      /\ \A u \in Threads : ~Completes(u)
  BY <1>1 DEF BufferType, OneHolder
<1>4. \/ UNCHANGED <<pc, snd>>
      \/ pc' = [pc EXCEPT ![t] = "move"] /\ snd' = [snd EXCEPT ![t] = [NoSend EXCEPT !.m = x.m]]
  BY DEF TakeSend, Goto
<1>5. [NoSend EXCEPT !.m = x.m] \in Sends /\ [NoSend EXCEPT !.m = x.m].m = x.m
  <2>1. NoSend \in Sends
    BY NoSendType
  <2>2. QED
    BY <1>3, <2>1 DEF Sends
<1>6. ThreadType' /\ BufferType'
  BY <1>2, <1>3, <1>4, <1>5 DEF ThreadType, BufferType
<1>7. \A u \in Threads : \/ pc'[u] = pc[u] /\ snd'[u] = snd[u]
                         \/ u = t /\ pc'[u] = "move" /\ snd'[u].m = x.m
  BY <1>4, <1>5 DEF ThreadType
<1>8. RoleOfPc' /\ HasMessage'
  BY <1>1, <1>2, <1>3, <1>7 DEF RoleOfPc, HasMessage
<1>9. OneHolder' /\ OffsetOfOne' /\ NoOverrun'
  BY <1>1, <1>2, <1>3, <1>7 DEF OneHolder, Completes, OffsetOfOne, NoOverrun
<1>10. SoloCopy' /\ SoloWire'
  BY <1>1, <1>2, <1>3, <1>7 DEF SoloCopy, SoloWire, Sending
<1>11. QED
  BY <1>6, <1>8, <1>9, <1>10

\* Move: the holder writes, and no send that is alone is copying or under way.
LEMMA MoveS == ASSUME SInv, NEW t \in Threads, Move(t) PROVE SInv'
<1> USE DEF SInv, server, load, sendBuffer
<1>1. /\ pc[t] = "move" /\ pc' = [pc EXCEPT ![t] = "consume"]
      /\ UNCHANGED <<handler, copy, queue, role, snd, unsent, soff, slock, overrun, refused, tx>>
  BY DEF Move, Goto
<1>2. sbuf' \in [0..BufSize - 1 -> (Msgs \X (0..BufSize)) \cup {Zero}]
  <2> DEFINE length == Size[snd[t].m]
             moved(i) == IF i >= BufSize - length THEN sbuf[i]
                         ELSE IF soff + i < BufSize THEN sbuf[soff + i] ELSE Zero
  <2>1. \A i \in 0..BufSize - 1 : moved(i) \in (Msgs \X (0..BufSize)) \cup {Zero}
    <3>1. BufSize \in Nat /\ soff \in Nat
      BY ConnectionAssumption DEF BufferType
    <3>2. \A j \in 0..BufSize - 1 : sbuf[j] \in (Msgs \X (0..BufSize)) \cup {Zero}
      BY DEF BufferType
    <3>3. \A i \in 0..BufSize - 1 : soff + i < BufSize => soff + i \in 0..BufSize - 1
      BY <3>1
    <3>4. QED
      BY <3>2, <3>3
  <2>2. sbuf' = [i \in 0..BufSize - 1 |-> moved(i)]
    BY DEF Move
  <2>3. QED
    BY <2>1, <2>2
<1>3. slock /\ tx = {}
  BY <1>1 DEF OneHolder, Completes
<1>4. ThreadType' /\ BufferType'
  BY <1>1, <1>2 DEF ThreadType, BufferType
<1>5. pc'[t] = "consume" /\ \A u \in Threads \ {t} : pc'[u] = pc[u]
  BY <1>1 DEF ThreadType
<1>6. RoleOfPc' /\ HasMessage'
  BY <1>1, <1>5 DEF RoleOfPc, HasMessage
<1>7. OneHolder' /\ OffsetOfOne' /\ NoOverrun'
  BY <1>1, <1>3, <1>5 DEF OneHolder, Completes, OffsetOfOne, NoOverrun
<1>8. SoloCopy' /\ SoloWire'
  BY <1>1, <1>3, <1>5 DEF SoloCopy, SoloWire, Sending
<1>9. QED
  BY <1>4, <1>6, <1>7, <1>8

\* Consume: the offset is exactly what this completion takes off.
LEMMA ConsumeS == ASSUME SInv, NEW t \in Threads, Consume(t) PROVE SInv'
<1> USE DEF SInv, server, load, sendBuffer
<1>1. /\ pc[t] = "consume" /\ pc' = [pc EXCEPT ![t] = "wait"]
      /\ soff' = soff - Size[snd[t].m] /\ slock' = FALSE
      /\ snd' = [snd EXCEPT ![t] = NoSend]
      /\ UNCHANGED <<handler, copy, queue, role, unsent, sbuf, overrun, refused, tx>>
  BY DEF Consume, Goto, Consumed, Unlock
<1>2. /\ slock /\ tx = {} /\ soff = Size[snd[t].m] /\ snd[t].m \in Msgs
      /\ \A u \in Threads \ {t} : ~Completes(u)
  BY <1>1 DEF OneHolder, Completes, HasMessage
<1>3. soff' = 0
  BY <1>1, <1>2, SizeType
<1>4. /\ pc'[t] = "wait" /\ \A u \in Threads \ {t} : pc'[u] = pc[u] /\ snd'[u] = snd[u]
      /\ \A u \in Threads : ~Completes(u)'
  BY <1>1, <1>2 DEF ThreadType, Completes
<1>5. ThreadType' /\ BufferType'
  <2>1. NoSend \in Sends /\ 0 \in 0..BufSize
    BY NoSendType, ConnectionAssumption
  <2>2. QED
    BY <1>1, <1>3, <2>1 DEF ThreadType, BufferType
<1>6. RoleOfPc' /\ HasMessage'
  BY <1>1, <1>4 DEF RoleOfPc, HasMessage
<1>7. OneHolder' /\ OffsetOfOne' /\ NoOverrun'
  BY <1>1, <1>2, <1>3, <1>4 DEF OneHolder, OffsetOfOne, NoOverrun
<1>8. SoloCopy' /\ SoloWire'
  BY <1>1, <1>2, <1>4 DEF SoloCopy, SoloWire, Sending
<1>9. QED
  BY <1>5, <1>6, <1>7, <1>8

\* A thread that gets a message to send, from a task or a handler, enters
\* Client::Send; tasks change hands.
LEMMA StartS ==
  ASSUME SInv, NEW t \in Threads, NEW m \in Msgs,
         pc[t] \in {"idle", "wait", "handler"}, pc' = [pc EXCEPT ![t] = "send"],
         snd' = [snd EXCEPT ![t].m = m],
         (role' = role /\ role[t] # "idle") \/ role' = [role EXCEPT ![t] = "job"],
         queue' \in Seq({"iocp"} \cup Msgs), unsent' \subseteq Msgs,
         UNCHANGED <<handler, copy, sbuf, soff, slock, overrun, refused, tx>>
  PROVE  SInv'
<1> USE DEF SInv
<1>1. [snd[t] EXCEPT !.m = m] \in Sends
  <2>1. snd[t] \in Sends
    BY DEF ThreadType
  <2>2. QED
    BY <2>1 DEF Sends
<1>2. ThreadType' /\ BufferType'
  BY <1>1 DEF ThreadType, BufferType
<1>3. /\ pc'[t] = "send" /\ snd'[t].m = m
      /\ \A u \in Threads \ {t} : pc'[u] = pc[u] /\ snd'[u] = snd[u] /\ role'[u] = role[u]
  BY DEF ThreadType, Sends
<1>4. RoleOfPc' /\ HasMessage'
  BY <1>3 DEF RoleOfPc, HasMessage, ThreadType
<1>5. OneHolder' /\ OffsetOfOne' /\ NoOverrun'
  BY <1>3 DEF OneHolder, Completes, OffsetOfOne, NoOverrun
<1>6. SoloCopy' /\ SoloWire'
  BY <1>3 DEF SoloCopy, SoloWire, Sending
<1>7. QED
  BY <1>2, <1>4, <1>5, <1>6

\* TakeTask, AddWork, Init(): the queue of tasks.
LEMMA TaskS ==
  ASSUME SInv, ServerInit \/ (\E m \in Msgs : AddWork(m)) \/ (\E t \in Threads : TakeTask(t)),
         handler' \in {"unset", "early", "late"}, copy' \in {"none", "unset", "early"}
  PROVE  SInv'
<1> USE DEF SInv, server, load, sendBuffer
<1>1. ASSUME UNCHANGED <<role, pc, snd, sbuf, soff, slock, overrun, refused, tx>>,
             queue' \in Seq({"iocp"} \cup Msgs), unsent' \subseteq Msgs
      PROVE  SInv'
  <2>1. ThreadType' /\ BufferType' /\ RoleOfPc' /\ HasMessage'
    BY <1>1 DEF ThreadType, BufferType, RoleOfPc, HasMessage
  <2>2. OneHolder' /\ OffsetOfOne' /\ NoOverrun' /\ SoloCopy' /\ SoloWire'
    BY <1>1 DEF OneHolder, Completes, OffsetOfOne, NoOverrun, SoloCopy, SoloWire, Sending
  <2>3. QED
    BY <2>1, <2>2
<1>2. CASE ServerInit
  <2>1. IocpTasks \in Seq({"iocp"} \cup Msgs)
    <3>1. IocpAmount \in Nat
      BY ConnectionAssumption
    <3>2. QED
      BY <3>1, IsASeq DEF IocpTasks
  <2>2. QED
    BY <1>1, <1>2, <2>1 DEF ServerInit, ThreadType
<1>3. ASSUME NEW m \in Msgs, AddWork(m) PROVE SInv'
  <2>1. Append(queue, m) \in Seq({"iocp"} \cup Msgs)
    BY AppendProperties DEF ThreadType
  <2>2. QED
    BY <1>1, <1>3, <2>1 DEF AddWork, ThreadType
<1>4. ASSUME NEW t \in Threads, TakeTask(t) PROVE SInv'
  <2>1. /\ role[t] = "idle" /\ pc[t] = "idle" /\ queue # <<>> /\ queue' = Tail(queue)
        /\ UNCHANGED <<handler, copy, unsent, sbuf, soff, slock, overrun, refused, tx>>
    BY <1>4 DEF TakeTask, Idle, RoleOfPc
  <2>2. Head(queue) \in {"iocp"} \cup Msgs /\ queue' \in Seq({"iocp"} \cup Msgs)
    BY <2>1, HeadTailProperties DEF ThreadType
  <2>3. CASE Head(queue) = "iocp"
    <3>1. role' = [role EXCEPT ![t] = "iocp"] /\ pc' = [pc EXCEPT ![t] = "wait"] /\ snd' = snd
      BY <1>4, <2>3 DEF TakeTask, Goto
    <3>2. /\ pc'[t] = "wait" /\ role'[t] = "iocp"
          /\ \A u \in Threads \ {t} : pc'[u] = pc[u] /\ role'[u] = role[u]
      BY <3>1 DEF ThreadType
    <3>3. ThreadType' /\ BufferType'
      BY <2>1, <2>2, <3>1 DEF ThreadType, BufferType
    <3>4. RoleOfPc' /\ HasMessage'
      BY <3>1, <3>2 DEF RoleOfPc, HasMessage
    <3>5. OneHolder' /\ OffsetOfOne' /\ NoOverrun' /\ SoloCopy' /\ SoloWire'
      BY <2>1, <3>1, <3>2 DEF OneHolder, Completes, OffsetOfOne, NoOverrun, SoloCopy, SoloWire, Sending
    <3>6. QED
      BY <3>3, <3>4, <3>5
  <2>4. CASE Head(queue) # "iocp"
    <3>1. /\ role' = [role EXCEPT ![t] = "job"] /\ pc' = [pc EXCEPT ![t] = "send"]
          /\ snd' = [snd EXCEPT ![t].m = Head(queue)]
      BY <1>4, <2>4 DEF TakeTask, Goto
    <3>2. PICK m \in Msgs : m = Head(queue)
      BY <2>2, <2>4
    <3>3. snd' = [snd EXCEPT ![t].m = m]
      BY <3>1, <3>2
    <3>4. unsent' \subseteq Msgs
      BY <2>1 DEF ThreadType
    <3>5. QED
      BY <2>1, <2>2, <3>1, <3>3, <3>4, StartS
  <2>5. QED
    BY <2>3, <2>4
<1>5. QED
  BY <1>2, <1>3, <1>4
-----------------------------------------------------------------------------
(* The peer's stream.                                                      *)

\* PacketStart is a function: one that satisfies its recursive definition
\* exists.
LEMMA StartsExist ==
  ASSUME Packets \in Seq(0..Wide - 1)
  PROVE  \E f : f = [p \in 1..Len(Packets) + 1 |->
                       IF p = 1 THEN 0 ELSE f[p - 1] + HeaderSize + Packets[p - 1]]
<1> DEFINE N == Len(Packets)
           Upto(n, f) == /\ f \in [1..n + 1 -> Int] /\ f[1] = 0
                         /\ \A p \in 2..n + 1 : f[p] = f[p - 1] + HeaderSize + Packets[p - 1]
           S == {n \in Nat : n <= N => \E f : Upto(n, f)}
<1>1. N \in Nat /\ HeaderSize \in Nat /\ \A p \in 1..N : Packets[p] \in Int
  BY ConnectionAssumption, ElementOfSeq, LenProperties
<1>2. 0 \in S
  <2>1. Upto(0, [p \in 1..1 |-> 0])
    OBVIOUS
  <2>2. QED
    BY <2>1
<1>3. ASSUME NEW n \in Nat, n \in S PROVE n + 1 \in S
  <2>1. SUFFICES ASSUME n + 1 <= N PROVE \E f : Upto(n + 1, f)
    OBVIOUS
  <2>2. PICK f : Upto(n, f)
    BY <1>1, <1>3, <2>1
  <2> DEFINE g == [p \in 1..n + 2 |-> IF p = n + 2 THEN f[n + 1] + HeaderSize + Packets[n + 1] ELSE f[p]]
  <2>3. f[n + 1] \in Int /\ Packets[n + 1] \in Int
    BY <1>1, <2>1, <2>2
  <2>4. g \in [1..(n + 1) + 1 -> Int] /\ g[1] = 0
    BY <1>1, <2>2, <2>3
  <2>5. \A p \in 2..(n + 1) + 1 : g[p] = g[p - 1] + HeaderSize + Packets[p - 1]
    BY <2>2
  <2>6. Upto(n + 1, g)
    BY <2>4, <2>5
  <2> QED
    BY <2>6
<1>4. N \in S
  <2> HIDE DEF S
  <2> QED BY <1>1, <1>2, <1>3, NatSetInduction
<1>5. PICK f : Upto(N, f)
  BY <1>1, <1>4
<1>6. f = [p \in 1..N + 1 |-> IF p = 1 THEN 0 ELSE f[p - 1] + HeaderSize + Packets[p - 1]]
  BY <1>1, <1>5
<1> QED
  BY <1>6
\* So it satisfies it itself.
LEMMA StartDef ==
  ASSUME Packets \in Seq(0..Wide - 1)
  PROVE  PacketStart = [p \in 1..Len(Packets) + 1 |->
                       IF p = 1 THEN 0 ELSE PacketStart[p - 1] + HeaderSize + Packets[p - 1]]
BY StartsExist DEF PacketStart
\* Where packets begin changes only with the load.
LEMMA Same == ASSUME UNCHANGED Packets PROVE PacketStart' = PacketStart
BY DEF PacketStart

\* The first packet begins at 0, each next one behind the header and the body
\* of the one before it.
LEMMA StartFacts ==
  ASSUME Packets \in Seq(0..Wide - 1)
  PROVE  /\ PacketStart[1] = 0
         /\ \A p \in 1..Len(Packets) : PacketStart[p + 1] = PacketStart[p] + HeaderSize + Packets[p]
         /\ \A p \in 1..Len(Packets) + 1 : PacketStart[p] \in Nat
<1> DEFINE N == Len(Packets)
<1>1. N \in Nat /\ HeaderSize \in Nat /\ \A p \in 1..N : Packets[p] \in Nat
  BY ConnectionAssumption, ElementOfSeq, LenProperties
<1>2. \A p \in 1..N + 1 : PacketStart[p] = IF p = 1 THEN 0 ELSE PacketStart[p - 1] + HeaderSize + Packets[p - 1]
  <2>1. PacketStart = [p \in 1..N + 1 |-> IF p = 1 THEN 0 ELSE PacketStart[p - 1] + HeaderSize + Packets[p - 1]]
    BY StartDef
  <2> HIDE DEF N
  <2>2. QED
    BY <2>1, Zenon
<1>3. PacketStart[1] = 0
  BY <1>1, <1>2
<1>4. \A p \in 1..N : PacketStart[p + 1] = PacketStart[p] + HeaderSize + Packets[p]
  <2>1. ASSUME NEW p \in 1..N PROVE PacketStart[p + 1] = PacketStart[p] + HeaderSize + Packets[p]
    <3>1. p + 1 \in 1..N + 1 /\ p + 1 # 1 /\ (p + 1) - 1 = p
      BY <1>1
    <3>2. QED
      BY <1>2, <3>1
  <2>2. QED
    BY <2>1
<1> DEFINE S == {n \in Nat : n + 1 \in 1..N + 1 => PacketStart[n + 1] \in Nat}
<1>5. 0 \in S
  BY <1>3
<1>6. ASSUME NEW n \in Nat, n \in S PROVE n + 1 \in S
  <2>1. ASSUME (n + 1) + 1 \in 1..N + 1 PROVE PacketStart[(n + 1) + 1] \in Nat
    <3>1. n + 1 \in 1..N
      BY <1>1, <2>1
    <3>2. PacketStart[n + 1] \in Nat
      BY <1>1, <1>6, <3>1
    <3>3. QED
      BY <1>1, <1>4, <3>1, <3>2
  <2>2. QED
    BY <2>1
<1>7. Nat \subseteq S
  <2> HIDE DEF S
  <2> QED
    BY <1>5, <1>6, NatSetInduction
<1>8. \A p \in 1..N + 1 : PacketStart[p] \in Nat
  <2>1. ASSUME NEW p \in 1..N + 1 PROVE PacketStart[p] \in Nat
    <3>1. p - 1 \in Nat /\ (p - 1) + 1 = p
      BY <1>1
    <3>2. p - 1 \in S
      BY <1>7, <3>1, Zenon
    <3>3. QED
      BY <3>1, <3>2
  <2>2. QED
    BY <2>1
<1> QED
  BY <1>3, <1>4, <1>8

\* No packet is empty, so they begin at different places, in order.
LEMMA StartGrows ==
  ASSUME Packets \in Seq(0..Wide - 1)
  PROVE  \A p, q \in 1..Len(Packets) + 1 : p < q => PacketStart[p] < PacketStart[q]
<1> DEFINE N == Len(Packets)
           S == {n \in Nat : \A p \in 1..N + 1 : p + n + 1 \in 1..N + 1 => PacketStart[p] < PacketStart[p + n + 1]}
<1>1. /\ N \in Nat /\ HeaderSize \in Nat /\ HeaderSize >= 1 /\ \A p \in 1..N : Packets[p] \in Nat
      /\ \A p \in 1..N + 1 : PacketStart[p] \in Nat
  <2>1. N \in Nat /\ HeaderSize \in Nat /\ HeaderSize >= 1 /\ \A p \in 1..N : Packets[p] \in Nat
    BY ConnectionAssumption, ElementOfSeq, LenProperties
  <2>2. \A p \in 1..N + 1 : PacketStart[p] \in Nat
    BY StartFacts
  <2>3. QED
    BY <2>1, <2>2
<1>2. \A p \in 1..N : PacketStart[p] < PacketStart[p + 1]
  <2>1. \A p \in 1..N : PacketStart[p + 1] = PacketStart[p] + HeaderSize + Packets[p]
    BY StartFacts
  <2>2. QED
    BY <1>1, <2>1
<1>3. 0 \in S
  <2>1. ASSUME NEW p \in 1..N + 1, p + 0 + 1 \in 1..N + 1 PROVE PacketStart[p] < PacketStart[p + 0 + 1]
    <3>1. p \in 1..N /\ p + 0 + 1 = p + 1
      BY <1>1, <2>1
    <3>2. QED
      BY <1>2, <3>1
  <2>2. QED
    BY <2>1
<1>4. ASSUME NEW n \in Nat, n \in S PROVE n + 1 \in S
  <2>1. ASSUME NEW p \in 1..N + 1, p + (n + 1) + 1 \in 1..N + 1
        PROVE  PacketStart[p] < PacketStart[p + (n + 1) + 1]
    <3>1. p + n + 1 \in 1..N /\ p + n + 1 \in 1..N + 1 /\ (p + n + 1) + 1 \in 1..N + 1
          /\ p + (n + 1) + 1 = (p + n + 1) + 1
      BY <1>1, <2>1
    <3>2. PacketStart[p] < PacketStart[p + n + 1]
      BY <1>4, <2>1, <3>1
    <3>3. PacketStart[p + n + 1] < PacketStart[(p + n + 1) + 1]
      BY <1>2, <3>1
    <3>4. PacketStart[p] \in Nat /\ PacketStart[p + n + 1] \in Nat /\ PacketStart[(p + n + 1) + 1] \in Nat
      BY <1>1, <2>1, <3>1
    <3> HIDE DEF N
    <3>5. PacketStart[p] < PacketStart[(p + n + 1) + 1]
      BY <3>2, <3>3, <3>4
    <3>6. QED
      BY <3>1, <3>5
  <2>2. QED
    BY <2>1
<1>5. Nat \subseteq S
  <2> HIDE DEF S
  <2> QED
    BY <1>3, <1>4, NatSetInduction
<1>6. ASSUME NEW p \in 1..N + 1, NEW q \in 1..N + 1, p < q PROVE PacketStart[p] < PacketStart[q]
  <2>1. q - p - 1 \in Nat /\ p + (q - p - 1) + 1 = q
    BY <1>1, <1>6
  <2>2. q - p - 1 \in S
    BY <1>5, <2>1, Zenon
  <2>3. QED
    BY <2>1, <2>2
<1> QED
  BY <1>6

\* PacketAt finds the packet that begins somewhere.
LEMMA AtStart ==
  ASSUME Packets \in Seq(0..Wide - 1), NEW p \in 1..Len(Packets)
  PROVE  PacketAt(PacketStart[p]) = p
<1>1. Len(Packets) \in Nat
  BY LenProperties
<1>2. \A q \in 1..Len(Packets) : PacketStart[q] = PacketStart[p] => q = p
  <2>1. ASSUME NEW q \in 1..Len(Packets), q # p PROVE PacketStart[q] # PacketStart[p]
    <3>1. q \in 1..Len(Packets) + 1 /\ p \in 1..Len(Packets) + 1 /\ (q < p \/ p < q)
      BY <1>1, <2>1
    <3>2. PacketStart[p] \in Nat /\ PacketStart[q] \in Nat
      BY <3>1, StartFacts
    <3>3. PacketStart[q] < PacketStart[p] \/ PacketStart[p] < PacketStart[q]
      BY <3>1, StartGrows
    <3>4. QED
      BY <3>2, <3>3
  <2>2. QED
    BY <2>1
<1>3. QED
  BY <1>2, Zenon DEF PacketAt
-----------------------------------------------------------------------------
(* The receiving side.                                                     *)

LoadOK == Packets \in Seq(0..Wide - 1)

Deliveries == [p : 0..Len(Packets), whole : BOOLEAN]

ReceiveType ==
  /\ conn \in {"none", "up", "closing", "down"}
  /\ rx \in {"off", "ready", "readyDone", "recv", "recvDone", "recvFail", "held"}
  /\ rpos \in 0..Total /\ roff \in 0..RecvSize /\ aligned \in BOOLEAN
  /\ seg \in [at : 0..Total, n : 0..RecvSize, size : 0..Half - 1, by : Threads \cup {None}]
  /\ delivered \in Seq(Deliveries) /\ ranBy \subseteq {"early", "late"}

Segments == [at : 0..Total, n : 0..RecvSize, size : 0..Half - 1, by : Threads \cup {None}]

\* One thread at a time has recv_buffer_, which is empty otherwise, so that
\* PostReceive always finds offset_ at 0.
OneReader ==
  /\ conn = "none" => rx = "off"
  /\ rx # "held" => roff = 0 /\ seg.by = None
  /\ rx = "held" => roff = HeaderSize + seg.size
  /\ \A t \in Threads : /\ pc[t] \in {"handler", "handled"} => seg.by = t
                        /\ seg.by = t => /\ role[t] = "iocp"
                                         /\ pc[t] \in {"handler", "send", "copy", "produce", "handled"}

InHandler == \E t \in Threads : pc[t] = "handler"

\* A packet was received that the handler does not have yet.
Awaited == rx = "recvDone" \/ InHandler

\* The packets up to n that PostReceive takes.
Short(n) == {p \in 1..n : LowByte(Packets[p]) < Half}

\* q packets were received, each in one segment, and the handler has the short
\* ones of the first n.
HasGot(n) ==
  /\ \A i \in 1..Len(delivered) : /\ delivered[i].p \in Short(n)
                                  /\ delivered[i].whole <=> Packets[delivered[i].p] < Half
  /\ \A i, j \in 1..Len(delivered) : i < j => delivered[i].p < delivered[j].p
  /\ Cardinality(Short(n)) <= Len(delivered)

Received(q) ==
  /\ rpos = PacketStart[q + 1]
  /\ ~Awaited => HasGot(q)
  /\ Awaited => /\ q >= 1 /\ seg.at = PacketStart[q] /\ seg.n = HeaderSize + Packets[q]
                /\ HasGot(q - 1)
  /\ InHandler => seg.size = LowByte(Packets[q]) /\ LowByte(Packets[q]) < Half

InOrder == aligned /\ copy # "unset" => \E q \in 0..Len(Packets) : Received(q)

\* The receiving side.
RInv == LoadOK /\ ReceiveType /\ OneReader /\ InOrder

\* Nothing was received at first.
LEMMA InitRInv == Init => RInv
<1> SUFFICES ASSUME Init PROVE RInv
  OBVIOUS
<1>1. PICK l \in Loads : Packets = l.packets
  BY DEF Init
<1>2. LoadOK
  BY <1>1, ConnectionAssumption DEF LoadOK
<1>3. Len(Packets) \in Nat /\ Total \in Nat /\ PacketStart[1] = 0
  <2>1. Len(Packets) \in Nat
    BY <1>2, LenProperties DEF LoadOK
  <2>2. Len(Packets) + 1 \in 1..Len(Packets) + 1
    BY <2>1
  <2>3. QED
    BY <1>2, <2>1, <2>2, StartFacts DEF LoadOK, Total
<1>4. ReceiveType
  <2>1. rpos \in 0..Total /\ roff \in 0..RecvSize
    BY <1>3, ConnectionAssumption DEF Init
  <2>2. seg \in Segments
    <3>1. 0 \in 0..Total /\ 0 \in 0..RecvSize /\ 0 \in 0..Half - 1
      BY <1>3, ConnectionAssumption
    <3>2. QED
      BY <3>1 DEF Init, NoSegment, Segments
  <2>3. delivered \in Seq(Deliveries)
    BY DEF Init
  <2>4. QED
    BY <2>1, <2>2, <2>3 DEF Init, ReceiveType, Deliveries, Segments
<1>5. OneReader
  BY ConnectionAssumption DEF Init, OneReader, NoSegment
<1>6. Received(0)
  <2>1. ~Awaited /\ ~InHandler
    BY DEF Init, Awaited, InHandler
  <2>2. rpos = PacketStart[0 + 1]
    BY <1>3 DEF Init
  <2>3. Short(0) = {} /\ delivered = <<>>
    BY DEF Init, Short
  <2>4. HasGot(0)
    BY <2>3, FS_EmptySet DEF HasGot
  <2>5. QED
    BY <2>1, <2>2, <2>4 DEF Received
<1>7. 0 \in 0..Len(Packets)
  BY <1>3
<1>8. QED
  BY <1>2, <1>4, <1>5, <1>6, <1>7 DEF RInv, InOrder

\* The steps that concern the receiving side only by where the threads of
\* PostReceive are in their Sends.
SenderFrame ==
  /\ UNCHANGED <<Packets, rx, rpos, seg, roff, aligned, delivered, ranBy>>
  /\ conn' \in {"none", "up", "closing", "down"} /\ (conn' = "none" => conn = "none")
  /\ copy' # "unset" => copy # "unset"
  /\ \A t \in Threads : pc'[t] # pc[t] =>
       /\ pc[t] \notin {"handler", "handled"} /\ pc'[t] # "handler"
       /\ pc'[t] = "handled" => seg.by = t
       /\ seg.by = t => pc'[t] \in {"send", "copy", "produce", "handled"}
  /\ \A t \in Threads : seg.by = t => role'[t] = role[t]

\* Such steps keep the receiving side as it is.
LEMMA SenderFrameR == ASSUME RInv, SenderFrame PROVE RInv'
<1>1. PacketStart' = PacketStart
  BY Same DEF SenderFrame
<1>2. LoadOK' /\ ReceiveType'
  BY <1>1 DEF RInv, LoadOK, ReceiveType, Deliveries, SenderFrame, Total
<1>3. OneReader'
  BY DEF RInv, OneReader, SenderFrame
<1>4. InHandler' <=> InHandler
  BY DEF InHandler, SenderFrame
<1>5. \A q \in 0..Len(Packets) : Received(q) => Received(q)'
  BY <1>1, <1>4 DEF Received, HasGot, Short, Awaited, SenderFrame
<1>6. InOrder'
  BY <1>5 DEF RInv, InOrder, SenderFrame
<1>7. QED
  BY <1>2, <1>3, <1>6 DEF RInv

\* All of Send, PostSend and the tasks are such steps.
LEMMA SenderSteps ==
  ASSUME SInv, RInv, Next, ~\E t \in Threads : RunHandler(t) \/ NoHandler(t) \/ Handled(t) \/ Dequeue(t),
         ~Kernel
  PROVE  SenderFrame
<1> USE DEF SenderFrame, SInv, RInv, server, load, sendBuffer, receive, heard
<1>1. ASSUME SetPostReceiveHandler \/ ServerInit \/ ConnectionEnds \/ \E m \in Msgs : AddWork(m)
      PROVE  SenderFrame
  BY <1>1 DEF SetPostReceiveHandler, ServerInit, ConnectionEnds, AddWork, ReceiveType
<1>2. ASSUME NEW t \in Threads, TakeTask(t) PROVE SenderFrame
  <2>1. /\ UNCHANGED <<Packets, rx, rpos, seg, roff, aligned, delivered, ranBy, conn, copy>>
        /\ role[t] = "idle"
    BY <1>2 DEF TakeTask, Idle
  <2>2. \E to \in {"wait", "send"} : pc' = [pc EXCEPT ![t] = to]
    BY <1>2 DEF TakeTask, Goto
  <2>3. \A u \in Threads \ {t} : role'[u] = role[u]
    BY <1>2 DEF TakeTask, ThreadType
  <2>4. pc[t] = "idle" /\ seg.by # t
    BY <2>1 DEF RoleOfPc, OneReader
  <2>5. QED
    BY <2>1, <2>2, <2>3, <2>4 DEF ThreadType, ReceiveType
<1>3. ASSUME NEW t \in Threads, Enter(t) \/ CopyByte(t) \/ Point(t) PROVE SenderFrame
  BY <1>3 DEF Enter, CopyByte, Point, Goto, ThreadType, ReceiveType, OneReader
<1>4. ASSUME NEW t \in Threads, Produce(t) PROVE SenderFrame
  <2>1. /\ UNCHANGED <<Packets, rx, rpos, seg, roff, aligned, delivered, ranBy, conn, copy>>
        /\ pc[t] = "produce"
    BY <1>4 DEF Produce
  <2>2. \/ pc' = [pc EXCEPT ![t] = "idle"] /\ role[t] = "job"
        \/ pc' = [pc EXCEPT ![t] = IF seg.by = t THEN "handled" ELSE "wait"]
    BY <1>4 DEF Produce, Return, Goto
  <2>3. role[t] = "job" => seg.by # t
    BY DEF OneReader
  <2>4. \A u \in Threads : seg.by = u => role'[u] = role[u]
    BY <1>4, <2>3 DEF Produce, Return, ThreadType
  <2>5. QED
    BY <2>1, <2>2, <2>3, <2>4 DEF ThreadType, ReceiveType, OneReader
<1>5. ASSUME NEW t \in Threads, Move(t) \/ Consume(t) PROVE SenderFrame
  BY <1>5 DEF Move, Consume, Goto, ThreadType, ReceiveType, OneReader
<1>6. ASSUME NEW t \in Threads, OtherHandler(t) PROVE SenderFrame
  BY <1>6 DEF OtherHandler, StartSend, Waiting, AtPort, Goto, ThreadType, ReceiveType, OneReader
<1>7. ASSUME NEW t \in Threads, NEW x \in tx, TakeSend(t, x) PROVE SenderFrame
  BY <1>7 DEF TakeSend, Waiting, AtPort, Goto, Disconnect, ThreadType, ReceiveType, OneReader
<1>8. ASSUME NEW x \in tx, SendDone(x) PROVE SenderFrame
  BY <1>8 DEF SendDone, ReceiveType
<1>9. QED
  BY <1>1, <1>2, <1>3, <1>4, <1>5, <1>6, <1>7, <1>8 DEF Next, ThreadStep

\* A receive moves on, or ends, and nothing was received.
Quiet ==
  /\ UNCHANGED <<Packets, rpos, seg, roff, aligned, delivered, ranBy, copy, pc, role>>
  /\ conn' \in {"none", "up", "closing", "down"} /\ (conn' = "none" => conn = "none" /\ rx' = "off")
  /\ rx \notin {"recvDone", "held"}
  /\ rx' \in {"off", "ready", "readyDone", "recv", "recvFail"}

\* What was received stays as it is.
LEMMA QuietR == ASSUME RInv, Quiet PROVE RInv'
<1>1. PacketStart' = PacketStart
  BY Same DEF Quiet
<1>2. LoadOK' /\ ReceiveType'
  BY <1>1 DEF RInv, LoadOK, ReceiveType, Deliveries, Quiet, Total
<1>3. OneReader'
  BY DEF RInv, OneReader, Quiet
<1>4. (InHandler' <=> InHandler) /\ (Awaited' <=> Awaited)
  BY DEF InHandler, Awaited, Quiet
<1>5. \A q \in 0..Len(Packets) : Received(q) => Received(q)'
  BY <1>1, <1>4 DEF Received, HasGot, Short, Quiet
<1>6. InOrder'
  BY <1>5 DEF RInv, InOrder, Quiet
<1>7. QED
  BY <1>2, <1>3, <1>6 DEF RInv

\* The steps around a receive are quiet.
LEMMA QuietSteps ==
  ASSUME RInv, ReadyDone \/ RecvFailed \/ \E t \in Threads : Accept(t) \/ Receive(t) \/ RecvGone(t)
  PROVE  Quiet
<1> USE DEF Quiet, RInv, server, load, heard, Disconnect, ReceiveType, OneReader
<1>1. CASE ReadyDone \/ RecvFailed
  BY <1>1 DEF ReadyDone, RecvFailed
<1>2. ASSUME NEW t \in Threads, Accept(t) PROVE Quiet
  BY <1>2 DEF Accept
<1>3. ASSUME NEW t \in Threads, Receive(t) \/ RecvGone(t) PROVE Quiet
  BY <1>3 DEF Receive, RecvGone
<1>4. QED
  BY <1>1, <1>2, <1>3

\* The types of what a step about one segment reads.
LEMMA Lengths ==
  ASSUME RInv
  PROVE  /\ Len(Packets) \in Nat /\ Total \in Nat /\ rpos \in Nat /\ roff \in Nat
         /\ seg \in Segments /\ seg.n \in Nat /\ seg.size \in Nat /\ Len(delivered) \in Nat
         /\ \A p \in 1..Len(Packets) : Packets[p] \in 0..Wide - 1
         /\ {HeaderSize, RecvSize, Half, Wide} \subseteq Nat
<1>1. Packets \in Seq(0..Wide - 1)
  BY DEF RInv, LoadOK
<1>2. Len(Packets) \in Nat /\ \A p \in 1..Len(Packets) : Packets[p] \in 0..Wide - 1
  BY <1>1, LenProperties, ElementOfSeq
<1>3. Len(Packets) + 1 \in 1..Len(Packets) + 1
  BY <1>2
<1>4. Total \in Nat
  BY <1>1, <1>3, StartFacts DEF Total
<1>5. {HeaderSize, RecvSize, Half, Wide} \subseteq Nat
  BY ConnectionAssumption
<1>6. seg \in Segments /\ rpos \in 0..Total /\ roff \in 0..RecvSize /\ Len(delivered) \in Nat
  BY LenProperties DEF RInv, ReceiveType, Deliveries, Segments
<1>7. QED
  BY <1>2, <1>4, <1>5, <1>6 DEF Segments

\* Since offset_ is 0, PostReceive takes exactly the segments that are at least
\* as long as a size below Half.
LEMMA SizeRead ==
  ASSUME RInv, rx = "recvDone", NEW b \in 0..2 * Half - 1
  PROVE  /\ PacketSize(b) \in Nat
         /\ seg.n >= (PacketSize(b) - roff) % Wide <=> b < Half /\ seg.n >= b
         /\ b < Half => PacketSize(b) = b
<1>1. roff = 0 /\ seg.n \in 0..RecvSize /\ RecvSize \in Nat /\ Half \in Nat /\ Wide \in Nat
  BY Lengths DEF RInv, OneReader, Segments
<1>2. 2 * Half <= Wide /\ RecvSize < Wide - Half /\ Half >= 1
  BY ConnectionAssumption
<1>3. PacketSize(b) \in 0..Wide - 1
  BY <1>1, <1>2 DEF PacketSize
<1>4. (PacketSize(b) - roff) % Wide = PacketSize(b)
  BY <1>1, <1>2, <1>3
<1>5. QED
  BY <1>1, <1>2, <1>3, <1>4 DEF PacketSize

\* The low byte of a size is a byte, and is the size itself below 2 * Half.
LEMMA LowBytes ==
  ASSUME NEW n \in Nat
  PROVE  /\ LowByte(n) \in 0..2 * Half - 1 /\ LowByte(n) <= n
         /\ LowByte(n) < Half => (LowByte(n) = n <=> n < Half)
<1>1. Half \in Nat /\ 2 * Half > 0
  BY ConnectionAssumption
<1>2. PICK w \in Nat : w = 2 * Half /\ w > 0
  BY <1>1
<1>3. n % w \in 0..w - 1
  BY <1>2
<1>4. n < w => n % w = n
  BY <1>2
<1>5. n % w <= n
  BY <1>2, <1>3, <1>4
<1>6. PICK b \in 0..w - 1 : b = LowByte(n) /\ b <= n /\ (n < w => b = n)
  BY <1>2, <1>3, <1>4, <1>5 DEF LowByte
<1>7. b < Half /\ n < Half => b = n
  BY <1>1, <1>2, <1>6
<1>8. b < Half /\ b = n => n < Half
  BY <1>1, <1>6
<1>9. QED
  BY <1>2, <1>6, <1>7, <1>8

\* The first byte of a segment is a byte.
LEMMA BytesRead == ASSUME RInv, NEW at PROVE FirstByte(at) \subseteq 0..2 * Half - 1
<1>1. PacketAt(at) # 0 => PacketAt(at) \in 1..Len(Packets)
  BY DEF PacketAt
<1>2. \A p \in 1..Len(Packets) : Packets[p] \in Nat
  BY Lengths
<1>3. PacketAt(at) # 0 => LowByte(Packets[PacketAt(at)]) \in 0..2 * Half - 1
  BY <1>1, <1>2, LowBytes
<1>4. QED
  BY <1>3 DEF FirstByte

\* The packets up to n, and one more.
LEMMA ShortGrows ==
  ASSUME NEW n \in Nat
  PROVE  /\ IsFiniteSet(Short(n)) /\ Cardinality(Short(n)) \in Nat
         /\ LowByte(Packets[n + 1]) < Half => /\ Short(n + 1) = Short(n) \cup {n + 1}
                                     /\ Cardinality(Short(n + 1)) = Cardinality(Short(n)) + 1
         /\ ~(LowByte(Packets[n + 1]) < Half) => Short(n + 1) = Short(n)
<1>1. IsFiniteSet(1..n)
  BY FS_Interval
<1>2. Short(n) \in SUBSET (1..n)
  BY DEF Short
<1>3. IsFiniteSet(Short(n)) /\ Cardinality(Short(n)) \in Nat
  BY <1>1, <1>2, FS_Subset, FS_CardinalityType
<1>4. n + 1 \notin Short(n) /\ 1..n + 1 = (1..n) \cup {n + 1}
  BY DEF Short
<1>5. LowByte(Packets[n + 1]) < Half => Short(n + 1) = Short(n) \cup {n + 1}
  BY <1>4 DEF Short
<1>6. ~(LowByte(Packets[n + 1]) < Half) => Short(n + 1) = Short(n)
  BY <1>4 DEF Short
<1>7. Cardinality(Short(n) \cup {n + 1}) = Cardinality(Short(n)) + 1
  BY <1>3, <1>4, FS_AddElement
<1>8. QED
  BY <1>3, <1>5, <1>6, <1>7

\* A segment arrives: the next packet, if it is aligned.
LEMMA RecvDoneR == ASSUME SInv, RInv, NEW n \in 1..RecvSize, RecvDone(n) PROVE RInv'
<1> USE DEF server, load, heard
<1>1. /\ rx = "recv" /\ rx' = "recvDone" /\ rpos' = rpos + n /\ rpos + n <= Total
      /\ n \in 1..RecvSize - roff
      /\ seg' = [at |-> rpos, n |-> n, size |-> 0, by |-> None]
      /\ UNCHANGED <<Packets, copy, pc, role, conn, roff, delivered, ranBy>>
  BY DEF RecvDone, NoSegment
<1>2. aligned' = (aligned /\ PacketAt(rpos) # 0 /\ n = HeaderSize + Packets[PacketAt(rpos)])
  BY DEF RecvDone
<1>3. PacketStart' = PacketStart
  BY <1>1, Same
<1>4. LoadOK'
  BY <1>1 DEF RInv, LoadOK
<1>5. ReceiveType'
  <2>1. Total' = Total
    BY <1>1, <1>3 DEF Total
  <2>2. Total \in Nat /\ rpos \in 0..Total /\ RecvSize \in Nat /\ Half \in Nat /\ Half >= 1
    BY Lengths, ConnectionAssumption DEF RInv, ReceiveType
  <2>3. rpos' \in 0..Total
    BY <1>1, <2>2
  <2>4. 0 \in 0..Half - 1
    BY <2>2
  <2>5. seg' \in Segments
    BY <1>1, <2>2, <2>4 DEF Segments
  <2>6. aligned' \in BOOLEAN
    BY <1>2
  <2>7. QED
    BY <1>1, <2>1, <2>3, <2>5, <2>6 DEF RInv, ReceiveType, Deliveries, Segments
<1>6. OneReader'
  BY <1>1, ConnectionAssumption DEF RInv, OneReader
<1>7. ~InHandler /\ ~InHandler' /\ ~Awaited /\ Awaited'
  <2>1. \A t \in Threads : pc[t] # "handler"
    BY <1>1, ConnectionAssumption DEF RInv, OneReader
  <2>2. QED
    BY <1>1, <2>1 DEF InHandler, Awaited
<1>8. InOrder'
  <2>1. SUFFICES ASSUME aligned', copy' # "unset" PROVE \E q \in 0..Len(Packets)' : Received(q)'
    BY DEF InOrder
  <2>2. PICK q \in 0..Len(Packets) : Received(q)
    BY <1>1, <1>2, <2>1 DEF RInv, InOrder
  <2>3. rpos = PacketStart[q + 1] /\ HasGot(q)
    BY <1>7, <2>2 DEF Received
  <2>4. Packets \in Seq(0..Wide - 1) /\ Len(Packets) \in Nat
    BY Lengths DEF RInv, LoadOK
  <2>5. q + 1 \in 1..Len(Packets)
    <3>1. PICK p \in 1..Len(Packets) : PacketStart[p] = rpos
      BY <1>2, <2>1 DEF PacketAt
    <3>2. q + 1 \in 1..Len(Packets) + 1 /\ p \in 1..Len(Packets) + 1
      BY <2>4
    <3>3. PacketStart[p] \in Nat /\ PacketStart[q + 1] \in Nat
      BY <2>4, <3>2, StartFacts
    <3>4. ~(p < q + 1)
      BY <2>3, <2>4, <3>1, <3>2, <3>3, StartGrows
    <3>5. QED
      BY <2>4, <3>2, <3>4
  <2>6. PacketAt(rpos) = q + 1
    BY <2>3, <2>4, <2>5, AtStart
  <2>7. rpos' = PacketStart[q + 1] + HeaderSize + Packets[q + 1] /\ n = HeaderSize + Packets[q + 1]
    <3>1. n = HeaderSize + Packets[q + 1]
      BY <1>2, <2>1, <2>6
    <3>2. HeaderSize \in Nat /\ Packets[q + 1] \in Nat /\ rpos \in Nat
      BY <2>5, Lengths
    <3>3. QED
      BY <1>1, <2>3, <3>1, <3>2
  <2>8. rpos' = PacketStart[(q + 1) + 1]
    BY <2>4, <2>5, <2>7, StartFacts
  <2>9. HasGot((q + 1) - 1)'
    <3>1. (q + 1) - 1 = q
      OBVIOUS
    <3>2. QED
      BY <1>1, <2>3, <3>1 DEF HasGot, Short
  <2>10. Received(q + 1)'
    BY <1>1, <1>3, <1>7, <2>3, <2>5, <2>7, <2>8, <2>9 DEF Received
  <2>11. q + 1 \in 0..Len(Packets)'
    BY <1>1, <2>4, <2>5
  <2>12. QED
    BY <2>10, <2>11
<1>9. QED
  BY <1>4, <1>5, <1>6, <1>8 DEF RInv

\* PostReceive: takes the packet, or drops one that was too long to tell.
LEMMA PostReceiveR == ASSUME SInv, RInv, NEW t \in Threads, PostReceive(t) PROVE RInv'
<1> USE DEF server, load, heard
<1>1. /\ rx = "recvDone" /\ pc[t] = "wait" /\ role[t] = "iocp"
      /\ UNCHANGED <<Packets, copy, role, rpos, aligned, delivered, ranBy>>
  BY DEF PostReceive, Waiting, AtPort
<1>2. PICK b \in FirstByte(seg.at) :
        IF seg.n >= (PacketSize(b) - roff) % Wide
        THEN /\ rx' = "held" /\ roff' = roff + HeaderSize + PacketSize(b)
             /\ seg' = [seg EXCEPT !.size = PacketSize(b), !.by = t]
             /\ pc' = [pc EXCEPT ![t] = "handler"] /\ conn' = conn
        ELSE PrepareReceive /\ UNCHANGED <<roff, seg, pc>>
  BY DEF PostReceive, Goto
<1>3. b \in 0..2 * Half - 1 /\ roff = 0 /\ Half \in Nat /\ seg.by = None
  BY <1>1, BytesRead, Lengths DEF RInv, OneReader
<1>4. PacketStart' = PacketStart /\ Total' = Total
  BY <1>1, Same DEF Total
<1>5. LoadOK'
  BY <1>1 DEF RInv, LoadOK
<1>6. ~InHandler /\ Awaited
  <2>1. \A u \in Threads : pc[u] # "handler"
    BY <1>1, <1>3, ConnectionAssumption DEF RInv, OneReader
  <2>2. QED
    BY <1>1, <2>1 DEF InHandler, Awaited
<1>7. ASSUME aligned, copy # "unset"
      PROVE  \E q \in 1..Len(Packets) : /\ Received(q) /\ b = LowByte(Packets[q])
                                        /\ seg.n = HeaderSize + Packets[q] /\ Packets[q] \in Nat
                                        /\ q \in Nat /\ q - 1 \in Nat
  <2>1. PICK q \in 0..Len(Packets) : Received(q)
    BY <1>7 DEF RInv, InOrder
  <2>2. q \in 1..Len(Packets) /\ seg.at = PacketStart[q] /\ seg.n = HeaderSize + Packets[q]
    BY <1>6, <2>1, Lengths DEF Received
  <2>3. PacketAt(seg.at) = q
    BY <2>2, AtStart DEF RInv, LoadOK
  <2>4. FirstByte(seg.at) = {LowByte(Packets[q])} /\ Packets[q] \in Nat /\ q \in Nat /\ q - 1 \in Nat
    BY <2>2, <2>3, Lengths DEF FirstByte
  <2>5. QED
    BY <1>2, <2>1, <2>2, <2>4
<1>8. CASE seg.n >= (PacketSize(b) - roff) % Wide
  <2>1. b < Half /\ PacketSize(b) = b
    BY <1>1, <1>3, <1>8, SizeRead
  <2>2. /\ rx' = "held" /\ roff' = HeaderSize + b /\ pc' = [pc EXCEPT ![t] = "handler"] /\ conn' = conn
        /\ seg' = [seg EXCEPT !.size = b, !.by = t]
    BY <1>2, <1>3, <1>8, <2>1, Lengths
  <2>3. seg \in Segments /\ b \in 0..Half - 1
    BY <1>3, <2>1, Lengths
  <2>4. seg' \in Segments /\ seg'.size = b /\ seg'.by = t /\ seg'.at = seg.at /\ seg'.n = seg.n
    BY <2>2, <2>3 DEF Segments
  <2>5. ReceiveType'
    <3>1. roff' \in 0..RecvSize
      BY <2>2, <2>3, ConnectionAssumption
    <3>2. QED
      BY <1>1, <1>4, <2>2, <2>4, <3>1 DEF RInv, ReceiveType, Deliveries, Segments
  <2>6. OneReader'
    BY <1>1, <1>3, <2>2, <2>4, ConnectionAssumption DEF RInv, OneReader, SInv, ThreadType
  <2>7. InHandler' /\ Awaited'
    BY <2>2 DEF InHandler, Awaited, SInv, ThreadType
  <2>8. InOrder'
    <3>1. SUFFICES ASSUME aligned, copy # "unset" PROVE \E q \in 0..Len(Packets) : Received(q)'
      BY <1>1 DEF InOrder
    <3>2. PICK q \in 1..Len(Packets) : Received(q) /\ b = LowByte(Packets[q])
      BY <1>7, <3>1
    <3>3. Received(q)'
      BY <1>1, <1>4, <1>6, <2>1, <2>4, <2>7, <3>2 DEF Received, HasGot, Short
    <3>4. QED
      BY <3>3, Lengths
  <2>9. QED
    BY <1>5, <2>5, <2>6, <2>8 DEF RInv
<1>9. CASE ~(seg.n >= (PacketSize(b) - roff) % Wide)
  <2>1. /\ UNCHANGED <<roff, seg, pc>> /\ rx' \in {"ready", "off"}
        /\ conn' = conn \/ conn' = "closing"
    BY <1>2, <1>9 DEF PrepareReceive, Disconnect
  <2>2. ReceiveType'
    BY <1>1, <1>4, <2>1 DEF RInv, ReceiveType, Deliveries
  <2>3. OneReader'
    BY <1>1, <2>1 DEF RInv, OneReader
  <2>4. ~InHandler' /\ ~Awaited'
    BY <1>6, <2>1 DEF InHandler, Awaited
  <2>5. InOrder'
    <3>1. SUFFICES ASSUME aligned, copy # "unset" PROVE \E q \in 0..Len(Packets) : Received(q)'
      BY <1>1 DEF InOrder
    <3>2. PICK q \in 1..Len(Packets) : /\ Received(q) /\ b = LowByte(Packets[q])
                                       /\ seg.n = HeaderSize + Packets[q] /\ Packets[q] \in Nat
                                       /\ q \in Nat /\ q - 1 \in Nat
      BY <1>7, <3>1
    <3>3. ~(b < Half)
      <4>1. seg.n >= b
        <5>1. b <= Packets[q]
          BY <3>2, LowBytes
        <5>2. QED
          BY <1>3, <3>2, <5>1, Lengths
      <4>2. QED
        BY <1>1, <1>3, <1>9, <4>1, SizeRead
    <3>4. Short(q) = Short(q - 1)
      <4>1. (q - 1) + 1 = q
        BY <3>2
      <4>2. QED
        BY <3>2, <3>3, <4>1, ShortGrows
    <3>5. HasGot(q)
      BY <1>6, <3>2, <3>4 DEF Received, HasGot
    <3>6. Received(q)'
      BY <1>1, <1>4, <2>4, <3>2, <3>5 DEF Received, HasGot, Short
    <3>7. QED
      BY <3>6, Lengths
  <2>6. QED
    BY <1>5, <2>2, <2>3, <2>5 DEF RInv
<1>10. QED
  BY <1>8, <1>9

\* RunHandler: the handler gets the packet that was received last.
LEMMA RunHandlerR ==
  ASSUME SInv, RInv, NEW t \in Threads, RunHandler(t), copy \in {"early"} PROVE RInv'
<1> USE DEF server, load, receive
<1>1. /\ pc[t] = "handler"
      /\ delivered' = Append(delivered, Delivery) /\ ranBy' = ranBy \cup {copy}
      /\ UNCHANGED <<Packets, copy, role, conn, rx, rpos, seg, roff, aligned>>
  BY DEF RunHandler, Handler
<1>2. \E to \in {"handled", "send"} : pc' = [pc EXCEPT ![t] = to]
  BY DEF RunHandler, StartSend, Goto
<1>3. pc'[t] \in {"handled", "send"} /\ \A u \in Threads \ {t} : pc'[u] = pc[u]
  BY <1>2 DEF SInv, ThreadType
<1>4. seg.by = t /\ rx = "held"
  BY <1>1, ConnectionAssumption DEF RInv, OneReader
<1>5. PacketStart' = PacketStart /\ Total' = Total
  BY <1>1, Same DEF Total
<1>6. LoadOK'
  BY <1>1 DEF RInv, LoadOK
<1>7. Delivery \in Deliveries
  <2>1. PacketAt(seg.at) # 0 => PacketAt(seg.at) \in 1..Len(Packets)
    BY DEF PacketAt
  <2>2. PacketAt(seg.at) \in 0..Len(Packets)
    BY <2>1, Lengths
  <2>3. QED
    BY <2>2 DEF Delivery, Deliveries
<1>8. /\ delivered' \in Seq(Deliveries) /\ Len(delivered') = Len(delivered) + 1
      /\ \A i \in 1..Len(delivered) : delivered'[i] = delivered[i]
      /\ delivered'[Len(delivered) + 1] = Delivery
  BY <1>1, <1>7, AppendProperties DEF RInv, ReceiveType
<1>9. ReceiveType'
  BY <1>1, <1>5, <1>8 DEF RInv, ReceiveType, Deliveries
<1>10. OneReader'
  BY <1>1, <1>3, <1>4 DEF RInv, OneReader
<1>11. InHandler /\ ~InHandler' /\ Awaited /\ ~Awaited'
  <2>1. \A u \in Threads \ {t} : pc[u] # "handler"
    BY <1>4 DEF RInv, OneReader
  <2>2. QED
    BY <1>1, <1>3, <1>4, <2>1 DEF InHandler, Awaited
<1>12. InOrder'
  <2>1. SUFFICES ASSUME aligned PROVE \E q \in 0..Len(Packets) : Received(q)'
    BY <1>1 DEF InOrder
  <2>2. PICK q \in 0..Len(Packets) : Received(q)
    BY <2>1 DEF RInv, InOrder
  <2>3. /\ q \in 1..Len(Packets) /\ seg.at = PacketStart[q] /\ seg.n = HeaderSize + Packets[q]
        /\ HasGot(q - 1) /\ seg.size = LowByte(Packets[q]) /\ LowByte(Packets[q]) < Half /\ rpos = PacketStart[q + 1]
    BY <1>11, <2>2, Lengths DEF Received
  <2>4. q \in Nat /\ q - 1 \in Nat /\ (q - 1) + 1 = q /\ Packets[q] \in Nat /\ HeaderSize \in Nat
    BY <2>3, Lengths
  <2>5. Delivery.p = q /\ (Delivery.whole <=> Packets[q] < Half)
    <3>1. PacketAt(seg.at) = q /\ q # 0
      BY <2>3, AtStart DEF RInv, LoadOK
    <3>2. seg.size <= Packets[q] /\ (seg.size = Packets[q] <=> Packets[q] < Half) /\ seg.size \in Nat
      <4>1. PICK n \in Nat : n = Packets[q]
        BY <2>4
      <4>2. LowByte(n) < Half /\ seg.size = LowByte(n)
        BY <2>3, <4>1
      <4>3. LowByte(n) <= n /\ (LowByte(n) = n <=> n < Half)
        BY <4>2, LowBytes
      <4>4. QED
        BY <4>1, <4>2, <4>3, Lengths
    <3>3. seg.n >= HeaderSize + seg.size
      BY <2>3, <2>4, <3>2
    <3>4. Delivery = [p |-> q, whole |-> seg.size = Packets[q]]
      BY <3>1, <3>3 DEF Delivery
    <3>5. QED
      BY <3>2, <3>4
  <2>6. Short(q) = Short(q - 1) \cup {q} /\ Cardinality(Short(q)) = Cardinality(Short(q - 1)) + 1
        /\ Cardinality(Short(q - 1)) \in Nat
    BY <2>3, <2>4, ShortGrows
  <2>7. \A i \in 1..Len(delivered) : /\ delivered[i].p \in Short(q - 1) /\ delivered[i].p < q
                                     /\ delivered[i].whole <=> Packets[delivered[i].p] < Half
    BY <2>3, <2>4 DEF HasGot, Short
  <2>8. Len(delivered) \in Nat /\ 1..Len(delivered') = (1..Len(delivered)) \cup {Len(delivered) + 1}
    <3>1. Len(delivered) \in Nat
      BY Lengths
    <3>2. \A n \in Nat : 1..n + 1 = (1..n) \cup {n + 1}
      OBVIOUS
    <3>3. QED
      BY <1>8, <3>1, <3>2
  <2>9. \A i \in 1..Len(delivered') : /\ delivered'[i].p \in Short(q)
                                      /\ delivered'[i].whole <=> Packets[delivered'[i].p] < Half
    <3>1. \A i \in 1..Len(delivered) : /\ delivered'[i].p \in Short(q)
                                       /\ delivered'[i].whole <=> Packets[delivered'[i].p] < Half
      BY <1>8, <2>6, <2>7, Zenon
    <3>2. \A i \in {Len(delivered) + 1} : /\ delivered'[i].p \in Short(q)
                                          /\ delivered'[i].whole <=> Packets[delivered'[i].p] < Half
      <4>1. q \in Short(q)
        BY <2>6
      <4>2. QED
        BY <1>8, <2>5, <4>1, Zenon
    <3>3. QED
      BY <2>8, <3>1, <3>2, Zenon
  <2>10. \A i, j \in 1..Len(delivered') : i < j => delivered'[i].p < delivered'[j].p
    <3>1. ASSUME NEW i \in 1..Len(delivered'), NEW j \in 1..Len(delivered'), i < j
          PROVE  delivered'[i].p < delivered'[j].p
      <4>1. i \in 1..Len(delivered)
        BY <1>8, <2>8, <3>1
      <4>2. CASE j \in 1..Len(delivered)
        BY <1>8, <2>3, <3>1, <4>1, <4>2 DEF HasGot
      <4>3. CASE j = Len(delivered) + 1
        <5>1. delivered'[i] = delivered[i] /\ delivered'[j] = Delivery
          BY <1>8, <4>1, <4>3, Zenon
        <5>2. delivered[i].p < q /\ Delivery.p = q
          BY <2>5, <2>7, <4>1, Zenon
        <5>3. QED
          BY <5>1, <5>2, Zenon
      <4>4. QED
        BY <2>8, <4>2, <4>3
    <3>2. QED
      BY <3>1
  <2>11. Cardinality(Short(q)) <= Len(delivered')
    BY <1>8, <2>3, <2>6, <2>8 DEF HasGot
  <2>12. Short(q)' = Short(q)
    BY <1>1 DEF Short
  <2>13. HasGot(q)'
    <3>1. Packets' = Packets
      BY <1>1
    <3>2. QED
      BY <2>9, <2>10, <2>11, <2>12, <3>1, Zenon DEF HasGot
  <2>14. Received(q)'
    BY <1>1, <1>5, <1>11, <2>3, <2>13 DEF Received
  <2>15. QED
    BY <2>14
<1>13. QED
  BY <1>6, <1>9, <1>10, <1>12 DEF RInv

\* NoHandler: the thread goes, and recv_buffer_ stays as it is for good.
LEMMA NoHandlerR == ASSUME SInv, RInv, NEW t \in Threads, NoHandler(t) PROVE RInv'
<1> USE DEF server, load, heard
<1>1. /\ pc[t] = "handler" /\ copy = "unset"
      /\ role' = [role EXCEPT ![t] = "idle"] /\ pc' = [pc EXCEPT ![t] = "idle"]
      /\ seg' = [seg EXCEPT !.by = None]
      /\ UNCHANGED <<Packets, copy, conn, rx, rpos, roff, aligned, delivered, ranBy>>
  BY DEF NoHandler, Handler, Goto
<1>2. PacketStart' = PacketStart /\ Total' = Total
  BY <1>1, Same DEF Total
<1>3. seg \in Segments
  BY Lengths
<1>4. seg' \in Segments /\ seg'.size = seg.size /\ seg'.by = None
  BY <1>1, <1>3 DEF Segments
<1>5. LoadOK' /\ ReceiveType'
  BY <1>1, <1>2, <1>4 DEF RInv, LoadOK, ReceiveType, Deliveries, Segments
<1>6. seg.by = t /\ rx = "held"
  BY <1>1, ConnectionAssumption DEF RInv, OneReader
<1>7. \A u \in Threads : pc'[u] \notin {"handler", "handled"}
  BY <1>1, <1>6 DEF RInv, OneReader, SInv, ThreadType
<1>8. OneReader'
  BY <1>1, <1>4, <1>6, <1>7, ConnectionAssumption DEF RInv, OneReader
<1>9. InOrder'
  BY <1>1 DEF InOrder
<1>10. QED
  BY <1>5, <1>8, <1>9 DEF RInv

\* Handled: Consume takes off what PostReceive had put.
LEMMA HandledR == ASSUME SInv, RInv, NEW t \in Threads, Handled(t) PROVE RInv'
<1> USE DEF server, load, heard
<1>1. /\ pc[t] = "handled" /\ pc' = [pc EXCEPT ![t] = "wait"]
      /\ roff' = roff - (HeaderSize + seg.size) /\ seg' = NoSegment
      /\ rx' \in {"ready", "off"} /\ (conn' = conn \/ conn' = "closing")
      /\ UNCHANGED <<Packets, copy, role, rpos, aligned, delivered, ranBy>>
  BY DEF Handled, Goto, Consumed, PrepareReceive, Disconnect
<1>2. PacketStart' = PacketStart /\ Total' = Total
  BY <1>1, Same DEF Total
<1>3. seg.by = t /\ rx = "held" /\ roff = HeaderSize + seg.size
  BY <1>1, ConnectionAssumption DEF RInv, OneReader
<1>4. roff' = 0
  BY <1>1, <1>3, Lengths
<1>5. seg' \in Segments' /\ seg'.by = None /\ 0 \in 0..RecvSize
  <2>1. 0 \in 0..Total /\ 0 \in 0..RecvSize /\ 0 \in 0..Half - 1
    BY Lengths, ConnectionAssumption
  <2>2. QED
    BY <1>1, <1>2, <2>1 DEF Segments, NoSegment
<1>6. LoadOK' /\ ReceiveType'
  BY <1>1, <1>2, <1>4, <1>5 DEF RInv, LoadOK, ReceiveType, Deliveries, Segments
<1>7. /\ \A u \in Threads : pc[u] # "handler" /\ pc'[u] \notin {"handler", "handled"}
  BY <1>1, <1>3 DEF RInv, OneReader, SInv, ThreadType
<1>8. conn # "none"
  BY <1>3 DEF RInv, OneReader
<1>9. OneReader'
  BY <1>1, <1>4, <1>5, <1>7, <1>8, ConnectionAssumption DEF OneReader
<1>10. ~InHandler /\ ~InHandler' /\ ~Awaited /\ ~Awaited'
  BY <1>1, <1>3, <1>7 DEF InHandler, Awaited
<1>11. \A q \in 0..Len(Packets) : Received(q) => Received(q)'
  BY <1>1, <1>2, <1>10 DEF Received, HasGot, Short
<1>12. InOrder'
  BY <1>1, <1>11 DEF RInv, InOrder
<1>13. QED
  BY <1>6, <1>9, <1>12 DEF RInv
-----------------------------------------------------------------------------
(* The tasks and the handler Init() copied.                                *)

IocpRoles == {t \in Threads : role[t] = "iocp"}
Queued(q) == {i \in 1..Len(q) : q[i] = "iocp"}

\* Before Init() nothing runs.
NothingBeforeInit ==
  copy = "none" => /\ handler # "late" /\ queue = <<>> /\ conn = "none"
                   /\ \A t \in Threads : role[t] = "idle"

\* Each IocpWork task is in the queue or with a thread.
IocpTasksKept == copy = "early" => Cardinality(IocpRoles) + Cardinality(Queued(queue)) = IocpAmount

\* The tasks.
HInv == NothingBeforeInit /\ IocpTasksKept /\ ranBy \subseteq {"early"}

\* The queue is finite.
LEMMA QueuedFinite ==
  ASSUME NEW q \in Seq({"iocp"} \cup Msgs)
  PROVE  IsFiniteSet(Queued(q)) /\ Cardinality(Queued(q)) \in Nat
<1>1. Queued(q) \in SUBSET (1..Len(q)) /\ Len(q) \in Nat
  BY LenProperties DEF Queued
<1>2. IsFiniteSet(1..Len(q))
  BY <1>1, FS_Interval
<1>3. QED
  BY <1>1, <1>2, FS_Subset, FS_CardinalityType

\* A job at the end of the queue is none.
LEMMA QueuedAppend ==
  ASSUME NEW q \in Seq({"iocp"} \cup Msgs), NEW m \in Msgs
  PROVE  Queued(Append(q, m)) = Queued(q)
<1>1. Len(q) \in Nat /\ m # "iocp"
  BY LenProperties, ConnectionAssumption
<1>2. /\ Len(Append(q, m)) = Len(q) + 1 /\ Append(q, m)[Len(q) + 1] = m
      /\ \A i \in 1..Len(q) : Append(q, m)[i] = q[i]
  BY AppendProperties
<1>3. 1..Len(q) + 1 = (1..Len(q)) \cup {Len(q) + 1}
  <2>1. \A n \in Nat : 1..n + 1 = (1..n) \cup {n + 1}
    OBVIOUS
  <2>2. QED
    BY <1>1, <2>1
<1>4. QED
  BY <1>1, <1>2, <1>3 DEF Queued

\* Taking the oldest task takes one IocpWork task if that is one.
LEMMA QueuedTail ==
  ASSUME NEW q \in Seq({"iocp"} \cup Msgs), q # <<>>
  PROVE  Cardinality(Queued(q)) = Cardinality(Queued(Tail(q))) + (IF Head(q) = "iocp" THEN 1 ELSE 0)
<1> DEFINE T == Queued(Tail(q))
           R == Queued(q) \ {1}
<1>1. /\ Len(q) \in Nat /\ Len(q) >= 1 /\ Len(Tail(q)) = Len(q) - 1 /\ q[1] = Head(q)
      /\ Tail(q) \in Seq({"iocp"} \cup Msgs)
      /\ \A i \in 1..Len(Tail(q)) : Tail(q)[i] = q[i + 1]
  BY LenProperties, HeadTailProperties, EmptySeq
<1>2. Cardinality(R) = Cardinality(T)
  <2> DEFINE f == [i \in T |-> i + 1]
  <2>1. f \in Bijection(T, R)
    <3>1. f \in [T -> R]
      BY <1>1 DEF Queued
    <3>2. \A i, j \in T : f[i] = f[j] => i = j
      BY <1>1 DEF Queued
    <3>3. \A j \in R : \E i \in T : f[i] = j
      <4>1. ASSUME NEW j \in R PROVE \E i \in T : f[i] = j
        <5>1. j - 1 \in 1..Len(Tail(q)) /\ Tail(q)[j - 1] = q[(j - 1) + 1] /\ (j - 1) + 1 = j /\ q[j] = "iocp"
          BY <1>1 DEF Queued
        <5>2. j - 1 \in T
          BY <5>1 DEF Queued
        <5>3. QED
          BY <5>1, <5>2
      <4>2. QED
        BY <4>1
    <3> HIDE DEF f, T, R
    <3>4. QED
      BY <3>1, <3>2, <3>3 DEF Bijection, Injection, Surjection, IsInjective
  <2>2. IsFiniteSet(T)
    BY <1>1, QueuedFinite
  <2>3. ExistsBijection(T, R)
    BY <2>1 DEF ExistsBijection
  <2> HIDE DEF T, R
  <2>4. QED
    BY <2>2, <2>3, FS_Bijection
<1>3. 1 \in Queued(q) <=> Head(q) = "iocp"
  BY <1>1 DEF Queued
<1>4. IsFiniteSet(Queued(q)) /\ Cardinality(Queued(q)) \in Nat
  BY QueuedFinite
<1>5. Cardinality(R) = IF Head(q) = "iocp" THEN Cardinality(Queued(q)) - 1 ELSE Cardinality(Queued(q))
  BY <1>3, <1>4, FS_RemoveElement
<1>6. QED
  BY <1>2, <1>4, <1>5

\* A step that moves no task.
TasksStay ==
  /\ UNCHANGED <<copy, queue>> /\ ranBy' \subseteq {"early"} /\ IocpRoles' = IocpRoles
  /\ copy = "none" => handler' # "late" /\ UNCHANGED <<conn, role>>

\* Such steps keep the count of tasks.
LEMMA TasksStayH == ASSUME HInv, TasksStay PROVE HInv'
<1>1. NothingBeforeInit'
  BY DEF HInv, TasksStay, NothingBeforeInit
<1>2. IocpTasksKept'
  BY DEF HInv, TasksStay, IocpTasksKept
<1>3. QED
  BY <1>1, <1>2 DEF HInv, TasksStay

\* Before Init() no thread is in a task.
LEMMA Running == ASSUME SInv, HInv, NEW t \in Threads, role[t] # "idle" \/ pc[t] # "idle" PROVE copy # "none"
BY DEF SInv, RoleOfPc, HInv, NothingBeforeInit

\* All steps but four are such steps.
LEMMA StayingSteps ==
  ASSUME SInv, HInv, Next,
         ~ServerInit, ~\E m \in Msgs : AddWork(m), ~\E t \in Threads : TakeTask(t) \/ NoHandler(t)
  PROVE  TasksStay
<1> USE DEF TasksStay, HInv, server, load, sendBuffer, receive, heard
<1>1. CASE SetPostReceiveHandler \/ ConnectionEnds \/ Kernel
  <2>1. UNCHANGED <<copy, queue, role, ranBy>>
    BY <1>1 DEF SetPostReceiveHandler, ConnectionEnds, Kernel, ReadyDone, RecvFailed, RecvDone
  <2>2. copy = "none" => handler' # "late" /\ conn' = conn
    <3>1. CASE SetPostReceiveHandler
      BY <3>1 DEF SetPostReceiveHandler
    <3>2. CASE ConnectionEnds \/ Kernel
      BY <3>2 DEF ConnectionEnds, Kernel, ReadyDone, RecvFailed, RecvDone, NothingBeforeInit
    <3>3. QED
      BY <1>1, <3>1, <3>2
  <2>3. QED
    BY <2>1, <2>2 DEF IocpRoles
<1>2. ASSUME NEW t \in Threads, Enter(t) \/ CopyByte(t) \/ Point(t) \/ Move(t) \/ Consume(t)
      PROVE  TasksStay
  BY <1>2 DEF Enter, CopyByte, Point, Move, Consume, IocpRoles, NothingBeforeInit
<1>3. ASSUME NEW t \in Threads, Produce(t) PROVE TasksStay
  <2>1. UNCHANGED <<copy, queue, ranBy, handler, conn>> /\ pc[t] = "produce"
    BY <1>3 DEF Produce
  <2>2. role' = role \/ (role[t] = "job" /\ role' = [role EXCEPT ![t] = "idle"])
    BY <1>3 DEF Produce, Return
  <2>3. IocpRoles' = IocpRoles
    BY <2>2 DEF IocpRoles, SInv, ThreadType
  <2>4. copy # "none"
    BY <2>1, Running
  <2>5. QED
    BY <2>1, <2>3, <2>4
<1>4. ASSUME NEW t \in Threads, RunHandler(t) PROVE TasksStay
  <2>1. /\ UNCHANGED <<copy, queue, handler, conn, role>> /\ pc[t] = "handler" /\ copy # "unset"
        /\ ranBy' = ranBy \cup {copy}
    BY <1>4 DEF RunHandler, Handler
  <2>2. copy = "early"
    <3>1. copy # "none"
      BY <2>1, Running
    <3>2. QED
      BY <2>1, <3>1 DEF SInv, ThreadType
  <2>3. QED
    BY <2>1, <2>2 DEF IocpRoles
<1>5. ASSUME NEW t \in Threads, Handled(t) PROVE TasksStay
  <2>1. UNCHANGED <<copy, queue, ranBy, handler, role>> /\ pc[t] = "handled"
    BY <1>5 DEF Handled
  <2>2. copy # "none"
    BY <2>1, Running
  <2>3. QED
    BY <2>1, <2>2 DEF IocpRoles
<1>6. ASSUME NEW t \in Threads, Dequeue(t) \/ OtherHandler(t) \/ \E x \in tx : TakeSend(t, x)
      PROVE  TasksStay
  <2>1. UNCHANGED <<copy, queue, ranBy, handler, role>> /\ Waiting(t)
    BY <1>6 DEF Dequeue, Accept, Receive, RecvGone, PostReceive, OtherHandler, TakeSend
  <2>2. copy # "none"
    BY <2>1, Running DEF Waiting, AtPort
  <2>3. QED
    BY <2>1, <2>2 DEF IocpRoles
<1>7. ASSUME NEW x \in tx, SendDone(x) PROVE TasksStay
  BY <1>7 DEF SendDone, IocpRoles, NothingBeforeInit
<1>8. QED
  BY <1>1, <1>2, <1>3, <1>4, <1>5, <1>6, <1>7 DEF Next, ThreadStep

\* No task at first.
LEMMA InitHInv == Init => HInv
BY DEF Init, HInv, NothingBeforeInit, IocpTasksKept

\* The count is kept: by Init(), AddWork, the pool, and a missing handler.
LEMMA NextHInv == ASSUME SInv, HInv, Next PROVE HInv'
<1> USE DEF HInv, server, load, sendBuffer, receive, heard
<1>1. CASE ServerInit
  <2>1. /\ copy = "none" /\ copy' = handler /\ queue' = IocpTasks /\ handler # "late"
        /\ UNCHANGED <<handler, role, ranBy>>
        /\ \A t \in Threads : role[t] = "idle"
    BY <1>1 DEF ServerInit, NothingBeforeInit
  <2>2. copy' # "none"
    BY <2>1 DEF SInv, ThreadType
  <2>3. IocpRoles' = {} /\ Cardinality({}) = 0
    BY <2>1, FS_EmptySet DEF IocpRoles
  <2>4. IocpAmount \in Nat
    BY ConnectionAssumption
  <2>5. Len(IocpTasks) = IocpAmount /\ \A i \in 1..IocpAmount : IocpTasks[i] = "iocp"
    BY <2>4 DEF IocpTasks
  <2>6. Queued(IocpTasks) = 1..IocpAmount
    BY <2>5 DEF Queued
  <2>7. Cardinality(1..IocpAmount) = IocpAmount
    BY <2>4, FS_Interval
  <2>8. IocpTasksKept'
    BY <2>1, <2>3, <2>4, <2>6, <2>7 DEF IocpTasksKept
  <2>9. QED
    BY <2>1, <2>2, <2>8 DEF NothingBeforeInit
<1>2. ASSUME NEW m \in Msgs, AddWork(m) PROVE HInv'
  <2>1. queue' = Append(queue, m) /\ conn # "none" /\ UNCHANGED <<copy, handler, role, conn, ranBy>>
    BY <1>2 DEF AddWork
  <2>2. Queued(queue') = Queued(queue)
    BY <2>1, QueuedAppend DEF SInv, ThreadType
  <2>3. QED
    BY <2>1, <2>2 DEF NothingBeforeInit, IocpTasksKept, IocpRoles
<1>3. ASSUME NEW t \in Threads, TakeTask(t) PROVE HInv'
  <2>1. /\ role[t] = "idle" /\ queue # <<>> /\ queue' = Tail(queue)
        /\ UNCHANGED <<copy, handler, conn, ranBy>>
        /\ role' = [role EXCEPT ![t] = IF Head(queue) = "iocp" THEN "iocp" ELSE "job"]
    BY <1>3 DEF TakeTask, Idle
  <2>2. copy # "none"
    BY <2>1 DEF NothingBeforeInit
  <2>3. Cardinality(Queued(queue)) = Cardinality(Queued(Tail(queue))) + (IF Head(queue) = "iocp" THEN 1 ELSE 0)
    BY <2>1, QueuedTail DEF SInv, ThreadType
  <2>4. Tail(queue) \in Seq({"iocp"} \cup Msgs)
    BY <2>1, HeadTailProperties DEF SInv, ThreadType
  <2>5. Cardinality(Queued(Tail(queue))) \in Nat
    BY <2>4, QueuedFinite
  <2>6. IsFiniteSet(IocpRoles) /\ Cardinality(IocpRoles) \in Nat
    <3>1. IocpRoles \in SUBSET Threads /\ IsFiniteSet(Threads)
      BY ConnectionAssumption DEF IocpRoles
    <3>2. QED
      BY <3>1, FS_Subset, FS_CardinalityType
  <2>7. Cardinality(IocpRoles') = Cardinality(IocpRoles) + (IF Head(queue) = "iocp" THEN 1 ELSE 0)
    <3>1. IocpRoles' = (IF Head(queue) = "iocp" THEN IocpRoles \cup {t} ELSE IocpRoles) /\ t \notin IocpRoles
      BY <2>1 DEF IocpRoles, SInv, ThreadType
    <3>2. Cardinality(IocpRoles \cup {t}) = Cardinality(IocpRoles) + 1
      BY <2>6, <3>1, FS_AddElement
    <3>3. QED
      BY <2>6, <3>1, <3>2
  <2>8. IocpTasksKept'
    BY <2>1, <2>3, <2>5, <2>6, <2>7 DEF IocpTasksKept
  <2>9. QED
    BY <2>1, <2>2, <2>8 DEF NothingBeforeInit
<1>4. ASSUME NEW t \in Threads, NoHandler(t) PROVE HInv'
  <2>1. copy = "unset" /\ UNCHANGED <<copy, ranBy>>
    BY <1>4 DEF NoHandler, Handler
  <2>2. QED
    BY <2>1 DEF NothingBeforeInit, IocpTasksKept
<1>5. QED
  BY <1>1, <1>2, <1>3, <1>4, StayingSteps, TasksStayH
-----------------------------------------------------------------------------
(* Everything.                                                             *)

\* The inductive invariant.
IInv == SInv /\ RInv /\ HInv

\* Each step keeps the sending side.
LEMMA NextSInv == ASSUME SInv, RInv, HInv, Next PROVE SInv'
<1> USE DEF server, load, sendBuffer, receive, heard
<1>1. handler' \in {"unset", "early", "late"} /\ copy' \in {"none", "unset", "early"}
  <2>1. CASE SetPostReceiveHandler \/ ServerInit
    BY <2>1 DEF SetPostReceiveHandler, ServerInit, SInv, ThreadType, HInv, NothingBeforeInit
  <2>2. CASE ~(SetPostReceiveHandler \/ ServerInit)
    <3>1. UNCHANGED <<handler, copy>>
      BY <2>2 DEF Next, ThreadStep, Dequeue, Kernel, ConnectionEnds, ReadyDone, RecvFailed, RecvDone, AddWork,
            TakeTask, Enter, CopyByte, Point, Produce, Move, Consume, RunHandler, NoHandler, Handled,
            Accept, Receive, RecvGone, PostReceive, OtherHandler, TakeSend, SendDone
    <3>2. QED
      BY <3>1 DEF SInv, ThreadType
  <2>3. QED
    BY <2>1, <2>2
<1>2. CASE SetPostReceiveHandler \/ ConnectionEnds \/ Kernel
  <2>1. ReceiverStep
    BY <1>2 DEF ReceiverStep, SetPostReceiveHandler, ConnectionEnds, Kernel, ReadyDone, RecvFailed, RecvDone
  <2>2. QED
    BY <1>1, <2>1, ReceiverStepS
<1>3. CASE ServerInit \/ (\E m \in Msgs : AddWork(m)) \/ (\E t \in Threads : TakeTask(t))
  BY <1>1, <1>3, TaskS
<1>4. ASSUME NEW t \in Threads, Enter(t) \/ CopyByte(t) \/ Point(t) \/ Produce(t) \/ Move(t) \/ Consume(t)
      PROVE  SInv'
  BY <1>4, EnterS, CopyByteS, PointS, ProduceS, MoveS, ConsumeS
<1>5. ASSUME NEW t \in Threads, NoHandler(t) \/ Handled(t) \/ Dequeue(t) PROVE SInv'
  <2>1. UNCHANGED <<sbuf, soff, slock, overrun, refused, tx, snd, unsent, queue>>
    BY <1>5 DEF NoHandler, Handled, Dequeue, Accept, Receive, RecvGone, PostReceive
  <2>2. CASE Accept(t) \/ Receive(t) \/ RecvGone(t)
    BY <2>1, <2>2, <1>1, ReceiverStepS DEF Accept, Receive, RecvGone, ReceiverStep
  <2>3. CASE PostReceive(t)
    <3>1. pc[t] = "wait" /\ role' = role /\ (pc' = pc \/ pc' = [pc EXCEPT ![t] = "handler"])
      BY <2>3 DEF PostReceive, Waiting, AtPort, Goto
    <3>2. ReceiverStep
      BY <2>1, <3>1 DEF ReceiverStep
    <3>3. QED
      BY <1>1, <3>2, ReceiverStepS
  <2>4. CASE NoHandler(t) \/ Handled(t)
    <3>1. \/ pc[t] = "handled" /\ role' = role /\ pc' = [pc EXCEPT ![t] = "wait"]
          \/ /\ pc[t] = "handler" /\ role' = [role EXCEPT ![t] = "idle"]
             /\ pc' = [pc EXCEPT ![t] = "idle"]
      BY <2>4 DEF NoHandler, Handled, Goto
    <3>2. ReceiverStep
      BY <2>1, <3>1 DEF ReceiverStep
    <3>3. QED
      BY <1>1, <3>2, ReceiverStepS
  <2>5. QED
    BY <1>5, <2>2, <2>3, <2>4 DEF Dequeue
<1>6. ASSUME NEW t \in Threads, RunHandler(t) \/ OtherHandler(t) PROVE SInv'
  <2>1. /\ UNCHANGED <<handler, copy, queue, role, sbuf, soff, slock, overrun, refused, tx>>
        /\ pc[t] \in {"handler", "wait"}
    BY <1>6 DEF RunHandler, OtherHandler, Waiting, AtPort
  <2>2. role[t] # "idle"
    BY <2>1 DEF SInv, RoleOfPc
  <2>3. CASE \E m \in unsent : StartSend(t, m)
    <3>1. PICK m \in Msgs : /\ unsent' = unsent \ {m} /\ snd' = [snd EXCEPT ![t].m = m]
                            /\ pc' = [pc EXCEPT ![t] = "send"]
      BY <2>3 DEF StartSend, Goto, SInv, ThreadType
    <3>2. unsent' \subseteq Msgs /\ queue' \in Seq({"iocp"} \cup Msgs)
      BY <2>1, <3>1 DEF SInv, ThreadType
    <3>3. QED
      BY <2>1, <2>2, <3>1, <3>2, StartS
  <2>4. CASE pc[t] = "handler" /\ pc' = [pc EXCEPT ![t] = "handled"] /\ UNCHANGED <<unsent, snd>>
    <3>1. ReceiverStep
      BY <2>1, <2>4 DEF ReceiverStep
    <3>2. QED
      BY <1>1, <3>1, ReceiverStepS
  <2>5. QED
    BY <1>6, <2>3, <2>4 DEF RunHandler, OtherHandler, Goto
<1>7. ASSUME NEW t \in Threads, NEW x \in tx, TakeSend(t, x) PROVE SInv'
  BY <1>7, TakeSendS
<1>8. ASSUME NEW x \in tx, SendDone(x) PROVE SInv'
  BY <1>8, SendDoneS
<1>9. QED
  BY <1>2, <1>3, <1>4, <1>5, <1>6, <1>7, <1>8 DEF Next, ThreadStep

\* Each step keeps the receiving side.
LEMMA NextRInv == ASSUME SInv, RInv, HInv, Next PROVE RInv'
<1>1. ASSUME NEW t \in Threads, RunHandler(t) PROVE RInv'
  <2>1. pc[t] = "handler" /\ copy # "unset"
    BY <1>1 DEF RunHandler, Handler
  <2>2. copy # "none"
    BY <2>1, Running
  <2>3. copy = "early"
    BY <2>1, <2>2 DEF SInv, ThreadType
  <2>4. QED
    BY <1>1, <2>3, RunHandlerR
<1>2. ASSUME NEW t \in Threads, NoHandler(t) \/ Handled(t) \/ PostReceive(t) PROVE RInv'
  BY <1>2, NoHandlerR, HandledR, PostReceiveR
<1>3. ASSUME NEW n \in 1..RecvSize, RecvDone(n) PROVE RInv'
  BY <1>3, RecvDoneR
<1>4. CASE ReadyDone \/ RecvFailed \/ \E t \in Threads : Accept(t) \/ Receive(t) \/ RecvGone(t)
  BY <1>4, QuietSteps, QuietR
<1>5. CASE ~Kernel /\ ~\E t \in Threads : RunHandler(t) \/ NoHandler(t) \/ Handled(t) \/ Dequeue(t)
  BY <1>5, SenderSteps, SenderFrameR
<1>6. QED
  BY <1>1, <1>2, <1>3, <1>4, <1>5 DEF Kernel, Dequeue

\* The invariant holds of every reachable state.
THEOREM Invariance == Spec => []IInv
<1>1. Init => IInv
  BY InitSInv, InitRInv, InitHInv DEF IInv
<1>2. IInv /\ [Next]_vars => IInv'
  <2> SUFFICES ASSUME IInv, [Next]_vars PROVE IInv'
    OBVIOUS
  <2>1. CASE Next
    BY <2>1, NextSInv, NextRInv, NextHInv DEF IInv
  <2>2. CASE UNCHANGED vars
    <3> USE <2>2 DEF vars, IInv
    <3>1. SInv'
      <4>1. ReceiverStep
        BY DEF ReceiverStep
      <4>2. handler' \in {"unset", "early", "late"} /\ copy' \in {"none", "unset", "early"}
        BY DEF SInv, ThreadType
      <4>3. QED
        BY <4>1, <4>2, ReceiverStepS
    <3>2. RInv'
      <4>1. SenderFrame
        BY DEF SenderFrame, RInv, ReceiveType
      <4>2. QED
        BY <4>1, SenderFrameR
    <3>3. HInv'
      <4>1. TasksStay
        BY DEF TasksStay, HInv, IocpRoles, NothingBeforeInit
      <4>2. QED
        BY <4>1, TasksStayH
    <3>4. QED
      BY <3>1, <3>2, <3>3
  <2>3. QED
    BY <2>1, <2>2
<1>3. QED
  BY <1>1, <1>2, PTL DEF Spec

\* All variables stay in their types; in particular the receiving side never
\* counts more than recv_buffer_ holds, whatever sizes the peer's bytes say.
THEOREM TypeCorrect == Spec => []TypeOK
<1>1. IInv => TypeOK
  BY DEF IInv, SInv, ThreadType, BufferType, RInv, ReceiveType, Deliveries, TypeOK
<1>2. QED
  BY <1>1, Invariance, PTL

\* Client::Send and PostSend keep send_buffer_'s offset_ to the one message
\* under way, however many threads send and complete.
THEOREM OffsetAlwaysInFlight == Spec => []OffsetIsInFlight
<1>1. IInv => OffsetIsInFlight
  <2> SUFFICES ASSUME IInv PROVE OffsetIsInFlight
    OBVIOUS
  <2> USE DEF IInv, SInv
  <2>1. \A m, n \in InFlight : m = n
    BY DEF InFlight, OneHolder, Completes
  <2>2. Cardinality(InFlight) <= 1
    <3>1. CASE InFlight = {}
      BY <3>1, FS_EmptySet
    <3>2. CASE InFlight # {}
      <4>1. PICK m : InFlight = {m}
        BY <2>1, <3>2
      <4>2. QED
        <5>1. Cardinality({m}) = 1
          BY FS_Singleton, Zenon
        <5>2. QED
          BY <4>1, <5>1
    <3>3. QED
      BY <3>1, <3>2
  <2>3. ~slock => soff = 0 /\ InFlight = {}
    BY DEF InFlight, OneHolder, Completes
  <2>4. \A m \in InFlight : soff = Size[m]
    BY DEF InFlight, OneHolder, Completes
  <2>5. soff <= BufSize
    BY ConnectionAssumption DEF BufferType
  <2>6. (\A m \in Msgs : 2 * Size[m] <= BufSize) => ~overrun
    BY DEF NoOverrun
  <2> HIDE DEF IInv, SInv
  <2>7. QED
    BY <2>2, <2>3, <2>4, <2>5, <2>6, Zenon DEF OffsetIsInFlight
<1>2. QED
  BY <1>1, Invariance, PTL

\* What Client::Send put on the wire alone is not disturbed while the kernel
\* may read it.
THEOREM SoloSendAlwaysIntact == Spec => []SoloSendIntact
<1>1. IInv => SoloSendIntact
  <2> SUFFICES ASSUME IInv, NEW x \in tx, x.alone, NEW k \in 0..Size[x.m] - 1
               PROVE  x.ptr + k < BufSize /\ sbuf[x.ptr + k] = <<x.m, k>>
    BY DEF SoloSendIntact
  <2>1. x.ptr = 0 /\ sbuf[k] = <<x.m, k>>
    BY DEF IInv, SInv, SoloWire
  <2>2. Size[x.m] \in Nat /\ Size[x.m] <= BufSize /\ BufSize \in Nat
    BY SizeType DEF IInv, SInv, BufferType
  <2>3. x.ptr + k = k /\ k < BufSize
    BY <2>1, <2>2
  <2>4. QED
    BY <2>1, <2>3
<1>2. QED
  BY <1>1, Invariance, PTL

\* The IocpWork tasks keep their number, and only the handler that Init()
\* copied runs.
THEOREM HandlerAlwaysOfInit == Spec => []HandlerOfInit
<1>1. IInv => HandlerOfInit
  BY DEF IInv, HInv, IocpTasksKept, HandlerOfInit, IocpRoles, Queued
<1>2. QED
  BY <1>1, Invariance, PTL

\* Of packets that come in one segment each, those whose size has a low byte that
\* Client::PostReceive reads as positive reach the handler, once and in order,
\* and a packet is there as a whole exactly if its body is below 128 bytes.
THEOREM AlignedAlwaysInOrder == Spec => []AlignedInOrder
<1>1. IInv => AlignedInOrder
  <2> DEFINE got == {p \in 1..Len(Packets) : PacketStart[p + 1] <= rpos /\ LowByte(Packets[p]) < Half}
             owed == IF rx = "recvDone" \/ \E t \in Threads : pc[t] = "handler" THEN 1 ELSE 0
  <2> SUFFICES ASSUME IInv, aligned, copy = "early"
               PROVE  /\ \A i \in 1..Len(delivered) :
                           delivered[i].p \in got /\ (delivered[i].whole <=> Packets[delivered[i].p] < Half)
                      /\ \A i, j \in 1..Len(delivered) : i < j => delivered[i].p < delivered[j].p
                      /\ Cardinality(got) - owed <= Len(delivered)
    BY DEF AlignedInOrder
  <2>1. PICK q \in 0..Len(Packets) : Received(q)
    BY DEF IInv, RInv, InOrder
  <2>2. Len(Packets) \in Nat /\ Packets \in Seq(0..Wide - 1) /\ q \in Nat /\ Len(delivered) \in Nat
    BY Lengths DEF IInv, RInv, LoadOK
  <2>3. got = Short(q)
    <3>1. ASSUME NEW p \in 1..Len(Packets) PROVE PacketStart[p + 1] <= rpos <=> p <= q
      <4>1. p + 1 \in 1..Len(Packets) + 1 /\ q + 1 \in 1..Len(Packets) + 1
        BY <2>2
      <4>2. PacketStart[p + 1] \in Nat /\ PacketStart[q + 1] \in Nat /\ rpos = PacketStart[q + 1]
        BY <2>1, <2>2, <4>1, StartFacts DEF Received
      <4>3. /\ p + 1 < q + 1 => PacketStart[p + 1] < PacketStart[q + 1]
            /\ q + 1 < p + 1 => PacketStart[q + 1] < PacketStart[p + 1]
        BY <2>2, <4>1, StartGrows
      <4>4. p < q \/ p = q \/ q < p
        BY <2>2
      <4>5. QED
        BY <2>2, <4>2, <4>3, <4>4
    <3>2. QED
      BY <2>2, <3>1 DEF Short
  <2>4. owed = IF Awaited THEN 1 ELSE 0
    BY DEF Awaited, InHandler
  <2> HIDE DEF got, owed
  <2>5. CASE ~Awaited
    <3>1. HasGot(q)
      BY <2>1, <2>5 DEF Received
    <3>2. Cardinality(Short(q)) \in Nat
      BY <2>2, ShortGrows
    <3>3. QED
      BY <2>2, <2>3, <2>4, <2>5, <3>1, <3>2 DEF HasGot
  <2>6. CASE Awaited
    <3>1. HasGot(q - 1) /\ q - 1 \in Nat /\ (q - 1) + 1 = q
      BY <2>1, <2>2, <2>6 DEF Received
    <3>2. /\ Cardinality(Short(q - 1)) \in Nat
          /\ \/ Short(q) = Short(q - 1)
             \/ Short(q) = Short(q - 1) \cup {q} /\ Cardinality(Short(q)) = Cardinality(Short(q - 1)) + 1
      BY <3>1, ShortGrows
    <3>3. QED
      BY <2>2, <2>3, <2>4, <2>6, <3>1, <3>2 DEF HasGot
  <2>7. QED
    BY <2>5, <2>6
<1>2. QED
  BY <1>1, Invariance, PTL
=============================================================================
