----------------------------- MODULE IocpServer -----------------------------
(***************************************************************************)
(* The life of a TCP connection in core::Server (core/server): Run() makes *)
(* Client objects and posts accepts, IocpWork threads dequeue completions  *)
(* and post the next operation, and the client is deleted when its         *)
(* DisconnectEx completes.  Kernel, peer and completion port are modelled  *)
(* from how the code uses them.                                            *)
(*                                                                         *)
(* An IoContext is one outstanding operation.  It holds a raw Client*, so  *)
(* the model keeps the generation of the object the pointer was made for:  *)
(* a pointer is good while that object lives, although client_pool_ hands  *)
(* out the same address again.  Received data and the buffers' contents    *)
(* are left out; the send buffer's lock, held from Send() to PostSend(),   *)
(* is not.                                                                 *)
(***************************************************************************)
EXTENDS Integers, FiniteSets

CONSTANTS
  Clients, Workers, None,
  Limit,              \* limit_ (10000)
  Modulus,            \* current_ is an unsigned int: 0 .. Modulus-1
  HasPostAccept,      \* a post_accept_handler_ that may use the client is set
  HasPreDisconnect,   \* a pre_disconnect_handler_ that uses the client is set
  HasPostDisconnect,  \* a post_disconnect_handler_ that uses the client is set
  AppDisconnects,     \* the receive handler may call client->Disconnect()
  DisconnectMayFail,  \* DisconnectEx may fail on a dead connection
  MaxMade,            \* bound: clients made in all
  MaxSends,           \* bound: calls of Client::Send
  MaxContexts         \* bound: IoContexts at one time

ASSUME ServerAssumption ==
  /\ IsFiniteSet(Clients) /\ IsFiniteSet(Workers)
  /\ {Limit, Modulus, MaxMade, MaxSends, MaxContexts} \subseteq Nat
  /\ Limit < Modulus /\ Cardinality(Clients) < Modulus
  /\ {HasPostAccept, HasPreDisconnect, HasPostDisconnect, AppDisconnects, DisconnectMayFail}
       \subseteq BOOLEAN
  /\ None \notin Clients /\ "top" \notin Clients

Ids == 1..MaxContexts
NoCtx == [type |-> "none", client |-> None, gen |-> 0, st |-> "none"]

VARIABLES
  live,      \* addresses of client_pool_ that hold a Client
  gen,       \* history: which object made at that address this is
  conn,      \* its socket: "none", "up" or "down" (closed or reset)
  sendLock,  \* lock_ of its send_buffer_
  broken,    \* history: its last send was refused, failed or had no bytes
  clients,   \* clients_: how often the address is in the vector
  current,   \* current_
  run,       \* Run(): "top", or the client between its making and ++current_
  runRead,   \* the value ++current_ has read
  raced,     \* history: a --current_ fell between read and write of ++current_
  ctx,       \* the IoContexts and how far the kernel is with them
  wpc, wctx, \* where each IocpWork thread is, the context it handles
  wres,      \* its io_result
  made, sends,
  busy,      \* history: addresses whose clients had more than the receive chain: a
             \* handler called Send or Disconnect or ran beside the first receive
  stale      \* None, or the address of a Client that was used after its deletion

vars == <<live, gen, conn, sendLock, broken, clients, current, run, runRead, raced, ctx,
          wpc, wctx, wres, made, sends, busy, stale>>

counter == <<current, run, runRead, raced, made>>
objects == <<live, gen, clients>>
buffer == <<sendLock, broken>>
calls == <<sends, busy>>

Init ==
  /\ live = {}
  /\ gen = [c \in Clients |-> 0]
  /\ conn = [c \in Clients |-> "none"]
  /\ sendLock = [c \in Clients |-> FALSE] /\ broken = [c \in Clients |-> FALSE]
  /\ clients = [c \in Clients |-> 0]
  /\ current = 0 /\ run = "top" /\ runRead = 0 /\ raced = FALSE
  /\ ctx = [i \in Ids |-> NoCtx]
  /\ wpc = [w \in Workers |-> "wait"]
  /\ wctx = [w \in Workers |-> 0]
  /\ wres = [w \in Workers |-> TRUE]
  /\ made = 0 /\ sends = 0 /\ busy = {}
  /\ stale = None

FreeIds == {i \in Ids : ctx[i] = NoCtx}

\* Construct(IoContext(c, type)), and the call that hands it to the kernel
Posted(type, c, g) == [type |-> type, client |-> c, gen |-> g, st |-> "kernel"]

Mine(w) == ctx[wctx[w]]
Good(x) == x.client \in live /\ gen[x.client] = x.gen
At(w, step) == stale = None /\ wpc[w] = step
Goto(w, to) == wpc' = [wpc EXCEPT ![w] = to]

\* The end of the loop body: Destroy(io_context).
Done(w) == Goto(w, "wait") /\ wctx' = [wctx EXCEPT ![w] = 0]

\* The thread goes through a dangling pointer.
Dangle(w, step) ==
  /\ At(w, step) /\ ~Good(Mine(w))
  /\ stale' = Mine(w).client
  /\ UNCHANGED <<objects, conn, buffer, counter, ctx, wpc, wctx, wres, calls>>
-----------------------------------------------------------------------------
(* Run(): one client and one AcceptEx per turn, while current_ < limit_.   *)

NewClient(c) ==
  /\ stale = None /\ run = "top" /\ made < MaxMade
  /\ current < Limit /\ c \notin live
  /\ live' = live \cup {c}
  /\ gen' = [gen EXCEPT ![c] = @ + 1]
  /\ conn' = [conn EXCEPT ![c] = "none"]
  /\ sendLock' = [sendLock EXCEPT ![c] = FALSE] /\ broken' = [broken EXCEPT ![c] = FALSE]
  /\ run' = c /\ runRead' = current /\ raced' = raced /\ made' = made + 1
  /\ UNCHANGED <<clients, current, ctx, wpc, wctx, wres, calls, stale>>

MutNotCounted == {current}          \* mutant: NewClient does not count

\* ++current_ is a plain read and write.  Of the n decrements that fell between
\* them the first ones may be lost, or the last one may hide the increment.
Counted ==
  LET n == (runRead - current) % Modulus
  IN {(runRead + 1 - k) % Modulus : k \in 0..(IF n = 0 THEN 0 ELSE n + 1)}

PostAccept ==
  /\ stale = None /\ run # "top" /\ FreeIds # {}
  /\ LET i == CHOOSE j \in FreeIds : TRUE
     IN ctx' = [ctx EXCEPT ![i] = Posted("ACCEPT", run, gen[run])]
  /\ current' \in Counted
  /\ raced' = (raced \/ current # runRead)
  /\ run' = "top"
  /\ UNCHANGED <<objects, conn, buffer, runRead, made, wpc, wctx, wres, calls, stale>>
-----------------------------------------------------------------------------
(* IocpWork.                                                               *)

First(x) ==
  IF x.st = "fail" /\ x.type \in {"RECV", "SEND"} THEN "disconnect"
  ELSE CASE x.type = "ACCEPT" -> "add"
         [] x.type = "READY" -> "receive"
         [] x.type = "RECV" -> "deliver"
         [] x.type = "SEND" -> "sent"
         [] x.type = "DISCONNECT" -> IF HasPreDisconnect THEN "preDisconnect" ELSE "remove"

\* GetQueuedCompletionStatus returns a context.  A receive or send that failed or
\* moved no bytes goes straight to Disconnect(), and of a send that leaves the
\* buffer locked; other failures are handled like successes.
Take(w, i) ==
  /\ At(w, "wait") /\ ctx[i].st \in {"ok", "fail"}
  /\ ctx' = [ctx EXCEPT ![i].st = "held"]
  /\ wctx' = [wctx EXCEPT ![w] = i]
  /\ wres' = [wres EXCEPT ![w] = TRUE]
  /\ Goto(w, First(ctx[i]))
  /\ broken' = IF ctx[i].type = "SEND" /\ ctx[i].st = "fail" /\ Good(ctx[i])
               THEN [broken EXCEPT ![ctx[i].client] = TRUE] ELSE broken
  /\ UNCHANGED <<objects, conn, sendLock, counter, calls, stale>>

\* IO_ACCEPT: AddClient.
Add(w) ==
  /\ At(w, "add") /\ Good(Mine(w))
  /\ clients' = [clients EXCEPT ![Mine(w).client] = @ + 1]
  /\ Goto(w, "prepare")
  /\ UNCHANGED <<live, gen, conn, buffer, counter, ctx, wctx, wres, calls, stale>>

MutPrepareTwice(w) ==      \* mutant: PostReceive also posts a receive
  LET x == Mine(w)
  IN /\ At(w, "prepare") /\ Good(x) /\ Cardinality(FreeIds) > 1
     /\ LET i == CHOOSE j \in FreeIds : TRUE
            k == CHOOSE j \in FreeIds \ {i} : TRUE
        IN ctx' = [ctx EXCEPT ![i] = Posted("READY", x.client, x.gen),
                              ![k] = Posted("READY", x.client, x.gen), ![wctx[w]] = NoCtx]
     /\ Done(w)
     /\ UNCHANGED <<objects, conn, buffer, counter, wres, calls, stale>>

\* PrepareReceive after an accept or a delivered packet: the WSARecv is pending,
\* or refused at once for whatever reason.  A refused context is never destroyed
\* and drops out of the model.  Where the post_accept_handler_ uses the client,
\* that is a step of its own.
Prepare(w) ==
  LET x == Mine(w)
  IN /\ At(w, "prepare") /\ Good(x)
     /\ \E next \in {"wait", "postAccept"} :
          /\ next = "postAccept" => x.type = "ACCEPT" /\ HasPostAccept
          /\ \/ /\ FreeIds # {}
                /\ LET i == CHOOSE j \in FreeIds : TRUE
                   IN ctx' = [ctx EXCEPT ![i] = Posted("READY", x.client, x.gen),
                                         ![wctx[w]] = IF next = "wait" THEN NoCtx ELSE x]
                /\ IF next = "wait" THEN Done(w) ELSE Goto(w, next) /\ UNCHANGED wctx
                /\ busy' = IF next = "wait" THEN busy ELSE busy \cup {x.client}
                /\ UNCHANGED wres
             \/ /\ wres' = [wres EXCEPT ![w] = FALSE]
                /\ Goto(w, IF next = "wait" THEN "disconnect" ELSE next)
                /\ UNCHANGED <<ctx, wctx, busy>>
     /\ UNCHANGED <<objects, conn, buffer, counter, sends, stale>>

\* PostAcceptHandler runs after the receive was posted.
PostAcceptHandler(w) ==
  /\ At(w, "postAccept") /\ Good(Mine(w))
  /\ IF wres[w] THEN Done(w) /\ ctx' = [ctx EXCEPT ![wctx[w]] = NoCtx]
     ELSE Goto(w, "disconnect") /\ UNCHANGED <<wctx, ctx>>
  /\ UNCHANGED <<objects, conn, buffer, counter, wres, calls, stale>>

\* IO_RECV_READY: Receive().
Receive(w) ==
  LET x == Mine(w)
  IN /\ At(w, "receive") /\ Good(x)
     /\ \/ /\ ctx' = [ctx EXCEPT ![wctx[w]] = Posted("RECV", x.client, x.gen)]
           /\ Done(w)
        \/ Goto(w, "disconnect") /\ UNCHANGED <<ctx, wctx>>
     /\ UNCHANGED <<objects, conn, buffer, counter, wres, calls, stale>>

\* IO_RECV: PostReceive calls the handler, which may answer with Send() or end
\* the connection with Disconnect().
Deliver(w) ==
  LET x == Mine(w)
  IN /\ At(w, "deliver") /\ Good(x)
     /\ \/ Goto(w, "prepare") /\ UNCHANGED <<ctx, calls>>
        \/ /\ sends < MaxSends /\ sends' = sends + 1 /\ busy' = busy \cup {x.client}
           /\ Goto(w, "send") /\ UNCHANGED ctx
        \/ /\ AppDisconnects /\ FreeIds # {} /\ busy' = busy \cup {x.client}
           /\ LET i == CHOOSE j \in FreeIds : TRUE
              IN ctx' = [ctx EXCEPT ![i] = Posted("DISCONNECT", x.client, x.gen)]
           /\ Goto(w, "prepare") /\ UNCHANGED sends
     /\ UNCHANGED <<objects, conn, buffer, counter, wctx, wres, stale>>

MutProduce(c) == UNCHANGED sendLock   \* mutant: Produce without lock_
\* send_buffer_.Produce: spins until the buffer is unlocked and locks it.
Produce(c) == ~sendLock[c] /\ sendLock' = [sendLock EXCEPT ![c] = TRUE]

\* send_buffer_.Consume: whichever thread calls it unlocks the buffer.
Consume(c) == sendLock' = [sendLock EXCEPT ![c] = FALSE]

\* Send(): Produce, then WSASend.  When that is refused, for whatever reason,
\* nobody unlocks the buffer.
Send(w) ==
  LET x == Mine(w)
  IN /\ At(w, "send") /\ Good(x)
     /\ Produce(x.client)
     /\ \/ /\ FreeIds # {}
           /\ LET i == CHOOSE j \in FreeIds : TRUE
              IN ctx' = [ctx EXCEPT ![i] = Posted("SEND", x.client, x.gen)]
           /\ UNCHANGED broken
        \/ broken' = [broken EXCEPT ![x.client] = TRUE] /\ UNCHANGED ctx
     /\ Goto(w, "prepare")
     /\ UNCHANGED <<objects, conn, counter, wctx, wres, calls, stale>>

\* IO_SEND: PostSend unlocks the buffer.
Sent(w) ==
  /\ At(w, "sent") /\ Good(Mine(w))
  /\ Consume(Mine(w).client)
  /\ ctx' = [ctx EXCEPT ![wctx[w]] = NoCtx]
  /\ Done(w)
  /\ UNCHANGED <<objects, conn, broken, counter, wres, calls, stale>>

MutNoDisconnect(w) ==      \* mutant: a failed receive only destroys its context
  /\ At(w, "disconnect") /\ Good(Mine(w))
  /\ ctx' = [ctx EXCEPT ![wctx[w]] = NoCtx]
  /\ Done(w)
  /\ UNCHANGED <<objects, conn, buffer, counter, wres, calls, stale>>

\* Disconnect() after a failure; the new context takes the place of the old.
Disconnect(w) ==
  LET x == Mine(w)
  IN /\ At(w, "disconnect") /\ Good(x)
     /\ \/ ctx' = [ctx EXCEPT ![wctx[w]] = Posted("DISCONNECT", x.client, x.gen)]
        \/ DisconnectMayFail /\ ctx' = [ctx EXCEPT ![wctx[w]] = NoCtx]
     /\ Done(w)
     /\ UNCHANGED <<objects, conn, buffer, counter, wres, calls, stale>>

MutErase(c) == UNCHANGED clients      \* mutant: clients_.erase is forgotten
Erase(c) == clients' = [clients EXCEPT ![c] = @ - 1]

\* IO_DISCONNECT: PreDisconnectHandler gets the client.
PreDisconnectHandler(w) ==
  /\ At(w, "preDisconnect") /\ Good(Mine(w))
  /\ Goto(w, "remove")
  /\ UNCHANGED <<objects, conn, buffer, counter, ctx, wctx, wres, calls, stale>>

\* ClientManager looks the address up, and deletes and uncounts what is there.
RemoveClient(c) ==
  IF clients[c] > 0
  THEN /\ Erase(c)
       /\ live' = live \ {c}
       /\ current' = (current - 1) % Modulus
  ELSE UNCHANGED <<clients, live, current>>

\* Then PostDisconnectHandler is called with the context, whose client is
\* deleted, unless the address was not in clients_.
Remove(w) ==
  LET x == Mine(w)
  IN /\ At(w, "remove")
     /\ RemoveClient(x.client)
     /\ stale' = IF clients[x.client] > 0
                 THEN IF Good(x) /\ ~HasPostDisconnect THEN None ELSE x.client
                 ELSE IF Good(x) \/ ~HasPostDisconnect THEN None ELSE x.client
     /\ ctx' = [ctx EXCEPT ![wctx[w]] = NoCtx]
     /\ Done(w)
     /\ UNCHANGED <<gen, conn, buffer, run, runRead, raced, made, wres, calls>>
-----------------------------------------------------------------------------
(* Kernel and peer.                                                        *)

Complete(i, st) ==
  /\ ctx' = [ctx EXCEPT ![i].st = st]
  /\ UNCHANGED <<objects, buffer, counter, wpc, wctx, wres, calls, stale>>

InKernel(i, types) == stale = None /\ ctx[i].st = "kernel" /\ ctx[i].type \in types

\* The socket an operation was posted on; that of a deleted client is gone.
Link(x) == IF Good(x) THEN conn[x.client] ELSE "down"

AcceptDone(i) ==
  /\ InKernel(i, {"ACCEPT"})
  /\ conn' = [conn EXCEPT ![ctx[i].client] = "up"]
  /\ Complete(i, "ok")

\* Data arrived or was sent.
IoDone(i) ==
  /\ InKernel(i, {"READY", "RECV", "SEND"}) /\ Link(ctx[i]) = "up"
  /\ Complete(i, "ok") /\ UNCHANGED conn

\* A send of no bytes is done and has moved none: IocpWork takes it for failed.
EmptySent(i) ==
  /\ InKernel(i, {"SEND"}) /\ Link(ctx[i]) = "up"
  /\ Complete(i, "fail") /\ UNCHANGED conn

\* The connection is dead: reads end with an error or 0 bytes, writes fail.
IoFailed(i) ==
  /\ InKernel(i, {"READY", "RECV", "SEND"}) /\ Link(ctx[i]) = "down"
  /\ Complete(i, "fail") /\ UNCHANGED conn

DisconnectDone(i) ==
  /\ InKernel(i, {"DISCONNECT"})
  /\ conn' = IF Good(ctx[i]) THEN [conn EXCEPT ![ctx[i].client] = "down"] ELSE conn
  /\ Complete(i, "ok")

PeerCloses(c) ==
  /\ stale = None /\ conn[c] = "up" /\ conn' = [conn EXCEPT ![c] = "down"]
  /\ UNCHANGED <<objects, buffer, counter, ctx, wpc, wctx, wres, calls, stale>>
-----------------------------------------------------------------------------
Uses == {"add", "prepare", "postAccept", "receive", "deliver", "send", "sent", "disconnect", "preDisconnect"}

WorkerStep(w) ==
  \/ Add(w) \/ Prepare(w) \/ PostAcceptHandler(w) \/ Receive(w) \/ Deliver(w) \/ Send(w)
  \/ Sent(w) \/ Disconnect(w) \/ PreDisconnectHandler(w) \/ Remove(w)
  \/ \E step \in Uses : Dangle(w, step)

KernelStep(i) == AcceptDone(i) \/ IoDone(i) \/ EmptySent(i) \/ IoFailed(i) \/ DisconnectDone(i)

Next ==
  \/ \E c \in Clients : NewClient(c) \/ PeerCloses(c)
  \/ PostAccept
  \/ \E w \in Workers : WorkerStep(w) \/ \E i \in Ids : Take(w, i)
  \/ \E i \in Ids : KernelStep(i)

Spec == Init /\ [][Next]_vars

(***************************************************************************)
(* Threads keep running.  The kernel ends every operation on a dead        *)
(* connection and every DisconnectEx; data and new peers need not come.    *)
(* The port's queue is FIFO, so a completion is not passed over for ever.  *)
(***************************************************************************)
Fairness ==
  /\ \A w \in Workers : WF_vars(WorkerStep(w))
  /\ \A i \in Ids : /\ WF_vars(IoFailed(i) \/ DisconnectDone(i))
                    /\ SF_vars(\E w \in Workers : Take(w, i))

FairSpec == Spec /\ Fairness
-----------------------------------------------------------------------------
\* The operations of types T for the client now at address c; a thread that is
\* past posting the next one no longer counts.
Pending(c, T) ==
  {i \in Ids : /\ ctx[i].type \in T /\ ctx[i].client = c /\ ctx[i].gen = gen[c]
               /\ \A w \in Workers : wctx[w] = i => wpc[w] \notin {"postAccept", "disconnect"}}

TypeOK ==
  /\ live \subseteq Clients
  /\ gen \in [Clients -> 0..MaxMade]
  /\ conn \in [Clients -> {"none", "up", "down"}]
  /\ sendLock \in [Clients -> BOOLEAN] /\ broken \in [Clients -> BOOLEAN]
  /\ clients \in [Clients -> Nat]
  /\ current \in 0..Modulus - 1 /\ runRead \in 0..Modulus - 1
  /\ run \in Clients \cup {"top"}
  /\ raced \in BOOLEAN /\ busy \subseteq Clients /\ stale \in Clients \cup {None}
  /\ ctx \in [Ids -> [type : {"none", "ACCEPT", "READY", "RECV", "SEND", "DISCONNECT"},
                      client : Clients \cup {None}, gen : 0..MaxMade,
                      st : {"none", "kernel", "ok", "fail", "held"}]]
  /\ wpc \in [Workers -> Uses \cup {"wait", "remove"}]
  /\ wctx \in [Workers -> Ids \cup {0}]
  /\ wres \in [Workers -> BOOLEAN]
  /\ made \in 0..MaxMade /\ sends \in 0..MaxSends

\* The chain accept, ready, receive, ready ... of a client is never forked: at
\* most one link of it is outstanding or being handled.  Two would let two
\* threads run PostReceive on one recv_buffer_.
OneReceive ==
  stale = None => \A c \in live : Cardinality(Pending(c, {"ACCEPT", "READY", "RECV"})) <= 1

\* The send buffer is in use by one WSASend at a time, from Send() until some
\* thread handles its completion.  It is locked then, and afterwards stays locked
\* exactly if that send was refused, failed or had no bytes; a Send of the same
\* client then spins for ever.
OneSend ==
  stale = None => \A c \in live :
    /\ Cardinality(Pending(c, {"SEND"})) <= 1
    /\ Pending(c, {"SEND"}) # {} => sendLock[c]
    /\ (sendLock[c] /\ Pending(c, {"SEND"}) = {}) <=> broken[c]

\* clients_ holds each connected client once and no client that is deleted.
ClientsAreLive ==
  stale = None => \A c \in Clients : clients[c] <= 1 /\ (clients[c] = 1 => c \in live)

\* current_ is the number of clients, unless an unlocked ++ and a -- collided.
CountExact ==
  ~raced => current = Cardinality(live \ {run})

\* No thread uses a Client after RemoveClient deleted it, for all orders in which
\* completions are handled, as long as its handlers left its life to the chain
\* of receives: none called Send or Disconnect for a client at that address, its
\* post_accept_handler_ did not use it once the first receive was posted, and
\* there is no post_disconnect_handler_ to be given what was just deleted.
NoStaleClient == stale # None => HasPostDisconnect \/ stale \in busy

\* A client whose connection has ended is deleted in the end, unless a deleted
\* client was used before.
ClosedIsRemoved ==
  \A c \in Clients : (c \in live /\ conn[c] = "down") ~> (c \notin live \/ stale # None)
=============================================================================
