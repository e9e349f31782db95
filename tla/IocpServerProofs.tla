-------------------------- MODULE IocpServerProofs --------------------------
(***************************************************************************)
(* What the TCP server keeps true for any number of clients, threads and   *)
(* contexts.  IInv is inductive: it adds to the invariants of IocpServer   *)
(* which thread handles which context (Handling), that every context was   *)
(* made for a client that is or was at its address (Contexts), and that a  *)
(* client is known by its accept alone until AddClient (Accepting).        *)
(*                                                                         *)
(* The lemmas named ...L say how each kind of step changes the contexts    *)
(* and the pending operations; those named ...I prove IInv' for an action. *)
(***************************************************************************)
EXTENDS IocpServer, FiniteSetTheorems, TLAPS

\* What a thread may be handling at each step.
Handles(step) ==
  CASE step \in {"add", "postAccept"} -> {"ACCEPT"}
    [] step = "prepare" -> {"ACCEPT", "RECV"}
    [] step = "receive" -> {"READY"}
    [] step \in {"deliver", "send"} -> {"RECV"}
    [] step = "sent" -> {"SEND"}
    [] step \in {"preDisconnect", "remove"} -> {"DISCONNECT"}
    [] step = "disconnect" -> {"ACCEPT", "READY", "RECV", "SEND"}
    [] OTHER -> {}

\* Contexts were made for a client, now or before.
Contexts ==
  /\ \A c \in Clients : gen[c] <= made
  /\ \A i \in Ids : ctx[i] # NoCtx =>
       /\ ctx[i].type # "none" /\ ctx[i].st # "none" /\ ctx[i].client \in Clients
       /\ ctx[i].gen <= gen[ctx[i].client]

\* A context that was dequeued is with one thread.
Handling ==
  /\ \A w \in Workers : wctx[w] = 0 <=> wpc[w] = "wait"
  /\ \A w \in Workers : wctx[w] # 0 =>
       ctx[wctx[w]].st = "held" /\ ctx[wctx[w]].type \in Handles(wpc[w])
  /\ \A v, w \in Workers : wctx[v] = wctx[w] /\ wctx[v] # 0 => v = w

\* Context i is for the client that is now at address c.
Of(i, c) == ctx[i].client = c /\ ctx[i].gen = gen[c]

\* AddClient is still to come for the accept in context i.
Unadded(i) == ctx[i].type = "ACCEPT" /\ \A w \in Workers : wctx[w] = i => wpc[w] = "add"

Untouched(c) == c \in live /\ clients[c] = 0 /\ ~sendLock[c]

\* Until AddClient the accept is the one context of its client, and nobody
\* deletes a client that is not in clients_.
Accepting ==
  /\ ClientsAreLive
  /\ stale = None /\ run # "top" => Untouched(run) /\ \A i \in Ids : ~Of(i, run)
  /\ stale = None => \A i \in Ids : Unadded(i) =>
       /\ Untouched(ctx[i].client) /\ Of(i, ctx[i].client) /\ run # ctx[i].client
       /\ \A j \in Ids : Of(j, ctx[i].client) => j = i

Chain == {"ACCEPT", "READY", "RECV"}

Receiving == stale = None => \A c \in Clients : \A i, j \in Pending(c, Chain) : i = j

Sending ==
  stale = None => \A c \in live :
    /\ \A i, j \in Pending(c, {"SEND"}) : i = j
    /\ Pending(c, {"SEND"}) # {} => sendLock[c] /\ ~broken[c]
    /\ broken[c] => sendLock[c]
    /\ sendLock[c] /\ Pending(c, {"SEND"}) = {} => broken[c]

IInv == TypeOK /\ Contexts /\ Handling /\ Accepting /\ CountExact /\ Receiving /\ Sending

\* A client that is not busy has one context and lives as long as that.
OneContext ==
  /\ NoStaleClient
  /\ stale = None =>
       /\ \A i \in Ids : ctx[i] # NoCtx /\ ctx[i].client \notin busy => Good(ctx[i])
       /\ \A i, j \in Ids : ctx[i] # NoCtx /\ ctx[j] # NoCtx
                            /\ ctx[i].client = ctx[j].client /\ ctx[i].client \notin busy => i = j
       /\ \A w \in Workers : wpc[w] = "send" => Mine(w).client \in busy
-----------------------------------------------------------------------------
(* The ways in which a step changes the contexts and who handles them.     *)

Types == {"ACCEPT", "READY", "RECV", "SEND", "DISCONNECT"}
Past == {"postAccept", "disconnect"}   \* the next operation was posted

TypeC ==
  /\ ctx \in [Ids -> [type : {"none"} \cup Types, client : Clients \cup {None}, gen : 0..MaxMade,
                      st : {"none", "kernel", "ok", "fail", "held"}]]
  /\ wpc \in [Workers -> Uses \cup {"wait", "remove"}]
  /\ wctx \in [Workers -> Ids \cup {0}]
  /\ gen \in [Clients -> 0..MaxMade]

Struct == TypeC /\ Contexts /\ Handling

\* The constants, and that NoCtx is a context of no client.
LEMMA Consts ==
  /\ {Limit, Modulus, MaxMade, MaxSends, MaxContexts} \subseteq Nat /\ Limit < Modulus /\ Modulus > 0
  /\ 0 \notin Ids /\ Ids \subseteq Nat
  /\ None \notin Clients /\ "top" \notin Clients
  /\ NoCtx.type = "none" /\ NoCtx.client = None /\ NoCtx.gen = 0 /\ NoCtx.st = "none"
  /\ NoCtx \in [type : {"none"} \cup Types, client : Clients \cup {None}, gen : 0..MaxMade,
                st : {"none", "kernel", "ok", "fail", "held"}]
<1>1. {Limit, Modulus, MaxMade, MaxSends, MaxContexts} \subseteq Nat /\ Limit < Modulus
  BY ServerAssumption
<1>2. Modulus > 0 /\ 0 \in 0..MaxMade
  BY <1>1
<1>3. 0 \notin Ids /\ Ids \subseteq Nat
  BY <1>1 DEF Ids
<1>4. QED
  BY <1>1, <1>2, <1>3, ServerAssumption DEF NoCtx

\* The fields of a new context.
LEMMA PostedFields ==
  ASSUME NEW type \in Types, NEW c \in Clients, NEW g \in 0..MaxMade
  PROVE  /\ Posted(type, c, g).type = type /\ Posted(type, c, g).client = c
         /\ Posted(type, c, g).gen = g /\ Posted(type, c, g).st = "kernel"
         /\ Posted(type, c, g) # NoCtx /\ type # "none"
         /\ Posted(type, c, g) \in [type : {"none"} \cup Types, client : Clients \cup {None}, gen : 0..MaxMade,
                                    st : {"none", "kernel", "ok", "fail", "held"}]
BY DEF Posted, NoCtx, Types

\* The parts of TypeOK that the handling of contexts rests on.
LEMMA TypesOK == IInv => Struct
BY DEF IInv, Struct, TypeC, TypeOK, Types

\* What a thread handles.
LEMMA MineIs ==
  ASSUME Struct, NEW w \in Workers, wpc[w] # "wait"
  PROVE  /\ wctx[w] \in Ids /\ wctx[w] # 0 /\ Mine(w).type \in Handles(wpc[w]) /\ Mine(w).st = "held"
         /\ Mine(w).type \in Types /\ Mine(w).client \in Clients /\ Mine(w).gen \in 0..MaxMade
         /\ Mine(w).gen <= gen[Mine(w).client] /\ Mine(w) # NoCtx
         /\ \A v \in Workers : wctx[v] = wctx[w] => v = w
<1>1. wctx[w] # 0 /\ wctx[w] \in Ids
  BY DEF Struct, TypeC, Handling
<1>2. ctx[wctx[w]].st = "held" /\ ctx[wctx[w]].type \in Handles(wpc[w])
  BY <1>1 DEF Struct, Handling
<1>3. ctx[wctx[w]] # NoCtx
  BY <1>2, Consts
<1>4. \A v \in Workers : wctx[v] = wctx[w] => v = w
  BY <1>1 DEF Struct, Handling
<1>5. ctx[wctx[w]].type \in Types /\ ctx[wctx[w]].client \in Clients /\ ctx[wctx[w]].gen \in 0..MaxMade
      /\ ctx[wctx[w]].gen <= gen[ctx[wctx[w]].client]
  BY <1>1, <1>3 DEF Struct, TypeC, Contexts
<1>6. QED
  BY <1>1, <1>2, <1>3, <1>4, <1>5 DEF Mine

\* A free context is nobody's.
LEMMA FreeNobodys ==
  ASSUME Struct, NEW k \in FreeIds
  PROVE  /\ k \in Ids /\ ctx[k] = NoCtx /\ ctx[k].type = "none" /\ ctx[k].client = None
         /\ \A w \in Workers : wctx[w] # k
         /\ \A c \in Clients : ~Of(k, c)
<1>1. k \in Ids /\ ctx[k] = NoCtx
  BY DEF FreeIds
<1>2. \A w \in Workers : wctx[w] # k
  BY <1>1, Consts DEF Struct, Handling
<1>3. QED
  BY <1>1, <1>2, Consts DEF Of

\* A thread goes on to another step of the same completion.
LEMMA MoveL ==
  ASSUME Struct, NEW w \in Workers, wpc[w] # "wait", NEW to \in (Uses \cup {"remove"}) \ {"add"},
         wpc' = [wpc EXCEPT ![w] = to], Mine(w).type \in Handles(to), wpc[w] \in Past => to \in Past,
         UNCHANGED <<ctx, wctx, gen, made>>
  PROVE  /\ Struct'
         /\ \A j \in Ids : Unadded(j)' => Unadded(j)
         /\ \A c \in Clients, T \in SUBSET Types :
              Pending(c, T)' = IF to \in Past THEN Pending(c, T) \ {wctx[w]} ELSE Pending(c, T)
<1>1. \A v \in Workers : wpc'[v] = IF v = w THEN to ELSE wpc[v]
  BY DEF Struct, TypeC
<1>2. wctx[w] \in Ids /\ wctx[w] # 0 /\ \A v \in Workers : wctx[v] = wctx[w] => v = w
  BY MineIs
<1>3. to \in Uses \cup {"remove"} /\ to # "wait"
  BY DEF Uses
<1>4. TypeC'
  BY <1>3 DEF Struct, TypeC
<1>5. Contexts'
  BY DEF Struct, Contexts
<1>6. Handling'
  BY <1>1, <1>2, <1>3 DEF Struct, Handling, Mine
<1>7. \A j \in Ids : Unadded(j)' => Unadded(j)
  BY <1>1, <1>2 DEF Unadded
<1>8. ASSUME NEW c \in Clients, NEW T \in SUBSET Types
      PROVE  Pending(c, T)' = IF to \in Past THEN Pending(c, T) \ {wctx[w]} ELSE Pending(c, T)
  <2>1. \A j \in Ids : j # wctx[w] =>
          ((\A v \in Workers : wctx[v] = j => wpc'[v] \notin Past) <=> (\A v \in Workers : wctx[v] = j => wpc[v] \notin Past))
    BY <1>1
  <2>2. (\A v \in Workers : wctx[v] = wctx[w] => wpc'[v] \notin Past) <=> to \notin Past
    BY <1>1, <1>2
  <2>3. (\A v \in Workers : wctx[v] = wctx[w] => wpc[v] \notin Past) <=> wpc[w] \notin Past
    BY <1>2
  <2>4. QED
    BY <1>2, <2>1, <2>2, <2>3 DEF Pending, Past
<1>9. QED
  BY <1>4, <1>5, <1>6, <1>7, <1>8 DEF Struct

\* The kernel ends an operation.
LEMMA CompleteL ==
  ASSUME Struct, NEW i \in Ids, ctx[i].st = "kernel", NEW st \in {"ok", "fail"},
         ctx' = [ctx EXCEPT ![i].st = st], UNCHANGED <<wpc, wctx, gen, made>>
  PROVE  /\ Struct'
         /\ \A j \in Ids : /\ ctx'[j].type = ctx[j].type /\ ctx'[j].client = ctx[j].client
                           /\ ctx'[j].gen = ctx[j].gen /\ ctx'[j].st = IF j = i THEN st ELSE ctx[j].st
         /\ \A j \in Ids : Unadded(j)' => Unadded(j)
         /\ \A c \in Clients, T \in SUBSET Types : Pending(c, T)' = Pending(c, T)
<1>1. \A j \in Ids : /\ ctx'[j].type = ctx[j].type /\ ctx'[j].client = ctx[j].client
                     /\ ctx'[j].gen = ctx[j].gen /\ ctx'[j].st = IF j = i THEN st ELSE ctx[j].st
  BY DEF Struct, TypeC
<1>2. TypeC'
  BY DEF Struct, TypeC
<1>3. \A w \in Workers : wctx[w] # i
  BY Consts DEF Struct, Handling
<1>4. Contexts'
  <2>1. ASSUME NEW j \in Ids, ctx'[j] # NoCtx
        PROVE  /\ ctx'[j].type # "none" /\ ctx'[j].st # "none" /\ ctx'[j].client \in Clients
               /\ ctx'[j].gen <= gen'[ctx'[j].client]
    <3>1. ctx[j] # NoCtx
      <4>1. CASE j = i
        BY <4>1, Consts
      <4>2. CASE j # i
        BY <2>1, <4>2 DEF Struct, TypeC
      <4>3. QED
        BY <4>1, <4>2
    <3>2. QED
      BY <1>1, <3>1 DEF Struct, Contexts
  <2>2. QED
    BY <2>1 DEF Struct, Contexts
<1>5. Handling'
  <2>1. \A w \in Workers : wctx[w] # 0 => wctx[w] \in Ids
    BY DEF Struct, TypeC
  <2>2. QED
    BY <1>1, <1>3, <2>1 DEF Struct, Handling
<1>6. \A j \in Ids : Unadded(j)' => Unadded(j)
  BY <1>1 DEF Unadded
<1>7. \A c \in Clients, T \in SUBSET Types : Pending(c, T)' = Pending(c, T)
  BY <1>1 DEF Pending
<1>8. QED
  BY <1>1, <1>2, <1>4, <1>5, <1>6, <1>7 DEF Struct

\* GetQueuedCompletionStatus.
LEMMA TakeL ==
  ASSUME Struct, NEW w \in Workers, wpc[w] = "wait", NEW i \in Ids, ctx[i].st \in {"ok", "fail"},
         ctx' = [ctx EXCEPT ![i].st = "held"], wctx' = [wctx EXCEPT ![w] = i],
         wpc' = [wpc EXCEPT ![w] = First(ctx[i])], UNCHANGED <<gen, made>>
  PROVE  /\ Struct'
         /\ \A j \in Ids : /\ ctx'[j].type = ctx[j].type /\ ctx'[j].client = ctx[j].client
                           /\ ctx'[j].gen = ctx[j].gen /\ ctx'[j].st = IF j = i THEN "held" ELSE ctx[j].st
         /\ \A j \in Ids : Unadded(j)' => Unadded(j)
         /\ \A c \in Clients, T \in SUBSET Types :
              Pending(c, T)' = IF First(ctx[i]) = "disconnect" THEN Pending(c, T) \ {i} ELSE Pending(c, T)
<1>1. \A j \in Ids : /\ ctx'[j].type = ctx[j].type /\ ctx'[j].client = ctx[j].client
                     /\ ctx'[j].gen = ctx[j].gen /\ ctx'[j].st = IF j = i THEN "held" ELSE ctx[j].st
  BY DEF Struct, TypeC
<1>2. \A v \in Workers : /\ wpc'[v] = IF v = w THEN First(ctx[i]) ELSE wpc[v]
                         /\ wctx'[v] = IF v = w THEN i ELSE wctx[v]
  BY DEF Struct, TypeC
<1>3. i # 0 /\ wctx[w] = 0 /\ \A v \in Workers : wctx[v] # i
  BY Consts DEF Struct, Handling
<1>4. ctx[i] # NoCtx /\ ctx[i].type \in Types
  <2>1. ctx[i] # NoCtx
    BY Consts
  <2>2. QED
    BY <2>1 DEF Struct, TypeC, Contexts
<1>5. /\ First(ctx[i]) \in {"add", "receive", "deliver", "sent", "preDisconnect", "remove", "disconnect"}
      /\ ctx[i].type \in Handles(First(ctx[i])) /\ (First(ctx[i]) = "add" <=> ctx[i].type = "ACCEPT")
  BY <1>4 DEF First, Types, Handles
<1>6. First(ctx[i]) \in Uses \cup {"wait", "remove"} /\ First(ctx[i]) # "wait"
      /\ (First(ctx[i]) \in Past <=> First(ctx[i]) = "disconnect")
  BY <1>5 DEF Uses, Past
<1> HIDE DEF First
<1>7. TypeC'
  BY <1>6 DEF Struct, TypeC
<1>8. Contexts'
  <2>1. ASSUME NEW j \in Ids, ctx'[j] # NoCtx
        PROVE  /\ ctx'[j].type # "none" /\ ctx'[j].st # "none" /\ ctx'[j].client \in Clients
               /\ ctx'[j].gen <= gen'[ctx'[j].client]
    <3>1. ctx[j] # NoCtx
      <4>1. CASE j = i
        BY <4>1, Consts
      <4>2. CASE j # i
        BY <2>1, <4>2 DEF Struct, TypeC
      <4>3. QED
        BY <4>1, <4>2
    <3>2. QED
      BY <1>1, <3>1 DEF Struct, Contexts
  <2>2. QED
    BY <2>1 DEF Struct, Contexts
<1>9. Handling'
  <2>1. \A v \in Workers : wctx'[v] # 0 => wctx'[v] \in Ids
    BY <1>2 DEF Struct, TypeC
  <2>2. ASSUME NEW v \in Workers PROVE wctx'[v] = 0 <=> wpc'[v] = "wait"
    BY <1>2, <1>3, <1>6 DEF Struct, Handling
  <2>3. ASSUME NEW v \in Workers, wctx'[v] # 0
        PROVE  ctx'[wctx'[v]].st = "held" /\ ctx'[wctx'[v]].type \in Handles(wpc'[v])
    <3>1. CASE v = w
      BY <1>1, <1>2, <1>5, <3>1
    <3>2. CASE v # w
      BY <1>1, <1>2, <2>1, <2>3, <3>2 DEF Struct, Handling
    <3>3. QED
      BY <3>1, <3>2
  <2>4. \A u, v \in Workers : wctx'[u] = wctx'[v] /\ wctx'[u] # 0 => u = v
    BY <1>2, <1>3 DEF Struct, Handling
  <2>5. QED
    BY <2>2, <2>3, <2>4 DEF Handling
<1>10. \A j \in Ids : Unadded(j)' => Unadded(j)
  BY <1>1, <1>2, <1>3, Consts DEF Unadded
<1>11. ASSUME NEW c \in Clients, NEW T \in SUBSET Types
       PROVE  Pending(c, T)' = IF First(ctx[i]) = "disconnect" THEN Pending(c, T) \ {i} ELSE Pending(c, T)
  <2>1. \A j \in Ids : j # i =>
          ((\A v \in Workers : wctx'[v] = j => wpc'[v] \notin Past) <=> (\A v \in Workers : wctx[v] = j => wpc[v] \notin Past))
    BY <1>2, <1>3, Consts
  <2>2. (\A v \in Workers : wctx'[v] = i => wpc'[v] \notin Past) <=> First(ctx[i]) \notin Past
    BY <1>2, <1>3
  <2>3. \A v \in Workers : wctx[v] = i => wpc[v] \notin Past
    BY <1>3
  <2>4. QED
    BY <1>1, <1>6, <2>1, <2>2, <2>3 DEF Pending, Past
<1>12. QED
  BY <1>1, <1>7, <1>8, <1>9, <1>10, <1>11 DEF Struct

PostsAndGoes(w, k, type, to) ==
  /\ wpc[w] \notin Past \cup {"wait"} /\ wpc' = [wpc EXCEPT ![w] = to] /\ Mine(w).type \in Handles(to)
  /\ ctx' = [j \in Ids |-> IF j = k THEN Posted(type, Mine(w).client, Mine(w).gen) ELSE ctx[j]]
  /\ UNCHANGED <<wctx, gen, made>>

\* A thread posts the next operation of its client and goes on.
LEMMA PostMoveL ==
  ASSUME Struct, NEW w \in Workers, NEW to \in Uses \ {"add"}, NEW k \in FreeIds, NEW type \in Types \ {"ACCEPT"},
         PostsAndGoes(w, k, type, to)
  PROVE  /\ Struct' /\ k \in Ids
         /\ \A j \in Ids : j # k => ctx'[j] = ctx[j]
         /\ ctx'[k] = Posted(type, Mine(w).client, Mine(w).gen)
         /\ \A j \in Ids : Unadded(j)' => Unadded(j) /\ j # k
         /\ \A c \in Clients, T \in SUBSET Types :
              Pending(c, T)' = (Pending(c, T) \ (IF to \in Past THEN {wctx[w]} ELSE {}))
                               \cup (IF type \in T /\ Of(wctx[w], c) THEN {k} ELSE {})
<1> DEFINE x == Mine(w)
           new == Posted(type, x.client, x.gen)
<1> USE DEF PostsAndGoes
<1>1. \A v \in Workers : wpc'[v] = IF v = w THEN to ELSE wpc[v]
  BY DEF Struct, TypeC
<1>2. /\ wctx[w] \in Ids /\ wctx[w] # 0 /\ x.client \in Clients /\ x.gen \in 0..MaxMade
      /\ x.gen <= gen[x.client] /\ \A v \in Workers : wctx[v] = wctx[w] => v = w
  BY MineIs
<1>3. to \in Uses /\ to # "wait"
  BY DEF Uses
<1>4. k \in Ids /\ (\A v \in Workers : wctx[v] # k) /\ (\A c \in Clients : ~Of(k, c)) /\ ctx[k].type = "none"
  BY FreeNobodys
<1>5. /\ new.type = type /\ new.client = x.client /\ new.gen = x.gen /\ new.st = "kernel" /\ type # "none"
      /\ new \in [type : {"none"} \cup Types, client : Clients \cup {None}, gen : 0..MaxMade,
                  st : {"none", "kernel", "ok", "fail", "held"}]
  BY <1>2, PostedFields
<1> HIDE DEF new
<1>6. (\A j \in Ids : j # k => ctx'[j] = ctx[j]) /\ ctx'[k] = new
  BY <1>4 DEF new
<1>7. TypeC'
  <2>1. ctx' \in [Ids -> [type : {"none"} \cup Types, client : Clients \cup {None}, gen : 0..MaxMade,
                          st : {"none", "kernel", "ok", "fail", "held"}]]
    BY <1>5 DEF Struct, TypeC, new
  <2>2. QED
    BY <1>3, <2>1 DEF Struct, TypeC
<1>8. Contexts'
  BY <1>2, <1>5, <1>6 DEF Struct, Contexts
<1>9. Handling'
  <2>1. \A v \in Workers : wctx[v] # 0 => wctx[v] \in Ids /\ ctx'[wctx[v]] = ctx[wctx[v]]
    BY <1>4, <1>6 DEF Struct, TypeC
  <2>2. QED
    BY <1>1, <1>2, <1>3, <2>1 DEF Struct, Handling, Mine
<1>10. \A j \in Ids : Unadded(j)' => Unadded(j) /\ j # k
  BY <1>1, <1>2, <1>5, <1>6 DEF Unadded
<1>11. ASSUME NEW c \in Clients, NEW T \in SUBSET Types
       PROVE  Pending(c, T)' = (Pending(c, T) \ (IF to \in Past THEN {wctx[w]} ELSE {}))
                               \cup (IF type \in T /\ Of(wctx[w], c) THEN {k} ELSE {})
  <2>1. \A j \in Ids : j # wctx[w] =>
          ((\A v \in Workers : wctx[v] = j => wpc'[v] \notin Past) <=> (\A v \in Workers : wctx[v] = j => wpc[v] \notin Past))
    BY <1>1
  <2>2. (\A v \in Workers : wctx[v] = wctx[w] => wpc'[v] \notin Past) <=> to \notin Past
    BY <1>1, <1>2
  <2>3. \A v \in Workers : wctx[v] = wctx[w] => wpc[v] \notin Past
    BY <1>2
  <2>4. wctx[w] # k /\ k \notin Pending(c, T)
    BY <1>4 DEF Pending, Types
  <2>5. k \in Pending(c, T)' <=> type \in T /\ Of(wctx[w], c)
    BY <1>4, <1>5, <1>6 DEF Pending, Of, Mine
  <2>6. \A j \in Ids : j # k => (j \in Pending(c, T)' <=> j \in Pending(c, T) /\ (j = wctx[w] => to \notin Past))
    BY <1>6, <2>1, <2>2, <2>3 DEF Pending, Past
  <2>7. Pending(c, T) \subseteq Ids /\ Pending(c, T)' \subseteq Ids
    BY DEF Pending
  <2>8. QED
    BY <1>4, <2>4, <2>5, <2>6, <2>7
<1>12. QED
  BY <1>4, <1>6, <1>7, <1>8, <1>9, <1>10, <1>11 DEF Struct, new

Replaces(w, rec) ==
  /\ wpc[w] # "wait" /\ wpc' = [wpc EXCEPT ![w] = "wait"] /\ wctx' = [wctx EXCEPT ![w] = 0]
  /\ rec = NoCtx \/ \E type \in Types \ {"ACCEPT"} : rec = Posted(type, Mine(w).client, Mine(w).gen)
  /\ ctx' = [ctx EXCEPT ![wctx[w]] = rec]
  /\ UNCHANGED <<gen, made>>

\* A thread is done: its context is destroyed or was posted again.
LEMMA ReplaceL ==
  ASSUME Struct, NEW w \in Workers, NEW rec, Replaces(w, rec)
  PROVE  /\ Struct'
         /\ \A j \in Ids : j # wctx[w] => ctx'[j] = ctx[j]
         /\ ctx'[wctx[w]] = rec
         /\ \A j \in Ids : Unadded(j)' => Unadded(j) /\ j # wctx[w]
         /\ \A c \in Clients, T \in SUBSET Types :
              Pending(c, T)' = (Pending(c, T) \ {wctx[w]})
                               \cup (IF rec.type \in T /\ Of(wctx[w], c) THEN {wctx[w]} ELSE {})
<1> DEFINE x == Mine(w)
           i == wctx[w]
<1> USE DEF Replaces
<1>1. \A v \in Workers : /\ wpc'[v] = IF v = w THEN "wait" ELSE wpc[v]
                         /\ wctx'[v] = IF v = w THEN 0 ELSE wctx[v]
  BY DEF Struct, TypeC
<1>2. /\ i \in Ids /\ i # 0 /\ x.client \in Clients /\ x.gen \in 0..MaxMade
      /\ x.gen <= gen[x.client] /\ \A v \in Workers : wctx[v] = i => v = w
  BY MineIs
<1>3. /\ rec \in [type : {"none"} \cup Types, client : Clients \cup {None}, gen : 0..MaxMade,
                  st : {"none", "kernel", "ok", "fail", "held"}]
      /\ rec.type # "ACCEPT"
      /\ rec # NoCtx => rec.type \in Types /\ rec.st # "none" /\ rec.client = x.client /\ rec.gen = x.gen
      /\ rec.type \in Types => rec # NoCtx
  <2>1. CASE rec = NoCtx
    BY <2>1, Consts DEF Types
  <2>2. CASE rec # NoCtx
    <3>1. PICK type \in Types \ {"ACCEPT"} : rec = Posted(type, x.client, x.gen)
      BY <2>2
    <3>2. QED
      BY <1>2, <2>2, <3>1, PostedFields
  <2>3. QED
    BY <2>1, <2>2
<1>4. (\A j \in Ids : j # i => ctx'[j] = ctx[j]) /\ ctx'[i] = rec
  BY <1>2 DEF Struct, TypeC
<1>5. TypeC'
  <2>1. ctx' \in [Ids -> [type : {"none"} \cup Types, client : Clients \cup {None}, gen : 0..MaxMade,
                          st : {"none", "kernel", "ok", "fail", "held"}]]
    BY <1>3 DEF Struct, TypeC
  <2>2. QED
    BY <2>1 DEF Struct, TypeC
<1>6. Contexts'
  BY <1>2, <1>3, <1>4 DEF Struct, Contexts, Types
<1>7. Handling'
  <2>1. \A v \in Workers : v # w /\ wctx[v] # 0 => wctx[v] \in Ids /\ ctx'[wctx[v]] = ctx[wctx[v]]
    BY <1>2, <1>4 DEF Struct, TypeC
  <2>2. QED
    BY <1>1, <1>2, <2>1 DEF Struct, Handling
<1>8. \A j \in Ids : Unadded(j)' => Unadded(j) /\ j # i
  BY <1>1, <1>2, <1>3, <1>4 DEF Unadded
<1>9. ASSUME NEW c \in Clients, NEW T \in SUBSET Types
      PROVE  Pending(c, T)' = (Pending(c, T) \ {i}) \cup (IF rec.type \in T /\ Of(i, c) THEN {i} ELSE {})
  <2>1. \A j \in Ids : j # i =>
          ((\A v \in Workers : wctx'[v] = j => wpc'[v] \notin Past) <=> (\A v \in Workers : wctx[v] = j => wpc[v] \notin Past))
    BY <1>1, Consts
  <2>2. \A v \in Workers : wctx'[v] # i
    BY <1>1, <1>2
  <2>3. \A j \in Ids : j # i => (j \in Pending(c, T)' <=> j \in Pending(c, T))
    BY <1>4, <2>1 DEF Pending, Past
  <2>4. i \in Pending(c, T)' <=> rec.type \in T /\ Of(i, c)
    BY <1>2, <1>3, <1>4, <2>2 DEF Pending, Of, Mine
  <2>5. Pending(c, T) \subseteq Ids /\ Pending(c, T)' \subseteq Ids
    BY DEF Pending
  <2>6. QED
    BY <1>2, <2>3, <2>4, <2>5
<1>10. QED
  BY <1>4, <1>5, <1>6, <1>7, <1>8, <1>9 DEF Struct

PostsAndEnds(w, k, type) ==
  /\ wpc[w] # "wait" /\ wpc' = [wpc EXCEPT ![w] = "wait"] /\ wctx' = [wctx EXCEPT ![w] = 0]
  /\ ctx' = [j \in Ids |-> IF j = wctx[w] THEN NoCtx
                            ELSE IF j = k THEN Posted(type, Mine(w).client, Mine(w).gen) ELSE ctx[j]]
  /\ UNCHANGED <<gen, made>>

\* A thread posts the next operation of its client and is done.
LEMMA PostDoneL ==
  ASSUME Struct, NEW w \in Workers, NEW k \in FreeIds, NEW type \in Types \ {"ACCEPT"}, PostsAndEnds(w, k, type)
  PROVE  /\ Struct' /\ k \in Ids /\ k # wctx[w]
         /\ \A j \in Ids : j # k /\ j # wctx[w] => ctx'[j] = ctx[j]
         /\ ctx'[k] = Posted(type, Mine(w).client, Mine(w).gen) /\ ctx'[wctx[w]] = NoCtx
         /\ \A j \in Ids : Unadded(j)' => Unadded(j) /\ j # k /\ j # wctx[w]
         /\ \A c \in Clients, T \in SUBSET Types :
              Pending(c, T)' = (Pending(c, T) \ {wctx[w]})
                               \cup (IF type \in T /\ Of(wctx[w], c) THEN {k} ELSE {})
<1> DEFINE x == Mine(w)
           i == wctx[w]
           new == Posted(type, x.client, x.gen)
<1> USE DEF PostsAndEnds
<1>1. \A v \in Workers : /\ wpc'[v] = IF v = w THEN "wait" ELSE wpc[v]
                         /\ wctx'[v] = IF v = w THEN 0 ELSE wctx[v]
  BY DEF Struct, TypeC
<1>2. /\ i \in Ids /\ i # 0 /\ x.client \in Clients /\ x.gen \in 0..MaxMade
      /\ x.gen <= gen[x.client] /\ \A v \in Workers : wctx[v] = i => v = w
  BY MineIs
<1>3. k \in Ids /\ k # i /\ (\A v \in Workers : wctx[v] # k) /\ (\A c \in Clients : ~Of(k, c)) /\ ctx[k].type = "none"
  BY FreeNobodys
<1>4. /\ new.type = type /\ new.client = x.client /\ new.gen = x.gen /\ new.st = "kernel" /\ type # "none"
      /\ new \in [type : {"none"} \cup Types, client : Clients \cup {None}, gen : 0..MaxMade,
                  st : {"none", "kernel", "ok", "fail", "held"}]
  BY <1>2, PostedFields
<1> HIDE DEF new
<1>5. (\A j \in Ids : j # k /\ j # i => ctx'[j] = ctx[j]) /\ ctx'[k] = new /\ ctx'[i] = NoCtx
  BY <1>2, <1>3 DEF new
<1>6. TypeC'
  <2>1. ctx' \in [Ids -> [type : {"none"} \cup Types, client : Clients \cup {None}, gen : 0..MaxMade,
                          st : {"none", "kernel", "ok", "fail", "held"}]]
    BY <1>4, Consts DEF Struct, TypeC, new
  <2>2. QED
    BY <2>1 DEF Struct, TypeC
<1>7. Contexts'
  BY <1>2, <1>4, <1>5 DEF Struct, Contexts
<1>8. Handling'
  <2>1. \A v \in Workers : v # w /\ wctx[v] # 0 => wctx[v] \in Ids /\ ctx'[wctx[v]] = ctx[wctx[v]]
    BY <1>2, <1>3, <1>5 DEF Struct, TypeC
  <2>2. QED
    BY <1>1, <1>2, <2>1 DEF Struct, Handling
<1>9. \A j \in Ids : Unadded(j)' => Unadded(j) /\ j # k /\ j # i
  BY <1>1, <1>2, <1>3, <1>4, <1>5, Consts DEF Unadded
<1>10. ASSUME NEW c \in Clients, NEW T \in SUBSET Types
       PROVE  Pending(c, T)' = (Pending(c, T) \ {i}) \cup (IF type \in T /\ Of(i, c) THEN {k} ELSE {})
  <2>1. \A j \in Ids : j # i =>
          ((\A v \in Workers : wctx'[v] = j => wpc'[v] \notin Past) <=> (\A v \in Workers : wctx[v] = j => wpc[v] \notin Past))
    BY <1>1, Consts
  <2>2. \A v \in Workers : wctx'[v] # k
    BY <1>1, <1>3, Consts
  <2>3. \A j \in Ids : j # i /\ j # k => (j \in Pending(c, T)' <=> j \in Pending(c, T))
    BY <1>5, <2>1 DEF Pending, Past
  <2>4. k \in Pending(c, T)' <=> type \in T /\ Of(i, c)
    BY <1>3, <1>4, <1>5, <2>2 DEF Pending, Of, Mine
  <2>5. i \notin Pending(c, T)' /\ k \notin Pending(c, T)
    BY <1>3, <1>5, Consts DEF Pending, Types
  <2>6. Pending(c, T) \subseteq Ids /\ Pending(c, T)' \subseteq Ids
    BY DEF Pending
  <2>7. QED
    BY <1>2, <1>3, <2>3, <2>4, <2>5, <2>6
<1>11. QED
  BY <1>3, <1>5, <1>6, <1>7, <1>8, <1>9, <1>10 DEF Struct, new
-----------------------------------------------------------------------------
(* What keeps the parts of the invariant.                                  *)

\* Nothing happens to a client that AddClient has not seen: c0 is the one that
\* the step is about.
LEMMA AcceptKept ==
  ASSUME IInv, stale = None, NEW c0, run # "top" => run # c0,
         \A c \in Clients : c # c0 =>
           (c \in live' <=> c \in live) /\ clients'[c] = clients[c] /\ sendLock'[c] = sendLock[c],
         ClientsAreLive', UNCHANGED <<gen, run>>,
         \A j \in Ids : Unadded(j)' => /\ Unadded(j) /\ ctx[j].client # c0
                                       /\ ctx'[j].client = ctx[j].client /\ ctx'[j].gen = ctx[j].gen,
         \A j \in Ids, c \in Clients : c # c0 /\ Of(j, c)' => Of(j, c)
  PROVE  Accepting'
<1>1. run \in Clients \cup {"top"} /\ \A i \in Ids : Unadded(i) => ctx[i].client \in Clients
  <2>1. \A i \in Ids : Unadded(i) => ctx[i] # NoCtx
    BY Consts DEF Unadded
  <2>2. QED
    BY <2>1 DEF IInv, TypeOK, Contexts
<1>2. run # "top" => Untouched(run)' /\ \A i \in Ids : ~Of(i, run)'
  <2>1. ASSUME run # "top" PROVE Untouched(run) /\ (\A i \in Ids : ~Of(i, run)) /\ run \in Clients /\ run # c0
    BY <1>1, <2>1 DEF IInv, Accepting
  <2>2. QED
    BY <2>1 DEF Untouched
<1>3. ASSUME NEW i \in Ids, Unadded(i)'
      PROVE  /\ Untouched(ctx[i].client)' /\ ctx'[i].client = ctx[i].client /\ Of(i, ctx[i].client)'
             /\ run # ctx[i].client /\ \A j \in Ids : Of(j, ctx[i].client)' => j = i
  <2>1. /\ Unadded(i) /\ ctx[i].client \in Clients /\ ctx[i].client # c0
        /\ ctx'[i].client = ctx[i].client /\ ctx'[i].gen = ctx[i].gen
    BY <1>1, <1>3
  <2>2. /\ Untouched(ctx[i].client) /\ Of(i, ctx[i].client) /\ run # ctx[i].client
        /\ \A j \in Ids : Of(j, ctx[i].client) => j = i
    BY <2>1 DEF IInv, Accepting
  <2>3. Untouched(ctx[i].client)'
    BY <2>1, <2>2 DEF Untouched
  <2>4. Of(i, ctx[i].client)'
    BY <2>1, <2>2 DEF Of
  <2>5. QED
    BY <2>1, <2>2, <2>3, <2>4
<1>4. QED
  BY <1>2, <1>3 DEF Accepting, Untouched, Of

\* Clients are addresses.
LEMMA NoneIsNobody ==
  ASSUME IInv
  PROVE  (run # "top" => run # None) /\ \A j \in Ids : Unadded(j) => ctx[j].client # None
<1>1. \A j \in Ids : Unadded(j) => ctx[j] # NoCtx
  BY Consts DEF Unadded
<1>2. QED
  BY <1>1, Consts DEF IInv, TypeOK, Contexts

\* The types that Receiving and Sending are about.
LEMMA TypeSets == {"SEND"} \in SUBSET Types /\ Chain \in SUBSET Types
BY DEF Types, Chain

\* The client that a thread handles after AddClient.
LEMMA Busy ==
  ASSUME IInv, stale = None, NEW w \in Workers, wpc[w] \notin {"wait", "add"}, Good(Mine(w))
  PROVE  /\ Mine(w).client \in Clients /\ Mine(w).client \in live
         /\ run # "top" => run # Mine(w).client
         /\ \A i \in Ids : Unadded(i) => ctx[i].client # Mine(w).client
         /\ \A c \in Clients : Of(wctx[w], c) <=> c = Mine(w).client
<1>1. Struct
  BY TypesOK
<1>2. wctx[w] \in Ids /\ Mine(w).client \in Clients
  BY <1>1, MineIs
<1>3. Mine(w).client \in live /\ \A c \in Clients : Of(wctx[w], c) <=> c = Mine(w).client
  BY DEF Good, Of, Mine
<1>4. ~Unadded(wctx[w])
  BY <1>2 DEF Unadded
<1>5. QED
  BY <1>2, <1>3, <1>4 DEF IInv, Accepting

\* No new link of a chain.
LEMMA ReceivingKept ==
  ASSUME Receiving, stale = None, \A c \in Clients : Pending(c, Chain)' \subseteq Pending(c, Chain)
  PROVE  Receiving'
BY DEF Receiving

\* The next link of a chain takes the place of the last one.
LEMMA ChainStep ==
  ASSUME IInv, stale = None, NEW w \in Workers, wpc[w] \notin Past \cup {"wait"}, Mine(w).type \in Chain, NEW k,
         \A c \in Clients : Pending(c, Chain)' = (Pending(c, Chain) \ {wctx[w]})
                                                 \cup (IF Of(wctx[w], c) THEN {k} ELSE {})
  PROVE  Receiving'
<1>1. Struct
  BY TypesOK
<1>2. wctx[w] \in Ids /\ \A v \in Workers : wctx[v] = wctx[w] => v = w
  BY <1>1, MineIs
<1>3. ASSUME NEW c \in Clients, NEW i \in Pending(c, Chain)', NEW j \in Pending(c, Chain)' PROVE i = j
  <2>1. CASE Of(wctx[w], c)
    <3>1. wctx[w] \in Pending(c, Chain)
      BY <1>2, <2>1 DEF Pending, Of, Mine, Past
    <3>2. Pending(c, Chain) = {wctx[w]}
      BY <3>1 DEF IInv, Receiving
    <3>3. QED
      BY <1>3, <2>1, <3>2
  <2>2. CASE ~Of(wctx[w], c)
    BY <1>3, <2>2 DEF IInv, Receiving
  <2>3. QED
    BY <2>1, <2>2
<1>4. QED
  BY <1>3 DEF Receiving

\* What a thread does not count as outstanding.
LEMMA NotPending ==
  ASSUME NEW w \in Workers, NEW T, wpc[w] \in Past \/ Mine(w).type \notin T
  PROVE  \A c \in Clients : wctx[w] \notin Pending(c, T)
BY DEF Pending, Past, Mine

\* No send begins or ends.
LEMMA SendingKept ==
  ASSUME IInv, stale = None, live' \subseteq live,
         \A c \in live' : /\ sendLock'[c] = sendLock[c] /\ broken'[c] = broken[c]
                          /\ Pending(c, {"SEND"})' = Pending(c, {"SEND"})
  PROVE  Sending'
BY DEF IInv, Sending

\* The rest of the types.
LEMMA TypeKept ==
  ASSUME TypeOK, Struct', live' \subseteq Clients, conn' \in [Clients -> {"none", "up", "down"}],
         sendLock' \in [Clients -> BOOLEAN], broken' \in [Clients -> BOOLEAN], clients' \in [Clients -> Nat],
         UNCHANGED <<current, run, runRead, raced, made>>, busy' \subseteq Clients,
         stale' \in Clients \cup {None}, wres' \in [Workers -> BOOLEAN], sends' \in 0..MaxSends
  PROVE  TypeOK' /\ Contexts' /\ Handling'
BY DEF TypeOK, Struct, TypeC, Types
-----------------------------------------------------------------------------
(* The steps.                                                              *)

\* Data arrived or was sent.
LEMMA IoDoneI == ASSUME IInv, NEW i \in Ids, IoDone(i) PROVE IInv'
<1>1. /\ stale = None /\ ctx[i].st = "kernel" /\ ctx' = [ctx EXCEPT ![i].st = "ok"]
      /\ UNCHANGED <<live, gen, clients, conn, sendLock, broken, current, run, runRead, raced, made, wpc, wctx, wres,
                     sends, busy, stale>>
  BY DEF IoDone, InKernel, Complete, objects, counter, buffer, calls
<1>2. Struct /\ TypeOK
  BY TypesOK DEF IInv
<1>3. /\ Struct'
      /\ \A j \in Ids : /\ ctx'[j].type = ctx[j].type /\ ctx'[j].client = ctx[j].client
                        /\ ctx'[j].gen = ctx[j].gen /\ ctx'[j].st = IF j = i THEN "ok" ELSE ctx[j].st
      /\ \A j \in Ids : Unadded(j)' => Unadded(j)
      /\ \A c \in Clients, T \in SUBSET Types : Pending(c, T)' = Pending(c, T)
  BY <1>1, <1>2, CompleteL
<1>4. TypeOK' /\ Contexts' /\ Handling'
  BY <1>1, <1>2, <1>3, TypeKept DEF TypeOK
<1>5. \A j \in Ids, c \in Clients : Of(j, c)' <=> Of(j, c)
  BY <1>1, <1>3 DEF Of
<1>6. Accepting'
  <2>1. ClientsAreLive'
    BY <1>1 DEF IInv, Accepting, ClientsAreLive
  <2>2. QED
    BY <1>1, <1>3, <1>5, <2>1, NoneIsNobody, AcceptKept
<1>7. CountExact'
  BY <1>1 DEF IInv, CountExact
<1>8. Receiving'
  BY <1>1, <1>3, TypeSets, ReceivingKept DEF IInv
<1>9. Sending'
  <2>1. live \subseteq Clients
    BY <1>2 DEF TypeOK
  <2>2. QED
    BY <1>1, <1>3, <1>5, <2>1, TypeSets, SendingKept
<1>10. QED
  BY <1>4, <1>6, <1>7, <1>8, <1>9 DEF IInv

\* The connection is dead, or the send had no bytes.
LEMMA IoFailedI == ASSUME IInv, NEW i \in Ids, IoFailed(i) \/ EmptySent(i) PROVE IInv'
<1>1. /\ stale = None /\ ctx[i].st = "kernel" /\ ctx' = [ctx EXCEPT ![i].st = "fail"]
      /\ UNCHANGED <<live, gen, clients, conn, sendLock, broken, current, run, runRead, raced, made, wpc, wctx, wres,
                     sends, busy, stale>>
  BY DEF IoFailed, EmptySent, InKernel, Complete, objects, counter, buffer, calls
<1>2. Struct /\ TypeOK
  BY TypesOK DEF IInv
<1>3. /\ Struct'
      /\ \A j \in Ids : /\ ctx'[j].type = ctx[j].type /\ ctx'[j].client = ctx[j].client
                        /\ ctx'[j].gen = ctx[j].gen /\ ctx'[j].st = IF j = i THEN "fail" ELSE ctx[j].st
      /\ \A j \in Ids : Unadded(j)' => Unadded(j)
      /\ \A c \in Clients, T \in SUBSET Types : Pending(c, T)' = Pending(c, T)
  BY <1>1, <1>2, CompleteL
<1>4. TypeOK' /\ Contexts' /\ Handling'
  BY <1>1, <1>2, <1>3, TypeKept DEF TypeOK
<1>5. \A j \in Ids, c \in Clients : Of(j, c)' <=> Of(j, c)
  BY <1>1, <1>3 DEF Of
<1>6. Accepting'
  <2>1. ClientsAreLive'
    BY <1>1 DEF IInv, Accepting, ClientsAreLive
  <2>2. QED
    BY <1>1, <1>3, <1>5, <2>1, NoneIsNobody, AcceptKept
<1>7. CountExact'
  BY <1>1 DEF IInv, CountExact
<1>8. Receiving'
  BY <1>1, <1>3, TypeSets, ReceivingKept DEF IInv
<1>9. Sending'
  <2>1. live \subseteq Clients
    BY <1>2 DEF TypeOK
  <2>2. QED
    BY <1>1, <1>3, <1>5, <2>1, TypeSets, SendingKept
<1>10. QED
  BY <1>4, <1>6, <1>7, <1>8, <1>9 DEF IInv

\* DisconnectEx is done.
LEMMA DisconnectDoneI == ASSUME IInv, NEW i \in Ids, DisconnectDone(i) PROVE IInv'
<1>1. /\ stale = None /\ ctx[i].st = "kernel" /\ ctx' = [ctx EXCEPT ![i].st = "ok"]
      /\ conn' = conn \/ conn' = [conn EXCEPT ![ctx[i].client] = "down"]
      /\ UNCHANGED <<live, gen, clients, sendLock, broken, current, run, runRead, raced, made, wpc, wctx, wres,
                     sends, busy, stale>>
  BY DEF DisconnectDone, InKernel, Complete, objects, counter, buffer, calls
<1>2. Struct /\ TypeOK
  BY TypesOK DEF IInv
<1>3. /\ Struct'
      /\ \A j \in Ids : /\ ctx'[j].type = ctx[j].type /\ ctx'[j].client = ctx[j].client
                        /\ ctx'[j].gen = ctx[j].gen /\ ctx'[j].st = IF j = i THEN "ok" ELSE ctx[j].st
      /\ \A j \in Ids : Unadded(j)' => Unadded(j)
      /\ \A c \in Clients, T \in SUBSET Types : Pending(c, T)' = Pending(c, T)
  BY <1>1, <1>2, CompleteL
<1>4. conn' \in [Clients -> {"none", "up", "down"}] /\ \A c \in Clients : conn'[c] \in {conn[c], "down"}
  BY <1>1, <1>2 DEF TypeOK
<1>5. TypeOK' /\ Contexts' /\ Handling'
  BY <1>1, <1>2, <1>3, <1>4, TypeKept DEF TypeOK
<1>6. \A j \in Ids, c \in Clients : Of(j, c)' <=> Of(j, c)
  BY <1>1, <1>3 DEF Of
<1>7. Accepting'
  <2>1. ClientsAreLive'
    BY <1>1 DEF IInv, Accepting, ClientsAreLive
  <2>2. QED
    BY <1>1, <1>3, <1>6, <2>1, NoneIsNobody, AcceptKept
<1>8. CountExact'
  BY <1>1 DEF IInv, CountExact
<1>9. Receiving'
  BY <1>1, <1>3, TypeSets, ReceivingKept DEF IInv
<1>10. Sending'
  <2>1. live \subseteq Clients
    BY <1>2 DEF TypeOK
  <2>2. QED
    BY <1>1, <1>3, <1>4, <1>6, <2>1, TypeSets, SendingKept
<1>11. QED
  BY <1>5, <1>7, <1>8, <1>9, <1>10 DEF IInv

\* AcceptEx is done.
LEMMA AcceptDoneI == ASSUME IInv, NEW i \in Ids, AcceptDone(i) PROVE IInv'
<1> DEFINE a == ctx[i].client
<1>1. /\ stale = None /\ ctx[i].st = "kernel" /\ ctx[i].type = "ACCEPT" /\ ctx' = [ctx EXCEPT ![i].st = "ok"]
      /\ conn' = [conn EXCEPT ![a] = "up"]
      /\ UNCHANGED <<live, gen, clients, sendLock, broken, current, run, runRead, raced, made, wpc, wctx, wres,
                     sends, busy, stale>>
  BY DEF AcceptDone, InKernel, Complete, objects, counter, buffer, calls
<1>2. Struct /\ TypeOK
  BY TypesOK DEF IInv
<1>3. /\ Struct'
      /\ \A j \in Ids : /\ ctx'[j].type = ctx[j].type /\ ctx'[j].client = ctx[j].client
                        /\ ctx'[j].gen = ctx[j].gen /\ ctx'[j].st = IF j = i THEN "ok" ELSE ctx[j].st
      /\ \A j \in Ids : Unadded(j)' => Unadded(j)
      /\ \A c \in Clients, T \in SUBSET Types : Pending(c, T)' = Pending(c, T)
  BY <1>1, <1>2, CompleteL
<1>4. conn' \in [Clients -> {"none", "up", "down"}] /\ \A c \in Clients : c # a => conn'[c] = conn[c]
  BY <1>1, <1>2 DEF TypeOK
<1>5. TypeOK' /\ Contexts' /\ Handling'
  BY <1>1, <1>2, <1>3, <1>4, TypeKept DEF TypeOK
<1>6. \A j \in Ids, c \in Clients : Of(j, c)' <=> Of(j, c)
  BY <1>1, <1>3 DEF Of
<1>7. Accepting'
  <2>1. ClientsAreLive'
    BY <1>1 DEF IInv, Accepting, ClientsAreLive
  <2>2. QED
    BY <1>1, <1>3, <1>6, <2>1, NoneIsNobody, AcceptKept
<1>8. CountExact'
  BY <1>1 DEF IInv, CountExact
<1>9. Receiving'
  BY <1>1, <1>3, TypeSets, ReceivingKept DEF IInv
<1>10. Sending'
  <2>1. live \subseteq Clients
    BY <1>2 DEF TypeOK
  <2>2. QED
    BY <1>1, <1>3, <2>1, TypeSets, SendingKept
<1>11. QED
  BY <1>5, <1>7, <1>8, <1>9, <1>10 DEF IInv

\* The peer closes or resets the connection.
LEMMA PeerClosesI == ASSUME IInv, NEW a \in Clients, PeerCloses(a) PROVE IInv'
<1>1. /\ stale = None /\ conn' = [conn EXCEPT ![a] = "down"]
      /\ UNCHANGED <<live, gen, clients, sendLock, broken, current, run, runRead, raced, made, ctx, wpc, wctx, wres,
                     sends, busy, stale>>
  BY DEF PeerCloses, objects, counter, buffer, calls
<1>2. TypeOK' /\ \A c \in Clients : conn'[c] \in {conn[c], "down"}
  BY <1>1 DEF IInv, TypeOK
<1>3. Contexts' /\ Handling'
  BY <1>1 DEF IInv, Contexts, Handling
<1>4. Accepting'
  BY <1>1 DEF IInv, Accepting, ClientsAreLive, Untouched, Unadded, Of
<1>5. CountExact'
  BY <1>1 DEF IInv, CountExact
<1>6. \A c, T : Pending(c, T)' = Pending(c, T)
  BY <1>1 DEF Pending
<1>7. Receiving'
  BY <1>1, <1>6 DEF IInv, Receiving
<1>8. Sending'
  <2>1. live \subseteq Clients
    BY DEF IInv, TypeOK
  <2>2. QED
    BY <1>1, <1>2, <1>6, <2>1, SendingKept DEF Of
<1>9. QED
  BY <1>2, <1>3, <1>4, <1>5, <1>7, <1>8 DEF IInv

\* Nothing is promised after a pointer dangled.
LEMMA DangleI == ASSUME IInv, NEW w \in Workers, NEW step \in Uses, Dangle(w, step) PROVE IInv'
<1>1. /\ wpc[w] = step /\ stale' = Mine(w).client
      /\ UNCHANGED <<live, gen, clients, conn, sendLock, broken, current, run, runRead, raced, made, ctx, wpc, wctx, wres,
                     sends, busy>>
  BY DEF Dangle, At, objects, counter, buffer, calls
<1>2. Mine(w).client \in Clients /\ Mine(w).client # None
  <2>1. Struct /\ wpc[w] # "wait"
    BY <1>1, TypesOK DEF Uses
  <2>2. QED
    BY <2>1, MineIs, Consts
<1>3. TypeOK' /\ Contexts' /\ Handling' /\ CountExact'
  BY <1>1, <1>2 DEF IInv, TypeOK, Contexts, Handling, CountExact
<1>4. Accepting' /\ Receiving' /\ Sending'
  BY <1>1, <1>2 DEF Accepting, ClientsAreLive, Receiving, Sending
<1>5. QED
  BY <1>3, <1>4 DEF IInv

\* GetQueuedCompletionStatus: a send that failed leaves the buffer locked.
LEMMA TakeI == ASSUME IInv, NEW w \in Workers, NEW i \in Ids, Take(w, i) PROVE IInv'
<1>1. /\ stale = None /\ wpc[w] = "wait" /\ ctx[i].st \in {"ok", "fail"} /\ ctx' = [ctx EXCEPT ![i].st = "held"]
      /\ wctx' = [wctx EXCEPT ![w] = i] /\ wres' = [wres EXCEPT ![w] = TRUE]
      /\ wpc' = [wpc EXCEPT ![w] = First(ctx[i])]
      /\ UNCHANGED <<live, gen, clients, conn, sendLock, current, run, runRead, raced, made, sends, busy, stale>>
      /\ broken' = IF ctx[i].type = "SEND" /\ ctx[i].st = "fail" /\ Good(ctx[i])
                   THEN [broken EXCEPT ![ctx[i].client] = TRUE] ELSE broken
  BY DEF Take, At, Goto, objects, counter, buffer, calls
<1>2. Struct /\ TypeOK
  BY TypesOK DEF IInv
<1>3. /\ Struct'
      /\ \A j \in Ids : /\ ctx'[j].type = ctx[j].type /\ ctx'[j].client = ctx[j].client
                        /\ ctx'[j].gen = ctx[j].gen /\ ctx'[j].st = IF j = i THEN "held" ELSE ctx[j].st
      /\ \A j \in Ids : Unadded(j)' => Unadded(j)
      /\ \A c \in Clients, T \in SUBSET Types :
           Pending(c, T)' = IF First(ctx[i]) = "disconnect" THEN Pending(c, T) \ {i} ELSE Pending(c, T)
  BY <1>1, <1>2, TakeL
<1>4. TypeOK' /\ Contexts' /\ Handling'
  <2>1. wres' \in [Workers -> BOOLEAN] /\ broken' \in [Clients -> BOOLEAN]
    BY <1>1, <1>2 DEF TypeOK
  <2>2. QED
    BY <1>1, <1>2, <1>3, <2>1, TypeKept DEF TypeOK
<1>5. \A j \in Ids, c \in Clients : Of(j, c)' <=> Of(j, c)
  BY <1>1, <1>3 DEF Of
<1>6. Accepting'
  <2>1. ClientsAreLive'
    BY <1>1 DEF IInv, Accepting, ClientsAreLive
  <2>2. QED
    BY <1>1, <1>3, <1>5, <2>1, NoneIsNobody, AcceptKept
<1>7. CountExact'
  BY <1>1 DEF IInv, CountExact
<1>8. Receiving'
  <2>1. \A c \in Clients : Pending(c, Chain)' \subseteq Pending(c, Chain)
    BY <1>3, TypeSets
  <2>2. QED
    BY <1>1, <2>1, ReceivingKept DEF IInv
<1>9. Sending'
  <2>1. live \subseteq Clients /\ broken \in [Clients -> BOOLEAN]
    BY <1>2 DEF TypeOK
  <2>2. ctx[i].type = "SEND" /\ ctx[i].st = "fail" => First(ctx[i]) = "disconnect"
    BY DEF First
  <2>3. ctx[i].type = "SEND" /\ First(ctx[i]) = "disconnect" => ctx[i].st = "fail"
    BY DEF First
  <2>4. ctx[i].client \in Clients /\ \A v \in Workers : wctx[v] # i
    <3>1. ctx[i] # NoCtx
      BY <1>1, Consts
    <3>2. QED
      BY <1>1, <1>2, <3>1, Consts DEF Struct, Contexts, Handling
  <2> HIDE DEF First
  <2>5. ASSUME NEW c \in live
        PROVE  /\ \A j, l \in Pending(c, {"SEND"})' : j = l
               /\ Pending(c, {"SEND"})' # {} => sendLock[c] /\ ~broken'[c]
               /\ broken'[c] => sendLock[c]
               /\ sendLock[c] /\ Pending(c, {"SEND"})' = {} => broken'[c]
    <3>1. /\ \A j, l \in Pending(c, {"SEND"}) : j = l
          /\ Pending(c, {"SEND"}) # {} => sendLock[c] /\ ~broken[c]
          /\ broken[c] => sendLock[c]
          /\ sendLock[c] /\ Pending(c, {"SEND"}) = {} => broken[c]
      BY <1>1 DEF IInv, Sending
    <3>2. Pending(c, {"SEND"})' = IF First(ctx[i]) = "disconnect" THEN Pending(c, {"SEND"}) \ {i}
                                  ELSE Pending(c, {"SEND"})
      BY <1>3, <2>1, TypeSets
    <3>3. CASE First(ctx[i]) = "disconnect" /\ i \in Pending(c, {"SEND"})
      <4>1. ctx[i].type = "SEND" /\ Of(i, c)
        BY <3>3 DEF Pending, Of
      <4>2. ctx[i].st = "fail" /\ Good(ctx[i]) /\ ctx[i].client = c
        BY <2>3, <3>3, <4>1 DEF Good, Of
      <4>3. broken'[c] = TRUE
        BY <1>1, <2>1, <4>1, <4>2
      <4>4. Pending(c, {"SEND"})' = {}
        BY <3>1, <3>2, <3>3
      <4>5. sendLock[c]
        BY <3>1, <3>3
      <4>6. QED
        BY <4>3, <4>4, <4>5
    <3>4. CASE ~(First(ctx[i]) = "disconnect" /\ i \in Pending(c, {"SEND"}))
      <4>1. Pending(c, {"SEND"})' = Pending(c, {"SEND"})
        BY <3>2, <3>4
      <4>2. ASSUME ctx[i].type = "SEND", ctx[i].st = "fail", Good(ctx[i]), ctx[i].client = c PROVE FALSE
        <5>1. i \in Pending(c, {"SEND"})
          BY <2>4, <4>2 DEF Pending, Good
        <5>2. QED
          BY <2>2, <3>4, <4>2, <5>1
      <4>3. broken'[c] = broken[c]
        BY <1>1, <2>1, <2>4, <4>2
      <4>4. QED
        BY <3>1, <4>1, <4>3
    <3>5. QED
      BY <3>3, <3>4
  <2>6. QED
    BY <1>1, <2>5 DEF Sending
<1>10. QED
  BY <1>4, <1>6, <1>7, <1>8, <1>9 DEF IInv

\* The clients can be counted.
LEMMA Countable ==
  ASSUME TypeOK, NEW S \in SUBSET live
  PROVE  IsFiniteSet(S) /\ Cardinality(S) \in Nat /\ Cardinality(S) < Modulus
<1>1. S \in SUBSET Clients /\ IsFiniteSet(Clients) /\ Cardinality(Clients) < Modulus
  BY ServerAssumption DEF TypeOK
<1>2. IsFiniteSet(S) /\ Cardinality(S) \in Nat /\ Cardinality(Clients) \in Nat /\ Cardinality(S) <= Cardinality(Clients)
  BY <1>1, FS_Subset, FS_CardinalityType
<1>3. QED
  BY <1>1, <1>2, Consts

\* Run() makes a client: no pointer to it exists.
LEMMA NewClientI == ASSUME IInv, NEW a \in Clients, NewClient(a) PROVE IInv'
<1>1. /\ stale = None /\ stale' = stale /\ run = "top" /\ made < MaxMade /\ current < Limit /\ a \notin live
      /\ live' = live \cup {a} /\ gen' = [gen EXCEPT ![a] = @ + 1] /\ conn' = [conn EXCEPT ![a] = "none"]
      /\ sendLock' = [sendLock EXCEPT ![a] = FALSE] /\ broken' = [broken EXCEPT ![a] = FALSE] /\ run' = a /\ runRead' = current /\ raced' = raced
      /\ made' = made + 1 /\ UNCHANGED <<clients, current, ctx, wpc, wctx, wres, sends, busy>>
  BY DEF NewClient, calls
<1>2. TypeOK /\ Struct
  BY TypesOK DEF IInv
<1>3. \A c \in Clients : /\ gen'[c] = IF c = a THEN gen[a] + 1 ELSE gen[c]
                         /\ conn'[c] = IF c = a THEN "none" ELSE conn[c]
                         /\ sendLock'[c] = IF c = a THEN FALSE ELSE sendLock[c]
                         /\ broken'[c] = IF c = a THEN FALSE ELSE broken[c]
  BY <1>1, <1>2 DEF TypeOK
<1>4. MaxMade \in Nat /\ made \in Nat /\ made + 1 \in 0..MaxMade
  BY <1>1, <1>2, Consts DEF TypeOK
<1>5. \A c \in Clients : gen[c] \in Nat /\ gen[c] <= made
  BY <1>2, <1>4 DEF TypeOK, Struct, Contexts
<1>6. TypeOK'
  <2>1. gen[a] + 1 \in 0..MaxMade
    BY <1>4, <1>5
  <2>2. gen' \in [Clients -> 0..MaxMade]
    BY <1>1, <1>2, <2>1 DEF TypeOK
  <2>3. conn' \in [Clients -> {"none", "up", "down"}] /\ live' \subseteq Clients /\ run' \in Clients \cup {"top"}
    BY <1>1, <1>2 DEF TypeOK
  <2>4. sendLock' \in [Clients -> BOOLEAN] /\ broken' \in [Clients -> BOOLEAN]
    BY <1>1, <1>2 DEF TypeOK
  <2>5. QED
    BY <1>1, <1>2, <1>4, <2>2, <2>3, <2>4 DEF TypeOK
<1>7. Contexts'
  <2>1. \A c \in Clients : gen'[c] <= made'
    BY <1>1, <1>3, <1>4, <1>5
  <2>2. \A i \in Ids : ctx[i] # NoCtx => ctx[i].client \in Clients /\ ctx[i].gen \in Nat
    BY <1>2, Consts DEF Struct, TypeC, Contexts
  <2>3. ASSUME NEW i \in Ids, ctx[i] # NoCtx PROVE ctx[i].gen <= gen'[ctx[i].client]
    <3>1. ctx[i].client \in Clients /\ ctx[i].gen \in Nat /\ ctx[i].gen <= gen[ctx[i].client]
      BY <1>2, <2>2, <2>3 DEF Struct, Contexts
    <3>2. gen'[ctx[i].client] = gen[ctx[i].client] \/ gen'[ctx[i].client] = gen[ctx[i].client] + 1
      BY <1>3, <3>1
    <3>3. QED
      BY <1>5, <3>1, <3>2
  <2>4. QED
    BY <1>1, <1>2, <2>1, <2>3 DEF Struct, Contexts
<1>8. Handling'
  BY <1>1 DEF IInv, Handling
<1>9. \A j \in Ids : ~Of(j, a)'
  <2>1. ASSUME NEW j \in Ids, ctx[j].client = a, ctx[j].gen = gen[a] + 1 PROVE FALSE
    <3>1. ctx[j] # NoCtx
      BY <2>1, Consts
    <3>2. ctx[j].gen <= gen[a]
      BY <1>2, <2>1, <3>1 DEF Struct, Contexts
    <3>3. QED
      BY <1>5, <2>1, <3>2
  <2>2. QED
    BY <1>1, <1>3, <2>1 DEF Of
<1>10. \A j \in Ids, c \in Clients : c # a => (Of(j, c)' <=> Of(j, c))
  BY <1>1, <1>3 DEF Of
<1>11. clients[a] = 0
  <2>1. clients[a] \in Nat /\ clients[a] <= 1 /\ clients[a] # 1
    BY <1>1, <1>2 DEF IInv, Accepting, ClientsAreLive, TypeOK
  <2>2. QED
    BY <2>1
<1>12. Accepting'
  <2>1. ClientsAreLive'
    BY <1>1 DEF IInv, Accepting, ClientsAreLive
  <2>2. Untouched(a)'
    BY <1>1, <1>3, <1>11 DEF Untouched
  <2>3. ASSUME NEW i \in Ids, Unadded(i)'
        PROVE  /\ Untouched(ctx[i].client)' /\ Of(i, ctx[i].client)' /\ a # ctx[i].client
               /\ \A j \in Ids : Of(j, ctx[i].client)' => j = i
    <3>1. Unadded(i)
      BY <1>1, <2>3 DEF Unadded
    <3>2. /\ Untouched(ctx[i].client) /\ Of(i, ctx[i].client) /\ \A j \in Ids : Of(j, ctx[i].client) => j = i
      BY <1>1, <3>1 DEF IInv, Accepting
    <3>3. ctx[i].client \in live /\ ctx[i].client \in Clients /\ ctx[i].client # a
      BY <1>1, <1>2, <3>2 DEF Untouched, TypeOK
    <3>4. Untouched(ctx[i].client)'
      BY <1>1, <1>3, <3>2, <3>3 DEF Untouched
    <3>5. QED
      BY <1>1, <1>10, <3>2, <3>3, <3>4 DEF Of
  <2>4. QED
    BY <1>1, <1>9, <2>1, <2>2, <2>3 DEF Accepting, Untouched, Of
<1>13. CountExact'
  <2>1. live' \ {run'} = live \ {run}
    BY <1>1, <1>2, Consts DEF TypeOK
  <2>2. QED
    BY <1>1, <2>1 DEF IInv, CountExact
<1>14. \A T : Pending(a, T)' = {} /\ \A c \in Clients : c # a => Pending(c, T)' = Pending(c, T)
  BY <1>1, <1>9, <1>10 DEF Pending, Of
<1>15. Receiving'
  BY <1>1, <1>14 DEF IInv, Receiving
<1>16. Sending'
  <2>1. ASSUME NEW c \in live'
        PROVE  /\ \A i, j \in Pending(c, {"SEND"})' : i = j
               /\ Pending(c, {"SEND"})' # {} => sendLock'[c] /\ ~broken'[c]
               /\ broken'[c] => sendLock'[c]
               /\ sendLock'[c] /\ Pending(c, {"SEND"})' = {} => broken'[c]
    <3>1. CASE c = a
      BY <1>3, <1>9, <1>14, <3>1
    <3>2. CASE c # a
      <4>1. c \in live /\ c \in Clients
        BY <1>1, <1>2, <2>1, <3>2 DEF TypeOK
      <4>2. QED
        BY <1>1, <1>3, <1>10, <1>14, <3>2, <4>1 DEF IInv, Sending
    <3>3. QED
      BY <3>1, <3>2
  <2>2. QED
    BY <2>1 DEF Sending
<1>17. QED
  BY <1>6, <1>7, <1>8, <1>12, <1>13, <1>15, <1>16 DEF IInv

\* AcceptEx for the new client, and ++current_.
LEMMA PostAcceptI == ASSUME IInv, PostAccept PROVE IInv'
<1>1. /\ stale = None /\ stale' = stale /\ run # "top" /\ run' = "top" /\ current' \in Counted
      /\ raced' = (raced \/ current # runRead)
      /\ UNCHANGED <<live, gen, clients, conn, sendLock, broken, runRead, made, wpc, wctx, wres, sends, busy>>
  BY DEF PostAccept, objects, buffer, calls
<1>2. PICK a \in Clients : a = run
  BY <1>1 DEF IInv, TypeOK
<1> DEFINE new == Posted("ACCEPT", a, gen[a])
<1>3. PICK k \in FreeIds : ctx' = [ctx EXCEPT ![k] = new]
  BY <1>2 DEF PostAccept
<1>4. TypeOK /\ Struct
  BY TypesOK DEF IInv
<1>5. a \in Clients /\ a \in live /\ Untouched(a) /\ \A i \in Ids : ~Of(i, a)
  <2>1. Untouched(a) /\ (\A i \in Ids : ~Of(i, a)) /\ a \in Clients
    BY <1>1, <1>2, <1>4 DEF IInv, Accepting, TypeOK
  <2>2. QED
    BY <2>1 DEF Untouched
<1>6. k \in Ids /\ (\A v \in Workers : wctx[v] # k) /\ (\A c \in Clients : ~Of(k, c)) /\ ctx[k].type = "none"
  BY <1>4, FreeNobodys
<1>7. /\ new.type = "ACCEPT" /\ new.client = a /\ new.gen = gen[a] /\ new.st = "kernel"
      /\ new \in [type : {"none"} \cup Types, client : Clients \cup {None}, gen : 0..MaxMade,
                  st : {"none", "kernel", "ok", "fail", "held"}]
      /\ gen[a] <= gen[a]
  <2>1. gen[a] \in 0..MaxMade /\ "ACCEPT" \in Types
    BY <1>4, <1>5 DEF TypeOK, Types
  <2>2. gen[a] <= gen[a]
    BY <2>1, Consts
  <2>3. QED
    BY <1>5, <2>1, <2>2, PostedFields
<1> HIDE DEF new
<1>8. (\A j \in Ids : j # k => ctx'[j] = ctx[j]) /\ ctx'[k] = new
  BY <1>3, <1>4, <1>6 DEF Struct, TypeC
<1>9. TypeC'
  <2>1. ctx' \in [Ids -> [type : {"none"} \cup Types, client : Clients \cup {None}, gen : 0..MaxMade,
                          st : {"none", "kernel", "ok", "fail", "held"}]]
    BY <1>3, <1>4, <1>7 DEF Struct, TypeC
  <2>2. QED
    BY <1>1, <1>4, <2>1 DEF Struct, TypeC
<1>10. Contexts'
  BY <1>1, <1>4, <1>5, <1>7, <1>8 DEF Struct, Contexts
<1>11. Handling'
  <2>1. \A v \in Workers : wctx[v] # 0 => wctx[v] \in Ids /\ ctx'[wctx[v]] = ctx[wctx[v]]
    BY <1>4, <1>6, <1>8 DEF Struct, TypeC
  <2>2. QED
    BY <1>1, <1>4, <2>1 DEF Struct, Handling
<1>12. \A j \in Ids, c \in Clients : Of(j, c)' <=> Of(j, c) \/ (j = k /\ c = a)
  BY <1>1, <1>5, <1>6, <1>7, <1>8 DEF Of
<1>13. Accepting'
  <2>1. ClientsAreLive'
    BY <1>1 DEF IInv, Accepting, ClientsAreLive
  <2>2. ASSUME NEW i \in Ids, Unadded(i)'
        PROVE  /\ Untouched(ctx[i].client)' /\ Of(i, ctx[i].client)' /\ "top" # ctx'[i].client
               /\ \A j \in Ids : Of(j, ctx[i].client)' => j = i
    <3>1. CASE i = k
      <4>1. ctx'[i].client = a
        BY <1>7, <1>8, <3>1
      <4>2. Untouched(a)'
        BY <1>1, <1>5 DEF Untouched
      <4>3. Of(i, a)' /\ \A j \in Ids : Of(j, a)' => j = i
        BY <1>5, <1>6, <1>12, <3>1
      <4>4. QED
        BY <1>5, <4>1, <4>2, <4>3, Consts DEF Untouched, Of
    <3>2. CASE i # k
      <4>1. Unadded(i) /\ ctx'[i] = ctx[i]
        BY <1>1, <1>8, <2>2, <3>2 DEF Unadded
      <4>2. /\ Untouched(ctx[i].client) /\ Of(i, ctx[i].client) /\ a # ctx[i].client
            /\ \A j \in Ids : Of(j, ctx[i].client) => j = i
        BY <1>1, <1>2, <4>1 DEF IInv, Accepting
      <4>3. ctx[i].client \in Clients
        BY <1>4, <4>2 DEF Untouched, TypeOK
      <4>4. Untouched(ctx[i].client)'
        BY <1>1, <4>1, <4>2 DEF Untouched
      <4>5. Of(i, ctx[i].client)' /\ \A j \in Ids : Of(j, ctx[i].client)' => j = i
        BY <1>1, <1>12, <4>1, <4>2, <4>3 DEF Of
      <4>6. QED
        BY <4>1, <4>3, <4>4, <4>5, Consts DEF Untouched, Of
    <3>3. QED
      BY <3>1, <3>2
  <2>3. QED
    BY <1>1, <2>1, <2>2 DEF Accepting, Untouched, Of
<1>14. current \in 0..Modulus - 1 /\ runRead \in 0..Modulus - 1 /\ Modulus \in Nat /\ Modulus > 0
  BY <1>4, Consts DEF TypeOK
<1>15. current' \in 0..Modulus - 1
  <2>1. PICK n \in Nat : n = (runRead - current) % Modulus
    BY <1>14
  <2>2. PICK j \in Int : current' = (runRead + 1 - j) % Modulus
    <3>1. PICK j \in 0..(IF n = 0 THEN 0 ELSE n + 1) : current' = (runRead + 1 - j) % Modulus
      BY <1>1, <2>1 DEF Counted
    <3>2. j \in Int
      BY <3>1
    <3>3. QED
      BY <3>1, <3>2
  <2>3. (runRead + 1 - j) \in Int
    BY <1>14
  <2>4. QED
    BY <1>14, <2>2, <2>3
<1>16. TypeOK'
  <2>1. run' \in Clients \cup {"top"} /\ raced' \in BOOLEAN
    BY <1>1, <1>4 DEF TypeOK
  <2>2. QED
    BY <1>1, <1>4, <1>9, <1>15, <2>1 DEF TypeOK, TypeC, Types
<1>17. CountExact'
  <2>1. SUFFICES ASSUME ~raced, current = runRead PROVE current' = Cardinality(live)
    <3>1. live \ {"top"} = live
      BY <1>4, Consts DEF TypeOK
    <3>2. QED
      BY <1>1, <2>1, <3>1 DEF CountExact
  <2>2. current = Cardinality(live \ {a})
    BY <1>2, <2>1 DEF IInv, CountExact
  <2>3. IsFiniteSet(live) /\ Cardinality(live) \in Nat /\ Cardinality(live) < Modulus
    BY <1>4, Countable
  <2>4. Cardinality(live \ {a}) = Cardinality(live) - 1
    BY <1>5, <2>3, FS_RemoveElement
  <2>5. (runRead - current) % Modulus = 0
    <3>1. runRead - current = 0
      BY <1>14, <2>1
    <3>2. QED
      BY <1>14, <3>1
  <2>6. current' = (runRead + 1 - 0) % Modulus
    BY <1>1, <2>5 DEF Counted
  <2>7. runRead + 1 - 0 = Cardinality(live)
    BY <1>14, <2>1, <2>2, <2>3, <2>4
  <2>8. QED
    BY <1>14, <2>3, <2>6, <2>7
<1>18. ASSUME NEW c \in Clients, NEW T \in SUBSET Types
       PROVE  Pending(c, T)' = Pending(c, T) \cup (IF "ACCEPT" \in T /\ c = a THEN {k} ELSE {})
  <2>1. \A j \in Ids : j # k => (j \in Pending(c, T)' <=> j \in Pending(c, T))
    BY <1>1, <1>8 DEF Pending
  <2>2. k \in Pending(c, T)' <=> "ACCEPT" \in T /\ c = a
    BY <1>1, <1>5, <1>6, <1>7, <1>8 DEF Pending
  <2>3. k \notin Pending(c, T) /\ Pending(c, T) \subseteq Ids /\ Pending(c, T)' \subseteq Ids
    BY <1>6 DEF Pending, Types
  <2>4. QED
    BY <1>6, <2>1, <2>2, <2>3
<1>19. Receiving'
  <2>1. Pending(a, Chain) = {}
    BY <1>5 DEF Pending, Of
  <2>2. QED
    BY <1>1, <1>18, <2>1, TypeSets DEF IInv, Receiving
<1>20. Sending'
  <2>1. live \subseteq Clients
    BY <1>4 DEF TypeOK
  <2>2. \A c \in live : Pending(c, {"SEND"})' = Pending(c, {"SEND"})
    <3>1. "ACCEPT" \notin {"SEND"}
      OBVIOUS
    <3>2. \A c \in Clients : Pending(c, {"SEND"})' = Pending(c, {"SEND"}) \cup {}
      BY <1>18, <3>1, TypeSets
    <3>3. QED
      BY <2>1, <3>2
  <2>3. QED
    BY <1>1, <2>2, SendingKept
<1>21. QED
  BY <1>10, <1>11, <1>13, <1>16, <1>17, <1>19, <1>20 DEF IInv

\* A thread handles a client after AddClient.
LEMMA WorkerKept ==
  ASSUME IInv, stale = None, NEW w \in Workers, wpc[w] \notin {"wait", "add"}, Good(Mine(w)), Struct',
         UNCHANGED <<live, gen, clients, conn, current, run, runRead, raced, made, stale>>,
         wres' \in [Workers -> BOOLEAN], sends' \in 0..MaxSends, busy' \subseteq Clients,
         sendLock' \in [Clients -> BOOLEAN], broken' \in [Clients -> BOOLEAN],
         \A c \in Clients : c # Mine(w).client => sendLock'[c] = sendLock[c],
         \A j \in Ids : Unadded(j)' => Unadded(j) /\ ctx'[j] = ctx[j],
         \A j \in Ids : ctx'[j] = ctx[j] \/ ctx'[j] = NoCtx \/ ctx'[j].client = Mine(w).client
  PROVE  TypeOK' /\ Contexts' /\ Handling' /\ Accepting' /\ CountExact'
<1>1. TypeOK
  BY DEF IInv
<1>2. TypeOK' /\ Contexts' /\ Handling'
  BY <1>1, TypeKept DEF TypeOK
<1>3. PICK a \in Clients : a = Mine(w).client
  BY Busy
<1>4. (run # "top" => run # a) /\ \A i \in Ids : Unadded(i) => ctx[i].client # a
  BY <1>3, Busy
<1>5. ASSUME NEW j \in Ids, NEW c \in Clients, c # a, Of(j, c)' PROVE Of(j, c) /\ ctx'[j] = ctx[j]
  <2>1. ctx'[j].client = c /\ ctx'[j] # NoCtx
    BY <1>5, Consts DEF Of
  <2>2. ctx'[j] = ctx[j]
    BY <1>3, <1>5, <2>1
  <2>3. QED
    BY <1>5, <2>2 DEF Of
<1>6. Accepting'
  <2>1. ClientsAreLive'
    BY DEF IInv, Accepting, ClientsAreLive
  <2>2. QED
    BY <1>3, <1>4, <1>5, <2>1, AcceptKept
<1>7. CountExact'
  BY DEF IInv, CountExact
<1>8. QED
  BY <1>2, <1>6, <1>7

\* The same, if no send begins or ends.
LEMMA WorkerStepKept ==
  ASSUME IInv, stale = None, NEW w \in Workers, wpc[w] \notin {"wait", "add"}, Good(Mine(w)), Struct',
         UNCHANGED <<live, gen, clients, conn, sendLock, broken, current, run, runRead, raced, made, stale>>,
         wres' \in [Workers -> BOOLEAN], sends' \in 0..MaxSends, busy' \subseteq Clients,
         \A j \in Ids : Unadded(j)' => Unadded(j) /\ ctx'[j] = ctx[j],
         \A j \in Ids : ctx'[j] = ctx[j] \/ ctx'[j] = NoCtx \/ ctx'[j].client = Mine(w).client,
         \A c \in Clients : Pending(c, {"SEND"})' = Pending(c, {"SEND"}),
         Receiving'
  PROVE  IInv'
<1>1. live \subseteq Clients /\ sendLock' \in [Clients -> BOOLEAN] /\ broken' \in [Clients -> BOOLEAN]
  BY DEF IInv, TypeOK
<1>2. TypeOK' /\ Contexts' /\ Handling' /\ Accepting' /\ CountExact'
  BY <1>1, WorkerKept
<1>3. Sending'
  BY <1>1, SendingKept
<1>4. QED
  BY <1>2, <1>3 DEF IInv

\* A thread only goes on.
LEMMA MoveI ==
  ASSUME IInv, stale = None, NEW w \in Workers, wpc[w] \notin {"wait", "add"}, Good(Mine(w)),
         NEW to \in (Uses \cup {"remove"}) \ {"add"}, wpc' = [wpc EXCEPT ![w] = to], Mine(w).type \in Handles(to),
         wpc[w] \in Past => to \in Past, Mine(w).type # "SEND",
         UNCHANGED <<live, gen, clients, conn, sendLock, broken, current, run, runRead, raced, made, stale, ctx, wctx>>,
         wres' \in [Workers -> BOOLEAN], sends' \in 0..MaxSends, busy' \subseteq Clients
  PROVE  IInv'
<1>1. Struct
  BY TypesOK
<1>2. /\ Struct'
      /\ \A j \in Ids : Unadded(j)' => Unadded(j)
      /\ \A c \in Clients, T \in SUBSET Types :
           Pending(c, T)' = IF to \in Past THEN Pending(c, T) \ {wctx[w]} ELSE Pending(c, T)
  BY <1>1, MoveL
<1>3. \A c \in Clients : wctx[w] \notin Pending(c, {"SEND"})
  BY NotPending
<1>4. \A c \in Clients : Pending(c, {"SEND"})' = Pending(c, {"SEND"})
  BY <1>2, <1>3, TypeSets
<1>5. Receiving'
  BY <1>2, TypeSets, ReceivingKept DEF IInv
<1>6. QED
  BY <1>2, <1>4, <1>5, WorkerStepKept

\* A thread is done, and its context destroyed or posted again.
LEMMA ReplaceI ==
  ASSUME IInv, stale = None, NEW w \in Workers, wpc[w] \notin {"wait", "add"}, Good(Mine(w)),
         NEW rec, Replaces(w, rec), rec.type \in {"none", "RECV", "DISCONNECT"},
         wpc[w] \in Past \/ Mine(w).type # "SEND",
         rec.type \in Chain => wpc[w] \notin Past /\ Mine(w).type \in Chain,
         UNCHANGED <<live, gen, clients, conn, sendLock, broken, current, run, runRead, raced, made, stale, sends, busy, wres>>
  PROVE  IInv'
<1>1. Struct /\ TypeOK
  BY TypesOK DEF IInv
<1>2. rec = NoCtx \/ \E type \in Types \ {"ACCEPT"} : rec = Posted(type, Mine(w).client, Mine(w).gen)
  BY DEF Replaces
<1>3. /\ Struct'
      /\ \A j \in Ids : j # wctx[w] => ctx'[j] = ctx[j]
      /\ ctx'[wctx[w]] = rec
      /\ \A j \in Ids : Unadded(j)' => Unadded(j) /\ j # wctx[w]
      /\ \A c \in Clients, T \in SUBSET Types :
           Pending(c, T)' = (Pending(c, T) \ {wctx[w]})
                            \cup (IF rec.type \in T /\ Of(wctx[w], c) THEN {wctx[w]} ELSE {})
  BY <1>1, ReplaceL
<1>4. Mine(w).client \in Clients /\ Mine(w).gen \in 0..MaxMade /\ wpc[w] # "wait"
  BY <1>1, MineIs
<1>5. rec = NoCtx \/ rec.client = Mine(w).client
  BY <1>2, <1>4, PostedFields
<1>6. \A c \in Clients : wctx[w] \notin Pending(c, {"SEND"})
  BY NotPending
<1>7. \A c \in Clients : Pending(c, {"SEND"})' = Pending(c, {"SEND"})
  <2>1. rec.type \notin {"SEND"}
    OBVIOUS
  <2>2. \A c \in Clients : Pending(c, {"SEND"})' = (Pending(c, {"SEND"}) \ {wctx[w]}) \cup {}
    BY <1>3, <2>1, TypeSets
  <2>3. QED
    BY <1>6, <2>2
<1>8. Receiving'
  <2>1. CASE rec.type \in Chain
    <3>1. \A c \in Clients : Pending(c, Chain)' = (Pending(c, Chain) \ {wctx[w]})
                                                  \cup (IF Of(wctx[w], c) THEN {wctx[w]} ELSE {})
      BY <1>3, <2>1, TypeSets
    <3>2. wpc[w] \notin Past \cup {"wait"}
      BY <2>1
    <3>3. QED
      BY <2>1, <3>1, <3>2, ChainStep
  <2>2. CASE rec.type \notin Chain
    <3>1. \A c \in Clients : Pending(c, Chain)' = (Pending(c, Chain) \ {wctx[w]}) \cup {}
      BY <1>3, <2>2, TypeSets
    <3>2. QED
      BY <3>1, ReceivingKept DEF IInv
  <2>3. QED
    BY <2>1, <2>2
<1>9. wres' \in [Workers -> BOOLEAN] /\ sends' \in 0..MaxSends /\ busy' \subseteq Clients
  BY <1>1 DEF TypeOK
<1>10. QED
  BY <1>3, <1>5, <1>7, <1>8, <1>9, WorkerStepKept

\* AddClient: the accept is no longer the only thing known of the client.
LEMMA AddI == ASSUME IInv, NEW w \in Workers, Add(w) PROVE IInv'
<1>1. /\ stale = None /\ wpc[w] = "add" /\ Good(Mine(w)) /\ wpc' = [wpc EXCEPT ![w] = "prepare"]
      /\ clients' = [clients EXCEPT ![Mine(w).client] = @ + 1]
      /\ UNCHANGED <<live, gen, conn, sendLock, broken, current, run, runRead, raced, made, ctx, wctx, wres, sends, busy, stale>>
  BY DEF Add, At, Goto, counter, buffer, calls
<1>2. Struct /\ TypeOK
  BY TypesOK DEF IInv
<1>3. /\ wctx[w] \in Ids /\ Mine(w).type \in Handles("add") /\ Mine(w).client \in Clients
      /\ \A v \in Workers : wctx[v] = wctx[w] => v = w
  BY <1>1, <1>2, MineIs
<1>4. Mine(w).type = "ACCEPT" /\ Mine(w).type \in Handles("prepare")
  BY <1>3 DEF Handles
<1>5. PICK a \in Clients : a = Mine(w).client
  BY <1>3
<1>6. Unadded(wctx[w])
  BY <1>1, <1>3, <1>4 DEF Unadded, Mine
<1>7. Untouched(a) /\ (run # "top" => run # a) /\ \A j \in Ids : Of(j, a) => j = wctx[w]
  BY <1>1, <1>3, <1>5, <1>6 DEF IInv, Accepting, Mine
<1>8. "prepare" \in Uses \ {"add"} /\ "prepare" \notin Past /\ wpc[w] \notin Past
  BY <1>1 DEF Uses, Past
<1>9. /\ Struct'
      /\ \A j \in Ids : Unadded(j)' => Unadded(j)
      /\ \A c \in Clients, T \in SUBSET Types : Pending(c, T)' = Pending(c, T)
  BY <1>1, <1>2, <1>4, <1>8, MoveL
<1>10. clients[a] = 0 /\ \A c \in Clients : clients'[c] = IF c = a THEN 1 ELSE clients[c]
  <2>1. clients[a] = 0 /\ clients[a] + 1 = 1
    BY <1>7 DEF Untouched
  <2>2. QED
    BY <1>1, <1>2, <1>5, <2>1 DEF TypeOK
<1>11. TypeOK' /\ Contexts' /\ Handling'
  <2>1. clients' \in [Clients -> Nat]
    BY <1>1, <1>2, <1>5, <1>10 DEF TypeOK
  <2>2. QED
    BY <1>1, <1>2, <1>9, <2>1, TypeKept DEF TypeOK
<1>12. Accepting'
  <2>1. ClientsAreLive'
    <3>1. a \in live
      BY <1>7 DEF Untouched
    <3>2. \A c \in Clients : clients[c] <= 1 /\ (clients[c] = 1 => c \in live)
      BY <1>1 DEF IInv, Accepting, ClientsAreLive
    <3>3. QED
      BY <1>1, <1>10, <3>1, <3>2 DEF ClientsAreLive
  <2>2. ASSUME NEW j \in Ids, Unadded(j)' PROVE Unadded(j) /\ ctx[j].client # a
    <3>1. Unadded(j) /\ j # wctx[w]
      <4>1. wpc'[w] = "prepare"
        BY <1>1, <1>2 DEF Struct, TypeC
      <4>2. QED
        BY <1>1, <1>9, <2>2, <4>1 DEF Unadded
    <3>2. Of(j, ctx[j].client)
      BY <1>1, <3>1 DEF IInv, Accepting
    <3>3. QED
      BY <1>7, <3>1, <3>2
  <2>3. \A c \in Clients : c # a =>
          (c \in live' <=> c \in live) /\ clients'[c] = clients[c] /\ sendLock'[c] = sendLock[c]
    BY <1>1, <1>10
  <2>4. \A j \in Ids, c \in Clients : Of(j, c)' => Of(j, c)
    BY <1>1 DEF Of
  <2>5. QED
    BY <1>1, <1>7, <2>1, <2>2, <2>3, <2>4, AcceptKept
<1>13. CountExact'
  BY <1>1 DEF IInv, CountExact
<1>14. Receiving'
  BY <1>1, <1>9, TypeSets, ReceivingKept DEF IInv
<1>15. Sending'
  <2>1. live \subseteq Clients
    BY <1>2 DEF TypeOK
  <2>2. QED
    BY <1>1, <1>9, <2>1, TypeSets, SendingKept
<1>16. QED
  BY <1>11, <1>12, <1>13, <1>14, <1>15 DEF IInv

\* PrepareReceive: the next link of the chain takes the place of this one.
LEMMA PrepareI == ASSUME IInv, NEW w \in Workers, Prepare(w) PROVE IInv'
<1> DEFINE x == Mine(w)
<1>1. /\ stale = None /\ wpc[w] = "prepare" /\ Good(x)
      /\ UNCHANGED <<live, gen, clients, conn, sendLock, broken, current, run, runRead, raced, made, sends, stale>>
  BY DEF Prepare, At, objects, counter, buffer, calls
<1>2. Struct /\ TypeOK
  BY TypesOK DEF IInv
<1>3. /\ wpc[w] \notin {"wait", "add"} /\ wpc[w] \notin Past /\ wpc[w] \notin Past \cup {"wait"}
      /\ "postAccept" \in Uses \ {"add"} /\ "disconnect" \in Uses \ {"add"} /\ "READY" \in Types \ {"ACCEPT"}
      /\ "postAccept" \in Past /\ "disconnect" \in Past
  BY <1>1 DEF Past, Uses, Types
<1>4. /\ x.type \in {"ACCEPT", "RECV"} /\ x.type \in Handles("disconnect") /\ x.type \in Chain /\ x.type # "SEND"
      /\ x.type = "ACCEPT" => x.type \in Handles("postAccept")
  <2>1. x.type \in Handles("prepare")
    BY <1>1, <1>2, MineIs
  <2>2. QED
    BY <2>1 DEF Handles, Chain
<1>5. wctx[w] \in Ids /\ x.client \in Clients /\ x.gen \in 0..MaxMade
  BY <1>2, <1>3, MineIs
<1>6. Posted("READY", x.client, x.gen).client = x.client
  BY <1>3, <1>5, PostedFields
<1>7. wres' \in [Workers -> BOOLEAN] /\ sends' \in 0..MaxSends /\ busy' \subseteq Clients
  <2>1. wres' = wres \/ wres' = [wres EXCEPT ![w] = FALSE]
    BY DEF Prepare
  <2>2. busy' = busy \/ busy' = busy \cup {x.client}
    BY DEF Prepare
  <2>3. QED
    BY <1>1, <1>2, <1>5, <2>1, <2>2 DEF TypeOK
<1>8. \A c \in Clients : wctx[w] \notin Pending(c, {"SEND"})
  BY <1>4, NotPending
<1>9. ASSUME NEW k \in FreeIds, wpc' = [wpc EXCEPT ![w] = "wait"], wctx' = [wctx EXCEPT ![w] = 0],
             ctx' = [ctx EXCEPT ![k] = Posted("READY", x.client, x.gen), ![wctx[w]] = NoCtx]
      PROVE  IInv'
  <2>1. PostsAndEnds(w, k, "READY")
    BY <1>1, <1>2, <1>9 DEF PostsAndEnds, Struct, TypeC
  <2>2. /\ Struct' /\ k \in Ids /\ k # wctx[w]
        /\ \A j \in Ids : j # k /\ j # wctx[w] => ctx'[j] = ctx[j]
        /\ ctx'[k] = Posted("READY", Mine(w).client, Mine(w).gen) /\ ctx'[wctx[w]] = NoCtx
        /\ \A j \in Ids : Unadded(j)' => Unadded(j) /\ j # k /\ j # wctx[w]
        /\ \A c \in Clients, T \in SUBSET Types :
             Pending(c, T)' = (Pending(c, T) \ {wctx[w]})
                              \cup (IF "READY" \in T /\ Of(wctx[w], c) THEN {k} ELSE {})
    BY <1>2, <1>3, <2>1, PostDoneL
  <2>3. \A c \in Clients : Pending(c, {"SEND"})' = Pending(c, {"SEND"})
    <3>1. "READY" \notin {"SEND"}
      OBVIOUS
    <3>2. \A c \in Clients : Pending(c, {"SEND"})' = (Pending(c, {"SEND"}) \ {wctx[w]}) \cup {}
      BY <2>2, <3>1, TypeSets
    <3>3. QED
      BY <1>8, <3>2
  <2>4. Receiving'
    <3>1. "READY" \in Chain
      BY DEF Chain
    <3>2. \A c \in Clients : Pending(c, Chain)' = (Pending(c, Chain) \ {wctx[w]})
                                                  \cup (IF Of(wctx[w], c) THEN {k} ELSE {})
      BY <2>2, <3>1, TypeSets
    <3>3. QED
      BY <1>1, <1>3, <1>4, <3>2, ChainStep
  <2>5. QED
    BY <1>1, <1>3, <1>6, <1>7, <2>2, <2>3, <2>4, WorkerStepKept
<1>10. ASSUME NEW k \in FreeIds, x.type = "ACCEPT", wpc' = [wpc EXCEPT ![w] = "postAccept"], wctx' = wctx,
              ctx' = [ctx EXCEPT ![k] = Posted("READY", x.client, x.gen), ![wctx[w]] = x]
       PROVE  IInv'
  <2>1. PostsAndGoes(w, k, "READY", "postAccept")
    <3>1. k # wctx[w]
      BY <1>2, FreeNobodys
    <3>2. ctx' = [j \in Ids |-> IF j = k THEN Posted("READY", x.client, x.gen) ELSE ctx[j]]
      BY <1>2, <1>5, <1>10, <3>1 DEF Struct, TypeC, Mine
    <3>3. QED
      BY <1>1, <1>3, <1>4, <1>10, <3>2 DEF PostsAndGoes
  <2>2. /\ Struct' /\ k \in Ids
        /\ \A j \in Ids : j # k => ctx'[j] = ctx[j]
        /\ ctx'[k] = Posted("READY", Mine(w).client, Mine(w).gen)
        /\ \A j \in Ids : Unadded(j)' => Unadded(j) /\ j # k
        /\ \A c \in Clients, T \in SUBSET Types :
             Pending(c, T)' = (Pending(c, T) \ (IF "postAccept" \in Past THEN {wctx[w]} ELSE {}))
                              \cup (IF "READY" \in T /\ Of(wctx[w], c) THEN {k} ELSE {})
    BY <1>2, <1>3, <2>1, PostMoveL
  <2>3. \A c \in Clients, T \in SUBSET Types :
          Pending(c, T)' = (Pending(c, T) \ {wctx[w]}) \cup (IF "READY" \in T /\ Of(wctx[w], c) THEN {k} ELSE {})
    BY <1>3, <2>2
  <2>4. \A c \in Clients : Pending(c, {"SEND"})' = Pending(c, {"SEND"})
    BY <1>8, <2>3, TypeSets
  <2>5. Receiving'
    <3>1. "READY" \in Chain
      BY DEF Chain
    <3>2. \A c \in Clients : Pending(c, Chain)' = (Pending(c, Chain) \ {wctx[w]})
                                                  \cup (IF Of(wctx[w], c) THEN {k} ELSE {})
      BY <2>3, <3>1, TypeSets
    <3>3. QED
      BY <1>1, <1>3, <1>4, <3>2, ChainStep
  <2>6. QED
    BY <1>1, <1>3, <1>6, <1>7, <2>2, <2>4, <2>5, WorkerStepKept
<1>11. ASSUME NEW to \in {"disconnect", "postAccept"}, to = "postAccept" => x.type = "ACCEPT",
              wpc' = [wpc EXCEPT ![w] = to], UNCHANGED <<ctx, wctx>>
       PROVE  IInv'
  <2>1. x.type \in Handles(to) /\ to \in (Uses \cup {"remove"}) \ {"add"} /\ to \in Past
    BY <1>3, <1>4, <1>11
  <2>2. QED
    BY <1>1, <1>3, <1>4, <1>7, <1>11, <2>1, MoveI
<1>12. PICK next \in {"wait", "postAccept"} :
         /\ next = "postAccept" => x.type = "ACCEPT"
         /\ \/ /\ \E k \in FreeIds :
                    ctx' = [ctx EXCEPT ![k] = Posted("READY", x.client, x.gen),
                                       ![wctx[w]] = IF next = "wait" THEN NoCtx ELSE x]
               /\ IF next = "wait" THEN Done(w) ELSE Goto(w, next) /\ UNCHANGED wctx
            \/ Goto(w, IF next = "wait" THEN "disconnect" ELSE next) /\ UNCHANGED <<ctx, wctx>>
  BY DEF Prepare
<1>13. CASE next = "wait"
  BY <1>9, <1>11, <1>12, <1>13 DEF Done, Goto
<1>14. CASE next = "postAccept"
  BY <1>10, <1>11, <1>12, <1>14 DEF Goto
<1>15. QED
  BY <1>12, <1>13, <1>14

\* PostAcceptHandler: a receive is posted already.
LEMMA PostAcceptHandlerI == ASSUME IInv, NEW w \in Workers, PostAcceptHandler(w) PROVE IInv'
<1>1. /\ stale = None /\ wpc[w] = "postAccept" /\ Good(Mine(w))
      /\ UNCHANGED <<live, gen, clients, conn, sendLock, broken, current, run, runRead, raced, made, sends, busy, stale, wres>>
      /\ \/ /\ wpc' = [wpc EXCEPT ![w] = "wait"] /\ wctx' = [wctx EXCEPT ![w] = 0]
            /\ ctx' = [ctx EXCEPT ![wctx[w]] = NoCtx]
         \/ wpc' = [wpc EXCEPT ![w] = "disconnect"] /\ UNCHANGED <<ctx, wctx>>
  BY DEF PostAcceptHandler, At, Done, Goto, objects, counter, buffer, calls
<1>2. Struct /\ TypeOK
  BY TypesOK DEF IInv
<1>3. /\ wpc[w] \notin {"wait", "add"} /\ wpc[w] \in Past /\ "disconnect" \in Uses \ {"add"} /\ "disconnect" \in Past
      /\ NoCtx.type \notin Chain /\ NoCtx.type \in {"none", "RECV", "DISCONNECT"}
  BY <1>1, Consts DEF Past, Uses, Chain
<1>4. Mine(w).type \in Handles("disconnect") /\ Mine(w).type # "SEND"
  <2>1. Mine(w).type \in Handles("postAccept")
    BY <1>1, <1>2, MineIs
  <2>2. QED
    BY <2>1 DEF Handles
<1>5. CASE wpc' = [wpc EXCEPT ![w] = "disconnect"] /\ UNCHANGED <<ctx, wctx>>
  <2>1. wres' \in [Workers -> BOOLEAN] /\ sends' \in 0..MaxSends /\ busy' \subseteq Clients
    BY <1>1, <1>2 DEF TypeOK
  <2>2. QED
    BY <1>1, <1>3, <1>4, <1>5, <2>1, MoveI
<1>6. CASE /\ wpc' = [wpc EXCEPT ![w] = "wait"] /\ wctx' = [wctx EXCEPT ![w] = 0]
           /\ ctx' = [ctx EXCEPT ![wctx[w]] = NoCtx]
  <2>1. Replaces(w, NoCtx)
    BY <1>1, <1>6 DEF Replaces
  <2>2. QED
    BY <1>1, <1>3, <2>1, ReplaceI
<1>7. QED
  BY <1>1, <1>5, <1>6

\* IO_DISCONNECT: PreDisconnectHandler.
LEMMA PreDisconnectHandlerI == ASSUME IInv, NEW w \in Workers, PreDisconnectHandler(w) PROVE IInv'
<1>1. /\ stale = None /\ wpc[w] = "preDisconnect" /\ Good(Mine(w)) /\ wpc' = [wpc EXCEPT ![w] = "remove"]
      /\ UNCHANGED <<live, gen, clients, conn, sendLock, broken, current, run, runRead, raced, made, stale, ctx, wctx>>
      /\ UNCHANGED <<wres, sends, busy>>
  BY DEF PreDisconnectHandler, At, Goto, objects, counter, buffer, calls
<1>2. Struct /\ TypeOK
  BY TypesOK DEF IInv
<1>3. wpc[w] \notin {"wait", "add"} /\ wpc[w] \notin Past /\ "remove" \in (Uses \cup {"remove"}) \ {"add"}
  BY <1>1 DEF Past, Uses
<1>4. Mine(w).type \in Handles("remove") /\ Mine(w).type # "SEND"
  <2>1. Mine(w).type \in Handles("preDisconnect")
    BY <1>1, <1>2, MineIs
  <2>2. QED
    BY <2>1 DEF Handles
<1>5. wres' \in [Workers -> BOOLEAN] /\ sends' \in 0..MaxSends /\ busy' \subseteq Clients
  BY <1>1, <1>2 DEF TypeOK
<1>6. QED
  BY <1>1, <1>3, <1>4, <1>5, MoveI

\* IO_RECV_READY: Receive().
LEMMA ReceiveI == ASSUME IInv, NEW w \in Workers, Receive(w) PROVE IInv'
<1> DEFINE new == Posted("RECV", Mine(w).client, Mine(w).gen)
<1>1. /\ stale = None /\ wpc[w] = "receive" /\ Good(Mine(w))
      /\ UNCHANGED <<live, gen, clients, conn, sendLock, broken, current, run, runRead, raced, made, sends, busy, stale, wres>>
      /\ \/ /\ wpc' = [wpc EXCEPT ![w] = "wait"] /\ wctx' = [wctx EXCEPT ![w] = 0]
            /\ ctx' = [ctx EXCEPT ![wctx[w]] = new]
         \/ wpc' = [wpc EXCEPT ![w] = "disconnect"] /\ UNCHANGED <<ctx, wctx>>
  BY DEF Receive, At, Done, Goto, objects, counter, buffer, calls
<1>2. Struct /\ TypeOK
  BY TypesOK DEF IInv
<1>3. /\ wpc[w] \notin {"wait", "add"} /\ wpc[w] \notin Past /\ "disconnect" \in Uses \ {"add"} /\ "disconnect" \in Past
      /\ "RECV" \in Types \ {"ACCEPT"}
  BY <1>1 DEF Past, Uses, Types
<1>4. /\ Mine(w).type \in Handles("disconnect") /\ Mine(w).type # "SEND" /\ Mine(w).type \in Chain
  <2>1. Mine(w).type \in Handles("receive")
    BY <1>1, <1>2, MineIs
  <2>2. QED
    BY <2>1 DEF Handles, Chain
<1>5. CASE wpc' = [wpc EXCEPT ![w] = "disconnect"] /\ UNCHANGED <<ctx, wctx>>
  <2>1. wres' \in [Workers -> BOOLEAN] /\ sends' \in 0..MaxSends /\ busy' \subseteq Clients
    BY <1>1, <1>2 DEF TypeOK
  <2>2. QED
    BY <1>1, <1>3, <1>4, <1>5, <2>1, MoveI
<1>6. CASE /\ wpc' = [wpc EXCEPT ![w] = "wait"] /\ wctx' = [wctx EXCEPT ![w] = 0]
           /\ ctx' = [ctx EXCEPT ![wctx[w]] = new]
  <2>1. Replaces(w, new)
    BY <1>1, <1>3, <1>6 DEF Replaces
  <2>2. new.type = "RECV"
    BY <1>2, <1>3, MineIs, PostedFields
  <2> HIDE DEF new
  <2>3. QED
    BY <1>1, <1>3, <1>4, <2>1, <2>2, ReplaceI
<1>7. QED
  BY <1>1, <1>5, <1>6

\* Disconnect() after a failure.
LEMMA DisconnectI == ASSUME IInv, NEW w \in Workers, Disconnect(w) PROVE IInv'
<1> DEFINE new == Posted("DISCONNECT", Mine(w).client, Mine(w).gen)
<1>1. /\ stale = None /\ wpc[w] = "disconnect" /\ Good(Mine(w))
      /\ UNCHANGED <<live, gen, clients, conn, sendLock, broken, current, run, runRead, raced, made, sends, busy, stale, wres>>
      /\ wpc' = [wpc EXCEPT ![w] = "wait"] /\ wctx' = [wctx EXCEPT ![w] = 0]
      /\ ctx' = [ctx EXCEPT ![wctx[w]] = new] \/ ctx' = [ctx EXCEPT ![wctx[w]] = NoCtx]
  BY DEF Disconnect, At, Done, Goto, objects, counter, buffer, calls
<1>2. Struct
  BY TypesOK
<1>3. /\ wpc[w] \notin {"wait", "add"} /\ wpc[w] \in Past /\ "DISCONNECT" \in Types \ {"ACCEPT"}
      /\ NoCtx.type \notin Chain /\ NoCtx.type \in {"none", "RECV", "DISCONNECT"}
  BY <1>1, Consts DEF Past, Types, Chain
<1>4. new.type = "DISCONNECT" /\ new.type \notin Chain
  <2>1. new.type = "DISCONNECT"
    BY <1>2, <1>3, MineIs, PostedFields
  <2>2. QED
    BY <2>1 DEF Chain
<1>5. Replaces(w, new) \/ Replaces(w, NoCtx)
  BY <1>1, <1>3 DEF Replaces
<1> HIDE DEF new
<1>6. QED
  BY <1>1, <1>3, <1>4, <1>5, ReplaceI

\* IO_RECV: PostReceive calls the handler.
LEMMA DeliverI == ASSUME IInv, NEW w \in Workers, Deliver(w) PROVE IInv'
<1> DEFINE new == Posted("DISCONNECT", Mine(w).client, Mine(w).gen)
<1>1. /\ stale = None /\ wpc[w] = "deliver" /\ Good(Mine(w))
      /\ UNCHANGED <<live, gen, clients, conn, sendLock, broken, current, run, runRead, raced, made, stale, wres, wctx>>
      /\ busy' = busy \/ busy' = busy \cup {Mine(w).client}
      /\ \/ wpc' = [wpc EXCEPT ![w] = "prepare"] /\ UNCHANGED <<ctx, sends>>
         \/ sends < MaxSends /\ sends' = sends + 1 /\ wpc' = [wpc EXCEPT ![w] = "send"] /\ ctx' = ctx
         \/ /\ \E k \in FreeIds : ctx' = [ctx EXCEPT ![k] = new]
            /\ wpc' = [wpc EXCEPT ![w] = "prepare"] /\ sends' = sends
  BY DEF Deliver, At, Done, Goto, objects, counter, buffer, calls
<1>2. Struct /\ TypeOK
  BY TypesOK DEF IInv
<1>3. /\ wpc[w] \notin {"wait", "add"} /\ wpc[w] \notin Past /\ wpc[w] \notin Past \cup {"wait"}
      /\ "prepare" \in Uses \ {"add"} /\ "send" \in Uses \ {"add"} /\ "prepare" \notin Past
      /\ "DISCONNECT" \in Types \ {"ACCEPT"}
  BY <1>1 DEF Past, Uses, Types
<1>4. Mine(w).type \in Handles("prepare") /\ Mine(w).type \in Handles("send") /\ Mine(w).type # "SEND"
  <2>1. Mine(w).type \in Handles("deliver")
    BY <1>1, <1>2, MineIs
  <2>2. QED
    BY <2>1 DEF Handles
<1>5. wres' \in [Workers -> BOOLEAN] /\ sends' \in 0..MaxSends /\ busy' \subseteq Clients
  <2>1. sends \in 0..MaxSends /\ MaxSends \in Nat
    BY <1>2, Consts DEF TypeOK
  <2>2. sends' \in 0..MaxSends
    BY <1>1, <2>1
  <2>3. Mine(w).client \in Clients
    BY <1>2, <1>3, MineIs
  <2>4. QED
    BY <1>1, <1>2, <2>2, <2>3 DEF TypeOK
<1>6. CASE wpc' = [wpc EXCEPT ![w] = "prepare"] /\ ctx' = ctx
  BY <1>1, <1>3, <1>4, <1>5, <1>6, MoveI
<1>7. CASE wpc' = [wpc EXCEPT ![w] = "send"] /\ ctx' = ctx
  BY <1>1, <1>3, <1>4, <1>5, <1>7, MoveI
<1>8. ASSUME NEW k \in FreeIds, ctx' = [ctx EXCEPT ![k] = new], wpc' = [wpc EXCEPT ![w] = "prepare"]
      PROVE  IInv'
  <2>1. PostsAndGoes(w, k, "DISCONNECT", "prepare")
    <3>1. ctx' = [j \in Ids |-> IF j = k THEN new ELSE ctx[j]]
      BY <1>2, <1>8 DEF Struct, TypeC
    <3>2. QED
      BY <1>1, <1>3, <1>4, <1>8, <3>1 DEF PostsAndGoes
  <2>2. /\ Struct' /\ k \in Ids
        /\ \A j \in Ids : j # k => ctx'[j] = ctx[j]
        /\ ctx'[k] = Posted("DISCONNECT", Mine(w).client, Mine(w).gen)
        /\ \A j \in Ids : Unadded(j)' => Unadded(j) /\ j # k
        /\ \A c \in Clients, T \in SUBSET Types :
             Pending(c, T)' = (Pending(c, T) \ (IF "prepare" \in Past THEN {wctx[w]} ELSE {}))
                              \cup (IF "DISCONNECT" \in T /\ Of(wctx[w], c) THEN {k} ELSE {})
    BY <1>2, <1>3, <2>1, PostMoveL
  <2>3. ASSUME NEW c \in Clients, NEW T \in SUBSET Types, "DISCONNECT" \notin T PROVE Pending(c, T)' = Pending(c, T)
    BY <1>3, <2>2, <2>3
  <2>4. \A c \in Clients : Pending(c, {"SEND"})' = Pending(c, {"SEND"})
    BY <2>3, TypeSets
  <2>5. Receiving'
    <3>1. "DISCONNECT" \notin Chain
      BY DEF Chain
    <3>2. QED
      BY <1>1, <2>3, <3>1, TypeSets, ReceivingKept DEF IInv
  <2>6. new.client = Mine(w).client
    BY <1>2, <1>3, MineIs, PostedFields
  <2>7. QED
    BY <1>1, <1>3, <1>5, <2>2, <2>4, <2>5, <2>6, WorkerStepKept
<1>9. QED
  BY <1>1, <1>6, <1>7, <1>8

\* Send(): the buffer was unlocked, so no other send is under way.
LEMMA SendI == ASSUME IInv, NEW w \in Workers, Send(w) PROVE IInv'
<1> DEFINE new == Posted("SEND", Mine(w).client, Mine(w).gen)
<1>1. /\ stale = None /\ wpc[w] = "send" /\ Good(Mine(w)) /\ wpc' = [wpc EXCEPT ![w] = "prepare"]
      /\ ~sendLock[Mine(w).client] /\ sendLock' = [sendLock EXCEPT ![Mine(w).client] = TRUE]
      /\ UNCHANGED <<live, gen, clients, conn, current, run, runRead, raced, made, stale, wres, wctx, sends, busy>>
      /\ \/ (\E k \in FreeIds : ctx' = [ctx EXCEPT ![k] = new]) /\ broken' = broken
         \/ broken' = [broken EXCEPT ![Mine(w).client] = TRUE] /\ ctx' = ctx
  BY DEF Send, At, Goto, Produce, objects, counter, buffer, calls
<1>2. Struct /\ TypeOK
  BY TypesOK DEF IInv
<1>3. /\ wpc[w] \notin {"wait", "add"} /\ wpc[w] \notin Past /\ wpc[w] \notin Past \cup {"wait"}
      /\ "prepare" \in Uses \ {"add"} /\ "prepare" \notin Past /\ "SEND" \in Types \ {"ACCEPT"}
  BY <1>1 DEF Past, Uses, Types
<1>4. Mine(w).type \in Handles("prepare")
  <2>1. Mine(w).type \in Handles("send")
    BY <1>1, <1>2, MineIs
  <2>2. QED
    BY <2>1 DEF Handles
<1>5. PICK a \in Clients : a = Mine(w).client
  BY <1>1, <1>3, Busy
<1>6. a \in live /\ \A c \in Clients : Of(wctx[w], c) <=> c = a
  BY <1>1, <1>3, <1>5, Busy
<1>7. /\ sendLock' \in [Clients -> BOOLEAN] /\ sendLock'[a] /\ ~sendLock[a]
      /\ \A c \in Clients : c # a => sendLock'[c] = sendLock[c]
  BY <1>1, <1>2, <1>5 DEF TypeOK
<1>8. /\ wres' \in [Workers -> BOOLEAN] /\ sends' \in 0..MaxSends /\ busy' \subseteq Clients /\ live \subseteq Clients
      /\ broken \in [Clients -> BOOLEAN] /\ broken' \in [Clients -> BOOLEAN]
      /\ \A c \in Clients : c # a => broken'[c] = broken[c]
  BY <1>1, <1>2, <1>5 DEF TypeOK
<1>9. /\ Pending(a, {"SEND"}) = {} /\ ~broken[a]
      /\ \A c \in live :
           /\ \A i, j \in Pending(c, {"SEND"}) : i = j
           /\ Pending(c, {"SEND"}) # {} => sendLock[c] /\ ~broken[c]
           /\ broken[c] => sendLock[c]
           /\ sendLock[c] /\ Pending(c, {"SEND"}) = {} => broken[c]
  BY <1>1, <1>6, <1>7 DEF IInv, Sending
<1>10. ASSUME Struct',
              \A j \in Ids : Unadded(j)' => Unadded(j) /\ ctx'[j] = ctx[j],
              \A j \in Ids : ctx'[j] = ctx[j] \/ ctx'[j] = NoCtx \/ ctx'[j].client = Mine(w).client,
              \A c \in Clients : Pending(c, Chain)' = Pending(c, Chain),
              \A c \in Clients : c # a => Pending(c, {"SEND"})' = Pending(c, {"SEND"}),
              \/ (\E k : Pending(a, {"SEND"})' = {k}) /\ ~broken'[a]
              \/ Pending(a, {"SEND"})' = {} /\ broken'[a]
       PROVE  IInv'
  <2>1. TypeOK' /\ Contexts' /\ Handling' /\ Accepting' /\ CountExact'
    BY <1>1, <1>3, <1>5, <1>7, <1>8, <1>10, WorkerKept
  <2>2. Receiving'
    BY <1>1, <1>10, ReceivingKept DEF IInv
  <2>3. ASSUME NEW c \in live
        PROVE  /\ \A i, j \in Pending(c, {"SEND"})' : i = j
               /\ Pending(c, {"SEND"})' # {} => sendLock'[c] /\ ~broken'[c]
               /\ broken'[c] => sendLock'[c]
               /\ sendLock'[c] /\ Pending(c, {"SEND"})' = {} => broken'[c]
    <3>1. CASE c = a
      BY <1>7, <1>10, <3>1
    <3>2. CASE c # a
      BY <1>7, <1>8, <1>9, <1>10, <3>2
    <3>3. QED
      BY <3>1, <3>2
  <2>4. Sending'
    BY <1>1, <2>3 DEF Sending
  <2>5. QED
    BY <2>1, <2>2, <2>4 DEF IInv
<1>11. ASSUME NEW k \in FreeIds, ctx' = [ctx EXCEPT ![k] = new], broken' = broken PROVE IInv'
  <2>1. PostsAndGoes(w, k, "SEND", "prepare")
    <3>1. ctx' = [j \in Ids |-> IF j = k THEN new ELSE ctx[j]]
      BY <1>2, <1>11 DEF Struct, TypeC
    <3>2. QED
      BY <1>1, <1>3, <1>4, <3>1 DEF PostsAndGoes
  <2>2. /\ Struct' /\ k \in Ids
        /\ \A j \in Ids : j # k => ctx'[j] = ctx[j]
        /\ ctx'[k] = Posted("SEND", Mine(w).client, Mine(w).gen)
        /\ \A j \in Ids : Unadded(j)' => Unadded(j) /\ j # k
        /\ \A c \in Clients, T \in SUBSET Types :
             Pending(c, T)' = (Pending(c, T) \ (IF "prepare" \in Past THEN {wctx[w]} ELSE {}))
                              \cup (IF "SEND" \in T /\ Of(wctx[w], c) THEN {k} ELSE {})
    BY <1>2, <1>3, <2>1, PostMoveL
  <2>3. \A c \in Clients : Pending(c, Chain)' = Pending(c, Chain)
    <3>1. "SEND" \notin Chain
      BY DEF Chain
    <3>2. \A c \in Clients : Pending(c, Chain)' = (Pending(c, Chain) \ {}) \cup {}
      BY <1>3, <2>2, <3>1, TypeSets
    <3>3. QED
      BY <3>2
  <2>4. \A c \in Clients : Pending(c, {"SEND"})' = Pending(c, {"SEND"}) \cup (IF c = a THEN {k} ELSE {})
    <3>1. "SEND" \in {"SEND"}
      OBVIOUS
    <3>2. \A c \in Clients : Pending(c, {"SEND"})' =
             (Pending(c, {"SEND"}) \ {}) \cup (IF Of(wctx[w], c) THEN {k} ELSE {})
      BY <1>3, <2>2, <3>1, TypeSets
    <3>3. QED
      BY <1>6, <3>2
  <2>5. Pending(a, {"SEND"})' = {k} /\ \A c \in Clients : c # a => Pending(c, {"SEND"})' = Pending(c, {"SEND"})
    BY <1>9, <2>4
  <2>6. new.client = Mine(w).client
    BY <1>2, <1>3, MineIs, PostedFields
  <2>7. ~broken'[a]
    BY <1>9, <1>11
  <2>8. QED
    BY <1>10, <2>2, <2>3, <2>5, <2>6, <2>7
<1>12. ASSUME broken' = [broken EXCEPT ![Mine(w).client] = TRUE], ctx' = ctx PROVE IInv'
  <2>1. /\ Struct'
        /\ \A j \in Ids : Unadded(j)' => Unadded(j)
        /\ \A c \in Clients, T \in SUBSET Types :
             Pending(c, T)' = IF "prepare" \in Past THEN Pending(c, T) \ {wctx[w]} ELSE Pending(c, T)
    BY <1>1, <1>2, <1>3, <1>4, <1>12, MoveL
  <2>2. \A c \in Clients, T \in SUBSET Types : Pending(c, T)' = Pending(c, T)
    BY <1>3, <2>1
  <2>3. broken'[a]
    BY <1>5, <1>8, <1>12
  <2>4. QED
    BY <1>5, <1>9, <1>10, <1>12, <2>1, <2>2, <2>3, TypeSets
<1>13. QED
  BY <1>1, <1>11, <1>12

\* IO_SEND: the send that ends was the only one.
LEMMA SentI == ASSUME IInv, NEW w \in Workers, Sent(w) PROVE IInv'
<1>1. /\ stale = None /\ wpc[w] = "sent" /\ Good(Mine(w))
      /\ wpc' = [wpc EXCEPT ![w] = "wait"] /\ wctx' = [wctx EXCEPT ![w] = 0]
      /\ sendLock' = [sendLock EXCEPT ![Mine(w).client] = FALSE]
      /\ ctx' = [ctx EXCEPT ![wctx[w]] = NoCtx]
      /\ UNCHANGED <<live, gen, clients, conn, broken, current, run, runRead, raced, made, stale, wres, sends, busy>>
  BY DEF Sent, At, Goto, Done, Consume, objects, counter, buffer, calls
<1>2. Struct /\ TypeOK
  BY TypesOK DEF IInv
<1>3. wpc[w] \notin {"wait", "add"} /\ wpc[w] \notin Past
  BY <1>1 DEF Past
<1>4. Mine(w).type = "SEND" /\ wctx[w] \in Ids /\ \A v \in Workers : wctx[v] = wctx[w] => v = w
  <2>1. Mine(w).type \in Handles("sent") /\ wctx[w] \in Ids /\ \A v \in Workers : wctx[v] = wctx[w] => v = w
    BY <1>1, <1>2, MineIs
  <2>2. QED
    BY <2>1 DEF Handles
<1>5. PICK a \in Clients : a = Mine(w).client
  BY <1>1, <1>3, Busy
<1>6. a \in live /\ (\A c \in Clients : Of(wctx[w], c) <=> c = a) /\ live \subseteq Clients
  BY <1>1, <1>2, <1>3, <1>5, Busy DEF TypeOK
<1>7. /\ sendLock' \in [Clients -> BOOLEAN] /\ ~sendLock'[a]
      /\ \A c \in Clients : c # a => sendLock'[c] = sendLock[c]
  BY <1>1, <1>2, <1>5 DEF TypeOK
<1>8. Replaces(w, NoCtx) /\ NoCtx.type \notin {"SEND"} /\ NoCtx.type \notin Chain
  BY <1>1, Consts DEF Replaces, Chain
<1>9. /\ Struct'
      /\ \A j \in Ids : j # wctx[w] => ctx'[j] = ctx[j]
      /\ ctx'[wctx[w]] = NoCtx
      /\ \A j \in Ids : Unadded(j)' => Unadded(j) /\ j # wctx[w]
      /\ \A c \in Clients, T \in SUBSET Types :
           Pending(c, T)' = (Pending(c, T) \ {wctx[w]})
                            \cup (IF NoCtx.type \in T /\ Of(wctx[w], c) THEN {wctx[w]} ELSE {})
  BY <1>2, <1>8, ReplaceL
<1>10. /\ \A c \in Clients : Pending(c, Chain)' = (Pending(c, Chain) \ {wctx[w]}) \cup {}
       /\ \A c \in Clients : Pending(c, {"SEND"})' = (Pending(c, {"SEND"}) \ {wctx[w]}) \cup {}
  BY <1>8, <1>9, TypeSets
<1>11. TypeOK' /\ Contexts' /\ Handling' /\ Accepting' /\ CountExact'
  <2>1. /\ wres' \in [Workers -> BOOLEAN] /\ sends' \in 0..MaxSends /\ busy' \subseteq Clients
        /\ broken' \in [Clients -> BOOLEAN]
    BY <1>1, <1>2 DEF TypeOK
  <2>2. QED
    BY <1>1, <1>3, <1>5, <1>7, <1>9, <2>1, WorkerKept
<1>12. Receiving'
  BY <1>1, <1>10, ReceivingKept DEF IInv
<1>13. \A c \in live :
         /\ \A i, j \in Pending(c, {"SEND"}) : i = j
         /\ Pending(c, {"SEND"}) # {} => sendLock[c] /\ ~broken[c]
         /\ broken[c] => sendLock[c]
         /\ sendLock[c] /\ Pending(c, {"SEND"}) = {} => broken[c]
  BY <1>1 DEF IInv, Sending
<1>14. wctx[w] \in Pending(a, {"SEND"}) /\ \A c \in Clients : c # a => wctx[w] \notin Pending(c, {"SEND"})
  <2>1. Of(wctx[w], a) /\ \A c \in Clients : c # a => ~Of(wctx[w], c)
    BY <1>6
  <2>2. \A v \in Workers : wctx[v] = wctx[w] => wpc[v] \notin Past
    BY <1>3, <1>4
  <2>3. QED
    BY <1>4, <2>1, <2>2 DEF Pending, Past, Of, Mine
<1>15. Pending(a, {"SEND"})' = {} /\ \A c \in Clients : c # a => Pending(c, {"SEND"})' = Pending(c, {"SEND"})
  <2>1. \A i \in Pending(a, {"SEND"}) : i = wctx[w]
    BY <1>6, <1>13, <1>14
  <2>2. Pending(a, {"SEND"})' = {}
    BY <1>10, <2>1
  <2>3. ASSUME NEW c \in Clients, c # a PROVE Pending(c, {"SEND"})' = Pending(c, {"SEND"})
    <3>1. wctx[w] \notin Pending(c, {"SEND"})
      BY <1>14, <2>3
    <3>2. Pending(c, {"SEND"})' = (Pending(c, {"SEND"}) \ {wctx[w]}) \cup {}
      BY <1>10
    <3>3. QED
      BY <3>1, <3>2
  <2>4. QED
    BY <2>2, <2>3
<1>16. Sending'
  <2>1. ~broken[a]
    BY <1>6, <1>13, <1>14
  <2>2. ASSUME NEW c \in live
        PROVE  /\ \A i, j \in Pending(c, {"SEND"})' : i = j
               /\ Pending(c, {"SEND"})' # {} => sendLock'[c] /\ ~broken[c]
               /\ broken[c] => sendLock'[c]
               /\ sendLock'[c] /\ Pending(c, {"SEND"})' = {} => broken[c]
    <3>1. CASE c = a
      BY <1>7, <1>15, <2>1, <3>1
    <3>2. CASE c # a
      BY <1>6, <1>7, <1>13, <1>15, <3>2
    <3>3. QED
      BY <3>1, <3>2
  <2>3. QED
    BY <1>1, <2>2 DEF Sending
<1>17. QED
  BY <1>11, <1>12, <1>16 DEF IInv

\* IO_DISCONNECT: RemoveClient deletes a client that is in clients_, so it is
\* neither the one Run() is making nor one whose accept is outstanding.
LEMMA RemoveI == ASSUME IInv, NEW w \in Workers, Remove(w) PROVE IInv'
<1> DEFINE x == Mine(w)
<1>1. /\ stale = None /\ wpc[w] = "remove"
      /\ wpc' = [wpc EXCEPT ![w] = "wait"] /\ wctx' = [wctx EXCEPT ![w] = 0]
      /\ ctx' = [ctx EXCEPT ![wctx[w]] = NoCtx]
      /\ UNCHANGED <<gen, conn, sendLock, broken, run, runRead, raced, made, wres, sends, busy>>
  BY DEF Remove, RemoveClient, At, Goto, Done, buffer, calls
<1>2. Struct /\ TypeOK
  BY TypesOK DEF IInv
<1>3. PICK a \in Clients : a = x.client
  BY <1>1, <1>2, MineIs
<1>4. \/ /\ clients[a] > 0 /\ clients' = [clients EXCEPT ![a] = @ - 1] /\ live' = live \ {a}
         /\ current' = (current - 1) % Modulus
      \/ ~(clients[a] > 0) /\ UNCHANGED <<clients, live, current>>
  BY <1>3 DEF Remove, RemoveClient, Erase
<1>5. stale' \in Clients \cup {None}
  BY <1>3 DEF Remove, RemoveClient
<1>6. wctx[w] \in Ids /\ x.type \in Handles("remove") /\ x # NoCtx
  BY <1>1, <1>2, MineIs
<1>7. x.type = "DISCONNECT" /\ x.type \notin {"SEND"} /\ x.type \notin Chain
  BY <1>6 DEF Handles, Chain
<1>8. Replaces(w, NoCtx) /\ NoCtx.type \notin {"SEND"} /\ NoCtx.type \notin Chain
  BY <1>1, Consts DEF Replaces, Chain
<1>9. /\ Struct'
      /\ \A j \in Ids : j # wctx[w] => ctx'[j] = ctx[j]
      /\ ctx'[wctx[w]] = NoCtx
      /\ \A j \in Ids : Unadded(j)' => Unadded(j) /\ j # wctx[w]
      /\ \A c \in Clients, T \in SUBSET Types :
           Pending(c, T)' = (Pending(c, T) \ {wctx[w]})
                            \cup (IF NoCtx.type \in T /\ Of(wctx[w], c) THEN {wctx[w]} ELSE {})
  BY <1>2, <1>8, ReplaceL
<1>10. /\ \A c \in Clients : Pending(c, Chain)' = (Pending(c, Chain) \ {wctx[w]}) \cup {}
       /\ \A c \in Clients : Pending(c, {"SEND"})' = (Pending(c, {"SEND"}) \ {wctx[w]}) \cup {}
  BY <1>8, <1>9, TypeSets
<1>11. \A c \in Clients : Pending(c, {"SEND"})' = Pending(c, {"SEND"})
  <2>1. \A c \in Clients : wctx[w] \notin Pending(c, {"SEND"})
    BY <1>7, NotPending
  <2>2. QED
    BY <1>10, <2>1
<1>12. \A j \in Ids, c \in Clients : Of(j, c)' => Of(j, c) /\ ctx'[j] = ctx[j]
  BY <1>1, <1>9, Consts DEF Of
<1>13. Receiving'
  <2>1. CASE stale' # None
    BY <2>1 DEF Receiving
  <2>2. CASE stale' = None
    BY <1>1, <1>10, ReceivingKept DEF IInv
  <2>3. QED
    BY <2>1, <2>2
<1>14. live \subseteq Clients /\ live' \subseteq live
  BY <1>2, <1>4 DEF TypeOK
<1>15. Sending'
  BY <1>1, <1>11, <1>12, <1>14, SendingKept
<1>16. CASE clients[a] > 0
  <2>1. /\ clients' = [clients EXCEPT ![a] = @ - 1] /\ live' = live \ {a}
        /\ current' = (current - 1) % Modulus
    BY <1>4, <1>16
  <2>2. \A c \in Clients : clients[c] \in Nat /\ clients[c] <= 1 /\ (clients[c] = 1 => c \in live)
    BY <1>1, <1>2 DEF IInv, Accepting, ClientsAreLive, TypeOK
  <2>3. clients[a] = 1 /\ a \in live
    <3>1. clients[a] = 1
      BY <1>16, <2>2
    <3>2. QED
      BY <2>2, <3>1
  <2>4. \A c \in Clients : clients'[c] = IF c = a THEN 0 ELSE clients[c]
    <3>1. clients[a] - 1 = 0
      BY <2>3
    <3>2. QED
      BY <1>2, <2>1, <3>1 DEF TypeOK
  <2>5. (run # "top" => run # a) /\ \A j \in Ids : Unadded(j) => ctx[j].client # a
    <3>1. ~Untouched(a)
      BY <2>3 DEF Untouched
    <3>2. QED
      BY <1>1, <3>1 DEF IInv, Accepting
  <2>6. run # a
    BY <2>5, Consts
  <2>7. current \in 0..Modulus - 1 /\ Modulus \in Nat /\ Modulus > 0
    BY <1>2, Consts DEF TypeOK
  <2>8. TypeOK' /\ Contexts' /\ Handling'
    <3>1. current' \in 0..Modulus - 1
      <4>1. current - 1 \in Int
        BY <2>7
      <4>2. QED
        BY <2>1, <2>7, <4>1
    <3>2. clients' \in [Clients -> Nat]
      <4>1. \A c \in Clients : clients'[c] \in Nat
        BY <2>2, <2>4
      <4>2. QED
        BY <1>2, <2>1, <4>1 DEF TypeOK
    <3>3. QED
      BY <1>1, <1>2, <1>9, <1>14, <1>5, <3>1, <3>2 DEF TypeOK, Struct, TypeC, Types
  <2>9. CountExact'
    <3>1. SUFFICES ASSUME ~raced PROVE current' = Cardinality((live \ {a}) \ {run})
      BY <1>1, <2>1 DEF CountExact
    <3>2. current = Cardinality(live \ {run})
      BY <3>1 DEF IInv, CountExact
    <3>3. IsFiniteSet(live \ {run}) /\ Cardinality(live \ {run}) \in Nat
      BY <1>2, Countable
    <3>4. a \in live \ {run} /\ (live \ {a}) \ {run} = (live \ {run}) \ {a}
      BY <2>3, <2>6
    <3>5. IsFiniteSet((live \ {run}) \ {a}) /\ Cardinality((live \ {run}) \ {a}) = Cardinality(live \ {run}) - 1
      BY <3>3, <3>4, FS_RemoveElement
    <3>6. Cardinality((live \ {run}) \ {a}) \in Nat
      BY <3>5, FS_CardinalityType
    <3>7. (current - 1) % Modulus = current - 1
      BY <2>7, <3>2, <3>5, <3>6
    <3>8. QED
      BY <2>1, <3>2, <3>4, <3>5, <3>7
  <2>10. Accepting'
    <3>1. CASE stale' # None
      BY <3>1 DEF Accepting, ClientsAreLive
    <3>2. CASE stale' = None
      <4>1. ClientsAreLive'
        <5>1. \A c \in Clients : clients'[c] <= 1 /\ (clients'[c] = 1 => c \in live')
          BY <2>1, <2>2, <2>4
        <5>2. QED
          BY <5>1 DEF ClientsAreLive
      <4>2. \A c \in Clients : c # a =>
              (c \in live' <=> c \in live) /\ clients'[c] = clients[c] /\ sendLock'[c] = sendLock[c]
        BY <1>1, <2>1, <2>4
      <4>3. QED
        BY <1>1, <1>9, <1>12, <2>5, <4>1, <4>2, AcceptKept
    <3>3. QED
      BY <3>1, <3>2
  <2>11. QED
    BY <1>13, <1>15, <2>8, <2>9, <2>10 DEF IInv
<1>17. CASE ~(clients[a] > 0)
  <2>1. UNCHANGED <<clients, live, current>>
    BY <1>4, <1>17
  <2>2. TypeOK' /\ Contexts' /\ Handling'
    BY <1>1, <1>2, <1>9, <1>5, <2>1 DEF TypeOK, Struct, TypeC, Types
  <2>3. CountExact'
    BY <1>1, <2>1 DEF IInv, CountExact
  <2>4. Accepting'
    <3>1. ClientsAreLive'
      BY <1>1, <2>1 DEF IInv, Accepting, ClientsAreLive
    <3>2. QED
      BY <1>1, <1>9, <1>12, <2>1, <3>1, NoneIsNobody, AcceptKept
  <2>5. QED
    BY <1>13, <1>15, <2>2, <2>3, <2>4 DEF IInv
<1>18. QED
  BY <1>16, <1>17
-----------------------------------------------------------------------------
(* The invariant.                                                          *)

\* There is no client and no context at first.
LEMMA InitIInv == Init => IInv
<1> SUFFICES ASSUME Init PROVE IInv
  OBVIOUS
<1> USE DEF Init
<1>1. /\ MaxMade \in Nat /\ MaxSends \in Nat /\ Modulus \in Nat /\ Modulus > 0
      /\ \A i \in Ids : ctx[i] = NoCtx /\ ctx[i].type = "none"
  BY Consts
<1>2. TypeOK
  <2>1. 0 \in 0..MaxMade /\ 0 \in 0..MaxSends /\ 0 \in 0..Modulus - 1
    BY <1>1
  <2>2. ctx \in [Ids -> [type : {"none", "ACCEPT", "READY", "RECV", "SEND", "DISCONNECT"},
                         client : Clients \cup {None}, gen : 0..MaxMade,
                         st : {"none", "kernel", "ok", "fail", "held"}]]
    BY Consts DEF Types
  <2>3. QED
    BY <2>1, <2>2 DEF TypeOK
<1>3. Contexts
  BY <1>1 DEF Contexts
<1>4. Handling
  BY DEF Handling
<1>5. Accepting
  BY <1>1 DEF Accepting, ClientsAreLive, Unadded
<1>6. CountExact
  <2>1. live \ {run} = {}
    OBVIOUS
  <2>2. QED
    BY <2>1, FS_EmptySet DEF CountExact
<1>7. Receiving
  BY <1>1 DEF Receiving, Pending, Chain
<1>8. Sending
  BY DEF Sending
<1>9. QED
  BY <1>2, <1>3, <1>4, <1>5, <1>6, <1>7, <1>8 DEF IInv

\* Every step keeps the invariant.
LEMMA NextIInv == IInv /\ [Next]_vars => IInv'
<1> SUFFICES ASSUME IInv, [Next]_vars PROVE IInv'
  OBVIOUS
<1>1. CASE UNCHANGED vars
  <2>1. /\ UNCHANGED <<live, gen, conn, sendLock, broken, clients, current, run, runRead, raced>>
        /\ UNCHANGED <<ctx, wpc, wctx, wres, made, sends, busy, stale>>
    BY <1>1 DEF vars
  <2>2. TypeOK' /\ Contexts' /\ Handling' /\ CountExact'
    BY <2>1 DEF IInv, TypeOK, Contexts, Handling, CountExact
  <2>3. Accepting'
    BY <2>1 DEF IInv, Accepting, ClientsAreLive, Untouched, Of, Unadded
  <2>4. Receiving' /\ Sending'
    BY <2>1 DEF IInv, Receiving, Sending, Pending, Of
  <2>5. QED
    BY <2>2, <2>3, <2>4 DEF IInv
<1>2. ASSUME NEW c \in Clients, NewClient(c) PROVE IInv'
  BY <1>2, NewClientI
<1>3. ASSUME NEW c \in Clients, PeerCloses(c) PROVE IInv'
  BY <1>3, PeerClosesI
<1>4. CASE PostAccept
  BY <1>4, PostAcceptI
<1>5. ASSUME NEW w \in Workers, WorkerStep(w) PROVE IInv'
  <2>1. CASE Add(w) \/ Prepare(w) \/ PostAcceptHandler(w) \/ Receive(w) \/ Deliver(w)
    BY <2>1, AddI, PrepareI, PostAcceptHandlerI, ReceiveI, DeliverI
  <2>2. CASE Send(w) \/ Sent(w) \/ Disconnect(w) \/ PreDisconnectHandler(w) \/ Remove(w)
    BY <2>2, SendI, SentI, DisconnectI, PreDisconnectHandlerI, RemoveI
  <2>3. CASE \E step \in Uses : Dangle(w, step)
    BY <2>3, DangleI
  <2>4. QED
    BY <1>5, <2>1, <2>2, <2>3 DEF WorkerStep
<1>6. ASSUME NEW w \in Workers, NEW i \in Ids, Take(w, i) PROVE IInv'
  BY <1>6, TakeI
<1>7. ASSUME NEW i \in Ids, KernelStep(i) PROVE IInv'
  BY <1>7, AcceptDoneI, IoDoneI, IoFailedI, DisconnectDoneI DEF KernelStep
<1>8. QED
  BY <1>1, <1>2, <1>3, <1>4, <1>5, <1>6, <1>7 DEF Next

\* The inductive invariant holds throughout, whatever the numbers of clients
\* and IocpWork threads and whatever the handlers do.
THEOREM Invariance == Spec => []IInv
BY InitIInv, NextIInv, PTL DEF Spec

\* The server's state keeps its types.
THEOREM TypeCorrect == Spec => []TypeOK
<1>1. IInv => TypeOK
  BY DEF IInv
<1>2. QED
  BY <1>1, Invariance, PTL

\* AddClient and RemoveClient keep clients_ free of duplicates and of deleted
\* clients, until a dangling pointer is used.
THEOREM ClientsAlwaysLive == Spec => []ClientsAreLive
<1>1. IInv => ClientsAreLive
  BY DEF IInv, Accepting
<1>2. QED
  BY <1>1, Invariance, PTL

\* current_ counts the clients as long as no -- of an IocpWork thread fell
\* between the read and the write of Run()'s ++.
THEOREM CountAlwaysExact == Spec => []CountExact
<1>1. IInv => CountExact
  BY DEF IInv
<1>2. QED
  BY <1>1, Invariance, PTL

\* A set whose members are all equal has at most one.
LEMMA AtMostOne == ASSUME NEW S, \A i, j \in S : i = j PROVE Cardinality(S) <= 1
<1>1. CASE S = {}
  BY <1>1, FS_EmptySet
<1>2. CASE S # {}
  <2>1. PICK i \in S : TRUE
    BY <1>2
  <2>2. S = {i}
    BY <2>1
  <2>3. Cardinality(S) = 1
    BY <2>2, FS_Singleton
  <2>4. QED
    BY <2>3
<1>3. QED
  BY <1>1, <1>2

\* The chain of receives of a client is never forked, so no two threads are in
\* PostReceive with one recv_buffer_.
THEOREM OneReceiveAlways == Spec => []OneReceive
<1>1. IInv => OneReceive
  <2> SUFFICES ASSUME IInv, stale = None, NEW c \in live
               PROVE  Cardinality(Pending(c, {"ACCEPT", "READY", "RECV"})) <= 1
    BY DEF OneReceive
  <2>1. c \in Clients
    BY DEF IInv, TypeOK
  <2>2. \A i, j \in Pending(c, {"ACCEPT", "READY", "RECV"}) : i = j
    BY <2>1 DEF IInv, Receiving, Chain
  <2>3. QED
    BY <2>2, AtMostOne
<1>2. QED
  BY <1>1, Invariance, PTL

\* The send buffer belongs to one WSASend at a time and is locked meanwhile; it
\* is left locked exactly by a send that was refused, failed or had no bytes.
THEOREM OneSendAlways == Spec => []OneSend
<1>1. IInv => OneSend
  <2> SUFFICES ASSUME IInv, stale = None, NEW c \in live
               PROVE  /\ Cardinality(Pending(c, {"SEND"})) <= 1
                      /\ Pending(c, {"SEND"}) # {} => sendLock[c]
                      /\ (sendLock[c] /\ Pending(c, {"SEND"}) = {}) <=> broken[c]
    BY DEF OneSend
  <2>1. /\ \A i, j \in Pending(c, {"SEND"}) : i = j
        /\ Pending(c, {"SEND"}) # {} => sendLock[c] /\ ~broken[c]
        /\ broken[c] => sendLock[c]
        /\ sendLock[c] /\ Pending(c, {"SEND"}) = {} => broken[c]
    BY DEF IInv, Sending
  <2>2. Cardinality(Pending(c, {"SEND"})) <= 1
    BY <2>1, AtMostOne
  <2>3. QED
    BY <2>1, <2>2, Zenon
<1>2. QED
  BY <1>1, Invariance, PTL
-----------------------------------------------------------------------------
(* The life of a client that is not busy.                                  *)

\* Nothing is asked of the contexts once a pointer dangled.
LEMMA StaleKept == ASSUME stale' # None, NoStaleClient' PROVE OneContext'
BY DEF OneContext

\* Every context that is left, of a client that is not busy, was there before,
\* and the client is still there.
LEMMA ContextKept ==
  ASSUME OneContext, Struct', stale = None, stale' = None, gen' = gen, busy \subseteq busy',
         \A v \in Workers : wpc'[v] = "send" =>
           (wpc[v] = "send" /\ wctx'[v] = wctx[v]) \/ ctx'[wctx'[v]].client \in busy',
         \A j \in Ids : ctx'[j] # NoCtx /\ ctx'[j].client \notin busy' =>
           /\ ctx[j] # NoCtx /\ ctx'[j].client = ctx[j].client /\ ctx'[j].gen = ctx[j].gen
           /\ ctx[j].client \in live'
  PROVE  OneContext'
<1>1. ASSUME NEW j \in Ids, ctx'[j] # NoCtx, ctx'[j].client \notin busy' PROVE Good(ctx[j])'
  <2>1. /\ Good(ctx[j]) /\ ctx'[j].client = ctx[j].client /\ ctx'[j].gen = ctx[j].gen /\ ctx[j].client \in live'
    BY <1>1 DEF OneContext
  <2>2. QED
    BY <2>1 DEF Good
<1>2. \A i, j \in Ids : ctx'[i] # NoCtx /\ ctx'[j] # NoCtx
                        /\ ctx'[i].client = ctx'[j].client /\ ctx'[i].client \notin busy' => i = j
  BY DEF OneContext
<1>3. ASSUME NEW v \in Workers, wpc'[v] = "send", ctx'[wctx'[v]].client \notin busy' PROVE FALSE
  <2>1. wctx'[v] \in Ids /\ ctx'[wctx'[v]] # NoCtx
    BY <1>3, Consts DEF Struct, TypeC, Handling
  <2>2. wpc[v] = "send" /\ wctx'[v] = wctx[v] /\ ctx'[wctx'[v]].client = ctx[wctx[v]].client
    BY <1>3, <2>1
  <2>3. ctx[wctx[v]].client \in busy
    BY <2>2 DEF OneContext, Mine
  <2>4. QED
    BY <1>3, <2>2, <2>3
<1>4. NoStaleClient'
  BY DEF NoStaleClient
<1>5. QED
  BY <1>1, <1>2, <1>3, <1>4 DEF OneContext, Mine

\* The kernel ends an operation.
LEMMA QuietKernel == ASSUME IInv, IInv', OneContext, NEW i \in Ids, KernelStep(i) PROVE OneContext'
<1>1. PICK st \in {"ok", "fail"} :
        /\ stale = None /\ ctx[i].st = "kernel" /\ ctx' = [ctx EXCEPT ![i].st = st]
        /\ UNCHANGED <<live, gen, made, wpc, wctx, busy, stale>>
  BY DEF KernelStep, AcceptDone, IoDone, EmptySent, IoFailed, DisconnectDone, Complete, InKernel, objects,
         counter, calls
<1>2. Struct /\ Struct'
  BY TypesOK DEF IInv, Struct, TypeC, TypeOK, Types
<1>3. \A j \in Ids : ctx'[j].client = ctx[j].client /\ ctx'[j].gen = ctx[j].gen
  BY <1>1, <1>2, CompleteL
<1>4. ASSUME NEW j \in Ids, ctx'[j] # NoCtx PROVE ctx[j] # NoCtx
  <2>1. CASE j = i
    BY <1>1, <2>1, Consts
  <2>2. CASE j # i
    BY <1>1, <1>2, <1>4, <2>2 DEF Struct, TypeC
  <2>3. QED
    BY <2>1, <2>2
<1>5. \A j \in Ids : ctx[j] # NoCtx /\ ctx[j].client \notin busy => ctx[j].client \in live'
  BY <1>1 DEF OneContext, Good
<1>6. QED
  BY <1>1, <1>2, <1>3, <1>4, <1>5, ContextKept

\* A thread dequeues a completion.
LEMMA QuietTake == ASSUME IInv, IInv', OneContext, NEW w \in Workers, NEW i \in Ids, Take(w, i) PROVE OneContext'
<1>1. /\ stale = None /\ wpc[w] = "wait" /\ ctx[i].st \in {"ok", "fail"} /\ ctx' = [ctx EXCEPT ![i].st = "held"]
      /\ wctx' = [wctx EXCEPT ![w] = i] /\ wpc' = [wpc EXCEPT ![w] = First(ctx[i])]
      /\ UNCHANGED <<live, gen, made, busy, stale>>
  BY DEF Take, At, Goto, objects, counter, calls
<1>2. Struct /\ Struct'
  BY TypesOK DEF IInv, Struct, TypeC, TypeOK, Types
<1>3. \A j \in Ids : ctx'[j].client = ctx[j].client /\ ctx'[j].gen = ctx[j].gen
  BY <1>1, <1>2, TakeL
<1>4. ASSUME NEW j \in Ids, ctx'[j] # NoCtx PROVE ctx[j] # NoCtx
  <2>1. CASE j = i
    BY <1>1, <2>1, Consts
  <2>2. CASE j # i
    BY <1>1, <1>2, <1>4, <2>2 DEF Struct, TypeC
  <2>3. QED
    BY <2>1, <2>2
<1>5. \A j \in Ids : ctx[j] # NoCtx /\ ctx[j].client \notin busy => ctx[j].client \in live'
  BY <1>1 DEF OneContext, Good
<1>6. First(ctx[i]) # "send"
  <2>1. ctx[i] # NoCtx
    BY <1>1, Consts
  <2>2. ctx[i].type \in Types
    BY <1>2, <2>1 DEF Struct, TypeC, Contexts
  <2>3. QED
    BY <2>2 DEF First, Types
<1> HIDE DEF First
<1>7. \A v \in Workers : wpc'[v] = "send" => wpc[v] = "send" /\ wctx'[v] = wctx[v]
  BY <1>1, <1>2, <1>6 DEF Struct, TypeC
<1>8. QED
  BY <1>1, <1>2, <1>3, <1>4, <1>5, <1>7, ContextKept

\* A thread goes on, or is done and its context destroyed or posted again;
\* besides it may post something for a busy client.
LEMMA QuietMove ==
  ASSUME IInv, IInv', OneContext, stale = None, NEW w \in Workers, wpc[w] # "wait", NEW to,
         wpc' = [wpc EXCEPT ![w] = to], wctx' = wctx \/ wctx' = [wctx EXCEPT ![w] = 0],
         to = "send" => wctx' = wctx /\ ctx' = ctx /\ Mine(w).client \in busy',
         UNCHANGED <<live, gen, stale>>, busy \subseteq busy',
         \/ ctx' = ctx
         \/ ctx' = [ctx EXCEPT ![wctx[w]] = NoCtx]
         \/ \E type \in Types : ctx' = [ctx EXCEPT ![wctx[w]] = Posted(type, Mine(w).client, Mine(w).gen)]
         \/ /\ Mine(w).client \in busy'
            /\ \E k \in FreeIds, type \in Types : ctx' = [ctx EXCEPT ![k] = Posted(type, Mine(w).client, Mine(w).gen)]
  PROVE  OneContext'
<1>1. Struct /\ Struct'
  BY TypesOK DEF IInv, Struct, TypeC, TypeOK, Types
<1>2. wctx[w] \in Ids /\ Mine(w) # NoCtx /\ Mine(w).client \in Clients /\ Mine(w).gen \in 0..MaxMade
  BY <1>1, MineIs
<1>3. \A type \in Types : /\ Posted(type, Mine(w).client, Mine(w).gen).client = Mine(w).client
                          /\ Posted(type, Mine(w).client, Mine(w).gen).gen = Mine(w).gen
  BY <1>2, PostedFields
<1>4. ASSUME NEW j \in Ids, ctx'[j] # NoCtx, ctx'[j].client \notin busy'
      PROVE  ctx[j] # NoCtx /\ ctx'[j].client = ctx[j].client /\ ctx'[j].gen = ctx[j].gen
  <2>1. CASE ctx' = ctx
    BY <1>4, <2>1
  <2>2. CASE ctx' = [ctx EXCEPT ![wctx[w]] = NoCtx]
    BY <1>1, <1>2, <1>4, <2>2 DEF Struct, TypeC
  <2>3. CASE \E type \in Types : ctx' = [ctx EXCEPT ![wctx[w]] = Posted(type, Mine(w).client, Mine(w).gen)]
    <3>1. PICK type \in Types : ctx' = [ctx EXCEPT ![wctx[w]] = Posted(type, Mine(w).client, Mine(w).gen)]
      BY <2>3
    <3>2. CASE j = wctx[w]
      <4>1. ctx[j] = Mine(w) /\ ctx'[j] = Posted(type, Mine(w).client, Mine(w).gen)
        BY <1>1, <3>1, <3>2 DEF Mine, Struct, TypeC
      <4>2. QED
        BY <1>2, <1>3, <4>1
    <3>3. CASE j # wctx[w]
      <4>1. ctx'[j] = ctx[j]
        BY <1>1, <3>1, <3>3 DEF Struct, TypeC
      <4>2. QED
        BY <1>4, <4>1
    <3>4. QED
      BY <3>2, <3>3
  <2>4. CASE /\ Mine(w).client \in busy'
             /\ \E k \in FreeIds, type \in Types : ctx' = [ctx EXCEPT ![k] = Posted(type, Mine(w).client, Mine(w).gen)]
    <3>1. PICK k \in FreeIds, type \in Types : ctx' = [ctx EXCEPT ![k] = Posted(type, Mine(w).client, Mine(w).gen)]
      BY <2>4
    <3>2. CASE j = k
      <4>1. ctx'[j] = Posted(type, Mine(w).client, Mine(w).gen)
        BY <1>1, <3>1, <3>2 DEF Struct, TypeC
      <4>2. QED
        BY <1>3, <1>4, <2>4, <4>1
    <3>3. CASE j # k
      <4>1. ctx'[j] = ctx[j]
        BY <1>1, <3>1, <3>3 DEF Struct, TypeC
      <4>2. QED
        BY <1>4, <4>1
    <3>4. QED
      BY <3>2, <3>3
  <2>5. QED
    BY <2>1, <2>2, <2>3, <2>4
<1>5. \A j \in Ids : ctx[j] # NoCtx /\ ctx[j].client \notin busy => ctx[j].client \in live'
  BY DEF OneContext, Good
<1>6. \A v \in Workers : wpc'[v] = "send" =>
        (wpc[v] = "send" /\ wctx'[v] = wctx[v]) \/ ctx'[wctx'[v]].client \in busy'
  <2>1. ASSUME NEW v \in Workers, v # w, wpc'[v] = "send" PROVE wpc[v] = "send" /\ wctx'[v] = wctx[v]
    BY <1>1, <2>1 DEF Struct, TypeC
  <2>2. ASSUME wpc'[w] = "send" PROVE ctx'[wctx'[w]].client \in busy'
    BY <1>1, <2>2 DEF Struct, TypeC, Mine
  <2>3. QED
    BY <2>1, <2>2
<1>7. QED
  BY <1>1, <1>4, <1>5, <1>6, ContextKept

\* PrepareReceive: the new context takes the place of the old one.
LEMMA QuietPrepareDone ==
  ASSUME IInv, IInv', OneContext, NEW w \in Workers, wpc[w] = "prepare", NEW k \in FreeIds, stale = None,
         UNCHANGED <<live, gen, stale, busy>>, wpc' = [wpc EXCEPT ![w] = "wait"], wctx' = [wctx EXCEPT ![w] = 0],
         ctx' = [ctx EXCEPT ![k] = Posted("READY", Mine(w).client, Mine(w).gen), ![wctx[w]] = NoCtx]
  PROVE  OneContext'
<1> DEFINE x == Mine(w)
<1>1. Struct /\ Struct'
  BY TypesOK DEF IInv, Struct, TypeC, TypeOK, Types
<1>2. /\ wctx[w] \in Ids /\ x # NoCtx /\ x = ctx[wctx[w]] /\ x.client \in Clients /\ x.gen \in 0..MaxMade
      /\ "READY" \in Types
  BY <1>1, MineIs DEF Mine, Types
<1>3. k \in Ids /\ ctx[k] = NoCtx /\ k # wctx[w]
  BY <1>1, FreeNobodys
<1>4. /\ ctx'[wctx[w]] = NoCtx /\ ctx'[k] = Posted("READY", x.client, x.gen)
      /\ \A j \in Ids : j # k /\ j # wctx[w] => ctx'[j] = ctx[j]
  BY <1>1, <1>2, <1>3 DEF Struct, TypeC
<1>5. ctx'[k].client = x.client /\ ctx'[k].gen = x.gen
  BY <1>2, <1>4, PostedFields
<1>6. ASSUME NEW j \in Ids, ctx'[j] # NoCtx, ctx'[j].client \notin busy PROVE Good(ctx[j])'
  <2>1. CASE j = k
    <3>1. Good(x)
      BY <1>2, <1>5, <1>6, <2>1 DEF OneContext
    <3>2. QED
      BY <1>5, <2>1, <3>1 DEF Good
  <2>2. CASE j # k
    <3>1. ctx'[j] = ctx[j] /\ Good(ctx[j])
      BY <1>4, <1>6, <2>2 DEF OneContext
    <3>2. QED
      BY <3>1 DEF Good
  <2>3. QED
    BY <2>1, <2>2
<1>7. ASSUME NEW j \in Ids, ctx'[j] # NoCtx, j # k
      PROVE  ctx[j] # NoCtx /\ ctx'[j] = ctx[j] /\ (ctx[j].client \notin busy => ctx[j].client # x.client)
  <2>1. ctx'[j] = ctx[j] /\ j # wctx[w]
    BY <1>4, <1>7
  <2>2. QED
    BY <1>2, <1>7, <2>1 DEF OneContext
<1>8. \A i, j \in Ids : ctx'[i] # NoCtx /\ ctx'[j] # NoCtx
                        /\ ctx'[i].client = ctx'[j].client /\ ctx'[i].client \notin busy => i = j
  <2>1. ASSUME NEW i \in Ids, NEW j \in Ids, ctx'[i] # NoCtx, ctx'[j] # NoCtx,
               ctx'[i].client = ctx'[j].client, ctx'[i].client \notin busy
        PROVE  i = j
    <3>1. CASE i = k \/ j = k
      BY <1>5, <1>7, <2>1, <3>1
    <3>2. CASE i # k /\ j # k
      <4>1. ctx[i] # NoCtx /\ ctx'[i] = ctx[i] /\ ctx[j] # NoCtx /\ ctx'[j] = ctx[j]
        BY <1>7, <2>1, <3>2
      <4>2. QED
        BY <2>1, <4>1 DEF OneContext
    <3>3. QED
      BY <3>1, <3>2
  <2>2. QED
    BY <2>1
<1>9. ASSUME NEW v \in Workers, wpc'[v] = "send" PROVE ctx'[wctx'[v]].client \in busy
  <2>1. v # w /\ wpc[v] = "send" /\ wctx'[v] = wctx[v]
    BY <1>1, <1>9 DEF Struct, TypeC
  <2>2. wctx[v] \in Ids /\ wctx[v] # wctx[w] /\ wctx[v] # k
    BY <1>1, <2>1, MineIs, FreeNobodys
  <2>3. ctx[wctx[v]].client \in busy
    BY <2>1 DEF OneContext, Mine
  <2>4. QED
    BY <1>4, <2>1, <2>2, <2>3
<1>10. QED
  BY <1>6, <1>8, <1>9 DEF OneContext, NoStaleClient, Mine

\* PrepareReceive: a post_accept_handler_ that uses the client beside the
\* receive just posted makes it busy.
LEMMA QuietPrepare == ASSUME IInv, IInv', OneContext, NEW w \in Workers, Prepare(w) PROVE OneContext'
<1> DEFINE x == Mine(w)
<1>1. stale = None /\ wpc[w] = "prepare" /\ UNCHANGED <<live, gen, stale>>
  BY DEF Prepare, At, objects
<1>2. Struct
  BY TypesOK
<1>3. wctx[w] \in Ids /\ x = ctx[wctx[w]] /\ "READY" \in Types
  BY <1>1, <1>2, MineIs DEF Mine, Types
<1>4. PICK next \in {"wait", "postAccept"} :
        \/ /\ \E k \in FreeIds :
                ctx' = [ctx EXCEPT ![k] = Posted("READY", x.client, x.gen),
                                   ![wctx[w]] = IF next = "wait" THEN NoCtx ELSE x]
           /\ IF next = "wait" THEN Done(w) ELSE Goto(w, next) /\ UNCHANGED wctx
           /\ busy' = IF next = "wait" THEN busy ELSE busy \cup {x.client}
        \/ Goto(w, IF next = "wait" THEN "disconnect" ELSE next) /\ UNCHANGED <<ctx, wctx, busy>>
  BY DEF Prepare
<1>5. CASE UNCHANGED <<ctx, wctx, busy>> /\ Goto(w, IF next = "wait" THEN "disconnect" ELSE next)
  <2>1. PICK to \in {"disconnect", "postAccept"} : wpc' = [wpc EXCEPT ![w] = to]
    BY <1>5 DEF Goto
  <2>2. QED
    BY <1>1, <1>5, <2>1, QuietMove
<1>6. ASSUME NEW k \in FreeIds, next = "wait", Done(w), busy' = busy,
             ctx' = [ctx EXCEPT ![k] = Posted("READY", x.client, x.gen), ![wctx[w]] = NoCtx]
      PROVE  OneContext'
  BY <1>1, <1>6, QuietPrepareDone DEF Done, Goto
<1>7. ASSUME NEW k \in FreeIds, next = "postAccept", Goto(w, next), wctx' = wctx, busy' = busy \cup {x.client},
             ctx' = [ctx EXCEPT ![k] = Posted("READY", x.client, x.gen), ![wctx[w]] = x]
      PROVE  OneContext'
  <2>1. k # wctx[w]
    BY <1>2, FreeNobodys
  <2>2. ctx' = [ctx EXCEPT ![k] = Posted("READY", x.client, x.gen)]
    BY <1>2, <1>3, <1>7, <2>1 DEF Struct, TypeC
  <2>3. x.client \in busy' /\ busy \subseteq busy'
    BY <1>7
  <2>4. wpc' = [wpc EXCEPT ![w] = "postAccept"]
    BY <1>7 DEF Goto
  <2>5. QED
    BY <1>1, <1>3, <1>7, <2>2, <2>3, <2>4, QuietMove
<1>8. QED
  BY <1>4, <1>5, <1>6, <1>7

\* RemoveClient deletes the client with its last context.
LEMMA QuietRemove == ASSUME IInv, IInv', OneContext, NEW w \in Workers, Remove(w) PROVE OneContext'
<1> DEFINE x == Mine(w)
<1>1. /\ wpc[w] = "remove" /\ stale = None /\ wpc' = [wpc EXCEPT ![w] = "wait"] /\ gen' = gen
      /\ ctx' = [ctx EXCEPT ![wctx[w]] = NoCtx] /\ wctx' = [wctx EXCEPT ![w] = 0] /\ busy' = busy
      /\ live' = live \/ live' = live \ {x.client}
      /\ stale' = None \/ (stale' = x.client /\ (~Good(x) \/ HasPostDisconnect))
  BY DEF Remove, RemoveClient, At, Done, Goto, calls
<1>2. Struct /\ Struct'
  BY TypesOK DEF IInv, Struct, TypeC, TypeOK, Types
<1>3. wctx[w] \in Ids /\ x # NoCtx /\ x = ctx[wctx[w]]
  BY <1>1, <1>2, MineIs DEF Mine
<1>4. x.client \notin busy => Good(x)
  BY <1>1, <1>3 DEF OneContext
<1>5. CASE stale' # None
  <2>1. NoStaleClient'
    BY <1>1, <1>4, <1>5 DEF NoStaleClient
  <2>2. QED
    BY <1>5, <2>1, StaleKept
<1>6. CASE stale' = None
  <2>1. ASSUME NEW j \in Ids, ctx'[j] # NoCtx, ctx'[j].client \notin busy
        PROVE  ctx'[j] = ctx[j] /\ ctx[j] # NoCtx /\ ctx[j].client \in live'
    <3>1. j # wctx[w] /\ ctx'[j] = ctx[j]
      BY <1>1, <1>2, <1>3, <2>1 DEF Struct, TypeC
    <3>2. Good(ctx[j]) /\ ctx[j].client # x.client
      BY <1>1, <1>3, <2>1, <3>1 DEF OneContext
    <3>3. QED
      BY <1>1, <2>1, <3>1, <3>2 DEF Good
  <2>2. \A v \in Workers : wpc'[v] = "send" => wpc[v] = "send" /\ wctx'[v] = wctx[v]
    BY <1>1, <1>2 DEF Struct, TypeC
  <2>3. QED
    BY <1>1, <1>2, <1>6, <2>1, <2>2, ContextKept
<1>7. QED
  BY <1>5, <1>6

\* PostReceive: a handler that calls Send or Disconnect makes the client busy.
LEMMA QuietDeliver == ASSUME IInv, IInv', OneContext, NEW w \in Workers, Deliver(w) PROVE OneContext'
<1> DEFINE x == Mine(w)
<1>1. stale = None /\ wpc[w] = "deliver" /\ UNCHANGED <<live, gen, stale, wctx>>
  BY DEF Deliver, At, objects
<1>2. \/ wpc' = [wpc EXCEPT ![w] = "prepare"] /\ ctx' = ctx /\ busy' = busy
      \/ wpc' = [wpc EXCEPT ![w] = "send"] /\ ctx' = ctx /\ busy' = busy \cup {x.client}
      \/ /\ \E k \in FreeIds : ctx' = [ctx EXCEPT ![k] = Posted("DISCONNECT", x.client, x.gen)]
         /\ wpc' = [wpc EXCEPT ![w] = "prepare"] /\ busy' = busy \cup {x.client}
  BY DEF Deliver, Goto, calls
<1>3. CASE wpc' = [wpc EXCEPT ![w] = "prepare"] /\ ctx' = ctx /\ busy' = busy
  BY <1>1, <1>3, QuietMove
<1>4. CASE wpc' = [wpc EXCEPT ![w] = "send"] /\ ctx' = ctx /\ busy' = busy \cup {x.client}
  <2>1. x.client \in busy' /\ busy \subseteq busy'
    BY <1>4
  <2>2. QED
    BY <1>1, <1>4, <2>1, QuietMove
<1>5. CASE /\ \E k \in FreeIds : ctx' = [ctx EXCEPT ![k] = Posted("DISCONNECT", x.client, x.gen)]
           /\ wpc' = [wpc EXCEPT ![w] = "prepare"] /\ busy' = busy \cup {x.client}
  <2>1. x.client \in busy' /\ busy \subseteq busy' /\ "DISCONNECT" \in Types
    BY <1>5 DEF Types
  <2>2. QED
    BY <1>1, <1>5, <2>1, QuietMove
<1>6. QED
  BY <1>2, <1>3, <1>4, <1>5

\* Every step of an IocpWork thread; what it holds of a client that is not
\* busy is good, so that it never goes through a dangling pointer.
LEMMA QuietWorker == ASSUME IInv, IInv', OneContext, NEW w \in Workers, WorkerStep(w) PROVE OneContext'
<1>1. Struct
  BY TypesOK
<1>2. CASE Add(w)
  BY <1>2, QuietMove DEF Add, At, Goto, calls
<1>3. CASE Prepare(w)
  BY <1>3, QuietPrepare
<1>4. CASE PostAcceptHandler(w)
  BY <1>4, QuietMove DEF PostAcceptHandler, At, Goto, Done, objects, calls
<1>5. CASE Receive(w)
  <2>1. "RECV" \in Types
    BY DEF Types
  <2>2. QED
    BY <1>5, <2>1, QuietMove DEF Receive, At, Goto, Done, objects, calls
<1>6. CASE Deliver(w)
  BY <1>6, QuietDeliver
<1>7. CASE Send(w)
  <2>1. /\ stale = None /\ wpc[w] = "send" /\ UNCHANGED <<live, gen, stale, wctx, busy>>
        /\ wpc' = [wpc EXCEPT ![w] = "prepare"]
        /\ \/ ctx' = ctx
           \/ \E k \in FreeIds : ctx' = [ctx EXCEPT ![k] = Posted("SEND", Mine(w).client, Mine(w).gen)]
    BY <1>7 DEF Send, At, Goto, objects, calls
  <2>2. Mine(w).client \in busy /\ "SEND" \in Types
    BY <2>1 DEF OneContext, Types
  <2>3. QED
    BY <2>1, <2>2, QuietMove
<1>8. CASE Sent(w)
  BY <1>8, QuietMove DEF Sent, At, Goto, Done, objects, calls
<1>9. CASE Disconnect(w)
  <2>1. "DISCONNECT" \in Types
    BY DEF Types
  <2>2. QED
    BY <1>9, <2>1, QuietMove DEF Disconnect, At, Goto, Done, objects, calls
<1>10. CASE PreDisconnectHandler(w)
  BY <1>10, QuietMove DEF PreDisconnectHandler, At, Goto, objects, calls
<1>11. CASE Remove(w)
  BY <1>11, QuietRemove
<1>12. ASSUME NEW step \in Uses, Dangle(w, step) PROVE OneContext'
  <2>1. /\ wpc[w] # "wait" /\ ~Good(Mine(w)) /\ stale = None /\ stale' = Mine(w).client /\ busy' = busy
    BY <1>12 DEF Dangle, At, Uses, calls
  <2>2. /\ wctx[w] \in Ids /\ Mine(w) # NoCtx /\ Mine(w) = ctx[wctx[w]] /\ Mine(w).client # None
    BY <1>1, <2>1, MineIs, Consts DEF Mine
  <2>3. Mine(w).client \in busy
    BY <2>1, <2>2 DEF OneContext
  <2>4. QED
    BY <2>1, <2>2, <2>3, StaleKept DEF NoStaleClient
<1>13. QED
  BY <1>2, <1>3, <1>4, <1>5, <1>6, <1>7, <1>8, <1>9, <1>10, <1>11, <1>12 DEF WorkerStep

\* A new client that is not busy is one without contexts.
LEMMA QuietNewClient == ASSUME IInv, OneContext, NEW a \in Clients, NewClient(a) PROVE OneContext'
<1>1. /\ stale = None /\ a \notin live /\ live' = live \cup {a} /\ gen' = [gen EXCEPT ![a] = @ + 1]
      /\ UNCHANGED <<ctx, wpc, wctx, busy, stale>>
  BY DEF NewClient, calls
<1>2. gen \in [Clients -> 0..MaxMade] /\ live \subseteq Clients
  BY DEF IInv, TypeOK
<1>3. \A c \in Clients : c # a => gen'[c] = gen[c]
  BY <1>1, <1>2
<1>4. ASSUME NEW j \in Ids, ctx[j] # NoCtx, ctx[j].client \notin busy PROVE Good(ctx[j])'
  <2>1. ctx[j].client \in live /\ gen[ctx[j].client] = ctx[j].gen
    BY <1>1, <1>4 DEF OneContext, Good
  <2>2. ctx[j].client # a /\ ctx[j].client \in Clients
    BY <1>1, <1>2, <2>1
  <2>3. QED
    BY <1>1, <1>3, <2>1, <2>2 DEF Good
<1>5. QED
  BY <1>1, <1>4 DEF OneContext, NoStaleClient, Mine

\* The first context of a client is its accept.
LEMMA QuietPostAccept == ASSUME IInv, OneContext, PostAccept PROVE OneContext'
<1>1. /\ stale = None /\ run # "top" /\ UNCHANGED <<live, gen, wpc, wctx, busy, stale>> /\ FreeIds # {}
      /\ \E k \in FreeIds : ctx' = [ctx EXCEPT ![k] = Posted("ACCEPT", run, gen[run])]
  BY DEF PostAccept, objects, calls
<1>2. PICK k \in FreeIds : ctx' = [ctx EXCEPT ![k] = Posted("ACCEPT", run, gen[run])]
  BY <1>1
<1>3. Struct /\ TypeOK
  BY TypesOK DEF IInv
<1>4. PICK a \in Clients : a = run
  BY <1>1, <1>3 DEF TypeOK
<1>5. a \in live /\ \A j \in Ids : ~Of(j, a)
  BY <1>1, <1>4 DEF IInv, Accepting, Untouched
<1>6. k \in Ids /\ ctx[k] = NoCtx /\ \A v \in Workers : wctx[v] # k
  BY <1>3, FreeNobodys
<1>7. ctx'[k] = Posted("ACCEPT", a, gen[a]) /\ \A j \in Ids : j # k => ctx'[j] = ctx[j]
  BY <1>2, <1>3, <1>4, <1>6 DEF Struct, TypeC
<1>8. ctx'[k].client = a /\ ctx'[k].gen = gen[a]
  <2>1. gen[a] \in 0..MaxMade /\ "ACCEPT" \in Types
    BY <1>3 DEF TypeOK, Types
  <2>2. QED
    BY <1>7, <2>1, PostedFields
<1>9. ASSUME NEW j \in Ids, j # k, ctx'[j] # NoCtx, ctx'[j].client \notin busy
      PROVE  ctx'[j] = ctx[j] /\ ctx[j] # NoCtx /\ Good(ctx[j]) /\ ctx[j].client # a
  <2>1. ctx'[j] = ctx[j] /\ Good(ctx[j]) /\ ctx[j] # NoCtx
    BY <1>1, <1>7, <1>9 DEF OneContext
  <2>2. ctx[j].client # a
    BY <1>5, <2>1 DEF Good, Of
  <2>3. QED
    BY <2>1, <2>2
<1>10. ASSUME NEW j \in Ids, ctx'[j] # NoCtx, ctx'[j].client \notin busy PROVE Good(ctx[j])'
  <2>1. CASE j = k
    BY <1>1, <1>5, <1>8, <2>1 DEF Good
  <2>2. CASE j # k
    BY <1>1, <1>9, <1>10, <2>2 DEF Good
  <2>3. QED
    BY <2>1, <2>2
<1>11. \A i, j \in Ids : ctx'[i] # NoCtx /\ ctx'[j] # NoCtx
                         /\ ctx'[i].client = ctx'[j].client /\ ctx'[i].client \notin busy => i = j
  BY <1>1, <1>8, <1>9 DEF OneContext
<1>12. ASSUME NEW v \in Workers, wpc[v] = "send" PROVE ctx'[wctx[v]].client \in busy
  <2>1. wctx[v] \in Ids /\ wctx[v] # k /\ ctx[wctx[v]].client \in busy
    BY <1>1, <1>3, <1>6, <1>12, MineIs DEF OneContext, Mine
  <2>2. QED
    BY <1>7, <2>1
<1>13. QED
  BY <1>1, <1>10, <1>11, <1>12 DEF OneContext, NoStaleClient, Mine

\* Every step keeps one context per client that is not busy.
LEMMA NextOneContext == IInv /\ IInv' /\ OneContext /\ [Next]_vars => OneContext'
<1> SUFFICES ASSUME IInv, IInv', OneContext, [Next]_vars PROVE OneContext'
  OBVIOUS
<1>1. CASE UNCHANGED vars
  BY <1>1 DEF vars, OneContext, NoStaleClient, Good, Mine
<1>2. ASSUME NEW c \in Clients, PeerCloses(c) PROVE OneContext'
  BY <1>2 DEF PeerCloses, objects, calls, OneContext, NoStaleClient, Good, Mine
<1>3. QED
  BY <1>1, <1>2, QuietNewClient, QuietPostAccept, QuietWorker, QuietTake, QuietKernel DEF Next

\* No IocpWork thread ever uses a Client that RemoveClient deleted unless a
\* handler called Send or Disconnect for a client at that address, or used it
\* after its first receive was posted, or a post_disconnect_handler_ is set;
\* whatever the number of threads and the order of completions.
THEOREM QuietNeverStale == Spec => []NoStaleClient
<1>1. Init => OneContext
  BY DEF Init, OneContext, NoStaleClient
<1>2. OneContext => NoStaleClient
  BY DEF OneContext
<1>3. Spec => []OneContext
  BY <1>1, NextOneContext, Invariance, PTL DEF Spec
<1>4. QED
  BY <1>2, <1>3, PTL
=============================================================================
