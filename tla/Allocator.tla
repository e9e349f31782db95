------------------------------ MODULE Allocator ------------------------------
(***************************************************************************)
(* What core::ObjectPool promises its callers, whatever lists it keeps: a  *)
(* chunk that is out (with the application, or on its way back) is never   *)
(* handed out a second time, and only chunks that are out come back.       *)
(***************************************************************************)
EXTENDS Naturals

CONSTANT Chunks

VARIABLE out   \* how often each chunk is out: returned by Malloc, not given back

Init == out = [c \in Chunks |-> 0]

HandOut == \E c \in Chunks : out[c] = 0 /\ out' = [out EXCEPT ![c] = 1]

\* Free brings one chunk back, PurgeMemory ends the use of all chunks of a pool.
TakeBack ==
  /\ out' \in [Chunks -> {0, 1}]
  /\ \A c \in Chunks : out'[c] \in {0, out[c]}

Next == TakeBack \/ HandOut

Spec == Init /\ [][Next]_out
=============================================================================
