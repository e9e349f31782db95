---------------------------- MODULE MCObjectPool ----------------------------
(* Threads that allocate, hand chunks to each other, and free them.  With  *)
(* numbered chunks one thread allocates, and ::malloc has room for its     *)
(* first block and one of twice the size; with plain pools every thread    *)
(* allocates, and there is room for two first blocks.                      *)
EXTENDS ObjectPool, TLC

CONSTANT Owner

OwnersAllocate == [k \in Kinds |-> IF k = "tagged" THEN {Owner} ELSE Threads \ {Owner}]
BlockStarts == [k \in Kinds |-> IF k = "tagged" THEN {1, 3} ELSE {3, 4, 5}]

FreerSymmetry == Permutations(Threads \ {Owner})
=============================================================================
