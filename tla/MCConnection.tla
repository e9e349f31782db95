---------------------------- MODULE MCConnection ----------------------------
(***************************************************************************)
(* A small instance of Connection, over several loads: one that receives   *)
(* more than it sends, one with a body of which the size byte tells only   *)
(* the low part, one with an answer that races a job's message, two on a   *)
(* connection that breaks or that an empty message ends, and one in which  *)
(* three messages meet at the buffer.                                      *)
(***************************************************************************)
EXTENDS Connection

CONSTANTS a, b, c, d, z

MCSize == [m \in Msgs |-> IF m = b THEN 1 ELSE IF m = z THEN 0 ELSE 2]

MCLoads == {[packets |-> <<2, 1>>, msgs |-> {b}, ends |-> TRUE],
            [packets |-> <<5, 1, 1>>, msgs |-> {}, ends |-> FALSE],
            [packets |-> <<1>>, msgs |-> {a, b}, ends |-> FALSE],
            [packets |-> <<>>, msgs |-> {a, b}, ends |-> TRUE],
            [packets |-> <<>>, msgs |-> {b, z}, ends |-> TRUE],
            [packets |-> <<>>, msgs |-> {b, c, d}, ends |-> FALSE]}
=============================================================================
