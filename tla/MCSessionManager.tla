-------------------------- MODULE MCSessionManager --------------------------
(* Small instances of SessionManager; workers run the same loop.           *)
EXTENDS SessionManager, TLC

WorkerSymmetry == Permutations(Workers)
=============================================================================
