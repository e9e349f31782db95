----------------------------- MODULE MCSpinlock -----------------------------
(* Three threads, each free to use the lock in either mode again and again. *)
EXTENDS Spinlock
=============================================================================
