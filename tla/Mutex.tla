------------------------------- MODULE Mutex --------------------------------
(***************************************************************************)
(* What core::Spinlock promises to a program that only takes it            *)
(* exclusively (Lock/Unlock, ExclusiveLockHolder): one holder at a time,   *)
(* and only the holder gives it back.  Spinlock.tla implements this        *)
(* specification; ThreadPool.tla and ObjectPool.tla use its two actions in *)
(* place of the atomic operations inside Lock() and Unlock().              *)
(***************************************************************************)
CONSTANT Threads

VARIABLE holder   \* {} or {t}: the thread between Lock() and Unlock()

Init == holder = {}

Acquire(t) == holder = {} /\ holder' = {t}

Release(t) == holder = {t} /\ holder' = {}

Next == \E t \in Threads : Acquire(t) \/ Release(t)

Spec == Init /\ [][Next]_holder
=============================================================================
