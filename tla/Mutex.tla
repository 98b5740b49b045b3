------------------------------- MODULE Mutex -------------------------------
(***************************************************************************)
(* What a mutual exclusion lock promises: at most one process holds it.    *)
(* FileLock implements this as long as a lock file is broken only after    *)
(* its creator has died.                                                   *)
(***************************************************************************)
CONSTANT Procs

VARIABLE holders     \* the processes that hold the lock

Init == holders = {}

Enter(p) == holders = {} /\ holders' = {p}
Leave(p) == p \in holders /\ holders' = holders \ {p}

Next == \E p \in Procs : Enter(p) \/ Leave(p)

Spec == Init /\ [][Next]_holders
=============================================================================
