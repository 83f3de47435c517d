---------------------------- MODULE AbstractLock ----------------------------
(***************************************************************************)
(* What the callers of lock_claims and lock_file rely on: a critical       *)
(* section that one process at a time may be in.  Every transition of the  *)
(* gap loop, of the claims registry, of the harness gate and of the        *)
(* contested queue is written against this promise.  LockFile is the       *)
(* file-by-file protocol that has to keep it.                              *)
(***************************************************************************)
CONSTANT Procs

VARIABLE holders    \* the processes inside the critical section

Init == holders = {}

Enter(p) == holders = {} /\ holders' = {p}

Leave(p) == p \in holders /\ holders' = holders \ {p}

Next == \E p \in Procs : Enter(p) \/ Leave(p)

Spec == Init /\ [][Next]_holders
=============================================================================
