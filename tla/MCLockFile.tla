----------------------------- MODULE MCLockFile -----------------------------
(***************************************************************************)
(* LockFile on small instances.  A process that creates the file needs a   *)
(* token that none of the others and none of their renamed files carries,  *)
(* so three tokens are enough for two processes and five for three.        *)
(***************************************************************************)
EXTENDS LockFile, TLC

Symmetry == Permutations(Procs) \cup Permutations(Tokens)
=============================================================================
