----------------------------- MODULE MCCappedRun -----------------------------
(***************************************************************************)
(* Small instances of CappedRun: every call has both caps, or some of the  *)
(* calls have none.                                                        *)
(***************************************************************************)
EXTENDS CappedRun

BothCaps == {[wall |-> 2, idle |-> 1]}
SomeCaps == BothCaps \cup {[wall |-> NoCap, idle |-> NoCap]}
=============================================================================
