---------------------------- MODULE GapLifecycle ----------------------------
(***************************************************************************)
(* The life of a gap as the ledger promises it: a case is dispatched any   *)
(* number of times, and once it is closed, exhausted or unverifiable it    *)
(* stays so.  A verify may close a case that was never dispatched.         *)
(***************************************************************************)
CONSTANT Cases

VARIABLE gap    \* the state of each case's row

Live == {"absent", "open", "dispatched"}
Final == {"closed", "exhausted", "unverifiable"}

Init == gap = [c \in Cases |-> "absent"]

Dispatch(c) == gap[c] \in Live /\ gap' = [gap EXCEPT ![c] = "dispatched"]

\* Close, exhaust, or find that no gate is declared.
Settle(c) == gap[c] \in Live /\ \E s \in Final : gap' = [gap EXCEPT ![c] = s]

Next == \E c \in Cases : Dispatch(c) \/ Settle(c)

Spec == Init /\ [][Next]_gap
=============================================================================
