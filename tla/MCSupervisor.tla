---------------------------- MODULE MCSupervisor ----------------------------
(***************************************************************************)
(* Small instances of Supervisor: which arguments the runs are given.      *)
(***************************************************************************)
EXTENDS Supervisor, TLC

Codex(n, b, c) ==
    [client |-> "codex", iterate |-> n, blind |-> b, capped |-> c,
     sandboxed |-> TRUE, template |-> "none"]
Supervised(n, b, s, t) ==
    [client |-> "supervisor", iterate |-> n, blind |-> b, capped |-> TRUE,
     sandboxed |-> s, template |-> t]

\* A single shot and a loop by hand; supervised loops with every template.
AllArgs ==
    {Codex(1, FALSE, TRUE), Codex(2, TRUE, TRUE), Codex(2, FALSE, FALSE)}
        \cup {Supervised(2, TRUE, TRUE, t) : t \in {"none", "sequential-reviewer", "other"}}
        \cup {Supervised(2, FALSE, FALSE, "sequential-reviewer")}

BlindArgs == {Codex(2, TRUE, TRUE), Supervised(2, TRUE, TRUE, "sequential-reviewer")}

Symmetry == Permutations(Runs)
=============================================================================
