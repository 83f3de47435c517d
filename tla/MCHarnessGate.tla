--------------------------- MODULE MCHarnessGate ---------------------------
(***************************************************************************)
(* Small instances of HarnessGate: the target fails one label, one         *)
(* candidate fixes it, one breaks another label and fixes nothing.         *)
(***************************************************************************)
EXTENDS HarnessGate, TLC

CONSTANTS base, good, bad, l1, l2

TwoLabels == {l1, l2}
ThreeVersions == {base, good, bad}
RedLabels ==
    [c \in Contents |-> IF c = base THEN {l1} ELSE IF c = good THEN {} ELSE {l1, l2}]
Claims == {{}, {l1}, {l2}}
Symmetry == Permutations(Verifiers) \cup Permutations(Snapshotters)
=============================================================================
