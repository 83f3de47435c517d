------------------------- MODULE MCCanonicalMemory -------------------------
(***************************************************************************)
(* Small instances of CanonicalMemory over the facts a, b, c and e.        *)
(***************************************************************************)
EXTENDS CanonicalMemory, TLC

CONSTANTS a, b, c, e, p1, p2, b1, b2

Symmetry == Permutations(Procs)

NoFacts == {}
ABNear == {<<a, b>>}
ACNear == {<<a, c>>}
OnlyE == {e}
OnlyC == {c}

\* A fact near one that is there, and one bound to a check.
WriterBuffers == {<<b, e>>}
OneBuffer == {<<a>>}
NoBuffers == {}

OneDomain == [f \in Facts |-> 1]
TwoDomains == [f \in Facts |-> IF f = b THEN 2 ELSE 1]

NoAudit == [x \in Batches |-> [v \in Versions |-> <<>>]]

Verd(f, v) == [fact |-> f, verdict |-> v, old |-> NoFact]
Dup(f, g) == [fact |-> f, verdict |-> "duplicate", old |-> g]

\* The first text of b1 promotes facts of two domains, one of them twice; the
\* second, and b2, call a and b better wordings of each other, and bring up a
\* fact bound to a check.
MixedAudit ==
    [x \in Batches |-> [v \in Versions |->
        IF x = b1 /\ v = 1
        THEN <<Verd(a, "promote"), Verd(b, "promote"), Verd(a, "promote")>>
        ELSE IF x = b1 THEN <<Dup(a, b), Verd(e, "promote"), Verd(c, "reject")>>
        ELSE <<Dup(b, a), Dup(a, c), Verd(e, "conflict")>>]]

\* A fact bound to a check, called a better wording of c.
EnforcedAudit == [x \in Batches |-> [v \in Versions |-> <<Dup(e, c)>>]]

\* A fact that shares its beginning with c.
NearAudit == [x \in Batches |-> [v \in Versions |-> <<Verd(a, "promote")>>]]
=============================================================================
