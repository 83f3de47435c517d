------------------------------- MODULE MCSkills -------------------------------
(***************************************************************************)
(* A small instance of Skills: two skills, one installed; a source that    *)
(* holds new versions of both, one that holds the installed one again, and *)
(* one with a malformed manifest.                                          *)
(***************************************************************************)
EXTENDS Skills, TLC

Two == {"review", "caveman"}
Numbers == {1, 2}
OneInstalled == [s \in Two |-> IF s = "review" THEN 1 ELSE Missing]
SomeSources ==
    {[s \in Two |-> 2], [s \in Two |-> IF s = "review" THEN 1 ELSE Missing],
     [s \in Two |-> IF s = "review" THEN 2 ELSE Malformed]}
Updates == {[s \in Two |-> IF s = "review" THEN 2 ELSE Missing],
            [s \in Two |-> IF s = "review" THEN 3 ELSE Missing]}
ThreeNumbers == {1, 2, 3}
=============================================================================
