----------------------------- MODULE MCGapLoop -----------------------------
(***************************************************************************)
(* Small instances of GapLoop.                                             *)
(***************************************************************************)
EXTENDS GapLoop, TLC

Symmetry == Permutations(Procs) \cup Permutations(Claimants)

NoTickets == [t \in Ids |-> NoTicketFile]

OpenRun == [base |-> "failed", rerun |-> "achieved", gated |-> TRUE]
GatedRuns == [c \in Cases |-> OpenRun]

\* The last case declares no gate.
MixedRuns == [c \in Cases |-> [OpenRun EXCEPT !.gated = c < NumCases]]

\* A hand-written ticket for the first case, blocked by one for no case of
\* the loop that is still open.
BlockedTickets ==
    [t \in Ids |-> IF t = 1 THEN [case |-> 1, closed |-> FALSE, blockedBy |-> {2}]
                   ELSE NoTicketFile]

UnitCosts == [c \in Cases |-> 1]
=============================================================================
