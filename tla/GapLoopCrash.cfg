SPECIFICATION Spec
CONSTANTS
    Procs = {p1, p2}
    Claimants = {alice, bob}
    NumCases = 2
    MaxTicket = 2
    MaxAttempts = Unbounded
    Costs <- UnitCosts
    Budget = 1
    MaxPlanned = 2
    FirstTickets <- NoTickets
    FirstRuns <- GatedRuns
    MaxOps = 3
    MaxEdits = 0
    MaxFaults = 0
    MaxTimeouts = 0
    MaxCrashes = 1
    NoOne = NoOne
    Free = Free
    Abandoned = Abandoned
    Unbounded = Unbounded
SYMMETRY Symmetry
INVARIANTS
    LeaseMatchesRow
    OneTicketPerCase
    DispatchedHasSpec
