SPECIFICATION Spec
CONSTANTS
    Procs = {p1, p2}
    Claimants = {alice, bob}
    NumCases = 2
    MaxTicket = 3
    MaxAttempts = 1
    Costs <- UnitCosts
    Budget = 1
    MaxPlanned = 2
    FirstTickets <- BlockedTickets
    FirstRuns <- MixedRuns
    MaxOps = 3
    MaxEdits = 1
    MaxFaults = 2
    MaxTimeouts = 1
    MaxCrashes = 1
    NoOne = NoOne
    Free = Free
    Abandoned = Abandoned
    Unbounded = Unbounded
SYMMETRY Symmetry
PROPERTIES
    NeverReopened
    AttemptsKept
    LeaseKeptFromOthers
