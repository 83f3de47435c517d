SPECIFICATION FairSpec
CONSTANTS
    Procs = {p1, p2}
    Claimants = {alice, bob}
    NumCases = 2
    MaxTicket = 3
    MaxAttempts = Unbounded
    Costs <- UnitCosts
    Budget = 1
    MaxPlanned = 2
    FirstTickets <- NoTickets
    FirstRuns <- GatedRuns
    MaxOps = 2
    MaxEdits = 0
    MaxFaults = 1
    MaxTimeouts = 1
    MaxCrashes = 1
    NoOne = NoOne
    Free = Free
    Abandoned = Abandoned
    Unbounded = Unbounded
PROPERTIES
    FollowsLifecycle
    CommandsReturn
