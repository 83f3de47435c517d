SPECIFICATION FairSpec
CONSTANTS
    a = a
    b = b
    c = c
    e = e
    p1 = p1
    p2 = p2
    b1 = b1
    b2 = b2
    Procs = {p1, p2}
    Facts = {a, b, c, e}
    NoFact = NoFact
    Near <- ABNear
    Preserved <- NoFacts
    Enforced <- OnlyE
    DomainOf <- OneDomain
    Commands = {"consolidate", "dream", "signoff"}
    Buffers <- WriterBuffers
    Fronts = {"mcp"}
    Batches = {}
    Audit <- NoAudit
    FirstEntry = {a}
    NumDays = 1
    MaxTries = 2
    EditsRace = FALSE
    MaxOps = 3
    MaxEdits = 0
    MaxFaults = 1
    MaxTimeouts = 0
    MaxCrashes = 1
    Free = Free
    Abandoned = Abandoned
INVARIANTS
    ReportedIsStored
    SignedOffOnce
PROPERTIES
    EntriesKept
    
    CommandsReturn
