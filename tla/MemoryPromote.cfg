SPECIFICATION Spec
CONSTANTS
    a = a
    b = b
    c = c
    e = e
    p1 = p1
    p2 = p2
    b1 = b1
    b2 = b2
    Procs = {p1}
    Facts = {a, b, c, e}
    NoFact = NoFact
    Near <- ABNear
    Preserved <- OnlyC
    Enforced <- OnlyE
    DomainOf <- TwoDomains
    Commands = {"promote", "dream", "signoff"}
    Buffers <- WriterBuffers
    Fronts = {"cli", "mcp"}
    Batches = {b1, b2}
    Audit <- MixedAudit
    FirstEntry = {c}
    NumDays = 2
    MaxTries = 2
    EditsRace = FALSE
    MaxOps = 3
    MaxEdits = 1
    MaxFaults = 1
    MaxTimeouts = 1
    MaxCrashes = 1
    Free = Free
    Abandoned = Abandoned
INVARIANTS
    NoDuplicateIds
    ReceiptMeansApplied
    LineageIsLive
