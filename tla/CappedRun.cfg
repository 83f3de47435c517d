SPECIFICATION LiveSpec
CONSTANTS
    Calls = {c1, c2}
    Pids = {7}
    Caps <- SomeCaps
    NoCap = NoCap
    NoFile = NoFile
    Horizon = 2
    MaxWrites = 1
    MaxForks = 1
    MaxFaults = 1
    MaxCrashes = 1
INVARIANTS
    
    IdleNeedsSilence
    
PROPERTIES
    CallReturns
