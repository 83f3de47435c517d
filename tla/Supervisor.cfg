SPECIFICATION LiveSpec
CONSTANTS
    Runs = {r1}
    ArgSets <- AllArgs
    MaxIterate = 2
    MaxRuns = 2
    MaxFaults = 1
    MaxCrashes = 1
    MaxStrays = 1
INVARIANTS
    BlindPassIsVerified
    AttemptIsBlind
    
    PassIsRecorded
PROPERTIES
    RunEnds
