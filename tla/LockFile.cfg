SPECIFICATION FairSpec
CONSTANTS
    Procs = {p1, p2}
    Tokens = {t1, t2, t3}
    NoToken = NoToken
    NoFile = NoFile
    MaxRounds = 2
    MaxCrashes = 1
    PromptHolders = TRUE
CHECK_DEADLOCK TRUE
INVARIANTS
    MutualExclusion
PROPERTIES
    DropSparesOthers
    
    AbandonedIsRecovered
    CallReturns
