SPECIFICATION Spec
CONSTANTS
    Procs = {p1, p2, p3}
    Tokens = {t1, t2, t3, t4, t5}
    NoToken = NoToken
    NoFile = NoFile
    MaxRounds = 1
    MaxCrashes = 1
    PromptHolders = TRUE
SYMMETRY Symmetry
CHECK_DEADLOCK TRUE
INVARIANT MutualExclusion
