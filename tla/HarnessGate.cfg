SPECIFICATION Spec
CONSTANTS
    Verifiers = {v1, v2}
    Snapshotters = {s1}
    Versions <- ThreeVersions
    Absent = Absent
    FirstVersion <- base
    Labels <- TwoLabels
    RedOf <- RedLabels
    ClaimSets <- Claims
    Unmarked = Unmarked
    Free = Free
    Abandoned = Abandoned
    MaxRuns = 3
    MaxFaults = 1
    MaxCrashes = 1
    base = base
    good = good
    bad = bad
    l1 = l1
    l2 = l2
SYMMETRY Symmetry
INVARIANTS
    AcceptIsEarned
    TargetRestored
    BaselineIsReal
