SPECIFICATION FairSpec
CONSTANTS
    d1 = d1
    d2 = d2
    Decisions = {d1}
    Exiting = {d1}
    StructureOf <- MCStructureOf
    ManualPatches = {m1, m2}
    None = none
    MaxOpen = 1
    MaxPrepares = 1
    MaxTaps = 2
    MaxTroubles = 1
PROPERTIES
    FillSettles
    CommitArrives
CHECK_DEADLOCK FALSE
