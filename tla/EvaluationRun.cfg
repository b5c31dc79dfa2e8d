SPECIFICATION FairSpec
CONSTANTS
    d1 = d1
    d2 = d2
    Sessions = {d1, d2}
    Total <- Unequal
    Labelable <- UnequalLabelable
    None = none
    Torn = torn
    MaxTroubles = 1
INVARIANTS
    TypeOK
    LabelsOnServer
    CursorCovered
    DoneIsStored
PROPERTY EverySessionDone
