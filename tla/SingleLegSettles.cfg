SPECIFICATION FairSpec
CONSTANTS
    Requests = {r1, r2}
    Indices = {nf}
    IndexOf <- OneIndex
    None = none
    MaxRecorded = 2
    MaxFull = 1
    MaxTombstones = 1
    Retention = 1
    MaxClosed = 1
    MaxHistory = 1
    AlwaysFit = 1
    MaxEntries = 2
    MaxDecisions = 1
    MaxDays = 1
    MaxTroubles = 1
CHECK_DEADLOCK FALSE
PROPERTIES
    TapAnswered
