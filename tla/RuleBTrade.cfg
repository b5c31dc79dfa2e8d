SPECIFICATION Spec
CONSTANTS
    d1 = d1
    d2 = d2
    Decisions = {d1, d2}
    Exiting = {d1}
    StructureOf <- MCStructureOf
    ManualPatches = {m1}
    None = none
    MaxOpen = 1
    MaxPrepares = 1
    MaxTaps = 1
    MaxTroubles = 1
INVARIANTS
    TypeOK
    LimitHolds
    JournalTellsRow
    ClaimsProven
    OutcomeTrue
PROPERTIES
    CloseStands
CHECK_DEADLOCK FALSE
