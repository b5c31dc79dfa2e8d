SPECIFICATION Spec
CONSTANTS
    Attempts = {a1, a2, a3}
    KeyOf <- DistinctKeys
    None = none
    FinisherRoom = 1
    ControlRoom = 1
    MaxDeaths = 1
    MaxFaults = 1
CHECK_DEADLOCK FALSE
SYMMETRY AttemptSymmetry
INVARIANTS
    TypeOK
    OneCompletion
