SPECIFICATION FairSpec
CONSTANTS
    Attempts = {a1, a2}
    KeyOf <- SharedKey
    None = none
    FinisherRoom = 1
    ControlRoom = 1
    MaxDeaths = 1
    MaxFaults = 1
CHECK_DEADLOCK FALSE
INVARIANTS
    OneOwnerPerKey
PROPERTIES
    CompletedIsSettled
    SubmitReturns
