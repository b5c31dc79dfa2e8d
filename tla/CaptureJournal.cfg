SPECIFICATION FairSpec
CONSTANTS
    Attempts = {a1}
    Channels <- TwoChannels
    Expectations <- Varied
    Reconciler = reconciler
    None = none
    MaxDeaths = 2
    MaxFaults = 2
CHECK_DEADLOCK FALSE
INVARIANT TypeOK
PROPERTIES
    DurableEvidence
    OutcomeIsEvident
    FilesReleased
