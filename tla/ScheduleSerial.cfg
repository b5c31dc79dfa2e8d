SPECIFICATION FairSpec
CONSTANTS
    Executor = exec
    Workers = {w1}
    Receivers = {}
    Tokens = {t1, t2, t3}
    NoToken = none
    RetryToken = retry
    Nobody = nobody
    Spacing = 1
    Backoff = 1
    Diagnostic = 2
    LostAfter = 2
    MaxArrivals = 1
    MaxBroadcasts = 0
    MaxRefusals = 0
    MaxThrows = 0
    MaxDeaths = 1
INVARIANTS
    RowsHaveJob
PROPERTIES
    RowsAttempted
