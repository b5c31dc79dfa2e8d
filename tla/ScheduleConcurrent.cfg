SPECIFICATION Spec
CONSTANTS
    Executor = exec
    Workers = {w1}
    Receivers = {r1}
    Tokens = {t1, t2, t3}
    NoToken = none
    RetryToken = retry
    Nobody = nobody
    Spacing = 0
    Backoff = 1
    Diagnostic = 1
    LostAfter = 1
    MaxArrivals = 1
    MaxBroadcasts = 1
    MaxRefusals = 1
    MaxThrows = 1
    MaxDeaths = 0
INVARIANTS
    TypeOK
    SlotHasOwner
