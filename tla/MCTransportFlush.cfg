CONSTANTS
    Message = {"search"}
    Worker = {w1}
    Clock = {0}
    QueueSize = 1
    Prefetch = 1
    MaxRetries = 0
    MaxLosses = 0
    MaxPubFaults = 0
    ShutdownAllowed = TRUE
    ResultExchange = TRUE
    None = None
    WellFormed <- MCWellFormed
    ReplyTo <- MCReplyTo
    Route <- MCRoute
    Header <- MCHeader
SPECIFICATION Spec
INVARIANTS FlushComplete
CHECK_DEADLOCK FALSE
