CONSTANTS
    Message = {"search"}
    Worker = {w1}
    Clock = {0}
    QueueSize = 1
    Prefetch = 1
    MaxRetries = 1
    MaxLosses = 0
    MaxPubFaults = 2
    ShutdownAllowed = TRUE
    ResultExchange = TRUE
    None = None
    WellFormed <- MCWellFormed
    ReplyTo <- MCReplyTo
    Route <- MCRoute
    Header <- MCHeader
SPECIFICATION FairSpec
INVARIANT Custody
PROPERTY WorkersQuit
CHECK_DEADLOCK FALSE
