CONSTANTS
    Message = {"analyze", "garbage"}
    Worker = {w1}
    Clock = {0}
    QueueSize = 1
    Prefetch = 1
    MaxRetries = 1
    MaxLosses = 1
    MaxPubFaults = 0
    ShutdownAllowed = FALSE
    ResultExchange = TRUE
    None = None
    WellFormed <- MCWellFormed
    ReplyTo <- MCReplyTo
    Route <- MCRoute
    Header <- MCHeader
SPECIFICATION FairSpec
INVARIANTS NoSilentLoss Custody
PROPERTY EverythingSettles
