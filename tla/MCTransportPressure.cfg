CONSTANTS
    Message = {"foo", "search", "train_models"}
    Worker = {w1}
    Clock = {0, 2}
    QueueSize = 2
    Prefetch = 1
    MaxRetries = 0
    MaxLosses = 0
    MaxPubFaults = 0
    ShutdownAllowed = FALSE
    ResultExchange = TRUE
    None = None
    WellFormed <- MCWellFormed
    ReplyTo <- MCReplyTo
    Route <- MCRoute
    Header <- MCHeader
SPECIFICATION Spec
INVARIANT OnceWithoutRedelivery
