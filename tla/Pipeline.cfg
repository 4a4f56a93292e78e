CONSTANTS
    Pipelines <- Pipes
    QueueSize = 1
    Window = 2
    EarlyStop = FALSE
SPECIFICATION FairSpec
PROPERTY WaitReturns
INVARIANT OrderRestored
INVARIANT NothingLost
