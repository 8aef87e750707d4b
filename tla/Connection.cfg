\* Writes may be cut, one message holds end_of_message in its bytes, either end may
\* close, and the threads of send are scheduled.
SPECIFICATION FairSpec
CHECK_DEADLOCK FALSE
CONSTANTS
    Threads = {t1, t2}
    t1 = t1
    t2 = t2
    MaxCalls <- HostCalls
    Closers = {"host", "client"}
    Size <- Sizes
    PartialWrites = TRUE
    Embedding = {2}
INVARIANTS
    TypeOK
    ReceivedWasSent
PROPERTIES
    ImplementsChannel
    OnlyFollowersLost
    SendingClears
