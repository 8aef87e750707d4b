\* Nothing is cut and nobody closes: what one read discards.
SPECIFICATION Spec
CHECK_DEADLOCK FALSE
CONSTANTS
    Threads = {t1, t2}
    t1 = t1
    t2 = t2
    MaxCalls <- HostCalls
    Closers = {}
    Size <- Sizes
    PartialWrites = FALSE
    Embedding = {}
PROPERTY ReadKeepsRest
