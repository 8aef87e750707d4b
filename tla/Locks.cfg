\* Two threads that fill an update and two that send one, every one of them scheduled.
SPECIFICATION FairSpec
CONSTANTS
    Fillers = {f1, f2}
    Senders = {s1, s2}
    f1 = f1
    f2 = f2
    s1 = s1
    s2 = s2
INVARIANTS
    TypeOK
    LockOrder
    NoCircularWait
    NothingRefused
PROPERTY CloseReturns
