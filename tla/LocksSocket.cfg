\* One thread of each kind: what else runs while the socket is closed.
SPECIFICATION Spec
CONSTANTS
    Fillers = {f1}
    Senders = {s1}
    f1 = f1
    s1 = s1
INVARIANT CloseIsAlone
