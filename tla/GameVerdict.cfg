\* Nothing is lost, and still the two players may be told the same.
SPECIFICATION Spec
CONSTANTS
    NumBalls = 1
    NumBricks = 1
    MaxDuration = 1
    FrameRate = 2
    Threads = {t1}
    MaxEvents = 3
    MaxMoves = 0
    Quitters = {}
    Lossy = FALSE
    InitialFirst = TRUE
INVARIANTS
    VerdictsAgree
