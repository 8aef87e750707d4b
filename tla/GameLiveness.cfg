\* Fair scheduling of every thread; nothing is lost, the board arrives first.
SPECIFICATION FairSpec
CONSTANTS
    NumBalls = 1
    NumBricks = 1
    MaxDuration = 1
    FrameRate = 1
    Threads = {t1, t2}
    MaxEvents = 2
    MaxMoves = 0
    Quitters = {}
    Lossy = FALSE
    InitialFirst = TRUE
PROPERTIES
    BreakReachesPeer
    MatchEnds
