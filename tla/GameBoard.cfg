\* One ball and two bricks, and updates may be lost; a winner is looked for in every second
\* frame.
SPECIFICATION HistorySpec
CONSTANTS
    NumBalls = 1
    NumBricks = 2
    MaxDuration = 1
    FrameRate = 2
    Threads = {t1}
    MaxEvents = 3
    MaxMoves = 0
    Quitters = {}
    Lossy = TRUE
    InitialFirst = TRUE
INVARIANTS
    WinnerClearedBoard
PROPERTIES
    ImplementsMatch
