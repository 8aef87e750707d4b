\* As GameLossy, but with moves of both paddles, bricks of one or two points, a winner looked
\* for in every second frame, and a host that may abort the match between two frames.
SPECIFICATION Spec
CONSTANTS
    NumBalls = 1
    NumBricks = 1
    MaxDuration = 2
    FrameRate = 2
    Threads = {t1, t2}
    MaxEvents = 2
    MaxMoves = 2
    Quitters = {"host"}
    Lossy = TRUE
    InitialFirst = FALSE
SYMMETRY ThreadSymmetry
INVARIANTS
    TypeOK
    OneController
    PaddlePtrsRoles
    WinnerKnowsBoard
PROPERTIES
    BrokenBrickIsScored
