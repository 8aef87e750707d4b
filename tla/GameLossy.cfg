\* Any message may be lost and the board may be overtaken; a paddle may be moved, so that
\* updates of paddles alone are sent as well.
SPECIFICATION Spec
CONSTANTS
    NumBalls = 1
    NumBricks = 1
    MaxDuration = 1
    FrameRate = 1
    Threads = {t1, t2}
    MaxEvents = 3
    MaxMoves = 1
    Quitters = {}
    Lossy = TRUE
    InitialFirst = FALSE
SYMMETRY ThreadSymmetry
INVARIANTS
    OwnScoreCovered
    BreakNotForgotten
    ShownBrickIsSolid
PROPERTIES
    OwnScoreAuthority
    PlayedBoardStays
