\* Mouse columns outside of the field, at its borders, and next to each other.
SPECIFICATION Spec
CONSTANT Columns <- MouseColumns
INVARIANTS
    BricksDrawnApart
    FieldIsClosed
    BallsStartFree
    PaddlesInField
    SameBoard
