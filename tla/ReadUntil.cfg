\* Sizes that a short stream exceeds: every stream of up to seven bytes, in all pieces.
SPECIFICATION FairSpec
CHECK_DEADLOCK FALSE
CONSTANTS
    Byte <- MCByte
    Delimiter <- EndOfMessage
    Streams <- ShortStreams
    MaxSize = 6
    Delta = 1
    MinRead = 2
    MaxRead = 4
INVARIANTS
    TypeOK
    FoundIsFirst
    BufferFits
PROPERTIES
    ImplementsFrames
    ReturnsOnceDelimited
