\* Three of four bodies at a time, on three places.
SPECIFICATION Spec
CONSTANTS
    Balls <- TwoBalls
    Statics <- TwoStatics
    Size <- Points
    MaxPlace = 2
    Extension = 0
    Slack = 2
    Multiplier = 1
    MaxSubSteps = 1
    MaxLive = 3
INVARIANTS
    TypeOK
    OverlapsAreKnown
    NothingIsPassedUnseen
    OneContactPerPair
    ContactsAreLive
    ListenerKnows
