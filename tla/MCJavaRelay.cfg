SPECIFICATION Spec
CONSTANTS
    Total <- MCTotal
    Frames <- MCFrames
    Own <- MCOwn
    InitialSize = 5
    Growth = 1
    ShortMod = 4
    Garbage <- MCGarbage
    MaxRewinds = 1
    Blocking = TRUE
    Catches = FALSE
INVARIANTS
    TypeOK
    ClosedAtEnd
    Aligned
    WedgedInHeader
PROPERTIES
    PipeSpec
