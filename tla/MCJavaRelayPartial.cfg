SPECIFICATION Spec
CONSTANTS
    Total <- ShortTotal
    Frames <- ShortFrames
    Own = {}
    InitialSize = 5
    Growth = 1
    ShortMod = 4
    Garbage <- MCGarbage
    MaxRewinds = 1
    Blocking = FALSE
    Catches = TRUE
INVARIANT
    NothingTwice
