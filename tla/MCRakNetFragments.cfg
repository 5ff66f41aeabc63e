SPECIFICATION MCSpec
CONSTANTS
    p1 = p1
    p2 = p2
    Peers = {p1, p2}
    PartsOf <- MCParts
    Games <- MCGames
    IdMod = 2
    MaxAgain = 1
    Null = Null
    Junk = Junk
    Datagrams <- MCDatagrams
    MaxRead = 3
INVARIANTS
    TypeOK
    GentleIsWhole
    GentleLosesOtherPackets
    PartsUsedOnce
    FramesReadInOrder
    OnlyFramedGamesMoveReleased
PROPERTY ChannelSpec
CHECK_DEADLOCK FALSE
