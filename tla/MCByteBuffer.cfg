SPECIFICATION MCSpec
CONSTANTS
    ShortMod = 120
    AllocSizes <- MCAllocSizes
    PoolSizes <- MCPoolSizes
    Lengths <- MCLengths
    Values <- MCValues
    MaxSize = 260
    MaxOps = 3
    Packets <- MCPackets
    Expansion = 6
    CHUNK = 30
    Streams <- MCStreams
    Byte = 16
    Trials <- MCTrials
INVARIANTS
    TypeOK
    ContentKept
    FramedPacketParses
    EncapsulatedKept
    SizeAnnounced
    TokenKeepsStream
    VarIntsReadBack
    FixedReadBack
    HashIsSignedHex
    Base64ReadsBack
PROPERTIES
    OnlyLongStringsOverrun
