SPECIFICATION Spec
CONSTRAINT LittleGrowth
CONSTANTS
    Sizes = {1, 2}
    Asked <- TwoSizes
    MaxKept = 2
    MaxPool = 3
    MaxParts = 1
    MaxNested = 1
INVARIANTS
    TypeOK
    OnlyEarlyReleaseShares
    PoolGrowsByLossOnly
