SPECIFICATION Spec
CONSTANTS
    Sizes = {1, 2}
    Asked <- TwoSizes
    MaxKept = 2
    MaxPool = 2
    MaxParts = 1
    MaxNested = 1
INVARIANT
    EncapsulatedIsKept
