SPECIFICATION Spec
SYMMETRY AnyHandles
CONSTANTS
    h1 = h1
    h2 = h2
    h3 = h3
    h4 = h4
    Handles = {h1, h2, h3, h4}
    Null = Null
    MaxConns = 4
    Online = FALSE
INVARIANTS
    PacketsReachOwnPeer
