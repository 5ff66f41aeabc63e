SPECIFICATION Spec
CONSTANTS
    h1 = h1
    h2 = h2
    h3 = h3
    h4 = h4
    Handles = {h1, h2}
    Null = Null
    MaxConns = 3
    Online = TRUE
PROPERTIES
    LeaversAreNoticed
