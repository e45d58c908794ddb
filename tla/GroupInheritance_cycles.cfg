SPECIFICATION Spec
CONSTANTS
    None = None
    Group = {1, 2, 3, 4}
    Proc = {p, q, r}
    InitLive <- Three
    InitSource <- LineOf3
    Requests <- CycleRequests
    MaxDepth = 2
    MaxInFlight = 3
SYMMETRY Symmetry
PROPERTIES
    CyclesHaveCause
