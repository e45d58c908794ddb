SPECIFICATION Spec
CONSTANTS
    None = None
    Group = {1, 2, 3}
    Proc = {p, q}
    InitLive <- Three
    InitSource <- NoSource
    Requests <- TwoUpdates
    MaxDepth = 10
    MaxInFlight = 2
SYMMETRY Symmetry
INVARIANT
    Acyclic
