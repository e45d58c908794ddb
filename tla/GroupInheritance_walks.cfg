SPECIFICATION FairSpec
CONSTANTS
    None = None
    Group = {1, 2, 3, 4, 5, 6}
    Proc = {p, q, r}
    InitLive <- Three
    InitSource <- Parted
    Requests <- SomeRequests
    MaxDepth = 3
    MaxInFlight = 3
INVARIANTS
    IInv
    ChainSound
    SourcesExist
    ChainExact
PROPERTY
    EveryRequestEnds
