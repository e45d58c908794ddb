SPECIFICATION Spec
CONSTANTS
    week1 = week1
    Period = {week1}
    Canonical = {week1}
    NQueries = 2
    Writer = {v, w}
    Reader = {r, s}
    Kinds = {"tx", "silent", "handler"}
    BumpMayFail = TRUE
    MaxEntries = 2
    MaxClock = 2
SYMMETRY Symmetry
INVARIANTS
    IInv
    FreshUnlessSecondShared
