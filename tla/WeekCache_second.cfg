SPECIFICATION Spec
CONSTANTS
    week1 = week1
    Period = {week1}
    Canonical = {week1}
    NQueries = 1
    Writer = {v, w}
    Reader = {r, s}
    Kinds = {"tx"}
    BumpMayFail = FALSE
    MaxEntries = 2
    MaxClock = 1
SYMMETRY Symmetry
INVARIANT ReadYourWrites
