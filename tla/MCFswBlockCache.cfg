SPECIFICATION CacheSpec
CONSTANTS
    Blocks = {b1, b2, b3, b4}
    Clients = {c1, c2, c3}
    CacheLevels = {0, 1, 3}
    MaxCacheLevel = 2
    InitialSlots = 2
    Invalid = Invalid
    Garbage = Garbage
SYMMETRY Symmetry
INVARIANTS
    PinnedBufferKeepsItsBlock
    RefcountIsHolders
    NamesAreTrue
PROPERTIES
    ReplacementOrder
