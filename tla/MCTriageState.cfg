CONSTANTS
    Keys = {ip1, ip2, ip3}
    HOUR = 4
    MAX_PER_HOUR = 3
    DEDUPE_WINDOW = 2
    Epoch = 2
    Horizon = 11
SPECIFICATION Spec
INVARIANTS TypeOK RateCap DedupeSpacing MemoryBounded Bookkeeping
PROPERTY ImplementsPolicy
SYMMETRY Symmetry
