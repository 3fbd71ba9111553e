CONSTANTS
    Target <- MCTarget
    Tables <- MCTables
    Vaddrs <- MCVaddrs
SPECIFICATION FairSpec
INVARIANT ReturnsFileOffset
PROPERTY AlwaysReturns
CHECK_DEADLOCK FALSE
