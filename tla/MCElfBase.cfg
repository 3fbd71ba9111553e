CONSTANTS
    Files <- MCFiles
    Half <- MCHalf
SPECIFICATION FairSpec
INVARIANTS
    TypeOK
    BaseLocatesCode
    ShortNeverReturns
PROPERTIES
    AlwaysEnds
CHECK_DEADLOCK FALSE
