CONSTANTS
    Target <- MCTarget
    Layouts <- MCLayouts
    Length <- MCLength
    Rewrites <- MCRewrites
    Blocks <- MCBlocks
    MaxVcpus = 2
    VcpuBound = 1
SPECIFICATION Spec
INVARIANTS
    TypeOK
    OffsetsExact
    LengthsExact
    ExecutedDiscovered
    OffsetsFromSnapshot
PROPERTY ImplementsTraceLog
CHECK_DEADLOCK FALSE
