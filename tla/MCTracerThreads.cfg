CONSTANTS
    Target <- MCTarget
    Layouts <- MCLayout
    Length <- MCLength
    Rewrites <- MCNoRewrites
    Blocks <- MCBlocks
    MaxVcpus = 2
    VcpuBound = 2
SPECIFICATION Spec
INVARIANTS
    OffsetsExact

CHECK_DEADLOCK FALSE
