CONSTANTS
    p1 = p1
    p2 = p2
    p3 = p3
    old = old
    new = new
    NoDigest = NoDigest
    Proc <- MCProc
    Build <- MCBuild
    Code <- MCCode
    Base <- MCBase
    Versions <- MCBoth
    ReadLimit = 1
    Serial = TRUE
    RebuildAnytime = FALSE
    Md5Works = TRUE
SPECIFICATION Spec
INVARIANTS
    TypeOK
    NoLostRun
    FormatAgrees
PROPERTY ImplementsStore
SYMMETRY MCSymmetry
CHECK_DEADLOCK FALSE
