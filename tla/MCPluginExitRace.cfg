CONSTANTS
    p1 = p1
    p2 = p2
    p3 = p3
    old = old
    new = new
    NoDigest = NoDigest
    Proc <- MCTwoProc
    Build <- MCOneBuild
    Code <- MCCode
    Base <- MCBase
    Versions <- MCNew
    ReadLimit = 9
    Serial = FALSE
    RebuildAnytime = FALSE
    Md5Works = TRUE
SPECIFICATION Spec
INVARIANTS
    NoLostRun
CHECK_DEADLOCK FALSE
