CONSTANTS
    p1 = p1
    p2 = p2
    p3 = p3
    old = old
    new = new
    NoDigest = NoDigest
    Proc <- MCTwoProc
    Build <- MCBuild
    Code <- MCCode
    Base <- MCBase
    Versions <- MCBoth
    ReadLimit = 9
    Serial = FALSE
    RebuildAnytime = FALSE
    Md5Works = TRUE
SPECIFICATION Spec
INVARIANTS
    SoundCapture
    CapturedWasRun
PROPERTY LossNeedsOverlap
CHECK_DEADLOCK FALSE
