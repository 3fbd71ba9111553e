CONSTANTS
    N = 3
    Built <- MCAll
    Absolute = TRUE
    RerunAnytime = FALSE
    MaxStarts = 2
    MaxBuilds = 2
SPECIFICATION Spec
INVARIANTS
    TypeOK
    OriginalsSurvive
    SessionsTrace
    SessionsApart
    WholePassesMatch
CHECK_DEADLOCK FALSE
