CONSTANTS
    DynamicFiles <- MCDynamicFiles
    StaticFiles <- MCStaticFiles
    Garbage <- MCGarbage
SPECIFICATION FairSpec
INVARIANTS
    TypeOK
    Conservation
    ReportClassifies
    FpsAreContradicted
    FpsAreComplete
PROPERTIES
    ReportUnlessUndecodable
CHECK_DEADLOCK FALSE
