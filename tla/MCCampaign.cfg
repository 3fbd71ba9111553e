CONSTANTS
    p1 = p1
    p2 = p2
    b1 = b1
    b2 = b2
    b3 = b3
    Names <- MCNames
    Builds <- MCBuilds
    Insns <- MCInsns
    Base <- MCBase
    Lines <- MCLines
    Truth <- MCTruth
    Size <- MCSize
    Garbage <- MCGarbage
    IntWidth = 4
    MaxCommands <- MCMaxCommands
SPECIFICATION Spec
INVARIANTS
    TypeOK
    ListsAreOfOneDump
    CsvIsRight
    ToolsAgree
    PrintoutIsRight
SYMMETRY Symmetry
CHECK_DEADLOCK FALSE
