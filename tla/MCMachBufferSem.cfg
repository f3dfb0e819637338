CONSTANTS
    NumBlocks = 2
    MaxLabels = 3
    MaxOff = 20
    MaxProgram = 6
    Known = {TRUE}
    MaxInsts = 1
    U32_MAX = 1000
    Sizes = {2}
    Kind <- MCKind
    ClientKind = {"short"}
    MaxPos <- MCMaxPos
    MaxNeg <- MCMaxNeg
    PatchSize <- MCPatchSize
    VeneerSize <- MCVeneerSize
    WorstVeneerSize = 3
    VeneerKind <- MCVeneerKind
    VeneerFixupDelta <- MCVeneerFixupDelta
    NoKind = "none"
    Align = 2
    TrapSize = 2
    Const = {}
    ConstSize <- MCConstSize
    ConstAlign <- MCConstAlign
    LABEL_LIST_THRESHOLD = 1
    Decisions = {FALSE}
    Distances = {4}
    Forces = {FALSE}
SPECIFICATION SemSpec
INVARIANTS SemanticsPreserved
CHECK_DEADLOCK FALSE
