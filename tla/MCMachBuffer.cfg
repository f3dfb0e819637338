CONSTANTS
    NumBlocks = 1
    MaxLabels = 3
    MaxOff = 4
    U32_MAX = 1000
    Sizes = {2}
    Kind <- MCKind
    ClientKind = {"short"}
    MaxPos <- MCMaxPos
    MaxNeg <- MCMaxNeg
    PatchSize <- MCPatchSize
    VeneerSize <- MCVeneerSize
    WorstVeneerSize = 3
    VeneerKind <- MCVeneerKind
    VeneerFixupDelta <- MCVeneerFixupDelta
    NoKind = "none"
    Align = 2
    TrapSize = 2
    Const = {"c"}
    ConstSize <- MCConstSize
    ConstAlign <- MCConstAlign
    LABEL_LIST_THRESHOLD = 1
    Decisions = {TRUE, FALSE}
    Distances = {4}
    Forces = {TRUE, FALSE}
SPECIFICATION Spec
INVARIANTS
    TypeOK NoAliasCycle NoLabelPastTail LabelsAtTail LabelsAtBranch BranchesOrdered
    FixupsInBuffer BranchFixup FInv AllLabelsResolved
PROPERTIES LabelsNeverAdvance CallsReturn
