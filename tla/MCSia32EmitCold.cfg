CONSTANTS
    NumBlocks = 3
    MaxLabels = 30
    MaxOff = 400
    Prologue <- MCPrologue
    Families <- FamilyCold
    U32_MAX <- Unlimited
    Sizes = {2}
    Kind <- LabelUse
    ClientKind <- InstLabelUse
    MaxPos <- max_pos_range
    MaxNeg <- max_neg_range
    PatchSize <- patch_size
    VeneerSize <- veneer_size
    WorstVeneerSize <- worst_case_veneer_size
    VeneerKind <- veneer_kind
    VeneerFixupDelta <- veneer_fixup_delta
    NoKind = "none"
    Align <- LABEL_USE_ALIGN
    TrapSize <- TRAP_OPCODE_len
    Const = {}
    ConstSize <- NoConsts
    ConstAlign <- NoConsts
    LABEL_LIST_THRESHOLD = 100
    Decisions = {FALSE}
    Distances = {}
    Forces = {FALSE}
SPECIFICATION EmitSpec
INVARIANTS BBEdgesFromBlocks
