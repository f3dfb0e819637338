CONSTANTS
    WordMod = 65536
    Offsets <- MCOffsets
SPECIFICATION PatchSpec
INVARIANTS PatchLands RangesExact VeneerLayout
CHECK_DEADLOCK FALSE
