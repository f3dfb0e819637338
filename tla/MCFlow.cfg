CONSTANTS
    NumBlocks = 5
    INVALID = 3
    Functions <- MCFunctions
    Edits <- MCEdits
SPECIFICATION Spec
INVARIANTS GraphFollowsEdits RemovedIsolated DominatorsExact PostDominatorsExact LoopsNatural LoweredOrderSound
