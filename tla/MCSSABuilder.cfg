CONSTANTS
    NumBlocks = 4
    NumVars = 2
    StackMapVars = {0, 1}
    Graphs <- MCGraphs
    MaxStmts = 3
SPECIFICATION Spec
INVARIANTS UsesSeeLastDef WellFormed StacksBalanced StackMapsComplete
PROPERTIES LookupsEnd
