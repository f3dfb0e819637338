CONSTANTS
    NumBlocks = 4
    NumVars = 2
    StackMapVars = {1}
    Graphs <- MCGraphs
    MaxStmts = 3
SPECIFICATION Spec
INVARIANTS StackMapsComplete
