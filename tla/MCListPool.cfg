CONSTANTS
    Handle = {h1, h2}
    Elem = {0, 1}
    Reserved = 99
    MaxLen = 4
    MaxData = 20
    MaxAdd = 1
SPECIFICATION Spec
INVARIANTS BlocksTilePool ListsIndependent
SYMMETRY MCSymmetry
