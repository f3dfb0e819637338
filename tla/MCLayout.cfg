CONSTANTS
    Block = {b1, b2, b3}
    Inst = {i1, i2, i3}
    None = None
    MAJOR_STRIDE = 2
    MINOR_STRIDE = 1
    LOCAL_LIMIT = 1
    MaxSeq = 4
SPECIFICATION Spec
INVARIANTS LInv BothWays PpCmpAgrees
PROPERTIES ImplementsSequences
SYMMETRY MCSymmetry
