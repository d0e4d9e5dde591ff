SPECIFICATION Spec
SYMMETRY Symmetry
CONSTANTS
    w1 = w1
    w2 = w2
    b1 = b1
    b2 = b2
    none = none
    Writers = {w1, w2}
    Bodies = {b1, b2}
    MaxSeq = 5
    NoOne = none
INVARIANTS
    TrailVerifies
CHECK_DEADLOCK FALSE
