SPECIFICATION AccountsSpec
CONSTRAINT TrailBound
SYMMETRY Symmetry
CONSTANTS
    w1 = w1
    w2 = w2
    ann = ann
    bob = bob
    cat = cat
    b1 = b1
    b2 = b2
    none = none
    Writers = {w1, w2}
    Users = {ann, bob, cat}
    Bodies <- MCBodies
    MaxSeq = 5
    NoOne = none
INVARIANTS
    AccountsTypeOK
    SerialTrailVerifies
    DamageIsDetected
    UsersMatchTrail
    BootstrapOnce
    RevocationBites
PROPERTIES
    BrokenStaysBroken
CHECK_DEADLOCK FALSE
