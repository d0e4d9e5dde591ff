SPECIFICATION Spec
CONSTANTS
    none = none
    Levels = {0, 2, 3, 4, 5}
    NoReview = none
    Unit = 10000
    GoldSuspendFails = 3
    NewBelow = 5
    TrustedMin = 20
INVARIANTS
    ReviewIsExpected
    ApprovalIsEarned
    
CHECK_DEADLOCK FALSE
