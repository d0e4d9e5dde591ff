SPECIFICATION MCSpec
CONSTANTS
    ann = ann
    rob = rob
    t1 = t1
    g1 = g1
    c1 = c1
    c2 = c2
    w1 = w1
    w2 = w2
    none = none
    Experts = {ann, rob}
    Reviewers = {ann, rob}
    Examined = {ann}
    Tasks = {t1, g1}
    GoldTasks = {g1}
    Contents = {c1, c2}
    AutoResults <- MCAutoResults
    MaxSubs = 2
    Workers = {w1, w2}
    NoOne = none
    Unit = 10000
    GoldSuspendFails = 1
    NewBelow = 1
    TrustedMin = 2
INVARIANTS
    TypeOK
    BilledAtMostOnce
    ApprovalIsBilled
    ApprovedIsVouched
    
    QualifiedInGoodStanding
PROPERTIES
    SuspensionIsFinal
    RequestsEnd
CHECK_DEADLOCK FALSE
