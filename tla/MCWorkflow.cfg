SPECIFICATION MCSpec
CONSTRAINTS
    ExamBound
    PairsBound
SYMMETRY Symmetry
CONSTANTS
    ann = ann
    rob = rob
    t1 = t1
    t2 = t2
    p1 = p1
    gaap = gaap
    tax = tax
    c1 = c1
    c2 = c2
    c3 = c3
    none = none
    Experts = {ann, rob}
    Reviewers = {ann, rob}
    Tasks = {t1, t2}
    GoldTasks = {t2}
    Projects = {p1}
    ProjectOf <- MCProjectOf
    Tracks = {gaap, tax}
    TrackOf <- MCTrackOf
    Contents = {c1, c2, c3}
    AutoResults <- MCAutoResults
    HumanScores <- MCHumanScores
    MaxSubs = 3
    MaxExams = 1
    NoOne = none
    Unit = 10000
    GoldSuspendFails = 2
    NewBelow = 1
    TrustedMin = 2
    MaxPairs = 52
INVARIANTS
    TypeOK
    QualifiedInGoodStanding
    ApprovedIsVouched
    MeteredOnce
    ContentAdvancesOnce
    TrustIsEarned
    FalsePassWouldShip
    RecommendationIsEarned
PROPERTIES
    SuspensionIsFinal
    RefinesLifecycle
