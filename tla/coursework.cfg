SPECIFICATION Spec
CONSTANTS
    Requests = {q1, q2}
    None = None
    Parts = {"projects", "rubric", "attendance", "content", "enrollment", "editing", "adaptive", "completing", "accounts", "quizzes"}
    Handins = {x1, x2}
    Limits = {0, 1}
    l1 = l1
    l2 = l2
    present = present
    absent = absent
    Learners = {l1, l2}
    Marks = {present, absent}
    Batches <- SmallBatches
    Bodies = {b1, b2}
    MaxItemVersion = 3
    Assets = {a1}
    Labels = {x1, x2}
    MaxEdition = 2
    Teachers = {t1}
    n1 = n1
    n2 = n2
    n3 = n3
    Nodes <- PathNodes
    Requires <- PathRequires
    Gates <- PathGates
    Explicit = {n2}
    Threshold <- PathThreshold
    Scores = {0, 1}
    NoScore = NoScore
    NoRecord = NoRecord
    Remedial = {n2}
    Place <- PathPlace
    DefaultThreshold = 1
    MaxOverrides = 2
    Roles = {"learner", "teacher"}
    Grants <- SmallGrants
    Questions = {x1, x2}
    Answers = {v1}
SYMMETRY Symmetry
INVARIANTS
    TypeOK
    LimitHolds
    GradesAgree
    RollShowsLast
    VersionNamesOneText
    UploadedIsStored
    PinIsWhole
    AdviceLeadsOn
    AccessIsAsGranted
CHECK_DEADLOCK FALSE
