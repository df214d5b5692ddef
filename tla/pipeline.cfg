SPECIFICATION Spec
CONSTANTS
    Requests = {q1, q2}
    None = None
    Parts = {"settings", "runs", "outcomes", "design", "effort"}
    s1 = s1
    s2 = s2
    s3 = s3
    k1 = k1
    Keys = {k1, k2}
    EnvKey = EnvKey
    Patches <- SmallPatches
    Stages = {"intake", "clo_review", "assessment_redesign"}
    Members = {m1, m2}
    MaxRuns = 4
    Wordings = {s1, s2, s3}
    Intakes <- SmallIntakes
    Reviews <- SmallReviews
    Subtopics = {2}
    MaxOutcomes = 3
    MaxApprovals = 4
    Columns = {"rubric", "gate"}
    Words = {w1}
SYMMETRY Symmetry
INVARIANTS
    TypeOK
    SettingsAddUp
    FirstWordingIsKept
    PartsSurvive
PROPERTIES
    UpstreamNeverGoesBack
CHECK_DEADLOCK FALSE
