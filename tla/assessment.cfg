SPECIFICATION Spec
CONSTANTS
    Requests = {q1, q2}
    None = None
    Submissions = {x1, x2}
    Packages = {p1, p2}
    MaxEvaluations = 2
    Required = {n1}
    Texts = {x1, x2}
    Evidence <- NoneOrFull
    Visibilities = {x1, x2}
    Credits = {p1, p2}
    Purposes = {x1, x2}
    MaxApprovals = 2
SYMMETRY Symmetry
INVARIANTS
    TypeOK
    NumbersAscend
    GradedIsFinal
    ApprovedWasRead
    MirrorIsLatest
    ConsentIsTheLearners
    SpendingIsBounded
PROPERTIES
    SubmittedIsFrozen
    CompletionCounts
CHECK_DEADLOCK FALSE
