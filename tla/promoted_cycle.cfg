SPECIFICATION Spec
CONSTANTS
    a = a
    b = b
    c = c
    Labels = {a, b, c}
    None = None
    RunIds = {u1, u2}
    MaxVersion = 1
    Reviewers = {d1}
    NodeSets <- TriangleNodes
    RelationSets <- TriangleRelations
SYMMETRY RunSymmetry
INVARIANTS
    PromotedAcyclic
CHECK_DEADLOCK FALSE
