SPECIFICATION Spec
CONSTANTS
    a = a
    b = b
    c = c
    Labels = {a, b, c}
    None = None
    RunIds = {u1, u2, u3}
    MaxVersion = 2
    Reviewers = {d1}
    NodeSets <- PairNodes
    RelationSets <- PairRelations
SYMMETRY RunSymmetry
INVARIANTS
    TypeOK
    OneNodePerKey
    SnapshotIsCurrent
    NoOppositeEdges
PROPERTIES
    UnpinnedSparesPublished
CHECK_DEADLOCK FALSE
