SPECIFICATION Spec
CONSTANTS
    n1 = n1
    n2 = n2
    n3 = n3
    n4 = n4
    NoScore = NoScore
    NoRecord = NoRecord
    Nodes <- SmallNodes
    Requires <- SmallRequires
    Gates <- SmallGates
    Threshold <- SmallThreshold
    Explicit = {n2, n3}
    Scores = {0, 1}
    Requests = {r1, r2}
INVARIANTS
    TypeOK
    GateSound
PROPERTIES
    ImplementsGating
