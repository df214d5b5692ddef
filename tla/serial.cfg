SPECIFICATION FairSpec
CONSTANTS
    n1 = n1
    n2 = n2
    n3 = n3
    n4 = n4
    NoScore = NoScore
    NoRecord = NoRecord
    Nodes <- JoinNodes
    Requires <- JoinRequires
    Gates <- JoinGates
    Threshold <- JoinThreshold
    Explicit = {n1, n4}
    Scores = {0, 1}
    Requests = {r1}
INVARIANTS
    NoNodeLeftLocked
    EvidenceAgrees
PROPERTIES
    CourseCompletes
