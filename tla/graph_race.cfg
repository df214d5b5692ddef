SPECIFICATION Spec
CONSTANTS
    Labels = {a, b}
    Types = {"requires"}
    MaxVersion = 2
    Editors = {d1, d2}
SYMMETRY RaceSymmetry
INVARIANTS
    EdgesJoinLiveNodes
CHECK_DEADLOCK FALSE
