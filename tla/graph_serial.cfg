SPECIFICATION Spec
CONSTANTS
    Labels = {a, b, c}
    Types = {"requires", "mastery_gate"}
    MaxVersion = 1
    Editors = {d1}
SYMMETRY LabelSymmetry
INVARIANTS
    TypeOK
    Acyclic
PROPERTIES
    PublishedNodesAreFrozen
CHECK_DEADLOCK FALSE
