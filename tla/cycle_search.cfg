SPECIFICATION SearchFairSpec
CONSTANTS
    Labels = {a, b, c}
INVARIANTS
    AnswersRight
PROPERTIES
    Terminates
CHECK_DEADLOCK FALSE
