SPECIFICATION Spec
CONSTANTS
    QpMin = 1
    QpMax = 6
    Scores = {0, 1, 2, 3, 4, 5, 6, 7, 8}
    Tolerances = {0, 1}
    Butter = TRUE
INVARIANT ShipsClosest
CHECK_DEADLOCK FALSE
