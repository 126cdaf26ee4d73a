SPECIFICATION Spec
CONSTANTS
    Members = {1, 2, 3, 4}
    Sweep = 1
INVARIANT
    NeverGivesUp
CHECK_DEADLOCK FALSE
