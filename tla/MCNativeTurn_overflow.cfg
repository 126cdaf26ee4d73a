SPECIFICATION Spec
CONSTANTS
    Turns = {t1}
    Calls = {k1}
    Callers = {c1}
    Scheduled = Scheduled
    NoTurn = NoTurn
PROPERTY OverflowSettles
CHECK_DEADLOCK FALSE
