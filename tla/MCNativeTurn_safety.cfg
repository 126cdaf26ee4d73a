SPECIFICATION Spec
CONSTANTS
    Turns = {1, 2}
    Calls = {k1, k2}
    Callers = {c1}
    Scheduled = Scheduled
    NoTurn = NoTurn
SYMMETRY InterchangeableCalls
CONSTRAINTS
    SecondTurn
    ErrorWithOneCall
INVARIANTS
    TurnInv
    ReturnedTurnIsOver
PROPERTIES
    TurnRefinement
    TurnsDoNotMix
CHECK_DEADLOCK FALSE
