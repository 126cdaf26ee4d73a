SPECIFICATION FairSpec
CONSTANTS
    Turns = {t1}
    Calls = {k1}
    Callers = {c1}
    Scheduled = Scheduled
    NoTurn = NoTurn
CONSTRAINT EndsWithoutError
PROPERTIES
    EveryoneReturns
CHECK_DEADLOCK FALSE
