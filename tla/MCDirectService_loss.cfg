SPECIFICATION FairSpec
CONSTANTS
    Ops = {1, 2, 3}
    Sessions = {1}
    NoOp = NoOp
    Loss = Loss
    Main = Main
    MaxOperations = 3
    MaxSessions = 1
    MaxQueuedPrompts = 1
PROPERTIES
    LossCompletes
CONSTRAINT IdsInOrder
CHECK_DEADLOCK FALSE
