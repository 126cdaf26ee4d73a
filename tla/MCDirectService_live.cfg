SPECIFICATION FairSpec
CONSTANTS
    Ops = {1, 2, 3, 4, 5}
    Sessions = {1, 2}
    NoOp = NoOp
    Loss = Loss
    Main = Main
    MaxOperations = 4
    MaxSessions = 2
    MaxQueuedPrompts = 1
PROPERTIES
    WorkSettles
    ServiceRefinement
CONSTRAINTS
    IdsInOrder
    CreationsFirst
CHECK_DEADLOCK FALSE
