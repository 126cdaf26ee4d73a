SPECIFICATION Spec
CONSTANTS
    Ops = {o1, o2, o3, o4, o5}
    Sessions = {s1, s2}
    NoOp = NoOp
    Loss = Loss
    Main = Main
    MaxOperations = 5
    MaxSessions = 2
    MaxQueuedPrompts = 1
SYMMETRY Symmetry
INVARIANTS
    TypeOK
    SessionExclusion
    QueueAccounting
    ReuseIsJustified
    OutcomesAreTruthful
PROPERTIES
    DispatchDiscipline
    CancellationNotOverruled
    TerminalIsFinal
    LossPublishesLast
CHECK_DEADLOCK FALSE
