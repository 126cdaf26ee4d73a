SPECIFICATION FairEffects
CONSTANTS
    Commands = {c}
    FileWork = {f}
    File = f
    Cancels = {k}
    Closer = close
    Nobody = nobody
    p = p
    q = q
    Paths <- MCPaths
    Batches <- MCBatches
    MaxWrites = 1
INVARIANTS
    EffectsSettle
    ReceiptsAreCommits
PROPERTIES
    StopPrevails
    EveryoneReturns
CONSTRAINT CommandFirst
CHECK_DEADLOCK FALSE
