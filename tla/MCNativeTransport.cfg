SPECIFICATION FairTransport
CONSTANTS
    Sizes = {1, 2, 5}
    MaxPendingBytes = 3
    MaxPendingRecords = 2
    MaxSequence = 4
    Controls = {c}
    Prompts = {p}
    Note = note
    Callbacks = {1, 2, 3}
    MaxCallbacks = 1
    MaxLifetime = 2
INVARIANTS
    TransportInv
    HonestServerKept
    NothingLeft
    EvidenceIsTruthful
PROPERTIES
    TransportSettles
CONSTRAINT Traffic
CHECK_DEADLOCK FALSE
