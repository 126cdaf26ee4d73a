SPECIFICATION FairOwners
CONSTANTS
    Processes = {1, 2, 3}
    Tasks = {1, 2, 3}
    Probed = {1, 2}
    Limit = 2
    MaxOutput = 4
INVARIANTS
    DarwinOwnsItsGroup
    WindowsOwnsAll
    ProbeIsSound
PROPERTIES
    TreesEnd
CHECK_DEADLOCK FALSE
