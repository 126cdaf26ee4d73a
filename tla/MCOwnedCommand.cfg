SPECIFICATION FairOwned
CONSTANTS
    Members = {1, 2, 3}
    Sweep = 2
INVARIANTS
    OwnedTypeOK
    SettledMeansGone
    NeverStrikesForeign
    EvidenceOfSettlement
    OrdinaryResultIsOwn
PROPERTIES
    CommandEnds
CHECK_DEADLOCK FALSE
