\* Two threads in either of the two loops that use the class.
SPECIFICATION FairSpec
CONSTANTS
    Ids = {0, 1, 2, 3}
    Workers = {w1, w2}
    Uses <- SmallUses
    Nobody = Nobody
INVARIANTS
    SetInv
PROPERTIES
    ImplementsLockedSets
    CallsEnd
