\* A counter of one bit instead of sixteen, so that it wraps at the third member.
SPECIFICATION ExtractGraphFairSpec
CONSTANTS
    Ids = {0, 1, 2, 3, 4, 5}
    Workers = {w1, w2, w3}
    Nobody = Nobody
    Inputs <- SmallInputs
    CounterValues = 2
    Placements <- Layouts
    Creases <- MarkedVertices
    Thresh = 368
INVARIANTS
    ClusterInv
    GraphIsKept
PROPERTIES
    ImplementsGreedyCollapse
    UsesLockedSets
    CollapseEnds
