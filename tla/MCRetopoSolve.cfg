\* Three levels, six sweeps each as in the code, both kinds of symmetry.
SPECIFICATION FairSpec
CONSTANTS
    LevelIterations = 6
    MaxLevels = 3
    LevelCounts = {1, 2, 3}
    Symmetries = {TRUE, FALSE}
INVARIANTS
    SolveInv
    ResultsAreComplete
    ClientHasHierarchyToItself
PROPERTIES
    ReturnsUnlessWakeupLost
