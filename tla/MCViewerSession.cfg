\* Two levels, so that a level can be chosen, left and finished; the first
\* mesh and one more, so that a session can be replaced; one stroke.
SPECIFICATION FairSpec
CONSTANTS
    LevelIterations = 1
    MaxLevels = 2
    Sessions <- SmallSessions
    MaxStrokes = 1
    MaxEvents = 1
    StrokeLengths = {2}
    FourFold = {TRUE}
INVARIANTS
    SessionInv
    OrientationSolveIsShown
PROPERTIES
    SolveIsServed
    HandlersEnd
