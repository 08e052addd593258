SPECIFICATION Spec
CONSTANTS
    LevelIterations = 1
    MaxLevels = 1
    Sessions <- EditSession
    MaxStrokes = 1
    MaxEvents = 1
    StrokeLengths = {2}
    FourFold = {TRUE}
INVARIANTS
    NoEditSurvivesLoad
