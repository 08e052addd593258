SPECIFICATION LevelFairSpec
CONSTANTS
  Vertices <- DiamondVertices
  Adj <- DiamondAdj
  Doubles <- DiamondDoubles
  Workers = {w1, w2}
  ColorLimit = 2
  Nobody = Nobody
  Uncolored = Uncolored
PROPERTY
  ErrorIsReported
