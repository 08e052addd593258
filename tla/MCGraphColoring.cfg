SPECIFICATION LevelFairSpec
CONSTANTS
  Vertices <- PathVertices
  Adj <- PathAdj
  Doubles <- PathDoubles
  Workers = {w1, w2}
  ColorLimit = 2
  Nobody = Nobody
  Uncolored = Uncolored
INVARIANTS
  TypeOK
  EveryVertexHasItsPlace
  ProperColoring
  NoCircularWait
PROPERTIES
  ImplementsGreedyColoring
  ColoringEnds
