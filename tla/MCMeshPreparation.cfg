SPECIFICATION PreparationSpec
CONSTANTS
  Deg = 3
  Meshes <- AllMeshes
  VertexCount <- Counts
  Threads <- ThreadsOf
  Position <- Positions
  MaxLengths = {5000, 9300}
  Clouds <- SmallClouds
  SmallestShare = 3
  MaxDepth = 3
  LargestHierarchy = 4
  Workers = {w1, w2, w3}
  INVALID = INVALID
SYMMETRY Symmetry
INVARIANTS
  ListInv
  BuildsEdgeMap
  SubdivisionConforms
  EdgesAreShort
  PointLinksAreMutual
  LevelsCover
  LinksConform
