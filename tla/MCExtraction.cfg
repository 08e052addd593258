SPECIFICATION ExtractionSpec
CONSTANTS
    Graphs <- AllGraphs
    PureQuads = {TRUE, FALSE}
    FillHoles = {TRUE, FALSE}
    SnapInputs <- UnsortedGraphs
    Thresh = 368
INVARIANTS
    FacesInv
    RingsAreFaces
    SmallHolesAreClosed
    SubdivisionIsWatertight
    OutputIsClean
PROPERTIES
    ReorderKeepsMesh
    ExtractionEnds
