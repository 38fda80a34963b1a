SPECIFICATION ViewSpec
CONSTANTS
  NodeIds = {1, 2, 3, 4, 5, 6, 7}
  EdgeIds = {1, 2, 3, 4, 5, 6, 7, 8, 9, 10, 11, 12, 13, 14, 15,
             16, 17, 18, 19, 20, 21, 22, 23, 24, 25, 26, 27, 28, 29, 30}
  FaceIds = {1, 2, 3}
  Atoms <- SquareAtoms
  Sites <- GroundSites
  Curves <- GroundCurves
  NodeIdsAt <- IdAt
  EdgeIdsFor <- IdFor
  Ops = {"AddIsoNode", "AddEdgeModFace", "AddEdgeNewFaces", "RemEdgeModFace",
         "RemEdgeNewFace", "ChangeEdgeGeom", "CreateArealTopoGeom"}
  Avoids = {"MovesOutOfFace", "SplitsReferredEdge", "RemovesUsedEdge", "MovesOverChord",
            "MovesOverTwin"}
INVARIANTS
  TopoGeomsReferToRows
PROPERTIES
  ImplementsPartition
CHECK_DEADLOCK FALSE
