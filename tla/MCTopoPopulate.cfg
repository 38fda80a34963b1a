SPECIFICATION PopulateSpec
CONSTANTS
  NodeIds = {1, 2, 3, 4, 5, 6, 7, 8, 9, 10, 11, 12}
  EdgeIds <- WorldEdgeIds
  FaceIds = {1, 2, 3, 4, 5, 6, 7, 8, 9, 10}
  Sites <- WorldSites
  Curves <- WorldCurves
  Polygons <- WorldPolygons
  Places <- WorldPlaces
  Probes <- WorldProbes
  Atoms <- WorldAtoms
  MaxEdges = 2
  NodeIdsAt <- NodeIdAt
  EdgeIdsFor <- EdgeIdFor
  Ops = {"AddPoint", "AddLine", "AddPolygon", "AddLineNoFace", "Polygonize",
         "ModEdgeHeal"}
  Avoids = {}
INVARIANTS
  PartitionUnlessLoading
  LineIsStored
  PolygonizeAgrees
  PolygonIsTiled
CHECK_DEADLOCK FALSE
