SPECIFICATION Spec
CONSTANTS
  FloatStep = 4
  Pool <- ConstPool
  Parts <- ConstParts
  MaxSteps = 2
  Changes <- ConstChanges
  NewPoints <- ConstNewPoints
  Tolerance = 5
  SegmentLength = 25
  GridSize = 5
  WkbVariants <- ConstVariants
  Targets <- ConstTargets
  Reach = 40
INVARIANTS
  GeomTypeOK
  BoxesCover
  WkbRestores
  SerializedRestores
  TwkbRestores
  ShapesKept
  DistancesAreExtreme
  ShortestLineJoins
CHECK_DEADLOCK FALSE
