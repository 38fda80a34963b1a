SPECIFICATION Spec
CONSTANTS
  FloatStep = 1
  Jobs <- ConstJobs
  MaxPoints = 5
  StartSizes = {1, 3, 16}
  BulkSizes = {0, 5, 40}
  VarintSizes = {1, 2, 8, 10}
  MaxWritten = 48
  Visited <- ConstVisited
  Replacements <- ConstReplacements
  Courses <- ConstCourses
  Offsets = {0, 6}
  Measures = {0, 1, 2, 3}
INVARIANTS
  LoopsOK
  SnapKeepsEnds
  SnapSettles
  ExcessIsOfOneVarint
  IterationPassesAll
  ClipsAreExact
  ApproachIsClosest
PROPERTIES
  ImplementsThinning
  SnapKeepsAdded
  LoopsEnd
CHECK_DEADLOCK FALSE
