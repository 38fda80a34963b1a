SPECIFICATION Spec
CONSTANTS
  FloatStep = 1
  Jobs <- ConstJobs
  MaxPoints = 4
  StartSizes = {1, 3, 16}
  BulkSizes = {0, 5, 40}
  VarintSizes = {1, 2, 8, 10}
  MaxWritten = 48
  Visited <- ConstVisited
  Replacements <- ConstReplacements
  Courses <- ConstCourses
  Offsets = {0, 6}
  Measures = {0, 1, 2, 3}
INVARIANT MinimumKept
CHECK_DEADLOCK FALSE
