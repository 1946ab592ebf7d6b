SPECIFICATION ToolSpec
CONSTANTS
  Drills = {"old", "new"}
  Instances <- MCInstances
  Tag <- MCTag
  Untagged = "untagged"
  Filters <- MCFilters
  PageSize = 4
  MaxFaults = 2
  Sources = {"auth", "uam"}
  RestoreTime = 1
  SafetyMargin = 1
  MaxTime = 3
INVARIANT ToolTypeOK
INVARIANT OrphansSwept
INVARIANT ZeroMeansNone
INVARIANT FeasibleStays
INVARIANT RefusalIsGrounded
PROPERTY SweptWasOrphan
CHECK_DEADLOCK FALSE
