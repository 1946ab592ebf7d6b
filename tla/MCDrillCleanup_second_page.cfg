SPECIFICATION ToolSpec
CONSTANTS
  Drills = {"old", "new"}
  Instances <- MCInstances
  Tag <- MCTag
  Untagged = "untagged"
  Filters <- MCFilters
  PageSize = 2
  MaxFaults = 2
  Sources = {"auth", "uam"}
  RestoreTime = 1
  SafetyMargin = 1
  MaxTime = 3
INVARIANT EveryPageRead
CHECK_DEADLOCK FALSE
