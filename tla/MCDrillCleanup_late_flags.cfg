SPECIFICATION ToolSpec
CONSTANTS
  Drills = {"old", "new"}
  Instances <- MCInstances
  Tag <- MCTag
  Untagged = "untagged"
  Filters <- MCFilters
  PageSize = 4
  MaxFaults = 2
  Sources = {"auth", "uam"}
  RestoreTime = 1
  SafetyMargin = 1
  MaxTime = 3
PROPERTY NothingUnasked
CHECK_DEADLOCK FALSE
