SPECIFICATION Spec
CONSTANTS
  NumTasks = 2
  Requests <- TightRequests
  Budget = 1500
  UsedLevels <- AllLevels
  AgeUnit = 1
  MaxCrashes = 0
PROPERTIES
  LowPriorityIsHeld
  LadderSparesWork
