SPECIFICATION Spec
CONSTANTS
  NumTasks = 1
  Requests <- OneRequest
  Budget = 1500
  UsedLevels <- Calm
  AgeUnit = 1
  MaxCrashes = 1
PROPERTY ResumesInItsWorktree
