SPECIFICATION JoinsSpec
CONSTANTS
  NumTasks = 2
  Requests <- OneRequest
  Budget = 1500
  UsedLevels <- Calm
  AgeUnit = 1
  MaxCrashes = 0
  Nobody = Nobody
PROPERTIES
  ExitedIsRetired
  HeadroomIsUsed
