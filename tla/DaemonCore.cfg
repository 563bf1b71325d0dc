SPECIFICATION Spec
CONSTANTS
  NumTasks = 2
  Requests <- TightRequests
  Budget = 1500
  UsedLevels <- Calm
  AgeUnit = 1
  MaxCrashes = 1
INVARIANTS
  TypeOK
  LiveIsReserved
  LeaksOnlyByFailedRecycle
  CheckpointSeesTheWork
  DeferralIsExplained
  HibernatedIsRestorable
PROPERTIES
  AdmissionFitsBudget
  DirtyWorkSurvives
  TerminatedIsFinal
