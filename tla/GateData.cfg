SPECIFICATION ToolsSpec
CONSTANTS
  MaxWaiting = 4
  Budgets <- SmallBudgets
  AgeSteps = 2
  Arrivals <- MixedKinds
  Tasks = {t1, t2}
  Paths = {f}
  MergeTargets = {main, release}
  MaxEdits = 2
  MaxFlows = 1
  NoFlow = NoFlow
  Panes = {p1, p2, p3}
  Areas <- SmallGrid
  Elsewhere = Elsewhere
  NoTree = NoTree
  Presses = {1, 8}
  MaxResizes = 1
  Plans <- SmallPlans
  CpuReadings = {1, 3}
  EventStreams <- SmallEventStreams
  GracePolls = 1
  MaxMishaps = 1
  GrowthLimit = 1
  AgentBudget = {2}
  SampleCost = 100
  Shells = {sh}
  Dashboards = {ui}
  Repos = {r1}
  Nothing = Nothing
  EventPage = 3
  MaxTasks = 1
  MaxActions = 2
  MaxFaults = 1
  Scripts <- SmallScripts
  Rounds <- FewRounds
  MaxStubFailures = 1
  MaxPid = 5
  Owners = {a1, a2}
  Size <- PidSizes
  MaxForks = 2
  MaxWalks = 2
  StoredTasks = {s1}
  MaxFailedWrites = 2
  MaxBoots = 2
  MaxHandlers = 6
  Updaters = {u1, u2}
  Latest = 2
INVARIANTS
  GatesNeedData
CHECK_DEADLOCK FALSE
