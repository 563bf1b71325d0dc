SPECIFICATION HostSpec
CONSTANTS
  RunTasks = {t1}
  Pids = {p1, p2, p3}
  None = None
  MaxSnapshotFailures = 1
  MaxStarts = 3
  Creators = {c1, c2}
  Branches = {b1, b2}
  NoLock = NoLock
  Stale = Stale
  Users = {u1, u2}
  Daemons = {d1, d2, d3}
  NoSocket = NoSocket
  MaxDeaths = 2
INVARIANTS
  LeaksAreExplained
  VictimsWereOwned
  OneMutator
  TwoDaemonsAreARace
PROPERTIES
  DaemonBlocksOnlyOnTerminal
  CreationEnds
  StartLeadsToService
CHECK_DEADLOCK FALSE
