SPECIFICATION TerminalSpec
CONSTANTS
  MaxLines = 2
  MaxBytes = 56
  MaxLineBytes = 4
  ArtifactQuota = 16
  RateThreshold = 2
  SampleRatio = 3
  RateWindow = 2
  OutputLines <- ThreeLines
  ClockReadings <- ThreeTimes
  MaxIngested = 6
  PartialCap = 3
  MaxChunkLen = 2
  MaxFed = 5
  ChunkRows = 2
  RowBatches <- TwoBatches
  MaxRows = 5
  MaxFailures = 2
  MaxReboots = 1
  Clients = {c1, c2}
  BufferCap = 1
  MaxChunks = 2
  MaxLaunches = 2
  MaxFrames = 1
  Typists = {c1}
  a1 = a1
  a2 = a2
  f1 = f1
  f2 = f2
  Agents <- TwoAgents
  Folders <- TwoFolders
  FolderOf <- OneInEach
  OtherGroup = OtherGroup
  Nobody = Nobody
  AtStart <- ThreeStarts
  LaunchDir = f2
  LaunchRepo = Nobody
  MaxKeys = 6
  MaxOutside = 1
INVARIANTS
  CaptureIsAccounted
  LinesAreFaithful
  PageIsExact
  StreamIsFaithful
  TornFrameEndsTheStream
  ScreenIsCoherent
PROPERTIES
  DropsAreAnnounced
  HistoryIsAppendOnly
  ExitReachesClient
CHECK_DEADLOCK FALSE
