SPECIFICATION Spec
CONSTANTS
  w1 = w1
  w2 = w2
  NULL = NULL
  Nodes <- MCNodes
  Workers = {w1, w2}
  First = w1
  DiskUsers = {w1}
  UserTick = 1
  SystemTick = 2
  RotationTime = 3
  SeekTime = 4
  ConsoleTime = 4
  TimerTicks = 2
  SectorsPerTrack = 3
  NumTracks = 2
  MaxTicks = 16
INVARIANTS PendingOrdered HaltMeansDone ReturnsWhenDone
PROPERTIES DeliveredOnTime LatencyExact
CHECK_DEADLOCK FALSE
