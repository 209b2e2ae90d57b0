SPECIFICATION FairSpec
CONSTANTS
  NumSlots = 4
  MaxFd = 5
  MemSize = 2
  MaxFileLength = 1
  MaxBufferSize = 2
  MaxFile = 2
  IntBits = 5
  NULL = NULL
  Lines <- MCLines
  Calls <- MCCalls
  InitialHost <- MCHost
INVARIANTS TableInStep
PROPERTIES FilesAreCursors  ReadDelivers PrintedIntReadsBack
CHECK_DEADLOCK FALSE
