SPECIFICATION FairSpec
CONSTANTS
  A = A
  B = B
  Machines = {A, B}
  Boxes = {0, 1}
  Clients = {c1, c2}
  NULL = NULL
  MaxSends = 3
  MaxBoots = 3
  Nodes <- MCNodes
  Packets <- MCPackets
INVARIANTS
  SemaphoresExact
PROPERTIES
  MailIsQueued
  MailArrives
CHECK_DEADLOCK FALSE
