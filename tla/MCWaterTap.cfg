SPECIFICATION Spec
CONSTANTS
  NumSlots = 10
  MaxFd = 12
  NULL = NULL
  Inputs <- MCInputs
INVARIANTS TurnTaking IdsNameTheirFiles OutputRight
PROPERTIES Finishes
CHECK_DEADLOCK FALSE
