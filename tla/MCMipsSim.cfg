CONSTANTS
    ByteBits = 2
    PageSize = 8
    NumPhysPages = 4
    User = {"a", "b"}
    First = "a"
    Raw <- MCRaw
    StartRegs <- MCStartRegs
    StartTables <- MCStartTables
    MaxSteps = 2
SPECIFICATION Spec
INVARIANTS
    DirtyCoversWrites
PROPERTIES
    ArithmeticExact
    PreciseExceptions
    InterruptTransparent
    ProgramsIsolated
CHECK_DEADLOCK FALSE
