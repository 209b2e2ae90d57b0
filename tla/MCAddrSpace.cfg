CONSTANTS
    t1 = t1
    t2 = t2
    t3 = t3
    t4 = t4
    Thread = {t1, t2, t3, t4}
    Main = t1
    NoThread = NoThread
    NoSem = NoSem
    Program <- MCProgram
    NumPhysPages = 4
    NumBits = 8
    Nobody = Nobody
SYMMETRY MCSymmetry
SPECIFICATION Spec
INVARIANTS
    FramesExclusive
PROPERTIES
    ContiguousLoadIntact
CHECK_DEADLOCK FALSE
