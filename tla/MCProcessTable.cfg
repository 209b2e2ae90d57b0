CONSTANTS
    t1 = t1
    t2 = t2
    t3 = t3
    t4 = t4
    Thread = {t1, t2, t3, t4}
    Main = t1
    NoThread = NoThread
    NoSem = NoSem
    MAX_PROCESS = 3
SYMMETRY MCSymmetry
SPECIFICATION Spec
INVARIANTS
    SlotsMarked
    JoinAfterExit
    NeverUndefined
    NeverAllBlocked
CHECK_DEADLOCK FALSE
