CONSTANTS
    t1 = t1
    t2 = t2
    a = a
    b = b
    Thread = {t1, t2}
    Main = t1
    NoThread = NoThread
    NoSem = NoSem
    Line <- MCLine
    Keyboard <- MCKeyboard
    EOF = EOF
    EOLN = EOLN
    CtrlA = CtrlA
    MaxBytes = 2
    MaxCalls = 4
SPECIFICATION FairSpec
INVARIANTS
    PutCharReady
PROPERTIES
    ImplementsLines
    LineFinishes
CHECK_DEADLOCK FALSE
