CONSTANTS
    t1 = t1
    t2 = t2
    t3 = t3
    t4 = t4
    s1 = s1
    s2 = s2
    Thread = {t1, t2, t3, t4}
    Main = t1
    Sem = {s1, s2}
    InitVal <- MCInitVal
    DeviceSem = {s2}
    MaxValue = 2
    NoThread = NoThread
    NoSem = NoSem
SPECIFICATION FairSpec
INVARIANTS
    OnePlace
    NoLostWakeup
    FinishedUnreachable
PROPERTIES
    ReadyRuns
CHECK_DEADLOCK FALSE
