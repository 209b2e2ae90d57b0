CONSTANTS
    t1 = t1
    t2 = t2
    t3 = t3
    n1 = n1
    n2 = n2
    n3 = n3
    Thread = {t1, t2, t3}
    Main = t1
    NoThread = NoThread
    NoSem = NoSem
    Name = {n1, n2, n3}
    NoName = NoName
    MAX_SEMAPHORE = 2
    InitialValues <- MCInitialValues
    MaxValue = 2
SPECIFICATION FairSpec
PROPERTIES
    ImplementsCounters
    UnitsAreTaken
CHECK_DEADLOCK FALSE
