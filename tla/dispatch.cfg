SPECIFICATION FairSpec
CONSTANTS
    t1 = t1
    t2 = t2
    w1 = w1
    w2 = w2
    Tasks = {t1, t2}
    Workers = {w1}
    NoWorker = NoWorker
    Threads = 1
    Priority <- FirstComesT1
    StatusCheckDown = 1
    Faults = {}
    MaxConns = 1
    MaxQueue = 2
    Pins <- Unpinned
    Deletable = {}
    MaxTaskHistory = 1
    Commands = 1
    TimedTasks = {}
    WorkerIsInit = TRUE
    MaxRuns = 2
PROPERTIES
    ImplementsTaskQueue
    EventuallyDispatched
CHECK_DEADLOCK FALSE
