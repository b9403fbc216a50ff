SPECIFICATION FairSpec
CONSTANTS
    t1 = t1
    t2 = t2
    w1 = w1
    w2 = w2
    Tasks = {t1}
    Workers = {w1}
    NoWorker = NoWorker
    Threads = 1
    Priority <- SamePriority
    StatusCheckDown = 1
    Faults = {}
    MaxConns = 1
    MaxQueue = 2
    Pins <- Unpinned
    Deletable = {}
    MaxTaskHistory = 0
    Commands = 1
    TimedTasks = {}
    WorkerIsInit = TRUE
    MaxRuns = 1
PROPERTIES
    RunningTasksFinish
CHECK_DEADLOCK FALSE
