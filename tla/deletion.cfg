SPECIFICATION Spec
CONSTANTS
    t1 = t1
    t2 = t2
    w1 = w1
    w2 = w2
    Tasks = {t1}
    Workers = {w1}
    NoWorker = NoWorker
    Threads = 1
    Priority <- SamePriority
    StatusCheckDown = 1
    Faults = {"dberror", "register"}
    MaxConns = 2
    MaxQueue = 2
    Pins <- Unpinned
    Deletable = {t1}
    MaxTaskHistory = 0
    Commands = 1
    TimedTasks = {}
    WorkerIsInit = TRUE
    MaxRuns = 1
INVARIANTS
    
    ResultFromExecution
PROPERTIES
    TaskLifecycle
CHECK_DEADLOCK FALSE
