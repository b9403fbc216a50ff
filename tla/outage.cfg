SPECIFICATION Spec
CONSTANTS
    t1 = t1
    t2 = t2
    w1 = w1
    w2 = w2
    Tasks = {t1}
    Workers = {w1}
    NoWorker = NoWorker
    Threads = 1
    Priority <- SamePriority
    StatusCheckDown = 1
    Faults = {"cut", "restart"}
    MaxConns = 2
    MaxQueue = 2
    Pins <- Unpinned
    Deletable = {}
    MaxTaskHistory = 0
    Commands = 1
    TimedTasks = {}
    WorkerIsInit = TRUE
    MaxRuns = 2
INVARIANTS
    NoDoubleDispatch
    ResultFromExecution
    SocketHasReader
CHECK_DEADLOCK FALSE
