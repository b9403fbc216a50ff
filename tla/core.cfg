SPECIFICATION Spec
CONSTANTS
    t1 = t1
    t2 = t2
    w1 = w1
    w2 = w2
    Tasks = {t1, t2}
    Workers = {w1, w2}
    NoWorker = NoWorker
    Threads = 1
    Priority <- SamePriority
    StatusCheckDown = 1
    Faults = {}
    MaxConns = 2
    MaxQueue = 2
    Pins <- PinnedT1
    Deletable = {}
    MaxTaskHistory = 0
    Commands = 1
    TimedTasks = {}
    WorkerIsInit = TRUE
    MaxRuns = 2
INVARIANTS
    TypeOK
    NoDoubleDispatch
    PinRespected
    ExecutedOnce
