SPECIFICATION FairSpec
CONSTANTS
    t1 = t1
    t2 = t2
    w1 = w1
    Tasks = {t1, t2}
    Workers = {w1}
    NoWorker = NoWorker
    Threads = 2
    Priority <- SamePriority
    StatusCheckDown = 1
    Faults = {"cut", "crash", "stop"}
    MaxConns = 2
    MaxQueue = 2
    Commands = 2
    TimedTasks = {t1}
    WorkerIsInit = FALSE
    MaxRuns = 2
    MaxSends = 2
INVARIANTS
    TypeOK
    KillTargetsOwnTask
PROPERTIES
    
    TimedTasksReported
CHECK_DEADLOCK FALSE
