------------------------------- MODULE Worker -------------------------------
(***************************************************************************)
(* The worker processes of nTask.  A worker reads one message at a time    *)
(* (GetMessage), runs every accepted task in a goroutine of its own        *)
(* (process.Task), and replaces its connection when it breaks              *)
(* (RecreateConnection).                                                   *)
(*                                                                         *)
(* A run is one call of process.Task.  Two goroutines serve it: one runs   *)
(* the commands (stage), the other waits for the outcome and reports it    *)
(* (outcome, sent); after a timeout the first goes on without the second.  *)
(* The pid of the process of a run is the position of the run in runs.     *)
(***************************************************************************)
EXTENDS Wire

CONSTANTS
    Commands,       \* how many commands each task has
    TimedTasks,     \* the tasks with a timeout
    WorkerIsInit,   \* does the worker have PID 1, as in a container
    MaxRuns         \* bound: how many tasks the workers may accept in all

ASSUME CommandsAssumption     == Commands \in Nat \ {0}
ASSUME TimedTasksAssumption   == TimedTasks \subseteq Tasks
ASSUME WorkerIsInitAssumption == WorkerIsInit \in BOOLEAN
ASSUME MaxRunsAssumption      == MaxRuns \in Nat

VARIABLES
    proc,       \* proc[w]: is the process of worker w alive
    working,    \* working[w][t]: status.WorkingIDs of w; 0 when t has no entry
    runs        \* the runs, in the order the tasks were accepted

workerProcVars == <<proc, working, runs>>

Starting == -1  \* the entry of a command that has no process yet

\* accepted: before a command   starting: entry set    running: process alive
\* exited: process ended, entry not yet removed        ended: no command left
\* lost: the worker died
Stages == {"accepted", "starting", "running", "exited", "ended", "lost"}

RunRecord ==
    [task : Tasks,              \* the task,
     at : Workers,              \* the worker that runs it,
     workerName : WorkerNames,  \* and the WorkerName the message gave it
     stage : Stages,
     left : Nat,                \* commands not yet finished
     exit : Results \union {"none"},     \* how the last process ended
     outcome : Results \union {"none"},  \* what the run will report
     sent : BOOLEAN]            \* has it reported

WorkerInit ==
    /\ proc = [w \in Workers |-> FALSE]
    /\ working = [w \in Workers |-> [t \in Tasks |-> 0]]
    /\ runs = <<>>

WorkerTypeOK ==
    /\ proc \in [Workers -> BOOLEAN]
    /\ working \in [Workers -> [Tasks -> Int]]
    /\ runs \in Seq(RunRecord)

WorkingIDs(w) == {t \in Tasks : working[w][t] # 0}
IddleThreads(w) == Threads - Cardinality(WorkingIDs(w))

Unfinished(r) == runs[r].stage \in {"accepted", "starting", "running", "exited"}

-----------------------------------------------------------------------------
(* The connection.                                                         *)

\* StartWorker, or RecreateConnection after its ping failed: CreateConnection
\* dials, installs the connection and registers the worker on it.
CreateConnection(w) ==
    /\ proc[w] => wire[conn[w]] = "broken"
    /\ \E c \in Conns : Dial(w, c, AddWorkerMsg)
    /\ proc' = [proc EXCEPT ![w] = TRUE]
    /\ UNCHANGED <<working, runs>>

-----------------------------------------------------------------------------
(* GetMessage and its handlers.  The error of a failed answer is only      *)
(* logged.                                                                 *)

Read(w, type) ==
    /\ proc[w]
    /\ toWorker[conn[w]] # <<>>
    /\ Head(toWorker[conn[w]]).type = type
    /\ UNCHANGED <<dialer, conn>>

ReadTask(w) == Head(toWorker[conn[w]]).task

Reply(w, m) == toManager' = Written(toManager, conn[w], m)

NewRun(t, w, name) ==
    [task |-> t, at |-> w, workerName |-> name, stage |-> "accepted",
     left |-> Commands, exit |-> "none", outcome |-> "none", sent |-> FALSE]

\* messageAddTask counts the entries of WorkingIDs, and a task that is accepted
\* gets its entry only when its goroutine comes to its first command.
AcceptTask(w) ==
    /\ Read(w, "addTask")
    /\ IddleThreads(w) > 0
    /\ Len(runs) < MaxRuns
    /\ runs' = Append(runs, NewRun(ReadTask(w), w, Head(toWorker[conn[w]]).worker))
    /\ toWorker' = Consumed(toWorker, conn[w])
    /\ UNCHANGED <<wire, toManager, proc, working>>

RefuseTask(w) ==
    /\ Read(w, "addTask")
    /\ IddleThreads(w) <= 0
    /\ Reply(w, FailedAddTaskMsg(ReadTask(w)))
    /\ toWorker' = Consumed(toWorker, conn[w])
    /\ UNCHANGED <<wire, workerProcVars>>

MessageStatusTask(w) ==
    /\ Read(w, "status")
    /\ Reply(w, StatusMsg(IddleThreads(w)))
    /\ toWorker' = Consumed(toWorker, conn[w])
    /\ UNCHANGED <<wire, workerProcVars>>

\* runs after the processes of the runs in K are killed, and those in L lost.
Killed(r) == [runs[r] EXCEPT !.stage = "exited", !.exit = "failed"]
Lost(r)   == [runs[r] EXCEPT !.stage = "lost"]
KillRuns(K) == [r \in DOMAIN runs |-> IF r \in K THEN Killed(r) ELSE runs[r]]
RunsLost(w) == [r \in DOMAIN runs |->
                  IF runs[r].at = w /\ ~(runs[r].stage = "ended" /\ runs[r].sent)
                  THEN Lost(r) ELSE runs[r]]

\* The worker process is gone: its runs, its map and its connection with it.
Die(w) ==
    /\ proc' = [proc EXCEPT ![w] = FALSE]
    /\ working' = [working EXCEPT ![w] = [t \in Tasks |-> 0]]
    /\ runs' = RunsLost(w)
    /\ toWorker' = [toWorker EXCEPT ![conn[w]] = <<>>]
    /\ Break(conn[w])

RunningAt(w) == {r \in DOMAIN runs : runs[r].at = w /\ runs[r].stage = "running"}

\* messageDeleteTask runs kill -9 on the entry of the task.  A starting command
\* is left alone; a pid that has exited is not found; without an entry the pid
\* is 0, which kills the process group: every command of the worker, and the
\* worker unless PID 1 protects it.
MessageDeleteTask(w) ==
    /\ Read(w, "deleteTask")
    /\ LET pid == working[w][ReadTask(w)]
       IN  \/ /\ pid = Starting
              /\ UNCHANGED runs
           \/ /\ pid > 0
              /\ runs' = KillRuns({pid} \intersect RunningAt(w))
           \/ /\ pid = 0 /\ WorkerIsInit
              /\ runs' = KillRuns(RunningAt(w))
    /\ toWorker' = Consumed(toWorker, conn[w])
    /\ UNCHANGED <<wire, toManager, proc, working>>

MessageDeleteTaskKillsWorker(w) ==
    /\ Read(w, "deleteTask")
    /\ working[w][ReadTask(w)] = 0 /\ ~WorkerIsInit
    /\ Die(w)
    /\ UNCHANGED toManager

GetMessage(w) ==
    \/ AcceptTask(w) \/ RefuseTask(w) \/ MessageStatusTask(w)
    \/ MessageDeleteTask(w) \/ MessageDeleteTaskKillsWorker(w)

-----------------------------------------------------------------------------
(* The runs: process.Task, ProcessModule, runModule and executeCommand.    *)

SetRun(r, run) == runs' = [runs EXCEPT ![r] = run]

\* Mutation: the end of the last command overwrites the outcome.
EndedAnew(run, result) ==
    [run EXCEPT !.stage = "ended", !.left = 0, !.outcome = result]

\* No command is left; the outcome stands if there is one already.
Ended(run, result) ==
    [run EXCEPT !.stage = "ended", !.left = 0,
                !.outcome = IF run.outcome = "none" THEN result ELSE run.outcome]

SetWorkingID(r, pid) ==
    working' = [working EXCEPT ![runs[r].at][runs[r].task] = pid]

\* ProcessFiles fails, or the module of the next command is not configured.
RunFails(r) ==
    /\ runs[r].stage = "accepted"
    /\ SetRun(r, Ended(runs[r], "failed"))
    /\ UNCHANGED <<proc, working, wireVars>>

StartCommand(r) ==
    /\ runs[r].stage = "accepted"
    /\ SetRun(r, [runs[r] EXCEPT !.stage = "starting"])
    /\ SetWorkingID(r, Starting)
    /\ UNCHANGED <<proc, wireVars>>

\* cmd.Start, and the pid takes the place of the starting mark.
Spawn(r) ==
    /\ runs[r].stage = "starting"
    /\ \/ /\ SetRun(r, [runs[r] EXCEPT !.stage = "running"])
          /\ SetWorkingID(r, r)
       \/ /\ SetRun(r, [runs[r] EXCEPT !.stage = "exited", !.exit = "failed"])
          /\ UNCHANGED working
    /\ UNCHANGED <<proc, wireVars>>

Exit(r, result) ==
    /\ runs[r].stage = "running"
    /\ SetRun(r, [runs[r] EXCEPT !.stage = "exited", !.exit = result])
    /\ UNCHANGED <<proc, working, wireVars>>

\* Mutation: the entry of the task outlives its process.
CleanUpKeepsEntry(r) ==
    /\ runs[r].stage = "exited"
    /\ SetRun(r, Ended(runs[r], runs[r].exit))
    /\ UNCHANGED <<proc, working, wireVars>>

\* runModule returns: cleanupWorkerStatus removes the entry of the task, and
\* ProcessModule goes on with the next command or gives its outcome.
CleanUp(r) ==
    /\ runs[r].stage = "exited"
    /\ SetWorkingID(r, 0)
    /\ \/ /\ runs[r].exit = "done" /\ runs[r].left > 1
          /\ SetRun(r, [runs[r] EXCEPT !.stage = "accepted", !.exit = "none",
                                       !.left = runs[r].left - 1])
       \/ /\ runs[r].exit = "failed" \/ runs[r].left <= 1
          /\ SetRun(r, Ended(runs[r], runs[r].exit))
    /\ UNCHANGED <<proc, wireVars>>

\* Mutation: the deadline is only looked at between two commands.
TimeoutBetweenCommands(r) ==
    /\ runs[r].task \in TimedTasks
    /\ runs[r].stage = "accepted"
    /\ runs[r].outcome = "none"
    /\ SetRun(r, [runs[r] EXCEPT !.outcome = "failed"])
    /\ UNCHANGED <<proc, working, wireVars>>

\* The context of ProcessModule expires: the task has failed, its commands go on.
Timeout(r) ==
    /\ runs[r].task \in TimedTasks
    /\ Unfinished(r)
    /\ runs[r].outcome = "none"
    /\ SetRun(r, [runs[r] EXCEPT !.outcome = "failed"])
    /\ UNCHANGED <<proc, working, wireVars>>

\* Mutation: the run reports before it has an outcome.
ReportEarly(r) ==
    /\ ~runs[r].sent
    /\ runs[r].stage # "lost"
    /\ LET run == runs[r]
       IN  /\ Reply(run.at, CallbackMsg(run.task, run.workerName, run.outcome))
           /\ SetRun(r, [run EXCEPT !.sent = TRUE])
    /\ UNCHANGED <<wire, dialer, toWorker, conn, proc, working>>

\* CallbackTaskMessage, repeated until the write succeeds.
Report(r) ==
    /\ runs[r].outcome # "none" /\ ~runs[r].sent
    /\ runs[r].stage # "lost"
    /\ LET run == runs[r]
       IN  /\ Reply(run.at, CallbackMsg(run.task, run.workerName, run.outcome))
           /\ SetRun(r, [run EXCEPT !.sent = TRUE])
    /\ UNCHANGED <<wire, dialer, toWorker, conn, proc, working>>

RunStep(r) ==
    \/ RunFails(r) \/ StartCommand(r) \/ Spawn(r) \/ CleanUp(r)
    \/ Timeout(r) \/ Report(r)
    \/ \E result \in Results : Exit(r, result)

-----------------------------------------------------------------------------
(* The end of the process.                                                 *)

Crash(w) ==
    /\ "crash" \in Faults /\ SpareConn
    /\ proc[w]
    /\ Die(w)
    /\ UNCHANGED <<dialer, toManager, conn>>

\* SIGTERM reaches the handler, which sends deleteWorker, and mainloop, whose
\* return ends the process, perhaps before the message is out.
Stop(w) ==
    /\ "stop" \in Faults /\ SpareConn
    /\ proc[w]
    /\ Die(w)
    /\ Reply(w, DeleteWorkerMsg) \/ UNCHANGED toManager
    /\ UNCHANGED <<dialer, conn>>

WorkerNext ==
    \/ \E w \in Workers : CreateConnection(w) \/ GetMessage(w) \/ Crash(w) \/ Stop(w)
    \/ \E r \in DOMAIN runs : RunStep(r)

-----------------------------------------------------------------------------
(* What the workers promise to any manager.                                *)

\* A pid kept in WorkingIDs is that of a command of that task on that worker
\* which has not been cleaned up: what messageDeleteTask kills by pid is never a
\* process of another task, even when two runs of a task share the entry
\* (setWorkingID, cleanupWorkerStatus, messageDeleteTask).
KillTargetsOwnTask ==
    \A w \in Workers, t \in Tasks : working[w][t] > 0 =>
        LET run == runs[working[w][t]]
        IN  run.at = w /\ run.task = t /\ run.stage \in {"running", "exited"}

\* What a step may do to the reports: a run that has an outcome keeps it, one
\* that has reported has, and the only callback a step writes is that of a run
\* which had not reported before and has now.
OneReport ==
    /\ \A r \in DOMAIN runs : runs[r].outcome # "none" =>
          runs'[r].outcome = runs[r].outcome /\ (runs[r].sent => runs'[r].sent)
    /\ \A c \in Conns :
          LET m == toManager'[c][Len(toManager'[c])]
          IN  Len(toManager'[c]) > Len(toManager[c]) /\ m.type = "callbackTask" =>
                \E r \in DOMAIN runs :
                   /\ ~runs[r].sent /\ runs'[r].sent
                   /\ m = CallbackMsg(runs[r].task, runs[r].workerName, runs[r].outcome)
=============================================================================
