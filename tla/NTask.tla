------------------------------- MODULE NTask -------------------------------
(***************************************************************************)
(* The whole of nTask: the manager with its database, the workers, and the *)
(* connections between them, which may break at any time.                  *)
(***************************************************************************)
EXTENDS Manager, Worker

vars == <<storeVars, wireVars, managerVars, workerProcVars>>

Init == StoreInit /\ WireInit /\ ManagerInit /\ WorkerInit

\* The network loses a connection, or a heartbeat of either side gives it up.
Cut(c) ==
    /\ "cut" \in Faults /\ SpareConn
    /\ wire[c] = "open"
    /\ Break(c)
    /\ UNCHANGED <<dialer, toWorker, toManager, conn>>
    /\ UNCHANGED <<storeVars, managerVars, workerProcVars>>

Next ==
    \/ ManagerNext /\ UNCHANGED workerProcVars
    \/ WorkerNext /\ UNCHANGED <<storeVars, managerVars>>
    \/ \E c \in Conns : Cut(c)

Spec == Init /\ [][Next]_vars

-----------------------------------------------------------------------------
(* Fairness.  Every goroutine that can go on does: the dispatcher and the  *)
(* verify loop never end, each connection has its reader, each request its *)
(* handler, each worker its GetMessage and RecreateConnection loops, each  *)
(* run its two goroutines.  That a command ends (Exit) is an assumption on *)
(* the tasks.  No failure and no user is ever obliged to act.              *)

ManagerFairness ==
    /\ WF_vars(Dispatch /\ UNCHANGED workerProcVars)
    /\ \A c \in Conns : WF_vars(Reader(c) /\ UNCHANGED workerProcVars)
    /\ \A x \in Callers : WF_vars(RmWorkerName(x) /\ UNCHANGED workerProcVars)
    /\ WF_vars((VerifyForget \/ VerifyDown \/ VerifyCount \/ VerifyOrphan)
                    /\ UNCHANGED workerProcVars)
    /\ \A w \in Workers : WF_vars((Poll(w) \/ VerifyMissing(w)) /\ UNCHANGED workerProcVars)
    /\ \A t \in Tasks :
          /\ WF_vars(PostInsert(t) /\ UNCHANGED workerProcVars)
          /\ WF_vars((DeleteSend(t) \/ DeleteSent(t) \/ DeleteMark(t))
                        /\ UNCHANGED workerProcVars)

CommandStep(r) ==
    \/ RunFails(r) \/ StartCommand(r) \/ Spawn(r) \/ CleanUp(r)
    \/ \E result \in Results : Exit(r, result)

WorkerFairness ==
    /\ \A w \in Workers :
          /\ WF_vars(CreateConnection(w) /\ UNCHANGED <<storeVars, managerVars>>)
          /\ WF_vars(GetMessage(w) /\ UNCHANGED <<storeVars, managerVars>>)
    /\ \A r \in 1 .. MaxRuns :
          /\ WF_vars(r \in DOMAIN runs /\ CommandStep(r)
                        /\ UNCHANGED <<storeVars, managerVars>>)
          /\ WF_vars(r \in DOMAIN runs /\ Report(r)
                        /\ UNCHANGED <<storeVars, managerVars>>)

FairSpec == Spec /\ ManagerFairness /\ WorkerFairness

-----------------------------------------------------------------------------
(* The task queue the system implements.                                   *)

Carries(queues, m) == \E c \in Conns : \E i \in DOMAIN queues[c] : queues[c][i] = m

RunsOf(t) == {r \in DOMAIN runs : runs[r].task = t}

\* Copies of a task are messages on their way to a worker, and accepted runs.
CopiesOf(t) ==
    {w \in Workers : \/ \E r \in RunsOf(t) : runs[r].at = w
                     \/ Carries(toWorker, AddTaskMsg(t, w))}

Copies == [t \in Tasks |-> CopiesOf(t)]

Refusals == {t \in Tasks : Carries(toManager, FailedAddTaskMsg(t))}

OutcomesOf(t) == {<<runs[r].at, runs[r].outcome>> : r \in {s \in RunsOf(t) : runs[s].sent}}

Outcomes == [t \in Tasks |-> OutcomesOf(t)]

Queue == INSTANCE TaskQueue WITH
    status   <- taskStatus,
    owner    <- taskWorker,
    pin      <- pinned,
    offered  <- claimed,
    copies   <- Copies,
    refused  <- Refusals,
    outcomes <- Outcomes

-----------------------------------------------------------------------------
(* Properties.                                                             *)

\* Type correctness of the whole state.
TypeOK == StoreTypeOK /\ WireTypeOK /\ ManagerTypeOK /\ WorkerTypeOK

\* A task is sent at most once each time it is put to pending: when the
\* dispatcher is about to send a task, whatever the readers, the API and the
\* verify loop have written since it took its copy, it has not sent that task
\* since the last write of 'pending' (ManageTasks, sendAddTask).
NoDoubleDispatch == dpc = "send" => ~claimed[Head(batch).id]

\* A task posted for one worker never goes to another one, until that worker is
\* removed and its name cleared: not in the table, not in the dispatcher's stale
\* copy, not on the wire, not in execution (HandleTaskPost, ManageTasks).
PinRespected ==
    \A t \in Tasks : pinned[t] # NoWorker =>
        /\ taskWorker[t] = pinned[t]
        /\ \A i \in DOMAIN batch : batch[i].id = t => batch[i].worker = pinned[t]
        /\ \A c \in Conns : \A i \in DOMAIN toWorker[c] :
              LET m == toWorker[c][i]
              IN  m.type = "addTask" /\ m.task = t => dialer[c] = pinned[t]
        /\ \A r \in DOMAIN runs : runs[r].task = t => runs[r].at = pinned[t]

\* A stored result is the outcome some worker reported for that very task, and
\* the row names that worker, unless the worker was removed and its name cleared
\* (callback, UpdateTask, RmWorkerName).
ResultFromExecution ==
    \A t \in Tasks : taskStatus[t] \in Results =>
        \E r \in DOMAIN runs :
            /\ runs[r].task = t
            /\ runs[r].sent /\ runs[r].outcome = taskStatus[t]
            /\ taskWorker[t] \in {runs[r].at, NoWorker}

\* Without a failure no task is executed twice, however often workers refuse it
\* and whatever is stale: a copy in the dispatcher's batch, an idle count, a
\* refusal handled late.  A deletion is a failure where it may kill the worker
\* (ManageTasks, messageAddTask, FAILED;addTask).
NoFailures == Faults = {} /\ (WorkerIsInit \/ Deletable = {})

ExecutedOnce ==
    NoFailures => \A r, s \in DOMAIN runs : runs[r].task = runs[s].task => r = s

\* The websocket the manager keeps for a worker was dialled by that worker and
\* has a reader that is still reading: so its loss will be noticed, however
\* connections, disconnections and removals of the worker interleave.
SocketHasReader ==
    \A w \in Workers : sock[w] # NoConn =>
        dialer[sock[w]] = w /\ reader[sock[w]] = "reading"

\* What may become of a task: only one that is running, or that a worker has
\* refused, is put back to pending, so a deleted or finished one is not revived
\* because its worker is lost or removed, or the manager restarts; a result is one
\* reported for the task; only what is done is removed, and stays so
\* (SetTasksWorkerPending, setInitialTaskStatus, HandleTaskDelete).
TaskLifecycle ==
    [][\A t \in Tasks : taskStatus'[t] # taskStatus[t] =>
          \/ taskStatus[t] = "absent" /\ taskStatus'[t] = "pending"
          \/ taskStatus[t] = "done" /\ taskStatus'[t] = "trimmed"
          \/ /\ TaskRow(t)
             /\ \/ taskStatus'[t] \in {"running", "deleted"}
                \/ taskStatus'[t] = "pending" /\ (taskStatus[t] = "running" \/ t \in Refusals)
                \/ \E w \in Workers : <<w, taskStatus'[t]>> \in Outcomes[t]]_vars

\* Every pending task is eventually sent, even when workers refuse it at first
\* because the idle count of the manager was stale (ManageTasks, status polls).
EventuallyDispatched ==
    \A t \in Tasks : taskStatus[t] = "pending" ~> taskStatus[t] # "pending"

\* The system is an at-least-once task queue: whatever interleaves, breaks or
\* restarts, each step is a step of TaskQueue or changes nothing there.
ImplementsTaskQueue == Queue!Spec

\* README: "The workers execute the tasks and send the execution results back to
\* the manager, which then stores the results in a database": no task is left
\* running for ever (sendAddTask, callback).
RunningTasksFinish ==
    \A t \in Tasks : taskStatus[t] = "running" ~> taskStatus[t] # "running"

\* DBworkers.go:25: RmWorkerName "deletes a worker by name and detaches its
\* running tasks": a detached task is not left running.
DetachedTasksAreRequeued ==
    \A t \in Tasks : taskStatus[t] = "running" => taskWorker[t] # NoWorker

\* worker/websockets/websockets.go:187: "if executing task skip and return error":
\* a worker that executes DefaultThreads tasks does not start another one.
WithinCapacity ==
    \A w \in Workers :
        Cardinality({r \in DOMAIN runs : runs[r].at = w /\ Unfinished(r)}) <= Threads
=============================================================================
