--------------------------- MODULE GlobalStructs ---------------------------
(***************************************************************************)
(* The vocabulary shared by the manager and the workers of nTask           *)
(* (globalstructs/struct.go): tasks, workers, task statuses and the        *)
(* websocket messages the two sides exchange.                              *)
(*                                                                         *)
(* A task or a worker is its key (Task.ID, Worker.Name).  The payload of a *)
(* task (commands, files, outputs, callback URL) is left out: no step      *)
(* modelled here depends on it.  Every worker has the same DefaultThreads. *)
(***************************************************************************)
EXTENDS Integers, Sequences, FiniteSets

CONSTANTS
    Tasks,      \* the tasks users may post
    Workers,    \* the worker names
    NoWorker,   \* the empty WorkerName
    Threads,    \* DefaultThreads of every worker
    Priority,   \* Priority[t]: the priority a task is posted with
    StatusCheckDown,    \* failed checks after which a worker is removed
    Faults      \* which failures the environment may cause

ASSUME TasksAssumption    == IsFiniteSet(Tasks)
ASSUME WorkersAssumption  == IsFiniteSet(Workers) /\ NoWorker \notin Workers
ASSUME ThreadsAssumption  == Threads \in Nat \ {0}
ASSUME PriorityAssumption == Priority \in [Tasks -> Int]
ASSUME StatusCheckDownAssumption == StatusCheckDown \in Nat \ {0}

\* cut: a connection breaks    crash: a worker dies     stop: SIGTERM to a worker
\* restart: of the manager     removal: DELETE /worker  dberror: a statement fails
\* register: POST /worker
FaultKinds == {"cut", "crash", "stop", "restart", "removal", "register", "dberror"}
ASSUME FaultsAssumption == Faults \subseteq FaultKinds

WorkerNames == Workers \union {NoWorker}

Results == {"done", "failed"}

\* Task.Status; "absent" stands for a task that has no row yet, "trimmed" for one
\* whose row the history loop has deleted.
Statuses == {"absent", "trimmed", "pending", "running", "deleted"} \union Results

-----------------------------------------------------------------------------
(* Messages.  A task travels as the JSON of its row, of which the model    *)
(* keeps the ID and the WorkerName.  The answers OK;addTask, OK;deleteTask *)
(* and FAILED;deleteTask are left out of the wire: the manager only logs   *)
(* them (manager/websockets/websockets.go:191-219).                        *)

AddTaskMsg(t, w) == [type |-> "addTask", task |-> t, worker |-> w]
DeleteTaskMsg(t) == [type |-> "deleteTask", task |-> t]
StatusRequest    == [type |-> "status"]

ToWorkerMsg ==
    [type : {"addTask"}, task : Tasks, worker : WorkerNames]
        \union [type : {"deleteTask"}, task : Tasks]
        \union {StatusRequest}

AddWorkerMsg          == [type |-> "addWorker"]
DeleteWorkerMsg       == [type |-> "deleteWorker"]
FailedAddTaskMsg(t)   == [type |-> "FAILED;addTask", task |-> t]
CallbackMsg(t, w, st) == [type |-> "callbackTask", task |-> t,
                          worker |-> w, status |-> st]
StatusMsg(idle)       == [type |-> "status", idle |-> idle]

ToManagerMsg ==
    {AddWorkerMsg, DeleteWorkerMsg}
        \union [type : {"FAILED;addTask"}, task : Tasks]
        \union [type : {"callbackTask"}, task : Tasks,
                worker : WorkerNames, status : Results]
        \union [type : {"status"}, idle : Int]
=============================================================================
