------------------------------- MODULE Store -------------------------------
(***************************************************************************)
(* The MySQL database of the manager (manager/database): tables task and   *)
(* worker, and one operator per SQL statement the manager executes.  A     *)
(* statement is atomic; what the callers do between two statements is not. *)
(* A statement on a missing row changes nothing (RowsAffected is 0), which *)
(* is why the callers see "not found".                                     *)
(*                                                                         *)
(* Two history variables, which no step of the system reads, ride along:   *)
(*   claimed[t]  the dispatcher has sent t since t was last put to pending *)
(*               (and has not since failed to mark it, nor been restarted)  *)
(*   pinned[t]   the worker the user asked for, until that worker's        *)
(*               removal clears the WorkerName column                      *)
(***************************************************************************)
EXTENDS GlobalStructs

VARIABLES
    taskStatus,     \* task.status
    taskWorker,     \* task.workerName
    claimed,        \* history, see above
    pinned,         \* history, see above
    workerRow,      \* is there a row in table worker
    workerUp,       \* worker.up
    workerIdle,     \* worker.iddleThreads
    workerDown      \* worker.downCount

taskVars   == <<taskStatus, taskWorker, claimed, pinned>>
workerVars == <<workerRow, workerUp, workerIdle, workerDown>>
storeVars  == <<taskVars, workerVars>>

StoreInit ==
    /\ taskStatus = [t \in Tasks |-> "absent"]
    /\ taskWorker = [t \in Tasks |-> NoWorker]
    /\ claimed    = [t \in Tasks |-> FALSE]
    /\ pinned     = [t \in Tasks |-> NoWorker]
    /\ workerRow  = [w \in Workers |-> FALSE]
    /\ workerUp   = [w \in Workers |-> FALSE]
    /\ workerIdle = [w \in Workers |-> 0]
    /\ workerDown = [w \in Workers |-> 0]

TaskTableTypeOK ==
    /\ taskStatus \in [Tasks -> Statuses]
    /\ taskWorker \in [Tasks -> WorkerNames]
    /\ claimed \in [Tasks -> BOOLEAN]
    /\ pinned \in [Tasks -> WorkerNames]

WorkerTableTypeOK ==
    /\ workerRow \in [Workers -> BOOLEAN]
    /\ workerUp \in [Workers -> BOOLEAN]
    /\ workerIdle \in [Workers -> Int]
    /\ workerDown \in [Workers -> Nat]

StoreTypeOK == TaskTableTypeOK /\ WorkerTableTypeOK

-----------------------------------------------------------------------------
(* Table task.                                                             *)

PendingTasks == {t \in Tasks : taskStatus[t] = "pending"}

BatchSize(limit) ==
    LET n == IF limit <= 0 THEN 1 ELSE limit
        p == Cardinality(PendingTasks)
    IN  IF n <= p THEN n ELSE p

\* SELECT ... WHERE status = 'pending' ORDER BY priority DESC, createdAt LIMIT n.
\* createdAt has a resolution of one second: equal priorities come in any order.
GetTasksPending(limit) ==
    {b \in [1 .. BatchSize(limit) -> PendingTasks] :
        /\ \A i, j \in DOMAIN b :
              i < j => b[i] # b[j] /\ Priority[b[i]] >= Priority[b[j]]
        /\ \A t \in PendingTasks, i \in DOMAIN b :
              (\A j \in DOMAIN b : b[j] # t) => Priority[b[i]] >= Priority[t]}

AddTask(t, w) ==
    /\ taskStatus' = [taskStatus EXCEPT ![t] = "pending"]
    /\ taskWorker' = [taskWorker EXCEPT ![t] = w]
    /\ claimed'    = [claimed EXCEPT ![t] = FALSE]
    /\ pinned'     = [pinned EXCEPT ![t] = w]

UpdateTask(t, st, w) ==
    /\ taskStatus' = [taskStatus EXCEPT ![t] = st]
    /\ taskWorker' = [taskWorker EXCEPT ![t] = w]
    /\ UNCHANGED <<claimed, pinned>>

SetTaskStatus(t, st) ==
    /\ taskStatus' = [taskStatus EXCEPT ![t] = st]
    /\ claimed' = IF st = "pending" THEN [claimed EXCEPT ![t] = FALSE]
                                    ELSE claimed
    /\ UNCHANGED <<taskWorker, pinned>>

\* Is there a row for task t?  UpdateTask and SetTaskStatus fail without one.
TaskRow(t) == taskStatus[t] \notin {"absent", "trimmed"}

\* Mutation: the rows to remove are not limited to the tasks that are done.
EveryRow == {t \in Tasks : TaskRow(t)}

DoneTasks == {t \in Tasks : taskStatus[t] = "done"}

\* The DELETE of DeleteMaxEntriesHistory, for tasks that are done.
DeleteRows(T) ==
    /\ taskStatus' = [t \in Tasks |-> IF t \in T THEN "trimmed" ELSE taskStatus[t]]
    /\ UNCHANGED <<taskWorker, claimed, pinned>>

RunningOn(w) == {t \in Tasks : taskStatus[t] = "running" /\ taskWorker[t] = w}

\* Mutation: the tasks of a lost worker are put back for any worker to take.
SetTasksPendingForAnyone(w) ==
    /\ taskStatus' = [t \in Tasks |-> IF t \in RunningOn(w) THEN "pending"
                                                            ELSE taskStatus[t]]
    /\ taskWorker' = [t \in Tasks |-> IF t \in RunningOn(w) THEN NoWorker
                                                            ELSE taskWorker[t]]
    /\ claimed' = [t \in Tasks |-> claimed[t] /\ t \notin RunningOn(w)]
    /\ UNCHANGED pinned

\* Mutation: the tasks of a lost worker are put back whatever their status.
SetAllTasksWorkerPending(w) ==
    /\ taskStatus' = [t \in Tasks |-> IF TaskRow(t) /\ taskWorker[t] = w THEN "pending"
                                                                        ELSE taskStatus[t]]
    /\ claimed' = [t \in Tasks |-> claimed[t] /\ (TaskRow(t) => taskWorker[t] # w)]
    /\ UNCHANGED <<taskWorker, pinned>>

SetTasksWorkerPending(w) ==
    /\ taskStatus' = [t \in Tasks |-> IF t \in RunningOn(w) THEN "pending"
                                                            ELSE taskStatus[t]]
    /\ claimed' = [t \in Tasks |-> claimed[t] /\ t \notin RunningOn(w)]
    /\ UNCHANGED <<taskWorker, pinned>>

\* From running to pending, when the manager starts: it has sent nothing yet.
SetTasksStatusIfStatus ==
    /\ taskStatus' = [t \in Tasks |-> IF taskStatus[t] = "running" THEN "pending"
                                                                   ELSE taskStatus[t]]
    /\ claimed' = [t \in Tasks |-> FALSE]
    /\ UNCHANGED <<taskWorker, pinned>>

ClearWorkerName(w) ==
    LET emptied(names) == [t \in Tasks |-> IF taskWorker[t] = w THEN NoWorker
                                                                ELSE names[t]]
    IN  /\ taskWorker' = emptied(taskWorker)
        /\ pinned'     = emptied(pinned)
        /\ UNCHANGED <<taskStatus, claimed>>

-----------------------------------------------------------------------------
(* Table worker.                                                           *)

GetWorkerUP    == {w \in Workers : workerRow[w] /\ workerUp[w]}
GetWorkerIddle == {w \in GetWorkerUP : workerIdle[w] > 0}

\* getWorkersThreads: the sum of defaultThreads over the workers that are up.
WorkersThreads == Threads * Cardinality(GetWorkerUP)

\* INSERT; the primary key makes it fail when the row exists.
AddWorker(w) ==
    IF workerRow[w]
    THEN UNCHANGED workerVars
    ELSE /\ workerRow'  = [workerRow EXCEPT ![w] = TRUE]
         /\ workerUp'   = [workerUp EXCEPT ![w] = TRUE]
         /\ workerIdle' = [workerIdle EXCEPT ![w] = Threads]
         /\ workerDown' = [workerDown EXCEPT ![w] = 0]

DeleteWorkerRow(w) ==
    /\ workerRow'  = [workerRow EXCEPT ![w] = FALSE]
    /\ workerUp'   = [workerUp EXCEPT ![w] = FALSE]
    /\ workerIdle' = [workerIdle EXCEPT ![w] = 0]
    /\ workerDown' = [workerDown EXCEPT ![w] = 0]

SetWorkerDown(w) ==
    /\ workerUp' = [workerUp EXCEPT ![w] = FALSE]
    /\ UNCHANGED <<workerRow, workerIdle, workerDown>>

\* Bound: the count stops at StatusCheckDown, above which all counts act alike.
AddWorkerDownCount(w) ==
    /\ workerDown' = [workerDown EXCEPT ![w] = IF @ < StatusCheckDown THEN @ + 1 ELSE @]
    /\ UNCHANGED <<workerRow, workerUp, workerIdle>>

SubtractWorkerIddleThreads1(w) ==
    /\ workerIdle' = [workerIdle EXCEPT ![w] = IF @ > 0 THEN @ - 1 ELSE 0]
    /\ UNCHANGED <<workerRow, workerUp, workerDown>>

\* Mutation: a status answer may only lower the count.
SetWorkerStatusLower(w, idle, columns) ==
    /\ workerUp' = [workerUp EXCEPT ![w] = @ \/ (workerRow[w] /\ "up" \in columns)]
    /\ workerDown' = [workerDown EXCEPT ![w] = IF "downCount" \in columns THEN 0 ELSE @]
    /\ workerIdle' = [workerIdle EXCEPT ![w] =
                         IF workerRow[w] /\ "iddleThreads" \in columns /\ idle < @
                         THEN idle ELSE @]
    /\ UNCHANGED workerRow

\* SetWorkerUPto(true), SetWorkerDownCount(0) and SetIddleThreadsTo(idle), those
\* of them that are executed.
SetWorkerStatus(w, idle, columns) ==
    /\ workerUp' = [workerUp EXCEPT ![w] = @ \/ (workerRow[w] /\ "up" \in columns)]
    /\ workerDown' = [workerDown EXCEPT ![w] = IF "downCount" \in columns THEN 0 ELSE @]
    /\ workerIdle' = [workerIdle EXCEPT ![w] =
                         IF workerRow[w] /\ "iddleThreads" \in columns THEN idle ELSE @]
    /\ UNCHANGED workerRow
=============================================================================
