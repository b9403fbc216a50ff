---------------------------- MODULE TypeProofs -----------------------------
(***************************************************************************)
(* The whole of nTask keeps its types, for any number of tasks, workers    *)
(* and connections.  The state of the others never matters to the type of  *)
(* a variable, so the proof goes action by action: Untouched takes care of *)
(* what an action leaves alone, TaskStatements, WorkerStatements and the   *)
(* lemmas of RunProofs of what its statements and messages change.         *)
(* Since every step of the system is one that RunProofs covers, or leaves  *)
(* the workers alone, the promises of a worker hold in the system, too.    *)
(***************************************************************************)
EXTENDS NTask, RunProofs

-----------------------------------------------------------------------------
(* The statements of module Store.                                         *)

\* What GetTasksPending returns: distinct tasks, all of them pending.
LEMMA PendingBatch ==
    ASSUME StoreTypeOK, NEW b \in GetTasksPending(WorkersThreads)
    PROVE  /\ b \in Seq(Tasks)
           /\ \A i \in 1 .. Len(b) : taskStatus[b[i]] = "pending"
           /\ \A i, j \in 1 .. Len(b) : i # j => b[i] # b[j]
<1>1. IsFiniteSet(PendingTasks) /\ IsFiniteSet(GetWorkerUP)
  BY FS_Subset, TasksAssumption, WorkersAssumption DEF PendingTasks, GetWorkerUP
<1>2. Cardinality(PendingTasks) \in Nat /\ WorkersThreads \in Nat
  BY <1>1, FS_CardinalityType, ThreadsAssumption DEF WorkersThreads
<1>3. BatchSize(WorkersThreads) \in Nat
  BY <1>2 DEF BatchSize
<1>4. b \in [1 .. BatchSize(WorkersThreads) -> PendingTasks]
  BY DEF GetTasksPending
<1>5. b \in Seq(PendingTasks) /\ Len(b) = BatchSize(WorkersThreads)
  BY <1>3, <1>4
<1>6. \A i, j \in DOMAIN b : i < j => b[i] # b[j]
  BY DEF GetTasksPending
<1> QED
  BY <1>4, <1>5, <1>6, <1>3 DEF PendingTasks

\* Every statement on table task keeps its type.
LEMMA TaskStatements ==
    ASSUME TaskTableTypeOK
    PROVE  /\ \A t \in Tasks, v \in WorkerNames, st \in Statuses :
                 AddTask(t, v) \/ UpdateTask(t, st, v) \/ SetTaskStatus(t, st) => TaskTableTypeOK'
           /\ \A v : SetTasksWorkerPending(v) \/ ClearWorkerName(v) => TaskTableTypeOK'
           /\ SetTasksStatusIfStatus => TaskTableTypeOK'
           /\ \A T : DeleteRows(T) => TaskTableTypeOK'
<1> USE DEF TaskTableTypeOK, Statuses, WorkerNames
<1>1. ASSUME NEW t \in Tasks, NEW v \in WorkerNames, AddTask(t, v)  PROVE TaskTableTypeOK'
  BY <1>1 DEF AddTask
<1>2. ASSUME NEW t \in Tasks, NEW v \in WorkerNames, NEW st \in Statuses, UpdateTask(t, st, v)
      PROVE  TaskTableTypeOK'
  BY <1>2 DEF UpdateTask
<1>3. ASSUME NEW t \in Tasks, NEW st \in Statuses, SetTaskStatus(t, st)  PROVE TaskTableTypeOK'
  BY <1>3 DEF SetTaskStatus
<1>4. ASSUME NEW v, SetTasksWorkerPending(v)  PROVE TaskTableTypeOK'
  BY <1>4 DEF SetTasksWorkerPending, RunningOn
<1>5. ASSUME NEW v, ClearWorkerName(v)  PROVE TaskTableTypeOK'
  BY <1>5 DEF ClearWorkerName
<1>6. ASSUME SetTasksStatusIfStatus  PROVE TaskTableTypeOK'
  BY <1>6 DEF SetTasksStatusIfStatus
<1>7. ASSUME NEW T, DeleteRows(T)  PROVE TaskTableTypeOK'
  BY <1>7 DEF DeleteRows
<1> HIDE DEF TaskTableTypeOK
<1> QED
  BY <1>1, <1>2, <1>3, <1>4, <1>5, <1>6, <1>7

\* Every statement on the row of a worker keeps the type of table worker, and one
\* for the name of no worker, that of a connection which has not yet introduced
\* itself, does nothing.
LEMMA WorkerStatements ==
    ASSUME WorkerTableTypeOK, NEW w, NEW idle \in Int, NEW columns,
           \/ AddWorker(w) \/ DeleteWorkerRow(w) \/ SetWorkerDown(w)
           \/ AddWorkerDownCount(w) \/ SubtractWorkerIddleThreads1(w)
           \/ SetWorkerStatus(w, idle, columns)
    PROVE  WorkerTableTypeOK'
<1>1. CASE w \in Workers
  <2> USE <1>1
  <2> USE DEF WorkerTableTypeOK
  \* Assigning one component of a function (a row of a table) keeps its type.
  <2>0. ASSUME NEW S, NEW T, NEW f \in [S -> T], NEW x, NEW v \in T
        PROVE  [f EXCEPT ![x] = v] \in [S -> T]
    OBVIOUS
  <2>1. CASE AddWorker(w)
    <3>1. CASE workerRow[w]
      BY <2>1, <3>1 DEF AddWorker, workerVars
    <3>2. CASE ~workerRow[w]
      <4>1. Threads \in Int /\ 0 \in Nat /\ TRUE \in BOOLEAN
        BY ThreadsAssumption
      <4>2. /\ [workerIdle EXCEPT ![w] = Threads] \in [Workers -> Int]
            /\ [workerDown EXCEPT ![w] = 0] \in [Workers -> Nat]
            /\ [workerRow EXCEPT ![w] = TRUE] \in [Workers -> BOOLEAN]
            /\ [workerUp EXCEPT ![w] = TRUE] \in [Workers -> BOOLEAN]
        BY <2>0, <4>1
      <4> QED
        BY <2>1, <3>2, <4>2 DEF AddWorker
    <3> QED
      BY <3>1, <3>2
  <2>2. CASE DeleteWorkerRow(w)
    BY <2>2 DEF DeleteWorkerRow
  <2>3. CASE SetWorkerDown(w)
    BY <2>3 DEF SetWorkerDown
  <2>4. CASE AddWorkerDownCount(w)
    BY <2>4 DEF AddWorkerDownCount
  <2>5. CASE SubtractWorkerIddleThreads1(w)
    BY <2>5 DEF SubtractWorkerIddleThreads1
  <2>6. CASE SetWorkerStatus(w, idle, columns)
    <3> DEFINE up == workerUp[w] \/ (workerRow[w] /\ "up" \in columns)
               down == IF "downCount" \in columns THEN 0 ELSE workerDown[w]
               threads == IF workerRow[w] /\ "iddleThreads" \in columns
                          THEN idle ELSE workerIdle[w]
    <3>1. up \in BOOLEAN
      OBVIOUS
    <3>2. down \in Nat /\ threads \in Int
      OBVIOUS
    <3>3. /\ UNCHANGED workerRow
          /\ workerUp' = [workerUp EXCEPT ![w] = up]
          /\ workerDown' = [workerDown EXCEPT ![w] = down]
          /\ workerIdle' = [workerIdle EXCEPT ![w] = threads]
      BY <2>6 DEF SetWorkerStatus
    <3> HIDE DEF up, down, threads
    <3> QED
      BY <2>0, <3>1, <3>2, <3>3
  <2> QED
    BY <2>1, <2>2, <2>3, <2>4, <2>5, <2>6
<1>2. CASE w \notin Workers
  <2>1. \A v : /\ [workerRow EXCEPT ![w] = v] = workerRow
               /\ [workerUp EXCEPT ![w] = v] = workerUp
               /\ [workerIdle EXCEPT ![w] = v] = workerIdle
               /\ [workerDown EXCEPT ![w] = v] = workerDown
    BY <1>2 DEF WorkerTableTypeOK
  <2>2. UNCHANGED workerVars
    BY <2>1 DEF AddWorker, DeleteWorkerRow, SetWorkerDown, AddWorkerDownCount,
       SubtractWorkerIddleThreads1, SetWorkerStatus, workerVars
  <2> QED
    BY <2>2 DEF workerVars, WorkerTableTypeOK
<1> QED
  BY <1>1, <1>2

-----------------------------------------------------------------------------
(* Type correctness.  The type invariant is inductive with two facts more: *)
(* a live worker has a connection, so that reading from it makes sense,    *)
(* and the dispatcher has a task in hand whenever it is not reading the    *)
(* pending ones, so that the head of its batch is a task.                  *)

BatchInHand == dpc # "tasks" => batch # <<>>

TypeInv == TypeOK /\ LiveWorkerHasConn /\ BatchInHand

\* The manager, the workers and the database start with their types.
LEMMA TypeInit == Init => TypeInv
BY WorkersAssumption, MaxConnsAssumption
DEF Init, TypeInv, TypeOK, LiveWorkerHasConn, BatchInHand,
    StoreInit, StoreTypeOK, TaskTableTypeOK, WorkerTableTypeOK, WireInit, WireTypeOK,
    ManagerInit, ManagerTypeOK, ConnTypeOK, DispatcherTypeOK, ApiTypeOK, LoopTypeOK,
    RmTypeOK, WorkerInit, WorkerTypeOK, Statuses, WorkerNames, Idle, NoConn, NotBusy,
    Handling

\* A group of variables that a step leaves alone keeps its type.
LEMMA Untouched ==
    ASSUME TypeInv
    PROVE  /\ UNCHANGED taskVars => TaskTableTypeOK'
           /\ UNCHANGED workerVars => WorkerTableTypeOK'
           /\ UNCHANGED wireVars => WireTypeOK'
           /\ UNCHANGED connVars => ConnTypeOK'
           /\ UNCHANGED dispVars => DispatcherTypeOK' /\ BatchInHand'
           /\ UNCHANGED apiVars => ApiTypeOK'
           /\ UNCHANGED loopVars => LoopTypeOK'
           /\ UNCHANGED rm => RmTypeOK'
           /\ UNCHANGED workerProcVars => WorkerTypeOK'
           /\ UNCHANGED <<proc, conn>> => LiveWorkerHasConn'
<1> USE DEF TypeInv, TypeOK, StoreTypeOK, ManagerTypeOK
<1>1. UNCHANGED taskVars => TaskTableTypeOK'
  BY DEF taskVars, TaskTableTypeOK
<1>2. UNCHANGED workerVars => WorkerTableTypeOK'
  BY DEF workerVars, WorkerTableTypeOK
<1>3. UNCHANGED wireVars => WireTypeOK'
  BY DEF wireVars, WireTypeOK
<1>4. UNCHANGED connVars => ConnTypeOK'
  BY DEF connVars, ConnTypeOK
<1>5. UNCHANGED dispVars => DispatcherTypeOK' /\ BatchInHand'
  BY DEF dispVars, DispatcherTypeOK, BatchInHand
<1>6. UNCHANGED apiVars => ApiTypeOK'
  BY DEF apiVars, ApiTypeOK
<1>7. UNCHANGED loopVars => LoopTypeOK'
  BY DEF loopVars, LoopTypeOK
<1>8. UNCHANGED rm => RmTypeOK'
  BY DEF RmTypeOK
<1>9. UNCHANGED workerProcVars => WorkerTypeOK'
  BY DEF workerProcVars, WorkerTypeOK
<1>10. UNCHANGED <<proc, conn>> => LiveWorkerHasConn'
  BY DEF LiveWorkerHasConn
<1> QED
  BY <1>1, <1>2, <1>3, <1>4, <1>5, <1>6, <1>7, <1>8, <1>9, <1>10

\* The task the dispatcher is busy with.
LEMMA FirstOfBatch ==
    ASSUME TypeInv, dpc # "tasks"
    PROVE  /\ batch \in Seq([id : Tasks, worker : WorkerNames]) /\ batch # <<>>
           /\ Len(batch) \in Nat \ {0} /\ Head(batch) = batch[1]
           /\ Head(batch) \in [id : Tasks, worker : WorkerNames]
           /\ Head(batch).id \in Tasks
<1>1. batch \in Seq([id : Tasks, worker : WorkerNames]) /\ batch # <<>>
  BY DEF TypeInv, TypeOK, ManagerTypeOK, DispatcherTypeOK, BatchInHand
<1>2. Len(batch) \in Nat \ {0} /\ Head(batch) \in [id : Tasks, worker : WorkerNames]
  BY <1>1, EmptySeq, HeadTailProperties
<1>3. Head(batch) = batch[1]
  BY <1>1
<1> QED
  BY <1>1, <1>2, <1>3

\* The actions of the dispatcher.
LEMMA DispatchTypes ==
    ASSUME TypeInv, Dispatch, UNCHANGED workerProcVars
    PROVE  TypeInv'
<1> USE DEF TypeInv, TypeOK, StoreTypeOK, ManagerTypeOK
<1>0. WorkerTypeOK'
  BY Untouched
<1>1. CASE ReadTasks
  <2>1. PICK b \in GetTasksPending(WorkersThreads) :
          batch' = [i \in DOMAIN b |-> [id |-> b[i], worker |-> taskWorker[b[i]]]]
    BY <1>1 DEF ReadTasks
  <2>2. b \in Seq(Tasks)
    BY PendingBatch
  <2>3. /\ batch' = [i \in 1 .. Len(b) |-> [id |-> b[i], worker |-> taskWorker[b[i]]]]
        /\ Len(b) \in Nat
        /\ \A i \in 1 .. Len(b) : b[i] \in Tasks
    BY <2>1, <2>2
  <2>4. \A i \in 1 .. Len(b) : [id |-> b[i], worker |-> taskWorker[b[i]]]
                                  \in [id : Tasks, worker : WorkerNames]
    BY <2>3 DEF TaskTableTypeOK
  <2>5. batch' \in Seq([id : Tasks, worker : WorkerNames])
    BY <2>3, <2>4
  <2>6. DispatcherTypeOK' /\ BatchInHand'
    BY <1>1, <2>5 DEF ReadTasks, DispatcherTypeOK, BatchInHand
  <2> QED
    BY <1>0, <1>1, <2>6, Untouched DEF ReadTasks, storeVars, wireVars, workerProcVars
<1>2. CASE ReadWorkers \/ NextWorkers
  <2>1. PICK rest \in {batch, Tail(batch)} : NextTask(rest) /\ dpc # "tasks"
    BY <1>2 DEF ReadWorkers, NextWorkers
  <2>2. rest \in Seq([id : Tasks, worker : WorkerNames])
    BY <2>1 DEF DispatcherTypeOK, BatchInHand
  <2>3. GetWorkerIddle \subseteq Workers
    BY DEF GetWorkerIddle, GetWorkerUP
  <2>4. DispatcherTypeOK' /\ BatchInHand'
    <3>1. CASE rest = <<>> \/ GetWorkerIddle = {}
      <4>1. dpc' = "tasks" /\ batch' = <<>> /\ todo' = {} /\ cand' = cand
        BY <2>1, <3>1 DEF NextTask
      <4>2. batch' \in Seq([id : Tasks, worker : WorkerNames])
        BY <4>1
      <4> QED
        BY <4>1, <4>2 DEF DispatcherTypeOK, BatchInHand
    <3>2. CASE ~(rest = <<>> \/ GetWorkerIddle = {})
      <4>1. dpc' = "pick" /\ batch' = rest /\ todo' = GetWorkerIddle /\ cand' = cand
        BY <2>1, <3>2 DEF NextTask
      <4> QED
        BY <2>2, <2>3, <3>2, <4>1 DEF DispatcherTypeOK, BatchInHand
    <3> QED
      BY <3>1, <3>2
  <2> QED
    BY <1>0, <2>1, <2>4, Untouched DEF NextTask, storeVars, wireVars, workerProcVars
<1>3. CASE Send
  <2>1. /\ batch \in Seq([id : Tasks, worker : WorkerNames]) /\ batch # <<>>
        /\ Head(batch).id \in Tasks
    BY <1>3, FirstOfBatch DEF Send
  <2>2. TaskTableTypeOK'
    BY <1>3 DEF Send, TaskTableTypeOK
  <2>3. AddTaskMsg(Head(batch).id, cand) \in ToWorkerMsg
    BY <2>1, MessagesTyped DEF DispatcherTypeOK
  <2>4. WireTypeOK'
    BY <1>3, <2>3, QueuesTyped DEF Send, WireTypeOK
  <2>5. [batch EXCEPT ![1] = [id |-> Head(batch).id, worker |-> cand]] \in Seq([id : Tasks, worker : WorkerNames])
    BY <2>1 DEF DispatcherTypeOK
  <2>6. [batch EXCEPT ![1] = [id |-> Head(batch).id, worker |-> cand]] # <<>>
    BY <2>1
  <2>7. DispatcherTypeOK' /\ BatchInHand'
    BY <1>3, <2>5, <2>6 DEF Send, DispatcherTypeOK, BatchInHand
  <2> QED
    BY <1>0, <1>3, <2>2, <2>4, <2>7, Untouched DEF Send, workerProcVars
<1>4. CASE SendFails
  <2>1. DispatcherTypeOK' /\ BatchInHand'
    BY <1>4 DEF SendFails, DispatcherTypeOK, BatchInHand, WorkerNames
  <2> QED
    BY <1>0, <1>4, <2>1, Untouched DEF SendFails, storeVars, wireVars, workerProcVars
<1>5. CASE Mark
  <2>1. Head(batch).id \in Tasks /\ cand \in WorkerNames
    BY <1>5, FirstOfBatch DEF Mark, DispatcherTypeOK
  <2>2. TaskTableTypeOK'
    <3>1. CASE UpdateTask(Head(batch).id, "running", cand)
      BY <2>1, <3>1, TaskStatements DEF Statuses
    <3>2. CASE UNCHANGED <<taskStatus, taskWorker, pinned>> 
               /\ claimed' = [claimed EXCEPT ![Head(batch).id] = FALSE]
      BY <3>2 DEF TaskTableTypeOK
    <3> QED
      BY <1>5, <3>1, <3>2 DEF Mark
  <2>3. DispatcherTypeOK' /\ BatchInHand'
    BY <1>5 DEF Mark, DispatcherTypeOK, BatchInHand, WorkerNames
  <2> QED
    BY <1>0, <1>5, <2>2, <2>3, Untouched DEF Mark, wireVars, workerProcVars
<1>6. CASE \E w \in Workers : Pick(w)
  <2>1. PICK w \in Workers : Pick(w)
    BY <1>6
  <2>2. WorkerTableTypeOK'
    BY <2>1, WorkerStatements, Untouched DEF Pick
  <2>3. DispatcherTypeOK' /\ BatchInHand'
    BY <2>1 DEF Pick, DispatcherTypeOK, BatchInHand, WorkerNames
  <2> QED
    BY <1>0, <2>1, <2>2, <2>3, Untouched DEF Pick, wireVars, workerProcVars
<1> QED
  BY <1>1, <1>2, <1>3, <1>4, <1>5, <1>6 DEF Dispatch

\* What a reader remembers of the message it is handling.
LEMMA HandlingTyped ==
    ASSUME NEW idle \in Int, NEW differs \in BOOLEAN
    PROVE  LET B == [pc : {"none", "add", "status"}, idle : Int, differs : BOOLEAN]
           IN  /\ NotBusy \in B
               /\ Handling("add", 0, FALSE) \in B
               /\ Handling("status", idle, differs) \in B
BY DEF Handling, NotBusy

\* The actions of the readers.
LEMMA ReaderTypes ==
    ASSUME TypeInv, NEW c \in Conns, Reader(c), UNCHANGED workerProcVars
    PROVE  TypeInv'
<1> USE DEF TypeInv, TypeOK, StoreTypeOK, ManagerTypeOK
<1>0. WorkerTypeOK'
  BY Untouched
<1>1. ASSUME NEW type, Receive(c, type)
      PROVE  /\ WireTypeOK' /\ LiveWorkerHasConn'
             /\ DispatcherTypeOK' /\ BatchInHand' /\ ApiTypeOK' /\ LoopTypeOK'
             /\ Head(toManager[c]) \in ToManagerMsg /\ Head(toManager[c]).type = type
  <2>1. toManager[c] \in Seq(ToManagerMsg) /\ toManager[c] # <<>>
    BY <1>1 DEF Receive, WireTypeOK
  <2>2. WireTypeOK'
    BY <1>1, <2>1, QueuesTyped DEF Receive, WireTypeOK
  <2>3. Head(toManager[c]) \in ToManagerMsg
    BY <2>1, HeadTailProperties
  <2> QED
    BY <1>1, <2>2, <2>3, Untouched DEF Receive, workerProcVars
<1>2. CASE HandleAddWorker(c)
  <2>1. ConnTypeOK'
    BY <1>2, HandlingTyped DEF HandleAddWorker, ConnTypeOK
  <2> QED
    BY <1>0, <1>1, <1>2, <2>1, Untouched DEF HandleAddWorker, storeVars
<1>3. CASE HandleDeleteWorker(c)
  <2>1. ConnTypeOK'
    BY <1>3 DEF HandleDeleteWorker, ConnTypeOK
  <2>2. RmTypeOK'
    BY <1>3 DEF HandleDeleteWorker, RmTypeOK, At, WireTypeOK
  <2> QED
    BY <1>0, <1>1, <1>3, <2>1, <2>2, Untouched DEF HandleDeleteWorker, storeVars
<1>4. CASE HandleCallbackTask(c)
  <2>1. Receive(c, "callbackTask")
    BY <1>4 DEF HandleCallbackTask
  <2>2. TaskTableTypeOK'
    <3> DEFINE m == Head(toManager[c])
    <3>1. m.task \in Tasks /\ m.worker \in WorkerNames /\ m.status \in Statuses
      <4>1. m \in ToManagerMsg /\ m.type = "callbackTask"
        BY <1>1, <2>1
      <4> HIDE DEF m
      <4>2. m.task \in Tasks /\ m.worker \in WorkerNames /\ m.status \in Results
        BY <4>1, MessageFields
      <4> QED
        BY <4>2 DEF Statuses
    <3>2. UpdateTask(m.task, m.status, m.worker) \/ UNCHANGED taskVars
      BY <1>4 DEF HandleCallbackTask
    <3> HIDE DEF m
    <3> QED
      BY <3>1, <3>2, TaskStatements, Untouched
  <2> QED
    BY <1>0, <1>1, <1>4, <2>2, Untouched DEF HandleCallbackTask
<1>5. CASE HandleFailedAddTask(c)
  <2>1. Receive(c, "FAILED;addTask")
    BY <1>5 DEF HandleFailedAddTask
  <2>2. TaskTableTypeOK'
    BY <1>1, <1>5, <2>1, MessageFields, TaskStatements, Untouched
    DEF HandleFailedAddTask, Statuses, WorkerNames
  <2> QED
    BY <1>0, <1>1, <1>5, <2>2, Untouched DEF HandleFailedAddTask
<1>6. CASE HandleWorkerStatus(c)
  <2>1. Head(toManager[c]).idle \in Int
    BY <1>1, <1>6, MessageFields DEF HandleWorkerStatus
  <2>2. \/ UNCHANGED busy
        \/ \E differs \in BOOLEAN :
              busy' = [busy EXCEPT ![c] = Handling("status", Head(toManager[c]).idle, differs)]
    BY <1>6 DEF HandleWorkerStatus
  <2>3. ConnTypeOK'
    <3>1. UNCHANGED <<sock, reader>>
      BY <1>6 DEF HandleWorkerStatus
    <3>2. CASE UNCHANGED busy
      BY <3>1, <3>2 DEF ConnTypeOK
    <3>3. ASSUME NEW idle \in Int, NEW differs \in BOOLEAN,
                 busy' = [busy EXCEPT ![c] = Handling("status", idle, differs)]
          PROVE  ConnTypeOK'
      BY <3>1, <3>3, HandlingTyped DEF ConnTypeOK
    <3> QED
      BY <2>1, <2>2, <3>2, <3>3
  <2> QED
    BY <1>0, <1>1, <1>6, <2>3, Untouched DEF HandleWorkerStatus, storeVars
<1>7. CASE ReadError(c)
  <2>1. ConnTypeOK'
    BY <1>7 DEF ReadError, ConnTypeOK
  <2>2. wire' \in [Conns -> {"unused", "open", "broken"}]
    BY <1>7 DEF ReadError, Break, WireTypeOK
  <2>3. toManager' \in [Conns -> Seq(ToManagerMsg)]
    BY <1>7 DEF ReadError, WireTypeOK
  <2>4. WireTypeOK'
    BY <1>7, <2>2, <2>3 DEF ReadError, WireTypeOK
  <2> QED
    BY <1>0, <1>7, <2>1, <2>4, Untouched DEF ReadError, storeVars, workerProcVars
<1>8. CASE MarkDown(c)
  <2>1. WorkerTableTypeOK'
    <3>1. CASE SetWorkerDown(dialer[c])
      BY <3>1, 0 \in Int, WorkerStatements
    <3>2. CASE UNCHANGED workerVars
      BY <3>2, Untouched
    <3> QED
      BY <1>8, <3>1, <3>2 DEF MarkDown
  <2>2. ConnTypeOK'
    BY <1>8 DEF MarkDown, ConnTypeOK
  <2> QED
    BY <1>0, <1>8, <2>1, <2>2, Untouched DEF MarkDown, wireVars, workerProcVars
<1>9. CASE RequeueLost(c)
  <2>1. TaskTableTypeOK'
    BY <1>9, TaskStatements, Untouched DEF RequeueLost, WireTypeOK
  <2>2. ConnTypeOK'
    BY <1>9 DEF RequeueLost, ConnTypeOK
  <2> QED
    BY <1>0, <1>9, <2>1, <2>2, Untouched DEF RequeueLost, wireVars, workerProcVars
<1>10. CASE InsertWorker(c)
  <2>1. WorkerTableTypeOK'
    <3>1. CASE AddWorker(dialer[c])
      BY <3>1, 0 \in Int, WorkerStatements
    <3>2. CASE UNCHANGED workerVars
      BY <3>2, Untouched
    <3> QED
      BY <1>10, <3>1, <3>2 DEF InsertWorker
  <2>2. ConnTypeOK'
    BY <1>10, HandlingTyped DEF InsertWorker, ConnTypeOK
  <2> QED
    BY <1>0, <1>10, <2>1, <2>2, Untouched DEF InsertWorker, wireVars, workerProcVars
<1>11. CASE UpdateStatus(c)
  <2>1. busy[c].idle \in Int
    BY DEF ConnTypeOK
  <2>2. PICK columns : SetWorkerStatus(dialer[c], busy[c].idle, columns)
    BY <1>11 DEF UpdateStatus
  <2>3. WorkerTableTypeOK'
    BY <2>1, <2>2, WorkerStatements
  <2>4. ConnTypeOK'
    BY <1>11, HandlingTyped DEF UpdateStatus, ConnTypeOK
  <2> QED
    BY <1>0, <1>11, <2>3, <2>4, Untouched DEF UpdateStatus, wireVars, workerProcVars
<1> QED
  BY <1>2, <1>3, <1>4, <1>5, <1>6, <1>7, <1>8, <1>9, <1>10, <1>11 DEF Reader

\* RmWorkerName, the verify and the history loop, and the restart of the manager.
LEMMA LoopTypes ==
    ASSUME TypeInv, UNCHANGED workerProcVars,
           \/ \E x \in Callers : RmWorkerName(x)
           \/ Verify \/ HistoryCount \/ HistoryDelete \/ ManagerRestart
    PROVE  TypeInv'
<1> USE DEF TypeInv, TypeOK, StoreTypeOK, ManagerTypeOK
<1>0. WorkerTypeOK'
  BY Untouched
<1>1. ASSUME NEW x \in Callers, RmWorkerName(x)  PROVE TypeInv'
  <2>1. rm[x].worker \in WorkerNames
    BY DEF RmTypeOK
  <2>2. CASE RmDelete(x)
    <3>1. WorkerTableTypeOK'
      <4>1. CASE DeleteWorkerRow(rm[x].worker)
        BY <4>1, 0 \in Int, WorkerStatements
      <4>2. CASE UNCHANGED workerVars
        BY <4>2, Untouched
      <4> QED
        BY <2>2, <4>1, <4>2 DEF RmDelete
    <3>2. RmTypeOK'
      BY <2>1, <2>2 DEF RmDelete, RmTypeOK, At, Idle, WorkerNames
    <3> QED
      BY <1>0, <2>2, <3>1, <3>2, Untouched DEF RmDelete, wireVars, workerProcVars
  <2>3. CASE RmRequeue(x)
    <3>1. TaskTableTypeOK'
      BY <2>3, TaskStatements, Untouched DEF RmRequeue
    <3>2. RmTypeOK'
      BY <2>1, <2>3 DEF RmRequeue, RmTypeOK, At, Idle, WorkerNames
    <3> QED
      BY <1>0, <2>3, <3>1, <3>2, Untouched DEF RmRequeue, wireVars, workerProcVars
  <2>4. CASE RmClear(x)
    <3>1. TaskTableTypeOK'
      BY <2>4, TaskStatements, Untouched DEF RmClear
    <3>2. RmTypeOK'
      BY <2>4 DEF RmClear, RmTypeOK, Idle, WorkerNames
    <3> QED
      BY <1>0, <2>4, <3>1, <3>2, Untouched DEF RmClear, wireVars, workerProcVars
  <2> QED
    BY <1>1, <2>2, <2>3, <2>4 DEF RmWorkerName
<1>2. CASE Verify
  <2>1. CASE \E w \in Workers : Poll(w)
    <3>1. PICK w \in Workers : Poll(w)
      BY <2>1
    <3>2. WireTypeOK'
      BY <3>1, QueuesTyped, MessagesTyped DEF Poll, WireTypeOK
    <3> QED
      BY <1>0, <3>1, <3>2, Untouched DEF Poll, managerVars, storeVars, workerProcVars
  <2>2. CASE \E w \in Workers : VerifyMissing(w)
    <3>1. PICK w \in Workers : VerifyMissing(w)
      BY <2>2
    <3>2. LoopTypeOK'
      BY <3>1 DEF VerifyMissing, LoopTypeOK, At, WorkerNames
    <3> QED
      BY <1>0, <3>1, <3>2, Untouched DEF VerifyMissing, storeVars, wireVars, workerProcVars
  <2>3. CASE VerifyForget
    <3>1. ConnTypeOK'
      BY <2>3 DEF VerifyForget, ConnTypeOK
    <3>2. LoopTypeOK'
      BY <2>3 DEF VerifyForget, LoopTypeOK, At
    <3> QED
      BY <1>0, <2>3, <3>1, <3>2, Untouched DEF VerifyForget, storeVars, wireVars, workerProcVars
  <2>6. CASE VerifyDown
    <3>1. WorkerTableTypeOK'
      <4>1. CASE SetWorkerDown(vfy.worker)
        BY <4>1, 0 \in Int, WorkerStatements
      <4>2. CASE UNCHANGED workerVars
        BY <4>2, Untouched
      <4> QED
        BY <2>6, <4>1, <4>2 DEF VerifyDown
    <3>2. LoopTypeOK'
      BY <2>6 DEF VerifyDown, LoopTypeOK, At, Idle, WorkerNames
    <3> QED
      BY <1>0, <2>6, <3>1, <3>2, Untouched DEF VerifyDown, wireVars, workerProcVars
  <2>4. CASE VerifyCount
    <3>1. WorkerTableTypeOK'
      <4>1. CASE AddWorkerDownCount(vfy.worker)
        BY <4>1, 0 \in Int, WorkerStatements
      <4>2. CASE UNCHANGED workerVars
        BY <4>2, Untouched
      <4> QED
        BY <2>4, <4>1, <4>2 DEF VerifyCount
    <3>2. LoopTypeOK'
      BY <2>4 DEF VerifyCount, LoopTypeOK, At, Idle, WorkerNames
    <3> QED
      BY <1>0, <2>4, <3>1, <3>2, Untouched DEF VerifyCount, wireVars, workerProcVars
  <2>5. CASE VerifyOrphan
    <3>1. TaskTableTypeOK'
      BY <2>5, TaskStatements, Untouched DEF VerifyOrphan
    <3>2. LoopTypeOK'
      BY <2>5 DEF VerifyOrphan, LoopTypeOK, Idle, WorkerNames
    <3>3. RmTypeOK'
      BY <2>5 DEF VerifyOrphan, RmTypeOK, LoopTypeOK, At, Callers, VerifyLoop
    <3> QED
      BY <1>0, <2>5, <3>1, <3>2, <3>3, Untouched DEF VerifyOrphan, wireVars, workerProcVars
  <2> QED
    BY <1>2, <2>1, <2>2, <2>3, <2>4, <2>5, <2>6 DEF Verify
<1>3. CASE HistoryCount \/ HistoryDelete
  <2>1. CASE HistoryCount
    <3>1. IsFiniteSet(DoneTasks)
      BY FS_Subset, TasksAssumption DEF DoneTasks
    <3>2. Cardinality(DoneTasks) \in Nat /\ MaxTaskHistory \in Nat
      BY <3>1, FS_CardinalityType, MaxTaskHistoryAssumption
    <3>3. LoopTypeOK'
      BY <2>1, <3>2 DEF HistoryCount, LoopTypeOK
    <3> QED
      BY <1>0, <2>1, <3>3, Untouched DEF HistoryCount, storeVars, wireVars, workerProcVars
  <2>2. CASE HistoryDelete
    <3>1. TaskTableTypeOK'
      BY <2>2, TaskStatements, Untouched DEF HistoryDelete
    <3>2. LoopTypeOK'
      BY <2>2 DEF HistoryDelete, LoopTypeOK
    <3> QED
      BY <1>0, <2>2, <3>1, <3>2, Untouched DEF HistoryDelete, wireVars, workerProcVars
  <2> QED
    BY <1>3, <2>1, <2>2
<1>4. CASE ManagerRestart
  <2> USE <1>4 DEF ManagerRestart
  <2>1. TaskTableTypeOK'
    BY TaskStatements
  <2>2. wire' \in [Conns -> {"unused", "open", "broken"}]
    BY DEF WireTypeOK
  <2>3. toManager' \in [Conns -> Seq(ToManagerMsg)]
    BY EmptySeq
  <2>4. WireTypeOK' /\ LiveWorkerHasConn'
    BY <2>2, <2>3 DEF WireTypeOK, LiveWorkerHasConn, workerProcVars
  <2>5. ConnTypeOK'
    BY 0 \in Int, FALSE \in BOOLEAN, HandlingTyped DEF ConnTypeOK
  <2>6. DispatcherTypeOK' /\ BatchInHand'
    BY EmptySeq DEF DispatcherTypeOK, BatchInHand, WorkerNames
  <2>7. ApiTypeOK' /\ LoopTypeOK' /\ RmTypeOK'
    BY DEF ApiTypeOK, LoopTypeOK, RmTypeOK, Idle, WorkerNames
  <2> QED
    BY <2>1, <2>4, <2>5, <2>6, <2>7, Untouched
<1> QED
  BY <1>1, <1>2, <1>3, <1>4

\* The actions of the API.
LEMMA ApiTypes ==
    ASSUME TypeInv, UNCHANGED workerProcVars,
           \/ \E t \in Tasks : HandleTaskPost(t) \/ HandleTaskDelete(t)
           \/ \E w \in Workers : HandleWorkerDelete(w) \/ HandleWorkerPost(w)
    PROVE  TypeInv'
<1> USE DEF TypeInv, TypeOK, StoreTypeOK, ManagerTypeOK
<1>0. WorkerTypeOK' /\ "pending" \in Statuses /\ NoWorker \in WorkerNames
      /\ "deleted" \in Statuses /\ Workers \subseteq WorkerNames
  BY Untouched DEF Statuses, WorkerNames
<1>1. ASSUME NEW t \in Tasks, PostTask(t)  PROVE TypeInv'
  <2>1. TaskTableTypeOK'
    BY <1>0, <1>1, TaskStatements DEF PostTask
  <2> QED
    BY <1>0, <1>1, <2>1, Untouched DEF PostTask, managerVars, wireVars, workerProcVars
<1>2. ASSUME NEW t \in Tasks, NEW w \in Workers, PostCheck(t, w)  PROVE TypeInv'
  <2>1. ApiTypeOK'
    BY <1>0, <1>2 DEF PostCheck, ApiTypeOK
  <2> QED
    BY <1>0, <1>2, <2>1, Untouched DEF PostCheck, storeVars, wireVars, workerProcVars
<1>3. ASSUME NEW t \in Tasks, PostInsert(t)  PROVE TypeInv'
  <2>1. TaskTableTypeOK'
    BY <1>0, <1>3, TaskStatements DEF PostInsert, ApiTypeOK
  <2>2. ApiTypeOK'
    BY <1>0, <1>3 DEF PostInsert, ApiTypeOK
  <2> QED
    BY <1>0, <1>3, <2>1, <2>2, Untouched DEF PostInsert, wireVars, workerProcVars
<1>4. ASSUME NEW t \in Tasks, DeleteRead(t)  PROVE TypeInv'
  <2>1. ApiTypeOK'
    <3>1. taskWorker[t] \in WorkerNames
      BY DEF TaskTableTypeOK
    <3>2. /\ At("send", taskWorker[t]) \in [pc : {"idle", "send", "sent", "mark"},
                                            worker : WorkerNames]
          /\ At("mark", NoWorker) \in [pc : {"idle", "send", "sent", "mark"},
                                       worker : WorkerNames]
      BY <1>0, <3>1 DEF At
    <3> QED
      BY <1>4, <3>2 DEF DeleteRead, ApiTypeOK
  <2> QED
    BY <1>0, <1>4, <2>1, Untouched DEF DeleteRead, storeVars, wireVars, workerProcVars
<1>5. ASSUME NEW t \in Tasks, DeleteSend(t)  PROVE TypeInv'
  <2>1. ApiTypeOK'
    BY <1>0, <1>5 DEF DeleteSend, ApiTypeOK, At, Idle
  <2>2. toWorker' \in [Conns -> Seq(ToWorkerMsg)]
    <3> DEFINE c == sock[del[t].worker]
    <3>1. toWorker' = Written(toWorker, c, DeleteTaskMsg(t)) \/ UNCHANGED toWorker
      BY <1>5 DEF DeleteSend
    <3>2. DeleteTaskMsg(t) \in ToWorkerMsg /\ toWorker \in [Conns -> Seq(ToWorkerMsg)]
      BY MessagesTyped DEF WireTypeOK
    <3> HIDE DEF c
    <3>3. Written(toWorker, c, DeleteTaskMsg(t)) \in [Conns -> Seq(ToWorkerMsg)]
      BY <3>2, QueuesTyped
    <3> QED
      BY <3>1, <3>2, <3>3
  <2>3. WireTypeOK'
    BY <1>5, <2>2 DEF DeleteSend, WireTypeOK
  <2> QED
    BY <1>0, <1>5, <2>1, <2>3, Untouched DEF DeleteSend, storeVars, workerProcVars
<1>6. ASSUME NEW t \in Tasks, DeleteSent(t)  PROVE TypeInv'
  <2>1. ApiTypeOK'
    BY <1>0, <1>6 DEF DeleteSent, ApiTypeOK, At, Idle
  <2>2. TaskTableTypeOK'
    BY <1>0, <1>6, TaskStatements, Untouched DEF DeleteSent
  <2> QED
    BY <1>0, <1>6, <2>1, <2>2, Untouched DEF DeleteSent, wireVars, workerProcVars
<1>7. ASSUME NEW t \in Tasks, DeleteMark(t)  PROVE TypeInv'
  <2>1. ApiTypeOK'
    BY <1>0, <1>7 DEF DeleteMark, ApiTypeOK, Idle
  <2>2. TaskTableTypeOK'
    BY <1>0, <1>7, TaskStatements, Untouched DEF DeleteMark
  <2> QED
    BY <1>0, <1>7, <2>1, <2>2, Untouched DEF DeleteMark, wireVars, workerProcVars
<1>8. ASSUME NEW w \in Workers, HandleWorkerDelete(w)  PROVE TypeInv'
  <2>1. RmTypeOK'
    BY <1>0, <1>8 DEF HandleWorkerDelete, RmTypeOK, At, Callers
  <2> QED
    BY <1>0, <1>8, <2>1, Untouched DEF HandleWorkerDelete, storeVars, wireVars, workerProcVars
<1>9. ASSUME NEW w \in Workers, HandleWorkerPost(w)  PROVE TypeInv'
  <2>1. WorkerTableTypeOK'
    BY <1>9, 0 \in Int, WorkerStatements DEF HandleWorkerPost
  <2> QED
    BY <1>0, <1>9, <2>1, Untouched DEF HandleWorkerPost, managerVars, wireVars, workerProcVars
<1> QED
  BY <1>1, <1>2, <1>3, <1>4, <1>5, <1>6, <1>7, <1>8, <1>9 DEF HandleTaskPost, HandleTaskDelete

-----------------------------------------------------------------------------

\* Every step of the system keeps the type invariant.
LEMMA TypeStep == TypeInv /\ [Next]_vars => TypeInv'
<1> SUFFICES ASSUME TypeInv, [Next]_vars  PROVE TypeInv'
  OBVIOUS
\* The parts of the state that no step of a worker touches.
<1>0. ASSUME UNCHANGED <<storeVars, managerVars>>, RunInv'  PROVE TypeInv'
  BY <1>0, Untouched
  DEF RunInv, TypeInv, TypeOK, StoreTypeOK, ManagerTypeOK, storeVars, managerVars
<1>1. CASE ManagerNext /\ UNCHANGED workerProcVars
  BY <1>1, DispatchTypes, ReaderTypes, ApiTypes, LoopTypes
  DEF ManagerNext
<1>2. CASE WorkerNext /\ UNCHANGED <<storeVars, managerVars>>
  <2>1. RunInv
    BY DEF RunInv, TypeInv, TypeOK
  <2> QED
    BY <1>0, <1>2, <2>1, RunTypes, WorkerTypes DEF WorkerNext
<1>3. CASE \E c \in Conns : Cut(c)
  <2>1. PICK c \in Conns : Cut(c)
    BY <1>3
  <2>2. WireTypeOK'
    BY <2>1 DEF Cut, Break, WireTypeOK, TypeInv, TypeOK
  <2> QED
    BY <1>0, <2>1, <2>2, Untouched DEF Cut, workerProcVars, RunInv
<1>4. CASE UNCHANGED vars
  BY <1>4, Untouched DEF vars, TypeInv, TypeOK, StoreTypeOK, ManagerTypeOK,
     storeVars, managerVars, wireVars, workerProcVars
<1> QED
  BY <1>1, <1>2, <1>3, <1>4 DEF Next

\* The state of the whole system keeps its types (TypeOK, NTask.tla).
THEOREM TypeCorrect == Spec => []TypeOK
<1>1. Spec => []TypeInv
  BY TypeInit, TypeStep, PTL DEF Spec
<1>2. TypeInv => TypeOK
  BY DEF TypeInv
<1> QED
  BY <1>1, <1>2, PTL

-----------------------------------------------------------------------------
(* What RunProofs says of the workers holds beside this manager as well.    *)

\* Beside nTask's own manager, whatever connections break and whoever restarts,
\* a kill by pid hits no process of another task, and a run reports once
\* (KillTargetsOwnTask and OneReport, Worker.tla).
THEOREM WorkersKeepPromises == Spec => []KillTargetsOwnTask /\ [][OneReport]_vars
<1>1. Init => PidInv
  BY DEF Init, WorkerInit, PidInv, OwnPid
\* No step of another actor touches the runs or writes to the manager.
<1> DEFINE Shorter == \A c \in Conns : ~(Len(toManager'[c]) > Len(toManager[c]))
<1>2. ASSUME TypeInv, [Next]_vars, ~WorkerNext
      PROVE  UNCHANGED <<working, runs>> /\ Shorter
  <2>1. toManager \in [Conns -> Seq(ToManagerMsg)]
    BY <1>2 DEF TypeInv, TypeOK, WireTypeOK
  <2>2. /\ \A c \in Conns : Len(toManager[c]) \in Nat
        /\ Len(<<>>) = 0
        /\ \A c \in Conns : toManager[c] # <<>> => Len(Tail(toManager[c])) = Len(toManager[c]) - 1
    BY <2>1
  <2>3. ASSUME \A c \in Conns : \/ toManager'[c] = toManager[c] \/ toManager'[c] = <<>>
                                \/ toManager[c] # <<>> /\ toManager'[c] = Tail(toManager[c])
        PROVE  Shorter
    <3> SUFFICES ASSUME NEW c \in Conns  PROVE ~(Len(toManager'[c]) > Len(toManager[c]))
      OBVIOUS
    <3>1. CASE toManager'[c] = toManager[c]
      BY <2>2, <3>1
    <3>2. CASE toManager'[c] = <<>>
      BY <2>2, <3>2
    <3>3. CASE toManager[c] # <<>> /\ toManager'[c] = Tail(toManager[c])
      BY <2>2, <3>3
    <3> QED
      BY <2>3, <3>1, <3>2, <3>3
  <2> HIDE DEF Shorter
  <2> SUFFICES Shorter
    BY <1>2 DEF Next, Cut, vars, workerProcVars
  <2>4. CASE UNCHANGED toManager
    <3>1. \A c \in Conns : toManager'[c] = toManager[c]
      BY <2>4
    <3> QED
      BY <2>3, <3>1
  <2>5. ASSUME NEW c \in Conns, Reader(c)  PROVE Shorter
    <3>1. \/ toManager[c] # <<>> /\ toManager' = [toManager EXCEPT ![c] = Tail(@)]
          \/ toManager' = [toManager EXCEPT ![c] = <<>>]
          \/ UNCHANGED toManager
      BY <2>5
      DEF Reader, HandleAddWorker, HandleDeleteWorker, HandleCallbackTask,
          HandleFailedAddTask, HandleWorkerStatus, Receive, Consumed, InsertWorker,
          UpdateStatus, ReadError, MarkDown, RequeueLost, wireVars
    <3> QED
      BY <2>1, <2>3, <3>1
  <2>6. CASE Dispatch
    BY <2>4, <2>6 DEF Dispatch, ReadTasks, ReadWorkers, NextWorkers, NextTask, Pick, Send,
       SendFails, Mark, wireVars
  <2>7. ASSUME NEW x \in Callers, RmWorkerName(x)  PROVE UNCHANGED toManager
    BY <2>7 DEF RmWorkerName, RmDelete, RmRequeue, RmClear, wireVars
  <2>8. CASE Verify
    BY <2>4, <2>8 DEF Verify, VerifyForget, VerifyDown, VerifyCount, VerifyOrphan, Poll,
       VerifyMissing, wireVars
  <2>9. ASSUME NEW t \in Tasks, HandleTaskPost(t) \/ HandleTaskDelete(t)
        PROVE  UNCHANGED toManager
    BY <2>9 DEF HandleTaskPost, HandleTaskDelete, PostTask, PostCheck, PostInsert, DeleteRead,
       DeleteSend, DeleteSent, DeleteMark, wireVars
  <2>10. CASE \/ HistoryCount \/ HistoryDelete \/ UNCHANGED vars
              \/ \E c \in Conns : Cut(c)
              \/ \E w \in Workers : HandleWorkerDelete(w) \/ HandleWorkerPost(w)
    BY <2>4, <2>10
    DEF HistoryCount, HistoryDelete, Cut, HandleWorkerDelete, HandleWorkerPost, vars, wireVars
  <2>11. CASE ManagerRestart
    <3>1. \A c \in Conns : toManager'[c] = <<>>
      BY <2>11 DEF ManagerRestart
    <3> QED
      BY <2>3, <3>1
  <2> QED
    BY <1>2, <2>4, <2>5, <2>6, <2>7, <2>8, <2>9, <2>10, <2>11 DEF Next, ManagerNext
<1>3. TypeInv => RunInv
  BY DEF TypeInv, TypeOK, RunInv
<1>4. ASSUME TypeInv, PidInv, [Next]_vars  PROVE PidInv' /\ [OneReport]_vars
  <2>1. CASE WorkerNext
    BY <1>3, <1>4, <2>1, PidStep, ReportStep
  <2>2. CASE ~WorkerNext
    BY <1>2, <1>4, <2>2 DEF PidInv, OwnPid, OneReport
  <2> QED
    BY <2>1, <2>2
<1>5. PidInv => KillTargetsOwnTask
  BY DEF PidInv, OwnPid, KillTargetsOwnTask
<1>6. Spec => [](TypeInv /\ PidInv)
  BY <1>1, <1>4, TypeInit, TypeStep, PTL DEF Spec
<1> QED
  BY <1>4, <1>5, <1>6, PTL DEF Spec
=============================================================================
