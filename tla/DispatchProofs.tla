--------------------------- MODULE DispatchProofs ---------------------------
(***************************************************************************)
(* The dispatcher never sends a task twice for one time it was put to      *)
(* pending (NoDoubleDispatch), although it works from copies that every    *)
(* other goroutine may have overtaken.  The inductive invariant follows a  *)
(* task from GetTasksPending to UpdateTask: the tasks of a batch are       *)
(* distinct; those behind the first are not sent yet; the first is sent    *)
(* only when the dispatcher is about to mark it, or when no worker is left *)
(* that it may be tried on, its copy bearing the name of the one that has  *)
(* it; and a row that says pending belongs to a task not sent, or to the   *)
(* one about to be marked.                                                 *)
(***************************************************************************)
EXTENDS TypeProofs

DistinctTasks ==
    \A i, j \in DOMAIN batch : i # j => batch[i].id # batch[j].id

RestUnsent ==
    \A i \in DOMAIN batch : i # 1 => ~claimed[batch[i].id]

FirstUnsent ==
    (dpc # "tasks" /\ claimed[Head(batch).id]) =>
        \/ dpc = "mark"
        \/ dpc = "pick" /\ \A w \in todo : ~Matches(w)

CandidateTried ==
    /\ dpc \in {"send", "mark"} => cand \in Workers /\ cand \notin todo
    /\ dpc = "mark" => Head(batch).worker = cand

PendingUnsent ==
    \A t \in Tasks : claimed[t] /\ taskStatus[t] = "pending" =>
                        dpc = "mark" /\ t = Head(batch).id

DispatchInv ==
    DistinctTasks /\ RestUnsent /\ FirstUnsent /\ CandidateTried /\ PendingUnsent

\* What every statement but the dispatcher's own does to the two columns: it
\* marks no task as sent, and no sent task as pending.
Harmless ==
    \A t \in Tasks : claimed'[t] =>
        claimed[t] /\ (taskStatus'[t] = "pending" => taskStatus[t] = "pending")

\* The tasks of a batch are tasks.
LEMMA BatchTyped ==
    ASSUME TypeInv
    PROVE  /\ \A i \in DOMAIN batch : batch[i].id \in Tasks
           /\ DOMAIN batch = 1 .. Len(batch) /\ Len(batch) \in Nat
           /\ dpc # "tasks" => Head(batch) = batch[1] /\ 1 \in DOMAIN batch
<1>1. batch \in Seq([id : Tasks, worker : WorkerNames])
  BY DEF TypeInv, TypeOK, ManagerTypeOK, DispatcherTypeOK
<1>2. DOMAIN batch = 1 .. Len(batch) /\ Len(batch) \in Nat
  BY <1>1
<1>3. \A i \in DOMAIN batch : batch[i] \in [id : Tasks, worker : WorkerNames]
  BY <1>1, <1>2, ElementOfSeq
<1> QED
  BY <1>2, <1>3, FirstOfBatch

\* A harmless step that leaves the dispatcher alone keeps the invariant.
LEMMA HarmlessStep ==
    ASSUME TypeInv, DispatchInv, Harmless, UNCHANGED dispVars
    PROVE  DispatchInv'
<1> USE DEF DispatchInv, dispVars, Harmless
<1>1. DistinctTasks'
  BY DEF DistinctTasks
<1>2. RestUnsent'
  BY BatchTyped DEF RestUnsent
<1>3. FirstUnsent'
  BY FirstOfBatch DEF FirstUnsent, Matches
<1>4. CandidateTried'
  BY DEF CandidateTried
<1>5. PendingUnsent'
  BY DEF PendingUnsent
<1> QED
  BY <1>1, <1>2, <1>3, <1>4, <1>5

\* The dispatcher goes on with tasks none of which is sent.
LEMMA NextTaskStep ==
    ASSUME TypeInv, DispatchInv, dpc # "mark",
           NEW rest \in Seq([id : Tasks, worker : WorkerNames]),
           \A i, j \in DOMAIN rest : i # j => rest[i].id # rest[j].id,
           \A i \in DOMAIN rest : ~claimed[rest[i].id],
           NextTask(rest)
    PROVE  DispatchInv'
<1> USE DEF DispatchInv
<1>1. UNCHANGED <<taskStatus, claimed>>
  BY DEF NextTask, storeVars, taskVars
<1>2. CASE dpc' = "tasks" /\ batch' = <<>>
  BY <1>1, <1>2 DEF DistinctTasks, RestUnsent, FirstUnsent, CandidateTried, PendingUnsent
<1>3. CASE dpc' = "pick" /\ batch' = rest /\ rest # <<>>
  <2>1. Head(rest) = rest[1] /\ 1 \in DOMAIN rest
    BY <1>3
  <2>2. ~claimed[Head(rest).id]
    BY <2>1
  <2> QED
    BY <1>1, <1>3, <2>2
    DEF DistinctTasks, RestUnsent, FirstUnsent, CandidateTried, PendingUnsent
<1> QED
  BY <1>2, <1>3 DEF NextTask

\* Every step of the dispatcher keeps the invariant.
LEMMA DispatchStep ==
    ASSUME TypeInv, DispatchInv, Dispatch
    PROVE  DispatchInv'
<1> USE DEF DispatchInv
<1>1. CASE ReadTasks
  <2>1. PICK b \in GetTasksPending(WorkersThreads) :
          batch' = [i \in DOMAIN b |-> [id |-> b[i], worker |-> taskWorker[b[i]]]]
    BY <1>1 DEF ReadTasks
  <2>2. /\ b \in Seq(Tasks)
        /\ \A i \in 1 .. Len(b) : taskStatus[b[i]] = "pending"
        /\ \A i, j \in 1 .. Len(b) : i # j => b[i] # b[j]
    BY PendingBatch DEF TypeInv, TypeOK
  <2>3. /\ DOMAIN batch' = 1 .. Len(b) /\ Len(b) \in Nat
        /\ \A i \in 1 .. Len(b) : batch'[i].id = b[i]
        /\ \A i \in 1 .. Len(b) : b[i] \in Tasks
    BY <2>1, <2>2
  <2>4. dpc = "tasks" /\ dpc' \in {"tasks", "workers"} /\ UNCHANGED <<taskStatus, claimed>>
        /\ (dpc' # "tasks" => batch' # <<>>)
    BY <1>1 DEF ReadTasks, storeVars, taskVars
  <2>5. \A i \in 1 .. Len(b) : ~claimed[b[i]]
    BY <2>2, <2>3, <2>4 DEF PendingUnsent
  <2>6. dpc' # "tasks" => ~claimed'[Head(batch').id]
    <3>1. ASSUME batch' # <<>>  PROVE Len(b) > 0 /\ Head(batch') = batch'[1]
      BY <2>1, <2>2, <3>1
    <3> QED
      BY <2>3, <2>4, <2>5, <3>1
  <2> QED
    BY <2>2, <2>3, <2>4, <2>5, <2>6
    DEF DistinctTasks, RestUnsent, FirstUnsent, CandidateTried, PendingUnsent
<1>2. CASE ReadWorkers
  <2>1. dpc = "workers" /\ NextTask(batch)
    BY <1>2 DEF ReadWorkers
  <2>2. \A i \in DOMAIN batch : ~claimed[batch[i].id]
    BY <2>1, BatchTyped DEF RestUnsent, FirstUnsent
  <2> QED
    BY <2>1, <2>2, NextTaskStep, FirstOfBatch DEF DistinctTasks
<1>3. CASE NextWorkers
  <2>1. dpc = "pick" /\ NextTask(Tail(batch))
    BY <1>3 DEF NextWorkers
  <2>2. /\ Tail(batch) \in Seq([id : Tasks, worker : WorkerNames])
        /\ DOMAIN Tail(batch) = 1 .. (Len(batch) - 1)
        /\ \A i \in DOMAIN Tail(batch) : Tail(batch)[i] = batch[i + 1] /\ i + 1 \in DOMAIN batch
    BY <2>1, FirstOfBatch, BatchTyped
  <2>3. \A i, j \in DOMAIN Tail(batch) : i # j => Tail(batch)[i].id # Tail(batch)[j].id
    BY <2>2 DEF DistinctTasks
  <2>4. \A i \in DOMAIN Tail(batch) : ~claimed[Tail(batch)[i].id]
    BY <2>2 DEF RestUnsent
  <2> QED
    BY <2>1, <2>2, <2>3, <2>4, NextTaskStep
<1>4. CASE Send
  <2> DEFINE t == Head(batch).id
  <2>1. /\ dpc = "send" /\ dpc' = "mark" /\ UNCHANGED <<todo, cand, taskStatus>>
        /\ claimed' = [claimed EXCEPT ![t] = TRUE]
        /\ batch' = [batch EXCEPT ![1] = [id |-> t, worker |-> cand]]
    BY <1>4 DEF Send
  <2>2. Head(batch) = batch[1] /\ 1 \in DOMAIN batch /\ t \in Tasks
        /\ Len(batch) \in Nat /\ DOMAIN batch = 1 .. Len(batch)
    BY <2>1, FirstOfBatch, BatchTyped
  <2>3. /\ DOMAIN batch' = DOMAIN batch /\ Head(batch') = batch'[1]
        /\ batch'[1] = [id |-> t, worker |-> cand]
        /\ \A i \in DOMAIN batch : batch'[i].id = batch[i].id
    <3>1. DOMAIN batch' = DOMAIN batch /\ batch'[1] = [id |-> t, worker |-> cand]
      BY <2>1, <2>2
    <3>2. \A i \in DOMAIN batch : batch'[i].id = batch[i].id
      BY <2>1, <2>2
    <3>3. batch \in Seq([id : Tasks, worker : WorkerNames])
      BY <2>1, FirstOfBatch
    <3>4. [id |-> t, worker |-> cand] \in [id : Tasks, worker : WorkerNames]
      BY <2>2 DEF TypeInv, TypeOK, ManagerTypeOK, DispatcherTypeOK
    <3>5. batch' \in Seq([id : Tasks, worker : WorkerNames]) /\ Len(batch') = Len(batch)
      BY <2>1, <2>2, <3>3, <3>4, ExceptSeq
    <3>6. Head(batch') = batch'[1]
      BY <2>2, <3>5
    <3> QED
      BY <3>1, <3>2, <3>6
  <2>4. \A s \in Tasks : s # t => claimed'[s] = claimed[s]
    BY <2>1 DEF TypeInv, TypeOK, StoreTypeOK, TaskTableTypeOK
  <2>5. DistinctTasks'
    BY <2>3 DEF DistinctTasks
  <2>6. RestUnsent'
    BY <2>2, <2>3, <2>4, BatchTyped DEF RestUnsent, DistinctTasks
  <2>7. FirstUnsent' /\ CandidateTried'
    BY <2>1, <2>3 DEF FirstUnsent, CandidateTried
  <2>8. PendingUnsent'
    BY <2>1, <2>3, <2>4 DEF PendingUnsent
  <2> QED
    BY <2>5, <2>6, <2>7, <2>8
<1>5. CASE SendFails
  <2>1. dpc = "send" /\ dpc' = "pick" /\ todo' = {} /\ UNCHANGED <<batch, taskStatus, claimed>>
    BY <1>5 DEF SendFails, storeVars, taskVars
  <2> QED
    BY <2>1 DEF DistinctTasks, RestUnsent, FirstUnsent, CandidateTried, PendingUnsent
<1>6. CASE Mark
  <2> DEFINE t == Head(batch).id
  <2>1. dpc = "mark" /\ dpc' = "pick" /\ UNCHANGED batch
    BY <1>6 DEF Mark
  <2>2. t \in Tasks /\ cand \in Workers /\ cand \notin todo /\ Head(batch).worker = cand
    BY <2>1, FirstOfBatch DEF CandidateTried
  <2>3. CASE UpdateTask(t, "running", cand) /\ UNCHANGED todo
    <3>1. UNCHANGED claimed /\ taskStatus' = [taskStatus EXCEPT ![t] = "running"]
      BY <2>3 DEF UpdateTask
    <3>2. \A w \in todo' : ~(Matches(w)')
      BY <2>1, <2>2, <2>3, WorkersAssumption DEF Matches, TypeInv, TypeOK, ManagerTypeOK,
         DispatcherTypeOK
    <3>3. PendingUnsent'
      BY <2>1, <2>2, <3>1 DEF PendingUnsent, TypeInv, TypeOK, StoreTypeOK, TaskTableTypeOK
    <3> QED
      BY <2>1, <3>1, <3>2, <3>3 DEF DistinctTasks, RestUnsent, FirstUnsent, CandidateTried
  <2>4. CASE claimed' = [claimed EXCEPT ![t] = FALSE] /\ todo' = {} /\ UNCHANGED taskStatus
    <3>1. \A s \in Tasks : claimed'[s] => claimed[s] /\ s # t
      BY <2>4 DEF TypeInv, TypeOK, StoreTypeOK, TaskTableTypeOK
    <3> QED
      BY <2>1, <2>2, <2>4, <3>1, BatchTyped
      DEF DistinctTasks, RestUnsent, FirstUnsent, CandidateTried, PendingUnsent
  <2> QED
    BY <1>6, <2>3, <2>4 DEF Mark
<1>7. CASE \E w \in Workers : Pick(w)
  <2>1. PICK w \in Workers : Pick(w)
    BY <1>7
  <2>2. dpc = "pick" /\ w \in todo /\ Matches(w) /\ UNCHANGED <<batch, taskStatus, claimed>>
    BY <2>1 DEF Pick, taskVars
  <2>3. CASE dpc' = "send" /\ cand' = w /\ todo' = todo \ {w}
    BY <2>2, <2>3 DEF DistinctTasks, RestUnsent, FirstUnsent, CandidateTried, PendingUnsent
  <2>4. CASE todo' = {} /\ UNCHANGED <<dpc, cand>>
    BY <2>2, <2>4 DEF DistinctTasks, RestUnsent, FirstUnsent, CandidateTried, PendingUnsent
  <2> QED
    BY <2>1, <2>3, <2>4 DEF Pick
<1> QED
  BY <1>1, <1>2, <1>3, <1>4, <1>5, <1>6, <1>7 DEF Dispatch

-----------------------------------------------------------------------------

\* A step of a reader, of RmWorkerName, of the verify or the history loop, or of
\* the API.
LEMMA OtherManagerStep ==
    ASSUME TypeInv, DispatchInv,
           \/ \E c \in Conns : Reader(c)
           \/ \E x \in Callers : RmWorkerName(x)
           \/ Verify
           \/ \E t \in Tasks : HandleTaskPost(t) \/ HandleTaskDelete(t)
           \/ \E w \in Workers : HandleWorkerDelete(w) \/ HandleWorkerPost(w)
           \/ HistoryCount \/ HistoryDelete
    PROVE  DispatchInv'
<1>0. /\ TaskTableTypeOK
      /\ "pending" \in Statuses /\ "deleted" \in Statuses /\ Results \subseteq Statuses
      /\ "pending" \notin Results
  BY DEF TypeInv, TypeOK, StoreTypeOK, Statuses, Results
<1>1. ASSUME \/ \E t \in Tasks : \E w : AddTask(t, w)
             \/ \E t \in Tasks, st \in Results : \E w : UpdateTask(t, st, w)
             \/ \E t \in Tasks, st \in Statuses : SetTaskStatus(t, st)
      PROVE  Harmless
  <2> USE <1>0 DEF TaskTableTypeOK, Harmless
  <2>1. ASSUME NEW t \in Tasks, NEW w, AddTask(t, w)  PROVE Harmless
    BY <2>1 DEF AddTask
  <2>2. ASSUME NEW t \in Tasks, NEW w, NEW st \in Results, UpdateTask(t, st, w)  PROVE Harmless
    BY <2>2 DEF UpdateTask
  <2>3. ASSUME NEW t \in Tasks, NEW st \in Statuses, SetTaskStatus(t, st)  PROVE Harmless
    BY <2>3 DEF SetTaskStatus
  <2> QED
    BY <1>1, <2>1, <2>2, <2>3
<1>2. ASSUME \E v : SetTasksWorkerPending(v) \/ ClearWorkerName(v)
      PROVE  Harmless
  BY <1>0, <1>2 DEF Harmless, TaskTableTypeOK, SetTasksWorkerPending, ClearWorkerName
<1>3. ASSUME UNCHANGED taskVars  PROVE Harmless
  BY <1>3 DEF Harmless, taskVars
<1>4. CASE \E c \in Conns : Reader(c)
  <2>1. PICK c \in Conns : Reader(c)
    BY <1>4
  <2>2. UNCHANGED dispVars
    BY <2>1 DEF Reader, HandleAddWorker, HandleDeleteWorker, HandleCallbackTask,
       HandleFailedAddTask, HandleWorkerStatus, InsertWorker, UpdateStatus, Receive,
       ReadError, MarkDown, RequeueLost
  <2>3. ASSUME NEW type, Receive(c, type)
        PROVE  Head(toManager[c]) \in ToManagerMsg /\ Head(toManager[c]).type = type
    BY <2>3, HeadTailProperties DEF Receive, TypeInv, TypeOK, WireTypeOK
  <2>4. CASE HandleCallbackTask(c)
    <3> DEFINE m == Head(toManager[c])
    <3>1. m \in ToManagerMsg /\ m.type = "callbackTask"
      BY <2>3, <2>4 DEF HandleCallbackTask
    <3>2. UpdateTask(m.task, m.status, m.worker) \/ UNCHANGED taskVars
      BY <2>4 DEF HandleCallbackTask
    <3> HIDE DEF m
    <3>3. m.task \in Tasks /\ m.status \in Results
      BY <3>1, MessageFields
    <3> QED
      BY <1>1, <1>3, <3>2, <3>3, <2>2, HarmlessStep
  <2>5. CASE HandleFailedAddTask(c)
    <3> DEFINE m == Head(toManager[c])
    <3>1. m \in ToManagerMsg /\ m.type = "FAILED;addTask"
      BY <2>3, <2>5 DEF HandleFailedAddTask
    <3>2. SetTaskStatus(m.task, "pending") \/ UNCHANGED taskVars
      BY <2>5 DEF HandleFailedAddTask
    <3> HIDE DEF m
    <3>3. m.task \in Tasks
      BY <3>1, MessageFields
    <3> QED
      BY <1>0, <1>1, <1>3, <3>2, <3>3, <2>2, HarmlessStep
  <2>6. CASE RequeueLost(c)
    BY <1>2, <1>3, <2>2, <2>6, HarmlessStep DEF RequeueLost
  <2>7. CASE UNCHANGED taskVars
    BY <1>3, <2>2, <2>7, HarmlessStep
  <2> QED
    BY <2>1, <2>4, <2>5, <2>6, <2>7
    DEF Reader, HandleAddWorker, HandleDeleteWorker, HandleWorkerStatus, InsertWorker,
        UpdateStatus, ReadError, MarkDown, storeVars
<1>5. CASE \E x \in Callers : RmWorkerName(x)
  <2>1. PICK x \in Callers : RmWorkerName(x)
    BY <1>5
  <2>2. UNCHANGED dispVars
    BY <2>1 DEF RmWorkerName, RmDelete, RmRequeue, RmClear
  <2>3. \/ \E v : SetTasksWorkerPending(v) \/ ClearWorkerName(v)
        \/ UNCHANGED taskVars
    BY <2>1 DEF RmWorkerName, RmDelete, RmRequeue, RmClear
  <2> QED
    BY <1>2, <1>3, <2>2, <2>3, HarmlessStep
<1>6. CASE Verify
  <2>1. UNCHANGED dispVars
    BY <1>6 DEF Verify, VerifyForget, VerifyDown, VerifyCount, VerifyOrphan, Poll, VerifyMissing,
       managerVars
  <2>2. \/ \E v : SetTasksWorkerPending(v)
        \/ UNCHANGED taskVars
    BY <1>6 DEF Verify, VerifyForget, VerifyDown, VerifyCount, VerifyOrphan, Poll, VerifyMissing, storeVars
  <2> QED
    BY <1>2, <1>3, <2>1, <2>2, HarmlessStep
<1>7. CASE \E t \in Tasks : HandleTaskPost(t)
  <2>1. PICK t \in Tasks : HandleTaskPost(t)
    BY <1>7
  <2>2. UNCHANGED dispVars
    BY <2>1 DEF HandleTaskPost, PostTask, PostCheck, PostInsert, managerVars
  <2>3. (\E w : AddTask(t, w)) \/ UNCHANGED taskVars
    BY <2>1 DEF HandleTaskPost, PostTask, PostCheck, PostInsert, storeVars
  <2> QED
    BY <1>1, <1>3, <2>2, <2>3, HarmlessStep
<1>8. CASE \E t \in Tasks : HandleTaskDelete(t)
  <2>1. PICK t \in Tasks : HandleTaskDelete(t)
    BY <1>8
  <2>2. UNCHANGED dispVars
    BY <2>1 DEF HandleTaskDelete, DeleteRead, DeleteSend, DeleteSent, DeleteMark
  <2>3. SetTaskStatus(t, "deleted") \/ UNCHANGED taskVars
    BY <2>1 DEF HandleTaskDelete, DeleteRead, DeleteSend, DeleteSent, DeleteMark, storeVars
  <2> QED
    BY <1>0, <1>1, <1>3, <2>2, <2>3, HarmlessStep
<1>9. CASE \E w \in Workers : HandleWorkerDelete(w) \/ HandleWorkerPost(w)
  BY <1>3, <1>9, HarmlessStep DEF HandleWorkerDelete, HandleWorkerPost, storeVars, managerVars
<1>10. CASE HistoryCount \/ HistoryDelete
  <2>1. Harmless
    <3>1. (\E T : DeleteRows(T)) \/ UNCHANGED taskVars
      BY <1>10 DEF HistoryCount, HistoryDelete, storeVars
    <3> QED
      BY <1>0, <1>3, <3>1 DEF Harmless, TaskTableTypeOK, DeleteRows
  <2> QED
    BY <1>10, <2>1, HarmlessStep DEF HistoryCount, HistoryDelete
<1> QED
  BY <1>4, <1>5, <1>6, <1>7, <1>8, <1>9, <1>10

\* No task is sent twice for one time it was put to pending, however many tasks
\* and workers there are and whatever fails (NoDoubleDispatch, NTask.tla).
THEOREM SentOnce == Spec => [](TypeInv /\ DispatchInv /\ NoDoubleDispatch)
<1>1. Init => DispatchInv
  BY DEF Init, StoreInit, ManagerInit, DispatchInv, DistinctTasks, RestUnsent, FirstUnsent,
     CandidateTried, PendingUnsent
<1>2. TypeInv /\ DispatchInv /\ [Next]_vars => DispatchInv'
  <2> SUFFICES ASSUME TypeInv, DispatchInv, [Next]_vars  PROVE DispatchInv'
    OBVIOUS
  <2>1. CASE Dispatch
    BY <2>1, DispatchStep
  <2>2. CASE ManagerRestart
    <3>1. dpc' = "tasks" /\ batch' = <<>> /\ claimed' = [t \in Tasks |-> FALSE]
      BY <2>2 DEF ManagerRestart, SetTasksStatusIfStatus
    <3> QED
      BY <3>1 DEF DispatchInv, DistinctTasks, RestUnsent, FirstUnsent, CandidateTried,
         PendingUnsent
  <2>3. CASE UNCHANGED <<taskVars, dispVars>>
    <3>1. Harmless
      BY <2>3 DEF Harmless, taskVars
    <3> QED
      BY <2>3, <3>1, HarmlessStep
  <2>4. CASE ManagerNext
    BY <2>1, <2>2, <2>4, OtherManagerStep DEF ManagerNext
  <2>5. CASE WorkerNext /\ UNCHANGED <<storeVars, managerVars>>
    BY <2>3, <2>5 DEF storeVars, managerVars
  <2>6. CASE \E c \in Conns : Cut(c)
    BY <2>3, <2>6 DEF Cut, storeVars, managerVars
  <2>7. CASE UNCHANGED vars
    BY <2>3, <2>7 DEF vars, storeVars, managerVars
  <2> QED
    BY <2>4, <2>5, <2>6, <2>7 DEF Next
<1>3. Spec => [](TypeInv /\ DispatchInv)
  BY <1>1, <1>2, TypeInit, TypeStep, PTL DEF Spec
<1>4. TypeInv /\ DispatchInv => NoDoubleDispatch
  BY DEF DispatchInv, FirstUnsent, NoDoubleDispatch
<1> QED
  BY <1>3, <1>4, PTL
=============================================================================
