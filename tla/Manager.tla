------------------------------ MODULE Manager ------------------------------
(***************************************************************************)
(* The manager process of nTask.  Its goroutines interleave at every SQL   *)
(* statement and every websocket read or write:                            *)
(*                                                                         *)
(*   ManageTasks         one dispatcher: reads the pending tasks and the   *)
(*                       idle workers, sends each task to a worker and     *)
(*                       then marks it running                             *)
(*   GetWorkerMessage    one reader per connection: handles the worker's   *)
(*                       messages, and the loss of the connection          *)
(*   VerifyWorkersLoop   polls the workers, drops those without websocket  *)
(*   DeleteMaxTaskHistoryLoop  deletes done tasks beyond a limit           *)
(*   API handlers        POST and DELETE of /task and of /worker           *)
(*                                                                         *)
(* RmWorkerName, three statements long, is called by readers, by the       *)
(* verify loop and by the API; rm says how far each caller is.             *)
(***************************************************************************)
EXTENDS Store, Wire

CONSTANTS
    Pins,               \* Pins[t]: the WorkerNames a user may post t with
    Deletable,          \* the tasks users may delete
    MaxTaskHistory      \* config.MaxTaskHistory: how many done tasks to keep, or 0

ASSUME PinsAssumption      == Pins \in [Tasks -> SUBSET WorkerNames]
ASSUME DeletableAssumption == Deletable \subseteq Tasks
ASSUME MaxTaskHistoryAssumption == MaxTaskHistory \in Nat

VerifyLoop == -1
Api        == -2
Callers    == Conns \union {VerifyLoop, Api}

VARIABLES
    sock,       \* sock[w]: config.WebSockets[w], NoConn when there is no entry
    reader,     \* reader[c]: where GetWorkerMessage of connection c is
    busy,       \* busy[c]: how far it is in handling an addWorker or a status
    dpc,        \* where the dispatcher is
    batch,      \* its tasks still to do: copies of their ID and WorkerName
    todo,       \* its workers still to try for the first task of batch
    cand,       \* the worker it is sending to
    post,       \* post[t]: worker checked by HandleTaskPost, t not yet inserted
    del,        \* del[t]: where HandleTaskDelete of t is, with the worker it read
    vfy,        \* where the verify loop is, with the worker it looks at
    hist,       \* how many rows the history loop is about to delete
    rm          \* rm[x]: where caller x is in RmWorkerName, and for which worker

dispVars == <<dpc, batch, todo, cand>>
apiVars  == <<post, del>>
loopVars == <<vfy, hist>>
connVars == <<sock, reader, busy>>
managerVars == <<connVars, dispVars, apiVars, loopVars, rm>>

Idle == [pc |-> "idle", worker |-> NoWorker]
At(pc, w) == [pc |-> pc, worker |-> w]

\* The handler of a status answer knows the idle threads the worker gave, and
\* whether they differed from those of the row when it read the row.
Handling(pc, idle, differs) == [pc |-> pc, idle |-> idle, differs |-> differs]
NotBusy == Handling("none", 0, FALSE)

ManagerInit ==
    /\ sock   = [w \in Workers |-> NoConn]
    /\ reader = [c \in Conns |-> "anonymous"]
    /\ busy   = [c \in Conns |-> NotBusy]
    /\ dpc = "tasks" /\ batch = <<>> /\ todo = {} /\ cand = NoWorker
    /\ post = [t \in Tasks |-> NoWorker]
    /\ del  = [t \in Tasks |-> Idle]
    /\ vfy  = Idle
    /\ hist = 0
    /\ rm   = [x \in Callers |-> Idle]

ConnTypeOK ==
    /\ sock \in [Workers -> Conns \union {NoConn}]
    /\ reader \in [Conns -> {"anonymous", "reading", "down", "requeue", "closed"}]
    /\ busy \in [Conns -> [pc : {"none", "add", "status"},
                           idle : Int, differs : BOOLEAN]]

DispatcherTypeOK ==
    /\ dpc \in {"tasks", "workers", "pick", "send", "mark"}
    /\ batch \in Seq([id : Tasks, worker : WorkerNames])
    /\ todo \subseteq Workers
    /\ cand \in WorkerNames

ApiTypeOK ==
    /\ post \in [Tasks -> WorkerNames]
    /\ del \in [Tasks -> [pc : {"idle", "send", "sent", "mark"},
                          worker : WorkerNames]]

LoopTypeOK ==
    /\ vfy \in [pc : {"idle", "forget", "down", "count", "orphan"}, worker : WorkerNames]
    /\ hist \in Nat

RmTypeOK == rm \in [Callers -> [pc : {"idle", "delete", "requeue", "clear"},
                                worker : WorkerNames]]

ManagerTypeOK == ConnTypeOK /\ DispatcherTypeOK /\ ApiTypeOK /\ LoopTypeOK /\ RmTypeOK

DbMayFail == "dberror" \in Faults /\ SpareConn

\* A statement on the row of task t fails: there is no row, or the database fails.
TaskFails(t) == ~TaskRow(t) \/ DbMayFail

-----------------------------------------------------------------------------
(* The dispatcher: ManageTasks and sendAddTask.  getWorkersThreads and     *)
(* GetTasksPending are one step: a stale number of threads only changes    *)
(* how many tasks are read.  A pass without tasks changes nothing.         *)

ReadTasks ==
    /\ dpc = "tasks"
    /\ \E b \in GetTasksPending(WorkersThreads) :
          /\ batch' = [i \in DOMAIN b |-> [id |-> b[i], worker |-> taskWorker[b[i]]]]
    /\ dpc' = IF batch' = <<>> THEN "tasks" ELSE "workers"
    /\ UNCHANGED <<todo, cand, connVars, apiVars, loopVars, rm, storeVars, wireVars>>

\* Go on with the tasks rest if there are any and a worker is idle; otherwise
\* the pass is over.
NextTask(rest) ==
    /\ IF rest = <<>> \/ GetWorkerIddle = {}
       THEN dpc' = "tasks" /\ batch' = <<>> /\ todo' = {}
       ELSE dpc' = "pick" /\ batch' = rest /\ todo' = GetWorkerIddle
    /\ UNCHANGED <<cand, connVars, apiVars, loopVars, rm, storeVars, wireVars>>

ReadWorkers == dpc = "workers" /\ NextTask(batch)

\* Mutation: the WorkerName of a task is ignored.
MatchesAny(w) == w \in Workers

Matches(w) == Head(batch).worker \in {NoWorker, w}

\* The idle workers come in random order (ORDER BY RAND()).  sendAddTask first
\* takes a thread of the worker; that fails when the row is gone.
Pick(w) ==
    /\ dpc = "pick"
    /\ w \in todo /\ Matches(w)
    /\ \/ /\ workerRow[w]
          /\ SubtractWorkerIddleThreads1(w)
          /\ todo' = todo \ {w}
          /\ cand' = w
          /\ dpc' = "send"
       \/ /\ ~workerRow[w] \/ DbMayFail
          /\ todo' = {}
          /\ UNCHANGED <<dpc, cand, workerVars>>
    /\ UNCHANGED <<batch, connVars, apiVars, loopVars, rm, taskVars, wireVars>>

\* Mutation: the task just tried stays in the batch.
NextWorkersSameTask ==
    /\ dpc = "pick"
    /\ \A w \in todo : ~Matches(w)
    /\ NextTask(batch)

\* The loop over the workers ends, or an error has ended it: GetWorkerIddle is
\* asked again before the next task.
NextWorkers ==
    /\ dpc = "pick"
    /\ \A w \in todo : ~Matches(w)
    /\ NextTask(Tail(batch))

\* Mutation: the copy of the task keeps its own WorkerName.
SendForgetsName ==
    /\ dpc = "send"
    /\ sock[cand] # NoConn /\ RoomFor(sock[cand])
    /\ LET t == Head(batch).id
       IN  /\ toWorker' = Written(toWorker, sock[cand], AddTaskMsg(t, cand))
           /\ claimed' = [claimed EXCEPT ![t] = TRUE]
    /\ dpc' = "mark"
    /\ UNCHANGED <<batch, todo, cand, connVars, apiVars, loopVars, rm>>
    /\ UNCHANGED <<taskStatus, taskWorker, pinned, workerVars, wire, dialer, toManager, conn>>

\* The copy of the task is given the worker's name before it is sent, so that
\* the loop over the workers does not send it again.
Send ==
    /\ dpc = "send"
    /\ sock[cand] # NoConn /\ RoomFor(sock[cand])
    /\ LET t == Head(batch).id
       IN  /\ toWorker' = Written(toWorker, sock[cand], AddTaskMsg(t, cand))
           /\ claimed' = [claimed EXCEPT ![t] = TRUE]
    /\ batch' = [batch EXCEPT ![1] = [id |-> Head(batch).id, worker |-> cand]]
    /\ dpc' = "mark"
    /\ UNCHANGED <<todo, cand, connVars, apiVars, loopVars, rm>>
    /\ UNCHANGED <<taskStatus, taskWorker, pinned, workerVars, wire, dialer, toManager, conn>>

SendFails ==
    /\ dpc = "send"
    /\ sock[cand] # NoConn => wire[sock[cand]] = "broken"
    /\ dpc' = "pick"
    /\ todo' = {}
    /\ cand' = NoWorker
    /\ UNCHANGED <<batch, connVars, apiVars, loopVars, rm, storeVars, wireVars>>

\* Mutation: the task is sent once more when marking it fails.
MarkRetries ==
    /\ dpc = "mark"
    /\ \/ /\ UpdateTask(Head(batch).id, "running", cand)
          /\ dpc' = "pick" /\ cand' = NoWorker
       \/ /\ DbMayFail
          /\ dpc' = "send"
          /\ UNCHANGED <<cand, taskVars>>
    /\ UNCHANGED <<batch, todo, connVars, apiVars, loopVars, rm, workerVars, wireVars>>

\* UpdateTask with the copy read at the start of the pass, whatever the row
\* has become meanwhile.
Mark ==
    /\ dpc = "mark"
    /\ \/ /\ TaskRow(Head(batch).id)
          /\ UpdateTask(Head(batch).id, "running", cand)
          /\ UNCHANGED todo
       \/ /\ TaskFails(Head(batch).id)
          /\ claimed' = [claimed EXCEPT ![Head(batch).id] = FALSE]
          /\ todo' = {}
          /\ UNCHANGED <<taskStatus, taskWorker, pinned>>
    /\ dpc' = "pick"
    /\ cand' = NoWorker
    /\ UNCHANGED <<batch, connVars, apiVars, loopVars, rm, workerVars, wireVars>>

Dispatch ==
    \/ ReadTasks \/ ReadWorkers \/ NextWorkers \/ Send
    \/ SendFails \/ Mark
    \/ \E w \in Workers : Pick(w)

-----------------------------------------------------------------------------
(* The reader of a connection: GetWorkerMessage and its handlers.          *)

Reading(c) ==
    /\ reader[c] \in {"anonymous", "reading"}
    /\ rm[c] = Idle /\ busy[c] = NotBusy

Receive(c, type) ==
    /\ Reading(c)
    /\ toManager[c] # <<>>
    /\ Head(toManager[c]).type = type
    /\ toManager' = Consumed(toManager, c)
    /\ UNCHANGED <<wire, dialer, toWorker, conn, dispVars, apiVars, loopVars>>

\* Mutation: the reader does not note which worker it serves.
HandleAddWorkerUnnoted(c) ==
    /\ Receive(c, "addWorker")
    /\ sock' = [sock EXCEPT ![dialer[c]] = c]
    /\ busy' = [busy EXCEPT ![c] = Handling("add", 0, FALSE)]
    /\ UNCHANGED <<reader, rm, storeVars>>

HandleAddWorker(c) ==
    /\ Receive(c, "addWorker")
    /\ sock' = [sock EXCEPT ![dialer[c]] = c]
    /\ reader' = [reader EXCEPT ![c] = "reading"]
    /\ busy' = [busy EXCEPT ![c] = Handling("add", 0, FALSE)]
    /\ UNCHANGED <<rm, storeVars>>

\* A worker that is known already keeps its row as it is: HandleAddWorkerError
\* does not recognise the wrapped duplicate key error and returns nil.
InsertWorker(c) ==
    /\ busy[c].pc = "add"
    /\ busy' = [busy EXCEPT ![c] = NotBusy]
    /\ \/ AddWorker(dialer[c])
       \/ DbMayFail /\ UNCHANGED workerVars
    /\ UNCHANGED <<sock, reader, rm, taskVars, wireVars, dispVars, apiVars, loopVars>>

HandleDeleteWorker(c) ==
    /\ Receive(c, "deleteWorker")
    /\ reader' = [reader EXCEPT ![c] = "reading"]
    /\ rm' = [rm EXCEPT ![c] = At("delete", dialer[c])]
    /\ UNCHANGED <<sock, busy, storeVars>>

\* Mutation: every reported task is stored as done.
HandleCallbackTaskDone(c) ==
    /\ Receive(c, "callbackTask")
    /\ LET m == Head(toManager[c]) IN UpdateTask(m.task, "done", m.worker)
    /\ UNCHANGED <<connVars, rm, workerVars>>

HandleCallbackTask(c) ==
    /\ Receive(c, "callbackTask")
    /\ LET m == Head(toManager[c])
       IN  \/ TaskRow(m.task) /\ UpdateTask(m.task, m.status, m.worker)
           \/ TaskFails(m.task) /\ UNCHANGED taskVars
    /\ UNCHANGED <<connVars, rm, workerVars>>

\* Mutation: a refused task is stored as failed.
HandleFailedAddTaskFails(c) ==
    /\ Receive(c, "FAILED;addTask")
    /\ SetTaskStatus(Head(toManager[c]).task, "failed")
    /\ UNCHANGED <<connVars, rm, workerVars>>

HandleFailedAddTask(c) ==
    /\ Receive(c, "FAILED;addTask")
    /\ LET t == Head(toManager[c]).task
       IN  \/ TaskRow(t) /\ SetTaskStatus(t, "pending")
           \/ TaskFails(t) /\ UNCHANGED taskVars
    /\ UNCHANGED <<connVars, rm, workerVars>>

HandleWorkerStatus(c) ==
    /\ Receive(c, "status")
    /\ LET w    == dialer[c]
           idle == Head(toManager[c]).idle
       IN  \/ /\ workerRow[w]
              /\ busy' = [busy EXCEPT ![c] = Handling("status", idle, idle # workerIdle[w])]
           \/ /\ ~workerRow[w] \/ DbMayFail
              /\ UNCHANGED busy
    /\ UNCHANGED <<sock, reader, rm, storeVars>>

\* The columns a status answer updates: the idle threads only when they differed
\* from those of the row, as it was read.
StatusColumns(c) ==
    IF busy[c].differs THEN {"up", "downCount", "iddleThreads"} ELSE {"up", "downCount"}

\* Each of the updates may fail on its own.
UpdateStatus(c) ==
    /\ busy[c].pc = "status"
    /\ busy' = [busy EXCEPT ![c] = NotBusy]
    /\ \E columns \in SUBSET StatusColumns(c) :
          /\ columns # StatusColumns(c) => DbMayFail
          /\ SetWorkerStatus(dialer[c], busy[c].idle, columns)
    /\ UNCHANGED <<sock, reader, rm, taskVars, wireVars, dispVars, apiVars, loopVars>>

\* Mutation: the lost connection stays in the map.
ReadErrorKeepsSocket(c) ==
    /\ Reading(c)
    /\ wire[c] = "broken"
    /\ toManager' = [toManager EXCEPT ![c] = <<>>]
    /\ reader' = [reader EXCEPT ![c] = IF @ = "anonymous" THEN "closed" ELSE "down"]
    /\ UNCHANGED <<sock, busy, wire, dialer, toWorker, conn>>
    /\ UNCHANGED <<dispVars, apiVars, loopVars, rm, storeVars>>

\* handleConnectionError and the start of WorkerDisconnected.  The socket it
\* closes is the one in the map, by now perhaps that of a newer connection.
ReadError(c) ==
    /\ Reading(c)
    /\ wire[c] = "broken"
    /\ toManager' = [toManager EXCEPT ![c] = <<>>]
    /\ LET w == dialer[c]
       IN  IF reader[c] = "anonymous"
           THEN /\ reader' = [reader EXCEPT ![c] = "closed"]
                /\ UNCHANGED <<sock, wire>>
           ELSE /\ reader' = [reader EXCEPT ![c] = "down"]
                /\ sock' = [sock EXCEPT ![w] = NoConn]
                /\ IF sock[w] = NoConn THEN UNCHANGED wire ELSE Break(sock[w])
    /\ UNCHANGED <<busy, dialer, toWorker, conn, dispVars, apiVars, loopVars, rm, storeVars>>

\* The other two statements of WorkerDisconnected.  An error of the first one
\* skips the second.
MarkDown(c) ==
    /\ reader[c] = "down"
    /\ \/ /\ SetWorkerDown(dialer[c])
          /\ reader' = [reader EXCEPT ![c] = "requeue"]
       \/ /\ DbMayFail
          /\ reader' = [reader EXCEPT ![c] = "closed"]
          /\ UNCHANGED workerVars
    /\ UNCHANGED <<sock, busy, dispVars, apiVars, loopVars, rm, taskVars, wireVars>>

RequeueLost(c) ==
    /\ reader[c] = "requeue"
    /\ reader' = [reader EXCEPT ![c] = "closed"]
    /\ \/ SetTasksWorkerPending(dialer[c])
       \/ DbMayFail /\ UNCHANGED taskVars
    /\ UNCHANGED <<sock, busy, dispVars, apiVars, loopVars, rm, workerVars, wireVars>>

Reader(c) ==
    \/ HandleAddWorker(c) \/ HandleDeleteWorker(c) \/ HandleCallbackTask(c)
    \/ HandleFailedAddTask(c) \/ HandleWorkerStatus(c)
    \/ InsertWorker(c) \/ UpdateStatus(c)
    \/ ReadError(c) \/ MarkDown(c) \/ RequeueLost(c)

-----------------------------------------------------------------------------
(* RmWorkerName: three statements, run by any of the callers.              *)

RmDelete(x) ==
    /\ rm[x].pc = "delete"
    /\ LET w == rm[x].worker
       IN  \/ /\ workerRow[w]
              /\ DeleteWorkerRow(w)
              /\ rm' = [rm EXCEPT ![x] = At("requeue", w)]
           \/ /\ ~workerRow[w] \/ DbMayFail
              /\ rm' = [rm EXCEPT ![x] = Idle]
              /\ UNCHANGED workerVars
    /\ UNCHANGED <<connVars, dispVars, apiVars, loopVars, taskVars, wireVars>>

RmRequeue(x) ==
    /\ rm[x].pc = "requeue"
    /\ LET w == rm[x].worker
       IN  \/ /\ SetTasksWorkerPending(w)
              /\ rm' = [rm EXCEPT ![x] = At("clear", w)]
           \/ /\ DbMayFail
              /\ rm' = [rm EXCEPT ![x] = Idle]
              /\ UNCHANGED taskVars
    /\ UNCHANGED <<connVars, dispVars, apiVars, loopVars, workerVars, wireVars>>

RmClear(x) ==
    /\ rm[x].pc = "clear"
    /\ rm' = [rm EXCEPT ![x] = Idle]
    /\ \/ ClearWorkerName(rm[x].worker)
       \/ DbMayFail /\ UNCHANGED taskVars
    /\ UNCHANGED <<connVars, dispVars, apiVars, loopVars, workerVars, wireVars>>

RmWorkerName(x) == RmDelete(x) \/ RmRequeue(x) \/ RmClear(x)

-----------------------------------------------------------------------------
(* VerifyWorkersLoop.  Bound: one status request or answer is on its way   *)
(* or being handled at a time.                                             *)

StatusOnItsWay(c) ==
    \/ busy[c].pc = "status"
    \/ \E i \in DOMAIN toWorker[c] : toWorker[c][i] = StatusRequest
    \/ \E i \in DOMAIN toManager[c] : toManager[c][i].type = "status"

VerifyIdle == vfy = Idle /\ rm[VerifyLoop] = Idle

\* A poll on a broken connection changes nothing.
Poll(w) ==
    /\ VerifyIdle
    /\ workerRow[w]
    /\ sock[w] # NoConn
    /\ wire[sock[w]] = "open" /\ RoomFor(sock[w])
    /\ \A c \in Conns : ~StatusOnItsWay(c)
    /\ toWorker' = Written(toWorker, sock[w], StatusRequest)
    /\ UNCHANGED <<managerVars, storeVars, wire, dialer, toManager, conn>>

\* verifyWorker finds no websocket ...
VerifyMissing(w) ==
    /\ VerifyIdle
    /\ workerRow[w]
    /\ sock[w] = NoConn
    /\ vfy' = At("forget", w)
    /\ UNCHANGED <<hist, connVars, dispVars, apiVars, rm, storeVars, wireVars>>

\* ... and handleMissingWebSocket acts on it, though one may be there by now.
VerifyForget ==
    /\ vfy.pc = "forget"
    /\ sock' = [sock EXCEPT ![vfy.worker] = NoConn]
    /\ vfy' = At("down", vfy.worker)
    /\ UNCHANGED <<hist, reader, busy, dispVars, apiVars, rm, storeVars, wireVars>>

VerifyDown ==
    /\ vfy.pc = "down"
    /\ \/ SetWorkerDown(vfy.worker) /\ vfy' = At("count", vfy.worker)
       \/ DbMayFail /\ vfy' = Idle /\ UNCHANGED workerVars
    /\ UNCHANGED <<hist, connVars, dispVars, apiVars, rm, taskVars, wireVars>>

VerifyCount ==
    /\ vfy.pc = "count"
    /\ LET w == vfy.worker
       IN  \/ /\ workerRow[w]
              /\ AddWorkerDownCount(w)
              /\ vfy' = IF workerDown[w] + 1 >= StatusCheckDown
                        THEN At("orphan", w) ELSE Idle
           \/ /\ ~workerRow[w] \/ DbMayFail
              /\ vfy' = Idle
              /\ UNCHANGED workerVars
    /\ UNCHANGED <<hist, connVars, dispVars, apiVars, rm, taskVars, wireVars>>

VerifyOrphan ==
    /\ vfy.pc = "orphan"
    /\ \/ /\ SetTasksWorkerPending(vfy.worker)
          /\ rm' = [rm EXCEPT ![VerifyLoop] = At("delete", vfy.worker)]
       \/ DbMayFail /\ UNCHANGED <<rm, taskVars>>
    /\ vfy' = Idle
    /\ UNCHANGED <<hist, connVars, dispVars, apiVars, workerVars, wireVars>>

Verify ==
    \/ VerifyForget \/ VerifyDown \/ VerifyCount \/ VerifyOrphan
    \/ \E w \in Workers : Poll(w) \/ VerifyMissing(w)

-----------------------------------------------------------------------------
(* The API handlers.                                                       *)

PostTask(t) ==
    /\ taskStatus[t] = "absent" /\ post[t] = NoWorker
    /\ NoWorker \in Pins[t]
    /\ AddTask(t, NoWorker)
    /\ UNCHANGED <<managerVars, workerVars, wireVars>>

\* A post that names a worker checks that the worker exists ...
PostCheck(t, w) ==
    /\ taskStatus[t] = "absent" /\ post[t] = NoWorker
    /\ w \in Pins[t]
    /\ workerRow[w]
    /\ post' = [post EXCEPT ![t] = w]
    /\ UNCHANGED <<connVars, dispVars, del, loopVars, rm, storeVars, wireVars>>

\* ... before it inserts the task.
PostInsert(t) ==
    /\ post[t] # NoWorker
    /\ AddTask(t, post[t])
    /\ post' = [post EXCEPT ![t] = NoWorker]
    /\ UNCHANGED <<connVars, dispVars, del, loopVars, rm, workerVars, wireVars>>

DeleteRead(t) ==
    /\ t \in Deletable
    /\ del[t] = Idle
    /\ TaskRow(t)
    /\ LET w == taskWorker[t]
       IN  del' = [del EXCEPT ![t] =
                      IF taskStatus[t] = "running" /\ w # NoWorker /\ workerRow[w]
                      THEN At("send", w) ELSE At("mark", NoWorker)]
    /\ UNCHANGED <<connVars, dispVars, post, loopVars, rm, storeVars, wireVars>>

\* SendDeleteTask: a missing socket or a failed write ends the request.
DeleteSend(t) ==
    /\ del[t].pc = "send"
    /\ LET c == sock[del[t].worker]
       IN  \/ /\ c # NoConn /\ RoomFor(c)
              /\ toWorker' = Written(toWorker, c, DeleteTaskMsg(t))
              /\ del' = [del EXCEPT ![t] = At("sent", NoWorker)]
           \/ /\ c # NoConn => wire[c] = "broken"
              /\ del' = [del EXCEPT ![t] = Idle]
              /\ UNCHANGED toWorker
    /\ UNCHANGED <<connVars, dispVars, post, loopVars, rm, storeVars>>
    /\ UNCHANGED <<wire, dialer, toManager, conn>>

\* The status is written twice: by SendDeleteTask, then by HandleTaskDelete,
\* which ignores an error where SendDeleteTask returns it.
DeleteSent(t) ==
    /\ del[t].pc = "sent"
    /\ \/ /\ TaskRow(t)
          /\ SetTaskStatus(t, "deleted")
          /\ del' = [del EXCEPT ![t] = At("mark", NoWorker)]
       \/ /\ TaskFails(t)
          /\ del' = [del EXCEPT ![t] = Idle]
          /\ UNCHANGED taskVars
    /\ UNCHANGED <<connVars, dispVars, post, loopVars, rm, workerVars, wireVars>>

DeleteMark(t) ==
    /\ del[t].pc = "mark"
    /\ del' = [del EXCEPT ![t] = Idle]
    /\ \/ TaskRow(t) /\ SetTaskStatus(t, "deleted")
       \/ TaskFails(t) /\ UNCHANGED taskVars
    /\ UNCHANGED <<connVars, dispVars, post, loopVars, rm, workerVars, wireVars>>

HandleTaskPost(t) == PostTask(t) \/ PostInsert(t) \/ \E w \in Workers : PostCheck(t, w)

HandleTaskDelete(t) == DeleteRead(t) \/ DeleteSend(t) \/ DeleteSent(t) \/ DeleteMark(t)

\* Bound: one removal by the API at a time.
HandleWorkerDelete(w) ==
    /\ "removal" \in Faults /\ SpareConn
    /\ rm[Api] = Idle
    /\ workerRow[w]
    /\ rm' = [rm EXCEPT ![Api] = At("delete", w)]
    /\ UNCHANGED <<connVars, dispVars, apiVars, loopVars, storeVars, wireVars>>

\* POST /worker with the record a worker would send.  A worker that has a row
\* keeps it.
HandleWorkerPost(w) ==
    /\ "register" \in Faults /\ SpareConn
    /\ ~workerRow[w]
    /\ AddWorker(w)
    /\ UNCHANGED <<managerVars, taskVars, wireVars>>

-----------------------------------------------------------------------------
(* DeleteMaxTaskHistoryLoop: every hour, DeleteMaxEntriesHistory counts    *)
(* the done tasks ...                                                      *)

HistoryCount ==
    /\ MaxTaskHistory > 0
    /\ hist = 0
    /\ Cardinality(DoneTasks) > MaxTaskHistory
    /\ hist' = Cardinality(DoneTasks) - MaxTaskHistory
    /\ UNCHANGED <<vfy, connVars, dispVars, apiVars, rm, storeVars, wireVars>>

\* ... and deletes as many as there were too many.  Which are the oldest is left
\* open.
HistoryDelete ==
    /\ hist > 0
    /\ hist' = 0
    /\ \/ \E T \in SUBSET DoneTasks :
              /\ Cardinality(T) = IF hist <= Cardinality(DoneTasks)
                                  THEN hist ELSE Cardinality(DoneTasks)
              /\ DeleteRows(T)
       \/ DbMayFail /\ UNCHANGED taskVars
    /\ UNCHANGED <<vfy, connVars, dispVars, apiVars, rm, workerVars, wireVars>>

-----------------------------------------------------------------------------
\* The manager stops and StartManager runs again: nothing but the database is
\* left, and setInitialTaskStatus puts the running tasks back to pending.
ManagerRestart ==
    /\ "restart" \in Faults /\ SpareConn
    /\ wire' = [c \in Conns |-> IF wire[c] = "open" THEN "broken" ELSE wire[c]]
    /\ toManager' = [c \in Conns |-> <<>>]
    /\ sock' = [w \in Workers |-> NoConn]
    /\ reader' = [c \in Conns |-> IF wire[c] = "unused" THEN "anonymous" ELSE "closed"]
    /\ busy' = [c \in Conns |-> NotBusy]
    /\ dpc' = "tasks" /\ batch' = <<>> /\ todo' = {} /\ cand' = NoWorker
    /\ post' = [t \in Tasks |-> NoWorker]
    /\ del' = [t \in Tasks |-> Idle]
    /\ vfy' = Idle
    /\ hist' = 0
    /\ rm' = [x \in Callers |-> Idle]
    /\ SetTasksStatusIfStatus
    /\ UNCHANGED <<workerVars, dialer, toWorker, conn>>

ManagerNext ==
    \/ Dispatch
    \/ \E c \in Conns : Reader(c)
    \/ \E x \in Callers : RmWorkerName(x)
    \/ Verify
    \/ \E t \in Tasks : HandleTaskPost(t) \/ HandleTaskDelete(t)
    \/ \E w \in Workers : HandleWorkerDelete(w) \/ HandleWorkerPost(w)
    \/ HistoryCount \/ HistoryDelete
    \/ ManagerRestart
=============================================================================
