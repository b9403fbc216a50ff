----------------------------- MODULE RunProofs ------------------------------
(***************************************************************************)
(* What holds of the workers and the connections whatever the manager      *)
(* does, for the proofs about the whole system and for those about the     *)
(* workers against any manager.  They keep their types.  A kill by pid     *)
(* only hits the task it is meant for: two runs of one task may share the  *)
(* entry of WorkingIDs, and either may overwrite or remove what the other  *)
(* wrote, but a run writes its own pid only, and removes the entry before  *)
(* it goes on to its next command.  And a run reports one outcome, once.   *)
(***************************************************************************)
EXTENDS Worker, SequenceTheorems, FiniteSetTheorems, TLAPS

-----------------------------------------------------------------------------
(* Messages and connections.                                               *)

\* The fields of the messages to a worker, and of those to the manager.
LEMMA MessageFields ==
    /\ \A m \in ToWorkerMsg :
          /\ m.type \in {"addTask", "deleteTask"} => m.task \in Tasks
          /\ m.type = "addTask" => m.worker \in WorkerNames /\ m = AddTaskMsg(m.task, m.worker)
    /\ \A m \in ToManagerMsg :
          /\ m.type \in {"callbackTask", "FAILED;addTask"} => m.task \in Tasks
          /\ m.type = "callbackTask" => m.worker \in WorkerNames /\ m.status \in Results
          /\ m.type = "FAILED;addTask" => m = FailedAddTaskMsg(m.task)
          /\ m.type = "status" => m.idle \in Int
<1>1. ASSUME NEW m \in ToWorkerMsg
      PROVE  /\ m.type \in {"addTask", "deleteTask"} => m.task \in Tasks
             /\ m.type = "addTask" => m.worker \in WorkerNames /\ m = AddTaskMsg(m.task, m.worker)
  <2>1. CASE m = StatusRequest
    <3>1. m.type = "status"
      BY <2>1 DEF StatusRequest
    <3> QED
      BY <3>1
  <2>2. CASE m \in [type : {"deleteTask"}, task : Tasks]
    BY <2>2
  <2>3. CASE m \in [type : {"addTask"}, task : Tasks, worker : WorkerNames]
    BY <2>3 DEF AddTaskMsg
  <2> QED
    BY <1>1, <2>1, <2>2, <2>3 DEF ToWorkerMsg
<1>2. ASSUME NEW m \in ToManagerMsg
      PROVE  /\ m.type \in {"callbackTask", "FAILED;addTask"} => m.task \in Tasks
             /\ m.type = "callbackTask" => m.worker \in WorkerNames /\ m.status \in Results
             /\ m.type = "FAILED;addTask" => m = FailedAddTaskMsg(m.task)
             /\ m.type = "status" => m.idle \in Int
  <2>1. CASE m = AddWorkerMsg \/ m = DeleteWorkerMsg
    <3>1. m.type \in {"addWorker", "deleteWorker"}
      BY <2>1 DEF AddWorkerMsg, DeleteWorkerMsg
    <3> QED
      BY <3>1
  <2>2. CASE m \in [type : {"FAILED;addTask"}, task : Tasks]
    BY <2>2 DEF FailedAddTaskMsg
  <2>3. CASE m \in [type : {"callbackTask"}, task : Tasks,
                    worker : WorkerNames, status : Results]
    BY <2>3
  <2>4. CASE m \in [type : {"status"}, idle : Int]
    BY <2>4
  <2> QED
    BY <1>2, <2>1, <2>2, <2>3, <2>4 DEF ToManagerMsg
<1> QED
  BY <1>1, <1>2

\* The messages the two sides write.
LEMMA MessagesTyped ==
    /\ StatusRequest \in ToWorkerMsg
    /\ AddWorkerMsg \in ToManagerMsg
    /\ DeleteWorkerMsg \in ToManagerMsg
    /\ \A t \in Tasks : DeleteTaskMsg(t) \in ToWorkerMsg /\ FailedAddTaskMsg(t) \in ToManagerMsg
    /\ \A t \in Tasks, w \in WorkerNames : AddTaskMsg(t, w) \in ToWorkerMsg
    /\ \A t \in Tasks, w \in WorkerNames, st \in Results :
          CallbackMsg(t, w, st) \in ToManagerMsg
    /\ \A n \in Int : StatusMsg(n) \in ToManagerMsg
BY DEF ToWorkerMsg, ToManagerMsg, StatusRequest, AddWorkerMsg, DeleteWorkerMsg,
       DeleteTaskMsg, FailedAddTaskMsg, AddTaskMsg, CallbackMsg, StatusMsg

\* Writing a message and reading one keep the type of the queues.
LEMMA QueuesTyped ==
    ASSUME NEW S, NEW queues \in [Conns -> Seq(S)]
    PROVE  /\ \A m \in S : \A c : Written(queues, c, m) \in [Conns -> Seq(S)]
           /\ \A c \in Conns : queues[c] # <<>> => Consumed(queues, c) \in [Conns -> Seq(S)]
<1>1. ASSUME NEW c \in Conns, NEW m \in S  PROVE Written(queues, c, m) \in [Conns -> Seq(S)]
  <2>1. Append(queues[c], m) \in Seq(S)
    BY <1>1
  <2>2. [queues EXCEPT ![c] = Append(queues[c], m)] \in [Conns -> Seq(S)]
    BY <2>1
  <2> QED
    BY <2>2 DEF Written
<1>2. ASSUME NEW c, c \notin Conns, NEW m  PROVE Written(queues, c, m) \in [Conns -> Seq(S)]
  <2>1. [queues EXCEPT ![c] = Append(@, m)] = queues
    BY <1>2
  <2> QED
    BY <2>1 DEF Written
<1>3. ASSUME NEW c \in Conns, queues[c] # <<>>
      PROVE  Consumed(queues, c) \in [Conns -> Seq(S)]
  BY <1>3 DEF Consumed
<1> QED
  BY <1>1, <1>2, <1>3

\* Creating a connection keeps the types of the connections.
LEMMA DialTyped ==
    ASSUME WireTypeOK, NEW w \in Workers, NEW c \in Conns, NEW m \in ToManagerMsg,
           Dial(w, c, m)
    PROVE  WireTypeOK' /\ conn' = [conn EXCEPT ![w] = c]
<1> USE DEF WireTypeOK, Dial
<1>1. wire' \in [Conns -> {"unused", "open", "broken"}]
  OBVIOUS
<1>2. dialer' \in [Conns -> WorkerNames]
  BY DEF WorkerNames
<1>3. toWorker' \in [Conns -> Seq(ToWorkerMsg)]
  OBVIOUS
<1>4. toManager' \in [Conns -> Seq(ToManagerMsg)]
  OBVIOUS
<1>5. conn' \in [Workers -> Conns \union {NoConn}]
  OBVIOUS
<1> QED
  BY <1>1, <1>2, <1>3, <1>4, <1>5

-----------------------------------------------------------------------------
(* The workers.                                                            *)

\* A live worker has a connection, so that reading from it makes sense.
LiveWorkerHasConn == \A w \in Workers : proc[w] => conn[w] # NoConn

RunInv == WireTypeOK /\ WorkerTypeOK /\ LiveWorkerHasConn

\* The records of the runs: what the steps make of one is one, and with it the
\* runs keep their type.
LEMMA RunUpdates ==
    ASSUME NEW run \in RunRecord
    PROVE  /\ \A r \in DOMAIN runs :
                 WorkerTypeOK /\ SetRun(r, run) => runs' \in Seq(RunRecord)
           /\ \A st \in Stages : [run EXCEPT !.stage = st] \in RunRecord
           /\ \A st \in Stages, x \in Results :
                 [run EXCEPT !.stage = st, !.exit = x] \in RunRecord
           /\ \A n \in Nat :
                 [run EXCEPT !.stage = "accepted", !.exit = "none", !.left = n] \in RunRecord
           /\ \A x \in Results \union {"none"} : Ended(run, x) \in RunRecord
           /\ [run EXCEPT !.outcome = "failed"] \in RunRecord
           /\ [run EXCEPT !.sent = TRUE] \in RunRecord
<1>0. \A r \in DOMAIN runs : WorkerTypeOK /\ SetRun(r, run) => runs' \in Seq(RunRecord)
  BY DEF SetRun, WorkerTypeOK
<1>1. \A st \in Stages : [run EXCEPT !.stage = st] \in RunRecord
  BY DEF RunRecord
<1>2. \A st \in Stages, x \in Results : [run EXCEPT !.stage = st, !.exit = x] \in RunRecord
  BY DEF RunRecord
<1>3. \A n \in Nat : [run EXCEPT !.stage = "accepted", !.exit = "none", !.left = n] \in RunRecord
  BY DEF RunRecord, Stages
<1>4. \A x \in Results \union {"none"} : Ended(run, x) \in RunRecord
  BY DEF RunRecord, Ended, Stages
<1>5. [run EXCEPT !.outcome = "failed"] \in RunRecord
  BY DEF RunRecord, Results
<1>6. [run EXCEPT !.sent = TRUE] \in RunRecord
  BY DEF RunRecord
<1> QED
  BY <1>0, <1>1, <1>2, <1>3, <1>4, <1>5, <1>6

\* The steps of a run.
LEMMA RunTypes ==
    ASSUME RunInv, NEW r \in DOMAIN runs, RunStep(r)
    PROVE  RunInv'
<1> USE DEF RunInv
<1>1. runs[r] \in RunRecord /\ runs \in Seq(RunRecord) /\ Len(runs) \in Nat /\ r \in 1 .. Len(runs)
  BY DEF WorkerTypeOK
<1>2. /\ runs[r].task \in Tasks /\ runs[r].workerName \in WorkerNames
      /\ runs[r].left \in Nat /\ runs[r].exit \in Results \union {"none"}
      /\ runs[r].outcome \in Results \union {"none"}
  BY <1>1 DEF RunRecord
<1>3. ASSUME NEW pid \in Int, SetWorkingID(r, pid)
      PROVE  working' \in [Workers -> [Tasks -> Int]]
  BY <1>2, <1>3 DEF SetWorkingID, WorkerTypeOK
<1>4. CASE RunFails(r)
  <2>1. runs' \in Seq(RunRecord)
    BY <1>1, <1>4, RunUpdates DEF RunFails, Results
  <2>2. RunInv'
    BY <1>4, <2>1 DEF RunFails, WorkerTypeOK, WireTypeOK, LiveWorkerHasConn, wireVars
  <2> QED
    BY <2>2
<1>5. CASE StartCommand(r)
  <2>1. runs' \in Seq(RunRecord)
    BY <1>1, <1>5, RunUpdates DEF StartCommand, Stages
  <2>2. working' \in [Workers -> [Tasks -> Int]]
    BY <1>3, <1>5 DEF StartCommand, Starting
  <2>3. RunInv'
    BY <1>5, <2>1, <2>2 DEF StartCommand, WorkerTypeOK, WireTypeOK, LiveWorkerHasConn, wireVars
  <2> QED
    BY <2>3
<1>6. CASE Spawn(r)
  <2>1. runs' \in Seq(RunRecord)
    BY <1>1, <1>6, RunUpdates DEF Spawn, Stages, Results
  <2>2. working' \in [Workers -> [Tasks -> Int]]
    BY <1>1, <1>3, <1>6 DEF Spawn, WorkerTypeOK
  <2>3. RunInv'
    BY <1>6, <2>1, <2>2 DEF Spawn, WorkerTypeOK, WireTypeOK, LiveWorkerHasConn, wireVars
  <2> QED
    BY <2>3
<1>7. CASE CleanUp(r)
  <2>1. runs' \in Seq(RunRecord)
    <3>1. runs[r].left > 1 => runs[r].left - 1 \in Nat
      BY <1>2
    <3>2. CASE /\ runs[r].left > 1
               /\ SetRun(r, [runs[r] EXCEPT !.stage = "accepted", !.exit = "none",
                                            !.left = runs[r].left - 1])
      BY <1>1, <3>1, <3>2, RunUpdates
    <3>3. CASE SetRun(r, Ended(runs[r], runs[r].exit))
      BY <1>1, <1>2, <3>3, RunUpdates
    <3> QED
      BY <1>7, <3>2, <3>3 DEF CleanUp
  <2>2. working' \in [Workers -> [Tasks -> Int]]
    BY <1>3, <1>7 DEF CleanUp
  <2>3. RunInv'
    BY <1>7, <2>1, <2>2 DEF CleanUp, WorkerTypeOK, WireTypeOK, LiveWorkerHasConn, wireVars
  <2> QED
    BY <2>3
<1>8. CASE Timeout(r)
  <2>1. runs' \in Seq(RunRecord)
    BY <1>1, <1>8, RunUpdates DEF Timeout
  <2>2. RunInv'
    BY <1>8, <2>1 DEF Timeout, WorkerTypeOK, WireTypeOK, LiveWorkerHasConn, wireVars
  <2> QED
    BY <2>2
<1>9. CASE Report(r)
  <2>1. runs' \in Seq(RunRecord)
    BY <1>1, <1>9, RunUpdates DEF Report
  <2>2. CallbackMsg(runs[r].task, runs[r].workerName, runs[r].outcome) \in ToManagerMsg
    BY <1>2, <1>9, MessagesTyped DEF Report
  <2>3. toManager' \in [Conns -> Seq(ToManagerMsg)]
    BY <1>9, <2>2, QueuesTyped DEF Report, Reply, WireTypeOK
  <2>4. RunInv'
    BY <1>9, <2>1, <2>3 DEF Report, WorkerTypeOK, WireTypeOK, LiveWorkerHasConn
  <2> QED
    BY <2>4
<1>10. CASE \E result \in Results : Exit(r, result)
  <2>1. runs' \in Seq(RunRecord)
    BY <1>1, <1>10, RunUpdates DEF Exit, Stages
  <2>2. RunInv'
    BY <1>10, <2>1 DEF Exit, WorkerTypeOK, WireTypeOK, LiveWorkerHasConn, wireVars
  <2> QED
    BY <2>2
<1> QED
  BY <1>4, <1>5, <1>6, <1>7, <1>8, <1>9, <1>10 DEF RunStep

\* The steps of a worker's own: its connection, its messages and its end.
LEMMA WorkerTypes ==
    ASSUME RunInv, NEW w \in Workers,
           CreateConnection(w) \/ GetMessage(w) \/ Crash(w) \/ Stop(w)
    PROVE  RunInv'
<1> USE DEF RunInv
<1>1. CASE CreateConnection(w)
  <2>1. PICK c \in Conns : Dial(w, c, AddWorkerMsg)
    BY <1>1 DEF CreateConnection
  <2>2. WireTypeOK' /\ conn' = [conn EXCEPT ![w] = c]
    BY <2>1, DialTyped, MessagesTyped
  <2>3. WorkerTypeOK'
    BY <1>1 DEF CreateConnection, WorkerTypeOK
  <2>4. c # NoConn
    BY DEF Conns, NoConn
  <2>5. proc' = [proc EXCEPT ![w] = TRUE]
    BY <1>1 DEF CreateConnection
  <2>6. LiveWorkerHasConn'
    BY <2>2, <2>4, <2>5 DEF LiveWorkerHasConn, WireTypeOK, WorkerTypeOK
  <2> QED
    BY <2>2, <2>3, <2>6
<1>2. ASSUME NEW type, Read(w, type)
      PROVE  /\ conn[w] \in Conns
             /\ Head(toWorker[conn[w]]) \in ToWorkerMsg
             /\ Head(toWorker[conn[w]]).type = type
             /\ Consumed(toWorker, conn[w]) \in [Conns -> Seq(ToWorkerMsg)]
             /\ UNCHANGED <<dialer, conn>>
  <2>1. conn[w] \in Conns
    BY <1>2 DEF Read, WireTypeOK, LiveWorkerHasConn
  <2>2. toWorker[conn[w]] \in Seq(ToWorkerMsg) /\ toWorker[conn[w]] # <<>>
    BY <1>2, <2>1 DEF Read, WireTypeOK
  <2> QED
    BY <1>2, <2>1, <2>2, HeadTailProperties, QueuesTyped DEF Read, WireTypeOK
<1>3. ASSUME NEW m \in ToManagerMsg, Reply(w, m)
      PROVE  toManager' \in [Conns -> Seq(ToManagerMsg)]
  BY <1>3, QueuesTyped DEF Reply, WireTypeOK
<1>4. CASE AcceptTask(w)
  <2>1. Read(w, "addTask")
    BY <1>4 DEF AcceptTask
  <2>2. ReadTask(w) \in Tasks /\ Head(toWorker[conn[w]]).worker \in WorkerNames
    BY <1>2, <2>1, MessageFields DEF ReadTask
  <2>3. NewRun(ReadTask(w), w, Head(toWorker[conn[w]]).worker) \in RunRecord
    BY <2>2, CommandsAssumption DEF NewRun, RunRecord, Stages
  <2>4. WorkerTypeOK'
    BY <1>4, <2>3, AppendProperties DEF AcceptTask, WorkerTypeOK
  <2>5. WireTypeOK' /\ LiveWorkerHasConn'
    BY <1>2, <1>4, <2>1 DEF AcceptTask, WireTypeOK, LiveWorkerHasConn
  <2> QED
    BY <2>4, <2>5
<1>5. CASE RefuseTask(w)
  <2>1. Read(w, "addTask")
    BY <1>5 DEF RefuseTask
  <2>2. FailedAddTaskMsg(ReadTask(w)) \in ToManagerMsg
    <3>1. ReadTask(w) \in Tasks
      BY <1>2, <2>1, MessageFields DEF ReadTask
    <3> QED
      BY <3>1, MessagesTyped
  <2>3. toManager' \in [Conns -> Seq(ToManagerMsg)]
    BY <1>3, <1>5, <2>2 DEF RefuseTask
  <2>4. WireTypeOK' /\ LiveWorkerHasConn' /\ WorkerTypeOK'
    BY <1>2, <1>5, <2>1, <2>3
    DEF RefuseTask, WireTypeOK, LiveWorkerHasConn, WorkerTypeOK, workerProcVars
  <2> QED
    BY <2>4
<1>6. CASE MessageStatusTask(w)
  <2>1. Read(w, "status")
    BY <1>6 DEF MessageStatusTask
  <2>2. StatusMsg(IddleThreads(w)) \in ToManagerMsg
    <3>1. IsFiniteSet(WorkingIDs(w))
      BY FS_Subset, TasksAssumption DEF WorkingIDs
    <3>2. Cardinality(WorkingIDs(w)) \in Nat
      BY <3>1, FS_CardinalityType
    <3>3. IddleThreads(w) \in Int
      BY <3>2, ThreadsAssumption DEF IddleThreads
    <3> QED
      BY <3>3, MessagesTyped
  <2>3. toManager' \in [Conns -> Seq(ToManagerMsg)]
    BY <1>3, <1>6, <2>2 DEF MessageStatusTask
  <2>4. WireTypeOK' /\ LiveWorkerHasConn' /\ WorkerTypeOK'
    BY <1>2, <1>6, <2>1, <2>3
    DEF MessageStatusTask, WireTypeOK, LiveWorkerHasConn, WorkerTypeOK, workerProcVars
  <2> QED
    BY <2>4
<1>7. /\ \A K : KillRuns(K) \in Seq(RunRecord)
      /\ RunsLost(w) \in Seq(RunRecord)
  <2>1. \A r \in DOMAIN runs : runs[r] \in RunRecord
    BY DEF WorkerTypeOK
  <2>2. \A r \in DOMAIN runs : Killed(r) \in RunRecord /\ Lost(r) \in RunRecord
    BY <2>1, RunUpdates DEF Killed, Lost, Stages, Results
  <2>3. DOMAIN runs = 1 .. Len(runs) /\ Len(runs) \in Nat
    BY DEF WorkerTypeOK
  <2>4. ASSUME NEW K  PROVE KillRuns(K) \in Seq(RunRecord)
    <3>1. KillRuns(K) \in [1 .. Len(runs) -> RunRecord]
      BY <2>1, <2>2, <2>3 DEF KillRuns
    <3> QED
      BY <2>3, <3>1
  <2>5. RunsLost(w) \in Seq(RunRecord)
    BY <2>1, <2>2 DEF RunsLost, WorkerTypeOK
  <2> QED
    BY <2>4, <2>5
<1>8. CASE MessageDeleteTask(w)
  <2>1. Read(w, "deleteTask")
    BY <1>8 DEF MessageDeleteTask
  <2>2. WorkerTypeOK'
    <3>1. runs' \in Seq(RunRecord)
      BY <1>7, <1>8 DEF MessageDeleteTask, WorkerTypeOK
    <3> QED
      BY <1>8, <3>1 DEF MessageDeleteTask, WorkerTypeOK
  <2>3. WireTypeOK' /\ LiveWorkerHasConn'
    BY <1>2, <1>8, <2>1 DEF MessageDeleteTask, WireTypeOK, LiveWorkerHasConn
  <2> QED
    BY <2>2, <2>3
<1>9. ASSUME Die(w), UNCHANGED <<dialer, conn>>, toManager' \in [Conns -> Seq(ToManagerMsg)]
      PROVE  RunInv'
  <2>1. WorkerTypeOK'
    BY <1>7, <1>9 DEF Die, WorkerTypeOK
  <2>2. wire' \in [Conns -> {"unused", "open", "broken"}]
    BY <1>9 DEF Die, Break, WireTypeOK
  <2>3. toWorker' \in [Conns -> Seq(ToWorkerMsg)]
    BY <1>9, EmptySeq DEF Die, WireTypeOK
  <2>4. WireTypeOK'
    BY <1>9, <2>2, <2>3 DEF WireTypeOK
  <2>5. LiveWorkerHasConn'
    BY <1>9 DEF Die, LiveWorkerHasConn, WorkerTypeOK
  <2> QED
    BY <2>1, <2>4, <2>5
<1>10. CASE MessageDeleteTaskKillsWorker(w)
  BY <1>9, <1>10 DEF MessageDeleteTaskKillsWorker, Read, WireTypeOK
<1>11. CASE Crash(w)
  BY <1>9, <1>11 DEF Crash, WireTypeOK
<1>12. CASE Stop(w)
  <2>1. toManager' \in [Conns -> Seq(ToManagerMsg)]
    BY <1>3, <1>12, MessagesTyped DEF Stop, WireTypeOK
  <2> QED
    BY <1>9, <1>12, <2>1 DEF Stop
<1> QED
  BY <1>1, <1>4, <1>5, <1>6, <1>8, <1>10, <1>11, <1>12 DEF GetMessage

-----------------------------------------------------------------------------
(* The pids of WorkingIDs.                                                 *)

\* The entry for task t of worker w, when it is a pid, is that of a command of t
\* on w which has not been cleaned up.
OwnPid(w, t) ==
    LET pid == working[w][t]
    IN  pid > 0 => /\ pid \in DOMAIN runs
                   /\ runs[pid].at = w /\ runs[pid].task = t
                   /\ runs[pid].stage \in {"running", "exited"}

PidInv == \A w \in Workers, t \in Tasks : OwnPid(w, t)

\* A step of a run writes its own pid, or none, and leaves the pids of the others.
LEMMA RunKeepsPids ==
    ASSUME RunInv, PidInv, NEW r \in DOMAIN runs, RunStep(r)
    PROVE  PidInv'
<1>1. /\ runs \in Seq(RunRecord) /\ Len(runs) \in Nat /\ r \in 1 .. Len(runs)
      /\ runs[r] \in RunRecord
      /\ working \in [Workers -> [Tasks -> Int]]
  BY DEF RunInv, WorkerTypeOK
<1>2. /\ runs[r].at \in Workers /\ runs[r].task \in Tasks
      /\ runs[r].exit \in Results \union {"none"} /\ runs[r].left \in Nat
  BY <1>1 DEF RunRecord
\* An entry that is kept remains right, when the run it points to is not cleaned up.
<1>3. ASSUME NEW run, SetRun(r, run), run.at = runs[r].at, run.task = runs[r].task,
             NEW w \in Workers, NEW t \in Tasks, working'[w][t] = working[w][t],
             working[w][t] = r => run.stage \in {"running", "exited"}
      PROVE  OwnPid(w, t)'
  <2>1. DOMAIN runs' = DOMAIN runs /\ runs'[r] = run
        /\ \A s \in DOMAIN runs : s # r => runs'[s] = runs[s]
    BY <1>1, <1>3 DEF SetRun
  <2>2. OwnPid(w, t)
    BY DEF PidInv
  <2> QED
    BY <1>3, <2>1, <2>2 DEF OwnPid
\* The entry of the run itself, when it changes.
<1>4. ASSUME NEW run, SetRun(r, run), run.at = runs[r].at, run.task = runs[r].task,
             NEW pid \in Int, SetWorkingID(r, pid),
             pid > 0 => pid = r /\ run.stage \in {"running", "exited"},
             runs[r].stage \in {"running", "exited"} => pid = 0
      PROVE  PidInv'
  <2>1. working' = [working EXCEPT ![runs[r].at][runs[r].task] = pid]
    BY <1>4 DEF SetWorkingID
  <2>2. working'[runs[r].at][runs[r].task] = pid
    BY <1>1, <1>2, <2>1
  <2>3. \A w \in Workers, t \in Tasks : w # runs[r].at \/ t # runs[r].task =>
            working'[w][t] = working[w][t]
    BY <1>1, <1>2, <2>1
  <2>4. ASSUME NEW w \in Workers, NEW t \in Tasks, w = runs[r].at, t = runs[r].task
        PROVE  OwnPid(w, t)'
    <3>1. DOMAIN runs' = DOMAIN runs /\ runs'[r] = run
      BY <1>1, <1>4 DEF SetRun
    <3> QED
      BY <1>4, <2>2, <2>4, <3>1 DEF OwnPid
  <2>5. ASSUME NEW w \in Workers, NEW t \in Tasks, w # runs[r].at \/ t # runs[r].task
        PROVE  OwnPid(w, t)'
    <3>1. working[w][t] # r
      BY <1>1, <2>5 DEF PidInv, OwnPid
    <3> QED
      BY <1>3, <1>4, <2>3, <2>5, <3>1
  <2> QED
    BY <2>4, <2>5 DEF PidInv
\* Steps that keep the entries.
<1>5. ASSUME NEW run, SetRun(r, run), run.at = runs[r].at, run.task = runs[r].task,
             UNCHANGED working,
             runs[r].stage \in {"running", "exited"} => run.stage \in {"running", "exited"}
      PROVE  PidInv'
  <2>1. ASSUME NEW w \in Workers, NEW t \in Tasks  PROVE OwnPid(w, t)'
    <3>1. working[w][t] = r => runs[r].stage \in {"running", "exited"}
      BY <1>1 DEF PidInv, OwnPid
    <3> QED
      BY <1>3, <1>5, <3>1
  <2> QED
    BY <2>1 DEF PidInv
<1> DEFINE Same(run) == SetRun(r, run) /\ run.at = runs[r].at /\ run.task = runs[r].task
\* What the steps write.
<1>6. /\ RunFails(r) => \E run : Same(run) /\ runs[r].stage = "accepted"
      /\ StartCommand(r) => \E run : Same(run) /\ runs[r].stage = "accepted"
      /\ \A result \in Results : Exit(r, result) => \E run : Same(run) /\ run.stage = "exited"
      /\ Timeout(r) \/ Report(r) => \E run : Same(run) /\ run.stage = runs[r].stage
      /\ CleanUp(r) => \E run : Same(run)
  <2>1. RunFails(r) => \E run : Same(run) /\ runs[r].stage = "accepted"
    BY <1>1 DEF RunRecord, RunFails, Ended
  <2>2. StartCommand(r) => \E run : Same(run) /\ runs[r].stage = "accepted"
    BY <1>1 DEF RunRecord, StartCommand
  <2>3. ASSUME NEW result \in Results, Exit(r, result)
        PROVE  \E run : Same(run) /\ run.stage = "exited"
    <3> DEFINE run == [runs[r] EXCEPT !.stage = "exited", !.exit = result]
    <3>1. run.at = runs[r].at /\ run.task = runs[r].task /\ run.stage = "exited"
      BY <1>1 DEF RunRecord
    <3>2. SetRun(r, run)
      BY <2>3 DEF Exit
    <3> HIDE DEF run
    <3> QED
      BY <3>1, <3>2
  <2>4. ASSUME Timeout(r) \/ Report(r)
        PROVE  \E run : Same(run) /\ run.stage = runs[r].stage
    <3> DEFINE late == [runs[r] EXCEPT !.outcome = "failed"]
               sent == [runs[r] EXCEPT !.sent = TRUE]
    <3>1. /\ late.at = runs[r].at /\ late.task = runs[r].task /\ late.stage = runs[r].stage
          /\ sent.at = runs[r].at /\ sent.task = runs[r].task /\ sent.stage = runs[r].stage
      BY <1>1 DEF RunRecord
    <3>2. SetRun(r, late) \/ SetRun(r, sent)
      BY <2>4 DEF Timeout, Report
    <3> HIDE DEF late, sent
    <3> QED
      BY <3>1, <3>2
  <2>5. ASSUME CleanUp(r)
        PROVE  \E run : Same(run)
    <3> DEFINE next == [runs[r] EXCEPT !.stage = "accepted", !.exit = "none",
                                       !.left = runs[r].left - 1]
               last == Ended(runs[r], runs[r].exit)
    <3>1. /\ next.at = runs[r].at /\ next.task = runs[r].task
          /\ last.at = runs[r].at /\ last.task = runs[r].task
      BY <1>1 DEF RunRecord, Ended
    <3>2. SetRun(r, next) \/ SetRun(r, last)
      BY <2>5 DEF CleanUp
    <3> HIDE DEF next, last
    <3> QED
      BY <3>1, <3>2
  <2> QED
    BY <2>1, <2>2, <2>3, <2>4, <2>5
<1>7. CASE \/ RunFails(r) \/ Timeout(r) \/ Report(r)
           \/ \E result \in Results : Exit(r, result)
  <2>1. UNCHANGED working
    BY <1>7 DEF RunFails, Timeout, Report, Exit
  <2>2. PICK run : /\ Same(run)
                   /\ \/ runs[r].stage = "accepted" \/ run.stage = "exited"
                      \/ run.stage = runs[r].stage
    BY <1>6, <1>7
  <2> QED
    BY <1>5, <2>1, <2>2
<1>8. CASE StartCommand(r)
  <2>1. PICK run : Same(run) /\ runs[r].stage = "accepted"
    BY <1>6, <1>8
  <2>2. SetWorkingID(r, -1)
    BY <1>8 DEF StartCommand, Starting
  <2> QED
    BY <1>4, <2>1, <2>2
<1>9. CASE Spawn(r)
  <2>1. \/ (\E run : Same(run) /\ run.stage = "running") /\ SetWorkingID(r, r)
        \/ (\E run : Same(run) /\ run.stage = "exited") /\ UNCHANGED working
    <3> DEFINE up   == [runs[r] EXCEPT !.stage = "running"]
               none == [runs[r] EXCEPT !.stage = "exited", !.exit = "failed"]
    <3>1. /\ up.at = runs[r].at /\ up.task = runs[r].task /\ up.stage = "running"
          /\ none.at = runs[r].at /\ none.task = runs[r].task /\ none.stage = "exited"
      BY <1>1 DEF RunRecord
    <3>2. \/ SetRun(r, up) /\ SetWorkingID(r, r)
          \/ SetRun(r, none) /\ UNCHANGED working
      BY <1>9 DEF Spawn
    <3> HIDE DEF up, none
    <3> QED
      BY <3>1, <3>2
  <2>2. runs[r].stage = "starting"
    BY <1>9 DEF Spawn
  <2>3. CASE (\E run : Same(run) /\ run.stage = "running") /\ SetWorkingID(r, r)
    <3>1. PICK run : Same(run) /\ run.stage = "running"
      BY <2>3
    <3> QED
      BY <1>1, <1>4, <2>2, <2>3, <3>1
  <2>4. CASE (\E run : Same(run) /\ run.stage = "exited") /\ UNCHANGED working
    BY <1>5, <2>4
  <2> QED
    BY <2>1, <2>3, <2>4
<1>10. CASE CleanUp(r)
  <2>1. PICK run : Same(run)
    BY <1>6, <1>10
  <2>2. SetWorkingID(r, 0)
    BY <1>10 DEF CleanUp
  <2> QED
    BY <1>4, <2>1, <2>2
<1> QED
  BY <1>7, <1>8, <1>9, <1>10 DEF RunStep

\* ... and so does every other step of a worker.
LEMMA PidStep ==
    ASSUME RunInv, PidInv, WorkerNext
    PROVE  PidInv'
<1> USE DEF PidInv, OwnPid
<1>0. /\ runs \in Seq(RunRecord) /\ working \in [Workers -> [Tasks -> Int]]
      /\ DOMAIN runs = 1 .. Len(runs) /\ Len(runs) \in Nat
      /\ \A s \in DOMAIN runs : runs[s] \in RunRecord
  BY DEF RunInv, WorkerTypeOK
<1>1. ASSUME NEW r \in DOMAIN runs, RunStep(r)  PROVE PidInv'
  BY <1>1, RunKeepsPids
<1>2. ASSUME NEW w \in Workers, AcceptTask(w)  PROVE PidInv'
  <2>1. PICK run : runs' = Append(runs, run)
    BY <1>2 DEF AcceptTask
  <2>2. DOMAIN runs \subseteq DOMAIN runs' /\ \A s \in DOMAIN runs : runs'[s] = runs[s]
    BY <1>0, <2>1
  <2> QED
    BY <1>0, <1>2, <2>2 DEF AcceptTask
<1>3. ASSUME NEW w \in Workers, MessageDeleteTask(w)  PROVE PidInv'
  <2>1. /\ DOMAIN runs' = DOMAIN runs /\ UNCHANGED working
        /\ \A s \in DOMAIN runs :
              runs'[s] = runs[s] \/ (runs'[s] = Killed(s) /\ s \in RunningAt(w))
    BY <1>3 DEF MessageDeleteTask, KillRuns
  <2>2. \A s \in DOMAIN runs : /\ Killed(s).at = runs[s].at /\ Killed(s).task = runs[s].task
                               /\ Killed(s).stage = "exited"
    BY <1>0 DEF Killed, RunRecord
  <2> QED
    BY <2>1, <2>2
<1>4. ASSUME NEW w \in Workers, Die(w)  PROVE PidInv'
  <2>1. /\ working' = [working EXCEPT ![w] = [t \in Tasks |-> 0]]
        /\ DOMAIN runs' = DOMAIN runs
        /\ \A s \in DOMAIN runs : runs[s].at # w => runs'[s] = runs[s]
    BY <1>4 DEF Die, RunsLost
  <2>2. \A v \in Workers, t \in Tasks :
           working'[v][t] = IF v = w THEN 0 ELSE working[v][t]
    BY <1>0, <2>1
  <2>3. ASSUME NEW v \in Workers, NEW t \in Tasks, working'[v][t] > 0
        PROVE  OwnPid(v, t)'
    <3>1. v # w /\ working'[v][t] = working[v][t]
      BY <2>2, <2>3
    <3>2. OwnPid(v, t) /\ working[v][t] > 0
      BY <2>3, <3>1
    <3> DEFINE pid == working[v][t]
    <3>3. pid \in DOMAIN runs /\ runs[pid].at = v /\ runs'[pid] = runs[pid]
      BY <2>1, <3>1, <3>2
    <3> QED
      BY <2>1, <3>1, <3>2, <3>3
  <2>4. ASSUME NEW v \in Workers, NEW t \in Tasks  PROVE OwnPid(v, t)'
    BY <2>3
  <2> QED
    BY <2>4
<1>5. ASSUME UNCHANGED <<working, runs>>  PROVE PidInv'
  BY <1>5
<1> QED
  BY <1>1, <1>2, <1>3, <1>4, <1>5
  DEF WorkerNext, CreateConnection, GetMessage, RefuseTask, MessageStatusTask,
      MessageDeleteTaskKillsWorker, Crash, Stop, workerProcVars

-----------------------------------------------------------------------------
(* Reports.                                                                *)

\* Every step of a worker reports once at most, for a run that had not reported.
LEMMA ReportStep ==
    ASSUME RunInv, WorkerNext
    PROVE  OneReport
<1> DEFINE Kept(r) == runs[r].outcome # "none" =>
              runs'[r].outcome = runs[r].outcome /\ (runs[r].sent => runs'[r].sent)
           New(c) == Len(toManager'[c]) > Len(toManager[c])
           Last(c) == toManager'[c][Len(toManager'[c])]
           Reported(c) == \E r \in DOMAIN runs :
               /\ ~runs[r].sent /\ runs'[r].sent
               /\ Last(c) = CallbackMsg(runs[r].task, runs[r].workerName, runs[r].outcome)
<1>0. /\ runs \in Seq(RunRecord) /\ DOMAIN runs = 1 .. Len(runs) /\ Len(runs) \in Nat
      /\ \A r \in DOMAIN runs : runs[r] \in RunRecord
      /\ toManager \in [Conns -> Seq(ToManagerMsg)]
  BY DEF RunInv, WorkerTypeOK, WireTypeOK
\* What a reply adds to the queues.
<1>1. ASSUME NEW m \in ToManagerMsg, NEW w, Reply(w, m), NEW c \in Conns, New(c)
      PROVE  Last(c) = m
  BY <1>0, <1>1 DEF Reply, Written
\* What a step of one run makes of it.
<1>2. ASSUME NEW r \in DOMAIN runs, NEW run, SetRun(r, run),
             /\ runs[r].outcome # "none" => run.outcome = runs[r].outcome
             /\ runs[r].sent => run.sent
      PROVE  \A s \in DOMAIN runs : Kept(s)
  BY <1>0, <1>2 DEF SetRun
<1>3. ASSUME NEW r \in DOMAIN runs, RunStep(r), ~Report(r)
      PROVE  (\A s \in DOMAIN runs : Kept(s)) /\ UNCHANGED toManager
  <2>1. ASSUME NEW x, SetRun(r, Ended(runs[r], x))  PROVE \A s \in DOMAIN runs : Kept(s)
    <3>1. /\ runs[r].outcome # "none" => Ended(runs[r], x).outcome = runs[r].outcome
          /\ runs[r].sent => Ended(runs[r], x).sent
      BY <1>0 DEF Ended, RunRecord
    <3> QED
      BY <1>2, <2>1, <3>1
  <2>2. ASSUME NEW st, NEW x, NEW n,
               \/ SetRun(r, [runs[r] EXCEPT !.stage = st])
               \/ SetRun(r, [runs[r] EXCEPT !.stage = st, !.exit = x])
               \/ SetRun(r, [runs[r] EXCEPT !.stage = st, !.exit = x, !.left = n])
        PROVE  \A s \in DOMAIN runs : Kept(s)
    <3> DEFINE a == [runs[r] EXCEPT !.stage = st]
               b == [runs[r] EXCEPT !.stage = st, !.exit = x]
               d == [runs[r] EXCEPT !.stage = st, !.exit = x, !.left = n]
    <3>1. /\ a.outcome = runs[r].outcome /\ a.sent = runs[r].sent
          /\ b.outcome = runs[r].outcome /\ b.sent = runs[r].sent
          /\ d.outcome = runs[r].outcome /\ d.sent = runs[r].sent
      BY <1>0 DEF RunRecord
    <3>2. SetRun(r, a) \/ SetRun(r, b) \/ SetRun(r, d)
      BY <2>2
    <3> HIDE DEF a, b, d
    <3> QED
      BY <1>2, <3>1, <3>2
  <2>3. ASSUME Timeout(r)  PROVE \A s \in DOMAIN runs : Kept(s)
    <3> DEFINE late == [runs[r] EXCEPT !.outcome = "failed"]
    <3>1. late.sent = runs[r].sent
      BY <1>0 DEF RunRecord
    <3>2. runs[r].outcome = "none" /\ SetRun(r, late)
      BY <2>3 DEF Timeout
    <3> HIDE DEF late
    <3> QED
      BY <1>2, <3>1, <3>2
  <2> HIDE DEF Kept
  <2>4. \A s \in DOMAIN runs : Kept(s)
    BY <1>3, <2>1, <2>2, <2>3 DEF RunStep, RunFails, StartCommand, Spawn, CleanUp, Exit
  <2> QED
    BY <1>3, <2>4 DEF RunStep, RunFails, StartCommand, Spawn, CleanUp, Timeout, Exit, wireVars
<1>4. ASSUME NEW r \in DOMAIN runs, Report(r)
      PROVE  (\A s \in DOMAIN runs : Kept(s)) /\ \A c \in Conns : New(c) => Reported(c)
  <2> DEFINE sent == [runs[r] EXCEPT !.sent = TRUE]
             m == CallbackMsg(runs[r].task, runs[r].workerName, runs[r].outcome)
  <2>1. sent.outcome = runs[r].outcome /\ sent.sent
    BY <1>0 DEF RunRecord
  <2>2. SetRun(r, sent) /\ ~runs[r].sent /\ Reply(runs[r].at, m)
    BY <1>4 DEF Report
  <2>3. m \in ToManagerMsg
    <3>1. runs[r].task \in Tasks /\ runs[r].workerName \in WorkerNames /\ runs[r].outcome \in Results
      BY <1>0, <1>4 DEF Report, RunRecord
    <3> QED
      BY <3>1, MessagesTyped
  <2> HIDE DEF sent, m
  <2>4. \A s \in DOMAIN runs : Kept(s)
    BY <1>2, <2>1, <2>2
  <2>5. runs'[r].sent
    BY <1>0, <2>1, <2>2 DEF SetRun
  <2>6. ASSUME NEW c \in Conns, New(c)  PROVE Last(c) = m
    BY <1>1, <2>2, <2>3, <2>6
  <2> QED
    BY <2>2, <2>4, <2>5, <2>6 DEF m
\* The steps of the worker itself keep the outcomes and report none.
<1>5. ASSUME NEW w \in Workers, CreateConnection(w) \/ GetMessage(w) \/ Crash(w) \/ Stop(w)
      PROVE  /\ \A s \in DOMAIN runs : Kept(s)
             /\ \A c \in Conns : New(c) => Last(c).type # "callbackTask"
  <2>1. /\ \A s \in DOMAIN runs : /\ Killed(s).outcome = runs[s].outcome /\ Killed(s).sent = runs[s].sent
                                   /\ Lost(s).outcome = runs[s].outcome /\ Lost(s).sent = runs[s].sent
    BY <1>0 DEF Killed, Lost, RunRecord
  <2>2. ASSUME UNCHANGED runs \/ (\E K : runs' = KillRuns(K)) \/ runs' = RunsLost(w)
        PROVE  \A s \in DOMAIN runs : Kept(s)
    BY <2>1, <2>2 DEF KillRuns, RunsLost
  <2>3. ASSUME NEW run, runs' = Append(runs, run)  PROVE \A s \in DOMAIN runs : Kept(s)
    BY <1>0, <2>3
  <2>4. ASSUME UNCHANGED toManager
        PROVE  \A c \in Conns : ~New(c)
    BY <1>0, <2>4
  <2>5. ASSUME NEW m \in ToManagerMsg, m.type # "callbackTask", NEW v, Reply(v, m)
        PROVE  \A c \in Conns : New(c) => Last(c).type # "callbackTask"
    BY <1>1, <2>5
  <2>6. /\ \A t : FailedAddTaskMsg(t).type # "callbackTask"
        /\ \A n : StatusMsg(n).type # "callbackTask"
        /\ AddWorkerMsg.type # "callbackTask" /\ DeleteWorkerMsg.type # "callbackTask"
    BY DEF FailedAddTaskMsg, StatusMsg, AddWorkerMsg, DeleteWorkerMsg
  <2> HIDE DEF Kept, New, Last
  <2>7. CASE CreateConnection(w)
    <3>1. PICK c \in Conns : toManager' = [toManager EXCEPT ![c] = <<AddWorkerMsg>>]
      BY <2>7 DEF CreateConnection, Dial
    <3>2. \A d \in Conns : New(d) => Last(d) = AddWorkerMsg
      BY <1>0, <3>1 DEF New, Last
    <3> QED
      BY <2>2, <2>6, <2>7, <3>2 DEF CreateConnection
  <2>8. CASE AcceptTask(w) \/ MessageDeleteTask(w)
    BY <2>2, <2>3, <2>4, <2>8 DEF AcceptTask, MessageDeleteTask
  <2>9. CASE RefuseTask(w) \/ MessageStatusTask(w)
    <3>1. UNCHANGED runs
      BY <2>9 DEF RefuseTask, MessageStatusTask, workerProcVars
    <3>2. \E m : Reply(w, m) /\ m.type # "callbackTask" /\ m \in ToManagerMsg
      <4>1. CASE RefuseTask(w)
        <5>1. conn[w] \in Conns /\ toWorker[conn[w]] \in Seq(ToWorkerMsg) /\ toWorker[conn[w]] # <<>>
              /\ Head(toWorker[conn[w]]).type = "addTask"
          BY <4>1 DEF RefuseTask, Read, RunInv, WireTypeOK, LiveWorkerHasConn
        <5>2. Head(toWorker[conn[w]]) \in ToWorkerMsg
          BY <5>1, HeadTailProperties
        <5>3. ReadTask(w) \in Tasks
          BY <5>1, <5>2, MessageFields DEF ReadTask
        <5> QED
          BY <2>6, <4>1, <5>3, MessagesTyped DEF RefuseTask
      <4>2. CASE MessageStatusTask(w)
        <5>1. IsFiniteSet(WorkingIDs(w))
          BY FS_Subset, TasksAssumption DEF WorkingIDs
        <5>2. IddleThreads(w) \in Int
          BY <5>1, FS_CardinalityType, ThreadsAssumption DEF IddleThreads
        <5> QED
          BY <2>6, <4>2, <5>2, MessagesTyped DEF MessageStatusTask
      <4> QED
        BY <2>9, <4>1, <4>2
    <3> QED
      BY <2>2, <2>5, <3>1, <3>2
  <2>10. CASE MessageDeleteTaskKillsWorker(w) \/ Crash(w) \/ Stop(w)
    <3>1. runs' = RunsLost(w)
      BY <2>10 DEF MessageDeleteTaskKillsWorker, Crash, Stop, Die
    <3>2. UNCHANGED toManager \/ Reply(w, DeleteWorkerMsg)
      BY <2>10 DEF MessageDeleteTaskKillsWorker, Crash, Stop
    <3> QED
      BY <2>2, <2>4, <2>5, <2>6, <3>1, <3>2, MessagesTyped
  <2> QED
    BY <1>5, <2>7, <2>8, <2>9, <2>10 DEF GetMessage
<1>6. UNCHANGED toManager => \A c \in Conns : ~New(c)
  BY <1>0
<1>7. /\ \A s \in DOMAIN runs : Kept(s)
      /\ \A c \in Conns : New(c) /\ Last(c).type = "callbackTask" => Reported(c)
  <2> HIDE DEF Kept, New, Last, Reported
  <2> QED
    BY <1>3, <1>4, <1>5, <1>6 DEF WorkerNext
<1> QED
  BY <1>7 DEF OneReport
=============================================================================
