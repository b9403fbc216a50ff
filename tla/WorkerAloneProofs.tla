------------------------- MODULE WorkerAloneProofs -------------------------
(***************************************************************************)
(* The workers against any manager: they keep their types, a kill by pid   *)
(* only ever hits a command of the task it is meant for, and a run reports *)
(* one outcome once.  What the workers do to pids and reports is shown in  *)
(* RunProofs; here is left that no manager can interfere.                  *)
(***************************************************************************)
EXTENDS WorkerAlone, RunProofs

\* The runs and the connections keep their types, whatever the manager sends.
THEOREM WorkersTyped == Spec => [](RunInv /\ TypeOK)
<1>1. Init => RunInv
  BY DEF Init, WireInit, WorkerInit, RunInv, WireTypeOK, WorkerTypeOK, LiveWorkerHasConn,
     WorkerNames
<1>2. ASSUME RunInv, [Next]_vars  PROVE RunInv'
  <2>1. CASE WorkerNext
    BY <1>2, <2>1, RunTypes, WorkerTypes DEF WorkerNext
  <2>2. ASSUME NEW c \in Conns, NEW m \in ToWorkerMsg, ManagerSends(c, m)  PROVE RunInv'
    <3>1. toWorker' \in [Conns -> Seq(ToWorkerMsg)]
      BY <1>2, <2>2, QueuesTyped DEF ManagerSends, RunInv, WireTypeOK
    <3> QED
      BY <1>2, <2>2, <3>1 DEF ManagerSends, RunInv, WireTypeOK, WorkerTypeOK,
         LiveWorkerHasConn, workerProcVars
  <2>3. ASSUME NEW c \in Conns, ManagerReads(c)  PROVE RunInv'
    <3>1. toManager' \in [Conns -> Seq(ToManagerMsg)]
      BY <1>2, <2>3, QueuesTyped DEF ManagerReads, RunInv, WireTypeOK
    <3> QED
      BY <1>2, <2>3, <3>1 DEF ManagerReads, RunInv, WireTypeOK, WorkerTypeOK,
         LiveWorkerHasConn, workerProcVars
  <2>4. ASSUME NEW c \in Conns, Cut(c)  PROVE RunInv'
    <3>1. wire' \in [Conns -> {"unused", "open", "broken"}]
      BY <1>2, <2>4 DEF Cut, Break, RunInv, WireTypeOK
    <3> QED
      BY <1>2, <2>4, <3>1 DEF Cut, RunInv, WireTypeOK, WorkerTypeOK, LiveWorkerHasConn,
         workerProcVars
  <2>5. CASE UNCHANGED vars
    BY <1>2, <2>5 DEF vars, wireVars, workerProcVars, RunInv, WireTypeOK, WorkerTypeOK,
       LiveWorkerHasConn
  <2>6. ASSUME NEW c \in Conns
        PROVE  /\ \A t \in Tasks : AddTaskMsg(t, dialer[c]) \in ToWorkerMsg
               /\ \A t \in Tasks : DeleteTaskMsg(t) \in ToWorkerMsg
               /\ StatusRequest \in ToWorkerMsg
    BY <1>2, MessagesTyped DEF RunInv, WireTypeOK
  <2> QED
    BY <1>2, <2>1, <2>2, <2>3, <2>4, <2>5, <2>6 DEF Next
<1>3. RunInv => TypeOK
  BY DEF RunInv, TypeOK
<1> QED
  BY <1>1, <1>2, <1>3, PTL DEF Spec

\* A kill by pid never hits a process of another task (KillTargetsOwnTask,
\* Worker.tla), whatever a manager sends and however many runs share a task.
THEOREM KillsOwnTask == Spec => []KillTargetsOwnTask
<1>1. Init => PidInv
  BY DEF Init, WorkerInit, PidInv, OwnPid
<1>2. ASSUME RunInv, PidInv, [Next]_vars  PROVE PidInv'
  <2>1. CASE WorkerNext
    BY <1>2, <2>1, PidStep
  <2>2. CASE UNCHANGED <<working, runs>>
    BY <1>2, <2>2 DEF PidInv, OwnPid
  <2> QED
    BY <1>2, <2>1, <2>2 DEF Next, ManagerSends, ManagerReads, Cut, vars, workerProcVars
<1>3. PidInv => KillTargetsOwnTask
  BY DEF PidInv, OwnPid, KillTargetsOwnTask
<1> QED
  BY <1>1, <1>2, <1>3, WorkersTyped, PTL DEF Spec

\* A run reports once, and what it reports stands (ReportedOnce, WorkerAlone.tla),
\* whatever a manager sends or leaves unread.
THEOREM ReportsOnce == Spec => ReportedOnce
<1>1. ASSUME RunInv, [Next]_vars  PROVE [OneReport]_vars
  <2>1. CASE WorkerNext
    BY <1>1, <2>1, ReportStep
  <2>2. ASSUME UNCHANGED runs,
               \A c \in Conns : ~(Len(toManager'[c]) > Len(toManager[c]))
        PROVE  OneReport
    BY <2>2 DEF OneReport
  <2>3. toManager \in [Conns -> Seq(ToManagerMsg)]
    BY <1>1 DEF RunInv, WireTypeOK
  <2>4. ASSUME NEW c \in Conns, ManagerReads(c)  PROVE OneReport
    <3>1. toManager[c] # <<>> /\ toManager' = [toManager EXCEPT ![c] = Tail(@)]
      BY <2>4 DEF ManagerReads, Consumed
    <3>2. Len(Tail(toManager[c])) = Len(toManager[c]) - 1 /\ Len(toManager[c]) \in Nat
      BY <2>3, <3>1
    <3>3. \A d \in Conns : ~(Len(toManager'[d]) > Len(toManager[d]))
      BY <2>3, <3>1, <3>2
    <3> QED
      BY <2>2, <2>4, <3>3 DEF ManagerReads, workerProcVars
  <2>5. CASE UNCHANGED <<runs, toManager>>
    BY <2>2, <2>3, <2>5
  <2> QED
    BY <1>1, <2>1, <2>4, <2>5 DEF Next, ManagerSends, Cut, workerProcVars
<1> QED
  BY <1>1, WorkersTyped, PTL DEF Spec, ReportedOnce
=============================================================================
