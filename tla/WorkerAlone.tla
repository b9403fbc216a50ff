---------------------------- MODULE WorkerAlone ----------------------------
(***************************************************************************)
(* The workers against the most general manager: one that may send any     *)
(* message the manager has, at any time and in any order, and that reads   *)
(* every answer.  What holds here holds whatever the manager does.         *)
(***************************************************************************)
EXTENDS Worker

CONSTANT MaxSends   \* bound: how many messages the manager sends

ASSUME MaxSendsAssumption == MaxSends \in Nat

VARIABLE sends      \* how many it has sent

vars == <<wireVars, workerProcVars, sends>>

Init == WireInit /\ WorkerInit /\ sends = 0

ManagerSends(c, m) ==
    /\ wire[c] = "open" /\ RoomFor(c)
    /\ sends < MaxSends
    /\ sends' = sends + 1
    /\ toWorker' = Written(toWorker, c, m)
    /\ UNCHANGED <<wire, dialer, toManager, conn, workerProcVars>>

ManagerReads(c) ==
    /\ toManager[c] # <<>>
    /\ toManager' = Consumed(toManager, c)
    /\ UNCHANGED <<wire, dialer, toWorker, conn, workerProcVars, sends>>

Cut(c) ==
    /\ "cut" \in Faults /\ SpareConn
    /\ wire[c] = "open"
    /\ Break(c)
    /\ UNCHANGED <<dialer, toWorker, toManager, conn, workerProcVars, sends>>

Next ==
    \/ WorkerNext /\ UNCHANGED sends
    \/ \E c \in Conns :
          \/ \E t \in Tasks : ManagerSends(c, AddTaskMsg(t, dialer[c]))
          \/ \E t \in Tasks : ManagerSends(c, DeleteTaskMsg(t))
          \/ ManagerSends(c, StatusRequest)
          \/ ManagerReads(c)
          \/ Cut(c)

Spec == Init /\ [][Next]_vars

-----------------------------------------------------------------------------
(* Fairness: each worker's loops and each run's two goroutines go on; that *)
(* a command ends is not assumed.                                          *)

CommandStep(r) == RunFails(r) \/ StartCommand(r) \/ Spawn(r) \/ CleanUp(r)

Fairness ==
    /\ \A w \in Workers :
          /\ WF_vars(CreateConnection(w) /\ UNCHANGED sends)
          /\ WF_vars(GetMessage(w) /\ UNCHANGED sends)
    /\ \A r \in 1 .. MaxRuns :
          /\ WF_vars(r \in DOMAIN runs /\ CommandStep(r) /\ UNCHANGED sends)
          /\ WF_vars(r \in DOMAIN runs /\ Timeout(r) /\ UNCHANGED sends)
          /\ WF_vars(r \in DOMAIN runs /\ Report(r) /\ UNCHANGED sends)

FairSpec == Spec /\ Fairness

-----------------------------------------------------------------------------
(* Properties.                                                             *)

\* Type correctness of the workers and the connections.
TypeOK == WireTypeOK /\ WorkerTypeOK

\* A run reports once, and what it reports stands: neither the end of a command
\* after the timeout, nor a new connection, nor a second attempt makes it report
\* again or otherwise (ProcessModule, CallbackTaskMessage).
ReportedOnce == [][OneReport]_vars

\* Every accepted task with a timeout is reported, even when its command never
\* ends and while connections break, unless the worker dies (process.Task).
TimedTasksReported ==
    \A r \in 1 .. MaxRuns :
        (r \in DOMAIN runs /\ runs[r].task \in TimedTasks)
            ~> (r \in DOMAIN runs /\ (runs[r].sent \/ runs[r].stage = "lost"))
=============================================================================
