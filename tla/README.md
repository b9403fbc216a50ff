# Formal models of nTask

nTask distributes tasks (shell commands with files and a timeout) from one
**manager** to many **workers**. The manager keeps everything it must not lose
in a MySQL database and talks to each worker over a websocket that the worker
opens. This directory holds TLA+ models of that system, the instances on which
TLC checks them, and TLAPS proofs, for every instance, of every safety property that is
checked and of the fact that the system implements an abstract queue.

Paths below are relative to `src/`.

## 1. The system

### Components, their state and their operations

| Component | Code | State | Operations |
|---|---|---|---|
| Dispatcher | `manager/utils/manageTasks.go`, `sendAddTask` in `manager/utils/workerRequest.go` | a batch of copies of pending rows, the idle workers still to try | read tasks, read workers, take a thread, send, mark running |
| Worker connections | `manager/websockets/websockets.go`, `WorkerDisconnected` | `config.WebSockets` (worker to socket), per reader the worker it serves | `addWorker`, `deleteWorker`, `callbackTask`, `status`, `FAILED;addTask`, connection lost |
| Worker verification | `VerifyWorkersLoop`, `handleMissingWebSocket` | `worker.downCount` | poll, forget a socket, count, remove the worker |
| API | `manager/api` | none | post, read and delete tasks; post, read and delete workers |
| History | `DeleteMaxTaskHistoryLoop`, `DeleteMaxEntriesHistory` | the number of rows it found too many | count done tasks, delete the oldest |
| Database | `manager/database` | tables `task`, `worker` | one function per statement; `RmWorkerName` has three statements |
| Worker process | `worker/worker.go`, `worker/websockets`, `worker/managerrequest` | `config.Conn`, `status.WorkingIDs` | connect, register, read messages, reconnect, stop |
| Task execution | `worker/process`, `worker/modules` | per task: its commands, its outcome | start, run and clean up commands; time out; report |
| Messages | `globalstructs/struct.go` | none | none |
| Startup and configuration | `manager/manager.go` | `managerConfig`, `wgServer` | load configurations, connect, `setInitialTaskStatus`, start goroutines, wait for servers |
| Authentication | `manager/manager.go` (middleware) | tokens | compare |
| SSH tunnels | `manager/sshTunnel` | `activeConnections`, `config.IPPort` | dial, forward two ports, drop the entry, dial again |
| Cloud workers | `manager/cloud` | droplets of the account | delete, list, create, wait, add their addresses to `IPPort` |
| Result delivery, statistics | `manager/utils/userRequest.go`, `disk.go`, `stats.go` | files | call back, write |
| Worker configuration and TLS, command line, `docs` | `worker/utils`, `main.go`, `docs` | none | none |

### How they interact

* The manager's goroutines share the database (each SQL statement is atomic) and
  the map `config.WebSockets`, which no lock protects. `writeLock` serialises
  writes to sockets only.
* A worker dials, installs the connection as `config.Conn` and sends `addWorker`.
  Each connection has a reader goroutine in the manager (`GetWorkerMessage`) which
  learns from the first `addWorker` or `deleteWorker` whom it serves.
* The dispatcher sends `addTask`; the worker answers at once with `OK;addTask` or
  `FAILED;addTask` and later with `callbackTask`. There are no acknowledgements of
  callbacks: once a write has returned, the sender forgets the message.
* `status` requests and answers carry the number of idle threads; between two
  answers the manager counts down by itself in the row of the worker.
* The loss of a connection is noticed by its reader, which marks the worker down
  and puts its running tasks back to pending. A worker without socket is
  removed by the verify loop after `StatusCheckDown` rounds.
* `StartSSH` dials the hosts of `config.IPPort`, to which `ProcessDigitalOcean` adds the
  droplets it has created, so that workers there reach the manager's ports. Both are started
  last by `StartManager`, after it has waited for its servers.

### What is hard

1. Stale copies: the dispatcher works for a whole pass from rows it read at the
   beginning, and finally writes `running` over whatever the row has become.
2. Two writers of one task: the dispatcher's `UpdateTask(running)` races the
   worker's callback, refusal, a requeue and a deletion.
3. Successive connections of one worker are handled by different readers, whose
   steps overlap in any order, while they all write one entry of a map.
4. `RmWorkerName` is not a transaction, and has three kinds of callers.
5. Failures: a broken connection, a worker that dies or is stopped, a manager
   that restarts, one failing statement of several.
6. On a worker, admission looks at `WorkingIDs`, which a task enters late and
   leaves between two commands; runs of the same task share one entry; a command
   goes on after its timeout; tasks are killed by pid.
7. Dials of one host overlap, clients that failed are never closed, either forward of any
   of them removes the host's entry, and the map has no lock.

### What makes each component correct

| Component | It is correct when | Property |
|---|---|---|
| Dispatcher | no task is sent twice for one time it was put to pending; none is executed twice unless something fails; a task posted for a worker goes to that one; every pending task is sent in the end | `NoDoubleDispatch`, `ExecutedOnce`, `PinRespected`, `EventuallyDispatched` |
| Worker connections | a socket in the map has a live reader of that worker, so its loss will be noticed | `SocketHasReader` |
| Results | a stored result is one that a worker reported for that task | `ResultFromExecution` |
| Manager and workers together | are an at-least-once queue: a task is offered again only after it was put back, for one of a few reasons; what was deleted is not revived by a requeue; only done tasks are trimmed | `ImplementsTaskQueue` |
| Statements on a task | a requeue revives nothing that was deleted or is finished; a row ends with a reported result; what is trimmed stays so | `TaskLifecycle` |
| Removal | a removed worker's tasks are requeued, not stranded | `DetachedTasksAreRequeued` (fails, see section 6) |
| Worker | never more tasks than threads | `WithinCapacity` (fails, see section 6) |
| Task execution | a kill hits only a process of the task that is to be deleted; a run reports one outcome, once; a task with a timeout is always reported | `KillTargetsOwnTask`, `ReportedOnce`, `TimedTasksReported` |
| SSH tunnels | a host that is passed over has a client with both forwards at work | `ListedTunnelWhole` |
| Cloud workers | the account never grows beyond the configured number of droplets; the droplets that were created are reached in the end | `NeverTooManyDroplets`, `CreatedDropletsTunnelled` |
| Startup | what is configured is started | `TunnelsStart` (fails, see section 6) |
| The whole | a task that is running ends | `RunningTasksFinish` (fails, see section 6) |

All hazards found in the code, each with its line and the properties that watch
it, are listed in `PROJECT.json`. Some have no property yet, and say why.

## 2. The modules

    GlobalStructs          tasks, workers, statuses, messages
      |        \
    Store      Wire        the database        the connections
      |        /   \
    Manager       Worker   the two programs
        \        /  \
         NTask      WorkerAlone    worker + most general manager
        /  |            |
       /  MCNTask   MCWorkerAlone  instances for TLC
    TaskQueue      abstract queue, implemented by NTask

    SshTunnel -- Cloud -- MCCloud      tunnels, and droplets next to them
    Startup                            the order in which StartManager starts all this

    RunProofs          what workers and connections keep, whatever the manager does
     |   \
     |   WorkerAloneProofs   WorkerAlone: []TypeOK, []KillTargetsOwnTask, ReportedOnce
    TypeProofs         NTask: []TypeOK, []KillTargetsOwnTask, [][OneReport]_vars
     |   \
     |   SocketProofs        NTask: []SocketHasReader
    DispatchProofs     |    NTask: []NoDoubleDispatch
     |   /
    QueueProofs        NTask: ImplementsTaskQueue, []PinRespected, []ResultFromExecution,
     |                        TaskLifecycle
    OnceProofs         NTask: []ExecutedOnce
    CloudProofs        Cloud: []TypeOK, []ListedTunnelWhole, NeverTooManyDroplets

### GlobalStructs

`globalstructs/struct.go`. A task is its ID and a worker its name. Of a task's row
the model keeps `status`, `workerName` and `priority`; commands, files, outputs,
notes and the callback URL decide no step modelled here. All workers have the same
`DefaultThreads`.

### Store

One operator per SQL statement that the lifecycle of tasks and workers executes,
named after the Go function. The data source name sets `clientFoundRows=true`
(`manager/database/DB.go`), so an UPDATE of an existing row always affects one
row and "not found" means a missing row. `GetTasksPending` yields every order
that `ORDER BY priority DESC, createdAt LIMIT n` allows: `createdAt` has a
resolution of one second, so equal priorities come in any order. Two history
variables, `claimed` and `pinned`, record what the properties speak about; no guard
reads them. A row that the history loop has deleted has the status `trimmed`; its ID is not
used again, as IDs are random. UPDATEs of a row that is not there fail (`TaskRow`).

### Wire

External: a websocket over TCP, as the code uses it. Both directions are queues in
order. A connection breaks once; then a write either fails or is silently lost, and a
reader may still get what had arrived. A reader in the manager may take its read
error at any time after the break, even before it has read what had arrived. A
worker stops reading the old connection when it has a new one.

### Manager

| TLA+ | Code |
|---|---|
| `ReadTasks`, `ReadWorkers`, `Pick`, `NextWorkers` | `ManageTasks` |
| `Pick`, `Send`, `SendFails`, `Mark` | `sendAddTask`: take a thread, send, mark running |
| `HandleAddWorker`, `InsertWorker` | `addWorker`: the map, then the row |
| `HandleDeleteWorker` | `deleteWorker`, whose `RmWorkerName` follows |
| `HandleCallbackTask`, `HandleFailedAddTask` | `callbackTask`, `FAILED;addTask` |
| `HandleWorkerStatus`, `UpdateStatus` | `status`: read the row, then write it |
| `ReadError`, `MarkDown`, `RequeueLost` | `handleConnectionError`, `WorkerDisconnected` |
| `RmDelete`, `RmRequeue`, `RmClear` | the three statements of `RmWorkerName` |
| `Poll`, `VerifyMissing`, `VerifyForget`, `VerifyDown`, `VerifyCount`, `VerifyOrphan` | `VerifyWorkersLoop`, `verifyWorker`, `handleMissingWebSocket` |
| `PostTask`, `PostCheck`, `PostInsert` | `HandleTaskPost` |
| `DeleteRead`, `DeleteSend`, `DeleteSent`, `DeleteMark` | `HandleTaskDelete`, `SendDeleteTask` |
| `HandleWorkerDelete`, `HandleWorkerPost` | `HandleWorkerDeleteName`, `HandleWorkerPost` |
| `HistoryCount`, `HistoryDelete` | `DeleteMaxEntriesHistory`: count, then delete |
| `ManagerRestart` | the process ends; `StartManager` and `setInitialTaskStatus` |

`sock` is `config.WebSockets`. `reader`, `busy`, `dpc`, `del`, `vfy`, `hist` and `rm` are the
program counters of the goroutines, together with the locals that are used after
another goroutine may have run. Every SQL statement, access to the map and socket
operation is a step of its own, with these exceptions, where nothing can be told
apart: counting the threads and selecting the tasks; reading and writing
`downCount` (only the verify loop increments it); the updates of one status answer,
each of which may fail. `OK;addTask`, `OK;deleteTask` and `FAILED;deleteTask` are not
on the wire because the manager only logs them. The unlocked map is read and
written atomically in any order; the other outcome of such a race in Go, the
runtime ending the process, is `ManagerRestart`.

### Worker

| TLA+ | Code |
|---|---|
| `CreateConnection` | `StartWorker`, `RecreateConnection`, `CreateConnection`, `AddWorker` |
| `AcceptTask`, `RefuseTask` | `messageAddTask` |
| `MessageStatusTask` | `messageStatusTask` |
| `MessageDeleteTask`, `MessageDeleteTaskKillsWorker` | `messageDeleteTask`: `kill -9` on the entry of the task, which is 0 when there is none |
| `RunFails`, `StartCommand`, `Spawn`, `Exit`, `CleanUp` | `process.Task`, `ProcessModule`, `runModule`, `executeCommand` |
| `Timeout` | the context of `ProcessModule` expires, its goroutine goes on |
| `Report` | `CallbackTaskMessage`, repeated until a write succeeds |
| `Stop`, `Crash` | SIGTERM with or without `deleteWorker` sent; death |

The pid of a run is its position in `runs`, so pids are not reused. A retried
operation (a callback every ten seconds, a reconnection) is an action that stays
enabled until it succeeds; time itself is not modelled.

### WorkerAlone

The workers with the most general manager: it sends any message at any time. What is
checked there holds whatever the manager does. The two promises of a worker,
`KillTargetsOwnTask` and `OneReport`, are defined in `Worker`, so that they can be stated of
`NTask` as well, where they are proved and need no run.

### TaskQueue

What the system promises about a task, without dispatcher, statements and connections. A task
has a status, an owner and a pin; it is *offered* to one worker and to no other until it is
put back (refused, worker lost or removed, restart, offer not recorded); *copies* say which
workers may be executing it; *outcomes* what they have reported. Copies and refusals may be
lost at any time, results not.

`NTask` instantiates it with the refinement mapping: `status`, `owner`, `pin`, `offered` are
columns and history variables of `Store`; a copy is an `addTask` on its way or a run in `runs`;
a refusal is a `FAILED;addTask` on its way; the outcomes of a task are those of the runs that
have sent their callback. The dispatcher's batch, the readers, the verify loop, the sockets and
the state of the workers are hidden.

### SshTunnel

| TLA+ | Code |
|---|---|
| `Visit` | the loop of `StartSSH`: a host without an entry is dialled |
| `Dialled`, `DialFails`, `NoPrivateKey` | the goroutine of a dial: enter the client, return, `log.Fatal` |
| `Listen`, `ListenFails`, `AcceptFails` | `forwardPort`: get the port, or remove the host's entry and end |
| `ConcurrentMapAccess` | two goroutines at the unlocked map: the Go runtime stops the process |
| `LinkDown`, `HostGone`, `PortReleased` | external: a link breaks, the machine ends, the server notices |

A client is a number; one that has ended may stand for another later. A server gives a port to one
client, and to another once it has noticed that the first is gone.

### Cloud

`ProcessDigitalOcean`, one action per request, composed with `SshTunnel`, which shares `IPPort`
with it. The account is external: a new droplet becomes active, with an address, some time later; a
deleted one is listed for some time more. Which errors end the process, which the
goroutine, and which are only logged is as in the code. At the start the account may have
active droplets.

`SshTunnel` and `Cloud` model this code as it is written. `StartManager` reaches it only when no
server is configured (`Startup`), and then returns; they are models of the two packages for a
caller that starts them and lives on.

### Startup

`StartManager` step by step, with the configurations it may find: which servers, whether there is an
SSH configuration, which provider. `wgServer` is the set of servers it waits for.

## 3. The runs

| Run | Instance | What it shows |
|---|---|---|
| `core` | 2 tasks (one for w1), 2 workers, no failures | `NoDoubleDispatch`, `PinRespected`, `ExecutedOnce`, types, no deadlock |
| `outage` | 1 task, 1 worker, connections break, the manager restarts | `NoDoubleDispatch`, `ResultFromExecution`, `SocketHasReader` |
| `removal` | 1 task for w1, 2 workers; w1 is removed through the API | `PinRespected`: w2 gets the task only when the name is cleared; `ImplementsTaskQueue` |
| `shutdown` | 1 task, 1 worker; it is stopped and returns, any statement fails | `NoDoubleDispatch`, `SocketHasReader` with several `RmWorkerName` at once; `ImplementsTaskQueue` |
| `deletion` | 1 task that may be deleted, any statement fails, the worker's row may come from `POST /worker` | `NoDoubleDispatch`, `ResultFromExecution`, `TaskLifecycle` |
| `dispatch` | 2 tasks for one thread, a history of one, fairness | `EventuallyDispatched`, `ImplementsTaskQueue` |
| `worker` | 1 worker, 2 threads, 2 tasks of 2 commands, one of them timed, any manager, all failures of a worker, fairness | `KillTargetsOwnTask`, `ReportedOnce`, `TimedTasksReported`, types |
| `tunnels` | 2 hosts, 2 droplets of which one is to exist, 2 clients of the first host, 1 failure of any kind, fairness | `ListedTunnelWhole`, `NeverTooManyDroplets`, `CreatedDropletsTunnelled`, types |
| `finish`, `detach`, `capacity`, `startup` | smallest ones that show it | violations, see section 6 |

Each of the passing ones ends within four minutes on two cores (36 thousand to
1.4 million distinct states).

### Bounds, and why they are enough

* `MaxConns`: connections ever created; 2 for one worker (3 for two in `removal`), so
  that an old and a new connection of a worker are handled side by side. A third would only repeat this:
  every handler refers to its own connection and to the one in the map.
* `MaxRuns`: tasks the workers accept in all; 2 allows a task to be executed
  twice, at once or one after the other. It is 1 where the executions
  themselves are not the question. In `core` two runs are enough for one task to be executed
  twice, not for one to be refused as well; refusals are covered by the proof of
  `ExecutedOnce`. Failures are split over four runs (connection and
  manager, removal, worker and database, deletion and database), because their product is
  too large for one.
* `MaxQueue` 2: messages waiting for a worker on one connection; a delete can overtake
  nothing but follows a pending `addTask`. A sender waits for room, as a socket
  write does.
* `MaxSends` (WorkerAlone): 2 messages, enough for one task to be sent twice, or sent and
  deleted, or for two tasks to share the worker; `MaxRuns` 2 gives each its run.
* `SpareConn`: failures happen only while one more connection can be created. Without
  it the bound on connections would look like a worker that never returns.
* `downCount` stops at `StatusCheckDown`, above which all counts act alike.
* `ClientsOf` and `MaxFailures` (SshTunnel): two clients of the host that may fail, so that
  an older client removes the entry of a newer one; one failure at any point, whose
  consequences (a port kept by a client whose other forward has failed) are followed to their end.
* One removal through the API and one status exchange at a time. A status answer
  only carries a count, and several at once would multiply states without a
  new order of writes to the row.

Symmetry is not used: the pinned task and the priorities distinguish the values, and
three runs check liveness.

`CHECK_DEADLOCK FALSE` is said wherever a bound (`MaxRuns`, `MaxConns`, `MaxQueue`) may
stop the model: a worker at `MaxRuns` reads no further `addTask`. In `tunnels` the system
itself may stop, when `ProcessDigitalOcean` is done and every tunnel is up, or when the process ends. In `core` the
bounds never stop it, and deadlock is checked.

### Fairness

Weak fairness of each goroutine that never returns (dispatcher, one reader per
connection, verify loop, the read and reconnection loops of each worker), of each
started API request and each started `RmWorkerName`, and of the two goroutines of
each run. Go's scheduler is fair in this sense to runnable goroutines, and a blocked
one is not enabled in the model. `NTask` also assumes that a command ends, an
assumption about users' tasks; `WorkerAlone` does not, which is what
`TimedTasksReported` is about. Instead it assumes that a timeout expires. Nobody is
obliged to post, to delete, or to fail.

`Cloud` assumes that the loop of `StartSSH`, its goroutines and `ProcessDigitalOcean` go on,
that a dial of a host that can be reached ends, that DigitalOcean activates what it accepted and
removes what was deleted, and that an ssh server notices a dead client. `Startup` assumes strong
fairness of `StartManager`, because `connectToDatabase` tries again until the database is there.

`ImplementsTaskQueue` is checked where it costs least: with removals, with failing statements and
several `RmWorkerName` at once, and with trimming. For deletions, restarts and broken connections,
where it would more than double large runs, it rests on the proof, which covers all faults together.

## 4. The proofs

The proofs hold for every finite set of tasks and of workers, every number of threads and
connections, every priority, pin and set of failures. They assume the named
ASSUMEs of the modules and nothing else; TLC evaluates those in every run.

`TypeProofs!TypeCorrect`: `Spec => []TypeOK`. `TypeOK` is not inductive: a reader that
removes "its" worker needs to know it has one, and `Head(batch)` needs a batch. The
invariant `TypeInv` adds `LiveWorkerHasConn` (a live worker has a connection) and
`BatchInHand` (the dispatcher has a task, a candidate and a worker when its program
counter says so). One lemma per group of actions, which cite what the statements of `Store`
do (`PendingBatch`, `TaskStatements`, `WorkerStatements`) and what the queues and runs keep
(`RunProofs`).

`DispatchProofs!SentOnce`: `Spec => []NoDoubleDispatch`. `DispatchInv` says, besides
`TypeInv`: the tasks of a batch are distinct; those behind the first are not
claimed; the first is not claimed unless the copy carries the worker's name
and that worker is not among those still to try; a pending task is
not claimed except the one in hand. The proof separates the dispatcher's own steps from
those of all other goroutines, for which one lemma suffices: a step that
leaves the dispatcher alone and only takes claims away, or puts no claimed task to
pending, is *harmless*.

`SocketProofs!SocketsAreRead`: `Spec => []SocketHasReader`. `SocketInv` adds that the sockets
in the map are connections that were created, and that unused connections carry no
messages. Steps that touch neither map, readers nor connections are *undisturbed*. The
heart is `ReadError`: a reader that stops drops the entry of its worker, whether it is
its own connection or a newer one, so no entry refers to a connection that nobody reads.

`QueueProofs` holds the largest argument, on two levels.

* *The concrete state maps.* `CopyInv` says what the code's copies are worth: a pending post has no
  row yet (`PostsPending`); the tasks in the dispatcher's batch may go to the worker
  their copy names (`BatchAllowed`), and so may the one in hand to its candidate
  (`CandidateMatches`); an `addTask` names the worker at the other end (`MessagesOwn`), a run
  belongs to a worker (`RunsOwn`), and every `callbackTask` on its way is the outcome of
  a run that has sent it (`CallbacksReported`). With these each action of `NTask` is shown to
  be a step of `TaskQueue` or to leave its variables unchanged: `DispatcherMapped`, `ManagerMapped`,
  `WorkersMapped`, with `CarriesFacts` and `MappedParts` for what reading and writing a queue
  does to copies, refusals and outcomes.
* *The abstract steps preserve.* `QueueInv`, an invariant of the abstract variables alone, says that
  the owner of a pinned task is its pin (`NamesPin`), that copies are held only by workers the
  pin allows (`HeldByAllowed`), and that a stored result is among the outcomes
  (`ResultsReported`). `QueueKeeps` proves it once for the fourteen abstract actions, and not for
  every action of the detailed model.

The two need each other: that a step is abstract needs `CopyInv`, and that `CopyInv` is
preserved needs what the abstract step says. `QueueImplemented` is their conjunction with
`TypeInv`, `DispatchInv` and `SocketInv`; it states `Spec => []Inv` and
`ImplementsTaskQueue`. `PinsRespected` and `ResultsFromExecution` are read off `Inv`.

`LifecycleKept` (`Spec => TaskLifecycle`) goes the same way: each abstract action obeys the
lifecycle and each step of the system is one of them, so no step of the system is looked at again.
It says in one formula, of the table alone, what the actions of the queue say one by one.

`RunProofs` speaks of workers and connections alone. `RunInv` are their types, with the fact that a
live worker has a connection. `PidInv`: an entry of `WorkingIDs`, when it is a pid, is that of a run
of that task on that worker with a command not yet cleaned up. Two runs of one task may overwrite and
remove each other's entry; the claim survives because a run writes only its own pid, and removes
the entry before it goes on to its next command. `ReportStep`: of the steps of a worker only
`Report` writes a callback, and an outcome once there stays, though the command of a timed run ends
after it was reported. `WorkerAloneProofs` (`WorkersTyped`, `KillsOwnTask`, `ReportsOnce`) adds a
manager that does anything, `TypeProofs!WorkersKeepPromises` the manager of nTask.

`OnceProofs!NoneExecutedTwice`: `Spec => []ExecutedOnce`, where `ExecutedOnce` speaks of
specifications without failures (`NoFailures`); the other theorems need no such condition. A
task has at most one copy: an `addTask` on its way, a refusal on its way back, or a run (`OneCopy`).
When it has one, the dispatcher may not send: `claimed` holds, or the task is `Over`, trimmed before
the dispatcher had marked it, and all that the dispatcher still holds is a batch entry it will not send
again. Without this case the invariant is not inductive, because trimming forgets the claim.
`NoDoubleDispatch` alone is not enough: it counts dispatches between two returns to pending and says
nothing of copies that are still on their way when a task returns. That nothing is lost or put
back but by a refusal needs an invariant of its own (`NothingFails`): no connection breaks, known
workers have a socket, nobody is removed. The lemma `TokensMove` says what reads and writes of queues
do to copies.

`CloudProofs`: `TunnelsWhole` (`Spec => []TypeOK /\ []ListedTunnelWhole`) by an invariant that is
inductive as it stands, one lemma per kind of step of the tunnels, another for the cloud.
`DropletsBounded` (`Spec => NeverTooManyDroplets`) needs more: from counting the droplets to
creating those that are missing, the listed ones and the missing ones make up no more than
the configured number (`DropletsCounted`). That alone is not enough: to delete a
droplet that is not listed any more would list it again as dying. `ToDeleteListed` says that what is
to be deleted is still listed and not being deleted yet.

Only model-checked: the liveness properties (`TimedTasksReported`, `EventuallyDispatched`,
`CreatedDropletsTunnelled`), since liveness under fairness and ENABLED are beyond the installed
provers. Every safety property of a passing run is the statement of a theorem. The
counterexamples of section 6 are TLC's.

## 5. What is not modelled

* The retry of a statement on deadlocks is its outcome, success or error. The filters of GET
  requests change nothing.
* Authentication compares a header with a table that never changes.
* Result delivery, disk, statistics, TLS, the command line, generated
  documentation: input and output without state the rest depends on.
* The write deadline and the heartbeats are the possibility that a connection breaks at
  any time. The ten seconds a blocked write may hold `writeLock` are a wait for room
  on one connection, not on all.
* Payloads of tasks; pid reuse by the operating system.

## 6. Disagreements between code and documentation

* Run `finish`: `README.md:47` says workers "send the execution results back to the manager,
  which then stores the results in a database". `sendAddTask` marks a task running after
  it has sent it. If the worker's callback is handled first, `running` overwrites the
  result, and the task stays running for ever, without any failure.
* Run `detach`: `manager/database/DBworkers.go:25` says `RmWorkerName` "deletes a worker by
  name and detaches its running tasks". A task marked running between its second
  and third statement ends up running without a worker.
* Run `capacity`: `worker/websockets/websockets.go:187` says "if executing task skip and
  return error". A worker with one thread accepts a second task before the first has
  entered `WorkingIDs`, or between two of its commands.
* Run `startup`: `README.md:363` says "To connect a SSH server automatcally from nTask you need a
  private certificate with access to the server and to confiure a configSSHFile". `startServers`
  waits on a `WaitGroup` that nobody signals, so as long as there is a server `StartManager`
  never comes to the SSH and cloud configurations behind it.

Met on the way, and promised by no document: when `POST /worker` creates a row before the worker
connects, the worker's registration finds the row, the verify loop may find no websocket yet and
remove the row, and the worker stays connected without ever getting a task. `EventuallyDispatched`
therefore is checked without `register`. The same end is reached by `DELETE /worker`, and by
`handleMissingWebSocket` forgetting a socket that was registered a moment ago.

## 7. Plan

Built: dispatch, connections, verification, API, history and workers (`NTask`), the abstract queue
and its implementation proof, the worker alone, startup, tunnels and cloud.

What remains open, in order of interest:

1. `EventuallyDispatched` with broken connections, and with pins, where tasks pinned to an absent
   worker may fill the `LIMIT` of `GetTasksPending`; the first needs a bound on the number of
   failures that does not look like a worker that never returns.
2. Removal, restart and failing statements in one run: the theorems cover the product, a run is
   too large.
3. `ExecutedOnce` where connections break: how often a task is executed is then bounded by
   how often it was put back. The copies of `OnceInv` would have to be counted.

## 8. Running

    tlc -workers 2 -config core.cfg MCNTask.tla
    tlc -workers 2 -config worker.cfg MCWorkerAlone.tla
    tlc -workers 2 -config tunnels.cfg MCCloud.tla
    tlapm OnceProofs.tla

`worker.cfg` belongs to `MCWorkerAlone`, `tunnels.cfg` to `MCCloud`, `startup.cfg` to `Startup`, all
others to `MCNTask`. The
operators marked *Mutation* in the modules are plausible faults, each of which makes
the property `PROJECT.json` names for it fail; no specification uses them.
