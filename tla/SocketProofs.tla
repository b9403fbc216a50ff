---------------------------- MODULE SocketProofs ----------------------------
(***************************************************************************)
(* The websocket the manager keeps for a worker always has a reader        *)
(* (SocketHasReader).  The invariant adds what makes the claim survive the *)
(* creation of connections: a socket is one that was created, and nothing  *)
(* is on its way on one that was not.                                      *)
(***************************************************************************)
EXTENDS TypeProofs

SocketsAreUsed == \A w \in Workers : sock[w] # NoConn => wire[sock[w]] # "unused"

UnusedAreSilent == \A c \in Conns : wire[c] = "unused" => toManager[c] = <<>>

SocketInv == SocketHasReader /\ SocketsAreUsed /\ UnusedAreSilent

\* The types of the variables the invariant speaks of.
LEMMA SocketTypes ==
    ASSUME TypeInv
    PROVE  /\ sock \in [Workers -> Conns \union {NoConn}]
           /\ reader \in [Conns -> {"anonymous", "reading", "down", "requeue", "closed"}]
           /\ wire \in [Conns -> {"unused", "open", "broken"}]
           /\ dialer \in [Conns -> WorkerNames]
           /\ toManager \in [Conns -> Seq(ToManagerMsg)]
           /\ conn \in [Workers -> Conns \union {NoConn}]
           /\ NoConn \notin Conns
BY MaxConnsAssumption DEF TypeInv, TypeOK, ManagerTypeOK, ConnTypeOK, WireTypeOK, Conns, NoConn

\* Steps that keep the sockets and the readers: the connections that were created
\* keep their dialer, and no new message appears on the others.
Undisturbed ==
    \A c \in Conns :
        /\ wire'[c] = "unused" => wire[c] = "unused"
        /\ wire[c] # "unused" => dialer'[c] = dialer[c]
        /\ wire'[c] = "unused" /\ toManager[c] = <<>> => toManager'[c] = <<>>

\* A step that keeps the map and the readers keeps the invariant.  One that writes
\* a message is such a step: it writes to an open connection only.
LEMMA UndisturbedStep ==
    ASSUME TypeInv
    PROVE  /\ SocketInv /\ UNCHANGED <<sock, reader>> /\ Undisturbed => SocketInv'
           /\ \A d, m : UNCHANGED <<wire, dialer>> /\ toManager' = Written(toManager, d, m)
                           => Undisturbed
<1>1. SocketInv /\ UNCHANGED <<sock, reader>> /\ Undisturbed => SocketInv'
  BY SocketTypes DEF SocketInv, SocketHasReader, SocketsAreUsed, UnusedAreSilent, Undisturbed
<1>2. ASSUME NEW d, NEW m, UNCHANGED <<wire, dialer>>, toManager' = Written(toManager, d, m)
      PROVE  Undisturbed
  BY <1>2, SocketTypes DEF Undisturbed, Written
<1> QED
  BY <1>1, <1>2

\* Every step of a reader does, the loss of its connection included ...
LEMMA ReaderSockets ==
    ASSUME TypeInv, SocketInv, NEW c \in Conns, Reader(c)
    PROVE  SocketInv'
<1> USE SocketTypes DEF SocketInv, SocketHasReader, SocketsAreUsed, UnusedAreSilent
<1>1. ASSUME NEW type, Receive(c, type)
      PROVE  /\ wire[c] # "unused" /\ UNCHANGED <<wire, dialer>> /\ UnusedAreSilent'
             /\ Undisturbed
  <2>1. toManager[c] # <<>> /\ UNCHANGED <<wire, dialer>>
        /\ toManager' = [toManager EXCEPT ![c] = Tail(@)]
    BY <1>1 DEF Receive, Consumed
  <2> QED
    BY <2>1 DEF Undisturbed
<1>2. CASE HandleAddWorker(c)
  <2>1. /\ wire[c] # "unused" /\ UNCHANGED <<wire, dialer>> /\ UnusedAreSilent'
        /\ sock' = [sock EXCEPT ![dialer[c]] = c]
        /\ reader' = [reader EXCEPT ![c] = "reading"]
    BY <1>1, <1>2 DEF HandleAddWorker
  <2> QED
    BY <2>1
<1>3. CASE HandleDeleteWorker(c)
  <2>1. /\ UNCHANGED <<wire, dialer, sock>> /\ UnusedAreSilent'
        /\ reader' = [reader EXCEPT ![c] = "reading"]
    BY <1>1, <1>3 DEF HandleDeleteWorker
  <2> QED
    BY <2>1
<1>4. CASE HandleCallbackTask(c) \/ HandleFailedAddTask(c) \/ HandleWorkerStatus(c)
  BY <1>1, <1>4, UndisturbedStep
  DEF HandleCallbackTask, HandleFailedAddTask, HandleWorkerStatus, connVars
<1>7. CASE InsertWorker(c) \/ UpdateStatus(c)
  BY <1>7, UndisturbedStep DEF InsertWorker, UpdateStatus, wireVars, Undisturbed
<1>5. CASE ReadError(c)
  <2> DEFINE w == dialer[c]
  <2>1. /\ UNCHANGED dialer
        /\ toManager' = [toManager EXCEPT ![c] = <<>>]
        /\ \A d \in Conns : wire'[d] = "unused" => wire[d] = "unused"
    BY <1>5 DEF ReadError, Break
  <2>2. UnusedAreSilent'
    BY <2>1
  <2>3. CASE reader[c] = "anonymous"
    <3>1. UNCHANGED <<sock, wire>> /\ reader' = [reader EXCEPT ![c] = "closed"]
      BY <1>5, <2>3 DEF ReadError
    <3> QED
      BY <2>1, <2>2, <2>3, <3>1
  <2>4. CASE reader[c] # "anonymous"
    <3>1. sock' = [sock EXCEPT ![w] = NoConn] /\ reader' = [reader EXCEPT ![c] = "down"]
      BY <1>5, <2>4 DEF ReadError
    <3>2. \A v \in Workers : sock'[v] # NoConn => sock'[v] = sock[v] /\ sock[v] # c
      BY <3>1
    <3> QED
      BY <2>1, <2>2, <3>1, <3>2
  <2> QED
    BY <2>3, <2>4
<1>6. CASE MarkDown(c) \/ RequeueLost(c)
  <2>1. /\ UNCHANGED <<sock, wireVars>>
        /\ reader[c] # "reading"
        /\ \A d \in Conns : d # c => reader'[d] = reader[d]
    BY <1>6 DEF MarkDown, RequeueLost
  <2> QED
    BY <2>1 DEF wireVars
<1> QED
  BY <1>2, <1>3, <1>4, <1>5, <1>6, <1>7 DEF Reader

\* ... as does every other step of the manager ...
LEMMA ManagerSockets ==
    ASSUME TypeInv, SocketInv, ManagerNext
    PROVE  SocketInv'
<1>1. CASE UNCHANGED <<connVars, wire, dialer, toManager>>
  BY <1>1, UndisturbedStep DEF Undisturbed, connVars
<1>2. CASE Dispatch
  BY <1>1, <1>2 DEF Dispatch, ReadTasks, ReadWorkers, NextWorkers, NextTask, Pick, Send,
     SendFails, Mark, wireVars
<1>3. CASE \E x \in Callers : RmWorkerName(x)
  BY <1>1, <1>3 DEF RmWorkerName, RmDelete, RmRequeue, RmClear, wireVars
<1>4. CASE VerifyForget
  <2>1. /\ UNCHANGED <<reader, wire, dialer, toManager>>
        /\ sock' = [sock EXCEPT ![vfy.worker] = NoConn]
    BY <1>4 DEF VerifyForget, wireVars
  <2> QED
    BY <2>1, SocketTypes DEF SocketInv, SocketHasReader, SocketsAreUsed, UnusedAreSilent
<1>5. CASE Verify
  BY <1>1, <1>4, <1>5 DEF Verify, VerifyDown, VerifyCount, VerifyOrphan, Poll, VerifyMissing, wireVars,
     managerVars
<1>6. CASE \/ \E t \in Tasks : HandleTaskPost(t) \/ HandleTaskDelete(t)
           \/ \E w \in Workers : HandleWorkerDelete(w) \/ HandleWorkerPost(w)
           \/ HistoryCount \/ HistoryDelete
  BY <1>1, <1>6 DEF HandleTaskPost, PostTask, PostCheck, PostInsert, HandleTaskDelete,
     DeleteRead, DeleteSend, DeleteSent, DeleteMark, HandleWorkerDelete, HandleWorkerPost,
     HistoryCount, HistoryDelete, wireVars, managerVars
<1>7. CASE ManagerRestart
  <2>1. /\ sock' = [w \in Workers |-> NoConn]
        /\ toManager' = [c \in Conns |-> <<>>]
    BY <1>7 DEF ManagerRestart
  <2> QED
    BY <2>1 DEF SocketInv, SocketHasReader, SocketsAreUsed, UnusedAreSilent
<1> QED
  BY <1>2, <1>3, <1>5, <1>6, <1>7, ReaderSockets DEF ManagerNext

\* ... and every step of a worker, though it creates connections and breaks them.
LEMMA WorkerSockets ==
    ASSUME TypeInv, SocketInv, WorkerNext, UNCHANGED <<storeVars, managerVars>>
    PROVE  SocketInv'
<1>0. UNCHANGED <<sock, reader>>
  BY DEF managerVars, connVars
<1>1. CASE Undisturbed
  BY <1>0, <1>1, UndisturbedStep
<1>2. CASE UNCHANGED <<wire, dialer, toManager>>
  BY <1>1, <1>2 DEF Undisturbed
<1>3. CASE \E w \in Workers : CreateConnection(w)
  <2>1. PICK w \in Workers, c \in Conns : Dial(w, c, AddWorkerMsg)
    BY <1>3 DEF CreateConnection
  <2>2. /\ wire[c] = "unused" /\ wire' = [wire EXCEPT ![c] = "open"]
        /\ dialer' = [dialer EXCEPT ![c] = w]
        /\ toManager' = [toManager EXCEPT ![c] = <<AddWorkerMsg>>]
    BY <2>1 DEF Dial
  <2>3. Undisturbed
    BY <2>2, SocketTypes DEF Undisturbed
  <2> QED
    BY <1>1, <2>3
<1>4. CASE \E w \in Workers : GetMessage(w)
  <2>1. PICK w \in Workers : GetMessage(w)
    BY <1>4
  <2>2. CASE AcceptTask(w) \/ MessageDeleteTask(w)
    BY <1>2, <2>2 DEF AcceptTask, MessageDeleteTask, Read
  <2>3. CASE RefuseTask(w) \/ MessageStatusTask(w)
    BY <1>1, <2>3, UndisturbedStep DEF RefuseTask, MessageStatusTask, Read, Reply
  <2>4. CASE MessageDeleteTaskKillsWorker(w)
    <3>1. /\ wire' = [wire EXCEPT ![conn[w]] = "broken"] /\ UNCHANGED <<dialer, toManager>>
      BY <2>4 DEF MessageDeleteTaskKillsWorker, Die, Break, Read
    <3> QED
      BY <1>1, <3>1, SocketTypes DEF Undisturbed
  <2> QED
    BY <2>1, <2>2, <2>3, <2>4 DEF GetMessage
<1>5. CASE \E w \in Workers : Crash(w) \/ Stop(w)
  <2>1. PICK w \in Workers : Crash(w) \/ Stop(w)
    BY <1>5
  <2>2. /\ wire' = [wire EXCEPT ![conn[w]] = "broken"] /\ UNCHANGED dialer
        /\ \/ UNCHANGED toManager
           \/ toManager' = Written(toManager, conn[w], DeleteWorkerMsg)
    BY <2>1 DEF Crash, Stop, Die, Break, Reply
  <2>3. \A c \in Conns : wire[c] = "unused" => toManager'[c] = toManager[c]
    BY <2>2, SocketTypes DEF Written
  <2> QED
    BY <1>1, <2>2, <2>3, SocketTypes DEF Undisturbed
<1>6. CASE \E r \in DOMAIN runs : RunStep(r)
  <2>1. PICK r \in DOMAIN runs : RunStep(r)
    BY <1>6
  <2>2. CASE Report(r)
    BY <1>1, <2>2, UndisturbedStep DEF Report, Reply
  <2>3. CASE ~Report(r)
    BY <1>2, <2>1, <2>3 DEF RunStep, RunFails, StartCommand, Spawn, CleanUp, Timeout, Exit,
       wireVars
  <2> QED
    BY <2>2, <2>3
<1> QED
  BY <1>3, <1>4, <1>5, <1>6 DEF WorkerNext

\* Every websocket the manager keeps is the worker's own and is being read, so the
\* loss of a worker is always noticed (SocketHasReader, NTask.tla).
THEOREM SocketsAreRead == Spec => [](SocketInv /\ SocketHasReader)
<1>1. Init => SocketInv
  BY DEF Init, ManagerInit, WireInit, SocketInv, SocketHasReader, SocketsAreUsed,
     UnusedAreSilent, NoConn
<1>2. TypeInv /\ SocketInv /\ [Next]_vars => SocketInv'
  <2> SUFFICES ASSUME TypeInv, SocketInv, [Next]_vars  PROVE SocketInv'
    OBVIOUS
  <2>1. CASE \E c \in Conns : Cut(c)
    <3>1. PICK c \in Conns : Cut(c)
      BY <2>1
    <3>2. /\ wire' = [wire EXCEPT ![c] = "broken"]
          /\ UNCHANGED <<dialer, toManager, sock, reader>>
      BY <3>1 DEF Cut, Break, managerVars, connVars
    <3>3. Undisturbed
      BY <3>2, SocketTypes DEF Undisturbed
    <3> QED
      BY <3>2, <3>3, UndisturbedStep
  <2>2. CASE UNCHANGED vars
    BY <2>2, UndisturbedStep DEF vars, wireVars, managerVars, connVars, Undisturbed
  <2> QED
    BY <2>1, <2>2, ManagerSockets, WorkerSockets DEF Next
<1>3. Spec => [](TypeInv /\ SocketInv)
  BY <1>1, <1>2, TypeInit, TypeStep, PTL DEF Spec
<1>4. SocketInv => SocketHasReader
  BY DEF SocketInv
<1> QED
  BY <1>3, <1>4, PTL
=============================================================================
