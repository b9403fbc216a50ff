----------------------------- MODULE OnceProofs -----------------------------
(***************************************************************************)
(* Without failures no task is executed twice.  A task has one copy at     *)
(* most: a message that carries it, a refusal on its way back, or a run;   *)
(* reading the message turns it into one of the other two.  The dispatcher *)
(* makes a new copy only when claimed does not hold, and claimed is only   *)
(* taken back when the copy is gone: by the refusal that ended it, or when *)
(* a task that was done is trimmed before the dispatcher has marked it.    *)
(***************************************************************************)
EXTENDS QueueProofs

\* A message that carries t to a worker, or the refusal that brings it back.
Token(m, t) == m.type \in {"addTask", "FAILED;addTask"} /\ m.task = t

Free(q, t) == \A c \in Conns : \A i \in DOMAIN q[c] : ~Token(q[c][i], t)

Single(q, t) ==
    \A c, d \in Conns : \A i \in DOMAIN q[c], j \in DOMAIN q[d] :
        Token(q[c][i], t) /\ Token(q[d][j], t) => c = d /\ i = j

NotRun(t)  == \A r \in DOMAIN runs : runs[r].task # t
RunOnce(t) == \A r, s \in DOMAIN runs : runs[r].task = t /\ runs[s].task = t => r = s

NoCopy(t) == Free(toWorker, t) /\ Free(toManager, t) /\ NotRun(t)

OneCopy(t) ==
    /\ Single(toWorker, t) /\ Single(toManager, t) /\ RunOnce(t)
    /\ Free(toWorker, t) \/ (Free(toManager, t) /\ NotRun(t))
    /\ Free(toManager, t) \/ NotRun(t)

\* The row is gone for ever, and the dispatcher has tried its copy, if it has one.
Over(t) ==
    /\ taskStatus[t] = "trimmed"
    /\ \A i \in DOMAIN batch : batch[i].id = t =>
          i = 1 /\ dpc = "pick" /\ \A w \in todo : ~Matches(w)

Once(t) ==
    /\ OneCopy(t)
    /\ taskStatus[t] = "absent" => NoCopy(t)
    /\ NoCopy(t) \/ claimed[t] \/ Over(t)

\* Where nothing fails, nothing is lost, removed or put back.
NothingBroken ==
    \A c \in Conns : wire[c] # "broken" /\ reader[c] \in {"anonymous", "reading"}

NobodyLeaves == \A c \in Conns : \A m \in On(toManager, c) : m.type # "deleteWorker"

NothingRemoved == vfy = Idle /\ \A x \in Callers : rm[x] = Idle

KnownHaveSockets ==
    /\ \A w \in Workers : workerRow[w] => sock[w] # NoConn
    /\ \A c \in Conns : busy[c].pc = "add" =>
          wire[c] # "unused" /\ sock[dialer[c]] # NoConn

NoDeletions ==
    Deletable = {} =>
        /\ \A t \in Tasks : del[t] = Idle
        /\ \A c \in Conns : \A m \in On(toWorker, c) : m.type # "deleteTask"

NothingFails ==
    NothingBroken /\ NobodyLeaves /\ NothingRemoved /\ KnownHaveSockets /\ NoDeletions

OnceInv == NothingFails /\ \A t \in Tasks : Once(t)

\* What a change of the queues keeps for task t.
Kept(q, p, t) == (Free(q, t) => Free(p, t)) /\ (Single(q, t) => Single(p, t))

\* How copies move: a write adds at most one, a read takes the first, and what is
\* lost is lost.
LEMMA TokensMove ==
    ASSUME NEW S, NEW q \in [Conns -> Seq(S)], NEW t
    PROVE  /\ \A c, m :
                 /\ ~Token(m, t) => Kept(q, Written(q, c, m), t)
                 /\ Free(q, t) => Single(Written(q, c, m), t)
           /\ \A c \in Conns : q[c] # <<>> =>
                 /\ Kept(q, Consumed(q, c), t)
                 /\ Token(Head(q[c]), t) =>
                       ~Free(q, t) /\ (Single(q, t) => Free(Consumed(q, c), t))
           /\ \A p : (\A c \in Conns : p[c] = q[c] \/ \A i \in DOMAIN p[c] : ~Token(p[c][i], t))
                     => Kept(q, p, t)
<1>1. ASSUME NEW p, \A c \in Conns : p[c] = q[c] \/ \A i \in DOMAIN p[c] : ~Token(p[c][i], t)
      PROVE  Kept(q, p, t)
  BY <1>1 DEF Kept, Free, Single
<1>2. ASSUME NEW c, NEW m
      PROVE  /\ ~Token(m, t) => Kept(q, Written(q, c, m), t)
             /\ Free(q, t) => Single(Written(q, c, m), t)
  <2> DEFINE p == Written(q, c, m)
  <2>1. CASE p = q
    BY <2>1 DEF Kept, Free, Single
  <2>2. CASE c \in Conns /\ p = [q EXCEPT ![c] = Append(@, m)]
    <3> DEFINE n == Len(q[c]) + 1
    <3>1. q[c] \in Seq(S)
      BY <2>2
    <3>2. /\ p[c] = Append(q[c], m)
          /\ \A d \in Conns : d # c => p[d] = q[d]
      BY <2>2
    <3>3. /\ DOMAIN p[c] = DOMAIN q[c] \union {n} /\ p[c][n] = m
          /\ \A i \in DOMAIN q[c] : p[c][i] = q[c][i]
      BY <3>1, <3>2
    <3> HIDE DEF p, n
    <3>4. \A d \in Conns : \A i \in DOMAIN p[d] :
             \/ i \in DOMAIN q[d] /\ p[d][i] = q[d][i]
             \/ d = c /\ i = n /\ p[d][i] = m
      BY <3>2, <3>3
    <3>5. ~Token(m, t) => Kept(q, p, t)
      BY <3>4 DEF Kept, Free, Single
    <3>6. Free(q, t) => Single(p, t)
      BY <3>4 DEF Free, Single
    <3> QED
      BY <3>5, <3>6 DEF p
  <2>3. p = q \/ (c \in Conns /\ p = [q EXCEPT ![c] = Append(@, m)])
    BY DEF Written
  <2> QED
    BY <2>1, <2>2, <2>3
<1>3. ASSUME NEW c \in Conns, q[c] # <<>>
      PROVE  /\ Kept(q, Consumed(q, c), t)
             /\ Token(Head(q[c]), t) =>
                   ~Free(q, t) /\ (Single(q, t) => Free(Consumed(q, c), t))
  <2> DEFINE p == Consumed(q, c)
  <2>1. q[c] \in Seq(S)
    OBVIOUS
  <2>2. /\ Head(q[c]) = q[c][1] /\ 1 \in DOMAIN q[c]
        /\ \A i \in DOMAIN Tail(q[c]) :
              i \in Nat \ {0} /\ i + 1 \in DOMAIN q[c] /\ Tail(q[c])[i] = q[c][i + 1]
    BY <1>3, <2>1
  <2>3. p[c] = Tail(q[c]) /\ \A d \in Conns : d # c => p[d] = q[d]
    BY DEF Consumed
  <2> HIDE DEF p
  <2>4. ASSUME Free(q, t), NEW d \in Conns, NEW i \in DOMAIN p[d]  PROVE ~Token(p[d][i], t)
    <3>1. CASE d = c
      BY <2>2, <2>3, <2>4, <3>1 DEF Free
    <3> QED
      BY <2>3, <2>4, <3>1 DEF Free
  <2>5. Single(q, t) => Single(p, t)
    <3> SUFFICES ASSUME Single(q, t), NEW d \in Conns, NEW e \in Conns,
                        NEW i \in DOMAIN p[d], NEW j \in DOMAIN p[e],
                        Token(p[d][i], t), Token(p[e][j], t)
                 PROVE  d = e /\ i = j
      BY DEF Single
    <3> DEFINE x == IF d = c THEN i + 1 ELSE i
               y == IF e = c THEN j + 1 ELSE j
    <3>1. x \in DOMAIN q[d] /\ p[d][i] = q[d][x]
      BY <2>2, <2>3
    <3>2. y \in DOMAIN q[e] /\ p[e][j] = q[e][y]
      BY <2>2, <2>3
    <3>3. d = e /\ x = y
      BY <3>1, <3>2 DEF Single
    <3>4. CASE d = c
      BY <2>2, <2>3, <3>3, <3>4
    <3> QED
      BY <3>3, <3>4
  <2>6. ASSUME Token(Head(q[c]), t)  PROVE ~Free(q, t) /\ (Single(q, t) => Free(p, t))
    <3>1. ~Free(q, t)
      BY <2>2, <2>6 DEF Free
    <3>2. ASSUME Single(q, t), NEW d \in Conns, NEW i \in DOMAIN p[d]
          PROVE  ~Token(p[d][i], t)
      <4>1. CASE d = c
        <5>1. /\ i \in Nat \ {0} /\ i + 1 \in DOMAIN q[c] /\ p[c][i] = q[c][i + 1]
              /\ i + 1 # 1
          BY <2>2, <2>3, <3>2, <4>1
        <5> QED
          BY <2>2, <2>6, <3>2, <4>1, <5>1 DEF Single
      <4>2. CASE d # c
        BY <2>2, <2>3, <2>6, <3>2, <4>2 DEF Single
      <4> QED
        BY <4>1, <4>2
    <3> QED
      BY <3>1, <3>2 DEF Free
  <2>7. Free(q, t) => Free(p, t)
    BY <2>4 DEF Free
  <2> QED
    BY <2>5, <2>6, <2>7 DEF p, Kept
<1> QED
  BY <1>1, <1>2, <1>3

\* Where nothing fails, every step leaves it so.
LEMMA NothingFailsStep ==
    ASSUME NoFailures, Inv, NothingFails, [Next]_vars
    PROVE  NothingFails'
<1> USE DEF Inv
<1>0. /\ ~DbMayFail /\ \A x \in FaultKinds : x \notin Faults
      /\ toManager \in [Conns -> Seq(ToManagerMsg)] /\ toWorker \in [Conns -> Seq(ToWorkerMsg)]
  BY DEF NoFailures, DbMayFail, TypeInv, TypeOK, WireTypeOK
<1> USE <1>0
\* The queues.
<1>1. ASSUME \A c \in Conns : \A m \in On(toManager', c) :
                 m \in On(toManager, c) \/ m.type # "deleteWorker"
      PROVE  NobodyLeaves'
  BY <1>1 DEF NothingFails, NobodyLeaves
<1>2. ASSUME \A c \in Conns : \A m \in On(toWorker', c) :
                 m \in On(toWorker, c) \/ m.type # "deleteTask",
             Deletable = {} => UNCHANGED del
      PROVE  NoDeletions'
  BY <1>2 DEF NothingFails, NoDeletions
<1>3. /\ UNCHANGED toManager => NobodyLeaves'
      /\ UNCHANGED <<toWorker, del>> => NoDeletions'
  BY DEF NothingFails, NobodyLeaves, NoDeletions, On
<1>4. ASSUME NEW c, NEW m \in ToManagerMsg, toManager' = Written(toManager, c, m),
             m.type # "deleteWorker"
      PROVE  NobodyLeaves'
  <2>1. CASE c \in Conns
    <3>1. \A d \in Conns : On(Written(toManager, c, m), d) \subseteq
              On(toManager, d) \union (IF d = c /\ wire[c] = "open" THEN {m} ELSE {})
      BY <2>1, CarriesFacts
    <3> QED
      BY <1>1, <1>4, <3>1
  <2>2. CASE c \notin Conns
    <3>1. UNCHANGED toManager
      BY <1>4, <2>2 DEF Written
    <3> QED
      BY <1>3, <3>1
  <2> QED
    BY <2>1, <2>2
<1>5. ASSUME NEW c \in Conns, NEW m \in ToWorkerMsg, toWorker' = Written(toWorker, c, m),
             m.type # "deleteTask", UNCHANGED del
      PROVE  NoDeletions'
  <2>1. \A d \in Conns : On(Written(toWorker, c, m), d) \subseteq
            On(toWorker, d) \union (IF d = c /\ wire[c] = "open" THEN {m} ELSE {})
    BY CarriesFacts
  <2> QED
    BY <1>2, <1>5, <2>1
<1>6. ASSUME NEW c \in Conns, toManager[c] # <<>>, toManager' = Consumed(toManager, c)
      PROVE  NobodyLeaves'
  BY <1>1, <1>6, CarriesFacts
<1>7. ASSUME NEW c \in Conns, toWorker[c] # <<>>, toWorker' = Consumed(toWorker, c), UNCHANGED del
      PROVE  NoDeletions'
  BY <1>2, <1>7, CarriesFacts
\* The rest.
<1>8. ASSUME UNCHANGED <<wire, dialer, reader, sock, busy, vfy, rm, workerRow>>
      PROVE  NothingBroken' /\ NothingRemoved' /\ KnownHaveSockets'
  <2>1. NothingBroken' /\ NothingRemoved'
    BY <1>8 DEF NothingFails, NothingBroken, NothingRemoved
  <2>2. KnownHaveSockets'
    BY <1>8 DEF NothingFails, KnownHaveSockets
  <2> QED
    BY <2>1, <2>2
\* The manager.
<1>9. CASE Dispatch
  <2>1. UNCHANGED <<wire, dialer, reader, sock, busy, vfy, rm, workerRow, del, toManager>>
    BY <1>9 DEF Dispatch, ReadTasks, ReadWorkers, NextWorkers, NextTask, Pick,
       SubtractWorkerIddleThreads1, Send, SendFails, Mark, connVars, loopVars, apiVars,
       storeVars, workerVars, wireVars
  <2>2. CASE UNCHANGED toWorker
    BY <1>3, <1>8, <2>1, <2>2 DEF NothingFails
  <2>3. CASE Send
    <3> DEFINE t == Head(batch).id
    <3>1. dpc = "send" /\ sock[cand] # NoConn
          /\ toWorker' = Written(toWorker, sock[cand], AddTaskMsg(t, cand))
      BY <2>3 DEF Send
    <3>2. t \in Tasks /\ cand \in Workers
      BY <3>1, BatchTyped DEF DispatchInv, CandidateTried
    <3>3. sock[cand] \in Conns
      BY <3>1, <3>2, SocketTypes
    <3>4. AddTaskMsg(t, cand) \in ToWorkerMsg
      BY <3>2, MessagesTyped DEF WorkerNames
    <3>5. AddTaskMsg(t, cand).type # "deleteTask"
      BY DEF AddTaskMsg
    <3> HIDE DEF t
    <3> QED
      BY <1>3, <1>5, <1>8, <2>1, <3>1, <3>3, <3>4, <3>5 DEF NothingFails
  <2> QED
    BY <1>9, <2>2, <2>3 DEF Dispatch, ReadTasks, ReadWorkers, NextWorkers, NextTask, Pick,
       SendFails, Mark, wireVars
<1>10. ASSUME NEW c \in Conns, Reader(c)  PROVE NothingFails'
  <2>1. wire[c] # "broken" /\ reader[c] \in {"anonymous", "reading"}
    BY DEF NothingFails, NothingBroken
  <2>2. ASSUME NEW type, Receive(c, type)
        PROVE  /\ NobodyLeaves' /\ NoDeletions' /\ type # "deleteWorker"
               /\ wire[c] # "unused" /\ dialer[c] \in Workers
               /\ UNCHANGED <<wire, dialer, vfy>>
    <3>1. /\ toManager[c] # <<>> /\ Head(toManager[c]).type = type
          /\ toManager' = Consumed(toManager, c)
          /\ UNCHANGED <<wire, dialer, vfy, toWorker, del>>
      BY <2>2 DEF Receive, loopVars, apiVars
    <3>2. Head(toManager[c]) \in On(toManager, c)
      <4>1. Head(toManager[c]) = toManager[c][1] /\ 1 \in DOMAIN toManager[c]
        BY <3>1
      <4> QED
        BY <4>1 DEF On
    <3>3. type # "deleteWorker"
      BY <3>1, <3>2 DEF NothingFails, NobodyLeaves
    <3>4. wire[c] # "unused" /\ dialer[c] \in Workers
      BY <3>1 DEF SocketInv, UnusedAreSilent, CopyInv, ConnsDialled
    <3> QED
      BY <1>3, <1>6, <3>1, <3>3, <3>4
  <2>3. CASE HandleAddWorker(c)
    <3>1. /\ Receive(c, "addWorker")
          /\ sock' = [sock EXCEPT ![dialer[c]] = c]
          /\ reader' = [reader EXCEPT ![c] = "reading"]
          /\ busy' = [busy EXCEPT ![c] = Handling("add", 0, FALSE)]
          /\ UNCHANGED <<rm, workerRow>>
      BY <2>3 DEF HandleAddWorker, storeVars, workerVars
    <3>2. /\ NobodyLeaves' /\ NoDeletions' /\ wire[c] # "unused" /\ dialer[c] \in Workers
          /\ UNCHANGED <<wire, dialer, vfy>>
      BY <2>2, <3>1
    <3>3. NothingBroken' /\ NothingRemoved'
      BY <3>1, <3>2, SocketTypes DEF NothingFails, NothingBroken, NothingRemoved
    <3>4. \A w \in Workers : sock'[w] # NoConn <=> sock[w] # NoConn \/ w = dialer[c]
      BY <3>1, <3>2, SocketTypes
    <3>5. \A d \in Conns : d # c => busy'[d] = busy[d]
      BY <3>1 DEF TypeInv, TypeOK, ManagerTypeOK, ConnTypeOK
    <3>6. ASSUME NEW d \in Conns, busy'[d].pc = "add"
          PROVE  wire[d] # "unused" /\ sock'[dialer[d]] # NoConn
      <4>1. CASE d = c
        BY <3>2, <3>4, <4>1
      <4>2. CASE d # c
        <5>1. wire[d] # "unused" /\ sock[dialer[d]] # NoConn /\ dialer[d] \in Workers
          BY <3>5, <3>6, <4>2 DEF NothingFails, KnownHaveSockets, CopyInv, ConnsDialled
        <5> QED
          BY <3>4, <5>1
      <4> QED
        BY <4>1, <4>2
    <3>7. KnownHaveSockets'
      BY <3>1, <3>2, <3>4, <3>6 DEF NothingFails, KnownHaveSockets
    <3> QED
      BY <3>2, <3>3, <3>7 DEF NothingFails
  <2>4. CASE InsertWorker(c)
    <3>1. /\ busy[c].pc = "add" /\ busy' = [busy EXCEPT ![c] = NotBusy]
          /\ AddWorker(dialer[c])
          /\ UNCHANGED <<sock, reader, rm, wire, dialer, toWorker, toManager, vfy, del>>
      BY <2>4 DEF InsertWorker, wireVars, loopVars, apiVars
    <3>2. /\ wire[c] # "unused" /\ sock[dialer[c]] # NoConn /\ dialer[c] \in Workers
      BY <3>1 DEF NothingFails, KnownHaveSockets, CopyInv, ConnsDialled
    <3>3. \A w \in Workers : workerRow'[w] => workerRow[w] \/ w = dialer[c]
      BY <3>1, <3>2
      DEF AddWorker, workerVars, TypeInv, TypeOK, StoreTypeOK, WorkerTableTypeOK
    <3>4. \A d \in Conns : busy'[d].pc = "add" => busy[d].pc = "add"
      BY <3>1 DEF TypeInv, TypeOK, ManagerTypeOK, ConnTypeOK, NotBusy, Handling
    <3>5. KnownHaveSockets'
      BY <3>1, <3>2, <3>3, <3>4 DEF NothingFails, KnownHaveSockets
    <3>6. NothingBroken' /\ NothingRemoved'
      BY <3>1 DEF NothingFails, NothingBroken, NothingRemoved
    <3> QED
      BY <1>3, <3>1, <3>5, <3>6 DEF NothingFails
  <2>5. CASE \/ HandleCallbackTask(c) \/ HandleFailedAddTask(c)
    <3>1. /\ Receive(c, "callbackTask") \/ Receive(c, "FAILED;addTask")
          /\ UNCHANGED <<sock, reader, busy, rm, workerRow>>
      BY <2>5 DEF HandleCallbackTask, HandleFailedAddTask, connVars, workerVars
    <3> QED
      BY <1>8, <2>2, <3>1 DEF NothingFails
  <2>6. CASE HandleWorkerStatus(c)
    <3>0. /\ Receive(c, "status") /\ UNCHANGED <<sock, reader, rm, workerRow>>
          /\ \/ UNCHANGED busy
             \/ \E n, differs : busy' = [busy EXCEPT ![c] = Handling("status", n, differs)]
      BY <2>6 DEF HandleWorkerStatus, storeVars, workerVars
    <3>1. \A d \in Conns : busy'[d].pc = "add" => busy[d].pc = "add"
      <4>1. ASSUME NEW n, NEW differs, busy' = [busy EXCEPT ![c] = Handling("status", n, differs)],
                   NEW d \in Conns
            PROVE  busy'[d].pc = "add" => busy[d].pc = "add"
        <5>1. Handling("status", n, differs).pc = "status"
          BY DEF Handling
        <5>2. busy'[d] = IF d = c THEN Handling("status", n, differs) ELSE busy[d]
          BY <4>1 DEF TypeInv, TypeOK, ManagerTypeOK, ConnTypeOK
        <5> QED
          BY <5>1, <5>2
      <4> QED
        BY <3>0, <4>1
    <3>2. KnownHaveSockets' /\ NothingBroken' /\ NothingRemoved'
      BY <2>2, <3>0, <3>1
      DEF NothingFails, NothingBroken, NothingRemoved, KnownHaveSockets
    <3> QED
      BY <2>2, <3>0, <3>2 DEF NothingFails
  <2>7. CASE UpdateStatus(c)
    <3>1. /\ UNCHANGED <<sock, reader, rm, workerRow, wire, dialer, toWorker, toManager, vfy, del>>
          /\ \A d \in Conns : busy'[d].pc = "add" => busy[d].pc = "add"
      BY <2>7 DEF UpdateStatus, SetWorkerStatus, wireVars, loopVars, apiVars, NotBusy, Handling,
         TypeInv, TypeOK, ManagerTypeOK, ConnTypeOK
    <3>2. KnownHaveSockets' /\ NothingBroken' /\ NothingRemoved'
      BY <3>1 DEF NothingFails, NothingBroken, NothingRemoved, KnownHaveSockets
    <3> QED
      BY <1>3, <3>1, <3>2 DEF NothingFails
  <2>8. ~HandleDeleteWorker(c)
    BY <2>2 DEF HandleDeleteWorker
  <2>9. ~(ReadError(c) \/ MarkDown(c) \/ RequeueLost(c))
    BY <2>1 DEF ReadError, MarkDown, RequeueLost
  <2> QED
    BY <1>10, <2>3, <2>4, <2>5, <2>6, <2>7, <2>8, <2>9 DEF Reader
<1>11. ASSUME NEW x \in Callers, RmWorkerName(x)  PROVE FALSE
  BY <1>11 DEF RmWorkerName, RmDelete, RmRequeue, RmClear, Idle, NothingFails, NothingRemoved
<1>12. CASE Verify
  <2>1. PICK w \in Workers : Poll(w)
    <3>1. ~(VerifyForget \/ VerifyDown \/ VerifyCount \/ VerifyOrphan)
      BY DEF VerifyForget, VerifyDown, VerifyCount, VerifyOrphan, Idle, NothingFails,
         NothingRemoved
    <3>2. \A w \in Workers : ~VerifyMissing(w)
      BY DEF VerifyMissing, NothingFails, KnownHaveSockets
    <3> QED
      BY <1>12, <3>1, <3>2 DEF Verify
  <2>2. /\ toWorker' = Written(toWorker, sock[w], StatusRequest) /\ sock[w] \in Conns
        /\ UNCHANGED <<wire, dialer, reader, sock, busy, vfy, rm, workerRow, del, toManager>>
    BY <2>1, SocketTypes
    DEF Poll, managerVars, connVars, loopVars, apiVars, storeVars, workerVars
  <2>3. StatusRequest \in ToWorkerMsg /\ StatusRequest.type # "deleteTask"
    BY DEF ToWorkerMsg, StatusRequest
  <2> QED
    BY <1>3, <1>5, <1>8, <2>2, <2>3 DEF NothingFails
<1>13. ASSUME NEW t \in Tasks, HandleTaskPost(t)  PROVE NothingFails'
  <2>1. UNCHANGED <<wire, dialer, reader, sock, busy, vfy, rm, workerRow, del, toManager, toWorker>>
    BY <1>13 DEF HandleTaskPost, PostTask, PostCheck, PostInsert, managerVars, connVars,
       loopVars, apiVars, storeVars, workerVars, wireVars
  <2> QED
    BY <1>3, <1>8, <2>1 DEF NothingFails
<1>14. ASSUME NEW t \in Tasks, HandleTaskDelete(t)  PROVE NothingFails'
  <2>1. UNCHANGED <<wire, dialer, reader, sock, busy, vfy, rm, workerRow, toManager>>
    BY <1>14 DEF HandleTaskDelete, DeleteRead, DeleteSend, DeleteSent, DeleteMark, connVars,
       loopVars, storeVars, workerVars, wireVars
  <2>2. Deletable # {}
    BY <1>14 DEF HandleTaskDelete, DeleteRead, DeleteSend, DeleteSent, DeleteMark, Idle,
       NothingFails, NoDeletions
  <2> QED
    BY <1>3, <1>8, <2>1, <2>2 DEF NothingFails, NoDeletions
<1>15. CASE HistoryCount \/ HistoryDelete
  <2>1. UNCHANGED <<wire, dialer, reader, sock, busy, vfy, rm, workerRow, del, toManager, toWorker>>
    BY <1>15 DEF HistoryCount, HistoryDelete, connVars, apiVars, storeVars, workerVars, wireVars
  <2> QED
    BY <1>3, <1>8, <2>1 DEF NothingFails
<1>16. /\ ~ManagerRestart /\ \A c \in Conns : ~Cut(c)
       /\ \A w \in Workers : ~(HandleWorkerDelete(w) \/ HandleWorkerPost(w) \/ Crash(w) \/ Stop(w))
  BY DEF ManagerRestart, Cut, HandleWorkerDelete, HandleWorkerPost, Crash, Stop, FaultKinds
<1>17. CASE UNCHANGED vars
  <2>1. UNCHANGED <<wire, dialer, reader, sock, busy, vfy, rm, workerRow, del, toManager, toWorker>>
    BY <1>17 DEF vars, managerVars, connVars, apiVars, loopVars, storeVars, workerVars, wireVars
  <2> QED
    BY <1>3, <1>8, <2>1 DEF NothingFails
\* The workers.
<1>18. CASE WorkerNext /\ UNCHANGED <<storeVars, managerVars>>
  <2>0. UNCHANGED <<reader, sock, busy, vfy, rm, workerRow, del>>
    BY <1>18 DEF managerVars, connVars, apiVars, loopVars, storeVars, workerVars
  <2>1. ASSUME NEW w \in Workers, CreateConnection(w)  PROVE NothingFails'
    <3>1. PICK c \in Conns : Dial(w, c, AddWorkerMsg)
      BY <2>1 DEF CreateConnection
    <3>2. /\ wire[c] = "unused" /\ wire' = [wire EXCEPT ![c] = "open"]
          /\ dialer' = [dialer EXCEPT ![c] = w]
          /\ toManager' = [toManager EXCEPT ![c] = <<AddWorkerMsg>>]
          /\ \A d \in Conns : toWorker'[d] = toWorker[d] \/ toWorker'[d] = <<>>
      BY <3>1 DEF Dial
    <3>3. NothingBroken' /\ NothingRemoved' /\ KnownHaveSockets'
      BY <2>0, <3>2, SocketTypes
      DEF NothingFails, NothingBroken, NothingRemoved, KnownHaveSockets
    <3>4. NobodyLeaves'
      <4>1. \A d \in Conns : \A m \in On(toManager', d) : m \in On(toManager, d) \/ m = AddWorkerMsg
        BY <3>2 DEF On
      <4> QED
        BY <1>1, <4>1 DEF AddWorkerMsg
    <3>5. NoDeletions'
      <4>1. \A d \in Conns : \A m \in On(toWorker', d) : m \in On(toWorker, d)
        <5>1. \A d \in Conns : toWorker'[d] = toWorker[d] => On(toWorker', d) = On(toWorker, d)
          BY DEF On
        <5>2. \A d \in Conns : toWorker'[d] = <<>> => On(toWorker', d) = {}
          BY CarriesFacts
        <5> QED
          BY <3>2, <5>1, <5>2
      <4> QED
        BY <1>2, <2>0, <4>1
    <3> QED
      BY <3>3, <3>4, <3>5 DEF NothingFails
  <2>2. ASSUME NEW w \in Workers, NEW type, Read(w, type), toWorker' = Consumed(toWorker, conn[w])
        PROVE  NoDeletions' /\ conn[w] \in Conns /\ UNCHANGED dialer
    <3>1. conn[w] \in Conns /\ toWorker[conn[w]] # <<>> /\ UNCHANGED dialer
      BY <2>2, SocketTypes DEF Read, TypeInv, LiveWorkerHasConn
    <3> QED
      BY <1>7, <2>0, <2>2, <3>1
  <2>3. ASSUME NEW w \in Workers, AcceptTask(w) \/ MessageDeleteTask(w)  PROVE NothingFails'
    <3>1. /\ Read(w, "addTask") \/ Read(w, "deleteTask")
          /\ toWorker' = Consumed(toWorker, conn[w]) /\ UNCHANGED <<wire, toManager>>
      BY <2>3 DEF AcceptTask, MessageDeleteTask
    <3> QED
      BY <1>3, <1>8, <2>0, <2>2, <3>1 DEF NothingFails
  <2>4. ASSUME NEW w \in Workers, NEW type, NEW m \in ToManagerMsg, Read(w, type),
               toWorker' = Consumed(toWorker, conn[w]), Reply(w, m), UNCHANGED wire,
               m.type # "deleteWorker"
        PROVE  NothingFails'
    BY <1>4, <1>8, <2>0, <2>2, <2>4 DEF NothingFails, Reply
  <2>5. ASSUME NEW w \in Workers, RefuseTask(w)  PROVE NothingFails'
    <3> DEFINE t == ReadTask(w)
               m == FailedAddTaskMsg(t)
    <3>1. t \in Tasks
      <4>1. /\ conn[w] \in Conns /\ toWorker[conn[w]] # <<>>
            /\ Head(toWorker[conn[w]]).type = "addTask"
        BY <2>5, SocketTypes DEF RefuseTask, Read, TypeInv, LiveWorkerHasConn
      <4>2. Head(toWorker[conn[w]]) \in ToWorkerMsg
        BY <4>1, HeadTailProperties
      <4> QED
        BY <4>1, <4>2, MessageFields DEF ReadTask
    <3>2. m \in ToManagerMsg /\ m.type # "deleteWorker"
      BY <3>1, MessagesTyped DEF FailedAddTaskMsg
    <3> HIDE DEF t
    <3>3. /\ Read(w, "addTask") /\ toWorker' = Consumed(toWorker, conn[w]) /\ Reply(w, m)
          /\ UNCHANGED wire
      BY <2>5 DEF RefuseTask, t
    <3> QED
      BY <2>4, <3>2, <3>3
  <2>6. ASSUME NEW w \in Workers, MessageStatusTask(w)  PROVE NothingFails'
    <3> DEFINE m == StatusMsg(IddleThreads(w))
    <3>1. NobodyLeaves'
      <4>1. toManager' = Written(toManager, conn[w], m)
        BY <2>6 DEF MessageStatusTask, Reply
      <4>2. m.type = "status"
        BY DEF StatusMsg
      <4> HIDE DEF m
      <4>3. \A c \in Conns : \A n \in On(toManager', c) : n \in On(toManager, c) \/ n = m
        BY <4>1 DEF Written, On
      <4> QED
        BY <1>1, <4>2, <4>3
    <3>2. /\ Read(w, "status") /\ toWorker' = Consumed(toWorker, conn[w]) /\ UNCHANGED wire
      BY <2>6 DEF MessageStatusTask
    <3> QED
      BY <1>8, <2>0, <2>2, <3>1, <3>2 DEF NothingFails
  <2>7. ASSUME NEW w \in Workers, MessageDeleteTaskKillsWorker(w)  PROVE FALSE
    <3>1. /\ Read(w, "deleteTask") /\ ~WorkerIsInit
      BY <2>7 DEF MessageDeleteTaskKillsWorker
    <3>2. Deletable = {}
      BY <3>1 DEF NoFailures
    <3>3. conn[w] \in Conns /\ toWorker[conn[w]] # <<>> /\ Head(toWorker[conn[w]]).type = "deleteTask"
      BY <3>1, SocketTypes DEF Read, TypeInv, LiveWorkerHasConn
    <3>4. Head(toWorker[conn[w]]) \in On(toWorker, conn[w])
      <4>1. Head(toWorker[conn[w]]) = toWorker[conn[w]][1] /\ 1 \in DOMAIN toWorker[conn[w]]
        BY <3>3
      <4> QED
        BY <4>1 DEF On
    <3> QED
      BY <3>2, <3>3, <3>4 DEF NothingFails, NoDeletions
  <2>8. ASSUME NEW r \in DOMAIN runs, RunStep(r), ~Report(r)  PROVE NothingFails'
    <3>1. UNCHANGED wireVars
      BY <2>8 DEF RunStep, RunFails, StartCommand, Spawn, CleanUp, Timeout, Exit
    <3> QED
      BY <1>3, <1>8, <2>0, <3>1 DEF wireVars, NothingFails
  <2>9. ASSUME NEW r \in DOMAIN runs, Report(r)  PROVE NothingFails'
    <3> DEFINE m == CallbackMsg(runs[r].task, runs[r].workerName, runs[r].outcome)
    <3>1. m \in ToManagerMsg /\ m.type # "deleteWorker"
      <4>1. /\ runs[r].task \in Tasks /\ runs[r].workerName \in WorkerNames
            /\ runs[r].outcome \in Results
        <5>1. runs[r] \in RunRecord
          BY DEF TypeInv, TypeOK, WorkerTypeOK
        <5> QED
          BY <2>9, <5>1 DEF RunRecord, Report
      <4> QED
        BY <4>1, MessagesTyped DEF CallbackMsg
    <3>2. /\ toManager' = Written(toManager, conn[runs[r].at], m)
          /\ UNCHANGED <<wire, dialer, toWorker>>
      BY <2>9 DEF Report, Reply
    <3> HIDE DEF m
    <3> QED
      BY <1>3, <1>4, <1>8, <2>0, <3>1, <3>2 DEF NothingFails
  <2> QED
    BY <1>16, <1>18, <2>1, <2>3, <2>5, <2>6, <2>7, <2>8, <2>9 DEF WorkerNext, GetMessage
<1> QED
  BY <1>9, <1>10, <1>11, <1>12, <1>13, <1>14, <1>15, <1>16, <1>17, <1>18 DEF Next, ManagerNext

\* What the steps do to the rows, as far as it matters here.
RowsStay ==
    \A t \in Tasks : /\ taskStatus'[t] = "absent" => taskStatus[t] = "absent"
                     /\ taskStatus[t] = "trimmed" => taskStatus'[t] = "trimmed"

SameTasks ==
    DOMAIN runs' = DOMAIN runs /\ \A r \in DOMAIN runs : runs'[r].task = runs[r].task

\* Where nothing fails, no step makes a second copy of a task.
LEMMA OnceStep ==
    ASSUME NoFailures, Inv, OnceInv, RowsStay, [Next]_vars
    PROVE  \A t \in Tasks : Once(t)'
<1> USE DEF Inv
<1>0. /\ ~DbMayFail /\ \A x \in FaultKinds : x \notin Faults
      /\ toManager \in [Conns -> Seq(ToManagerMsg)] /\ toWorker \in [Conns -> Seq(ToWorkerMsg)]
      /\ runs \in Seq(RunRecord) /\ claimed \in [Tasks -> BOOLEAN]
      /\ \A t \in Tasks : Once(t)
  BY DEF NoFailures, DbMayFail, TypeInv, TypeOK, WireTypeOK, WorkerTypeOK, StoreTypeOK,
     TaskTableTypeOK, OnceInv
<1>1. \A r \in DOMAIN runs : runs[r] \in RunRecord
  BY <1>0
\* The copies of a task.
<1>2. ASSUME NEW t \in Tasks, Kept(toWorker, toWorker', t), Kept(toManager, toManager', t),
             NotRun(t) => NotRun(t)', RunOnce(t) => RunOnce(t)'
      PROVE  OneCopy(t)' /\ (NoCopy(t) => NoCopy(t)')
  <2>1. /\ Free(toWorker, t)' <=> Free(toWorker', t)
        /\ Free(toManager, t)' <=> Free(toManager', t)
        /\ Single(toWorker, t)' <=> Single(toWorker', t)
        /\ Single(toManager, t)' <=> Single(toManager', t)
    BY DEF Free, Single
  <2> QED
    BY <1>0, <1>2, <2>1 DEF Once, OneCopy, NoCopy, Kept
<1>3. ASSUME SameTasks
      PROVE  \A t \in Tasks : (NotRun(t) => NotRun(t)') /\ (RunOnce(t) => RunOnce(t)')
  BY <1>3 DEF SameTasks, NotRun, RunOnce
<1>4. /\ \A t \in Tasks : UNCHANGED toWorker => Kept(toWorker, toWorker', t)
      /\ \A t \in Tasks : UNCHANGED toManager => Kept(toManager, toManager', t)
      /\ UNCHANGED runs => SameTasks
  BY DEF Kept, SameTasks
\* A step that leaves the copies of t, what was sent and what is over.
<1>5. ASSUME NEW t \in Tasks, OneCopy(t)', NoCopy(t) => NoCopy(t)',
             claimed[t] => claimed'[t], Over(t) => Over(t)'
      PROVE  Once(t)'
  BY <1>0, <1>5 DEF Once, RowsStay
<1>6. ASSUME UNCHANGED dispVars  PROVE \A t \in Tasks : Over(t) => Over(t)'
  BY <1>6 DEF Over, RowsStay, Matches, dispVars
<1>7. ASSUME \A t \in Tasks : Kept(toWorker, toWorker', t),
             \A t \in Tasks : Kept(toManager, toManager', t), SameTasks,
             \A t \in Tasks : claimed[t] => claimed'[t],
             \A t \in Tasks : Over(t) => Over(t)'
      PROVE  \A t \in Tasks : Once(t)'
  BY <1>2, <1>3, <1>5, <1>7
\* The dispatcher.
<1>8. CASE Dispatch /\ UNCHANGED workerProcVars
  <2>1. UNCHANGED <<toManager, runs, taskStatus>> \/ Mark
    BY <1>8 DEF Dispatch, ReadTasks, ReadWorkers, NextWorkers, NextTask, Pick, Send, SendFails,
       storeVars, taskVars, wireVars, workerProcVars
  <2>2. ASSUME UNCHANGED <<toWorker, toManager, claimed>>, \A t \in Tasks : Over(t) => Over(t)'
        PROVE  \A t \in Tasks : Once(t)'
    BY <1>4, <1>7, <1>8, <2>2 DEF workerProcVars
  \* The batch holds no task that is over, unless it has just been tried.
  <2>3. ASSUME NEW t \in Tasks, Over(t), dpc # "pick"
        PROVE  \A i \in DOMAIN batch : batch[i].id # t
    BY <2>3 DEF Over
  <2>4. ASSUME NEW t \in Tasks, Over(t), \A i \in DOMAIN batch' : batch'[i].id # t
        PROVE  Over(t)'
    BY <2>4 DEF Over, RowsStay
  <2>5. CASE ReadTasks
    <3>1. PICK b \in GetTasksPending(WorkersThreads) :
              batch' = [i \in DOMAIN b |-> [id |-> b[i], worker |-> taskWorker[b[i]]]]
      BY <2>5 DEF ReadTasks
    <3>2. /\ b \in Seq(Tasks)
          /\ \A i \in 1 .. Len(b) : taskStatus[b[i]] = "pending"
      BY PendingBatch DEF TypeInv, TypeOK
    <3>3. \A i \in DOMAIN batch' : taskStatus[batch'[i].id] = "pending"
      BY <3>1, <3>2
    <3>4. \A t \in Tasks : Over(t) => Over(t)'
      BY <2>4, <3>3 DEF Over
    <3> QED
      BY <2>2, <2>5, <3>4 DEF ReadTasks, storeVars, taskVars, wireVars
  <2>6. CASE ReadWorkers \/ NextWorkers
    <3>1. PICK rest : /\ NextTask(rest)
                      /\ \/ dpc = "workers" /\ rest = batch
                         \/ dpc = "pick" /\ rest = Tail(batch)
      BY <2>6 DEF ReadWorkers, NextWorkers
    <3>2. batch \in Seq([id : Tasks, worker : WorkerNames]) /\ batch # <<>>
      BY <3>1 DEF TypeInv, TypeOK, ManagerTypeOK, DispatcherTypeOK, BatchInHand
    <3>3. \A i \in DOMAIN Tail(batch) :
             i \in Nat \ {0} /\ i + 1 \in DOMAIN batch /\ Tail(batch)[i] = batch[i + 1]
      BY <3>2
    <3>4. ASSUME NEW t \in Tasks, Over(t), NEW i \in DOMAIN rest  PROVE rest[i].id # t
      <4>1. CASE rest = batch /\ dpc = "workers"
        BY <2>3, <3>4, <4>1
      <4>2. CASE rest = Tail(batch)
        <5>1. i \in Nat \ {0} /\ i + 1 \in DOMAIN batch /\ rest[i] = batch[i + 1] /\ i + 1 # 1
          BY <3>3, <3>4, <4>2
        <5> QED
          BY <3>4, <5>1 DEF Over
      <4> QED
        BY <3>1, <4>1, <4>2
    <3>5. batch' = <<>> \/ batch' = rest
      BY <3>1 DEF NextTask
    <3>6. \A t \in Tasks : Over(t) => Over(t)'
      BY <2>4, <3>4, <3>5
    <3> QED
      BY <2>2, <3>1, <3>6 DEF NextTask, storeVars, taskVars, wireVars
  <2>7. ASSUME NEW w \in Workers, Pick(w)  PROVE \A t \in Tasks : Once(t)'
    <3>1. /\ w \in todo /\ Matches(w) /\ UNCHANGED <<batch, toWorker, toManager, claimed>>
      BY <2>7 DEF Pick, taskVars, wireVars
    <3>2. \A t \in Tasks : Over(t) => Over(t)'
      BY <2>4, <3>1 DEF Over
    <3> QED
      BY <2>2, <3>1, <3>2
  <2>8. CASE SendFails
    <3>1. dpc # "pick" /\ UNCHANGED <<batch, toWorker, toManager, claimed>>
      BY <2>8 DEF SendFails, storeVars, taskVars, wireVars
    <3> QED
      BY <2>2, <2>3, <2>4, <3>1
  <2>9. CASE Send
    <3>1. PICK s \in Tasks :
             /\ 1 \in DOMAIN batch /\ s = batch[1].id /\ s = Head(batch).id
             /\ ~claimed[s] /\ taskStatus[s] # "absent"
      <4>1. dpc = "send"
        BY <2>9 DEF Send
      <4> QED
        BY <4>1, BatchTyped DEF DispatchInv, FirstUnsent, CopyInv, BatchAllowed
    <3> DEFINE m == AddTaskMsg(s, cand)
    <3>2. /\ dpc = "send"
          /\ toWorker' = Written(toWorker, sock[cand], m)
          /\ claimed' = [claimed EXCEPT ![s] = TRUE]
          /\ batch' = [batch EXCEPT ![1] = [id |-> s, worker |-> cand]]
          /\ UNCHANGED <<toManager, taskStatus>>
      BY <2>9, <3>1 DEF Send
    <3>3. \A t : Token(m, t) <=> t = s
      BY DEF Token, AddTaskMsg
    <3> HIDE DEF m
    <3>4. \A i \in DOMAIN batch' : i \in DOMAIN batch /\ batch'[i].id = batch[i].id
      BY <3>1, <3>2
    <3>5. \A t \in Tasks : Over(t) => Over(t)'
      BY <2>3, <2>4, <3>2, <3>4
    <3>6. NoCopy(s)
      BY <1>0, <2>3, <3>1, <3>2 DEF Once
    <3>7. UNCHANGED runs
      BY <1>8 DEF workerProcVars
    <3>8. Once(s)'
      <4>1. Single(toWorker', s)
        BY <1>0, <3>2, <3>6, TokensMove DEF NoCopy
      <4>2. Single(toWorker, s)' /\ Single(toManager, s)' /\ Free(toManager, s)' /\ NotRun(s)' /\ RunOnce(s)'
        BY <1>0, <3>1, <3>2, <3>6, <3>7, <4>1
        DEF Single, Free, NotRun, RunOnce, NoCopy, Once, OneCopy
      <4>3. claimed'[s] /\ taskStatus'[s] # "absent"
        BY <1>0, <3>1, <3>2
      <4> QED
        BY <4>2, <4>3 DEF Once, OneCopy
    <3>9. ASSUME NEW t \in Tasks, t # s  PROVE Once(t)'
      <4>1. Kept(toWorker, toWorker', t)
        BY <1>0, <3>2, <3>3, <3>9, TokensMove
      <4>2. OneCopy(t)' /\ (NoCopy(t) => NoCopy(t)')
        BY <1>2, <1>3, <1>4, <3>2, <3>7, <4>1
      <4>3. claimed[t] => claimed'[t]
        BY <1>0, <3>2, <3>9
      <4> QED
        BY <1>5, <3>5, <4>2, <4>3
    <3> QED
      BY <3>8, <3>9
  <2>10. CASE Mark
    <3>0. PICK h \in Tasks : h = Head(batch).id /\ h = batch[1].id
      <4>1. dpc = "mark"
        BY <2>10 DEF Mark
      <4> QED
        BY <4>1, BatchTyped
    <3>1. /\ dpc = "mark" /\ dpc' = "pick"
          /\ UNCHANGED <<batch, toWorker, toManager, runs>>
          /\ \/ UNCHANGED claimed
             \/ /\ ~TaskRow(h) /\ claimed' = [claimed EXCEPT ![h] = FALSE] /\ todo' = {}
      BY <1>0, <1>8, <2>10, <3>0 DEF Mark, UpdateTask, TaskFails, wireVars, workerProcVars
    <3>2. /\ taskStatus[h] # "absent"
          /\ \A i \in DOMAIN batch : batch[i].id = h => i = 1
      BY <3>0, <3>1, BatchTyped DEF DispatchInv, DistinctTasks, CopyInv, BatchAllowed
    <3>3. \A t \in Tasks : Over(t) => Over(t)'
      BY <2>3, <2>4, <3>1
    <3>4. CASE UNCHANGED claimed
      BY <2>2, <3>1, <3>3, <3>4
    <3>5. CASE ~TaskRow(h) /\ claimed' = [claimed EXCEPT ![h] = FALSE] /\ todo' = {}
      <4>1. \A t \in Tasks : OneCopy(t)' /\ (NoCopy(t) => NoCopy(t)')
        BY <1>2, <1>3, <1>4, <3>1
      <4>2. ASSUME NEW t \in Tasks, t # h  PROVE Once(t)'
        <5>1. claimed[t] => claimed'[t]
          BY <1>0, <3>5, <4>2
        <5> QED
          BY <1>5, <3>3, <4>1, <5>1
      <4>3. Over(h)'
        <5>1. taskStatus[h] = "trimmed"
          BY <3>2, <3>5 DEF TaskRow
        <5> QED
          BY <3>1, <3>2, <3>5, <5>1 DEF Over, RowsStay
      <4>4. taskStatus'[h] # "absent"
        BY <4>3 DEF Over
      <4> QED
        BY <3>2, <4>1, <4>2, <4>3, <4>4 DEF Once
    <3> QED
      BY <3>1, <3>4, <3>5
  <2> QED
    BY <1>8, <2>5, <2>6, <2>7, <2>8, <2>9, <2>10 DEF Dispatch
\* The rest of the manager.
<1>9. ASSUME \A t \in Tasks : Kept(toWorker, toWorker', t),
             \A t \in Tasks : Kept(toManager, toManager', t),
             UNCHANGED <<dispVars, workerProcVars, claimed>>
      PROVE  \A t \in Tasks : Once(t)'
  BY <1>4, <1>6, <1>7, <1>9 DEF workerProcVars
<1>10. ASSUME NEW c \in Conns, Reader(c), UNCHANGED workerProcVars
       PROVE  \A t \in Tasks : Once(t)'
  <2>1. ASSUME NEW type, Receive(c, type)
        PROVE  /\ toManager[c] # <<>> /\ Head(toManager[c]).type = type
               /\ \A t \in Tasks : Kept(toWorker, toWorker', t)
               /\ \A t \in Tasks : Kept(toManager, toManager', t)
               /\ UNCHANGED <<dispVars, toWorker>> /\ toManager' = Consumed(toManager, c)
    BY <1>0, <1>4, <2>1, TokensMove DEF Receive
  <2>2. CASE HandleAddWorker(c) \/ HandleDeleteWorker(c) \/ HandleCallbackTask(c) \/ HandleWorkerStatus(c)
    <3>1. /\ UNCHANGED claimed
          /\ \/ Receive(c, "addWorker") \/ Receive(c, "deleteWorker")
             \/ Receive(c, "callbackTask") \/ Receive(c, "status")
      BY <2>2 DEF HandleAddWorker, HandleDeleteWorker, HandleCallbackTask, HandleWorkerStatus,
         UpdateTask, storeVars, taskVars
    <3> QED
      BY <1>9, <1>10, <2>1, <3>1
  <2>3. CASE HandleFailedAddTask(c)
    <3>1. Receive(c, "FAILED;addTask")
      BY <2>3 DEF HandleFailedAddTask
    <3>2. PICK s \in Tasks : s = Head(toManager[c]).task
      <4>1. Head(toManager[c]) \in ToManagerMsg
        BY <1>0, <2>1, <3>1, HeadTailProperties
      <4>2. Head(toManager[c]).type = "FAILED;addTask"
        BY <2>1, <3>1
      <4>3. Head(toManager[c]).task \in Tasks
        BY <4>1, <4>2, MessageFields
      <4> QED
        BY <4>3
    <3>3. /\ \A t \in Tasks : t # s => claimed'[t] = claimed[t]
          /\ taskStatus'[s] = taskStatus[s] \/ TaskRow(s)
      BY <1>0, <2>3, <3>2 DEF HandleFailedAddTask, SetTaskStatus, taskVars
    <3>4. Token(Head(toManager[c]), s)
      BY <2>1, <3>1, <3>2 DEF Token
    <3>5. ~Free(toManager, s) /\ (Single(toManager, s) => Free(Consumed(toManager, c), s))
      BY <1>0, <2>1, <3>1, <3>4, TokensMove
    <3>6. Free(toManager', s) /\ Free(toWorker, s) /\ NotRun(s)
      BY <1>0, <2>1, <3>1, <3>5 DEF Once, OneCopy
    <3>7. NoCopy(s)'
      BY <1>10, <2>1, <3>1, <3>6 DEF NoCopy, Free, NotRun, workerProcVars
    <3>8. \A t \in Tasks : OneCopy(t)' /\ (NoCopy(t) => NoCopy(t)')
      BY <1>2, <1>3, <1>4, <1>10, <2>1, <3>1 DEF workerProcVars
    <3>9. ASSUME NEW t \in Tasks, t # s  PROVE Once(t)'
      BY <1>5, <1>6, <2>1, <3>1, <3>3, <3>8, <3>9
    <3> QED
      BY <3>7, <3>8, <3>9 DEF Once
  <2>4. CASE InsertWorker(c) \/ UpdateStatus(c) \/ MarkDown(c)
    <3>1. UNCHANGED <<toWorker, toManager, claimed, dispVars>>
      BY <2>4 DEF InsertWorker, UpdateStatus, MarkDown, taskVars, wireVars
    <3> QED
      BY <1>4, <1>9, <1>10, <3>1
  <2>5. ~ReadError(c) /\ ~RequeueLost(c)
    <3>1. wire[c] # "broken" /\ reader[c] \in {"anonymous", "reading"}
      BY DEF OnceInv, NothingFails, NothingBroken
    <3> QED
      BY <3>1 DEF ReadError, RequeueLost
  <2> QED
    BY <1>10, <2>2, <2>3, <2>4, <2>5 DEF Reader
<1>11. CASE Verify /\ UNCHANGED workerProcVars
  <2>1. ~VerifyOrphan
    BY DEF VerifyOrphan, Idle, OnceInv, NothingFails, NothingRemoved
  <2>2. /\ UNCHANGED <<dispVars, claimed, toManager>>
        /\ \/ UNCHANGED toWorker
           \/ \E w \in Workers : toWorker' = Written(toWorker, sock[w], StatusRequest)
    BY <1>11, <2>1
    DEF Verify, VerifyForget, VerifyDown, VerifyCount, Poll, VerifyMissing, managerVars,
        storeVars, taskVars, wireVars
  <2>3. \A t : ~Token(StatusRequest, t)
    BY DEF Token, StatusRequest
  <2>4. \A t \in Tasks : Kept(toWorker, toWorker', t)
    BY <1>0, <1>4, <2>2, <2>3, TokensMove
  <2> QED
    BY <1>4, <1>9, <1>11, <2>2, <2>4
<1>12. ASSUME NEW s \in Tasks, HandleTaskPost(s), UNCHANGED workerProcVars
       PROVE  \A t \in Tasks : Once(t)'
  <2>1. /\ UNCHANGED <<toWorker, toManager, dispVars>>
        /\ \/ UNCHANGED claimed
           \/ taskStatus[s] = "absent" /\ claimed' = [claimed EXCEPT ![s] = FALSE]
    BY <1>12
    DEF HandleTaskPost, PostTask, PostCheck, PostInsert, AddTask, CopyInv, PostsPending,
        managerVars, storeVars, taskVars, wireVars
  <2>2. CASE UNCHANGED claimed
    BY <1>4, <1>9, <1>12, <2>1, <2>2
  <2>3. CASE taskStatus[s] = "absent" /\ claimed' = [claimed EXCEPT ![s] = FALSE]
    <3>1. \A t \in Tasks : OneCopy(t)' /\ (NoCopy(t) => NoCopy(t)')
      BY <1>2, <1>3, <1>4, <1>12, <2>1 DEF workerProcVars
    <3>2. ASSUME NEW t \in Tasks, t # s  PROVE Once(t)'
      <4>1. claimed[t] => claimed'[t]
        BY <1>0, <2>3, <3>2
      <4> QED
        BY <1>5, <1>6, <2>1, <3>1, <4>1
    <3>3. NoCopy(s)'
      BY <1>0, <2>3, <3>1 DEF Once
    <3> QED
      BY <3>1, <3>2, <3>3 DEF Once
  <2> QED
    BY <2>1, <2>2, <2>3
<1>13. ASSUME NEW s \in Tasks, HandleTaskDelete(s), UNCHANGED workerProcVars
       PROVE  \A t \in Tasks : Once(t)'
  <2>1. /\ UNCHANGED <<toManager, dispVars, claimed>>
        /\ \/ UNCHANGED toWorker
           \/ toWorker' = Written(toWorker, sock[del[s].worker], DeleteTaskMsg(s))
    BY <1>13
    DEF HandleTaskDelete, DeleteRead, DeleteSend, DeleteSent, DeleteMark, SetTaskStatus,
        storeVars, taskVars, wireVars
  <2>2. \A t : ~Token(DeleteTaskMsg(s), t)
    BY DEF Token, DeleteTaskMsg
  <2>3. \A t \in Tasks : Kept(toWorker, toWorker', t)
    BY <1>0, <1>4, <2>1, <2>2, TokensMove
  <2> QED
    BY <1>4, <1>9, <1>13, <2>1, <2>3
<1>14. CASE (HistoryCount \/ HistoryDelete \/ UNCHANGED vars) /\ UNCHANGED workerProcVars
  <2>1. UNCHANGED <<toWorker, toManager, claimed, dispVars>>
    BY <1>14 DEF HistoryCount, HistoryDelete, DeleteRows, vars, managerVars, storeVars, taskVars,
       wireVars
  <2> QED
    BY <1>4, <1>9, <1>14, <2>1
<1>15. ASSUME NEW x \in Callers, RmWorkerName(x)  PROVE FALSE
  BY <1>15 DEF RmWorkerName, RmDelete, RmRequeue, RmClear, Idle, OnceInv, NothingFails,
     NothingRemoved
<1>16. /\ ~ManagerRestart /\ \A c \in Conns : ~Cut(c)
       /\ \A w \in Workers : ~(HandleWorkerDelete(w) \/ HandleWorkerPost(w) \/ Crash(w) \/ Stop(w))
  BY <1>0 DEF ManagerRestart, Cut, HandleWorkerDelete, HandleWorkerPost, Crash, Stop, FaultKinds
\* The workers.
<1>17. CASE WorkerNext /\ UNCHANGED <<storeVars, managerVars>>
  <2>0. UNCHANGED <<claimed, dispVars>>
    BY <1>17 DEF managerVars, storeVars, taskVars
  <2>1. ASSUME NEW t \in Tasks, OneCopy(t)' /\ (NoCopy(t) => NoCopy(t)')  PROVE Once(t)'
    BY <1>5, <1>6, <2>0, <2>1
  <2>2. ASSUME \A t \in Tasks : Kept(toWorker, toWorker', t),
               \A t \in Tasks : Kept(toManager, toManager', t), SameTasks
        PROVE  \A t \in Tasks : Once(t)'
    BY <1>6, <1>7, <2>0, <2>2
  <2>3. ASSUME NEW w \in Workers, CreateConnection(w)  PROVE \A t \in Tasks : Once(t)'
    <3>1. PICK c \in Conns : Dial(w, c, AddWorkerMsg)
      BY <2>3 DEF CreateConnection
    <3>2. /\ \A d \in Conns : toManager'[d] = toManager[d] \/ toManager'[d] = <<AddWorkerMsg>>
          /\ \A d \in Conns : toWorker'[d] = toWorker[d] \/ toWorker'[d] = <<>>
          /\ UNCHANGED runs
      BY <1>0, <2>3, <3>1 DEF Dial, CreateConnection
    <3>3. \A t : ~Token(AddWorkerMsg, t)
      BY DEF Token, AddWorkerMsg
    <3>4. \A t, d : toManager'[d] = <<AddWorkerMsg>> =>
              \A i \in DOMAIN toManager'[d] : ~Token(toManager'[d][i], t)
      BY <3>3
    <3>5. \A t, d : toWorker'[d] = <<>> =>
              \A i \in DOMAIN toWorker'[d] : ~Token(toWorker'[d][i], t)
      OBVIOUS
    <3>6. \A t \in Tasks : Kept(toWorker, toWorker', t)
      BY <1>0, <3>2, <3>5, TokensMove
    <3>7. \A t \in Tasks : Kept(toManager, toManager', t)
      BY <1>0, <3>2, <3>4, TokensMove
    <3> QED
      BY <1>4, <2>2, <3>2, <3>6, <3>7
  <2>4. ASSUME NEW w \in Workers, NEW type, Read(w, type), toWorker' = Consumed(toWorker, conn[w])
        PROVE  /\ conn[w] \in Conns /\ toWorker[conn[w]] # <<>>
               /\ Head(toWorker[conn[w]]).type = type
               /\ Head(toWorker[conn[w]]) \in ToWorkerMsg
               /\ \A t \in Tasks : Kept(toWorker, toWorker', t)
    <3>1. conn[w] \in Conns /\ toWorker[conn[w]] # <<>> /\ Head(toWorker[conn[w]]).type = type
      BY <2>4, SocketTypes DEF Read, TypeInv, LiveWorkerHasConn
    <3>2. Head(toWorker[conn[w]]) \in ToWorkerMsg
      BY <1>0, <3>1, HeadTailProperties
    <3> QED
      BY <1>0, <2>4, <3>1, <3>2, TokensMove
  \* A message that carries s is read: it was the only copy of s.
  <2>5. ASSUME NEW w \in Workers, Read(w, "addTask"), toWorker' = Consumed(toWorker, conn[w]),
               NEW s \in Tasks, s = ReadTask(w)
        PROVE  Free(toWorker', s) /\ Free(toManager, s) /\ NotRun(s) /\ ~NoCopy(s)
    <3>1. Token(Head(toWorker[conn[w]]), s)
      BY <2>4, <2>5 DEF Token, ReadTask
    <3>2. ~Free(toWorker, s) /\ (Single(toWorker, s) => Free(toWorker', s))
      BY <1>0, <2>4, <2>5, <3>1, TokensMove
    <3> QED
      BY <1>0, <3>2 DEF Once, OneCopy, NoCopy
  <2>6. ASSUME NEW w \in Workers, Read(w, "addTask"), toWorker' = Consumed(toWorker, conn[w])
        PROVE  ReadTask(w) \in Tasks
    BY <2>4, <2>6, MessageFields DEF ReadTask
  <2>7. ASSUME NEW w \in Workers, AcceptTask(w)  PROVE \A t \in Tasks : Once(t)'
    <3>1. /\ Read(w, "addTask") /\ toWorker' = Consumed(toWorker, conn[w])
          /\ UNCHANGED toManager
      BY <2>7 DEF AcceptTask
    <3>2. PICK s \in Tasks : s = ReadTask(w)
      BY <2>6, <3>1
    <3>3. PICK run : runs' = Append(runs, run) /\ run.task = s
      BY <2>7, <3>2 DEF AcceptTask, NewRun
    <3> DEFINE last == Len(runs) + 1
    <3>4. /\ DOMAIN runs' = DOMAIN runs \union {last} /\ last \notin DOMAIN runs
          /\ runs'[last].task = s
          /\ \A r \in DOMAIN runs : runs'[r] = runs[r]
      BY <1>0, <3>3
    <3> HIDE DEF last
    <3>5. Free(toWorker', s) /\ Free(toManager, s) /\ NotRun(s) /\ ~NoCopy(s)
      BY <2>5, <3>1, <3>2
    <3>6. OneCopy(s)'
      <4>1. RunOnce(s)'
        BY <3>4, <3>5 DEF NotRun, RunOnce
      <4>2. /\ Free(toWorker, s)' /\ Single(toWorker, s)'
            /\ Free(toManager, s)' /\ Single(toManager, s)'
        BY <3>1, <3>5 DEF Free, Single
      <4> QED
        BY <4>1, <4>2 DEF OneCopy
    <3>7. ASSUME NEW t \in Tasks, t # s  PROVE OneCopy(t)' /\ (NoCopy(t) => NoCopy(t)')
      <4>1. (NotRun(t) => NotRun(t)') /\ (RunOnce(t) => RunOnce(t)')
        BY <3>4, <3>7 DEF NotRun, RunOnce
      <4> QED
        BY <1>2, <1>4, <2>4, <3>1, <4>1
    <3> QED
      BY <2>1, <3>5, <3>6, <3>7
  <2>8. ASSUME NEW w \in Workers, RefuseTask(w)  PROVE \A t \in Tasks : Once(t)'
    <3>1. /\ Read(w, "addTask") /\ toWorker' = Consumed(toWorker, conn[w]) /\ UNCHANGED runs
          /\ toManager' = Written(toManager, conn[w], FailedAddTaskMsg(ReadTask(w)))
      BY <2>8 DEF RefuseTask, Reply, workerProcVars
    <3>2. PICK s \in Tasks : s = ReadTask(w)
      BY <2>6, <3>1
    <3>3. \A t : Token(FailedAddTaskMsg(s), t) <=> t = s
      BY DEF Token, FailedAddTaskMsg
    <3>4. Free(toWorker', s) /\ Free(toManager, s) /\ NotRun(s) /\ ~NoCopy(s)
      BY <2>5, <3>1, <3>2
    <3>5. OneCopy(s)'
      <4>1. Single(toManager', s)
        BY <1>0, <3>1, <3>2, <3>4, TokensMove
      <4>2. /\ Free(toWorker, s)' /\ Single(toWorker, s)' /\ Single(toManager, s)'
            /\ NotRun(s)' /\ RunOnce(s)'
        BY <3>1, <3>4, <4>1 DEF Free, Single, NotRun, RunOnce
      <4> QED
        BY <4>2 DEF OneCopy
    <3>6. ASSUME NEW t \in Tasks, t # s  PROVE OneCopy(t)' /\ (NoCopy(t) => NoCopy(t)')
      <4>1. Kept(toManager, toManager', t)
        BY <1>0, <3>1, <3>2, <3>3, <3>6, TokensMove
      <4> QED
        BY <1>2, <1>3, <1>4, <2>4, <3>1, <4>1
    <3> QED
      BY <2>1, <3>4, <3>5, <3>6
  <2>9. ASSUME NEW w \in Workers, MessageStatusTask(w)  PROVE \A t \in Tasks : Once(t)'
    <3> DEFINE m == StatusMsg(IddleThreads(w))
    <3>1. /\ Read(w, "status") /\ toWorker' = Consumed(toWorker, conn[w]) /\ UNCHANGED runs
          /\ toManager' = Written(toManager, conn[w], m)
      BY <2>9 DEF MessageStatusTask, Reply, workerProcVars
    <3>2. \A t : ~Token(m, t)
      BY DEF Token, StatusMsg
    <3> HIDE DEF m
    <3>3. \A t \in Tasks : Kept(toManager, toManager', t)
      BY <1>0, <3>1, <3>2, TokensMove
    <3> QED
      BY <1>4, <2>2, <2>4, <3>1, <3>3
  <2>10. ASSUME NEW w \in Workers, MessageDeleteTask(w)  PROVE \A t \in Tasks : Once(t)'
    <3>1. /\ Read(w, "deleteTask") /\ toWorker' = Consumed(toWorker, conn[w])
          /\ UNCHANGED toManager /\ (UNCHANGED runs \/ \E K : runs' = KillRuns(K))
      BY <2>10 DEF MessageDeleteTask
    <3>2. SameTasks
      <4>1. ASSUME NEW K, runs' = KillRuns(K)  PROVE SameTasks
        BY <1>1, <4>1 DEF KillRuns, Killed, SameTasks, RunRecord
      <4> QED
        BY <1>4, <3>1, <4>1
    <3> QED
      BY <1>4, <2>2, <2>4, <3>1, <3>2
  <2>11. ASSUME NEW w \in Workers, MessageDeleteTaskKillsWorker(w)  PROVE FALSE
    <3>1. Read(w, "deleteTask") /\ Deletable = {}
      BY <2>11 DEF MessageDeleteTaskKillsWorker, NoFailures
    <3>2. /\ conn[w] \in Conns /\ toWorker[conn[w]] # <<>>
          /\ Head(toWorker[conn[w]]).type = "deleteTask"
      BY <3>1, SocketTypes DEF Read, TypeInv, LiveWorkerHasConn
    <3>3. Head(toWorker[conn[w]]) \in On(toWorker, conn[w])
      <4>1. Head(toWorker[conn[w]]) = toWorker[conn[w]][1] /\ 1 \in DOMAIN toWorker[conn[w]]
        BY <1>0, <3>2
      <4> QED
        BY <4>1 DEF On
    <3> QED
      BY <3>1, <3>2, <3>3 DEF OnceInv, NothingFails, NoDeletions
  <2>12. ASSUME NEW r \in DOMAIN runs, NEW run, SetRun(r, run), run.task = runs[r].task
         PROVE  SameTasks
    BY <1>0, <2>12 DEF SetRun, SameTasks
  <2>13. ASSUME NEW r \in DOMAIN runs, Report(r)  PROVE \A t \in Tasks : Once(t)'
    <3> DEFINE m == CallbackMsg(runs[r].task, runs[r].workerName, runs[r].outcome)
               sent == [runs[r] EXCEPT !.sent = TRUE]
    <3>1. /\ toManager' = Written(toManager, conn[runs[r].at], m)
          /\ SetRun(r, sent) /\ UNCHANGED toWorker
      BY <2>13 DEF Report, Reply
    <3>2. \A t : ~Token(m, t)
      BY DEF Token, CallbackMsg
    <3>3. sent.task = runs[r].task
      BY <1>1 DEF RunRecord
    <3> HIDE DEF m, sent
    <3>4. \A t \in Tasks : Kept(toManager, toManager', t)
      BY <1>0, <3>1, <3>2, TokensMove
    <3> QED
      BY <1>4, <2>2, <2>12, <3>1, <3>3, <3>4
  <2>14. ASSUME NEW r \in DOMAIN runs, RunStep(r), ~Report(r)  PROVE \A t \in Tasks : Once(t)'
    <3>1. UNCHANGED <<toWorker, toManager>>
      BY <2>14 DEF RunStep, RunFails, StartCommand, Spawn, CleanUp, Timeout, Exit, wireVars
    <3>2. ASSUME NEW st, NEW x, NEW n, NEW out,
                 \/ SetRun(r, Ended(runs[r], x))
                 \/ SetRun(r, [runs[r] EXCEPT !.stage = st])
                 \/ SetRun(r, [runs[r] EXCEPT !.stage = st, !.exit = x])
                 \/ SetRun(r, [runs[r] EXCEPT !.stage = st, !.exit = x, !.left = n])
                 \/ SetRun(r, [runs[r] EXCEPT !.outcome = out])
          PROVE  SameTasks
      <4> DEFINE a == Ended(runs[r], x)
                 b == [runs[r] EXCEPT !.stage = st]
                 d == [runs[r] EXCEPT !.stage = st, !.exit = x]
                 e == [runs[r] EXCEPT !.stage = st, !.exit = x, !.left = n]
                 f == [runs[r] EXCEPT !.outcome = out]
      <4>1. /\ a.task = runs[r].task /\ b.task = runs[r].task /\ d.task = runs[r].task
            /\ e.task = runs[r].task /\ f.task = runs[r].task
        BY <1>1 DEF RunRecord, Ended
      <4>2. SetRun(r, a) \/ SetRun(r, b) \/ SetRun(r, d) \/ SetRun(r, e) \/ SetRun(r, f)
        BY <3>2
      <4> HIDE DEF a, b, d, e, f
      <4> QED
        BY <2>12, <4>1, <4>2
    <3>3. SameTasks
      BY <2>14, <3>2 DEF RunStep, RunFails, StartCommand, Spawn, CleanUp, Timeout, Exit
    <3> QED
      BY <1>4, <2>2, <3>1, <3>3
  <2> QED
    BY <1>16, <1>17, <2>3, <2>7, <2>8, <2>9, <2>10, <2>11, <2>13, <2>14 DEF WorkerNext, GetMessage
<1>18. UNCHANGED vars => UNCHANGED workerProcVars
  BY DEF vars
<1> QED
  BY <1>8, <1>10, <1>11, <1>12, <1>13, <1>14, <1>15, <1>16, <1>17, <1>18 DEF Next, ManagerNext

\* Without failures no task is executed twice, whatever is stale and however often
\* workers refuse it (ExecutedOnce, NTask.tla).
THEOREM NoneExecutedTwice == Spec => []ExecutedOnce
<1>1. Init => (NoFailures => OnceInv)
  <2> SUFFICES ASSUME Init  PROVE OnceInv
    OBVIOUS
  <2> USE DEF Init, StoreInit, WireInit, ManagerInit, WorkerInit
  <2>1. \A t \in Tasks : OneCopy(t) /\ NoCopy(t)
    BY DEF OneCopy, NoCopy, Free, Single, NotRun, RunOnce
  <2>2. \A c \in Conns : On(toWorker, c) = {} /\ On(toManager, c) = {}
    BY DEF On
  <2>3. NothingFails
    BY <2>2 DEF NothingFails, NothingBroken, NobodyLeaves, NothingRemoved, KnownHaveSockets,
       NoDeletions, NotBusy, Handling
  <2> QED
    BY <2>1, <2>3 DEF OnceInv, Once
<1>2. ASSUME Inv, [\A t \in Tasks : taskStatus'[t] # taskStatus[t] =>
          \/ taskStatus[t] = "absent" /\ taskStatus'[t] = "pending"
          \/ taskStatus[t] = "done" /\ taskStatus'[t] = "trimmed"
          \/ /\ TaskRow(t)
             /\ \/ taskStatus'[t] \in {"running", "deleted"}
                \/ taskStatus'[t] = "pending" /\ (taskStatus[t] = "running" \/ t \in Refusals)
                \/ \E w \in Workers : <<w, taskStatus'[t]>> \in Outcomes[t]]_vars
      PROVE  RowsStay
  <2>1. CASE UNCHANGED vars
    BY <2>1 DEF vars, storeVars, taskVars, RowsStay
  <2>2. \A t \in Tasks : \A w, st : <<w, st>> \in Outcomes[t] => st # "absent"
    <3>1. Outcomes \in [Tasks -> SUBSET (Workers \X (Results \union {"none"}))]
      BY <1>2, MappedParts DEF Inv
    <3> QED
      BY <3>1 DEF Results
  <2> QED
    BY <1>2, <2>1, <2>2 DEF RowsStay, TaskRow
<1>3. ASSUME Inv, NoFailures => OnceInv, [Next]_vars, RowsStay
      PROVE  (NoFailures => OnceInv)'
  <2>1. NoFailures' <=> NoFailures
    BY DEF NoFailures
  <2>2. ASSUME NoFailures  PROVE OnceInv'
    <3>1. NothingFails'
      BY <1>3, <2>2, NothingFailsStep DEF OnceInv
    <3>2. \A t \in Tasks : Once(t)'
      BY <1>3, <2>2, OnceStep
    <3> QED
      BY <3>1, <3>2 DEF OnceInv
  <2> QED
    BY <2>1, <2>2
<1>4. Inv /\ (NoFailures => OnceInv) => ExecutedOnce
  <2> SUFFICES ASSUME Inv, OnceInv, NEW r \in DOMAIN runs, NEW s \in DOMAIN runs,
                      runs[r].task = runs[s].task
               PROVE  r = s
    BY DEF ExecutedOnce
  <2>1. runs[r].task \in Tasks
    <3>1. runs[r] \in RunRecord
      BY DEF Inv, TypeInv, TypeOK, WorkerTypeOK
    <3> QED
      BY <3>1 DEF RunRecord
  <2> QED
    BY <2>1 DEF OnceInv, Once, OneCopy, RunOnce
<1> QED
  BY <1>1, <1>2, <1>3, <1>4, QueueImplemented, LifecycleKept, PTL DEF Spec, TaskLifecycle
=============================================================================
