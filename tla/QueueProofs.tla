---------------------------- MODULE QueueProofs -----------------------------
(***************************************************************************)
(* The system implements the task queue (ImplementsTaskQueue), keeps a     *)
(* task posted for a worker to that worker (PinRespected) and stores only  *)
(* results that a worker reported (ResultFromExecution).                   *)
(*                                                                         *)
(* The argument has two levels.  QueueInv speaks of the task queue alone,  *)
(* and every step of the queue keeps it.  CopyInv speaks of where the      *)
(* manager and the messages keep copies of what is in the queue: the       *)
(* dispatcher's batch, the worker names in messages and runs, the results  *)
(* on their way.  With both, and with what DispatchProofs and SocketProofs *)
(* show, each step of the system is one of the queue; and what the step    *)
(* does to the queue is what keeps the copies right.                       *)
(***************************************************************************)
EXTENDS DispatchProofs, SocketProofs

\* Task t was posted, and may be given to worker w.
Allowed(t, w) == taskStatus[t] # "absent" /\ pinned[t] \in {NoWorker, w}

NamesPin == \A t \in Tasks : pinned[t] # NoWorker => taskWorker[t] = pinned[t]

HeldByAllowed ==
    \A t \in Tasks : /\ \A w \in Copies[t] : Allowed(t, w)
                     /\ \A w, x : <<w, x>> \in Outcomes[t] => w \in Workers /\ Allowed(t, w)

ResultsReported ==
    \A t \in Tasks : taskStatus[t] \in Results =>
        \E w \in Workers : <<w, taskStatus[t]>> \in Outcomes[t]
                              /\ taskWorker[t] \in {w, NoWorker}

QueueInv == NamesPin /\ HeldByAllowed /\ ResultsReported

\* What no step of the queue undoes: a task stays posted, a pin is only ever
\* cleared, a report is not forgotten.
QueueGrows ==
    \A t \in Tasks :
        /\ taskStatus[t] # "absent" =>
              taskStatus'[t] # "absent" /\ pinned'[t] \in {NoWorker, pinned[t]}
        /\ Outcomes[t] \subseteq Outcomes'[t]

\* Every step of the task queue keeps its invariant.
LEMMA QueueKeeps ==
    ASSUME TaskTableTypeOK, Copies \in [Tasks -> SUBSET Workers], QueueInv,
           Outcomes \in [Tasks -> SUBSET (Workers \X (Results \union {"none"}))],
           [Queue!Next]_(Queue!vars)
    PROVE  QueueInv' /\ QueueGrows
<1> USE DEF TaskTableTypeOK, Queue!Results, Results, Queue!HasRow, Queue!MayGoTo, WorkerNames,
        Queue!Names, Queue!row
<1>1. ASSUME UNCHANGED <<taskStatus, taskWorker, pinned, Outcomes>>,
             \A t \in Tasks : Copies'[t] \subseteq Copies[t]
      PROVE  QueueInv' /\ QueueGrows
  BY <1>1 DEF QueueInv, NamesPin, HeldByAllowed, Allowed, ResultsReported, QueueGrows
<1>2. CASE Queue!Lose \/ \E t \in Tasks : Queue!Refuse(t)
  BY <1>1, <1>2 DEF Queue!Lose, Queue!Refuse, Queue!SomeCopiesLost
<1>3. CASE UNCHANGED Queue!vars \/ \E t \in Tasks : Queue!OfferForgotten(t)
  BY <1>1, <1>3 DEF Queue!vars, Queue!OfferForgotten
\* Steps that change the rows only, and pin no task that was posted before.
<1>4. ASSUME UNCHANGED <<Copies, Outcomes>>, NamesPin', ResultsReported',
             \A t \in Tasks : taskStatus[t] # "absent" =>
                 taskStatus'[t] # "absent" /\ pinned'[t] \in {NoWorker, pinned[t]}
      PROVE  QueueInv' /\ QueueGrows
  BY <1>4 DEF QueueInv, HeldByAllowed, Allowed, QueueGrows
<1>5. ASSUME NEW t \in Tasks, NEW w \in WorkerNames, Queue!Post(t, w)
      PROVE  QueueInv' /\ QueueGrows
  <2>1. NamesPin'
    BY <1>5 DEF Queue!Post, QueueInv, NamesPin
  <2>2. ResultsReported'
    BY <1>5 DEF Queue!Post, QueueInv, ResultsReported
  <2> QED
    BY <1>4, <1>5, <2>1, <2>2 DEF Queue!Post
<1>6. ASSUME NEW t \in Tasks, Queue!Delete(t) \/ Queue!TakeBack(t)
      PROVE  QueueInv' /\ QueueGrows
  <2>1. /\ UNCHANGED <<taskWorker, pinned, Copies, Outcomes>> /\ taskStatus[t] # "absent"
        /\ taskStatus'[t] \in {"deleted", "pending"}
        /\ \A s \in Tasks : s # t => taskStatus'[s] = taskStatus[s]
    BY <1>6 DEF Queue!Delete, Queue!TakeBack, Queue!PutBack
  <2>2. NamesPin' /\ ResultsReported'
    BY <2>1 DEF QueueInv, NamesPin, ResultsReported
  <2> QED
    BY <1>4, <2>1, <2>2
<1>7. ASSUME NEW t \in Tasks, NEW w \in Workers, Queue!Offer(t, w)
      PROVE  QueueInv' /\ QueueGrows
  <2>1. /\ UNCHANGED <<taskStatus, taskWorker, pinned, Outcomes>> /\ Allowed(t, w)
        /\ Copies' \in {Copies, [Copies EXCEPT ![t] = Copies[t] \union {w}]}
    BY <1>7 DEF Queue!Offer, Allowed
  <2>2. \A s \in Tasks : \A v : v \in Copies'[s] => v \in Copies[s] \/ (s = t /\ v = w)
    BY <2>1
  <2> QED
    BY <2>1, <2>2 DEF QueueInv, NamesPin, HeldByAllowed, Allowed, ResultsReported, QueueGrows
<1>8. ASSUME NEW t \in Tasks, NEW w \in Workers, Queue!Start(t, w)
      PROVE  QueueInv' /\ QueueGrows
  <2>1. NamesPin' /\ ResultsReported'
    BY <1>8 DEF Queue!Start, QueueInv, NamesPin, ResultsReported
  <2> QED
    BY <1>4, <1>8, <2>1 DEF Queue!Start
<1>9. ASSUME NEW t \in Tasks, NEW w \in Workers, NEW x \in Results, Queue!Report(t, w, x)
      PROVE  QueueInv' /\ QueueGrows
  <2>1. /\ UNCHANGED <<taskStatus, taskWorker, pinned, Copies>> /\ Allowed(t, w)
        /\ Outcomes' = [Outcomes EXCEPT ![t] = Outcomes[t] \union {<<w, x>>}]
    BY <1>9 DEF Queue!Report, QueueInv, HeldByAllowed
  <2>2. \A s \in Tasks : \A p : p \in Outcomes'[s] <=> p \in Outcomes[s] \/ (s = t /\ p = <<w, x>>)
    BY <2>1
  <2> QED
    BY <2>1, <2>2 DEF QueueInv, NamesPin, HeldByAllowed, Allowed, ResultsReported, QueueGrows
<1>10. ASSUME NEW t \in Tasks, NEW w \in Workers, NEW x \in Results, Queue!Finish(t, w, x)
       PROVE  QueueInv' /\ QueueGrows
  <2>1. /\ UNCHANGED <<pinned, Copies, Outcomes>> /\ taskStatus[t] # "absent"
        /\ <<w, x>> \in Outcomes[t] /\ pinned[t] \in {NoWorker, w}
        /\ taskStatus' = [taskStatus EXCEPT ![t] = x] /\ taskWorker' = [taskWorker EXCEPT ![t] = w]
    BY <1>10 DEF Queue!Finish, QueueInv, HeldByAllowed, Allowed
  <2>2. NamesPin' /\ ResultsReported'
    BY <2>1 DEF QueueInv, NamesPin, ResultsReported
  <2> QED
    BY <1>4, <2>1, <2>2
<1>11. ASSUME NEW w \in WorkerNames, Queue!Requeue(w)  PROVE QueueInv' /\ QueueGrows
  <2>1. NamesPin' /\ ResultsReported'
    BY <1>11 DEF Queue!Requeue, Queue!PutBack, Queue!Running, QueueInv, NamesPin, ResultsReported
  <2> QED
    BY <1>4, <1>11, <2>1 DEF Queue!Requeue, Queue!PutBack
<1>12. ASSUME NEW w \in WorkerNames, Queue!ForgetName(w)  PROVE QueueInv' /\ QueueGrows
  <2>1. NamesPin' /\ ResultsReported'
    BY <1>12 DEF Queue!ForgetName, QueueInv, NamesPin, ResultsReported
  <2> QED
    BY <1>4, <1>12, <2>1 DEF Queue!ForgetName
<1>13. ASSUME NEW T \in SUBSET Tasks, Queue!Trim(T)  PROVE QueueInv' /\ QueueGrows
  <2>1. NamesPin' /\ ResultsReported'
    BY <1>13 DEF Queue!Trim, QueueInv, NamesPin, ResultsReported
  <2> QED
    BY <1>4, <1>13, <2>1 DEF Queue!Trim
<1>14. CASE Queue!Restart
  <2>1. NamesPin' /\ ResultsReported'
    BY <1>14 DEF Queue!Restart, QueueInv, NamesPin, ResultsReported
  <2> QED
    BY <1>4, <1>14, <2>1 DEF Queue!Restart
<1> QED
  BY <1>2, <1>3, <1>5, <1>6, <1>7, <1>8, <1>9, <1>10, <1>11, <1>12, <1>13, <1>14 DEF Queue!Next

-----------------------------------------------------------------------------
(* Where the copies are.                                                   *)

\* The messages queued on connection c.
On(queues, c) == {queues[c][i] : i \in DOMAIN queues[c]}

PostsPending == \A t \in Tasks : post[t] # NoWorker => taskStatus[t] = "absent"

BatchAllowed ==
    \A i \in DOMAIN batch :
        /\ taskStatus[batch[i].id] # "absent"
        /\ pinned[batch[i].id] # NoWorker => batch[i].worker = pinned[batch[i].id]

CandidateMatches == dpc = "send" => Head(batch).worker \in {NoWorker, cand}

MessagesOwn ==
    \A c \in Conns : \A m \in On(toWorker, c) :
        m.type = "addTask" => dialer[c] \in Workers /\ m.worker = dialer[c]

RunsOwn ==
    \A r \in DOMAIN runs :
        runs[r].workerName = runs[r].at /\ (runs[r].sent => runs[r].outcome # "none")

CallbacksReported ==
    \A c \in Conns : \A m \in On(toManager, c) :
        m.type = "callbackTask" => <<m.worker, m.status>> \in Outcomes[m.task]

ConnsDialled ==
    /\ \A c \in Conns : wire[c] # "unused" => dialer[c] \in Workers
    /\ \A w \in Workers : conn[w] # NoConn => dialer[conn[w]] = w /\ wire[conn[w]] # "unused"

UnusedEmpty == \A c \in Conns : wire[c] = "unused" => On(toWorker, c) = {}

CopyInv ==
    /\ PostsPending /\ BatchAllowed /\ CandidateMatches
    /\ MessagesOwn /\ RunsOwn /\ CallbacksReported
    /\ ConnsDialled /\ UnusedEmpty

Inv == TypeInv /\ DispatchInv /\ SocketInv /\ QueueInv /\ CopyInv

\* What the queues of the connections carry after a write, a read or a loss.
LEMMA CarriesFacts ==
    ASSUME NEW S, NEW q \in [Conns -> Seq(S)], NEW m
    PROVE  /\ \A c \in Conns, n \in S :
                  Carries(Written(q, c, n), m) <=> Carries(q, m) \/ (m = n /\ wire[c] = "open")
           /\ \A c \in Conns : q[c] # <<>> =>
                  (Carries(q, m) <=> Carries(Consumed(q, c), m) \/ m = Head(q[c]))
           /\ \A p : (\A c \in Conns : p[c] = q[c] \/ p[c] = <<>>) => (Carries(p, m) => Carries(q, m))
           /\ \A c, d \in Conns : \A n : On(Written(q, c, n), d) \subseteq
                  On(q, d) \union (IF d = c /\ wire[c] = "open" THEN {n} ELSE {})
           /\ \A c, d \in Conns : q[c] # <<>> => On(Consumed(q, c), d) \subseteq On(q, d)
           /\ \A p : \A c \in Conns : p[c] = <<>> => On(p, c) = {}
<1>1. ASSUME NEW c \in Conns, NEW n \in S
      PROVE  Carries(Written(q, c, n), m) <=> Carries(q, m) \/ (m = n /\ wire[c] = "open")
  <2>1. CASE wire[c] # "open"
    BY <2>1 DEF Written
  <2>2. CASE wire[c] = "open"
    <3> DEFINE p == [q EXCEPT ![c] = Append(q[c], n)]
    <3>1. /\ DOMAIN p[c] = DOMAIN q[c] \union {Len(q[c]) + 1}
          /\ \A i \in DOMAIN q[c] : p[c][i] = q[c][i]
          /\ p[c][Len(q[c]) + 1] = n
          /\ \A d \in Conns : d # c => p[d] = q[d]
      <4>1. q[c] \in Seq(S) /\ p[c] = Append(q[c], n)
        OBVIOUS
      <4>2. \A d \in Conns : d # c => p[d] = q[d]
        OBVIOUS
      <4>3. /\ DOMAIN Append(q[c], n) = DOMAIN q[c] \union {Len(q[c]) + 1}
            /\ \A i \in DOMAIN q[c] : Append(q[c], n)[i] = q[c][i]
            /\ Append(q[c], n)[Len(q[c]) + 1] = n
        BY <4>1
      <4> QED
        BY <4>1, <4>2, <4>3
    <3>2. Written(q, c, n) = p
      BY <2>2 DEF Written
    <3> HIDE DEF p
    <3>3. Carries(p, m) <=> Carries(q, m) \/ m = n
      BY <3>1 DEF Carries
    <3> QED
      BY <2>2, <3>2, <3>3
  <2> QED
    BY <2>1, <2>2
<1>2. ASSUME NEW c \in Conns, q[c] # <<>>
      PROVE  Carries(q, m) <=> Carries(Consumed(q, c), m) \/ m = Head(q[c])
  <2> DEFINE p == [q EXCEPT ![c] = Tail(q[c])]
  <2>1. q[c] \in Seq(S) /\ p[c] = Tail(q[c]) /\ (\A d \in Conns : d # c => p[d] = q[d])
    OBVIOUS
  <2>2. /\ Len(q[c]) \in Nat \ {0} /\ DOMAIN q[c] = 1 .. Len(q[c]) /\ Head(q[c]) = q[c][1]
        /\ DOMAIN Tail(q[c]) = 1 .. (Len(q[c]) - 1)
        /\ \A i \in 1 .. (Len(q[c]) - 1) : Tail(q[c])[i] = q[c][i + 1]
    BY <1>2, <2>1
  <2>3. Consumed(q, c) = p
    BY DEF Consumed
  <2> HIDE DEF p
  <2>4. ASSUME Carries(q, m)  PROVE Carries(p, m) \/ m = Head(q[c])
    <3>0. PICK d \in Conns : \E i \in DOMAIN q[d] : q[d][i] = m
      BY <2>4 DEF Carries
    <3>1. PICK i \in DOMAIN q[d] : q[d][i] = m
      BY <3>0
    <3>2. CASE d = c /\ i # 1
      <4>1. i - 1 \in DOMAIN p[c] /\ p[c][i - 1] = m
        BY <2>1, <2>2, <3>1, <3>2
      <4> QED
        BY <4>1 DEF Carries
    <3> QED
      BY <2>1, <2>2, <3>1, <3>2 DEF Carries
  <2>5. ASSUME Carries(p, m)  PROVE Carries(q, m)
    <3>0. PICK d \in Conns : \E i \in DOMAIN p[d] : p[d][i] = m
      BY <2>5 DEF Carries
    <3>1. PICK i \in DOMAIN p[d] : p[d][i] = m
      BY <3>0
    <3>2. CASE d = c
      <4>1. i + 1 \in DOMAIN q[c] /\ q[c][i + 1] = m
        BY <2>1, <2>2, <3>1, <3>2
      <4> QED
        BY <4>1 DEF Carries
    <3> QED
      BY <2>1, <3>1, <3>2 DEF Carries
  <2>6. Carries(q, Head(q[c]))
    BY <2>2 DEF Carries
  <2> QED
    BY <2>3, <2>4, <2>5, <2>6
<1>3. ASSUME NEW p, \A c \in Conns : p[c] = q[c] \/ p[c] = <<>>, Carries(p, m)
      PROVE  Carries(q, m)
  <2>0. PICK c \in Conns : \E i \in DOMAIN p[c] : p[c][i] = m
    BY <1>3 DEF Carries
  <2>1. PICK i \in DOMAIN p[c] : p[c][i] = m
    BY <2>0
  <2>2. DOMAIN <<>> = {}
    OBVIOUS
  <2> QED
    BY <1>3, <2>1, <2>2 DEF Carries
<1>4. ASSUME NEW c \in Conns, NEW d \in Conns, NEW n
      PROVE  On(Written(q, c, n), d) \subseteq
                On(q, d) \union (IF d = c /\ wire[c] = "open" THEN {n} ELSE {})
  <2>1. CASE wire[c] = "open" /\ d = c
    <3>1. Written(q, c, n)[c] = Append(q[c], n) /\ q[c] \in Seq(S)
      BY <2>1 DEF Written
    <3>2. /\ DOMAIN Append(q[c], n) = DOMAIN q[c] \union {Len(q[c]) + 1}
          /\ \A i \in DOMAIN q[c] : Append(q[c], n)[i] = q[c][i]
          /\ Append(q[c], n)[Len(q[c]) + 1] = n
      BY <3>1
    <3> QED
      BY <2>1, <3>1, <3>2 DEF On
  <2>2. CASE ~(wire[c] = "open" /\ d = c)
    <3>1. Written(q, c, n)[d] = q[d]
      BY <2>2 DEF Written
    <3> QED
      BY <3>1 DEF On
  <2> QED
    BY <2>1, <2>2
<1>5. ASSUME NEW c \in Conns, NEW d \in Conns, q[c] # <<>>
      PROVE  On(Consumed(q, c), d) \subseteq On(q, d)
  <2>1. CASE d = c
    <3>1. /\ DOMAIN q[c] = 1 .. Len(q[c]) /\ Len(q[c]) \in Nat \ {0}
          /\ DOMAIN Tail(q[c]) = 1 .. (Len(q[c]) - 1)
          /\ \A i \in 1 .. (Len(q[c]) - 1) : Tail(q[c])[i] = q[c][i + 1] /\ i + 1 \in DOMAIN q[c]
      BY <1>5
    <3>2. Consumed(q, c)[c] = Tail(q[c])
      BY DEF Consumed
    <3> QED
      BY <2>1, <3>1, <3>2 DEF On
  <2>2. CASE d # c
    BY <2>2 DEF On, Consumed
  <2> QED
    BY <2>1, <2>2
<1>6. ASSUME NEW p, NEW c \in Conns, p[c] = <<>>
      PROVE  On(p, c) = {}
  <2>1. DOMAIN <<>> = {}
    OBVIOUS
  <2> QED
    BY <1>6, <2>1 DEF On
<1> QED
  BY <1>1, <1>2, <1>3, <1>4, <1>5, <1>6

\* The parts of the queue's state that come from messages and runs: their types,
\* and when a step leaves them alone or loses some.
LEMMA MappedParts ==
    ASSUME TypeInv
    PROVE  /\ Copies \in [Tasks -> SUBSET Workers] /\ Copies' \in [Tasks -> SUBSET Workers]
           /\ Outcomes \in [Tasks -> SUBSET (Workers \X (Results \union {"none"}))]
           /\ UNCHANGED <<toWorker, runs>> => UNCHANGED Copies
           /\ UNCHANGED runs => UNCHANGED Outcomes
           /\ UNCHANGED toManager => UNCHANGED Refusals
           /\ UNCHANGED <<taskVars, toWorker, toManager, runs>> => UNCHANGED Queue!vars
           /\ (/\ UNCHANGED <<taskVars, Outcomes>> /\ Refusals' \subseteq Refusals
               /\ \A t \in Tasks : Copies'[t] \subseteq Copies[t]) => Queue!Next
<1>1. Copies \in [Tasks -> SUBSET Workers] /\ Copies' \in [Tasks -> SUBSET Workers]
  BY DEF Copies, CopiesOf
<1>2. Outcomes \in [Tasks -> SUBSET (Workers \X (Results \union {"none"}))]
  <2>1. \A r \in DOMAIN runs : runs[r] \in RunRecord
    BY DEF TypeInv, TypeOK, WorkerTypeOK
  <2>2. \A r \in DOMAIN runs : <<runs[r].at, runs[r].outcome>> \in Workers \X (Results \union {"none"})
    BY <2>1 DEF RunRecord
  <2> QED
    BY <2>2 DEF Outcomes, OutcomesOf, RunsOf
<1>3. UNCHANGED <<toWorker, runs>> => UNCHANGED Copies
  BY DEF Copies, CopiesOf, RunsOf, Carries
<1>4. UNCHANGED runs => UNCHANGED Outcomes
  BY DEF Outcomes, OutcomesOf, RunsOf
<1>5. UNCHANGED toManager => UNCHANGED Refusals
  BY DEF Refusals, Carries
<1>6. UNCHANGED <<taskVars, toWorker, toManager, runs>> => UNCHANGED Queue!vars
  BY <1>3, <1>4, <1>5 DEF taskVars, Queue!vars, Queue!row
<1>7. ASSUME UNCHANGED <<taskVars, Outcomes>>, Refusals' \subseteq Refusals,
             \A t \in Tasks : Copies'[t] \subseteq Copies[t]
      PROVE  Queue!Next
  <2>1. Queue!Lose
    BY <1>1, <1>7 DEF Queue!Lose, Queue!SomeCopiesLost, Queue!row, taskVars
  <2> QED
    BY <2>1 DEF Queue!Next
<1> QED
  BY <1>1, <1>2, <1>3, <1>4, <1>5, <1>6, <1>7

-----------------------------------------------------------------------------
(* Every step of the system is one of the queue.                           *)

\* Every step of the dispatcher: a message is an offer, and marking the task starts
\* it.
LEMMA DispatcherMapped ==
    ASSUME Inv, Dispatch, UNCHANGED workerProcVars
    PROVE  [Queue!Next]_(Queue!vars)
<1> USE DEF Inv
<1>0. UNCHANGED runs
  BY DEF workerProcVars
<1>1. CASE UNCHANGED <<taskVars, toWorker, toManager>>
  BY <1>0, <1>1, MappedParts
<1>2. CASE \/ ReadTasks \/ ReadWorkers \/ NextWorkers \/ SendFails \/ \E w \in Workers : Pick(w)
  BY <1>1, <1>2 DEF ReadTasks, ReadWorkers, NextWorkers, NextTask, SendFails, Pick, storeVars, wireVars
<1> DEFINE t == Head(batch).id
<1>3. ASSUME dpc \in {"send", "mark"}
      PROVE  /\ t \in Tasks /\ cand \in Workers /\ taskStatus[t] # "absent"
             /\ pinned[t] \in {NoWorker, cand}
  <2>1. Head(batch) = batch[1] /\ 1 \in DOMAIN batch /\ t \in Tasks
    BY <1>3, BatchTyped, FirstOfBatch
  <2>2. cand \in Workers /\ Head(batch).worker \in {NoWorker, cand}
    BY <1>3 DEF DispatchInv, CandidateTried, CopyInv, CandidateMatches
  <2> QED
    BY <2>1, <2>2 DEF CopyInv, BatchAllowed
<1>4. CASE Send
  <2>1. /\ t \in Tasks /\ cand \in Workers /\ taskStatus[t] # "absent"
        /\ pinned[t] \in {NoWorker, cand} /\ ~claimed[t]
    BY <1>3, <1>4 DEF Send, DispatchInv, FirstUnsent
  <2>2. /\ claimed' = [claimed EXCEPT ![t] = TRUE]
        /\ UNCHANGED <<taskStatus, taskWorker, pinned, toManager>>
        /\ sock[cand] \in Conns
        /\ toWorker' = Written(toWorker, sock[cand], AddTaskMsg(t, cand))
    BY <1>4, <2>1, SocketTypes DEF Send
  <2>3. \A m : Carries(toWorker', m) <=>
                 Carries(toWorker, m) \/ (m = AddTaskMsg(t, cand) /\ wire[sock[cand]] = "open")
    <3>1. toWorker \in [Conns -> Seq(ToWorkerMsg)] /\ AddTaskMsg(t, cand) \in ToWorkerMsg
      BY <2>1, MessagesTyped DEF TypeInv, TypeOK, WireTypeOK, WorkerNames
    <3> HIDE DEF t
    <3>2. ASSUME NEW m
          PROVE  Carries(Written(toWorker, sock[cand], AddTaskMsg(t, cand)), m) <=>
                    Carries(toWorker, m) \/ (m = AddTaskMsg(t, cand) /\ wire[sock[cand]] = "open")
      BY <2>2, <3>1, CarriesFacts
    <3> QED
      BY <2>2, <3>2
  <2> HIDE DEF t
  <2>4. \A s \in Tasks, w \in Workers :
            w \in Copies'[s] <=> w \in Copies[s] \/ (s = t /\ w = cand /\ wire[sock[cand]] = "open")
    <3>1. \A s \in Tasks, w \in Workers : AddTaskMsg(s, w) = AddTaskMsg(t, cand) <=> s = t /\ w = cand
      BY DEF AddTaskMsg
    <3> QED
      BY <1>0, <2>3, <3>1 DEF Copies, CopiesOf, RunsOf
  <2>5. Copies' \in {Copies, [Copies EXCEPT ![t] = Copies[t] \union {cand}]}
    <3>1. Copies \in [Tasks -> SUBSET Workers] /\ Copies' \in [Tasks -> SUBSET Workers]
      BY MappedParts
    <3>2. CASE wire[sock[cand]] # "open"
      <4>1. \A s \in Tasks : Copies'[s] = Copies[s]
        BY <2>4, <3>1, <3>2
      <4> QED
        BY <3>1, <4>1
    <3>3. CASE wire[sock[cand]] = "open"
      <4>1. \A s \in Tasks : Copies'[s] = [Copies EXCEPT ![t] = Copies[t] \union {cand}][s]
        BY <2>1, <2>4, <3>1, <3>3
      <4>2. [Copies EXCEPT ![t] = Copies[t] \union {cand}] \in [Tasks -> SUBSET Workers]
        BY <2>1, <3>1
      <4> QED
        BY <3>1, <4>1, <4>2
    <3> QED
      BY <3>2, <3>3
  <2>6. Queue!Offer(t, cand)
    BY <1>0, <2>1, <2>2, <2>5, MappedParts DEF Queue!Offer, Queue!MayGoTo, Queue!row
  <2> QED
    BY <2>1, <2>6 DEF Queue!Next
<1>5. CASE Mark
  <2>1. t \in Tasks /\ cand \in Workers /\ pinned[t] \in {NoWorker, cand}
    BY <1>3, <1>5 DEF Mark
  <2>2. UNCHANGED <<Copies, Refusals, Outcomes>>
    BY <1>0, <1>5, MappedParts DEF Mark, wireVars
  <2>3. CASE TaskRow(t) /\ UpdateTask(t, "running", cand)
    <3>1. Queue!Start(t, cand)
      BY <2>1, <2>2, <2>3 DEF Queue!Start, Queue!HasRow, Queue!MayGoTo, TaskRow, UpdateTask
    <3> QED
      BY <2>1, <3>1 DEF Queue!Next
  <2>4. CASE claimed' = [claimed EXCEPT ![t] = FALSE] /\ UNCHANGED <<taskStatus, taskWorker, pinned>>
    <3>1. Queue!OfferForgotten(t)
      BY <2>2, <2>4 DEF Queue!OfferForgotten, Queue!row
    <3> QED
      BY <2>1, <3>1 DEF Queue!Next
  <2> QED
    BY <1>5, <2>3, <2>4 DEF Mark
<1> QED
  BY <1>2, <1>4, <1>5 DEF Dispatch

\* Every other step of the manager: results and refusals are those of the messages
\* it reads, and the statements on table task are the queue's own steps.
LEMMA ManagerMapped ==
    ASSUME Inv, ManagerNext, ~Dispatch, UNCHANGED workerProcVars
    PROVE  [Queue!Next]_(Queue!vars)
<1> USE DEF Inv
<1>0. /\ UNCHANGED runs /\ UNCHANGED Outcomes
      /\ TaskTableTypeOK /\ toManager \in [Conns -> Seq(ToManagerMsg)]
      /\ toWorker \in [Conns -> Seq(ToWorkerMsg)]
  BY MappedParts DEF workerProcVars, TypeInv, TypeOK, StoreTypeOK, WireTypeOK
<1>1. CASE UNCHANGED <<taskVars, toWorker, toManager>>
  BY <1>0, <1>1, MappedParts
\* The statements.
<1>2. ASSUME UNCHANGED <<toWorker, toManager>>, NEW w \in WorkerNames, SetTasksWorkerPending(w)
      PROVE  Queue!Next
  <2>1. Queue!Requeue(w)
    BY <1>0, <1>2, MappedParts
    DEF Queue!Requeue, Queue!PutBack, Queue!Running, SetTasksWorkerPending, RunningOn
  <2> QED
    BY <2>1 DEF Queue!Next, Queue!Names, WorkerNames
<1>3. ASSUME UNCHANGED <<toWorker, toManager>>, NEW w \in WorkerNames, ClearWorkerName(w)
      PROVE  Queue!Next
  <2>1. \A t \in Tasks : (IF taskWorker[t] = w THEN NoWorker ELSE pinned[t]) =
                          (IF pinned[t] = w THEN NoWorker ELSE pinned[t])
    BY DEF QueueInv, NamesPin
  <2>2. Queue!ForgetName(w)
    BY <1>0, <1>3, <2>1, MappedParts DEF Queue!ForgetName, ClearWorkerName
  <2> QED
    BY <2>2 DEF Queue!Next, Queue!Names, WorkerNames
<1>4. ASSUME UNCHANGED <<toWorker, toManager>>, NEW t \in Tasks, NEW w \in WorkerNames,
             taskStatus[t] = "absent", AddTask(t, w)
      PROVE  Queue!Next
  <2>1. Queue!Post(t, w)
    BY <1>0, <1>4, MappedParts DEF Queue!Post, AddTask
  <2> QED
    BY <2>1 DEF Queue!Next, Queue!Names, WorkerNames
<1>5. ASSUME UNCHANGED <<toWorker, toManager>>, NEW t \in Tasks,
             TaskRow(t), SetTaskStatus(t, "deleted")
      PROVE  Queue!Next
  <2>1. Queue!Delete(t)
    BY <1>0, <1>5, MappedParts DEF Queue!Delete, Queue!HasRow, TaskRow, SetTaskStatus
  <2> QED
    BY <2>1 DEF Queue!Next
<1>6. ASSUME UNCHANGED <<toWorker, toManager>>, NEW T \in SUBSET DoneTasks, DeleteRows(T)
      PROVE  Queue!Next
  <2>1. Queue!Trim(T) /\ T \in SUBSET Tasks
    BY <1>0, <1>6, MappedParts DEF Queue!Trim, DeleteRows, DoneTasks
  <2> QED
    BY <2>1 DEF Queue!Next
\* The messages.
<1>7. ASSUME NEW c \in Conns, NEW type, Receive(c, type)
      PROVE  /\ Head(toManager[c]) \in ToManagerMsg /\ Head(toManager[c]).type = type
             /\ Carries(toManager, Head(toManager[c]))
             /\ \A m : Carries(toManager, m) <=> Carries(toManager', m) \/ m = Head(toManager[c])
             /\ UNCHANGED toWorker /\ UNCHANGED Copies
             /\ Refusals' \subseteq Refusals
  <2>1. /\ toManager[c] # <<>> /\ toManager' = Consumed(toManager, c)
        /\ Head(toManager[c]).type = type /\ UNCHANGED toWorker
    BY <1>7 DEF Receive
  <2>2. Head(toManager[c]) \in ToManagerMsg
    BY <1>0, <2>1, HeadTailProperties
  <2>3. ASSUME NEW m
        PROVE  Carries(toManager, m) <=> Carries(toManager', m) \/ m = Head(toManager[c])
    BY <1>0, <2>1, CarriesFacts
  <2>4. Refusals' \subseteq Refusals
    BY <2>3 DEF Refusals
  <2> QED
    BY <1>0, <2>1, <2>2, <2>3, <2>4, MappedParts
<1>8. ASSUME NEW c \in Conns, HandleCallbackTask(c)  PROVE Queue!Next
  <2> DEFINE m == Head(toManager[c])
  <2>1. /\ m \in ToManagerMsg /\ m.type = "callbackTask" /\ UNCHANGED Copies
        /\ \A n : Carries(toManager, n) <=> Carries(toManager', n) \/ n = m
        /\ Refusals' \subseteq Refusals
    BY <1>7, <1>8 DEF HandleCallbackTask
  <2>2. <<m.worker, m.status>> \in Outcomes[m.task]
    <3>1. toManager[c] # <<>> /\ toManager[c] \in Seq(ToManagerMsg)
      BY <1>0, <1>8 DEF HandleCallbackTask, Receive
    <3>2. 1 \in DOMAIN toManager[c] /\ m = toManager[c][1]
      BY <3>1
    <3> QED
      BY <2>1, <3>2 DEF CopyInv, CallbacksReported, On
  <2>3. \/ TaskRow(m.task) /\ UpdateTask(m.task, m.status, m.worker)
        \/ UNCHANGED taskVars
    BY <1>8 DEF HandleCallbackTask
  <2> HIDE DEF m
  <2>4. m.task \in Tasks /\ m.status \in Results
    BY <2>1, MessageFields
  <2>5. m.worker \in Workers
    BY <2>2, <2>4 DEF QueueInv, HeldByAllowed
  <2>6. UNCHANGED Refusals
    <3>1. \A t \in Tasks : FailedAddTaskMsg(t).type = "FAILED;addTask"
      BY DEF FailedAddTaskMsg
    <3> QED
      BY <2>1, <3>1 DEF Refusals
  <2>7. CASE TaskRow(m.task) /\ UpdateTask(m.task, m.status, m.worker)
    <3>1. Queue!Finish(m.task, m.worker, m.status)
      BY <1>0, <2>1, <2>2, <2>6, <2>7 DEF Queue!Finish, Queue!HasRow, TaskRow, UpdateTask
    <3>2. m.status \in Queue!Results
      BY <2>4 DEF Results, Queue!Results
    <3> QED
      BY <2>4, <2>5, <3>1, <3>2 DEF Queue!Next
  <2>8. CASE UNCHANGED taskVars
    BY <1>0, <2>1, <2>8, MappedParts
  <2> QED
    BY <2>3, <2>7, <2>8
<1>9. ASSUME NEW c \in Conns, HandleFailedAddTask(c)  PROVE Queue!Next
  <2> DEFINE m == Head(toManager[c])
             t == Head(toManager[c]).task
  <2>1. /\ m \in ToManagerMsg /\ m.type = "FAILED;addTask" /\ UNCHANGED Copies
        /\ Carries(toManager, m)
        /\ \A n : Carries(toManager, n) <=> Carries(toManager', n) \/ n = m
        /\ Refusals' \subseteq Refusals
    BY <1>7, <1>9 DEF HandleFailedAddTask
  <2>2. (TaskRow(t) /\ SetTaskStatus(t, "pending")) \/ UNCHANGED taskVars
    BY <1>9 DEF HandleFailedAddTask
  <2>3. t \in Tasks /\ m = FailedAddTaskMsg(t)
    BY <2>1, MessageFields
  <2> HIDE DEF t, m
  <2>4. t \in Refusals
    BY <2>1, <2>3 DEF Refusals
  <2>5. \A s \in Tasks : s # t => (s \in Refusals' <=> s \in Refusals)
    <3>1. \A s \in Tasks : s # t => FailedAddTaskMsg(s) # m
      BY <2>3 DEF FailedAddTaskMsg
    <3> QED
      BY <2>1, <3>1 DEF Refusals
  <2>6. Refusals' \in {Refusals, Refusals \ {t}}
    <3>1. Refusals \subseteq Tasks
      BY DEF Refusals
    <3> QED
      BY <2>1, <2>3, <2>4, <2>5, <3>1
  <2>7. CASE TaskRow(t) /\ SetTaskStatus(t, "pending")
    <3>1. Queue!TakeBack(t)
      BY <1>0, <2>1, <2>3, <2>4, <2>6, <2>7
      DEF Queue!TakeBack, Queue!PutBack, Queue!HasRow, TaskRow, SetTaskStatus, TaskTableTypeOK
    <3> QED
      BY <2>3, <3>1 DEF Queue!Next
  <2>8. CASE UNCHANGED taskVars
    BY <1>0, <2>1, <2>8, MappedParts
  <2> QED
    BY <2>2, <2>7, <2>8
<1>10. ASSUME NEW c \in Conns, Reader(c)  PROVE [Queue!Next]_(Queue!vars)
  <2>1. CASE HandleAddWorker(c) \/ HandleDeleteWorker(c) \/ HandleWorkerStatus(c)
    <3>1. UNCHANGED taskVars /\ \E type : Receive(c, type)
      BY <2>1 DEF HandleAddWorker, HandleDeleteWorker, HandleWorkerStatus, storeVars
    <3> QED
      BY <1>0, <1>7, <3>1, MappedParts
  <2>2. CASE InsertWorker(c) \/ UpdateStatus(c) \/ MarkDown(c)
    BY <1>1, <2>2 DEF InsertWorker, UpdateStatus, MarkDown, wireVars
  <2>3. CASE ReadError(c)
    <3>1. /\ UNCHANGED <<taskVars, toWorker>>
          /\ toManager' = [toManager EXCEPT ![c] = <<>>]
      BY <2>3 DEF ReadError, storeVars
    <3>2. \A d \in Conns : toManager'[d] = toManager[d] \/ toManager'[d] = <<>>
      BY <1>0, <3>1
    <3>3. ASSUME NEW m, Carries(toManager', m)  PROVE Carries(toManager, m)
      BY <1>0, <3>2, <3>3, CarriesFacts
    <3>4. Refusals' \subseteq Refusals
      BY <3>3 DEF Refusals
    <3> QED
      BY <1>0, <3>1, <3>4, MappedParts
  <2>4. CASE RequeueLost(c)
    <3>1. dialer[c] \in WorkerNames
      BY SocketTypes
    <3> QED
      BY <1>1, <1>2, <2>4, <3>1 DEF RequeueLost, wireVars
  <2> QED
    BY <1>8, <1>9, <1>10, <2>1, <2>2, <2>3, <2>4 DEF Reader
<1>11. ASSUME NEW x \in Callers, RmWorkerName(x)  PROVE [Queue!Next]_(Queue!vars)
  <2>1. rm[x].worker \in WorkerNames
    BY DEF TypeInv, TypeOK, ManagerTypeOK, RmTypeOK
  <2> QED
    BY <1>1, <1>2, <1>3, <1>11, <2>1 DEF RmWorkerName, RmDelete, RmRequeue, RmClear, wireVars
<1>12. CASE Verify
  <2>1. CASE \E w \in Workers : Poll(w)
    <3>1. PICK w \in Workers : Poll(w)
      BY <2>1
    <3>2. /\ UNCHANGED <<taskVars, toManager>>
          /\ toWorker' = Written(toWorker, sock[w], StatusRequest) /\ sock[w] \in Conns
      BY <3>1, SocketTypes DEF Poll, storeVars
    <3>3. ASSUME NEW t \in Tasks, NEW v \in Workers
          PROVE  Carries(toWorker', AddTaskMsg(t, v)) <=> Carries(toWorker, AddTaskMsg(t, v))
      <4>1. AddTaskMsg(t, v) # StatusRequest /\ StatusRequest \in ToWorkerMsg
        BY MessagesTyped DEF AddTaskMsg, StatusRequest
      <4> QED
        BY <1>0, <3>2, <4>1, CarriesFacts
    <3>4. UNCHANGED Copies
      BY <1>0, <3>3 DEF Copies, CopiesOf, RunsOf
    <3> QED
      BY <1>0, <3>2, <3>4, MappedParts
  <2>2. vfy.worker \in WorkerNames
    BY DEF TypeInv, TypeOK, ManagerTypeOK, LoopTypeOK
  <2> QED
    BY <1>1, <1>2, <1>12, <2>1, <2>2
    DEF Verify, VerifyForget, VerifyDown, VerifyCount, VerifyOrphan, VerifyMissing, wireVars, storeVars
<1>13. ASSUME NEW t \in Tasks, HandleTaskPost(t)  PROVE [Queue!Next]_(Queue!vars)
  <2>1. NoWorker \in WorkerNames /\ post[t] \in WorkerNames
    BY DEF TypeInv, TypeOK, ManagerTypeOK, ApiTypeOK, WorkerNames
  <2>2. post[t] # NoWorker => taskStatus[t] = "absent"
    BY DEF CopyInv, PostsPending
  <2> QED
    BY <1>1, <1>4, <1>13, <2>1, <2>2
    DEF HandleTaskPost, PostTask, PostCheck, PostInsert, wireVars, storeVars
<1>14. ASSUME NEW t \in Tasks, HandleTaskDelete(t)  PROVE [Queue!Next]_(Queue!vars)
  <2>1. CASE DeleteSend(t)
    <3>1. PICK c : /\ UNCHANGED <<taskVars, toManager>>
                   /\ \/ UNCHANGED toWorker
                      \/ c \in Conns /\ toWorker' = Written(toWorker, c, DeleteTaskMsg(t))
      <4> DEFINE d == sock[del[t].worker]
      <4>1. /\ UNCHANGED <<taskVars, toManager>>
            /\ toWorker' = Written(toWorker, d, DeleteTaskMsg(t)) \/ UNCHANGED toWorker
        BY <2>1 DEF DeleteSend, storeVars
      <4>2. d \notin Conns => Written(toWorker, d, DeleteTaskMsg(t)) = toWorker
        BY <1>0 DEF Written
      <4> HIDE DEF d
      <4> QED
        BY <4>1, <4>2
    <3>2. ASSUME NEW s \in Tasks, NEW v \in Workers
          PROVE  Carries(toWorker', AddTaskMsg(s, v)) <=> Carries(toWorker, AddTaskMsg(s, v))
      <4>1. AddTaskMsg(s, v) # DeleteTaskMsg(t) /\ DeleteTaskMsg(t) \in ToWorkerMsg
        BY MessagesTyped DEF AddTaskMsg, DeleteTaskMsg
      <4> QED
        BY <1>0, <3>1, <4>1, CarriesFacts
    <3>3. UNCHANGED Copies
      BY <1>0, <3>2 DEF Copies, CopiesOf, RunsOf
    <3> QED
      BY <1>0, <3>1, <3>3, MappedParts
  <2> QED
    BY <1>1, <1>5, <1>14, <2>1
    DEF HandleTaskDelete, DeleteRead, DeleteSent, DeleteMark, wireVars, storeVars
<1>15. ASSUME \/ \E w \in Workers : HandleWorkerDelete(w) \/ HandleWorkerPost(w)
              \/ HistoryCount
       PROVE  [Queue!Next]_(Queue!vars)
  BY <1>1, <1>15 DEF HandleWorkerDelete, HandleWorkerPost, HistoryCount, wireVars, storeVars
<1>16. CASE HistoryDelete
  BY <1>1, <1>6, <1>16 DEF HistoryDelete, wireVars
<1>17. CASE ManagerRestart
  <2>1. /\ UNCHANGED toWorker /\ SetTasksStatusIfStatus
        /\ toManager' = [c \in Conns |-> <<>>]
    BY <1>17 DEF ManagerRestart
  <2>2. Refusals' = {}
    BY <2>1 DEF Refusals, Carries
  <2>3. Queue!Restart
    BY <1>0, <2>1, <2>2, MappedParts DEF Queue!Restart, SetTasksStatusIfStatus
  <2> QED
    BY <2>3 DEF Queue!Next
<1> QED
  BY <1>10, <1>11, <1>12, <1>13, <1>14, <1>15, <1>16, <1>17 DEF ManagerNext

-----------------------------------------------------------------------------
\* The runs keep what the queue sees of them.
SameRuns ==
    /\ DOMAIN runs' = DOMAIN runs
    /\ \A r \in DOMAIN runs :
          /\ runs'[r].task = runs[r].task /\ runs'[r].at = runs[r].at
          /\ runs'[r].workerName = runs[r].workerName /\ runs'[r].sent = runs[r].sent
          /\ runs[r].sent => runs'[r].outcome = runs[r].outcome

\* Every step of a worker: accepting a task moves its copy, a report or a refusal
\* comes from the worker that has one, and the rest loses copies or nothing.
LEMMA WorkersMapped ==
    ASSUME Inv, WorkerNext, UNCHANGED <<storeVars, managerVars>>
    PROVE  [Queue!Next]_(Queue!vars) /\ CopyInv'
<1> USE DEF Inv
<1>0. /\ UNCHANGED taskVars /\ WorkerTypeOK /\ LiveWorkerHasConn
      /\ toManager \in [Conns -> Seq(ToManagerMsg)]
      /\ toWorker \in [Conns -> Seq(ToWorkerMsg)]
      /\ PostsPending' /\ BatchAllowed' /\ CandidateMatches'
      /\ \A r \in DOMAIN runs : runs[r] \in RunRecord
  BY DEF TypeInv, TypeOK, StoreTypeOK, WireTypeOK, WorkerTypeOK, CopyInv, PostsPending, BatchAllowed,
     CandidateMatches, storeVars, taskVars, managerVars, dispVars, apiVars
<1>1. ASSUME SameRuns
      PROVE  RunsOwn' /\ UNCHANGED Outcomes /\ \A t : UNCHANGED RunsOf(t)
  <2>1. \A t : UNCHANGED RunsOf(t)
    BY <1>1 DEF RunsOf, SameRuns
  <2>2. \A t : UNCHANGED OutcomesOf(t)
    BY <1>1, <2>1 DEF OutcomesOf, SameRuns, RunsOf
  <2>3. RunsOwn'
    BY <1>1 DEF CopyInv, RunsOwn, SameRuns
  <2> QED
    BY <2>1, <2>2, <2>3 DEF Outcomes
\* What is on the connections.
<1>2. ASSUME \A c \in Conns : On(toWorker', c) \subseteq On(toWorker, c),
             \A c \in Conns : wire'[c] = "unused" <=> wire[c] = "unused",
             UNCHANGED <<dialer, conn>>
      PROVE  MessagesOwn' /\ ConnsDialled' /\ UnusedEmpty'
  BY <1>2, SocketTypes DEF CopyInv, MessagesOwn, ConnsDialled, UnusedEmpty
<1>3. ASSUME \A t : Outcomes[t] \subseteq Outcomes'[t],
             \A c \in Conns : \A m \in On(toManager', c) : m.type = "callbackTask" => m \in On(toManager, c)
      PROVE  CallbacksReported'
  BY <1>3 DEF CopyInv, CallbacksReported
<1>4. ASSUME UNCHANGED Outcomes,
             \A c \in Conns : On(toWorker', c) \subseteq On(toWorker, c),
             \A t \in Tasks : \A r \in RunsOf(t)' : runs'[r].at \in Workers => runs'[r].at \in Copies[t],
             \A c \in Conns : \A m \in On(toManager', c) : m.type = "FAILED;addTask" => m \in On(toManager, c)
      PROVE  Queue!Next
  <2>0. \A q, m : Carries(q, m) <=> \E c \in Conns : m \in On(q, c)
    BY DEF Carries, On
  <2>1. \A t \in Tasks : FailedAddTaskMsg(t).type = "FAILED;addTask"
    BY DEF FailedAddTaskMsg
  <2>2. Refusals' \subseteq Refusals
    BY <1>4, <2>0, <2>1 DEF Refusals
  <2>3. \A t \in Tasks, w \in Workers : Carries(toWorker', AddTaskMsg(t, w)) => Carries(toWorker, AddTaskMsg(t, w))
    BY <1>4, <2>0
  <2>4. \A t \in Tasks : Copies'[t] \subseteq Copies[t]
    BY <1>4, <2>3 DEF Copies, CopiesOf
  <2> QED
    BY <1>0, <1>4, <2>2, <2>4, MappedParts
\* Steps that only lose messages, and add none that matters here.
<1>5. ASSUME SameRuns, UNCHANGED <<dialer, conn>>,
             \A c \in Conns : On(toWorker', c) \subseteq On(toWorker, c),
             \A c \in Conns : wire'[c] = "unused" <=> wire[c] = "unused",
             \A c \in Conns : \A m \in On(toManager', c) :
                 m.type \in {"callbackTask", "FAILED;addTask"} => m \in On(toManager, c)
      PROVE  Queue!Next /\ CopyInv'
  <2>1. \A t \in Tasks : \A r \in RunsOf(t)' : runs'[r].at \in Workers => runs'[r].at \in Copies[t]
    BY <1>1, <1>5 DEF SameRuns, RunsOf, Copies, CopiesOf
  <2> QED
    BY <1>0, <1>1, <1>2, <1>3, <1>4, <1>5, <2>1 DEF CopyInv
<1>6. ASSUME NEW w \in Workers, NEW type, Read(w, type)
      PROVE  /\ conn[w] \in Conns /\ dialer[conn[w]] = w /\ wire[conn[w]] # "unused"
             /\ toWorker[conn[w]] # <<>>
             /\ Head(toWorker[conn[w]]) \in ToWorkerMsg
             /\ Head(toWorker[conn[w]]).type = type
             /\ Head(toWorker[conn[w]]) \in On(toWorker, conn[w])
             /\ \A c \in Conns : On(Consumed(toWorker, conn[w]), c) \subseteq On(toWorker, c)
             /\ UNCHANGED <<dialer, conn>>
  <2>1. conn[w] # NoConn /\ conn[w] \in Conns
    BY <1>0, <1>6, SocketTypes DEF Read, LiveWorkerHasConn
  <2>2. toWorker[conn[w]] # <<>> /\ toWorker[conn[w]] \in Seq(ToWorkerMsg)
    BY <1>0, <1>6, <2>1 DEF Read
  <2>3. Head(toWorker[conn[w]]) = toWorker[conn[w]][1] /\ 1 \in DOMAIN toWorker[conn[w]]
    BY <2>2
  <2>4. Head(toWorker[conn[w]]) \in On(toWorker, conn[w])
    BY <2>3 DEF On
  <2>5. \A c \in Conns : On(Consumed(toWorker, conn[w]), c) \subseteq On(toWorker, c)
    BY <1>0, <2>1, <2>2, CarriesFacts
  <2> QED
    BY <1>6, <2>1, <2>2, <2>4, <2>5, HeadTailProperties DEF Read, CopyInv, ConnsDialled
<1>7. ASSUME NEW c, NEW m, toManager' = Written(toManager, c, m)
      PROVE  \A d \in Conns : \A n \in On(toManager', d) :
                n \in On(toManager, d) \/ (n = m /\ d = c /\ wire[c] = "open")
  <2>1. CASE c \in Conns
    <3>1. \A d \in Conns : On(Written(toManager, c, m), d) \subseteq
              On(toManager, d) \union (IF d = c /\ wire[c] = "open" THEN {m} ELSE {})
      BY <1>0, <2>1, CarriesFacts
    <3> QED
      BY <1>7, <3>1
  <2>2. CASE c \notin Conns
    <3>1. toManager' = toManager
      BY <1>0, <1>7, <2>2 DEF Written
    <3> QED
      BY <3>1
  <2> QED
    BY <2>1, <2>2
<1>8. ASSUME NEW r \in DOMAIN runs, NEW run, SetRun(r, run), run.task = runs[r].task,
             run.at = runs[r].at, run.workerName = runs[r].workerName,
             run.sent = runs[r].sent, runs[r].sent => run.outcome = runs[r].outcome
      PROVE  SameRuns
  BY <1>8 DEF SetRun, SameRuns
<1>9. ASSUME NEW r \in DOMAIN runs, RunStep(r), ~Report(r)
      PROVE  Queue!Next /\ CopyInv'
  <2>1. SameRuns
    <3>1. runs[r] \in RunRecord /\ (runs[r].sent => runs[r].outcome # "none")
      BY <1>0 DEF CopyInv, RunsOwn
    <3>2. ASSUME NEW x, SetRun(r, Ended(runs[r], x))  PROVE SameRuns
      <4>1. /\ Ended(runs[r], x).task = runs[r].task /\ Ended(runs[r], x).at = runs[r].at
            /\ Ended(runs[r], x).workerName = runs[r].workerName
            /\ Ended(runs[r], x).sent = runs[r].sent
            /\ runs[r].outcome # "none" => Ended(runs[r], x).outcome = runs[r].outcome
        BY <3>1 DEF RunRecord, Ended
      <4> QED
        BY <1>8, <3>1, <3>2, <4>1
    <3>3. CASE RunFails(r) \/ SetRun(r, Ended(runs[r], runs[r].exit))
      BY <3>2, <3>3 DEF RunFails
    <3>4. CASE SetRun(r, [runs[r] EXCEPT !.stage = "accepted", !.exit = "none",
                                         !.left = runs[r].left - 1])
      BY <1>8, <3>1, <3>4 DEF RunRecord
    <3>5. CASE \E st : SetRun(r, [runs[r] EXCEPT !.stage = st])
      BY <1>8, <3>1, <3>5 DEF RunRecord
    <3>7. ASSUME NEW x, SetRun(r, [runs[r] EXCEPT !.stage = "exited", !.exit = x])
          PROVE  SameRuns
      <4> DEFINE new == [runs[r] EXCEPT !.stage = "exited", !.exit = x]
      <4>1. /\ new.task = runs[r].task /\ new.at = runs[r].at /\ new.sent = runs[r].sent
            /\ new.workerName = runs[r].workerName /\ new.outcome = runs[r].outcome
        BY <3>1 DEF RunRecord
      <4> HIDE DEF new
      <4> QED
        BY <1>8, <3>7, <4>1 DEF new
    <3>6. CASE Timeout(r)
      BY <1>8, <3>1, <3>6 DEF Timeout, RunRecord
    <3>8. CASE StartCommand(r) \/ Spawn(r)
      BY <3>5, <3>7, <3>8 DEF StartCommand, Spawn
    <3>9. CASE \E x \in Results : Exit(r, x)
      BY <3>7, <3>9 DEF Exit
    <3>10. CASE CleanUp(r)
      BY <3>3, <3>4, <3>10 DEF CleanUp
    <3> QED
      BY <1>9, <3>3, <3>6, <3>8, <3>9, <3>10 DEF RunStep
  <2>2. UNCHANGED wireVars
    BY <1>9 DEF RunStep, RunFails, StartCommand, Spawn, CleanUp, Timeout, Exit
  <2> QED
    BY <1>5, <1>8, <2>1, <2>2 DEF wireVars
<1>10. ASSUME NEW w \in Workers, proc[w], Die(w), UNCHANGED <<dialer, conn>>,
              UNCHANGED toManager \/ Reply(w, DeleteWorkerMsg)
       PROVE  Queue!Next /\ CopyInv'
  <2>1. SameRuns
    BY <1>0, <1>10 DEF Die, RunsLost, Lost, SameRuns, RunRecord
  <2>2. \A c \in Conns : On(toWorker', c) \subseteq On(toWorker, c)
    <3>1. \A c \in Conns : toWorker'[c] = toWorker[c] \/ toWorker'[c] = <<>>
      BY <1>0, <1>10 DEF Die
    <3>2. \A c \in Conns : toWorker'[c] = toWorker[c] => On(toWorker', c) = On(toWorker, c)
      BY DEF On
    <3>3. \A c \in Conns : toWorker'[c] = <<>> => On(toWorker', c) = {}
      BY <1>0, CarriesFacts
    <3> QED
      BY <3>1, <3>2, <3>3
  <2>3. \A c \in Conns : wire'[c] = "unused" <=> wire[c] = "unused"
    <3>1. wire[conn[w]] # "unused"
      BY <1>0, <1>10 DEF LiveWorkerHasConn, CopyInv, ConnsDialled
    <3> QED
      BY <1>10, <3>1, SocketTypes DEF Die, Break
  <2>4. \A c \in Conns : \A m \in On(toManager', c) :
            m.type \in {"callbackTask", "FAILED;addTask"} => m \in On(toManager, c)
    <3>1. DeleteWorkerMsg.type = "deleteWorker"
      BY DEF DeleteWorkerMsg
    <3>2. CASE toManager' = Written(toManager, conn[w], DeleteWorkerMsg)
      <4>1. \A c \in Conns : \A m \in On(toManager', c) :
                m \in On(toManager, c) \/ m = DeleteWorkerMsg
        BY <1>7, <3>2
      <4> QED
        BY <3>1, <4>1
    <3> QED
      BY <1>10, <3>2 DEF Reply
  <2> QED
    BY <1>5, <1>10, <2>1, <2>2, <2>3, <2>4
<1>11. CASE \E w \in Workers : Crash(w) \/ Stop(w) \/ MessageDeleteTaskKillsWorker(w)
  BY <1>10, <1>11 DEF Crash, Stop, MessageDeleteTaskKillsWorker, Read
<1>12. ASSUME NEW w \in Workers, MessageStatusTask(w) \/ MessageDeleteTask(w)
       PROVE  Queue!Next /\ CopyInv'
  <2>1. /\ Read(w, "status") \/ Read(w, "deleteTask")
        /\ toWorker' = Consumed(toWorker, conn[w]) /\ UNCHANGED wire
        /\ UNCHANGED toManager \/ toManager' = Written(toManager, conn[w], StatusMsg(IddleThreads(w)))
    BY <1>12 DEF MessageStatusTask, MessageDeleteTask, Reply
  <2>2. SameRuns
    <3>1. UNCHANGED runs \/ \E K : runs' = KillRuns(K)
      BY <1>12 DEF MessageStatusTask, MessageDeleteTask, workerProcVars
    <3>2. UNCHANGED runs => SameRuns
      BY DEF SameRuns
    <3>3. ASSUME NEW K, runs' = KillRuns(K)  PROVE SameRuns
      BY <1>0, <3>3 DEF KillRuns, Killed, SameRuns, RunRecord
    <3> QED
      BY <3>1, <3>2, <3>3
  <2>3. \A c \in Conns : \A m \in On(toManager', c) :
            m.type \in {"callbackTask", "FAILED;addTask"} => m \in On(toManager, c)
    <3>1. \A n : StatusMsg(n).type = "status"
      BY DEF StatusMsg
    <3>2. CASE toManager' = Written(toManager, conn[w], StatusMsg(IddleThreads(w)))
      <4>1. \A c \in Conns : \A m \in On(toManager', c) :
                m \in On(toManager, c) \/ m = StatusMsg(IddleThreads(w))
        BY <1>7, <3>2
      <4> QED
        BY <3>1, <4>1
    <3> QED
      BY <2>1, <3>2
  <2>4. /\ UNCHANGED <<dialer, conn>>
        /\ \A c \in Conns : On(toWorker', c) \subseteq On(toWorker, c)
    BY <1>6, <2>1
  <2> QED
    BY <1>5, <2>1, <2>2, <2>3, <2>4
<1>13. CASE \E r \in DOMAIN runs : RunStep(r) /\ ~Report(r)
  BY <1>9, <1>13
<1>14. CASE \E w \in Workers : MessageStatusTask(w) \/ MessageDeleteTask(w)
  BY <1>12, <1>14
\* A task that is read is the worker's own, and its copy either a run or given up.
<1>15. ASSUME NEW w \in Workers, Read(w, "addTask"), toWorker' = Consumed(toWorker, conn[w])
       PROVE  /\ ReadTask(w) \in Tasks /\ Head(toWorker[conn[w]]).worker = w
              /\ w \in Copies[ReadTask(w)]
              /\ UNCHANGED <<dialer, conn>>
              /\ \A c \in Conns : On(toWorker', c) \subseteq On(toWorker, c)
  <2> DEFINE m == Head(toWorker[conn[w]])
  <2>1. /\ m \in ToWorkerMsg /\ m.type = "addTask" /\ m \in On(toWorker, conn[w])
        /\ conn[w] \in Conns /\ dialer[conn[w]] = w
    BY <1>6, <1>15
  <2>2. m.worker = w
    BY <2>1 DEF CopyInv, MessagesOwn
  <2>3. m.task \in Tasks
    BY <2>1, MessageFields
  <2> HIDE DEF m
  <2>5. m = AddTaskMsg(m.task, w)
    BY <2>1, <2>2, MessageFields
  <2>6. Carries(toWorker, AddTaskMsg(m.task, w))
    BY <2>1, <2>5 DEF Carries, On
  <2>7. w \in Copies[m.task]
    BY <2>3, <2>6 DEF Copies, CopiesOf
  <2> QED
    BY <1>6, <1>15, <2>2, <2>3, <2>7 DEF ReadTask, m
<1>16. ASSUME NEW w \in Workers, AcceptTask(w)
       PROVE  Queue!Next /\ CopyInv'
  <2> DEFINE run == NewRun(ReadTask(w), w, Head(toWorker[conn[w]]).worker)
             last == Len(runs) + 1
  <2>1. /\ Read(w, "addTask") /\ toWorker' = Consumed(toWorker, conn[w])
        /\ runs' = Append(runs, run) /\ UNCHANGED <<wire, toManager>>
    BY <1>16 DEF AcceptTask
  <2>2. run.task = ReadTask(w) /\ run.at = w /\ run.workerName = w /\ run.sent = FALSE
    BY <1>15, <2>1 DEF NewRun
  <2> HIDE DEF run
  <2>3. /\ DOMAIN runs' = DOMAIN runs \union {last} /\ last \notin DOMAIN runs
        /\ runs'[last] = run
        /\ \A r \in DOMAIN runs : runs'[r] = runs[r]
    BY <1>0, <2>1 DEF WorkerTypeOK
  <2> HIDE DEF last
  <2>4. \A t : RunsOf(t)' = RunsOf(t) \union (IF t = ReadTask(w) THEN {last} ELSE {})
    BY <2>2, <2>3 DEF RunsOf
  <2>5. \A t : UNCHANGED OutcomesOf(t)
    BY <2>2, <2>3, <2>4 DEF OutcomesOf, RunsOf
  <2>6. UNCHANGED Outcomes
    BY <2>5 DEF Outcomes
  <2>7. RunsOwn'
    BY <2>2, <2>3 DEF CopyInv, RunsOwn
  <2>8. \A t \in Tasks : \A r \in RunsOf(t)' : runs'[r].at \in Workers => runs'[r].at \in Copies[t]
    <3>1. \A t \in Tasks : \A r \in RunsOf(t) : runs[r].at \in Workers => runs[r].at \in Copies[t]
      BY DEF Copies, CopiesOf
    <3>2. \A t \in Tasks : RunsOf(t) \subseteq DOMAIN runs
      BY DEF RunsOf
    <3> QED
      BY <1>15, <2>1, <2>2, <2>3, <2>4, <3>1, <3>2
  <2>9. /\ UNCHANGED <<dialer, conn>>
        /\ \A c \in Conns : On(toWorker', c) \subseteq On(toWorker, c)
    BY <1>15, <2>1
  <2> QED
    BY <1>0, <1>2, <1>3, <1>4, <2>1, <2>6, <2>7, <2>8, <2>9 DEF CopyInv
<1>17. ASSUME NEW w \in Workers, RefuseTask(w)
       PROVE  Queue!Next /\ CopyInv'
  <2> DEFINE t == ReadTask(w)
  <2>1. /\ Read(w, "addTask") /\ toWorker' = Consumed(toWorker, conn[w])
        /\ toManager' = Written(toManager, conn[w], FailedAddTaskMsg(t))
        /\ UNCHANGED <<wire, runs>>
    BY <1>17 DEF RefuseTask, Reply, workerProcVars
  <2>2. /\ t \in Tasks /\ w \in Copies[t] /\ UNCHANGED <<dialer, conn>>
        /\ \A c \in Conns : On(toWorker', c) \subseteq On(toWorker, c)
    BY <1>15, <2>1
  <2>3. /\ SameRuns /\ UNCHANGED Outcomes /\ RunsOwn'
        /\ \A s : UNCHANGED RunsOf(s)
    BY <1>1, <2>1 DEF SameRuns
  <2>4. \A c \in Conns : \A m \in On(toManager', c) :
            m \in On(toManager, c) \/ (m = FailedAddTaskMsg(t) /\ wire[conn[w]] = "open")
    BY <1>7, <2>1
  <2>5. CopyInv'
    <3>1. FailedAddTaskMsg(t).type = "FAILED;addTask"
      BY DEF FailedAddTaskMsg
    <3>2. \A c \in Conns : \A m \in On(toManager', c) :
              m.type = "callbackTask" => m \in On(toManager, c)
      BY <2>4, <3>1
    <3> QED
      BY <1>0, <1>2, <1>3, <2>1, <2>2, <2>3, <3>2 DEF CopyInv
  <2>6. Refusals' \in {Refusals, Refusals \union {t}}
    <3>1. \A m : Carries(toManager', m) <=>
             Carries(toManager, m) \/ (m = FailedAddTaskMsg(t) /\ wire[conn[w]] = "open")
      <4>1. conn[w] \in Conns /\ FailedAddTaskMsg(t) \in ToManagerMsg
        BY <1>6, <2>1, <2>2, MessagesTyped
      <4>2. \A m : Carries(Written(toManager, conn[w], FailedAddTaskMsg(t)), m) <=>
               Carries(toManager, m) \/ (m = FailedAddTaskMsg(t) /\ wire[conn[w]] = "open")
        BY <1>0, <4>1, CarriesFacts
      <4> QED
        BY <2>1, <4>2
    <3>2. \A s \in Tasks : FailedAddTaskMsg(s) = FailedAddTaskMsg(t) <=> s = t
      BY DEF FailedAddTaskMsg
    <3> HIDE DEF t
    <3> QED
      BY <2>2, <3>1, <3>2 DEF Refusals
  <2>7. \A s \in Tasks : Copies'[s] \subseteq Copies[s]
    <3>1. \A q, m : Carries(q, m) <=> \E c \in Conns : m \in On(q, c)
      BY DEF Carries, On
    <3>2. \A s \in Tasks, v \in Workers :
              Carries(toWorker', AddTaskMsg(s, v)) => Carries(toWorker, AddTaskMsg(s, v))
      BY <2>2, <3>1
    <3> QED
      BY <2>1, <2>3, <3>2 DEF Copies, CopiesOf
  <2>8. CASE Refusals' = Refusals
    BY <1>0, <2>3, <2>5, <2>7, <2>8, MappedParts
  <2>9. CASE Refusals' = Refusals \union {t}
    <3>1. Queue!Refuse(t)
      BY <1>0, <2>2, <2>3, <2>7, <2>9, MappedParts
      DEF Queue!Refuse, Queue!SomeCopiesLost, Queue!row, taskVars
    <3> QED
      BY <2>2, <2>5, <3>1 DEF Queue!Next
  <2> QED
    BY <2>6, <2>8, <2>9
<1>18. ASSUME NEW w \in Workers, CreateConnection(w)
       PROVE  Queue!Next /\ CopyInv'
  <2>1. PICK c \in Conns : Dial(w, c, AddWorkerMsg)
    BY <1>18 DEF CreateConnection
  <2>2. /\ wire[c] = "unused" /\ wire' = [wire EXCEPT ![c] = "open"]
        /\ dialer' = [dialer EXCEPT ![c] = w] /\ conn' = [conn EXCEPT ![w] = c]
        /\ toManager' = [toManager EXCEPT ![c] = <<AddWorkerMsg>>]
        /\ \A d \in Conns : toWorker'[d] = toWorker[d] \/ toWorker'[d] = <<>>
        /\ UNCHANGED runs
    BY <1>18, <2>1 DEF CreateConnection, Dial
  <2>3. \A d \in Conns : On(toWorker', d) \subseteq On(toWorker, d)
    <3>1. \A d \in Conns : toWorker'[d] = toWorker[d] => On(toWorker', d) = On(toWorker, d)
      BY DEF On
    <3>2. \A d \in Conns : toWorker'[d] = <<>> => On(toWorker', d) = {}
      BY <1>0, CarriesFacts
    <3> QED
      BY <2>2, <3>1, <3>2
  <2>4. On(toWorker, c) = {}
    BY <2>2 DEF CopyInv, UnusedEmpty
  <2>5. MessagesOwn' /\ ConnsDialled' /\ UnusedEmpty'
    BY <2>2, <2>3, <2>4, SocketTypes DEF CopyInv, MessagesOwn, ConnsDialled, UnusedEmpty
  <2>6. SameRuns /\ UNCHANGED Outcomes /\ RunsOwn' /\ \A s : UNCHANGED RunsOf(s)
    BY <1>1, <2>2 DEF SameRuns
  <2>7. \A d \in Conns : \A m \in On(toManager', d) :
            m.type \in {"callbackTask", "FAILED;addTask"} => m \in On(toManager, d)
    <3>1. AddWorkerMsg.type = "addWorker"
      BY DEF AddWorkerMsg
    <3>2. toManager'[c] = <<AddWorkerMsg>>
      BY <1>0, <2>2
    <3>3. On(toManager', c) = {AddWorkerMsg}
      BY <3>2 DEF On
    <3>4. \A d \in Conns : d # c => On(toManager', d) = On(toManager, d)
      BY <1>0, <2>2 DEF On
    <3> QED
      BY <3>1, <3>3, <3>4
  <2>8. \A t \in Tasks : \A r \in RunsOf(t)' : runs'[r].at \in Workers => runs'[r].at \in Copies[t]
    BY <2>2, <2>6 DEF Copies, CopiesOf
  <2> QED
    BY <1>0, <1>3, <1>4, <2>3, <2>5, <2>6, <2>7, <2>8 DEF CopyInv
<1>19. ASSUME NEW r \in DOMAIN runs, Report(r)
       PROVE  Queue!Next /\ CopyInv'
  <2> DEFINE run == runs[r]
             m == CallbackMsg(run.task, run.workerName, run.outcome)
  <2>1. /\ run \in RunRecord /\ run.workerName = run.at
        /\ run.outcome # "none"
        /\ toManager' = Written(toManager, conn[run.at], m)
        /\ runs' = [runs EXCEPT ![r] = [run EXCEPT !.sent = TRUE]]
        /\ UNCHANGED <<wire, dialer, toWorker, conn>>
    BY <1>0, <1>19 DEF Report, Reply, SetRun, CopyInv, RunsOwn
  <2>2. run.task \in Tasks /\ run.at \in Workers /\ run.outcome \in Results
    BY <2>1 DEF RunRecord
  <2> HIDE DEF run
  <2>3. /\ DOMAIN runs' = DOMAIN runs
        /\ \A s \in DOMAIN runs : /\ runs'[s].task = runs[s].task /\ runs'[s].at = runs[s].at
                                  /\ runs'[s].workerName = runs[s].workerName
                                  /\ runs'[s].outcome = runs[s].outcome
                                  /\ runs'[s].sent <=> runs[s].sent \/ s = r
    BY <1>0, <2>1 DEF RunRecord, run
  <2>4. \A t : UNCHANGED RunsOf(t)
    BY <2>3 DEF RunsOf
  <2>5. RunsOwn'
    BY <2>1, <2>3 DEF CopyInv, RunsOwn, run
  <2>6. \A t \in Tasks : OutcomesOf(t)' = OutcomesOf(t) \union
            (IF t = run.task THEN {<<run.at, run.outcome>>} ELSE {})
    <3> DEFINE told(x) == <<runs[x].at, runs[x].outcome>>
    <3>1. \A t, p : p \in OutcomesOf(t) <=> \E x \in RunsOf(t) : runs[x].sent /\ p = told(x)
      BY DEF OutcomesOf
    <3>2. \A t, p : p \in OutcomesOf(t)' <=>
              \E x \in RunsOf(t) : (runs[x].sent \/ x = r) /\ p = told(x)
      <4> DEFINE toldThen(x) == <<runs'[x].at, runs'[x].outcome>>
      <4>1. \A t, p : p \in OutcomesOf(t)' <=>
                \E x \in RunsOf(t)' : runs'[x].sent /\ p = toldThen(x)
        BY DEF OutcomesOf
      <4>3. \A x \in DOMAIN runs : toldThen(x) = told(x)
        BY <2>3
      <4>2. \A t : RunsOf(t)' = RunsOf(t) /\ RunsOf(t) \subseteq DOMAIN runs
        BY <2>4 DEF RunsOf
      <4> HIDE DEF told, toldThen
      <4> QED
        BY <2>3, <4>1, <4>2, <4>3
    <3>3. /\ \A t : r \in RunsOf(t) <=> t = run.task
          /\ told(r) = <<run.at, run.outcome>>
      BY DEF RunsOf, run
    <3> HIDE DEF told
    <3>4. \A t, p : p \in OutcomesOf(t)' <=> p \in OutcomesOf(t) \/ (t = run.task /\ p = told(r))
      BY <3>1, <3>2, <3>3
    <3>5. ASSUME NEW t \in Tasks
          PROVE  OutcomesOf(t)' = OutcomesOf(t) \union (IF t = run.task THEN {told(r)} ELSE {})
      BY <3>4
    <3> QED
      BY <3>3, <3>5
  <2>7. Outcomes' = [Outcomes EXCEPT ![run.task] = Outcomes[run.task] \union {<<run.at, run.outcome>>}]
    BY <2>2, <2>6 DEF Outcomes
  <2>8. \A c \in Conns : \A n \in On(toManager', c) : n \in On(toManager, c) \/ n = m
    BY <1>7, <2>1
  <2>9. /\ m.type = "callbackTask" /\ m.task = run.task /\ m.worker = run.at
        /\ m.status = run.outcome
    BY <2>1 DEF CallbackMsg
  <2> HIDE DEF m
  <2>10. CallbacksReported'
    <3>1. \A c \in Conns : \A n \in On(toManager, c) : n \in ToManagerMsg
      <4>1. ASSUME NEW c \in Conns, NEW i \in DOMAIN toManager[c]
            PROVE  toManager[c][i] \in ToManagerMsg
        BY <1>0, ElementOfSeq
      <4> QED
        BY <4>1 DEF On
    <3>2. \A t \in Tasks : Outcomes[t] \subseteq Outcomes'[t]
      BY <2>6 DEF Outcomes
    <3>3. <<run.at, run.outcome>> \in Outcomes'[run.task]
      BY <2>2, <2>6 DEF Outcomes
    <3>4. ASSUME NEW c \in Conns, NEW n \in On(toManager, c), n.type = "callbackTask"
          PROVE  <<n.worker, n.status>> \in Outcomes'[n.task]
      BY <3>1, <3>2, <3>4, MessageFields DEF CopyInv, CallbacksReported
    <3> QED
      BY <2>8, <2>9, <3>3, <3>4 DEF CallbacksReported
  <2>11. UNCHANGED Refusals
    <3>1. \A t \in Tasks : FailedAddTaskMsg(t) # m
      <4>1. \A t \in Tasks : FailedAddTaskMsg(t).type = "FAILED;addTask"
        BY DEF FailedAddTaskMsg
      <4> QED
        BY <2>9, <4>1
    <3>2. CASE conn[run.at] \in Conns
      <4>1. m \in ToManagerMsg
        BY <2>2, MessagesTyped DEF m, WorkerNames, run, CopyInv, RunsOwn
      <4>2. \A n : Carries(Written(toManager, conn[run.at], m), n) <=>
               Carries(toManager, n) \/ (n = m /\ wire[conn[run.at]] = "open")
        BY <1>0, <3>2, <4>1, CarriesFacts
      <4> QED
        BY <2>1, <3>1, <4>2 DEF Refusals
    <3>3. CASE conn[run.at] \notin Conns
      <4>1. toManager' = toManager
        BY <1>0, <2>1, <3>3 DEF Written
      <4> QED
        BY <4>1, MappedParts
    <3> QED
      BY <3>2, <3>3
  <2>12. UNCHANGED Copies
    <3>1. \A t : \A s \in RunsOf(t) : runs'[s].at = runs[s].at
      BY <2>3 DEF RunsOf
    <3>2. \A t : UNCHANGED CopiesOf(t)
      BY <2>1, <2>4, <3>1 DEF CopiesOf, Carries
    <3> QED
      BY <3>2 DEF Copies
  <2>13. run.at \in Copies[run.task]
    BY <2>2 DEF Copies, CopiesOf, RunsOf, run
  <2>14. Queue!Report(run.task, run.at, run.outcome)
    BY <1>0, <2>2, <2>7, <2>11, <2>12, <2>13 DEF Queue!Report, Queue!row, taskVars
  <2>15. run.outcome \in Queue!Results
    BY <2>2 DEF Queue!Results, Results
  <2>16. Queue!Next
    BY <2>2, <2>14, <2>15 DEF Queue!Next
  <2>17. MessagesOwn' /\ ConnsDialled' /\ UnusedEmpty'
    BY <1>2, <2>1
  <2> QED
    BY <1>0, <2>5, <2>10, <2>16, <2>17 DEF CopyInv
<1> QED
  BY <1>11, <1>13, <1>14, <1>16, <1>17, <1>18, <1>19 DEF WorkerNext, GetMessage

\* Every step of the manager leaves the copies right, given what it did to the queue:
\* a batch is read from the table, a message to a worker bears that worker's name,
\* and no row disappears from under a post.
LEMMA ManagerCopies ==
    ASSUME Inv, ManagerNext, UNCHANGED workerProcVars, QueueGrows
    PROVE  CopyInv'
<1> USE DEF Inv
<1>0. /\ TaskTableTypeOK /\ UNCHANGED runs
      /\ toManager \in [Conns -> Seq(ToManagerMsg)]
      /\ toWorker \in [Conns -> Seq(ToWorkerMsg)]
  BY DEF TypeInv, TypeOK, StoreTypeOK, WireTypeOK, workerProcVars
<1> DEFINE AbsentStays == \A t \in Tasks : taskStatus[t] = "absent" => taskStatus'[t] = "absent"
           UsedStays   == \A c \in Conns : wire'[c] = "unused" <=> wire[c] = "unused"
           Fine(c, m)  == /\ wire[c] = "open"
                          /\ m.type = "addTask" => dialer[c] \in Workers /\ m.worker = dialer[c]
           OnlyFine    == \A c \in Conns : \A m \in On(toWorker', c) :
                              m \in On(toWorker, c) \/ Fine(c, m)
           OnlyRead    == \A c \in Conns : On(toManager', c) \subseteq On(toManager, c)
<1>1. ASSUME UNCHANGED post, AbsentStays  PROVE PostsPending'
  BY <1>1 DEF CopyInv, PostsPending
<1>2. ASSUME UNCHANGED <<dialer, conn>>, UsedStays, OnlyFine, OnlyRead
      PROVE  /\ MessagesOwn' /\ RunsOwn' /\ CallbacksReported'
             /\ ConnsDialled' /\ UnusedEmpty'
  <2>1. MessagesOwn' /\ UnusedEmpty'
    BY <1>2 DEF CopyInv, MessagesOwn, UnusedEmpty
  <2>2. RunsOwn' /\ ConnsDialled'
    BY <1>0, <1>2, SocketTypes DEF CopyInv, RunsOwn, ConnsDialled
  <2>3. ASSUME NEW c \in Conns, NEW m \in On(toManager, c), m.type = "callbackTask"
        PROVE  <<m.worker, m.status>> \in Outcomes'[m.task]
    <3>1. PICK i \in DOMAIN toManager[c] : m = toManager[c][i]
      BY DEF On
    <3>2. m \in ToManagerMsg
      BY <1>0, <3>1, ElementOfSeq
    <3> QED
      BY <2>3, <3>2, MessageFields DEF CopyInv, CallbacksReported, QueueGrows
  <2>4. CallbacksReported'
    BY <1>2, <2>3 DEF CallbacksReported
  <2> QED
    BY <2>1, <2>2, <2>4
<1>3. ASSUME UNCHANGED dispVars  PROVE BatchAllowed' /\ CandidateMatches'
  <2>1. BatchAllowed'
    BY <1>3, BatchTyped DEF CopyInv, BatchAllowed, QueueGrows, dispVars
  <2>2. CandidateMatches'
    BY <1>3 DEF CopyInv, CandidateMatches, dispVars
  <2> QED
    BY <2>1, <2>2
<1>4. UNCHANGED wireVars => OnlyFine /\ OnlyRead /\ UsedStays /\ UNCHANGED <<dialer, conn>>
  BY DEF wireVars
<1>5. UNCHANGED taskVars => AbsentStays
  BY DEF taskVars
<1>6. ASSUME UNCHANGED <<dispVars, post, dialer, conn>>, UsedStays, OnlyFine, OnlyRead, AbsentStays
      PROVE  CopyInv'
  BY <1>1, <1>2, <1>3, <1>6 DEF CopyInv
<1>7. ASSUME UNCHANGED <<wireVars, dispVars, post>>, AbsentStays  PROVE CopyInv'
  BY <1>4, <1>6, <1>7
\* The statements keep an absent row absent.
<1>8. /\ \A t \in Tasks : \A st, w : TaskRow(t) /\ UpdateTask(t, st, w) => AbsentStays
      /\ \A t \in Tasks : \A st : TaskRow(t) /\ SetTaskStatus(t, st) => AbsentStays
      /\ \A w : SetTasksWorkerPending(w) \/ ClearWorkerName(w) => AbsentStays
      /\ SetTasksStatusIfStatus => AbsentStays
      /\ \A T \in SUBSET DoneTasks : DeleteRows(T) => AbsentStays
  <2>1. \A t \in Tasks : \A st, w : TaskRow(t) /\ UpdateTask(t, st, w) => AbsentStays
    BY <1>0 DEF TaskRow, UpdateTask, TaskTableTypeOK
  <2>2. \A t \in Tasks : \A st : TaskRow(t) /\ SetTaskStatus(t, st) => AbsentStays
    BY <1>0 DEF TaskRow, SetTaskStatus, TaskTableTypeOK
  <2>3. \A w : SetTasksWorkerPending(w) \/ ClearWorkerName(w) => AbsentStays
    BY DEF SetTasksWorkerPending, ClearWorkerName, RunningOn
  <2>4. SetTasksStatusIfStatus => AbsentStays
    BY DEF SetTasksStatusIfStatus
  <2>5. \A T \in SUBSET DoneTasks : DeleteRows(T) => AbsentStays
    BY DEF DeleteRows, DoneTasks
  <2> QED
    BY <2>1, <2>2, <2>3, <2>4, <2>5
\* The messages to the workers.
<1>9. ASSUME NEW c \in Conns, NEW m, wire[c] = "open" => Fine(c, m),
             toWorker' = Written(toWorker, c, m)
      PROVE  OnlyFine
  <2>1. \A d \in Conns : On(Written(toWorker, c, m), d) \subseteq
            On(toWorker, d) \union (IF d = c /\ wire[c] = "open" THEN {m} ELSE {})
    BY <1>0, CarriesFacts
  <2> QED
    BY <1>9, <2>1
<1> HIDE DEF Fine
<1>10. ASSUME NEW c \in Conns, Reader(c)  PROVE CopyInv'
  <2>1. ASSUME NEW type, Receive(c, type)
        PROVE  /\ UNCHANGED <<dispVars, post, dialer, conn>> /\ UsedStays /\ OnlyFine /\ OnlyRead
    <3>1. /\ toManager[c] # <<>> /\ toManager' = Consumed(toManager, c)
          /\ UNCHANGED <<dispVars, post, wire, dialer, toWorker, conn>>
      BY <2>1 DEF Receive, apiVars
    <3>2. OnlyRead
      BY <1>0, <3>1, CarriesFacts
    <3> QED
      BY <3>1, <3>2
  <2>2. CASE HandleAddWorker(c) \/ HandleDeleteWorker(c) \/ HandleWorkerStatus(c)
    BY <1>5, <1>6, <2>1, <2>2
    DEF HandleAddWorker, HandleDeleteWorker, HandleWorkerStatus, storeVars
  <2>3. CASE HandleCallbackTask(c) \/ HandleFailedAddTask(c)
    <3>1. Head(toManager[c]) \in ToManagerMsg
          /\ Head(toManager[c]).type \in {"callbackTask", "FAILED;addTask"}
      BY <1>0, <2>3, HeadTailProperties DEF HandleCallbackTask, HandleFailedAddTask, Receive
    <3>2. Head(toManager[c]).task \in Tasks
      BY <3>1, MessageFields
    <3>3. AbsentStays
      BY <1>5, <1>8, <2>3, <3>2 DEF HandleCallbackTask, HandleFailedAddTask
    <3>4. \E type : Receive(c, type)
      BY <2>3 DEF HandleCallbackTask, HandleFailedAddTask
    <3> QED
      BY <1>6, <2>1, <3>3, <3>4
  <2>4. CASE InsertWorker(c) \/ UpdateStatus(c) \/ MarkDown(c)
    BY <1>5, <1>7, <2>4 DEF InsertWorker, UpdateStatus, MarkDown, apiVars
  <2>5. CASE RequeueLost(c)
    BY <1>5, <1>7, <1>8, <2>5 DEF RequeueLost, apiVars
  <2>6. CASE ReadError(c)
    <3>1. /\ UNCHANGED <<dispVars, post, dialer, toWorker, conn, taskVars>>
          /\ toManager' = [toManager EXCEPT ![c] = <<>>]
      BY <2>6 DEF ReadError, apiVars, storeVars
    <3>2. OnlyRead
      <4>1. toManager'[c] = <<>> /\ \A d \in Conns : d # c => toManager'[d] = toManager[d]
        BY <1>0, <3>1
      <4>2. On(toManager', c) = {}
        BY <1>0, <4>1, CarriesFacts
      <4> QED
        BY <4>1, <4>2 DEF On
    <3>3. UsedStays
      <4>1. \/ UNCHANGED wire
            \/ /\ sock[dialer[c]] # NoConn /\ reader[c] # "anonymous"
               /\ wire' = [wire EXCEPT ![sock[dialer[c]]] = "broken"]
        BY <2>6 DEF ReadError, Break
      <4>2. wire[c] = "broken" /\ dialer[c] \in Workers
        BY <2>6 DEF ReadError, CopyInv, ConnsDialled
      <4>3. sock[dialer[c]] # NoConn => wire[sock[dialer[c]]] # "unused"
        BY <4>2 DEF SocketInv, SocketsAreUsed
      <4> QED
        BY <4>1, <4>3, SocketTypes
    <3> QED
      BY <1>5, <1>6, <3>1, <3>2, <3>3
  <2> QED
    BY <1>10, <2>2, <2>3, <2>4, <2>5, <2>6 DEF Reader
<1>11. ASSUME NEW x \in Callers, RmWorkerName(x)  PROVE CopyInv'
  BY <1>5, <1>7, <1>8, <1>11 DEF RmWorkerName, RmDelete, RmRequeue, RmClear, apiVars
<1>12. CASE Verify
  <2>1. CASE \E w \in Workers : Poll(w)
    <3>1. PICK w \in Workers : Poll(w)
      BY <2>1
    <3>2. /\ UNCHANGED <<dispVars, post, wire, dialer, toManager, conn, taskVars>>
          /\ sock[w] \in Conns /\ wire[sock[w]] = "open"
          /\ toWorker' = Written(toWorker, sock[w], StatusRequest)
      BY <3>1, SocketTypes DEF Poll, storeVars, managerVars, apiVars
    <3>3. Fine(sock[w], StatusRequest)
      BY <3>2 DEF Fine, StatusRequest
    <3> QED
      BY <1>5, <1>6, <1>9, <3>2, <3>3
  <2> QED
    BY <1>5, <1>7, <1>8, <1>12, <2>1
    DEF Verify, VerifyForget, VerifyDown, VerifyCount, VerifyOrphan, VerifyMissing, apiVars, storeVars
<1>13. ASSUME NEW t \in Tasks, HandleTaskPost(t)  PROVE CopyInv'
  <2>1. UNCHANGED <<wireVars, dispVars>>
    BY <1>13 DEF HandleTaskPost, PostTask, PostCheck, PostInsert, managerVars
  <2>2. PostsPending'
    <3>1. CASE PostTask(t)
      BY <1>0, <3>1 DEF PostTask, AddTask, managerVars, apiVars, CopyInv, PostsPending, TaskTableTypeOK
    <3>2. CASE PostInsert(t)
      BY <1>0, <3>2 DEF PostInsert, AddTask, CopyInv, PostsPending, TaskTableTypeOK, TypeInv,
         TypeOK, ManagerTypeOK, ApiTypeOK
    <3>3. CASE \E w \in Workers : PostCheck(t, w)
      BY <3>3 DEF PostCheck, CopyInv, PostsPending, storeVars, taskVars, TypeInv, TypeOK,
         ManagerTypeOK, ApiTypeOK
    <3> QED
      BY <1>13, <3>1, <3>2, <3>3 DEF HandleTaskPost
  <2> QED
    BY <1>2, <1>3, <1>4, <2>1, <2>2 DEF CopyInv
<1>14. ASSUME NEW t \in Tasks, HandleTaskDelete(t)  PROVE CopyInv'
  <2>1. CASE DeleteSend(t)
    <3> DEFINE c == sock[del[t].worker]
    <3>1. /\ UNCHANGED <<dispVars, post, wire, dialer, toManager, conn, taskVars>>
          /\ toWorker' = Written(toWorker, c, DeleteTaskMsg(t)) \/ UNCHANGED toWorker
      BY <2>1 DEF DeleteSend, storeVars
    <3>2. Fine(c, DeleteTaskMsg(t)) \/ wire[c] # "open"
      BY DEF Fine, DeleteTaskMsg
    <3> HIDE DEF c
    <3>3. OnlyFine
      <4>1. CASE c \in Conns /\ toWorker' = Written(toWorker, c, DeleteTaskMsg(t))
        BY <1>9, <3>2, <4>1
      <4>2. c \notin Conns => Written(toWorker, c, DeleteTaskMsg(t)) = toWorker
        BY <1>0 DEF Written
      <4>3. CASE toWorker' = toWorker
        BY <4>3
      <4> QED
        BY <3>1, <4>1, <4>2, <4>3
    <3> QED
      BY <1>5, <1>6, <3>1, <3>3
  <2> QED
    BY <1>5, <1>7, <1>8, <1>14, <2>1
    DEF HandleTaskDelete, DeleteRead, DeleteSent, DeleteMark, storeVars
<1>15. CASE \/ \E w \in Workers : HandleWorkerDelete(w) \/ HandleWorkerPost(w)
            \/ HistoryCount \/ HistoryDelete
  BY <1>5, <1>7, <1>8, <1>15
  DEF HandleWorkerDelete, HandleWorkerPost, HistoryCount, HistoryDelete, storeVars, managerVars, apiVars
<1>16. CASE ManagerRestart
  <2>1. /\ UNCHANGED <<dialer, conn, toWorker>> /\ UsedStays
        /\ dpc' = "tasks" /\ batch' = <<>> /\ post' = [t \in Tasks |-> NoWorker]
        /\ toManager' = [d \in Conns |-> <<>>]
    BY <1>16, SocketTypes DEF ManagerRestart
  <2>2. OnlyRead
    <3>1. \A d \in Conns : On(toManager', d) = {}
      BY <1>0, <2>1, CarriesFacts
    <3> QED
      BY <3>1
  <2>3. OnlyFine
    BY <2>1
  <2> QED
    BY <1>2, <2>1, <2>2, <2>3 DEF CopyInv, PostsPending, BatchAllowed, CandidateMatches
<1>17. CASE Dispatch
  <2>1. /\ UNCHANGED <<post, wire, dialer, toManager, conn>>
        /\ UsedStays /\ OnlyRead
    BY <1>17 DEF Dispatch, ReadTasks, ReadWorkers, NextWorkers, NextTask, Pick, Send, SendFails,
       Mark, wireVars, apiVars
  <2>2. /\ Head(batch) = batch[1] \/ dpc = "tasks"
        /\ 1 \in DOMAIN batch \/ dpc = "tasks"
        /\ batch \in Seq([id : Tasks, worker : WorkerNames])
    BY BatchTyped DEF TypeInv, TypeOK, ManagerTypeOK, DispatcherTypeOK
  <2>3. AbsentStays
    <3>1. CASE Mark
      <4>1. Head(batch).id \in Tasks
        BY <2>2, <3>1, BatchTyped DEF Mark
      <4> QED
        BY <1>8, <3>1, <4>1 DEF Mark
    <3>2. CASE ~Mark
      <4>1. UNCHANGED taskStatus
        BY <1>17, <3>2 DEF Dispatch, ReadTasks, ReadWorkers, NextWorkers, NextTask, Pick, Send,
           SendFails, storeVars, taskVars
      <4> QED
        BY <4>1
    <3> QED
      BY <3>1, <3>2
  <2>4. OnlyFine
    <3>1. CASE Send
      <4> DEFINE m == AddTaskMsg(Head(batch).id, cand)
      <4>1. /\ sock[cand] # NoConn /\ toWorker' = Written(toWorker, sock[cand], m)
            /\ cand \in Workers
        BY <3>1 DEF Send, DispatchInv, CandidateTried
      <4>2. sock[cand] \in Conns /\ dialer[sock[cand]] = cand
        BY <4>1, SocketTypes DEF SocketInv, SocketHasReader
      <4>3. m.type = "addTask" /\ m.worker = cand
        BY DEF AddTaskMsg
      <4> HIDE DEF m
      <4>4. wire[sock[cand]] = "open" => Fine(sock[cand], m)
        BY <4>1, <4>2, <4>3 DEF Fine
      <4> QED
        BY <1>9, <4>1, <4>2, <4>4
    <3>2. CASE ~Send
      <4>1. UNCHANGED toWorker
        BY <1>17, <3>2 DEF Dispatch, ReadTasks, ReadWorkers, NextWorkers, NextTask, Pick, Mark,
           SendFails, wireVars
      <4> QED
        BY <4>1
    <3> QED
      BY <3>1, <3>2
  <2>5. CandidateMatches'
    <3>1. CASE \E w \in Workers : Pick(w)
      BY <3>1 DEF Pick, Matches, CandidateMatches
    <3>2. CASE ~\E w \in Workers : Pick(w)
      <4>1. dpc' # "send"
        BY <1>17, <3>2 DEF Dispatch, ReadTasks, ReadWorkers, NextWorkers, NextTask, Send, SendFails, Mark
      <4> QED
        BY <4>1 DEF CandidateMatches
    <3> QED
      BY <3>1, <3>2
  <2>6. BatchAllowed'
    <3>1. CASE ReadTasks
      <4>1. PICK b \in GetTasksPending(WorkersThreads) :
              batch' = [i \in DOMAIN b |-> [id |-> b[i], worker |-> taskWorker[b[i]]]]
        BY <3>1 DEF ReadTasks
      <4>2. b \in Seq(Tasks) /\ \A i \in 1 .. Len(b) : taskStatus[b[i]] = "pending"
        BY PendingBatch DEF TypeInv, TypeOK
      <4>3. /\ DOMAIN batch' = 1 .. Len(b) /\ UNCHANGED <<taskStatus, pinned>>
            /\ \A i \in 1 .. Len(b) : /\ batch'[i].id = b[i] /\ b[i] \in Tasks
                                      /\ batch'[i].worker = taskWorker[b[i]]
        BY <3>1, <4>1, <4>2 DEF ReadTasks, storeVars, taskVars
      <4> QED
        BY <4>2, <4>3 DEF BatchAllowed, QueueInv, NamesPin
    <3>2. CASE ReadWorkers \/ NextWorkers
      <4>1. UNCHANGED <<taskStatus, pinned>> /\ dpc # "tasks"
            /\ (batch' = <<>> \/ batch' = batch \/ batch' = Tail(batch))
        BY <3>2 DEF ReadWorkers, NextWorkers, NextTask, storeVars, taskVars
      <4>2. \A i \in DOMAIN Tail(batch) : Tail(batch)[i] = batch[i + 1] /\ i + 1 \in DOMAIN batch
        BY <2>2, <4>1
      <4>3. CASE batch' = <<>>
        BY <4>3 DEF BatchAllowed
      <4>4. CASE batch' = batch
        BY <4>1, <4>4 DEF CopyInv, BatchAllowed
      <4>5. CASE batch' = Tail(batch)
        BY <4>1, <4>2, <4>5 DEF CopyInv, BatchAllowed
      <4> QED
        BY <4>1, <4>3, <4>4, <4>5
    <3>3. CASE Send
      <4>1. /\ dpc = "send" /\ UNCHANGED <<taskStatus, pinned>>
            /\ batch' = [batch EXCEPT ![1] = [id |-> Head(batch).id, worker |-> cand]]
        BY <3>3 DEF Send
      <4>2. /\ DOMAIN batch' = DOMAIN batch /\ Head(batch) = batch[1]
            /\ batch'[1].id = batch[1].id /\ batch'[1].worker = cand
            /\ \A i \in DOMAIN batch : i # 1 => batch'[i] = batch[i]
        BY <2>2, <4>1
      <4>3. batch[1].worker \in {NoWorker, cand}
        BY <4>1, <4>2 DEF CopyInv, CandidateMatches
      <4> QED
        BY <2>2, <4>1, <4>2, <4>3 DEF CopyInv, BatchAllowed
    <3>4. CASE (\E w \in Workers : Pick(w)) \/ SendFails \/ Mark
      <4>1. UNCHANGED batch
        BY <3>4 DEF Pick, SendFails, Mark
      <4> QED
        BY <4>1, BatchTyped DEF CopyInv, BatchAllowed, QueueGrows
    <3> QED
      BY <1>17, <3>1, <3>2, <3>3, <3>4 DEF Dispatch
  <2> QED
    BY <1>1, <1>2, <2>1, <2>3, <2>4, <2>5, <2>6 DEF CopyInv
<1> QED
  BY <1>10, <1>11, <1>12, <1>13, <1>14, <1>15, <1>16, <1>17 DEF ManagerNext

-----------------------------------------------------------------------------
(* The theorems.                                                           *)

\* The system, in whatever instance, implements the task queue (ImplementsTaskQueue,
\* NTask.tla).
THEOREM QueueImplemented == Spec => []Inv /\ ImplementsTaskQueue
<1>1. Init => QueueInv /\ CopyInv /\ Queue!Init
  <2> SUFFICES ASSUME Init  PROVE QueueInv /\ CopyInv /\ Queue!Init
    OBVIOUS
  <2> USE DEF Init, StoreInit, WireInit, ManagerInit, WorkerInit
  <2>1. \A c \in Conns : On(toWorker, c) = {} /\ On(toManager, c) = {}
    BY DEF On
  <2>2. \A t : RunsOf(t) = {}
    BY DEF RunsOf
  <2>3. Copies = [t \in Tasks |-> {}] /\ Refusals = {} /\ Outcomes = [t \in Tasks |-> {}]
    BY <2>2 DEF Copies, CopiesOf, Carries, Refusals, Outcomes, OutcomesOf
  <2>4. QueueInv
    BY <2>3 DEF QueueInv, NamesPin, HeldByAllowed, ResultsReported, Results
  <2>5. CopyInv
    BY <2>1 DEF CopyInv, PostsPending, BatchAllowed, CandidateMatches, MessagesOwn, RunsOwn,
       CallbacksReported, ConnsDialled, UnusedEmpty
  <2>6. Queue!Init
    BY <2>3 DEF Queue!Init
  <2> QED
    BY <2>4, <2>5, <2>6
<1>2. Inv /\ [Next]_vars => QueueInv' /\ CopyInv' /\ [Queue!Next]_(Queue!vars)
  <2> SUFFICES ASSUME Inv, [Next]_vars
               PROVE  QueueInv' /\ CopyInv' /\ [Queue!Next]_(Queue!vars)
    OBVIOUS
  <2> USE DEF Inv
  <2>0. ASSUME [Queue!Next]_(Queue!vars)  PROVE QueueInv' /\ QueueGrows
    BY <2>0, MappedParts, QueueKeeps DEF TypeInv, TypeOK, StoreTypeOK
  <2>1. CASE ManagerNext /\ UNCHANGED workerProcVars
    <3>1. [Queue!Next]_(Queue!vars)
      BY <2>1, DispatcherMapped, ManagerMapped
    <3> QED
      BY <2>0, <2>1, <3>1, ManagerCopies
  <2>2. CASE WorkerNext /\ UNCHANGED <<storeVars, managerVars>>
    BY <2>0, <2>2, WorkersMapped
  <2>3. CASE \E c \in Conns : Cut(c)
    <3>1. PICK c \in Conns : Cut(c)
      BY <2>3
    <3>2. /\ UNCHANGED <<taskVars, dispVars, post, dialer, toWorker, toManager, conn, runs>>
          /\ wire[c] = "open" /\ wire' = [wire EXCEPT ![c] = "broken"]
      BY <3>1 DEF Cut, Break, storeVars, managerVars, apiVars, workerProcVars
    <3>3. UNCHANGED Queue!vars
      BY <3>2, MappedParts
    <3>4. UNCHANGED Outcomes
      BY <3>2, MappedParts
    <3>5. CopyInv'
      <4>1. PostsPending' /\ BatchAllowed' /\ CandidateMatches' /\ RunsOwn'
        BY <3>2 DEF CopyInv, PostsPending, BatchAllowed, CandidateMatches, RunsOwn, taskVars, dispVars
      <4>2. MessagesOwn' /\ CallbacksReported'
        BY <3>2, <3>4 DEF CopyInv, MessagesOwn, CallbacksReported
      <4>3. ConnsDialled' /\ UnusedEmpty'
        BY <3>2, SocketTypes DEF CopyInv, ConnsDialled, UnusedEmpty
      <4> QED
        BY <4>1, <4>2, <4>3 DEF CopyInv
    <3> QED
      BY <2>0, <3>3, <3>5
  <2>4. CASE UNCHANGED vars
    <3>1. UNCHANGED <<taskVars, dispVars, post, wireVars, runs>>
      BY <2>4 DEF vars, storeVars, managerVars, apiVars, workerProcVars
    <3>2. UNCHANGED Queue!vars /\ UNCHANGED Outcomes
      BY <3>1, MappedParts DEF wireVars
    <3>3. CopyInv'
      BY <3>1, <3>2
      DEF CopyInv, PostsPending, BatchAllowed, CandidateMatches, MessagesOwn, RunsOwn,
          CallbacksReported, ConnsDialled, UnusedEmpty, taskVars, dispVars, wireVars
    <3> QED
      BY <2>0, <3>2, <3>3
  <2> QED
    BY <2>1, <2>2, <2>3, <2>4 DEF Next
<1>3. Spec => [](TypeInv /\ DispatchInv) /\ []SocketInv
  BY SentOnce, SocketsAreRead, PTL
<1>4. TypeInv /\ DispatchInv /\ SocketInv /\ QueueInv /\ CopyInv <=> Inv
  BY DEF Inv
<1> QED
  BY <1>1, <1>2, <1>3, <1>4, PTL DEF Spec, ImplementsTaskQueue, Queue!Spec

\* A task posted for a worker is on its way to, or run by, no other, whatever the
\* instance (PinRespected, NTask.tla).
THEOREM PinsRespected == Spec => []PinRespected
<1>1. Inv => PinRespected
  <2> SUFFICES ASSUME Inv, NEW t \in Tasks, pinned[t] # NoWorker
               PROVE  /\ taskWorker[t] = pinned[t]
                      /\ \A i \in DOMAIN batch : batch[i].id = t => batch[i].worker = pinned[t]
                      /\ \A c \in Conns : \A i \in DOMAIN toWorker[c] :
                            LET m == toWorker[c][i]
                            IN  m.type = "addTask" /\ m.task = t => dialer[c] = pinned[t]
                      /\ \A r \in DOMAIN runs : runs[r].task = t => runs[r].at = pinned[t]
    BY DEF PinRespected
  <2> USE DEF Inv
  <2>1. taskWorker[t] = pinned[t]
    BY DEF QueueInv, NamesPin
  <2>2. \A i \in DOMAIN batch : batch[i].id = t => batch[i].worker = pinned[t]
    BY DEF CopyInv, BatchAllowed
  <2>3. \A w \in Copies[t] : w = pinned[t]
    BY DEF QueueInv, HeldByAllowed, Allowed
  <2>4. ASSUME NEW c \in Conns, NEW i \in DOMAIN toWorker[c],
               toWorker[c][i].type = "addTask", toWorker[c][i].task = t
        PROVE  dialer[c] = pinned[t]
    <3> DEFINE m == toWorker[c][i]
    <3>1. m \in ToWorkerMsg
      BY ElementOfSeq DEF TypeInv, TypeOK, WireTypeOK
    <3>2. m \in On(toWorker, c)
      BY DEF On
    <3>3. dialer[c] \in Workers /\ m.worker = dialer[c]
      BY <2>4, <3>2 DEF CopyInv, MessagesOwn
    <3>4. m = AddTaskMsg(t, dialer[c])
      BY <2>4, <3>1, <3>3, MessageFields
    <3>5. dialer[c] \in Copies[t]
      BY <3>3, <3>4 DEF Copies, CopiesOf, Carries
    <3> QED
      BY <2>3, <3>5
  <2>5. ASSUME NEW r \in DOMAIN runs, runs[r].task = t  PROVE runs[r].at = pinned[t]
    <3>1. runs[r].at \in Workers
      <4>1. runs[r] \in RunRecord
        BY DEF TypeInv, TypeOK, WorkerTypeOK
      <4> QED
        BY <4>1 DEF RunRecord
    <3>2. runs[r].at \in Copies[t]
      BY <2>5, <3>1 DEF Copies, CopiesOf, RunsOf
    <3> QED
      BY <2>3, <3>2
  <2> QED
    BY <2>1, <2>2, <2>4, <2>5
<1> QED
  BY <1>1, QueueImplemented, PTL

\* A result in the table is one a worker reported for that task, whatever the
\* instance (ResultFromExecution, NTask.tla).
THEOREM ResultsFromExecution == Spec => []ResultFromExecution
<1>1. Inv => ResultFromExecution
  <2> SUFFICES ASSUME Inv, NEW t \in Tasks, taskStatus[t] \in Results
               PROVE  \E r \in DOMAIN runs :
                         /\ runs[r].task = t
                         /\ runs[r].sent /\ runs[r].outcome = taskStatus[t]
                         /\ taskWorker[t] \in {runs[r].at, NoWorker}
    BY DEF ResultFromExecution
  <2>1. PICK w \in Workers : /\ <<w, taskStatus[t]>> \in Outcomes[t]
                             /\ taskWorker[t] \in {w, NoWorker}
    BY DEF Inv, QueueInv, ResultsReported
  <2>2. PICK r \in RunsOf(t) : runs[r].sent /\ <<w, taskStatus[t]>> = <<runs[r].at, runs[r].outcome>>
    BY <2>1 DEF Outcomes, OutcomesOf
  <2> QED
    BY <2>1, <2>2 DEF RunsOf
<1> QED
  BY <1>1, QueueImplemented, PTL

\* Only a running task or a refused one is put back to pending, and only a done one
\* is trimmed, for ever, because each step of the task queue is such (TaskLifecycle,
\* NTask.tla).
THEOREM LifecycleKept == Spec => TaskLifecycle
<1> DEFINE Fine(t) ==
       taskStatus'[t] # taskStatus[t] =>
          \/ taskStatus[t] = "absent" /\ taskStatus'[t] = "pending"
          \/ taskStatus[t] = "done" /\ taskStatus'[t] = "trimmed"
          \/ /\ TaskRow(t)
             /\ \/ taskStatus'[t] \in {"running", "deleted"}
                \/ taskStatus'[t] = "pending" /\ (taskStatus[t] = "running" \/ t \in Refusals)
                \/ \E w \in Workers : <<w, taskStatus'[t]>> \in Outcomes[t]
<1>1. ASSUME Inv, [Queue!Next]_(Queue!vars)
      PROVE  \A t \in Tasks : Fine(t)
  <2> USE <1>1 DEF TaskRow, Queue!HasRow
  <2>0. taskStatus \in [Tasks -> Statuses]
    BY DEF Inv, TypeInv, TypeOK, StoreTypeOK, TaskTableTypeOK
  <2>1. ASSUME NEW t \in Tasks,
               \/ Queue!Delete(t) \/ Queue!TakeBack(t)
               \/ \E w \in Queue!Names : Queue!Post(t, w)
               \/ \E w \in Workers : Queue!Start(t, w) \/ \E x \in Queue!Results : Queue!Finish(t, w, x)
        PROVE  \A s \in Tasks : Fine(s)
    BY <2>0, <2>1
    DEF Queue!Delete, Queue!TakeBack, Queue!PutBack, Queue!Post, Queue!Start, Queue!Finish
  <2>2. ASSUME NEW w, Queue!Requeue(w)  PROVE \A s \in Tasks : Fine(s)
    BY <2>0, <2>2 DEF Queue!Requeue, Queue!PutBack, Queue!Running
  <2>3. ASSUME NEW T \in SUBSET Tasks, Queue!Trim(T)  PROVE \A s \in Tasks : Fine(s)
    BY <2>0, <2>3 DEF Queue!Trim
  <2>4. CASE Queue!Restart
    BY <2>0, <2>4 DEF Queue!Restart
  <2>5. CASE UNCHANGED taskStatus
    BY <2>5
  <2> HIDE DEF Fine
  <2>6. ASSUME NEW t \in Tasks,
               \/ Queue!OfferForgotten(t) \/ Queue!Refuse(t)
               \/ \E w \in Workers : Queue!Offer(t, w) \/ \E x \in Queue!Results : Queue!Report(t, w, x)
        PROVE  UNCHANGED taskStatus
    BY <2>6 DEF Queue!OfferForgotten, Queue!Refuse, Queue!Offer, Queue!Report, Queue!row
  <2>7. CASE Queue!Lose \/ (\E w \in Queue!Names : Queue!ForgetName(w)) \/ UNCHANGED Queue!vars
    BY <2>5, <2>7 DEF Queue!Lose, Queue!ForgetName, Queue!vars, Queue!row
  <2> QED
    BY <2>1, <2>2, <2>3, <2>4, <2>5, <2>6, <2>7 DEF Queue!Next
<1>2. Inv /\ [Queue!Next]_(Queue!vars) => [\A t \in Tasks : Fine(t)]_vars
  BY <1>1
<1> QED
  BY <1>2, QueueImplemented, PTL DEF ImplementsTaskQueue, Queue!Spec, TaskLifecycle
=============================================================================
