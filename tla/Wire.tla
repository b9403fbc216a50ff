-------------------------------- MODULE Wire --------------------------------
(***************************************************************************)
(* The websocket connections between the workers and the manager.  A       *)
(* connection is created by a worker (CreateConnection), carries messages  *)
(* in order both ways, and is broken once: by the network, by a missed     *)
(* heartbeat on either side, by a Close, or by the death of a process.     *)
(* After the break a side may still read what had reached it, a write      *)
(* either fails or is silently lost, and what is not read is lost.  The    *)
(* transport is external to the repository (gorilla/websocket over TCP).   *)
(***************************************************************************)
EXTENDS GlobalStructs

CONSTANTS
    MaxConns,       \* bound: how many connections a behaviour may create
    MaxQueue        \* bound: how many messages wait for a worker on one of them

ASSUME MaxConnsAssumption == MaxConns \in Nat \ {0}
ASSUME MaxQueueAssumption == MaxQueue \in Nat

Conns  == 1 .. MaxConns
NoConn == 0

VARIABLES
    wire,           \* wire[c]: "unused", "open" or "broken"
    dialer,         \* dialer[c]: the worker that created c
    toWorker,       \* toWorker[c]: messages on their way to the worker
    toManager,      \* toManager[c]: messages on their way to the manager
    conn            \* conn[w]: config.Conn of worker w

wireVars == <<wire, dialer, toWorker, toManager, conn>>

WireInit ==
    /\ wire      = [c \in Conns |-> "unused"]
    /\ dialer    = [c \in Conns |-> NoWorker]
    /\ toWorker  = [c \in Conns |-> <<>>]
    /\ toManager = [c \in Conns |-> <<>>]
    /\ conn      = [w \in Workers |-> NoConn]

WireTypeOK ==
    /\ wire \in [Conns -> {"unused", "open", "broken"}]
    /\ dialer \in [Conns -> WorkerNames]
    /\ toWorker \in [Conns -> Seq(ToWorkerMsg)]
    /\ toManager \in [Conns -> Seq(ToManagerMsg)]
    /\ conn \in [Workers -> Conns \union {NoConn}]

\* A write to a worker waits while its queue is full.
RoomFor(c) == Len(toWorker[c]) < MaxQueue

\* The queues of the connections after m is written to c.
Written(queues, c, m) ==
    IF wire[c] = "open" THEN [queues EXCEPT ![c] = Append(@, m)] ELSE queues

\* The queues after the first message of c is read.
Consumed(queues, c) == [queues EXCEPT ![c] = Tail(@)]

Break(c) == wire' = [wire EXCEPT ![c] = "broken"]

\* Bound: failures happen only while one more connection can be created, so that
\* the last one lasts.
SpareConn == wire[MaxConns] = "unused"

\* A new connection c of worker w, with m as its first message to the manager.
\* What the worker had not read from its previous connection is lost.
Dial(w, c, m) ==
    /\ wire[c] = "unused"
    /\ \A d \in Conns : d < c => wire[d] # "unused"
    /\ wire'      = [wire EXCEPT ![c] = "open"]
    /\ dialer'    = [dialer EXCEPT ![c] = w]
    /\ toManager' = [toManager EXCEPT ![c] = <<m>>]
    /\ toWorker'  = [d \in Conns |-> IF d = conn[w] THEN <<>> ELSE toWorker[d]]
    /\ conn'      = [conn EXCEPT ![w] = c]
=============================================================================
