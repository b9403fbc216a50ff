----------------------------- MODULE TaskQueue -----------------------------
(***************************************************************************)
(* What nTask promises its users about a task, without the dispatcher, the *)
(* database statements and the connections: an at-least-once queue.        *)
(*                                                                         *)
(* A posted task is offered to one worker, and to another only after it    *)
(* was put back: because the worker refused it, was lost or removed,       *)
(* because the manager restarted, or because the offer was not recorded.   *)
(* A task posted for a worker is offered to that worker alone.  A result   *)
(* is one that a worker with a copy of the task has reported.  Only tasks  *)
(* that are done are ever removed.  Copies, refusals and the memory of     *)
(* what was offered may get lost at any time; results stay.                *)
(***************************************************************************)
CONSTANTS Tasks, Workers, NoWorker

VARIABLES
    status,     \* status[t], "absent" before t is posted, "trimmed" once removed
    owner,      \* owner[t]: the worker the queue names for t
    pin,        \* pin[t]: the worker t was posted for, if any
    offered,    \* offered[t]: has t been offered since it was last put back
    copies,     \* copies[t]: the workers that t is on its way to or was accepted by
    refused,    \* the tasks a refusal of which is on its way
    outcomes    \* outcomes[t]: what workers have reported of t

row  == <<status, owner, pin>>
vars == <<row, offered, copies, refused, outcomes>>

Names   == Workers \union {NoWorker}
Results == {"done", "failed"}

HasRow(t) == status[t] \notin {"absent", "trimmed"}
MayGoTo(t, w) == pin[t] \in {NoWorker, w}
Running(w) == {t \in Tasks : status[t] = "running" /\ owner[t] = w}

Init ==
    /\ status   = [t \in Tasks |-> "absent"]
    /\ owner    = [t \in Tasks |-> NoWorker]
    /\ pin      = [t \in Tasks |-> NoWorker]
    /\ offered  = [t \in Tasks |-> FALSE]
    /\ copies   = [t \in Tasks |-> {}]
    /\ refused  = {}
    /\ outcomes = [t \in Tasks |-> {}]

\* Copies may disappear at any time.
SomeCopiesLost ==
    /\ copies' \in [Tasks -> SUBSET Workers]
    /\ \A t \in Tasks : copies'[t] \subseteq copies[t]

PutBack(T) ==
    /\ status'  = [t \in Tasks |-> IF t \in T THEN "pending" ELSE status[t]]
    /\ offered' = [t \in Tasks |-> offered[t] /\ t \notin T]

-----------------------------------------------------------------------------
(* What users do.                                                          *)

Post(t, w) ==
    /\ status[t] = "absent"
    /\ status'  = [status EXCEPT ![t] = "pending"]
    /\ owner'   = [owner EXCEPT ![t] = w]
    /\ pin'     = [pin EXCEPT ![t] = w]
    /\ offered' = [offered EXCEPT ![t] = FALSE]
    /\ UNCHANGED <<copies, refused, outcomes>>

Delete(t) ==
    /\ HasRow(t)
    /\ status' = [status EXCEPT ![t] = "deleted"]
    /\ UNCHANGED <<owner, pin, offered, copies, refused, outcomes>>

-----------------------------------------------------------------------------
(* What the queue does.                                                    *)

Offer(t, w) ==
    /\ status[t] # "absent" /\ ~offered[t] /\ MayGoTo(t, w)
    /\ offered' = [offered EXCEPT ![t] = TRUE]
    /\ copies' \in {copies, [copies EXCEPT ![t] = @ \union {w}]}
    /\ UNCHANGED <<row, refused, outcomes>>

OfferForgotten(t) ==
    /\ offered' = [offered EXCEPT ![t] = FALSE]
    /\ UNCHANGED <<row, copies, refused, outcomes>>

Start(t, w) ==
    /\ HasRow(t) /\ MayGoTo(t, w)
    /\ status' = [status EXCEPT ![t] = "running"]
    /\ owner'  = [owner EXCEPT ![t] = w]
    /\ UNCHANGED <<pin, offered, copies, refused, outcomes>>

Finish(t, w, result) ==
    /\ HasRow(t) /\ <<w, result>> \in outcomes[t]
    /\ status' = [status EXCEPT ![t] = result]
    /\ owner'  = [owner EXCEPT ![t] = w]
    /\ UNCHANGED <<pin, offered, copies, refused, outcomes>>

TakeBack(t) ==
    /\ HasRow(t) /\ t \in refused
    /\ PutBack({t})
    /\ refused' \in {refused, refused \ {t}}
    /\ UNCHANGED <<owner, pin, copies, outcomes>>

\* A worker is lost or being removed.
Requeue(w) ==
    /\ PutBack(Running(w))
    /\ UNCHANGED <<owner, pin, copies, refused, outcomes>>

ForgetName(w) ==
    /\ owner' = [t \in Tasks |-> IF owner[t] = w THEN NoWorker ELSE owner[t]]
    /\ pin'   = [t \in Tasks |-> IF pin[t] = w THEN NoWorker ELSE pin[t]]
    /\ UNCHANGED <<status, offered, copies, refused, outcomes>>

Trim(T) ==
    /\ T \subseteq {t \in Tasks : status[t] = "done"}
    /\ status' = [t \in Tasks |-> IF t \in T THEN "trimmed" ELSE status[t]]
    /\ UNCHANGED <<owner, pin, offered, copies, refused, outcomes>>

Restart ==
    /\ status'  = [t \in Tasks |-> IF status[t] = "running" THEN "pending" ELSE status[t]]
    /\ offered' = [t \in Tasks |-> FALSE]
    /\ refused' = {}
    /\ UNCHANGED <<owner, pin, copies, outcomes>>

-----------------------------------------------------------------------------
(* What workers do, and what gets lost.                                    *)

Refuse(t) ==
    /\ copies[t] # {}
    /\ UNCHANGED <<row, offered, outcomes>>
    /\ refused' = refused \union {t}
    /\ SomeCopiesLost

Report(t, w, result) ==
    /\ w \in copies[t]
    /\ outcomes' = [outcomes EXCEPT ![t] = @ \union {<<w, result>>}]
    /\ UNCHANGED <<row, offered, copies, refused>>

Lose ==
    /\ UNCHANGED <<row, offered, outcomes>>
    /\ refused' \in SUBSET refused
    /\ SomeCopiesLost

Next ==
    \/ Lose
    \/ \E t \in Tasks :
          \/ Delete(t) \/ OfferForgotten(t) \/ TakeBack(t) \/ Refuse(t)
          \/ \E w \in Names : Post(t, w)
          \/ \E w \in Workers :
                \/ Offer(t, w) \/ Start(t, w)
                \/ \E result \in Results : Report(t, w, result) \/ Finish(t, w, result)
    \/ \E w \in Names : Requeue(w) \/ ForgetName(w)
    \/ \E T \in SUBSET Tasks : Trim(T)
    \/ Restart

Spec == Init /\ [][Next]_vars
=============================================================================
