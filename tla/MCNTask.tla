------------------------------ MODULE MCNTask ------------------------------
(***************************************************************************)
(* Small instances of NTask for TLC.                                       *)
(***************************************************************************)
EXTENDS NTask, TLC

CONSTANTS t1, t2, w1, w2

\* All tasks have the same priority; or t1 comes first.
SamePriority == [t \in Tasks |-> 0]
FirstComesT1 == [t \in Tasks |-> IF t = t1 THEN 1 ELSE 0]

\* Users name no worker; they name w1 for t1.
Unpinned  == [t \in Tasks |-> {NoWorker}]
PinnedT1  == [t \in Tasks |-> IF t = t1 THEN {w1} ELSE {NoWorker}]
=============================================================================
