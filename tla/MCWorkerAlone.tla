--------------------------- MODULE MCWorkerAlone ---------------------------
(***************************************************************************)
(* Small instances of WorkerAlone for TLC.                                 *)
(***************************************************************************)
EXTENDS WorkerAlone, TLC

CONSTANTS t1, t2, w1

SamePriority == [t \in Tasks |-> 0]
=============================================================================
