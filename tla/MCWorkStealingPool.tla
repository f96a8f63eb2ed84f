-------------------------- MODULE MCWorkStealingPool --------------------------
(* Two workers, three tasks of Main, one of them endless, and a nested submission. *)
EXTENDS WorkStealingPool

CONSTANTS t1, t2, t3, t4

MCMainTasks == <<t1, t2, t3>>
MCChild == [t \in Tasks |-> IF t = t2 THEN t4 ELSE NoTask]
=============================================================================
