----------------------------- MODULE MCThreadPool -----------------------------
(* The thread pool with two workers; a task of main() submits one of its own. *)
EXTENDS ThreadPool

CONSTANTS t1, t2, t3, t4

MCMainTasks == <<t1, t2, t3>>
MCChild == [t \in Tasks |-> IF t = t1 THEN t4 ELSE NoTask]
=============================================================================
