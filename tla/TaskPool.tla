------------------------------- MODULE TaskPool -------------------------------
(***************************************************************************)
(* What every executor of the repository promises about the tasks handed   *)
(* to it: a task is accepted while the pool is open, is run by one worker, *)
(* once, and the destructor returns only when no task is running and, for  *)
(* a pool that drains its queue, when none is left in it.                  *)
(* ThreadPool, WorkStealingPool and PriorityScheduler implement it.        *)
(***************************************************************************)
CONSTANTS Tasks,      \* the tasks clients submit, each at most once
          Drains      \* TRUE: the destructor runs what is still queued

VARIABLES open,       \* submissions are still accepted
          status,     \* how far each task got
          joined      \* the destructor has returned

vars == <<open, status, joined>>

Init == /\ open = TRUE
        /\ status = [t \in Tasks |-> "new"]
        /\ joined = FALSE

Becomes(t, from, to) == /\ status[t] = from
                        /\ status' = [status EXCEPT ![t] = to]

Submit(t) == open /\ Becomes(t, "new", "queued") /\ UNCHANGED <<open, joined>>

Start(t) == ~joined /\ Becomes(t, "queued", "running") /\ UNCHANGED <<open, joined>>

Finish(t) == ~joined /\ Becomes(t, "running", "done") /\ UNCHANGED <<open, joined>>

Close == open /\ open' = FALSE /\ UNCHANGED <<status, joined>>

Join == /\ ~open /\ ~joined
        /\ \A t \in Tasks : status[t] # "running" /\ (Drains => status[t] # "queued")
        /\ joined' = TRUE
        /\ UNCHANGED <<open, status>>

Next == \/ \E t \in Tasks : Submit(t) \/ Start(t) \/ Finish(t)
        \/ Close
        \/ Join

Spec == Init /\ [][Next]_vars
=============================================================================
