-------------------------- MODULE PriorityScheduler --------------------------
(* priority_task_scheduler: a priority queue of timed tasks, workers that sleep until
   the task at its top is due, and a destructor that drains it.  A critical section of
   schedulerMutex is one step (everything the workers wait for is written under it);
   reading the clock for a submission, notifying and timing out are steps apart. *)
EXTENDS Naturals, Sequences, FiniteSets

CONSTANTS Workers,
          Main,        \* the thread that builds, feeds and destroys the scheduler
          Script,      \* what Main submits, in order: [priority, delay]
          MaxTime,     \* bound on the time that passes without a task to wait for
          MaxSpurious  \* bound on the wakeups nobody asked for

Tasks == DOMAIN Script   \* taskId
NoTask == 0
Priorities == 0..3       \* LOW, MEDIUM, HIGH, CRITICAL

ASSUME PrioritySchedulerAssumption ==
  /\ Workers # {} /\ Main \notin Workers
  /\ Script \in Seq([priority : Priorities, delay : Nat])
  /\ MaxTime \in Nat /\ MaxSpurious \in Nat

VARIABLES pc,
          now,                  \* steady_clock
          priorityTaskQueue,    \* the tasks in it
          startTime,            \* of each task, once submitted
          isShutdownRequested,
          taskToRun,            \* of each worker
          wakeAt,               \* what each worker passed to wait_until
          submitted,            \* how far Main is in Script
          started,              \* history: the tasks some worker took
          spurious

queue == <<priorityTaskQueue, startTime, submitted>>
run   == <<taskToRun, started>>
vars  == <<pc, now, queue, isShutdownRequested, run, wakeAt, spurious>>

Init == /\ pc = [t \in Workers \cup {Main} |-> IF t = Main THEN "submit" ELSE "lock"]
        /\ now = 0
        /\ priorityTaskQueue = {}
        /\ startTime = [t \in Tasks |-> 0]
        /\ isShutdownRequested = FALSE
        /\ taskToRun = [w \in Workers |-> NoTask]
        /\ wakeAt = [w \in Workers |-> 0]
        /\ submitted = 0 /\ started = {} /\ spurious = 0

-----------------------------------------------------------------------------
Goto(t, from, to) == pc[t] = from /\ pc' = [pc EXCEPT ![t] = to]

Asleep == {w \in Workers : pc[w] \in {"waiting", "timed"}}

\* Task::operator<, the order of the queue: priority first, then the earlier start.
LessBug(t, u) == startTime[t] > startTime[u]   \* mutant: compares times only
Less(t, u) == \/ Script[t].priority < Script[u].priority
              \/ Script[t].priority = Script[u].priority /\ startTime[t] > startTime[u]

\* top(): among equals std::priority_queue may yield any.
Tops == {t \in priorityTaskQueue : \A u \in priorityTaskQueue : ~Less(t, u)}

-----------------------------------------------------------------------------
(* workerLifecycleTask *)

Due(t) == startTime[t] <= now

MayExitBug == isShutdownRequested   \* mutant: exits without draining
MayExit == isShutdownRequested /\ priorityTaskQueue = {}

WorkerWaits(w) ==
  /\ ~isShutdownRequested /\ priorityTaskQueue = {}
  /\ Goto(w, "lock", "waiting")
  /\ UNCHANGED <<now, queue, isShutdownRequested, run, wakeAt, spurious>>

WorkerExits(w) ==
  /\ MayExit
  /\ Goto(w, "lock", "exited")
  /\ UNCHANGED <<now, queue, isShutdownRequested, run, wakeAt, spurious>>

WorkerWaitsUntil(w) ==
  \E t \in Tops :
    /\ ~Due(t)
    /\ Goto(w, "lock", "timed")
    /\ wakeAt' = [wakeAt EXCEPT ![w] = startTime[t]]
    /\ UNCHANGED <<now, queue, isShutdownRequested, run, spurious>>

WorkerTakes(w) ==
  \E t \in Tops :
    /\ Due(t)
    /\ Goto(w, "lock", "run")
    /\ taskToRun' = [taskToRun EXCEPT ![w] = t]
    /\ started' = started \cup {t}
    /\ priorityTaskQueue' = priorityTaskQueue \ {t}
    /\ UNCHANGED <<now, startTime, submitted, isShutdownRequested, wakeAt, spurious>>

TaskReturns(w) ==
  /\ Goto(w, "run", "lock")
  /\ taskToRun' = [taskToRun EXCEPT ![w] = NoTask]
  /\ UNCHANGED <<now, queue, started, isShutdownRequested, wakeAt, spurious>>

TimesOut(w) ==
  /\ wakeAt[w] <= now
  /\ Goto(w, "timed", "lock")
  /\ UNCHANGED <<now, queue, isShutdownRequested, run, wakeAt, spurious>>

WakesSpuriously(w) ==
  /\ w \in Asleep /\ pc' = [pc EXCEPT ![w] = "lock"]
  /\ spurious < MaxSpurious /\ spurious' = spurious + 1
  /\ UNCHANGED <<now, queue, isShutdownRequested, run, wakeAt>>

-----------------------------------------------------------------------------
(* submitScheduled and submit, called by Main, and the destructor *)

\* The start time is read from the clock before submitScheduled is called.
SubmitReadsClock ==
  /\ submitted < Len(Script)
  /\ Goto(Main, "submit", "push")
  /\ submitted' = submitted + 1
  /\ startTime' = [startTime EXCEPT ![submitted + 1] = now + Script[submitted + 1].delay]
  /\ UNCHANGED <<now, priorityTaskQueue, isShutdownRequested, run, wakeAt, spurious>>

SubmitPushes ==
  /\ Goto(Main, "push", "notify")
  /\ priorityTaskQueue' = priorityTaskQueue \cup {submitted}
  /\ UNCHANGED <<now, startTime, submitted, isShutdownRequested, run, wakeAt, spurious>>

NotifyAllBug(to) == pc' = [pc EXCEPT ![Main] = to]   \* mutant: not notified
NotifyAll(to) == pc' = [u \in DOMAIN pc |-> IF u = Main THEN to
                                            ELSE IF u \in Asleep THEN "lock" ELSE pc[u]]

SubmitNotifies ==
  /\ pc[Main] = "notify" /\ NotifyAll("submit")
  /\ UNCHANGED <<now, queue, isShutdownRequested, run, wakeAt, spurious>>

\* main() ends whenever its sleep does, the queue empty or not.
DestructorSetsFlag ==
  /\ submitted = Len(Script)
  /\ Goto(Main, "submit", "dtorNotify")
  /\ isShutdownRequested' = TRUE
  /\ UNCHANGED <<now, queue, run, wakeAt, spurious>>

DestructorNotifies ==
  /\ pc[Main] = "dtorNotify" /\ NotifyAll("join")
  /\ UNCHANGED <<now, queue, isShutdownRequested, run, wakeAt, spurious>>

DestructorReturns ==
  /\ \A w \in Workers : pc[w] = "exited"
  /\ Goto(Main, "join", "done")
  /\ UNCHANGED <<now, queue, isShutdownRequested, run, wakeAt, spurious>>

Tick == /\ now < MaxTime \/ \E t \in Tasks : now < startTime[t]
        /\ pc[Main] # "done"
        /\ now' = now + 1
        /\ UNCHANGED <<pc, queue, isShutdownRequested, run, wakeAt, spurious>>

Ended == pc[Main] = "done" /\ UNCHANGED vars

-----------------------------------------------------------------------------
WorkerStep(w) == \/ WorkerWaits(w) \/ WorkerExits(w) \/ WorkerWaitsUntil(w)
                 \/ WorkerTakes(w) \/ TaskReturns(w) \/ TimesOut(w)

MainStep == \/ SubmitReadsClock \/ SubmitPushes \/ SubmitNotifies
            \/ DestructorSetsFlag \/ DestructorNotifies \/ DestructorReturns

Next == \/ \E w \in Workers : WorkerStep(w) \/ WakesSpuriously(w)
        \/ MainStep \/ Tick
        \/ Ended

Spec == Init /\ [][Next]_vars

\* Threads run and time passes; spurious wakeups need not happen.
FairSpec == Spec /\ WF_vars(MainStep) /\ WF_vars(Tick) /\ \A w \in Workers : WF_vars(WorkerStep(w))

-----------------------------------------------------------------------------
(* Type invariant. *)
TypeOK == /\ pc \in [Workers \cup {Main} -> {"lock", "waiting", "timed", "run", "exited",
                      "submit", "push", "notify", "dtorNotify", "join", "done"}]
          /\ now \in Nat
          /\ priorityTaskQueue \in SUBSET Tasks
          /\ startTime \in [Tasks -> Nat]
          /\ isShutdownRequested \in BOOLEAN
          /\ taskToRun \in [Workers -> Tasks \cup {NoTask}]
          /\ wakeAt \in [Workers -> Nat]
          /\ submitted \in 0..Len(Script)
          /\ started \in SUBSET Tasks
          /\ spurious \in 0..MaxSpurious

\* Nothing queued is forgotten: some worker is awake, or will be by the time the top of
\* the queue is due, or the notification of its submission is still to come.
TopIsAwaited ==
  \A t \in Tops : \/ pc[Main] = "notify"
                  \/ \E w \in Workers : pc[w] \in {"lock", "run"}
                  \/ \E w \in Workers : pc[w] = "timed" /\ wakeAt[w] <= startTime[t]

\* A task does not start before its time, whatever woke its worker, and only if none of a higher priority, and none of the same priority with
\* an earlier start time, is queued at that moment.
HighestPriorityFirst ==
  [][\A t \in started' \ started : startTime[t] <= now /\ \A u \in priorityTaskQueue \ {t} :
       /\ Script[u].priority <= Script[t].priority
       /\ Script[u].priority = Script[t].priority => startTime[t] <= startTime[u]]_vars

\* The destructor returns, after at most the delay of the tasks still queued.
Terminates == <>(pc[Main] = "done")

Status(t) == IF \E w \in Workers : taskToRun[w] = t THEN "running"
             ELSE IF t \in started THEN "done"
             ELSE IF t \in priorityTaskQueue THEN "queued" ELSE "new"

Contract == INSTANCE TaskPool WITH
              Drains <- TRUE,
              open   <- ~isShutdownRequested,
              status <- [t \in Tasks |-> Status(t)],
              joined <- pc[Main] = "done"

\* The scheduler keeps the executor's contract: every task runs once, also those that
\* were not due when the destructor was called.
ImplementsTaskPool == Contract!Spec
=============================================================================
