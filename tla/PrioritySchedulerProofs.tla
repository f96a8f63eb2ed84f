------------------------ MODULE PrioritySchedulerProofs ------------------------
(* Safety of the scheduler for any workers, submissions, times and spurious wakeups, and
   the steps of its refinement of TaskPool. *)
EXTENDS PriorityScheduler, SequenceTheorems, TLAPS

PCs == {"lock", "waiting", "timed", "run", "exited", "submit", "push", "notify", "dtorNotify", "join", "done"}

\* Each thread runs its own code; the flag tells where Main is, and an exited worker that
\* there was nothing left to do.
Control ==
  /\ pc[Main] \in {"submit", "push", "notify", "dtorNotify", "join", "done"}
  /\ \A w \in Workers : pc[w] \in {"lock", "waiting", "timed", "run", "exited"}
  /\ \A w \in Workers : taskToRun[w] # NoTask <=> pc[w] = "run"
  /\ isShutdownRequested <=> pc[Main] \in {"dtorNotify", "join", "done"}
  /\ \A w \in Workers : pc[w] = "exited" => isShutdownRequested /\ priorityTaskQueue = {}
  /\ pc[Main] = "done" => \A w \in Workers : pc[w] = "exited"

\* A task is submitted, queued, taken by one worker, in this order, and once.
Bookkeeping ==
  /\ \A t \in priorityTaskQueue \cup started : t <= submitted
  /\ pc[Main] = "push" => submitted \in Tasks \ (priorityTaskQueue \cup started)
  /\ priorityTaskQueue \cap started = {}
  /\ \A w \in Workers : taskToRun[w] # NoTask => taskToRun[w] \in started
  /\ \A v, w \in Workers : taskToRun[v] # NoTask /\ taskToRun[v] = taskToRun[w] => v = w

\* The inductive invariant.
IInv == TypeOK /\ Control /\ Bookkeeping /\ TopIsAwaited

-----------------------------------------------------------------------------
(* Tasks are numbered from 1, and what main() passes of each is a number. *)
LEMMA ScriptType ==
  /\ Len(Script) \in Nat /\ Tasks = 1..Len(Script) /\ NoTask \notin Tasks
  /\ \A t \in Tasks : Script[t].priority \in Nat /\ Script[t].delay \in Nat
  <1>1. Len(Script) \in Nat /\ Tasks = 1..Len(Script)
    BY PrioritySchedulerAssumption, LenProperties DEF Tasks
  <1>2. \A t \in Tasks : Script[t] \in [priority : Priorities, delay : Nat]
    BY <1>1, PrioritySchedulerAssumption, ElementOfSeq
  <1>3. QED
    BY <1>1, <1>2 DEF Priorities, NoTask

(* The tops of the queue depend on the queue and the start times of what is in it. *)
LEMMA TopsUnchanged ==
  ASSUME priorityTaskQueue' = priorityTaskQueue,
         \A t \in priorityTaskQueue : startTime'[t] = startTime[t]
  PROVE  Tops' = Tops /\ \A t \in Tops : startTime'[t] = startTime[t]
  BY DEF Tops, Less

(* Tasks at the top have the same priority and the same start time. *)
LEMMA TopsAreEqual ==
  ASSUME TypeOK, NEW t \in Tops, NEW u \in Tops
  PROVE  startTime[t] = startTime[u]
  <1>1. t \in Tasks /\ u \in Tasks /\ ~Less(t, u) /\ ~Less(u, t)
    BY DEF Tops, TypeOK
  <1>2. startTime[t] \in Nat /\ startTime[u] \in Nat
    BY <1>1 DEF TypeOK
  <1>3. Script[t].priority \in Nat /\ Script[u].priority \in Nat
    BY <1>1, ScriptType
  <1>4. QED
    BY <1>1, <1>2, <1>3 DEF Less

-----------------------------------------------------------------------------
(* Before the first submission the inductive invariant holds. *)
LEMMA InitInv == Init => IInv
  <1> SUFFICES ASSUME Init PROVE IInv
    OBVIOUS
  <1> USE PrioritySchedulerAssumption DEF Init
  <1>1. TypeOK
    <2>1. pc \in [Workers \cup {Main} -> {"lock", "waiting", "timed", "run", "exited",
                                         "submit", "push", "notify", "dtorNotify", "join", "done"}]
      OBVIOUS
    <2>2. submitted \in 0..Len(Script) /\ spurious \in 0..MaxSpurious
      BY ScriptType
    <2>3. QED
      BY <2>1, <2>2 DEF TypeOK
  <1>2. Control
    BY DEF Control
  <1>3. Bookkeeping
    BY DEF Bookkeeping
  <1>4. TopIsAwaited
    BY DEF TopIsAwaited, Tops
  <1>5. QED
    BY <1>1, <1>2, <1>3, <1>4 DEF IInv

(* A step that queues nothing, puts no worker to sleep and takes no notification away
   keeps what awaits the top of the queue. *)
LEMMA StillAwaited ==
  ASSUME IInv, priorityTaskQueue' = priorityTaskQueue, wakeAt' = wakeAt,
         \A t \in priorityTaskQueue : startTime'[t] = startTime[t],
         pc[Main] = "notify" => pc'[Main] = "notify",
         \A w \in Workers : pc'[w] = pc[w] \/ pc'[w] \in {"lock", "run"}
  PROVE  TopIsAwaited'
  <1>1. Tops' = Tops /\ \A t \in Tops : startTime'[t] = startTime[t]
    BY TopsUnchanged
  <1>2. QED
    BY <1>1 DEF IInv, TopIsAwaited

(* A notification wakes all that sleep; who has exited left nothing in the queue. *)
LEMMA AllAwake ==
  ASSUME IInv, NEW to, NotifyAll(to), priorityTaskQueue' = priorityTaskQueue
  PROVE  TopIsAwaited'
  <1>1. \A w \in Workers : pc'[w] = IF w \in Asleep THEN "lock" ELSE pc[w]
    BY PrioritySchedulerAssumption DEF NotifyAll, IInv, TypeOK
  <1>2. ASSUME NEW t \in Tops' PROVE \E w \in Workers : pc'[w] \in {"lock", "run"}
    <2>1. priorityTaskQueue # {}
      BY <1>2 DEF Tops
    <2>2. PICK w \in Workers : TRUE
      BY PrioritySchedulerAssumption
    <2>3. pc[w] \in {"lock", "waiting", "timed", "run"}
      BY <2>1 DEF IInv, Control
    <2>4. QED
      BY <1>1, <2>3 DEF Asleep
  <1>3. QED
    BY <1>2 DEF TopIsAwaited

(* Every step preserves the inductive invariant, one case per action. *)
LEMMA StepInv == IInv /\ [Next]_vars => IInv'
  <1> SUFFICES ASSUME IInv, [Next]_vars PROVE IInv'
    OBVIOUS
  <1> USE PrioritySchedulerAssumption
  <1>1. ASSUME NEW w \in Workers, WorkerWaits(w) PROVE IInv'
    <2>0. /\ ~isShutdownRequested /\ priorityTaskQueue = {}
          /\ pc[w] = "lock" /\ pc' = [pc EXCEPT ![w] = "waiting"]
          /\ UNCHANGED <<now, queue, isShutdownRequested, run, wakeAt, spurious>>
      BY <1>1 DEF WorkerWaits, Goto
    <2>1. TypeOK'
      BY <2>0 DEF IInv, TypeOK, queue, run
    <2>2. Control'
      BY <2>0 DEF IInv, TypeOK, Control, queue, run
    <2>3. Bookkeeping'
      BY <2>0 DEF IInv, TypeOK, Control, Bookkeeping, queue, run
    <2>4. TopIsAwaited'
      BY <2>0 DEF IInv, TopIsAwaited, Tops, queue
    <2>5. QED
      BY <2>1, <2>2, <2>3, <2>4 DEF IInv
  <1>2. ASSUME NEW w \in Workers, WorkerExits(w) PROVE IInv'
    <2>0. /\ isShutdownRequested /\ priorityTaskQueue = {}
          /\ pc[w] = "lock" /\ pc' = [pc EXCEPT ![w] = "exited"]
          /\ UNCHANGED <<now, queue, isShutdownRequested, run, wakeAt, spurious>>
      BY <1>2 DEF WorkerExits, MayExit, Goto
    <2>1. TypeOK'
      BY <2>0 DEF IInv, TypeOK, queue, run
    <2>2. Control'
      BY <2>0 DEF IInv, TypeOK, Control, queue, run
    <2>3. Bookkeeping'
      BY <2>0 DEF IInv, TypeOK, Control, Bookkeeping, queue, run
    <2>4. TopIsAwaited'
      BY <2>0 DEF IInv, TopIsAwaited, Tops, queue
    <2>5. QED
      BY <2>1, <2>2, <2>3, <2>4 DEF IInv
  <1>3. ASSUME NEW w \in Workers, WorkerWaitsUntil(w) PROVE IInv'
    <2>0. PICK t \in Tops :
          /\ pc[w] = "lock" /\ pc' = [pc EXCEPT ![w] = "timed"]
          /\ wakeAt' = [wakeAt EXCEPT ![w] = startTime[t]]
          /\ UNCHANGED <<now, queue, isShutdownRequested, run, spurious>>
      BY <1>3 DEF WorkerWaitsUntil, Goto
    <2>1. TypeOK'
      BY <2>0 DEF IInv, TypeOK, Tops, queue, run
    <2>2. Control'
      BY <2>0 DEF IInv, TypeOK, Control, queue, run
    <2>3. Bookkeeping'
      BY <2>0 DEF IInv, TypeOK, Control, Bookkeeping, queue, run
    <2>4. TopIsAwaited'
      <3>1. Tops' = Tops /\ \A u \in Tops : startTime'[u] = startTime[u]
        BY <2>0, TopsUnchanged DEF queue
      <3>2. pc'[w] = "timed" /\ wakeAt'[w] = startTime[t]
        BY <2>0 DEF IInv, TypeOK
      <3>3. \A u \in Tops : startTime[t] = startTime[u] /\ startTime[t] \in Nat
        BY TopsAreEqual DEF IInv, TypeOK, Tops
      <3>4. QED
        BY <3>1, <3>2, <3>3 DEF TopIsAwaited
    <2>5. QED
      BY <2>1, <2>2, <2>3, <2>4 DEF IInv
  <1>4. ASSUME NEW w \in Workers, WorkerTakes(w) PROVE IInv'
    <2>0. PICK t \in Tops :
          /\ pc[w] = "lock" /\ pc' = [pc EXCEPT ![w] = "run"]
          /\ taskToRun' = [taskToRun EXCEPT ![w] = t]
          /\ started' = started \cup {t} /\ priorityTaskQueue' = priorityTaskQueue \ {t}
          /\ UNCHANGED <<now, startTime, submitted, isShutdownRequested, wakeAt, spurious>>
      BY <1>4 DEF WorkerTakes, Goto
    <2>1. t \in priorityTaskQueue /\ t \in Tasks /\ t # NoTask
      BY ScriptType DEF Tops, IInv, TypeOK
    <2>2. TypeOK'
      BY <2>0, <2>1 DEF IInv, TypeOK
    <2>3. Control'
      BY <2>0, <2>1 DEF IInv, TypeOK, Control
    <2>4. Bookkeeping'
      BY <2>0, <2>1 DEF IInv, TypeOK, Control, Bookkeeping
    <2>5. TopIsAwaited'
      BY <2>0 DEF IInv, TypeOK, TopIsAwaited
    <2>6. QED
      BY <2>2, <2>3, <2>4, <2>5 DEF IInv
  <1>5. ASSUME NEW w \in Workers, TaskReturns(w) PROVE IInv'
    <2>0. /\ pc[w] = "run" /\ pc' = [pc EXCEPT ![w] = "lock"]
          /\ taskToRun' = [taskToRun EXCEPT ![w] = NoTask]
          /\ UNCHANGED <<now, queue, started, isShutdownRequested, wakeAt, spurious>>
      BY <1>5 DEF TaskReturns, Goto
    <2>1. TypeOK'
      BY <2>0 DEF IInv, TypeOK, queue, run
    <2>2. Control'
      BY <2>0 DEF IInv, TypeOK, Control, queue, run
    <2>3. Bookkeeping'
      BY <2>0 DEF IInv, TypeOK, Control, Bookkeeping, queue, run
    <2>4. TopIsAwaited'
      BY <2>0, StillAwaited DEF IInv, TypeOK, Control, queue
    <2>5. QED
      BY <2>1, <2>2, <2>3, <2>4 DEF IInv
  <1>6. ASSUME NEW w \in Workers, TimesOut(w) PROVE IInv'
    <2>0. /\ pc[w] = "timed" /\ pc' = [pc EXCEPT ![w] = "lock"]
          /\ UNCHANGED <<now, queue, isShutdownRequested, run, wakeAt, spurious>>
      BY <1>6 DEF TimesOut, Goto
    <2>1. TypeOK'
      BY <2>0 DEF IInv, TypeOK, queue, run
    <2>2. Control'
      BY <2>0 DEF IInv, TypeOK, Control, queue, run
    <2>3. Bookkeeping'
      BY <2>0 DEF IInv, TypeOK, Control, Bookkeeping, queue, run
    <2>4. TopIsAwaited'
      BY <2>0, StillAwaited DEF IInv, TypeOK, Control, queue
    <2>5. QED
      BY <2>1, <2>2, <2>3, <2>4 DEF IInv
  <1>7. ASSUME NEW w \in Workers, WakesSpuriously(w) PROVE IInv'
    <2>0. /\ pc[w] \in {"waiting", "timed"} /\ pc' = [pc EXCEPT ![w] = "lock"]
          /\ spurious < MaxSpurious /\ spurious' = spurious + 1
          /\ UNCHANGED <<now, queue, isShutdownRequested, run, wakeAt>>
      BY <1>7 DEF WakesSpuriously, Asleep, Goto
    <2>1. TypeOK'
      BY <2>0 DEF IInv, TypeOK, queue, run
    <2>2. Control'
      BY <2>0 DEF IInv, TypeOK, Control, queue, run
    <2>3. Bookkeeping'
      BY <2>0 DEF IInv, TypeOK, Control, Bookkeeping, queue, run
    <2>4. TopIsAwaited'
      BY <2>0, StillAwaited DEF IInv, TypeOK, Control, queue
    <2>5. QED
      BY <2>1, <2>2, <2>3, <2>4 DEF IInv
  <1>8. CASE SubmitReadsClock
    <2>0. /\ submitted < Len(Script)
          /\ pc[Main] = "submit" /\ pc' = [pc EXCEPT ![Main] = "push"]
          /\ submitted' = submitted + 1
          /\ startTime' = [startTime EXCEPT ![submitted + 1] = now + Script[submitted + 1].delay]
          /\ UNCHANGED <<now, priorityTaskQueue, isShutdownRequested, run, wakeAt, spurious>>
      BY <1>8 DEF SubmitReadsClock, Goto
    <2>1. TypeOK'
      <3>1. submitted + 1 \in Tasks
        BY <2>0, ScriptType DEF IInv, TypeOK
      <3>2. now + Script[submitted + 1].delay \in Nat
        BY <3>1, ScriptType DEF IInv, TypeOK
      <3>3. submitted + 1 \in 0..Len(Script)
        BY <2>0, ScriptType DEF IInv, TypeOK
      <3>4. QED
        BY <2>0, <3>2, <3>3 DEF IInv, TypeOK, run
    <2>2. Control'
      BY <2>0 DEF IInv, TypeOK, Control, queue, run
    <2>3. Bookkeeping'
      <3>1. submitted + 1 \in Tasks /\ \A t \in priorityTaskQueue \cup started : t <= submitted + 1 /\ t # submitted + 1
        BY <2>0, ScriptType DEF IInv, TypeOK, Bookkeeping
      <3>2. QED
        BY <2>0, <3>1 DEF IInv, Bookkeeping, run
    <2>4. TopIsAwaited'
      <3>1. \A t \in priorityTaskQueue : t # submitted + 1 /\ t \in Tasks
        BY ScriptType DEF IInv, TypeOK, Bookkeeping
      <3>2. \A t \in priorityTaskQueue : startTime'[t] = startTime[t]
        BY <2>0, <3>1 DEF IInv, TypeOK
      <3>3. QED
        BY <2>0, <3>2, StillAwaited DEF IInv, TypeOK
    <2>5. QED
      BY <2>1, <2>2, <2>3, <2>4 DEF IInv
  <1>9. CASE SubmitPushes
    <2>0. /\ pc[Main] = "push" /\ pc' = [pc EXCEPT ![Main] = "notify"]
          /\ priorityTaskQueue' = priorityTaskQueue \cup {submitted}
          /\ UNCHANGED <<now, startTime, submitted, isShutdownRequested, run, wakeAt, spurious>>
      BY <1>9 DEF SubmitPushes, Goto
    <2>1. TypeOK'
      BY <2>0 DEF IInv, TypeOK, Bookkeeping, run
    <2>2. Control'
      BY <2>0 DEF IInv, TypeOK, Control, queue, run
    <2>3. Bookkeeping'
      BY <2>0, ScriptType DEF IInv, TypeOK, Bookkeeping, run
    <2>4. TopIsAwaited'
      BY <2>0 DEF IInv, TypeOK, TopIsAwaited
    <2>5. QED
      BY <2>1, <2>2, <2>3, <2>4 DEF IInv
  <1>10. CASE SubmitNotifies
    <2>0. /\ pc[Main] = "notify" /\ NotifyAll("submit")
          /\ pc' = [u \in DOMAIN pc |-> IF u = Main THEN "submit" ELSE IF u \in Asleep THEN "lock" ELSE pc[u]]
          /\ UNCHANGED <<now, queue, isShutdownRequested, run, wakeAt, spurious>>
      BY <1>10 DEF SubmitNotifies, NotifyAll
    <2>1. pc'[Main] = "submit" /\ \A w \in Workers : pc'[w] = IF w \in Asleep THEN "lock" ELSE pc[w]
      BY <2>0 DEF IInv, TypeOK
    <2>2. TypeOK'
      BY <2>0 DEF IInv, TypeOK, queue, run
    <2>3. Control'
      BY <2>0, <2>1 DEF IInv, Control, Asleep, queue, run
    <2>4. Bookkeeping'
      BY <2>0, <2>1 DEF IInv, Bookkeeping, queue, run
    <2>5. TopIsAwaited'
      BY <2>0, AllAwake DEF queue
    <2>6. QED
      BY <2>2, <2>3, <2>4, <2>5 DEF IInv
  <1>11. CASE DestructorNotifies
    <2>0. /\ pc[Main] = "dtorNotify" /\ NotifyAll("join")
          /\ pc' = [u \in DOMAIN pc |-> IF u = Main THEN "join" ELSE IF u \in Asleep THEN "lock" ELSE pc[u]]
          /\ UNCHANGED <<now, queue, isShutdownRequested, run, wakeAt, spurious>>
      BY <1>11 DEF DestructorNotifies, NotifyAll
    <2>1. pc'[Main] = "join" /\ \A w \in Workers : pc'[w] = IF w \in Asleep THEN "lock" ELSE pc[w]
      BY <2>0 DEF IInv, TypeOK
    <2>2. TypeOK'
      BY <2>0 DEF IInv, TypeOK, queue, run
    <2>3. Control'
      <3>1. Control /\ \A w \in Workers : pc'[w] \in {pc[w], "lock"}
        BY <2>1 DEF IInv
      <3>2. QED
        BY <2>0, <2>1, <3>1 DEF Control, Asleep, queue, run
    <2>4. Bookkeeping'
      BY <2>0, <2>1 DEF IInv, Bookkeeping, queue, run
    <2>5. TopIsAwaited'
      BY <2>0, AllAwake DEF queue
    <2>6. QED
      BY <2>2, <2>3, <2>4, <2>5 DEF IInv
  <1>12. CASE DestructorSetsFlag
    <2>0. /\ pc[Main] = "submit" /\ pc' = [pc EXCEPT ![Main] = "dtorNotify"]
          /\ isShutdownRequested' = TRUE
          /\ UNCHANGED <<now, queue, run, wakeAt, spurious>>
      BY <1>12 DEF DestructorSetsFlag, Goto
    <2>1. TypeOK'
      BY <2>0 DEF IInv, TypeOK, queue, run
    <2>2. Control'
      BY <2>0 DEF IInv, TypeOK, Control, queue, run
    <2>3. Bookkeeping'
      BY <2>0 DEF IInv, TypeOK, Control, Bookkeeping, queue, run
    <2>4. TopIsAwaited'
      BY <2>0, StillAwaited DEF IInv, TypeOK, Control, queue
    <2>5. QED
      BY <2>1, <2>2, <2>3, <2>4 DEF IInv
  <1>13. CASE DestructorReturns
    <2>0. /\ \A w \in Workers : pc[w] = "exited"
          /\ pc[Main] = "join" /\ pc' = [pc EXCEPT ![Main] = "done"]
          /\ UNCHANGED <<now, queue, isShutdownRequested, run, wakeAt, spurious>>
      BY <1>13 DEF DestructorReturns, Goto
    <2>1. TypeOK'
      BY <2>0 DEF IInv, TypeOK, queue, run
    <2>2. Control'
      BY <2>0 DEF IInv, TypeOK, Control, queue, run
    <2>3. Bookkeeping'
      BY <2>0 DEF IInv, TypeOK, Control, Bookkeeping, queue, run
    <2>4. TopIsAwaited'
      BY <2>0, StillAwaited DEF IInv, TypeOK, Control, queue
    <2>5. QED
      BY <2>1, <2>2, <2>3, <2>4 DEF IInv
  <1>14. CASE Tick
    <2>0. /\ now' = now + 1
          /\ UNCHANGED <<pc, queue, isShutdownRequested, run, wakeAt, spurious>>
      BY <1>14 DEF Tick, Goto
    <2>1. TypeOK'
      BY <2>0 DEF IInv, TypeOK, queue, run
    <2>2. Control'
      BY <2>0 DEF IInv, TypeOK, Control, queue, run
    <2>3. Bookkeeping'
      BY <2>0 DEF IInv, TypeOK, Control, Bookkeeping, queue, run
    <2>4. TopIsAwaited'
      BY <2>0, StillAwaited DEF IInv, TypeOK, Control, queue
    <2>5. QED
      BY <2>1, <2>2, <2>3, <2>4 DEF IInv
  <1>15. CASE UNCHANGED vars
    BY <1>15, TopsUnchanged DEF vars, queue, run, IInv, TypeOK, Control, Bookkeeping, TopIsAwaited
  <1>16. QED
    BY <1>1, <1>2, <1>3, <1>4, <1>5, <1>6, <1>7, <1>8, <1>9, <1>10, <1>11, <1>12, <1>13, <1>14, <1>15 DEF Next, WorkerStep, MainStep, Ended

-----------------------------------------------------------------------------
(* The inductive invariant holds in every reachable state of the scheduler. *)
THEOREM Invariance == Spec => []IInv
  BY InitInv, StepInv, PTL DEF Spec

(* Types are respected, whatever is submitted. *)
THEOREM TypeCorrect == Spec => []TypeOK
  <1>1. IInv => TypeOK
    BY DEF IInv
  <1>2. QED
    BY <1>1, Invariance, PTL

(* workerLifecycleTask and submitScheduled: no queued task is forgotten by all workers. *)
THEOREM TopTaskIsAwaited == Spec => []TopIsAwaited
  <1>1. IInv => TopIsAwaited
    BY DEF IInv
  <1>2. QED
    BY <1>1, Invariance, PTL

(* A worker takes a task that is due, and that no queued task outranks. *)
THEOREM UrgentFirst == Spec => HighestPriorityFirst
  <1> DEFINE A == \A t \in started' \ started : startTime[t] <= now /\ \A u \in priorityTaskQueue \ {t} :
                    /\ Script[u].priority <= Script[t].priority
                    /\ Script[u].priority = Script[t].priority => startTime[t] <= startTime[u]
  <1>1. IInv /\ [Next]_vars => [A]_vars
    <2> SUFFICES ASSUME IInv, [Next]_vars, NEW t \in started' \ started
                 PROVE  /\ startTime[t] <= now
                        /\ \A u \in priorityTaskQueue \ {t} :
                             /\ Script[u].priority <= Script[t].priority
                             /\ Script[u].priority = Script[t].priority => startTime[t] <= startTime[u]
      OBVIOUS
    <2>1. PICK w \in Workers : WorkerTakes(w)
      BY DEF Next, WorkerStep, MainStep, Ended, vars, queue, run, WorkerWaits, WorkerExits, WorkerWaitsUntil,
             TaskReturns, TimesOut, WakesSpuriously, SubmitReadsClock, SubmitPushes, SubmitNotifies,
             DestructorSetsFlag, DestructorNotifies, DestructorReturns, Tick
    <2>2. t \in Tops /\ startTime[t] <= now
      BY <2>1 DEF WorkerTakes, Due
    <2>3. ASSUME NEW u \in priorityTaskQueue \ {t}
          PROVE  /\ Script[u].priority <= Script[t].priority
                 /\ Script[u].priority = Script[t].priority => startTime[t] <= startTime[u]
      <3>1. t \in Tasks /\ u \in Tasks /\ ~Less(t, u)
        BY <2>2, <2>3 DEF Tops, IInv, TypeOK
      <3>2. startTime[t] \in Nat /\ startTime[u] \in Nat
        BY <3>1 DEF IInv, TypeOK
      <3>3. Script[t].priority \in Nat /\ Script[u].priority \in Nat
        BY <3>1, ScriptType
      <3>4. QED
        BY <3>1, <3>2, <3>3 DEF Less
    <2>4. QED
      BY <2>2, <2>3
  <1>2. QED
    BY <1>1, Invariance, PTL DEF Spec, HighestPriorityFirst
-----------------------------------------------------------------------------
(* What a step of the scheduler is to the contract: status by status. *)

(* A step that leaves queue, history and the workers' tasks alone changes no status. *)
LEMMA StatusUnchanged ==
  ASSUME UNCHANGED <<priorityTaskQueue, started, taskToRun>>
  PROVE  \A t \in Tasks : Status(t)' = Status(t)
  BY DEF Status

(* The statuses, as a function, when one task's changes. *)
LEMMA OneBecomes ==
  ASSUME NEW t \in Tasks, NEW from, NEW to, Status(t) = from, Status(t)' = to,
         \A u \in Tasks : u # t => Status(u)' = Status(u)
  PROVE  Contract!Becomes(t, from, to)
  BY DEF Contract!Becomes

(* Every step is a step of TaskPool, or changes nothing it can see. *)
LEMMA StepRefines == IInv /\ IInv' /\ [Next]_vars => [Contract!Next]_(Contract!vars)
  <1> SUFFICES ASSUME IInv, IInv', [Next]_vars PROVE [Contract!Next]_(Contract!vars)
    OBVIOUS
  <1> DEFINE Stutters == /\ isShutdownRequested' = isShutdownRequested
                         /\ UNCHANGED <<priorityTaskQueue, started, taskToRun>>
                         /\ (pc'[Main] = "done") = (pc[Main] = "done")
  <1>1. Stutters => UNCHANGED Contract!vars
    BY StatusUnchanged DEF Contract!vars
  <1>2. ASSUME NEW w \in Workers, WorkerTakes(w) PROVE Contract!Next
    <2>0. PICK t \in Tops :
          /\ pc[w] = "lock" /\ pc' = [pc EXCEPT ![w] = "run"]
          /\ taskToRun' = [taskToRun EXCEPT ![w] = t]
          /\ started' = started \cup {t} /\ priorityTaskQueue' = priorityTaskQueue \ {t}
          /\ UNCHANGED <<now, startTime, submitted, isShutdownRequested, wakeAt, spurious>>
      BY <1>2 DEF WorkerTakes, Goto
    <2>1. t \in Tasks /\ t \in priorityTaskQueue /\ t \notin started /\ t # NoTask
      BY ScriptType DEF Tops, IInv, TypeOK, Bookkeeping
    <2>2. taskToRun[w] = NoTask /\ \A v \in Workers : taskToRun[v] # t
      BY <2>0, <2>1 DEF IInv, Control, Bookkeeping
    <2>3. taskToRun'[w] = t /\ \A v \in Workers : v # w => taskToRun'[v] = taskToRun[v]
      BY <2>0 DEF IInv, TypeOK
    <2>4. Status(t) = "queued" /\ Status(t)' = "running"
      BY <2>1, <2>2, <2>3 DEF Status
    <2>5. \A u \in Tasks : u # t => Status(u)' = Status(u)
      BY <2>0, <2>2, <2>3, ScriptType DEF Status
    <2>6. pc[Main] # "done" /\ pc'[Main] = pc[Main]
      BY <2>0, PrioritySchedulerAssumption DEF IInv, TypeOK, Control
    <2>7. Contract!Start(t)
      BY <2>0, <2>1, <2>4, <2>5, <2>6, OneBecomes DEF Contract!Start
    <2>8. QED
      BY <2>1, <2>7 DEF Contract!Next
  <1>3. ASSUME NEW w \in Workers, TaskReturns(w) PROVE Contract!Next
    <2>0. /\ pc[w] = "run" /\ pc' = [pc EXCEPT ![w] = "lock"]
          /\ taskToRun' = [taskToRun EXCEPT ![w] = NoTask]
          /\ UNCHANGED <<priorityTaskQueue, started, isShutdownRequested>>
      BY <1>3 DEF TaskReturns, Goto, queue
    <2>1. PICK t \in Tasks : t = taskToRun[w]
      BY <2>0 DEF IInv, TypeOK, Control
    <2>2. t \in started /\ t # NoTask /\ \A v \in Workers : v # w => taskToRun[v] # t
      BY <2>1, ScriptType DEF IInv, Bookkeeping
    <2>3. taskToRun'[w] = NoTask /\ \A v \in Workers : v # w => taskToRun'[v] = taskToRun[v]
      BY <2>0 DEF IInv, TypeOK
    <2>4. Status(t) = "running" /\ Status(t)' = "done"
      BY <2>0, <2>1, <2>2, <2>3 DEF Status
    <2>5. \A u \in Tasks : u # t => Status(u)' = Status(u)
      BY <2>0, <2>1, <2>3, ScriptType DEF Status
    <2>6. pc[Main] # "done" /\ pc'[Main] = pc[Main]
      BY <2>0, PrioritySchedulerAssumption DEF IInv, TypeOK, Control
    <2>7. Contract!Finish(t)
      BY <2>0, <2>4, <2>5, <2>6, OneBecomes DEF Contract!Finish
    <2>8. QED
      BY <2>7 DEF Contract!Next
  <1>4. ASSUME SubmitPushes PROVE Contract!Next
    <2>0. /\ pc[Main] = "push" /\ pc' = [pc EXCEPT ![Main] = "notify"]
          /\ priorityTaskQueue' = priorityTaskQueue \cup {submitted}
          /\ UNCHANGED <<started, taskToRun, isShutdownRequested, submitted>>
      BY <1>4 DEF SubmitPushes, Goto, run
    <2>1. PICK t \in Tasks : t = submitted /\ t \notin priorityTaskQueue \cup started
      BY <2>0 DEF IInv, Bookkeeping
    <2>2. \A v \in Workers : taskToRun[v] # t
      BY <2>1, ScriptType DEF IInv, Bookkeeping
    <2>3. Status(t) = "new" /\ Status(t)' = "queued"
      BY <2>0, <2>1, <2>2 DEF Status
    <2>4. \A u \in Tasks : u # t => Status(u)' = Status(u)
      BY <2>0, <2>1 DEF Status
    <2>5. ~isShutdownRequested /\ pc[Main] # "done" /\ pc'[Main] = "notify"
      BY <2>0 DEF IInv, TypeOK, Control
    <2>6. Contract!Submit(t)
      BY <2>0, <2>3, <2>4, <2>5, OneBecomes DEF Contract!Submit
    <2>7. QED
      BY <2>6 DEF Contract!Next
  <1>5. ASSUME DestructorSetsFlag PROVE Contract!Next
    <2>1. \A t \in Tasks : Status(t)' = Status(t)
      BY <1>5, StatusUnchanged DEF DestructorSetsFlag, queue, run
    <2>2. ~isShutdownRequested /\ isShutdownRequested' /\ pc[Main] # "done" /\ pc'[Main] # "done"
      BY <1>5 DEF DestructorSetsFlag, Goto, IInv, TypeOK, Control
    <2>3. Contract!Close
      BY <2>1, <2>2 DEF Contract!Close
    <2>4. QED
      BY <2>3 DEF Contract!Next
  <1>6. ASSUME DestructorReturns PROVE Contract!Next
    <2>0. /\ \A w \in Workers : pc[w] = "exited" /\ taskToRun[w] = NoTask
          /\ priorityTaskQueue = {} /\ isShutdownRequested /\ isShutdownRequested' = isShutdownRequested
          /\ pc[Main] # "done" /\ pc'[Main] = "done"
      BY <1>6, PrioritySchedulerAssumption DEF DestructorReturns, Goto, IInv, TypeOK, Control
    <2>1. \A t \in Tasks : Status(t)' = Status(t)
      BY <1>6, StatusUnchanged DEF DestructorReturns, queue, run
    <2>2. \A t \in Tasks : Status(t) # "running" /\ Status(t) # "queued"
      BY <2>0, ScriptType DEF Status
    <2>3. Contract!Join
      BY <2>0, <2>1, <2>2 DEF Contract!Join
    <2>4. QED
      BY <2>3 DEF Contract!Next
  <1>7. ASSUME NEW w \in Workers,
               WorkerWaits(w) \/ WorkerExits(w) \/ WorkerWaitsUntil(w) \/ TimesOut(w) \/ WakesSpuriously(w)
        PROVE  Stutters
    <2>1. pc'[Main] = pc[Main]
      BY <1>7, PrioritySchedulerAssumption
         DEF WorkerWaits, WorkerExits, WorkerWaitsUntil, TimesOut, WakesSpuriously, Goto, IInv, TypeOK
    <2>2. QED
      BY <1>7, <2>1 DEF WorkerWaits, WorkerExits, WorkerWaitsUntil, TimesOut, WakesSpuriously, queue, run
  <1>8. ASSUME SubmitReadsClock \/ SubmitNotifies \/ DestructorNotifies PROVE Stutters
    <2>1. pc'[Main] # "done" /\ pc[Main] # "done"
      BY <1>8 DEF SubmitReadsClock, SubmitNotifies, DestructorNotifies, NotifyAll, Goto, IInv, TypeOK
    <2>2. QED
      BY <1>8, <2>1 DEF SubmitReadsClock, SubmitNotifies, DestructorNotifies, queue, run
  <1>9. ASSUME Tick \/ UNCHANGED vars PROVE Stutters
    BY <1>9 DEF Tick, vars, queue, run
  <1>10. QED
    BY <1>1, <1>2, <1>3, <1>4, <1>5, <1>6, <1>7, <1>8, <1>9 DEF Next, WorkerStep, MainStep, Ended

(* The scheduler implements the executor's contract, step by step. *)
THEOREM Implements == Spec => ImplementsTaskPool
  <1>1. Init => Contract!Init
    <2> SUFFICES ASSUME Init PROVE Contract!Init
      OBVIOUS
    <2>1. \A t \in Tasks : Status(t) = "new"
      BY ScriptType DEF Init, Status
    <2>2. pc[Main] # "done" /\ ~isShutdownRequested
      BY DEF Init
    <2>3. QED
      BY <2>1, <2>2 DEF Contract!Init
  <1>2. QED
    BY <1>1, StepRefines, Invariance, PTL DEF Spec, ImplementsTaskPool, Contract!Spec
=============================================================================
