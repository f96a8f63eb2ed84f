--------------------------- MODULE ThreadPoolProofs ---------------------------
(* Safety of the thread pool for any number of workers and tasks. *)
EXTENDS ThreadPool, SequenceTheorems, TLAPS

WorkerPCs == {"unborn", "lock", "check", "block", "waiting", "run", "exited",
              "enqLock", "enqBody", "enqNotify", "aborted"}
MainPCs == {"spawn", "enqLock", "enqBody", "enqNotify", "enqDone",
            "dtorLock", "dtorSet", "dtorNotify", "dtorJoin", "done"}

\* Whoever is between locking and unlocking queueMutex is its only owner.
Exclusion == \A t \in Threads : queueMutex = t <=> pc[t] \in {"check", "block", "enqBody", "dtorSet"}

\* Each thread runs its own code, with an argument to enqueue whenever it enqueues.
Control ==
  /\ pc[Main] \in MainPCs
  /\ \A w \in Workers : pc[w] \in WorkerPCs
  /\ pc[Main] = "spawn" => taskIndex = 1
  /\ pc[Main] \in {"enqLock", "enqBody"} => taskIndex \in 1..Len(MainTasks)
  /\ \A w \in Workers : task[w] # NoTask <=> pc[w] \in {"run", "enqLock", "enqBody", "enqNotify", "aborted"}
  /\ \A w \in Workers : pc[w] \in {"enqLock", "enqBody"} => Child[task[w]] # NoTask

\* What the flag and the queue say in the states where the mutex protects them.
Protocol ==
  /\ isShutdownRequested <=> pc[Main] \in {"dtorNotify", "dtorJoin", "done"}
  /\ \A w \in Workers : pc[w] = "block" => taskQueue = <<>> /\ ~isShutdownRequested
  /\ \A w \in Workers : pc[w] = "exited" => taskQueue = <<>> /\ isShutdownRequested
  /\ pc[Main] = "done" => \A w \in Workers : pc[w] = "exited"

\* Who submitted x: main(), at a turn before this one or already past its push, or the one
\* task that started and whose child x is, once past its own push.
Submitted(x) ==
  \/ \E i \in DOMAIN MainTasks : /\ x = MainTasks[i] /\ i <= taskIndex
                                 /\ i = taskIndex => pc[Main] \notin {"spawn", "enqLock", "enqBody"}
  \/ \E p \in ToSet(started) :
       /\ x = Child[p]
       /\ \A w \in Workers : task[w] = p => pc[w] \notin {"enqLock", "enqBody"}

\* A task is submitted, queued and taken by one worker, in this order, and once.
Once ==
  /\ ToSet(started) \cap ToSet(taskQueue) = {}
  /\ \A i, j \in DOMAIN taskQueue : taskQueue[i] = taskQueue[j] => i = j
  /\ \A x \in ToSet(started) \cup ToSet(taskQueue) : Submitted(x)
  /\ \A w \in Workers : task[w] # NoTask => task[w] \in ToSet(started)
  /\ \A v, w \in Workers : task[v] # NoTask /\ task[v] = task[w] => v = w

\* The inductive invariant.
IInv == TypeOK /\ Exclusion /\ Control /\ Protocol /\ NoLostWakeup /\ FIFO

-----------------------------------------------------------------------------
(* What the queue operations do to FIFO. *)

(* A push at the back of the queue appends to what was accepted. *)
LEMMA PushKeepsOrder ==
  \A s, q \in Seq(Tasks), x \in Tasks : Append(s \o q, x) = s \o Append(q, x)
  BY SMT

(* Taking the front of a queue moves it to the end of what was started. *)
LEMMA TakeKeepsOrder ==
  ASSUME NEW S, NEW s \in Seq(S), NEW q \in Seq(S), q # <<>>
  PROVE  /\ Head(q) \in S /\ Tail(q) \in Seq(S)
         /\ s \o q = Append(s, Head(q)) \o Tail(q)
  BY SMT

-----------------------------------------------------------------------------
(* The pool before its first thread is started satisfies the inductive invariant. *)
LEMMA InitInv == Init => IInv
  <1> SUFFICES ASSUME Init PROVE IInv
    OBVIOUS
  <1> USE ThreadPoolAssumption DEF Init, Threads
  <1>1. TypeOK
    <2>1. pc \in [Threads -> PCs]
      BY DEF PCs
    <2>2. task \in [Workers -> Tasks \cup {NoTask}] /\ spurious \in 0..MaxSpurious
      OBVIOUS
    <2>3. taskQueue \in Seq(Tasks) /\ accepted \in Seq(Tasks) /\ started \in Seq(Tasks)
      BY EmptySeq
    <2>4. QED
      BY <2>1, <2>2, <2>3 DEF TypeOK
  <1>2. Exclusion /\ Control /\ Protocol /\ NoLostWakeup /\ FIFO
    BY DEF Exclusion, Control, Protocol, NoLostWakeup, FIFO, Waiting, MainPCs, WorkerPCs
  <1>3. QED
    BY <1>1, <1>2 DEF IInv

(* Every step of a thread preserves the inductive invariant, one case per action. *)
LEMMA StepInv == IInv /\ [Next]_vars => IInv'
  <1> SUFFICES ASSUME IInv, [Next]_vars PROVE IInv'
    OBVIOUS
  <1> USE ThreadPoolAssumption DEF IInv, Threads, data, PCs, MainPCs, WorkerPCs, Waiting
  <1>1. ASSUME NEW t \in Threads, Acquire(t) PROVE IInv'
    <2>1. TypeOK' /\ Exclusion' /\ Control'
      BY <1>1 DEF Acquire, Goto, WhenLocked, TypeOK, Exclusion, Control
    <2>2. Protocol' /\ NoLostWakeup' /\ FIFO'
      BY <1>1 DEF Acquire, Goto, WhenLocked, TypeOK, Control, Protocol, NoLostWakeup, FIFO
    <2>3. QED
      BY <2>1, <2>2
  <1>2. ASSUME NEW t \in Threads, EnqueuePush(t) PROVE IInv'
    <2>1. Argument(t) \in Tasks
      BY <1>2, ElementOfSeq DEF EnqueuePush, Goto, TypeOK, Control, Argument
    <2>2. FIFO'
      <3>1. Append(started \o taskQueue, Argument(t)) = started \o Append(taskQueue, Argument(t))
        BY <2>1, PushKeepsOrder, Zenon DEF TypeOK
      <3>2. accepted' = Append(accepted, Argument(t)) /\ taskQueue' = Append(taskQueue, Argument(t)) /\ started' = started
        BY <1>2 DEF EnqueuePush, Pushed
      <3>3. QED
        BY <3>1, <3>2, Zenon DEF FIFO
    <2>3. TypeOK'
      BY <1>2, <2>1 DEF EnqueuePush, Goto, Unlock, Pushed, TypeOK
    <2>4. Exclusion' /\ Control' /\ Protocol' /\ NoLostWakeup'
      BY <1>2 DEF EnqueuePush, Goto, Unlock, TypeOK, Exclusion, Control, Protocol, NoLostWakeup
    <2>5. QED
      BY <2>1, <2>2, <2>3, <2>4
  <1>3. ASSUME NEW t \in Threads, EnqueueThrows(t) PROVE IInv'
    BY <1>3 DEF EnqueueThrows, Goto, Unlock, TypeOK, Exclusion, Control, Protocol, NoLostWakeup, FIFO
  <1>4. ASSUME NEW t \in Threads, EnqueueNotify(t) PROVE IInv'
    <2>1. CASE Waiting = {} /\ pc' = [pc EXCEPT ![t] = IF t = Main THEN "enqDone" ELSE "run"]
      <3>1. TypeOK' /\ Exclusion' /\ Control'
        BY <1>4, <2>1 DEF EnqueueNotify, TypeOK, Exclusion, Control
      <3>2. Protocol' /\ NoLostWakeup' /\ FIFO'
        BY <1>4, <2>1 DEF EnqueueNotify, TypeOK, Control, Protocol, NoLostWakeup, FIFO
      <3>3. QED
        BY <3>1, <3>2
    <2>2. ASSUME NEW w \in Waiting,
                 pc' = [pc EXCEPT ![t] = IF t = Main THEN "enqDone" ELSE "run", ![w] = "lock"]
          PROVE  IInv'
      <3>1. TypeOK' /\ Control'
        <4>1. TypeOK'
          BY <1>4, <2>2 DEF EnqueueNotify, TypeOK
        <4>2. Control'
          <5>1. /\ pc'[t] = IF t = Main THEN "enqDone" ELSE "run"
                /\ pc'[w] = "lock" /\ pc[w] = "waiting" /\ pc[t] = "enqNotify" /\ w \in Workers /\ w # t
                /\ \A u \in Threads : u # t /\ u # w => pc'[u] = pc[u]
            BY <1>4, <2>2 DEF EnqueueNotify, TypeOK
          <5>2. QED
            BY <1>4, <5>1 DEF EnqueueNotify, Control
        <4>3. QED
          BY <4>1, <4>2
      <3>2. Exclusion' /\ FIFO'
        BY <1>4, <2>2 DEF EnqueueNotify, TypeOK, Exclusion, FIFO
      <3>3. Protocol'
        BY <1>4, <2>2 DEF EnqueueNotify, TypeOK, Control, Protocol
      <3>4. NoLostWakeup'
        BY <1>4, <2>2 DEF EnqueueNotify, TypeOK, Control, NoLostWakeup
      <3>5. QED
        BY <3>1, <3>2, <3>3, <3>4
    <2>3. QED
      BY <1>4, <2>1, <2>2 DEF EnqueueNotify, NotifyOne
  <1>5. ASSUME NEW w \in Workers, WorkerSeesNothing(w) PROVE IInv'
    BY <1>5 DEF WorkerSeesNothing, Goto, MayProceed, TypeOK, Exclusion, Control, Protocol, NoLostWakeup, FIFO
  <1>6. ASSUME NEW w \in Workers, WorkerBlocks(w) PROVE IInv'
    BY <1>6 DEF WorkerBlocks, Goto, Unlock, TypeOK, Exclusion, Control, Protocol, NoLostWakeup, FIFO
  <1>7. ASSUME NEW w \in Workers, WorkerTakes(w) PROVE IInv'
    <2>0. /\ Head(taskQueue) \in Tasks /\ Tail(taskQueue) \in Seq(Tasks)
          /\ started \o taskQueue = Append(started, Head(taskQueue)) \o Tail(taskQueue)
          /\ Append(started, Head(taskQueue)) \in Seq(Tasks)
      <3>1. taskQueue # <<>> /\ taskQueue \in Seq(Tasks) /\ started \in Seq(Tasks)
        BY <1>7 DEF WorkerTakes, TypeOK
      <3>2. Head(taskQueue) \in Tasks
        BY <3>1, TakeKeepsOrder, Zenon
      <3>3. QED
        <4>1. Append(started, Head(taskQueue)) \in Seq(Tasks)
          BY <3>1, <3>2, AppendProperties, Zenon
        <4>2. /\ Tail(taskQueue) \in Seq(Tasks)
              /\ started \o taskQueue = Append(started, Head(taskQueue)) \o Tail(taskQueue)
          <5>1. \A s, q \in Seq(Tasks) : q # <<>> =>
                  /\ Tail(q) \in Seq(Tasks) /\ s \o q = Append(s, Head(q)) \o Tail(q)
            BY TakeKeepsOrder
          <5>2. QED
            BY <3>1, <5>1, Zenon
        <4>3. QED
          BY <3>2, <4>1, <4>2
    <2>1. FIFO' /\ TypeOK'
      <3>1. FIFO'
        BY <1>7, <2>0 DEF WorkerTakes, Popped, FIFO
      <3>2. TypeOK'
        BY <1>7, <2>0 DEF WorkerTakes, Popped, Goto, Unlock, TypeOK
      <3>3. QED
        BY <3>1, <3>2
    <2>2. Exclusion' /\ Protocol' /\ NoLostWakeup'
      BY <1>7 DEF WorkerTakes, Goto, Unlock, Popped, TypeOK, Exclusion, Control, Protocol, NoLostWakeup
    <2>3. Control'
      BY <1>7, TakeKeepsOrder DEF WorkerTakes, Goto, Unlock, TypeOK, Control
    <2>4. QED
      BY <2>1, <2>2, <2>3
  <1>8. ASSUME NEW w \in Workers, WorkerExits(w) PROVE IInv'
    BY <1>8 DEF WorkerExits, Goto, Unlock, MayExit, TypeOK, Exclusion, Control, Protocol, NoLostWakeup, FIFO
  <1>9. ASSUME NEW w \in Workers, TaskReturns(w) PROVE IInv'
    BY <1>9 DEF TaskReturns, Goto, TypeOK, Exclusion, Control, Protocol, NoLostWakeup, FIFO
  <1>10. ASSUME NEW w \in Workers, WakesSpuriously(w) PROVE IInv'
    <2>1. TypeOK'
      BY <1>10 DEF WakesSpuriously, Goto, TypeOK
    <2>2. Exclusion' /\ Control' /\ Protocol' /\ NoLostWakeup' /\ FIFO'
      BY <1>10 DEF WakesSpuriously, Goto, TypeOK, Exclusion, Control, Protocol, NoLostWakeup, FIFO
    <2>3. QED
      BY <2>1, <2>2
  <1>11. ASSUME NEW w \in Workers, SpawnWorker(w) PROVE IInv'
    BY <1>11 DEF SpawnWorker, Goto, TypeOK, Exclusion, Control, Protocol, NoLostWakeup, FIFO
  <1>12. CASE PoolBuilt
    BY <1>12 DEF PoolBuilt, Goto, Submission, TypeOK, Exclusion, Control, Protocol, NoLostWakeup, FIFO
  <1>13. CASE NextTask
    BY <1>13 DEF NextTask, Goto, Submission, TypeOK, Exclusion, Control, Protocol, NoLostWakeup, FIFO
  <1>14. CASE DestructorSetsFlag
    BY <1>14 DEF DestructorSetsFlag, Goto, Unlock, TypeOK, Exclusion, Control, Protocol, NoLostWakeup, FIFO
  <1>15. CASE DestructorNotifies
    BY <1>15 DEF DestructorNotifies, NotifyAll, TypeOK, Exclusion, Control, Protocol, NoLostWakeup, FIFO
  <1>16. CASE DestructorReturns
    BY <1>16 DEF DestructorReturns, Goto, AllJoined, TypeOK, Exclusion, Control, Protocol, NoLostWakeup, FIFO
  <1>17. CASE UNCHANGED vars
    BY <1>17 DEF TypeOK, Exclusion, Control, Protocol, NoLostWakeup, FIFO, vars
  <1>18. QED
    BY <1>1, <1>2, <1>3, <1>4, <1>5, <1>6, <1>7, <1>8, <1>9, <1>10, <1>11, <1>12, <1>13, <1>14, <1>15, <1>16, <1>17 DEF Next, Caller, Worker, MainStep, Ended

-----------------------------------------------------------------------------
(* The inductive invariant holds in every reachable state of the pool. *)
THEOREM Invariance == Spec => []IInv
  BY InitInv, StepInv, PTL DEF Spec

(* Types are respected whatever the numbers of workers and tasks. *)
THEOREM TypeCorrect == Spec => []TypeOK
  <1>1. IInv => TypeOK
    BY DEF IInv
  <1>2. QED
    BY <1>1, Invariance, PTL

(* queueMutex: two threads are never between locking and unlocking it. *)
THEOREM MutualExclusion == Spec => []Exclusion
  <1>1. IInv => Exclusion
    BY DEF IInv
  <1>2. QED
    BY <1>1, Invariance, PTL

(* No notification is missed: no queued task is left with every worker asleep,
   and the destructor's notify_all leaves none asleep. *)
THEOREM WakeupsReachWorkers == Spec => []NoLostWakeup
  <1>1. IInv => NoLostWakeup
    BY DEF IInv
  <1>2. QED
    BY <1>1, Invariance, PTL

(* Tasks are taken in the order in which they were accepted, none is lost. *)
THEOREM TasksInOrder == Spec => []FIFO
  <1>1. IInv => FIFO
    BY DEF IInv
  <1>2. QED
    BY <1>1, Invariance, PTL

(* The destructor returns only after every accepted task ran to its end. *)
THEOREM DrainsBeforeReturn == Spec => []DestructorDrains
  <1>1. IInv => DestructorDrains
    <2> SUFFICES ASSUME IInv, pc[Main] = "done" PROVE DestructorDrains
      BY DEF DestructorDrains
    <2>1. \A w \in Workers : pc[w] = "exited" /\ task[w] = NoTask
      BY DEF IInv, Protocol, Control
    <2>2. taskQueue = <<>>
      BY <2>1, ThreadPoolAssumption DEF IInv, Protocol
    <2>3. started = accepted
      BY <2>2, ConcatEmptySeq DEF IInv, FIFO, TypeOK
    <2>4. QED
      BY <2>1, <2>3 DEF DestructorDrains
  <1>2. QED
    BY <1>1, Invariance, PTL

-----------------------------------------------------------------------------
(* A task is in one place at a time. *)

(* What a sequence of tasks holds, after a push at its back. *)
LEMMA PushedSet == \A s \in Seq(Tasks), x \in Tasks : ToSet(Append(s, x)) = ToSet(s) \cup {x}
  <1> SUFFICES ASSUME NEW s \in Seq(Tasks), NEW x \in Tasks PROVE ToSet(Append(s, x)) = ToSet(s) \cup {x}
    OBVIOUS
  <1>1. /\ Len(s) \in Nat /\ DOMAIN s = 1..Len(s) /\ DOMAIN Append(s, x) = 1..(Len(s) + 1)
        /\ Append(s, x)[Len(s) + 1] = x /\ \A i \in 1..Len(s) : Append(s, x)[i] = s[i]
    BY AppendProperties, LenProperties
  <1>2. 1..(Len(s) + 1) = (1..Len(s)) \cup {Len(s) + 1}
    BY <1>1
  <1>3. QED
    BY <1>1, <1>2 DEF ToSet

(* What a queue without repetitions holds, after its front is taken. *)
LEMMA TakenSet ==
  ASSUME NEW q \in Seq(Tasks), q # <<>>, \A i, j \in DOMAIN q : q[i] = q[j] => i = j
  PROVE  /\ Head(q) \in ToSet(q) /\ ToSet(Tail(q)) = ToSet(q) \ {Head(q)}
         /\ \A i, j \in DOMAIN Tail(q) : Tail(q)[i] = Tail(q)[j] => i = j
  <1>1. Len(q) \in Nat /\ Len(q) >= 1 /\ DOMAIN q = 1..Len(q) /\ Head(q) = q[1]
    BY EmptySeq, LenProperties
  <1>2. /\ Tail(q) \in Seq(Tasks) /\ DOMAIN Tail(q) = 1..(Len(q) - 1)
        /\ \A i \in 1..(Len(q) - 1) : Tail(q)[i] = q[i + 1]
    BY HeadTailProperties, LenProperties
  <1>3. ASSUME NEW x \in ToSet(q), x # Head(q) PROVE x \in ToSet(Tail(q))
    <2>1. PICK i \in 1..Len(q) : x = q[i]
      BY <1>1, <1>3 DEF ToSet
    <2>2. i - 1 \in 1..(Len(q) - 1) /\ Tail(q)[i - 1] = x
      BY <1>1, <1>2, <1>3, <2>1
    <2>3. QED
      BY <1>2, <2>2 DEF ToSet
  <1>4. ASSUME NEW x \in ToSet(Tail(q)) PROVE x \in ToSet(q) /\ x # Head(q)
    <2>1. PICK i \in 1..(Len(q) - 1) : x = q[i + 1]
      BY <1>2, <1>4 DEF ToSet
    <2>2. i + 1 \in 1..Len(q) /\ i + 1 # 1
      BY <1>1
    <2>3. QED
      BY <1>1, <2>1, <2>2 DEF ToSet
  <1>5. ASSUME NEW i \in DOMAIN Tail(q), NEW j \in DOMAIN Tail(q), Tail(q)[i] = Tail(q)[j]
        PROVE  i = j
    <2>1. q[i + 1] = q[j + 1] /\ i + 1 \in 1..Len(q) /\ j + 1 \in 1..Len(q) /\ i \in Nat /\ j \in Nat
      BY <1>1, <1>2, <1>5
    <2>2. i + 1 = j + 1
      BY <1>1, <2>1
    <2>3. QED
      BY <2>1, <2>2
  <1>6. Head(q) \in ToSet(q)
    BY <1>1 DEF ToSet
  <1>7. QED
    BY <1>3, <1>4, <1>5, <1>6

(* Who submitted a task stays so, if main() goes forward and no thread returns to its push. *)
LEMMA SubmittedStays ==
  ASSUME IInv, NEW x, Submitted(x), ToSet(started) \subseteq ToSet(started'),
         \/ taskIndex' = taskIndex + 1
         \/ /\ taskIndex' = taskIndex
            /\ pc'[Main] \in {"spawn", "enqLock", "enqBody"} => pc[Main] \in {"spawn", "enqLock", "enqBody"},
         \A w \in Workers, p \in ToSet(started) :
           task'[w] = p /\ pc'[w] \in {"enqLock", "enqBody"} => task[w] = p /\ pc[w] \in {"enqLock", "enqBody"}
  PROVE  Submitted(x)'
  <1>1. CASE \E p \in ToSet(started) :
               /\ x = Child[p]
               /\ \A w \in Workers : task[w] = p => pc[w] \notin {"enqLock", "enqBody"}
    BY <1>1 DEF Submitted
  <1>2. CASE \E i \in DOMAIN MainTasks :
               /\ x = MainTasks[i] /\ i <= taskIndex
               /\ i = taskIndex => pc[Main] \notin {"spawn", "enqLock", "enqBody"}
    <2>1. taskIndex \in Nat /\ DOMAIN MainTasks \subseteq Nat
      BY ThreadPoolAssumption, LenProperties DEF IInv, TypeOK
    <2>2. PICK i \in DOMAIN MainTasks :
               /\ x = MainTasks[i] /\ i <= taskIndex
               /\ i = taskIndex => pc[Main] \notin {"spawn", "enqLock", "enqBody"}
      BY <1>2
    <2>3. i <= taskIndex' /\ (i = taskIndex' => pc'[Main] \notin {"spawn", "enqLock", "enqBody"})
      BY <2>1, <2>2
    <2>4. QED
      BY <2>2, <2>3 DEF Submitted
  <1>3. QED
    BY <1>1, <1>2 DEF Submitted

(* A step that neither pushes nor takes keeps every task where it is. *)
LEMMA OnceElsewhere ==
  ASSUME IInv, Once, UNCHANGED <<taskQueue, started>>,
         \A w \in Workers : task'[w] \in {task[w], NoTask},
         \/ taskIndex' = taskIndex + 1
         \/ /\ taskIndex' = taskIndex
            /\ pc'[Main] \in {"spawn", "enqLock", "enqBody"} => pc[Main] \in {"spawn", "enqLock", "enqBody"},
         \A w \in Workers : pc'[w] \in {"enqLock", "enqBody"} => pc[w] \in {"enqLock", "enqBody"}
  PROVE  Once'
  <1>1. \A w \in Workers, p \in ToSet(started) : task'[w] = p => task[w] = p
    BY ThreadPoolAssumption, ElementOfSeq DEF ToSet, IInv, TypeOK
  <1>2. \A x \in ToSet(started) \cup ToSet(taskQueue) : Submitted(x)'
    BY <1>1, SubmittedStays DEF Once
  <1>3. QED
    BY <1>2 DEF Once

(* A push is of a task that nobody has submitted yet. *)
LEMMA PushedIsNew ==
  ASSUME IInv, Once, NEW t \in Threads, EnqueuePush(t)
  PROVE  \E x \in Tasks : x = Argument(t) /\ ~Submitted(x) /\ Submitted(x)'
  <1>1. CASE t = Main
    <2>0. /\ pc[Main] = "enqBody" /\ pc'[Main] = "enqNotify" /\ taskIndex' = taskIndex
          /\ taskIndex \in DOMAIN MainTasks /\ Argument(t) = MainTasks[taskIndex] /\ taskIndex \in Nat
      BY <1>1, ThreadPoolAssumption, LenProperties
         DEF EnqueuePush, Goto, Argument, IInv, TypeOK, Control, Threads
    <2>1. PICK x \in Tasks : x = MainTasks[taskIndex]
      BY <2>0, ThreadPoolAssumption, ElementOfSeq, LenProperties
    <2>2. ~Submitted(x)
      <3>1. \A i \in DOMAIN MainTasks : MainTasks[i] = x => i = taskIndex
        BY <2>0, <2>1, TasksAreDistinct
      <3>2. \A p \in ToSet(started) : Child[p] # x
        BY <2>0, <2>1, TasksAreDistinct, ElementOfSeq DEF ToSet, IInv, TypeOK
      <3>3. QED
        BY <2>0, <3>1, <3>2 DEF Submitted
    <2>3. Submitted(x)'
      <3>1. taskIndex <= taskIndex'
        BY <2>0
      <3>2. QED
        BY <2>0, <2>1, <3>1 DEF Submitted
    <2>4. QED
      BY <2>0, <2>1, <2>2, <2>3
  <1>2. CASE t \in Workers
    <2>0. /\ pc[t] = "enqBody" /\ pc'[t] = "enqNotify" /\ task' = task /\ started' = started
          /\ t # Main /\ Argument(t) = Child[task[t]] /\ task[t] # NoTask /\ Child[task[t]] # NoTask
      BY <1>2, ThreadPoolAssumption DEF EnqueuePush, Goto, Argument, IInv, TypeOK, Control, Threads
    <2>1. task[t] \in Tasks /\ task[t] \in ToSet(started)
      BY <1>2, <2>0, ThreadPoolAssumption DEF Once, IInv, TypeOK
    <2>2. PICK x \in Tasks : x = Child[task[t]]
      BY <2>0, <2>1, ThreadPoolAssumption
    <2>3. ~Submitted(x)
      <3>1. \A i \in DOMAIN MainTasks : x # MainTasks[i]
        BY <2>1, <2>2, TasksAreDistinct
      <3>2. \A p \in ToSet(started) : Child[p] = x => p = task[t]
        BY <2>0, <2>1, <2>2, TasksAreDistinct, ElementOfSeq DEF ToSet, IInv, TypeOK
      <3>3. QED
        BY <1>2, <2>0, <3>1, <3>2 DEF Submitted
    <2>4. Submitted(x)'
      <3>1. \A w \in Workers : task'[w] = task[t] => w = t
        BY <1>2, <2>0 DEF Once
      <3>2. QED
        BY <2>0, <2>1, <2>2, <3>1 DEF Submitted
    <2>5. QED
      BY <2>0, <2>2, <2>3, <2>4
  <1>3. QED
    BY <1>1, <1>2 DEF Threads

(* A worker takes a task that no worker took before. *)
LEMMA TakenIsNew ==
  ASSUME IInv, Once, NEW w \in Workers, WorkerTakes(w)
  PROVE  \E x \in ToSet(taskQueue) :
           /\ x \in Tasks /\ x \notin ToSet(started) /\ \A v \in Workers : task[v] # x
           /\ task' = [task EXCEPT ![w] = x]
           /\ pc[w] = "check" /\ \A t \in Threads \ {w} : pc'[t] = pc[t]
           /\ ToSet(started') = ToSet(started) \cup {x}
           /\ ToSet(taskQueue') = ToSet(taskQueue) \ {x}
           /\ \A i, j \in DOMAIN taskQueue' : taskQueue'[i] = taskQueue'[j] => i = j
           /\ UNCHANGED <<taskIndex, isShutdownRequested>>
  <1>0. /\ taskQueue # <<>> /\ taskQueue' = Tail(taskQueue) /\ started' = Append(started, Head(taskQueue))
        /\ task' = [task EXCEPT ![w] = Head(taskQueue)]
        /\ pc[w] = "check" /\ pc \in [Threads -> PCs]
        /\ pc' = [pc EXCEPT ![w] = IF Child[Head(taskQueue)] = NoTask THEN "run" ELSE "enqLock"]
        /\ UNCHANGED <<taskIndex, isShutdownRequested>>
    BY DEF WorkerTakes, Goto, Popped, IInv, TypeOK
  <1>1. taskQueue \in Seq(Tasks) /\ started \in Seq(Tasks)
    BY DEF IInv, TypeOK
  <1>2. /\ Head(taskQueue) \in ToSet(taskQueue) /\ ToSet(Tail(taskQueue)) = ToSet(taskQueue) \ {Head(taskQueue)}
        /\ \A i, j \in DOMAIN Tail(taskQueue) : Tail(taskQueue)[i] = Tail(taskQueue)[j] => i = j
    BY <1>0, <1>1, TakenSet DEF Once
  <1>3. Head(taskQueue) \in Tasks
    BY <1>0, <1>1, TakeKeepsOrder
  <1>4. Head(taskQueue) \notin ToSet(started) /\ \A v \in Workers : task[v] # Head(taskQueue)
    BY <1>2, <1>3, ThreadPoolAssumption DEF Once
  <1>5. ToSet(started') = ToSet(started) \cup {Head(taskQueue)}
    BY <1>0, <1>1, <1>3, PushedSet, Zenon
  <1>6. \A t \in Threads \ {w} : pc'[t] = pc[t]
    BY <1>0
  <1>7. QED
    BY <1>0, <1>2, <1>3, <1>4, <1>5, <1>6

(* Before the first submission every task is at most in one place. *)
LEMMA OnceInit == Init => Once
  <1> SUFFICES ASSUME Init PROVE Once
    OBVIOUS
  <1>1. ToSet(started) = {} /\ ToSet(taskQueue) = {} /\ DOMAIN taskQueue = {}
    BY DEF Init, ToSet
  <1>2. \A w \in Workers : task[w] = NoTask
    BY DEF Init
  <1>3. QED
    BY <1>1, <1>2 DEF Once

(* Every step leaves each task in one place. *)
LEMMA OnceStep == IInv /\ Once /\ [Next]_vars => Once'
  <1> SUFFICES ASSUME IInv, Once, [Next]_vars PROVE Once'
    OBVIOUS
  <1>1. ASSUME NEW t \in Threads, EnqueuePush(t) PROVE Once'
    <2>0. /\ taskQueue' = Append(taskQueue, Argument(t)) /\ UNCHANGED <<started, task, taskIndex>>
          /\ pc' = [pc EXCEPT ![t] = "enqNotify"]
      BY <1>1 DEF EnqueuePush, Goto, Pushed
    <2>1. PICK x \in Tasks : x = Argument(t) /\ ~Submitted(x) /\ Submitted(x)'
      BY <1>1, PushedIsNew
    <2>2. x \notin ToSet(started) /\ x \notin ToSet(taskQueue)
      BY <2>1 DEF Once
    <2>3. ToSet(taskQueue)' = ToSet(taskQueue) \cup {x} /\ ToSet(started)' = ToSet(started)
      BY <2>0, <2>1, PushedSet, Zenon DEF IInv, TypeOK
    <2>4. \A y \in ToSet(started) \cup ToSet(taskQueue) : Submitted(y)'
      <3>1. \A u \in Threads : pc'[u] \in {"spawn", "enqLock", "enqBody"} => pc'[u] = pc[u]
        BY <2>0 DEF IInv, TypeOK
      <3>2. QED
        BY <2>0, <3>1, SubmittedStays DEF Once, Threads
    <2>5. \A i, j \in DOMAIN taskQueue' : taskQueue'[i] = taskQueue'[j] => i = j
      <3>1. taskQueue \in Seq(Tasks) /\ taskQueue' = Append(taskQueue, x)
        BY <2>0, <2>1 DEF IInv, TypeOK
      <3>2. /\ Len(taskQueue) \in Nat /\ DOMAIN taskQueue = 1..Len(taskQueue)
            /\ DOMAIN taskQueue' = 1..(Len(taskQueue) + 1)
            /\ taskQueue'[Len(taskQueue) + 1] = x
            /\ \A i \in 1..Len(taskQueue) : taskQueue'[i] = taskQueue[i] /\ taskQueue[i] # x
        BY <2>2, <3>1, AppendProperties, LenProperties DEF ToSet
      <3>3. QED
        BY <3>2 DEF Once
    <2>6. QED
      BY <2>0, <2>1, <2>2, <2>3, <2>4, <2>5 DEF Once
  <1>2. ASSUME NEW w \in Workers, WorkerTakes(w) PROVE Once'
    <2>1. PICK x \in ToSet(taskQueue) :
           /\ x \in Tasks /\ x \notin ToSet(started) /\ \A v \in Workers : task[v] # x
           /\ task' = [task EXCEPT ![w] = x]
           /\ pc[w] = "check" /\ \A t \in Threads \ {w} : pc'[t] = pc[t]
           /\ ToSet(started') = ToSet(started) \cup {x}
           /\ ToSet(taskQueue') = ToSet(taskQueue) \ {x}
           /\ \A i, j \in DOMAIN taskQueue' : taskQueue'[i] = taskQueue'[j] => i = j
           /\ UNCHANGED <<taskIndex, isShutdownRequested>>
      BY <1>2, TakenIsNew
    <2>2. \A v \in Workers : task'[v] = IF v = w THEN x ELSE task[v]
      BY <2>1 DEF IInv, TypeOK
    <2>3. \A y \in ToSet(started) \cup ToSet(taskQueue) : Submitted(y)'
      <3>1. pc'[Main] = pc[Main] /\ taskIndex' = taskIndex
        BY <2>1, ThreadPoolAssumption DEF Threads
      <3>2. \A v \in Workers, p \in ToSet(started) :
              task'[v] = p /\ pc'[v] \in {"enqLock", "enqBody"} => task[v] = p /\ pc[v] \in {"enqLock", "enqBody"}
        BY <2>1, <2>2 DEF Threads
      <3>3. QED
        BY <2>1, <3>1, <3>2, SubmittedStays DEF Once
    <2>4. ToSet(started)' = ToSet(started) \cup {x} /\ ToSet(taskQueue)' = ToSet(taskQueue) \ {x}
      BY <2>1
    <2>5. QED
      BY <2>1, <2>2, <2>3, <2>4 DEF Once
  <1>3. ASSUME UNCHANGED <<taskQueue, started, task, taskIndex>>,
               \A t \in Threads : pc'[t] \in {"spawn", "enqLock", "enqBody"} => pc[t] \in {"spawn", "enqLock", "enqBody"},
               \A w \in Workers : pc'[w] \in {"enqLock", "enqBody"} => pc[w] \in {"enqLock", "enqBody"}
        PROVE  Once'
    BY <1>3, OnceElsewhere DEF Threads
  <1> USE ThreadPoolAssumption DEF data, Threads, PCs, Goto, Waiting
  <1>4. ASSUME NEW t \in Threads, Acquire(t) PROVE Once'
    BY <1>3, <1>4 DEF Acquire, WhenLocked, IInv, TypeOK, Control, WorkerPCs
  <1>5. ASSUME NEW t \in Threads, EnqueueThrows(t) PROVE Once'
    BY <1>3, <1>5 DEF EnqueueThrows, IInv, TypeOK
  <1>6. ASSUME NEW t \in Threads, EnqueueNotify(t) PROVE Once'
    <2>1. \A u \in Threads : pc'[u] = pc[u] \/ pc'[u] \in {"enqDone", "run", "lock"}
      BY <1>6 DEF EnqueueNotify, NotifyOne, IInv, TypeOK
    <2>2. QED
      BY <1>3, <1>6, <2>1 DEF EnqueueNotify
  <1>7. ASSUME NEW w \in Workers,
               WorkerSeesNothing(w) \/ WorkerBlocks(w) \/ WorkerExits(w) \/ WakesSpuriously(w) \/ SpawnWorker(w)
        PROVE  Once'
    <2>1. \A u \in Threads : pc'[u] = pc[u] \/ pc'[u] \in {"block", "waiting", "exited", "lock"}
      BY <1>7 DEF WorkerSeesNothing, WorkerBlocks, WorkerExits, WakesSpuriously, SpawnWorker, IInv, TypeOK
    <2>2. QED
      BY <1>3, <1>7, <2>1 DEF WorkerSeesNothing, WorkerBlocks, WorkerExits, WakesSpuriously, SpawnWorker
  <1>8. ASSUME NEW w \in Workers, TaskReturns(w) PROVE Once'
    <2>1. /\ \A u \in Threads : pc'[u] = pc[u] \/ pc'[u] = "lock"
          /\ \A v \in Workers : task'[v] \in {task[v], NoTask}
      BY <1>8 DEF TaskReturns, IInv, TypeOK
    <2>2. QED
      BY <1>8, <2>1, OnceElsewhere DEF TaskReturns
  <1>9. CASE PoolBuilt
    <2>1. pc[Main] = "spawn" /\ \A w \in Workers : pc'[w] = pc[w]
      BY <1>9 DEF PoolBuilt, IInv, TypeOK
    <2>2. QED
      BY <1>9, <2>1, OnceElsewhere DEF PoolBuilt
  <1>10. CASE NextTask
    <2>1. \A w \in Workers : pc'[w] = pc[w]
      BY <1>10 DEF NextTask, IInv, TypeOK
    <2>2. QED
      BY <1>10, <2>1, OnceElsewhere DEF NextTask
  <1>11. CASE DestructorSetsFlag \/ DestructorNotifies \/ DestructorReturns
    <2>1. \A u \in Threads : pc'[u] = pc[u] \/ pc'[u] \in {"dtorNotify", "dtorJoin", "done", "lock"}
      BY <1>11 DEF DestructorSetsFlag, DestructorNotifies, DestructorReturns, NotifyAll, IInv, TypeOK
    <2>2. QED
      BY <1>3, <1>11, <2>1 DEF DestructorSetsFlag, DestructorNotifies, DestructorReturns
  <1>12. CASE UNCHANGED vars
    BY <1>3, <1>12 DEF vars
  <1>13. QED
    BY <1>1, <1>2, <1>4, <1>5, <1>6, <1>7, <1>8, <1>9, <1>10, <1>11, <1>12 DEF Next, Caller, Worker, MainStep, Ended

(* No task is in the hands of two workers, started twice, or queued again once started. *)
THEOREM EachTaskOnce == Spec => []Once
  BY OnceInit, OnceStep, Invariance, PTL DEF Spec

-----------------------------------------------------------------------------
(* What a step of the pool is to the contract: status by status. *)

(* A step that leaves queue, history and the workers' tasks alone changes no status. *)
LEMMA StatusUnchanged ==
  ASSUME UNCHANGED <<taskQueue, started, task>>
  PROVE  \A t \in Tasks : Status(t)' = Status(t)
  BY DEF Status

(* The statuses, as a function, when one task's changes. *)
LEMMA OneBecomes ==
  ASSUME NEW t \in Tasks, NEW from, NEW to, Status(t) = from, Status(t)' = to,
         \A u \in Tasks : u # t => Status(u)' = Status(u)
  PROVE  Contract!Becomes(t, from, to)
  BY DEF Contract!Becomes

(* Every step is a step of TaskPool, or changes nothing it can see. *)
LEMMA StepRefines == IInv /\ Once /\ [Next]_vars => [Contract!Next]_(Contract!vars)
  <1> SUFFICES ASSUME IInv, Once, [Next]_vars PROVE [Contract!Next]_(Contract!vars)
    OBVIOUS
  <1> DEFINE Stutters == /\ isShutdownRequested' = isShutdownRequested
                         /\ UNCHANGED <<taskQueue, started, task>>
                         /\ (pc'[Main] = "done") = (pc[Main] = "done")
  <1>0. Stutters => UNCHANGED Contract!vars
    BY StatusUnchanged DEF Contract!vars
  <1>1. ASSUME NEW t \in Threads, EnqueuePush(t) PROVE Contract!Next
    <2>0. /\ taskQueue' = Append(taskQueue, Argument(t)) /\ UNCHANGED <<started, task, isShutdownRequested>>
          /\ ~isShutdownRequested /\ pc[t] = "enqBody" /\ pc' = [pc EXCEPT ![t] = "enqNotify"]
      BY <1>1 DEF EnqueuePush, Goto, Pushed
    <2>1. PICK x \in Tasks : x = Argument(t) /\ ~Submitted(x)
      BY <1>1, PushedIsNew
    <2>2. /\ x \notin ToSet(started) /\ x \notin ToSet(taskQueue) /\ \A w \in Workers : task[w] # x
      BY <2>1, ThreadPoolAssumption DEF Once
    <2>3. ToSet(taskQueue') = ToSet(taskQueue) \cup {x}
      BY <2>0, <2>1, PushedSet, Zenon DEF IInv, TypeOK
    <2>4. Status(x) = "new" /\ Status(x)' = "queued"
      BY <2>0, <2>2, <2>3 DEF Status
    <2>5. \A u \in Tasks : u # x => Status(u)' = Status(u)
      BY <2>0, <2>3 DEF Status
    <2>6. pc[Main] # "done" /\ pc'[Main] # "done"
      BY <2>0 DEF IInv, TypeOK, Protocol
    <2>7. Contract!Submit(x)
      BY <2>0, <2>4, <2>5, <2>6, OneBecomes DEF Contract!Submit
    <2>8. QED
      BY <2>7 DEF Contract!Next
  <1>2. ASSUME NEW w \in Workers, WorkerTakes(w) PROVE Contract!Next
    <2>1. PICK x \in ToSet(taskQueue) :
           /\ x \in Tasks /\ x \notin ToSet(started) /\ \A v \in Workers : task[v] # x
           /\ task' = [task EXCEPT ![w] = x]
           /\ pc[w] = "check" /\ \A t \in Threads \ {w} : pc'[t] = pc[t]
           /\ ToSet(started') = ToSet(started) \cup {x}
           /\ ToSet(taskQueue') = ToSet(taskQueue) \ {x}
           /\ \A i, j \in DOMAIN taskQueue' : taskQueue'[i] = taskQueue'[j] => i = j
           /\ UNCHANGED <<taskIndex, isShutdownRequested>>
      BY <1>2, TakenIsNew
    <2>2. /\ \A v \in Workers : task'[v] = IF v = w THEN x ELSE task[v]
          /\ task[w] = NoTask
      BY <2>1 DEF IInv, TypeOK, Control
    <2>3. Status(x) = "queued" /\ Status(x)' = "running"
      BY <2>1, <2>2 DEF Status
    <2>4. \A u \in Tasks : u # x => Status(u)' = Status(u)
      BY <2>1, <2>2, ThreadPoolAssumption DEF Status
    <2>5. pc[Main] # "done" /\ pc'[Main] = pc[Main]
      BY <2>1, ThreadPoolAssumption DEF IInv, Protocol, Threads
    <2>6. Contract!Start(x)
      BY <2>1, <2>3, <2>4, <2>5, OneBecomes DEF Contract!Start
    <2>7. QED
      BY <2>1, <2>6 DEF Contract!Next
  <1>3. ASSUME NEW w \in Workers, TaskReturns(w) PROVE Contract!Next
    <2>0. /\ pc[w] = "run" /\ pc' = [pc EXCEPT ![w] = "lock"] /\ task' = [task EXCEPT ![w] = NoTask]
          /\ UNCHANGED <<taskQueue, started, isShutdownRequested>>
      BY <1>3 DEF TaskReturns, Goto
    <2>1. PICK x \in Tasks : x = task[w]
      BY <2>0 DEF IInv, TypeOK, Control
    <2>2. x \in ToSet(started) /\ x # NoTask /\ \A v \in Workers : v # w => task[v] # x
      BY <2>1, ThreadPoolAssumption DEF Once
    <2>3. \A v \in Workers : task'[v] = IF v = w THEN NoTask ELSE task[v]
      BY <2>0 DEF IInv, TypeOK
    <2>4. Status(x) = "running" /\ Status(x)' = "done"
      BY <2>0, <2>1, <2>2, <2>3 DEF Status
    <2>5. \A u \in Tasks : u # x => Status(u)' = Status(u)
      BY <2>0, <2>1, <2>3, ThreadPoolAssumption DEF Status
    <2>6. pc[Main] # "done" /\ pc'[Main] = pc[Main]
      BY <2>0, ThreadPoolAssumption DEF IInv, TypeOK, Protocol, Threads
    <2>7. Contract!Finish(x)
      BY <2>0, <2>4, <2>5, <2>6, OneBecomes DEF Contract!Finish
    <2>8. QED
      BY <2>7 DEF Contract!Next
  <1>4. ASSUME DestructorSetsFlag PROVE Contract!Next
    <2>1. \A t \in Tasks : Status(t)' = Status(t)
      BY <1>4, StatusUnchanged DEF DestructorSetsFlag
    <2>2. ~isShutdownRequested /\ isShutdownRequested' /\ pc[Main] # "done" /\ pc'[Main] # "done"
      BY <1>4 DEF DestructorSetsFlag, Goto, IInv, TypeOK, Protocol, Threads
    <2>3. Contract!Close
      BY <2>1, <2>2 DEF Contract!Close
    <2>4. QED
      BY <2>3 DEF Contract!Next
  <1>5. ASSUME DestructorReturns PROVE Contract!Next
    <2>0. /\ \A w \in Workers : pc[w] = "exited" /\ task[w] = NoTask
          /\ taskQueue = <<>> /\ isShutdownRequested /\ isShutdownRequested' = isShutdownRequested
          /\ pc[Main] # "done" /\ pc'[Main] = "done"
      BY <1>5, ThreadPoolAssumption
         DEF DestructorReturns, AllJoined, Goto, data, IInv, TypeOK, Control, Protocol, Threads
    <2>1. \A t \in Tasks : Status(t)' = Status(t)
      BY <1>5, StatusUnchanged DEF DestructorReturns, data
    <2>2. ToSet(taskQueue) = {}
      BY <2>0 DEF ToSet
    <2>3. \A t \in Tasks : Status(t) # "running" /\ Status(t) # "queued"
      BY <2>0, <2>2, ThreadPoolAssumption DEF Status
    <2>4. Contract!Join
      BY <2>0, <2>1, <2>3 DEF Contract!Join
    <2>5. QED
      BY <2>4 DEF Contract!Next
  <1> USE ThreadPoolAssumption DEF data, Threads, PCs, Goto, Waiting
  <1>6. ASSUME NEW t \in Threads, Acquire(t) \/ EnqueueThrows(t) \/ EnqueueNotify(t) PROVE Stutters
    <2>1. (pc'[Main] # "done" /\ pc[Main] # "done") \/ pc'[Main] = pc[Main]
      BY <1>6 DEF Acquire, WhenLocked, EnqueueThrows, EnqueueNotify, NotifyOne, IInv, TypeOK, Control
    <2>2. QED
      BY <1>6, <2>1 DEF Acquire, EnqueueThrows, EnqueueNotify
  <1>7. ASSUME NEW w \in Workers,
               WorkerSeesNothing(w) \/ WorkerBlocks(w) \/ WorkerExits(w) \/ WakesSpuriously(w) \/ SpawnWorker(w)
        PROVE  Stutters
    <2>1. pc'[Main] = pc[Main]
      BY <1>7 DEF WorkerSeesNothing, WorkerBlocks, WorkerExits, WakesSpuriously, SpawnWorker, IInv, TypeOK
    <2>2. QED
      BY <1>7, <2>1 DEF WorkerSeesNothing, WorkerBlocks, WorkerExits, WakesSpuriously, SpawnWorker
  <1>8. ASSUME PoolBuilt \/ NextTask \/ DestructorNotifies PROVE Stutters
    <2>1. pc'[Main] # "done" /\ pc[Main] # "done"
      BY <1>8 DEF PoolBuilt, NextTask, Submission, DestructorNotifies, NotifyAll, IInv, TypeOK
    <2>2. QED
      BY <1>8, <2>1 DEF PoolBuilt, NextTask, DestructorNotifies
  <1>9. ASSUME UNCHANGED vars PROVE Stutters
    BY <1>9 DEF vars
  <1>10. QED
    BY <1>0, <1>1, <1>2, <1>3, <1>4, <1>5, <1>6, <1>7, <1>8, <1>9 DEF Next, Caller, Worker, MainStep, Ended

(* The pool keeps the executor's contract, step by step: it runs what it accepts once and
   returns from its destructor with nothing queued or running. *)
THEOREM Implements == Spec => ImplementsTaskPool
  <1>1. Init => Contract!Init
    <2> SUFFICES ASSUME Init PROVE Contract!Init
      OBVIOUS
    <2>1. ToSet(started) = {} /\ ToSet(taskQueue) = {} /\ \A w \in Workers : task[w] = NoTask
      BY DEF Init, ToSet
    <2>2. \A t \in Tasks : Status(t) = "new"
      BY <2>1, ThreadPoolAssumption DEF Status
    <2>3. pc[Main] # "done" /\ ~isShutdownRequested
      BY DEF Init, Threads
    <2>4. QED
      BY <2>2, <2>3 DEF Contract!Init
  <1>2. QED
    BY <1>1, StepRefines, Invariance, EachTaskOnce, PTL DEF Spec, ImplementsTaskPool, Contract!Spec
=============================================================================
