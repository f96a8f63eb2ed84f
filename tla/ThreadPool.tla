------------------------------ MODULE ThreadPool ------------------------------
(* thread_pool: a FIFO task queue behind one mutex and one condition variable,
   workers that take from it, a destructor that sets the shutdown flag, wakes
   everyone and joins.  Locking, evaluating the wait predicate, blocking and
   notifying are separate steps; a running task may itself enqueue one (Child). *)
EXTENDS Naturals, Sequences, SequencesExt

CONSTANTS Workers,      \* the threads of workerThreads
          Main,         \* the thread that builds, feeds and destroys the pool
          NoThread,     \* "queueMutex is free"
          Tasks, NoTask,
          MainTasks,    \* the tasks Main submits, in order
          Child,        \* Child[t]: the task that running t submits, or NoTask
          MaxSpurious   \* bound on the wakeups nobody asked for

Threads == Workers \cup {Main}

ASSUME ThreadPoolAssumption ==
  /\ Workers # {} /\ Main \notin Workers /\ NoThread \notin Threads
  /\ NoTask \notin Tasks
  /\ MainTasks \in Seq(Tasks)
  /\ Child \in [Tasks -> Tasks \cup {NoTask}]
  /\ MaxSpurious \in Nat

\* Every call of enqueueTask passes a closure of its own.
ASSUME TasksAreDistinct ==
  /\ \A i, j \in DOMAIN MainTasks : MainTasks[i] = MainTasks[j] => i = j
  /\ \A t, u \in Tasks : Child[t] # NoTask /\ Child[t] = Child[u] => t = u
  /\ \A t \in Tasks, i \in DOMAIN MainTasks : Child[t] # MainTasks[i]

VARIABLES pc,                   \* where each thread is
          queueMutex,           \* its owner, or NoThread
          taskQueue, isShutdownRequested,
          taskIndex,            \* Main's loop variable
          task,                 \* taskToExecute of each worker
          accepted,             \* history: tasks in the order they were pushed
          started,              \* history: tasks in the order workers took them
          spurious              \* spurious wakeups so far

data == <<taskQueue, isShutdownRequested, taskIndex, task, accepted, started, spurious>>
vars == <<pc, queueMutex, data>>

PCs == {"spawn", "unborn", "lock", "check", "block", "waiting", "run", "exited",
        "enqLock", "enqBody", "enqNotify", "enqDone",
        "dtorLock", "dtorSet", "dtorNotify", "dtorJoin", "done", "aborted"}

Init == /\ pc = [t \in Threads |-> IF t = Main THEN "spawn" ELSE "unborn"]
        /\ queueMutex = NoThread
        /\ taskQueue = <<>> /\ isShutdownRequested = FALSE
        /\ taskIndex = 1
        /\ task = [w \in Workers |-> NoTask]
        /\ accepted = <<>> /\ started = <<>>
        /\ spurious = 0

-----------------------------------------------------------------------------
Aborted == \E t \in Threads : pc[t] = "aborted"   \* std::terminate was called
Waiting == {w \in Workers : pc[w] = "waiting"}

Goto(t, from, to) == ~Aborted /\ pc[t] = from /\ pc' = [pc EXCEPT ![t] = to]

Unlock(t) == queueMutex = t /\ queueMutex' = NoThread

\* The three places that lock queueMutex, and what each does once it has it.
WhenLocked == [lock |-> "check", enqLock |-> "enqBody", dtorLock |-> "dtorSet"]

Acquire(t) == /\ pc[t] \in DOMAIN WhenLocked
              /\ Goto(t, pc[t], WhenLocked[pc[t]])
              /\ queueMutex = NoThread /\ queueMutex' = t
              /\ UNCHANGED data

\* notify_one: any one waiter leaves the wait set; with none, nothing happens.
NotifyOne(t, to) ==
  \/ Waiting = {} /\ pc' = [pc EXCEPT ![t] = to]
  \/ \E w \in Waiting : pc' = [pc EXCEPT ![t] = to, ![w] = "lock"]

NotifyAllBug(t, to) == NotifyOne(t, to)   \* mutant: notify_one in the destructor

NotifyAll(t, to) ==
  pc' = [u \in Threads |-> IF u = t THEN to ELSE IF u \in Waiting THEN "lock" ELSE pc[u]]

-----------------------------------------------------------------------------
(* enqueueTask, called by Main or by a task that a worker runs *)

PushedBug(t) == <<t>> \o taskQueue   \* mutant: pushed at the wrong end
Pushed(t) == Append(taskQueue, t)

ArgumentBug(t) == NoTask   \* mutant: pushed after it was moved from
Argument(t) == IF t = Main THEN MainTasks[taskIndex] ELSE Child[task[t]]

EnqueuePush(t) ==
  /\ ~isShutdownRequested
  /\ Goto(t, "enqBody", "enqNotify") /\ Unlock(t)
  /\ taskQueue' = Pushed(Argument(t))
  /\ accepted' = Append(accepted, Argument(t))
  /\ UNCHANGED <<isShutdownRequested, taskIndex, task, started, spurious>>

\* Nothing catches the exception: it leaves the thread's function.
EnqueueThrows(t) == /\ isShutdownRequested
                    /\ Goto(t, "enqBody", "aborted") /\ Unlock(t)
                    /\ UNCHANGED data

EnqueueNotify(t) == /\ ~Aborted /\ pc[t] = "enqNotify"
                    /\ NotifyOne(t, IF t = Main THEN "enqDone" ELSE "run")
                    /\ UNCHANGED <<queueMutex, data>>

-----------------------------------------------------------------------------
(* The worker loop *)

MayProceedBug == taskQueue # <<>>   \* mutant: the flag is not in the predicate
MayProceed == isShutdownRequested \/ taskQueue # <<>>   \* the wait's predicate

MayExitBug == isShutdownRequested   \* mutant: exits without draining
MayExit == isShutdownRequested /\ taskQueue = <<>>

PoppedBug == taskQueue   \* mutant: front() without pop()
Popped == Tail(taskQueue)

\* The predicate is false: the worker will block, and still owns the mutex.
WorkerSeesNothing(w) == /\ ~MayProceed
                        /\ Goto(w, "check", "block")
                        /\ UNCHANGED <<queueMutex, data>>

\* The wait releases the mutex and joins the wait set in one step.
WorkerBlocks(w) == Goto(w, "block", "waiting") /\ Unlock(w) /\ UNCHANGED data

WakesSpuriously(w) ==
  /\ spurious < MaxSpurious /\ spurious' = spurious + 1
  /\ Goto(w, "waiting", "lock")
  /\ UNCHANGED <<queueMutex, taskQueue, isShutdownRequested, taskIndex, task, accepted, started>>

WorkerExits(w) == MayExit /\ Goto(w, "check", "exited") /\ Unlock(w) /\ UNCHANGED data

\* The front task leaves the queue and its function starts: it may call enqueueTask.
WorkerTakes(w) ==
  /\ taskQueue # <<>>
  /\ Goto(w, "check", IF Child[Head(taskQueue)] = NoTask THEN "run" ELSE "enqLock")
  /\ Unlock(w)
  /\ task' = [task EXCEPT ![w] = Head(taskQueue)]
  /\ started' = Append(started, Head(taskQueue))
  /\ taskQueue' = Popped
  /\ UNCHANGED <<isShutdownRequested, taskIndex, accepted, spurious>>

TaskReturns(w) ==
  /\ Goto(w, "run", "lock")
  /\ task' = [task EXCEPT ![w] = NoTask]
  /\ UNCHANGED <<queueMutex, taskQueue, isShutdownRequested, taskIndex, accepted, started, spurious>>

-----------------------------------------------------------------------------
(* Main: the constructor, main()'s loop and the destructor *)

\* A worker starts running as soon as emplace_back built its thread.
SpawnWorker(w) == /\ pc[Main] = "spawn" /\ Goto(w, "unborn", "lock")
                  /\ UNCHANGED <<queueMutex, data>>

\* The next iteration of main()'s loop, or the end of its scope.
Submission(i) == IF i <= Len(MainTasks) THEN "enqLock" ELSE "dtorLock"

PoolBuilt == /\ \A w \in Workers : pc[w] # "unborn"
             /\ Goto(Main, "spawn", Submission(1))
             /\ UNCHANGED <<queueMutex, data>>

NextTask == /\ Goto(Main, "enqDone", Submission(taskIndex + 1))
            /\ taskIndex' = taskIndex + 1
            /\ UNCHANGED <<queueMutex, taskQueue, isShutdownRequested, task, accepted, started, spurious>>

DestructorSetsFlag ==
  /\ Goto(Main, "dtorSet", "dtorNotify") /\ Unlock(Main)
  /\ isShutdownRequested' = TRUE
  /\ UNCHANGED <<taskQueue, taskIndex, task, accepted, started, spurious>>

DestructorNotifies == /\ ~Aborted /\ pc[Main] = "dtorNotify"
                      /\ NotifyAll(Main, "dtorJoin")
                      /\ UNCHANGED <<queueMutex, data>>

AllJoinedBug == \E w \in Workers : pc[w] = "exited"   \* mutant: joins one worker
AllJoined == \A w \in Workers : pc[w] = "exited"

DestructorReturns == /\ AllJoined /\ Goto(Main, "dtorJoin", "done")
                     /\ UNCHANGED <<queueMutex, data>>

Ended == (pc[Main] = "done" \/ Aborted) /\ UNCHANGED vars

-----------------------------------------------------------------------------
Caller(t) == Acquire(t) \/ EnqueuePush(t) \/ EnqueueThrows(t) \/ EnqueueNotify(t)

Worker(w) == \/ WorkerSeesNothing(w) \/ WorkerBlocks(w) \/ WorkerTakes(w)
             \/ WorkerExits(w) \/ TaskReturns(w)

MainStep == \/ \E w \in Workers : SpawnWorker(w)
            \/ PoolBuilt \/ NextTask
            \/ DestructorSetsFlag \/ DestructorNotifies \/ DestructorReturns

Next == \/ \E t \in Threads : Caller(t)
        \/ \E w \in Workers : Worker(w) \/ WakesSpuriously(w)
        \/ MainStep
        \/ Ended

Spec == Init /\ [][Next]_vars

\* A thread that can step does; nothing is assumed about who gets the mutex.
FairSpec == /\ Spec
            /\ \A t \in Threads : WF_vars(Caller(t))
            /\ \A w \in Workers : WF_vars(Worker(w))
            /\ WF_vars(MainStep)

-----------------------------------------------------------------------------
(* Type invariant of the pool's state and of the histories. *)
TypeOK == /\ pc \in [Threads -> PCs]
          /\ queueMutex \in Threads \cup {NoThread}
          /\ taskQueue \in Seq(Tasks) /\ isShutdownRequested \in BOOLEAN
          /\ taskIndex \in Nat
          /\ task \in [Workers -> Tasks \cup {NoTask}]
          /\ accepted \in Seq(Tasks) /\ started \in Seq(Tasks)
          /\ spurious \in 0..MaxSpurious

\* A queued task is never forgotten: while the queue is not empty some worker is awake
\* or a notify_one is still to come.  And after the destructor's notify_all no worker
\* is asleep (the flag is set under the mutex, the notification made outside it).
NoLostWakeup ==
  /\ taskQueue # <<>> => \/ \E w \in Workers : pc[w] \notin {"waiting", "exited"}
                         \/ \E t \in Threads : pc[t] = "enqNotify"
  /\ isShutdownRequested /\ Waiting # {} => pc[Main] = "dtorNotify"

\* No accepted task is lost or overtaken: what the workers took, followed by what is
\* queued, is what enqueueTask accepted, in that order.
FIFO == accepted = started \o taskQueue

\* "Il distruttore gestira il completamento di tutte le task e il join dei thread":
\* when it returns every accepted task ran to its end and every worker exited.
DestructorDrains ==
  pc[Main] = "done" => /\ started = accepted
                       /\ \A w \in Workers : task[w] = NoTask /\ pc[w] = "exited"

\* The pool always shuts down, unless a task submits another after the shutdown.
Terminates == <>(pc[Main] = "done" \/ Aborted)

Status(t) == IF \E w \in Workers : task[w] = t THEN "running"
             ELSE IF t \in ToSet(started) THEN "done"
             ELSE IF t \in ToSet(taskQueue) THEN "queued" ELSE "new"

Contract == INSTANCE TaskPool WITH
              Drains <- TRUE,
              open   <- ~isShutdownRequested,
              status <- [t \in Tasks |-> Status(t)],
              joined <- pc[Main] = "done"

\* The pool keeps the executor's contract and drains its queue: in particular no task is
\* started twice or is in the hands of two workers.
ImplementsTaskPool == Contract!Spec
=============================================================================
