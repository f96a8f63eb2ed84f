--------------------------- MODULE WorkStealingPool ---------------------------
(* thread_pool_advanced: a deque per worker, each behind its own mutex.  The owner
   pushes and pops at the head, thieves take from the tail, and idle workers spin.
   Each deque operation is one critical section, hence one step; the flag is an
   atomic read on its own, so a submission may pass the check and push later. *)
EXTENDS Naturals, Sequences, FiniteSets, SequencesExt

CONSTANTS N,             \* totalWorkerThreads: the workers are 0..N-1
          Main,          \* the thread that builds, feeds and destroys the pool
          Tasks, NoTask,
          MainTasks,     \* the tasks Main submits, in order
          Child,         \* Child[t]: the task that running t submits, or NoTask
          Endless        \* tasks whose function need not return

Workers == 0..N-1
Threads == Workers \cup {Main}

ASSUME WorkStealingAssumption ==
  /\ N \in Nat \ {0} /\ Main \notin Workers /\ NoTask \notin Tasks
  /\ MainTasks \in Seq(Tasks)
  /\ Child \in [Tasks -> Tasks \cup {NoTask}]
  /\ Endless \subseteq Tasks

\* Every call of submitTask passes a closure of its own.
ASSUME TasksAreDistinct ==
  /\ \A i, j \in DOMAIN MainTasks : MainTasks[i] = MainTasks[j] => i = j
  /\ \A t, u \in Tasks : Child[t] # NoTask /\ Child[t] = Child[u] => t = u
  /\ \A t \in Tasks, i \in DOMAIN MainTasks : Child[t] # MainTasks[i]

VARIABLES pc,
          workerQueues,              \* head first
          isShutdownRequested,
          nextQueueAssignmentIndex,  \* also counts the iterations of main()'s loop
          currentTask,               \* of each worker
          totalWorkersCount,         \* what each worker read of workerThreads.size()
          searchIndex,               \* position of each worker in its search
          started                    \* history: the tasks some worker took

tasks  == <<workerQueues, currentTask, started>>
pool   == <<isShutdownRequested, nextQueueAssignmentIndex>>
search == <<totalWorkersCount, searchIndex>>
vars   == <<pc, tasks, pool, search>>

PCs == {"spawn", "unborn", "loop", "pop", "size", "steal", "run", "check", "push",
        "exited", "sleep", "join", "done", "aborted"}

Init == /\ pc = [t \in Threads |-> IF t = Main THEN "spawn" ELSE "unborn"]
        /\ workerQueues = [w \in Workers |-> <<>>]
        /\ isShutdownRequested = FALSE
        /\ nextQueueAssignmentIndex = 0
        /\ currentTask = [w \in Workers |-> NoTask]
        /\ totalWorkersCount = [w \in Workers |-> 0]
        /\ searchIndex = [w \in Workers |-> 0]
        /\ started = {}

-----------------------------------------------------------------------------
Aborted == \E t \in Threads : pc[t] = "aborted"   \* std::terminate was called

Goto(t, from, to) == ~Aborted /\ pc[t] = from /\ pc' = [pc EXCEPT ![t] = to]

Spawned == {w \in Workers : pc[w] # "unborn"}

\* w takes task t, and goes on to run its function.
Receives(w, t, from) ==
  /\ Goto(w, from, IF Child[t] = NoTask THEN "run" ELSE "check")
  /\ currentTask' = [currentTask EXCEPT ![w] = t]
  /\ started' = started \cup {t}

-----------------------------------------------------------------------------
(* workerLoopTask *)

StopBug == FALSE   \* mutant: while (true)
Stop == isShutdownRequested

LoopTest(w) == /\ Goto(w, "loop", IF Stop THEN "exited" ELSE "pop")
               /\ UNCHANGED <<tasks, pool, search>>

PopFromHead(w) ==
  /\ \/ /\ workerQueues[w] # <<>>
        /\ Receives(w, Head(workerQueues[w]), "pop")
        /\ workerQueues' = [workerQueues EXCEPT ![w] = Tail(@)]
     \/ /\ workerQueues[w] = <<>>
        /\ Goto(w, "pop", "size")
        /\ UNCHANGED <<tasks>>
  /\ UNCHANGED <<pool, search>>

\* workerThreads.size() is read without synchronisation: while the constructor is
\* still adding threads the worker may see any size the vector has had.
ReadsSize(w) ==
  /\ Goto(w, "size", "steal")
  /\ \E n \in IF pc[Main] = "spawn" THEN 0..Cardinality(Spawned) ELSE {N} :
       totalWorkersCount' = [totalWorkersCount EXCEPT ![w] = n]
  /\ searchIndex' = [searchIndex EXCEPT ![w] = 0]
  /\ UNCHANGED <<tasks, pool>>

\* The search starts at the next worker and ends at w itself.
Victim(w) == (w + searchIndex[w] + 1) % totalWorkersCount[w]

SearchTooShort(w) == searchIndex[w] + 1 < totalWorkersCount[w] - 1   \* mutant: skips the last two
SearchGoesOn(w) == searchIndex[w] < totalWorkersCount[w]

LeftBehindBug(q) == q   \* mutant: back() without pop_back()
LeftBehind(q) == Front(q)

StealFromTail(w) ==
  /\ SearchGoesOn(w)
  /\ LET v == Victim(w) IN
     \/ /\ workerQueues[v] # <<>>
        /\ Receives(w, Last(workerQueues[v]), "steal")
        /\ workerQueues' = [workerQueues EXCEPT ![v] = LeftBehind(@)]
        /\ UNCHANGED searchIndex
     \/ /\ workerQueues[v] = <<>>
        /\ Goto(w, "steal", "steal")
        /\ searchIndex' = [searchIndex EXCEPT ![w] = @ + 1]
        /\ UNCHANGED <<tasks>>
  /\ UNCHANGED <<pool, totalWorkersCount>>

\* Nothing found anywhere: yield, and start again.
Yields(w) ==
  /\ ~SearchGoesOn(w)
  /\ Goto(w, "steal", "loop")
  /\ UNCHANGED <<tasks, pool, search>>

TaskReturns(w) ==
  /\ Goto(w, "run", "loop")
  /\ currentTask' = [currentTask EXCEPT ![w] = NoTask]
  /\ UNCHANGED <<workerQueues, started, pool, search>>

-----------------------------------------------------------------------------
(* submitTask: the caller is Main, or the worker that runs a task with a Child *)

Argument(t) == IF t = Main THEN MainTasks[nextQueueAssignmentIndex + 1] ELSE Child[currentTask[t]]

SubmitCheck(t) == /\ Goto(t, "check", IF isShutdownRequested THEN "aborted" ELSE "push")
                  /\ UNCHANGED <<tasks, pool, search>>

\* What main() does after n submissions.
Submission(n) == IF n < Len(MainTasks) THEN "check" ELSE "sleep"

PushRoundRobin ==
  /\ Goto(Main, "push", Submission(nextQueueAssignmentIndex + 1))
  /\ workerQueues' = [workerQueues EXCEPT ![nextQueueAssignmentIndex % N] = <<Argument(Main)>> \o @]
  /\ nextQueueAssignmentIndex' = nextQueueAssignmentIndex + 1
  /\ UNCHANGED <<currentTask, started, isShutdownRequested, search>>

PushToOwnHead(w) ==
  /\ Goto(w, "push", "run")
  /\ workerQueues' = [workerQueues EXCEPT ![w] = <<Argument(w)>> \o @]
  /\ UNCHANGED <<currentTask, started, pool, search>>

-----------------------------------------------------------------------------
(* Constructor and destructor *)

\* emplace_back starts the workers in the order of their indices.
SpawnWorker(w) ==
  /\ pc[Main] = "spawn" /\ \A v \in 0..w-1 : v \in Spawned
  /\ Goto(w, "unborn", "loop")
  /\ UNCHANGED <<tasks, pool, search>>

PoolBuilt ==
  /\ Spawned = Workers
  /\ Goto(Main, "spawn", Submission(0))
  /\ UNCHANGED <<tasks, pool, search>>

\* main() sleeps for a while, long or short, and the destructor sets the flag.
DestructorSetsFlag ==
  /\ Goto(Main, "sleep", "join")
  /\ isShutdownRequested' = TRUE
  /\ UNCHANGED <<tasks, nextQueueAssignmentIndex, search>>

AllJoinedBug == \E w \in Workers : pc[w] = "exited"   \* mutant: joins one worker
AllJoined == \A w \in Workers : pc[w] = "exited"

\* What is still in the deques is destroyed with them.
DestructorReturns ==
  /\ AllJoined
  /\ Goto(Main, "join", "done")
  /\ UNCHANGED <<tasks, pool, search>>

Ended == (pc[Main] = "done" \/ Aborted) /\ UNCHANGED vars

-----------------------------------------------------------------------------
WorkerStep(w) == LoopTest(w) \/ PopFromHead(w) \/ ReadsSize(w) \/ StealFromTail(w)
                 \/ Yields(w) \/ SubmitCheck(w) \/ PushToOwnHead(w)

MainStep == \/ \E w \in Workers : SpawnWorker(w)
            \/ PoolBuilt \/ SubmitCheck(Main) \/ PushRoundRobin \/ DestructorReturns

Next == \/ \E w \in Workers : WorkerStep(w) \/ TaskReturns(w)
        \/ MainStep \/ DestructorSetsFlag
        \/ Ended

Spec == Init /\ [][Next]_vars

\* Threads run, and tasks return unless they are Endless.  The destructor need not be
\* called, so that what the pool achieves while it lives is not owed to its end.
FairSpec == /\ Spec
            /\ WF_vars(MainStep)
            /\ \A w \in Workers : /\ WF_vars(WorkerStep(w))
                                  /\ WF_vars(currentTask[w] \notin Endless /\ TaskReturns(w))

-----------------------------------------------------------------------------
(* Type invariant. *)
TypeOK == /\ pc \in [Threads -> PCs]
          /\ workerQueues \in [Workers -> Seq(Tasks)]
          /\ isShutdownRequested \in BOOLEAN
          /\ nextQueueAssignmentIndex \in Nat
          /\ currentTask \in [Workers -> Tasks \cup {NoTask}]
          /\ totalWorkersCount \in [Workers -> 0..N]
          /\ searchIndex \in [Workers -> 0..N]
          /\ started \in SUBSET Tasks

Queued(t) == \E w \in Workers : t \in ToSet(workerQueues[w])

\* A submission that passed the check of the flag counts as accepted.
Status(t) == IF \E w \in Workers : currentTask[w] = t THEN "running"
             ELSE IF t \in started THEN "done"
             ELSE IF Queued(t) \/ \E u \in Threads : pc[u] = "push" /\ Argument(u) = t
             THEN "queued" ELSE "new"

Contract == INSTANCE TaskPool WITH
              Drains <- FALSE,
              open   <- ~isShutdownRequested,
              status <- [t \in Tasks |-> Status(t)],
              joined <- pc[Main] = "done"

\* Owner and thieves together keep the executor's contract: each task is run once, by
\* one worker, none disappears before the shutdown, none runs after the destructor.
ImplementsTaskPool == Contract!Spec

\* A worker stuck in one task does not hold up the others in its deque: as long as the
\* pool lives and some worker is not stuck, every queued task is started.
QueuedTasksStart ==
  \A t \in Tasks :
    Queued(t) ~> \/ t \in started \/ isShutdownRequested \/ Aborted
                 \/ \A w \in Workers : currentTask[w] \in Endless

\* The destructor returns, unless a task never does or submits another too late.
ShutdownCompletes ==
  isShutdownRequested ~> \/ pc[Main] = "done" \/ Aborted
                         \/ \E w \in Workers : currentTask[w] \in Endless
=============================================================================
