# Verification of MasteringCppConcurrency

The repository is a course: some forty small C++ programs (`src/src/exercises/<name>/main.cpp`),
each about one technique of concurrent programming, and a browser page that shows the course's
text. This directory holds TLA+ models of the programs, the TLC configurations that check them on small
instances, and TLAPS proofs about eleven of the models.
`PROJECT.json` lists the parts, runs, findings, hazards and theorems, and maps every definition
to the lines it models.

Parse a module with `tlasany M.tla`, check a run with `tlc -config R.cfg MCM.tla`, check the
proofs about a module with `tlapm ThreadPoolProofs.tla` and so on.

## 1. The system

The programs do not call each other. What they have in common is a handful of protocols.

| Part (exercise) | State | Operations | What is hard | What makes it correct |
|---|---|---|---|---|
| thread pool (`thread_pool`) | task queue, shutdown flag, one mutex, one condition variable | `enqueueTask`, worker loop, destructor | wakeups sent without the mutex; shutdown while tasks are queued, or submit others | no task lost, order kept, destructor drains and returns |
| work-stealing pool (`thread_pool_advanced`) | a deque and mutex per worker, an atomic flag, a round-robin counter | `submitTask`, `popFromHead`, `stealFromTail`, worker loop, destructor | owner against thieves; `workerThreads.size()` read while the constructor adds to it; flag tested before the push | no task run twice, tasks behind a stuck one are stolen, destructor returns |
| priority scheduler (`priority_task_scheduler`) | priority queue of timed tasks, flag, mutex, condition variable | `submit`, `submitScheduled`, worker loop, destructor | a timed and an untimed wait on one condition; a new task may come before the one waited for | never early, by priority, nothing forgotten, destructor drains |
| lock-free queue (`lock_free_queue`) | linked nodes, `head_`, `tail_` | `push`, `pop`, destructor | every atomic access interleaves; nodes are deleted while others hold pointers | FIFO, truthful "empty", memory safety |
| producers and consumers (`product_consumer_basic_v1`, `product_consumer_basic_v2`, `ping_pong`) | a queue of capacity 3, or none, or a boolean; one or two conditions, an atomic and a plain flag | producer, consumer, `main()` | v1 notifies after unlocking; in v2 the flag is cleared and the condition notified without the mutex; in ping-pong both wait on one condition | all threads end, values handed over in order |
| pipeline (`pipeline_pattern`) | two queues, each with its mutex, condition and flag | `push`, `pop`, `shutdown`, three stages | shutdown in cascade while packets are under way | no packet lost or overtaken, all stages end |
| observer (`thread_safe_observer`) | list of weak pointers, mutex, reference counts | subscribe, unsubscribe, notify | the callbacks are made without the mutex | no call to a destroyed object, nobody misses a message |
| shared counters, maps and console (`competitive_counter`, `increment_with_atomic`, `mutex_vs_atomic`, `saving_pot_with_mutex`, `saving_pot_without_mutex`, `unique_lock_usage`, `shared_mutex_1`, `shared_mutex_2`, `thread_safe_cache`, `stdout_with_mutex`) | one variable, a mutex, a shared mutex or an atomic | increments, transfers, reads and writes by a team of threads | lost updates; one variable used by several teams in turn | exact where protected, bounded where not; nothing comes between what a lock protects |
| two mutexes at a time (`deadlock`, `dining_philosophers_problem`) | accounts or chopsticks, each with a mutex | `safeTransfer`, `eatSpaghetti` | circular waiting | no circle, balances exact |
| fork and join (`parallel_sum`, `fake_image_processing`, `parallel_image_filter`, `parallel_matrix_multiplication`, `multiple_async_tasks`, `parallel_prime_number_finder`) | a range, its parts, an atomic index | split or reserve, work, join, reduce | remainders, more threads than elements, chunks past the end | each element to one thread, result as if sequential |
| merge sort (`multithreaded_merge_sort`) | one vector, a tree of calls, a thread for each left half | sort, fork, join, merge in place | nested ranges in the hands of several threads; two conditions end the recursion | no race, sorted |
| thread life cycle (`hello_thread`, `thread_utilities`, `thread_creation`, `jthread`, `join_and_detach`, `lifecycle_safety`, `launch_thread_with_class`, `param_passing`, `thread_counting`, `parallel_factorial`, `print_even_odd_number`, `thread_local_storage`) | handles, what each stands for, the stack of `main()` | start, move, join, detach, destroy; an exception unwinding the stack | a joinable handle destroyed ends the program; references to locals of `main()` | no `std::terminate`, no dangling reference, complete results |
| stop and signal (`stop_thread`, `countdown_timer`, `condition_variables`) | an atomic flag, or a flag with mutex and condition | set, poll, wait, notify | the flag is a local of `main()` | `main()` returns |
| futures (`promise_and_future`, `async_future`) | shared states | `set_value`, `get`, `wait_for`, a detached task, an exception | a value may come from a thread that nobody joins | each `get` finds its value |
| singleton (`thread_safe_singleton`) | the static object | first call, later calls | five first calls at once | one initialisation, seen whole |

### Not modelled

* `commons/logger.h` and the viewer's scripts under `doc/scripts`: output, by the library or in a
  browser. `LOG` is left out of every module.
* Durations. A thread that sleeps for two seconds may take any time, and what the code expects to
  happen only because of the durations chosen is not claimed: the detached music of
  `join_and_detach` (line 52) is cut off when `main()` returns, at any point; a countdown cancelled
  after its last check (`countdown_timer`, line 42) rings all the same.
* The width of integers: `parallel_factorial` overflows from 13! on, and the counters of
  `print_even_odd_number` for the largest limits.
* The sequential blur, whose time `parallel_image_filter` compares with, and two of three colours; the text
  in which `decode` wraps packets.
* A thread that cannot be created, memory that is exhausted; two pools in one program (the
  thread-local worker index of `thread_pool_advanced` belongs to the class); `hardware_concurrency() = 0`.

## 2. Modules

| Module | Models |
|---|---|
| `TaskPool` | the contract of an executor: a task is submitted while the pool is open, started once, finished, and the destructor returns when none runs and, if the pool drains, none is queued |
| `ThreadPool`, `ThreadPoolProofs` | `thread_pool`; refines `TaskPool` with `Drains = TRUE` |
| `WorkStealingPool`, `WorkSharingProofs` | `thread_pool_advanced`; refines `TaskPool` with `Drains = FALSE` |
| `PriorityScheduler`, `PrioritySchedulerProofs` | `priority_task_scheduler`; refines `TaskPool` with `Drains = TRUE` |
| `LockFreeQueue`, `LockFreeQueueProofs` | `lock_free_queue` |
| `BoundedBuffer`, `BoundedBufferProofs` | `product_consumer_basic_v1`, `product_consumer_basic_v2` and `ping_pong`, told apart by a record: capacity, number of values, who stops the producer, what is notified with the mutex held |
| `Pipeline`, `PipelineProofs` | `pipeline_pattern`, for any number of stages |
| `SharedData`, `LockProofs` | ten exercises: phases, teams, and for each thread a list of indivisible steps |
| `ScopedLock`, `LockProofs` | `deadlock` and `dining_philosophers_problem` |
| `Observer`, `ObserverProofs` | `thread_safe_observer` |
| `ForkJoin`, `WorkSharingProofs` | six exercises: how each splits its range, and what follows |
| `MergeSort`, `WorkSharingProofs` | `multithreaded_merge_sort`: the tree of calls over one vector |
| `Lifecycle` | eighteen exercises, each a script: the statements of `main()` and of its threads; the actions are what the statements do |
| `...Proofs` | theorems about the module named before it (section 4); `LockProofs` is about two modules, `WorkSharingProofs` about three |
| `MC...` | values of the constants for TLC |

`SharedData`, `ForkJoin` and `MergeSort` name their initial states and steps `SharedInit`,
`SharedNext`, `ForkInit` and so on, because a module of proofs or of a run extends several of these.

State and actions follow the code. A variable has the name of the member or local it stands for;
`pc` says where each thread is; variables called history (`accepted`, `started`, `consumed`,
`passed`, `pushed`, `popped`, `received`) record what happened and are read by properties only.
An action is what a thread does between two points at which others can interfere:

* In `ThreadPool`, the densest one, locking, evaluating the wait predicate, releasing the mutex
  and falling asleep (one step, as the standard requires), notifying and joining are all separate.
* In `BoundedBuffer` a flag of the predicate is written without the mutex, so that evaluating the
  predicate and falling asleep are separate steps there too. A notification made with the mutex
  held is one step with the unlocking: nobody it wakes can do anything before.
* In `Pipeline`, `PriorityScheduler` and `WorkStealingPool` all that a wait or a queue operation
  reads is written under the mutex it holds, so a critical section is one step; what is done
  after it (a notification) and atomics read outside are steps of their own.
* In `LockFreeQueue` each atomic operation and each dereference is a step. Memory is explicit: an
  address is live between `new` and `delete`, keeps its content afterwards, and may be reused.
* In `MergeSort` sorting and merging a range have a beginning and an end, so that two of them may
  overlap: `NoRace` is about that, and data read at the end would be wrong if they did.
* In `Lifecycle` a declaration puts a local on the stack of `main()`; the end of a scope, by its last
  statement, a return or the exception of `lifecycle_safety`, destroys one local per step, the last first,
  and waits where a destructor joins. Destroying or overwriting a handle that stands for a thread, and
  joining or detaching one that stands for none, is `std::terminate`. A thread that finds a flag of its
  condition not set goes to sleep in the step that tests it, since the flag is written with the mutex held.
* In `SharedData` loads and stores of unprotected variables are steps. The unprotected increment
  is modelled twice, once as written and once as an optimiser may leave it (a local sum and one
  addition): both are outcomes the build can produce for a data race.

Modelled from their use, external to the repository: mutexes, condition variables (a notification
to nobody is lost; wakeups nobody asked for happen, up to a bound), `std::priority_queue`,
`weak_ptr`, `compare_exchange_weak`, and `std::scoped_lock`, for which the algorithm of libstdc++
is used: wait for one, try the other, release and start over with the one that was taken.
All atomics are sequentially consistent, as the code's are, but for the chunk index of
`parallel_prime_number_finder`, a single relaxed counter, for which it makes no difference.

## 3. Runs

Every run finishes in about a minute or less; all check for deadlock, and `Ended` (`SharedEnded`,
`ForkEnded`, `SortEnded`) is the step that stands for a program that is over.

| Run | Instance | Shows |
|---|---|---|
| `thread_pool` | 2 workers, 3 tasks of `main()`, one submits a fourth, 1 spurious wakeup | types, `NoLostWakeup`, `FIFO`, `DestructorDrains`, `Terminates`, `ImplementsTaskPool` |
| `work_stealing` | 2 workers, 3 tasks, one never returns, one submits a fourth | `ImplementsTaskPool`, `QueuedTasksStart`, `ShutdownCompletes` |
| `priority_scheduler` | 2 workers, the 4 submissions of `main()`, one 2 ticks in the future, 1 spurious wakeup | `TopIsAwaited`, `HighestPriorityFirst`, `Terminates`, `ImplementsTaskPool` |
| `lock_free_queue` | 1+1 threads with 3 items on 4 addresses that are reused; 2+2 threads with 1 item and a spurious failure | `FIFO`, `EmptyWasEmpty`, `AllDelivered`; memory safety of 1+1 |
| `bounded_buffer` | v1 with its 5 values; v2 with capacity 3 and 6 values, and 1 and 3; ping-pong with 4 rounds; 2 spurious wakeups | `MissedWakeupIsRescued`, `AllConsumedInOrder`, `Terminates` |
| `pipeline` | 3 stages, 4 packets, 2 spurious wakeups | `InOrder`, `CascadingShutdown`, `NoLostWakeup`, `Terminates` |
| `shared_data` | ten exercises, one of them also as optimised, teams of 3, loops of 3 | `ProtectedIsExact`, `LostUpdatesBounded`, `CriticalSectionsWhole` |
| `scoped_lock` | the two transfers of `main()`; five philosophers, two rounds | `NoCircularWait`, `BalancesExact` |
| `observer` | two persistent observers, one temporary, 3 messages; the modifier unsubscribes, or just drops it | `NoDanglingCall`, `AtMostOneLate`, `SubscribersHearAll` |
| `fork_join` | 1 to 7 elements for 1 to 3 threads; images of 4 columns, the matrices of `main()`; primes below 12, 27 and 52 in chunks of 10; merge sort of the 16 numbers of `main()`, and of all sequences of 5 or 6 small numbers with limits that end the recursion by depth and by size | `SharesDisjoint`, `ResultIsSequential`, `NoRace`, `SortedAtTheEnd` |
| `lifecycle` | all eighteen exercises at the size they have, but for the factorial, which is of 3 | `NeverTerminates`, `NoDanglingReference`, `ResultsComplete`, `MainReturns` |
| `queue_use_after_free` | 2+2 threads, 1 item each | expected violation, see below |

Why the bounds are enough. Two workers are the fewest that can take each other's notification or
task; three tasks on two workers leave one queued while both are busy; a nested submission reaches
the code that only a worker executes, before and after the shutdown. Two producers and two
consumers are the fewest that help each other on both ends of the lock-free queue; with one of
each, three items on four addresses make every address be reused. The bounded buffer is filled,
emptied and filled again by six items; with capacity 1 it is full after every value. The merge sort's
small inputs have two levels of threads, the least at which a parent, a child and a grandchild have
ranges in each other. In three stages the middle one is both a consumer and a
producer. A loop of three is the shortest in which two threads can leave a counter at 2, the least
possible. `MaxSpurious`, `MaxItems` and `MaxTime` bound what nature decides; each is a guard named
in its module.

Fairness. Threads that can step do so (weak fairness for each thread's steps), since the operating
system schedules every runnable thread; mutexes are not assumed to be fair, nor is anyone assumed
to win a compare-exchange. Spurious wakeups and failures are never owed. Time passes. A task
returns, unless it is declared `Endless`, and the destructor of the work-stealing pool is not owed
to the property about its life (`QueuedTasksStart`). In `Lifecycle` `main()` and the threads go on; no order among them is assumed, and a
thread that polls is not owed a change of its flag before `main()` makes it. `SharedData`, `ScopedLock`,
`Observer`, `ForkJoin` and `MergeSort` claim safety only: for `ScopedLock` the back-off can go on for ever under weak
fairness, so that the absence of starvation is not claimed.

Finding. `lock_free_queue/main.cpp:119`: `pop` deletes a node to which other threads may hold a
pointer they are about to follow. Line 8 promises thread safety. One producer with one consumer is safe,
if a compare-exchange fails only for a reason (`OneByOneIsMemorySafe`).

Worth knowing, though no text contradicts it. Workers of `priority_task_scheduler` look only at the top of
the queue (line 107): a task of high priority but of the future holds up due tasks of lower priority.
`multithreaded_merge_sort` forks at depth 4 still (line 36 compares with `>`), so that five levels of
threads are possible where the limit reads four.

## 4. Proofs

Eight modules hold theorems, about eleven modules of the model. Where the runs check an instance,
the theorems hold for every value of the constants: any number of threads, tasks, stages, observers,
mutexes, values, elements, iterations, any chunk, threshold and depth, and any bound on spurious
wakeups. Each proof has the same layout: the parts of the inductive invariant (`IInv`; `SharedInv`,
`ForkInv`, `SortInv`), lemmas about the data it speaks of, that the initial states satisfy it, that
every step keeps it (one step of the proof per action), `Invariance` (`Spec => []IInv`), and the
theorems that follow from it. `Once` in `ThreadPoolProofs`, `Ledger` in `LockProofs`, `ResultInv`
and `DataInv` in `WorkSharingProofs` are invariants of their own, proved with the first one at hand. All were
checked by TLC on small instances before they were proved.

| Module | Theorems | What they state |
|---|---|---|
| `ThreadPoolProofs` | `TypeCorrect`, `MutualExclusion`, `WakeupsReachWorkers`, `TasksInOrder`, `DrainsBeforeReturn`, `EachTaskOnce`, `Implements` | `TypeOK`, mutual exclusion, `NoLostWakeup`, `FIFO`, `DestructorDrains`, no task twice, `ImplementsTaskPool` |
| `WorkSharingProofs` on `WorkStealingPool` | `TypeCorrect`, `EachTaskOnce`, `Implements` | `TypeOK`, a task in one place only, `ImplementsTaskPool` |
| `WorkSharingProofs` on `ForkJoin` | `SharesAreDisjoint`, `ForkDealsWithEach`, `EachResultIsThere`, `PrimalityTest`, `ResultsAreSequential` | `SharesDisjoint`, each element dealt with once (`EachElementOnce`), the result complete and in order (`EachResultOnce`), what `isPrime` tests, `ResultIsSequential` |
| `WorkSharingProofs` on `MergeSort` | `SortHasNoRace`, `SortIsRight` | `NoRace`, `SortedAtTheEnd` |
| `PrioritySchedulerProofs` | `TypeCorrect`, `TopTaskIsAwaited`, `UrgentFirst`, `Implements` | `TypeOK`, `TopIsAwaited`, `HighestPriorityFirst`, `ImplementsTaskPool` |
| `LockFreeQueueProofs` | `TypeCorrect`, `FirstInFirstOut`, `EmptyIsTruthful`, `MemorySafe` | `TypeOK`, `FIFO` and `EmptyWasEmpty` without reuse of addresses, or with one thread of each kind and no spurious failure, `OneByOneIsMemorySafe` |
| `BoundedBufferProofs` | `TypeCorrect`, `MutualExclusion`, `SleepersAreAwoken`, `ValuesInOrder` | `TypeOK`, mutual exclusion, `MissedWakeupIsRescued`, `AllConsumedInOrder` |
| `PipelineProofs` | `TypeCorrect`, `PacketsInOrder`, `ShutdownCascades`, `WakeupsReachStages` | `TypeOK`, `InOrder`, `CascadingShutdown`, `NoLostWakeup` |
| `LockProofs` on `ScopedLock` | `NobodyWaitsInACircle`, `TransfersLoseNothing`, `TransfersAreExact` | `NoCircularWait`, no lost update, `BalancesExact` |
| `LockProofs` on `SharedData` | `SectionsAreWhole`, `NothingIsLost`, `LossIsBounded` | `CriticalSectionsWhole`, `ProtectedIsExact`, `LostUpdatesBounded` |
| `ObserverProofs` | `NobodyDangles`, `OneCallIsLate`, `EverybodyHears` | `NoDanglingCall`, `AtMostOneLate`, `SubscribersHearAll` |

### Assumptions

Each is named and stands in the module that declares the constants.

* `ThreadPoolAssumption`, `WorkStealingAssumption`, `PrioritySchedulerAssumption`: there is a
  worker, since the constructors are called with a positive number; threads and tasks differ from
  "nobody" and "nothing"; `main()` submits a list of tasks. With no worker nobody would serve a
  queued task.
* `TasksAreDistinct` (the two pools that have nested submissions): every call of the submitting
  function passes a closure of its own, so a task is submitted by one place. `EachTaskOnce` and the
  refinements need it.
* `BoundedBufferAssumption`: if `main()` stops the producer (v2) then the end is announced, and the
  mutex is held while notifying; where notifications are sent without the mutex (v1) the queue has
  room for all values, as v1 has no bound and its producer never waits. The three programs are of
  these kinds; nothing is claimed of other combinations.
* `PipelineAssumption`: at least two stages, so that there is a queue.
* `ScopedLockAssumption`: a thread locks two *different* mutexes, both of the program. `scoped_lock`
  of one mutex twice is undefined.
* `LockFreeQueueAssumption`: there is an address, and it is not the null pointer.
* `ObserverAssumption`: finitely many observers are subscribed by `main()`, the temporary one not
  among them.

* `SharedDataAssumption`: a team has a thread, a loop two iterations or more (the least number in the
  code is 3), and what runs is any of the eleven programs of `AllPrograms`. With one iteration a
  counter can be left at 1, as two threads can read 0 both.
* `ForkJoinAssumption`: there are threads, chunks are not empty, and `multiple_async_tasks` starts a
  task for each element; the number of elements may be 0, and need not be a multiple of that of the threads.
* `MergeSortAssumption`: the threshold is at least 1 (it is 4), so that no range is halved into
  an empty one; any vector, of any length, and any depth.

### Arguments

None of the properties is inductive; what had to be added says why the code is right.

**Thread pool.** That a worker which falls asleep leaves no task behind needs the queue to be
*still* empty when it blocks, after having been seen empty: `Protocol` says so of every worker about
to block, and `Exclusion` that it still owns the mutex. That `FIFO` survives a push needs the pushed
value to be a task: `Control` keeps `main()`'s index within its list, and a worker at `enqueueTask`
with a task that has a child. The drain needs that a worker exits only when the flag is set and the
queue empty, and that both stay so: a push is refused once the flag is set. `Once` ties every task
to the one place that submits it, and how far that place has got, and so rules out that one is
queued or run twice.

**Work stealing.** `Once` again, over all deques: a task was pushed by one place, is in one deque or
with one worker, and never returns. Owner and thief, `main()` and nested submissions are two
instances each of one abstract step (`Takes`, `Puts`), about which the argument is made once. The
size of `workerThreads` a worker reads while the constructor adds to it may be anything up to its
final value, and `TypeCorrect` shows that no search leaves the vector of deques for it.

**Priority scheduler.** `TopIsAwaited` is about the least start time anyone waits for. A worker that
waits with a time limit has seen a top; a later submission may come before it, but is announced by a
notification. `TopsAreEqual` shows that whichever of several tops a worker saw, it waits for the
same moment.

**Lock-free queue.** Two arguments, as the code is right for two different reasons. *Without reuse*
of addresses (which is what deferring `delete` would give) there is a sequence of all nodes ever
linked; `head_` moves along it, `tail_` may lag but not behind `head_`, and `Pushes`, `Pops` and
`Helps` say where on it each thread's local pointers are. A compare-exchange that succeeds therefore
does so at the node the thread thinks it is at. *With one producer and one consumer* addresses may
be reused: then every live node has exactly one owner (the queue, the producer before linking, the
consumer before deleting), the producer's `currentTail` stays `tail_`, and the consumer never
deletes the node `tail_` points to. With more threads *and* reuse memory is not safe (the run
`queue_use_after_free` shows it), and nothing is claimed. `MemorySafe` covers failures of
compare-exchange only where they have a reason: a spurious failure of the last compare-exchange of
`push` leaves `tail_` behind, and the consumer may then move it and delete the node that the
producer has just read from it.

**Producer and consumer.** In v2 `main()` clears the producer's flag without the mutex, so that the
producer can miss its notification between testing the flag and falling asleep. The invariant says
who is going to send another one: `Seen` and `Shutdown` say what a thread that decided to block can
still rely on, and when the flag is set.

**Pipeline.** `Handover` ties the flag of a queue to where its producer is and says that a consumer
which gave up saw the flag and an empty queue, both of which stay. From this the cascade follows by
one step per stage, without induction over their number.

**Two mutexes.** `Ownership` determines the holder of each mutex from the control states: who waits
holds none, so no circle can start. `Ledger` says that each account, locked or not, is its opening
balance plus the sum of what the threads have written to it, the transfer under way included. Its
terms change one at a time; `SumChanges` carries that over to the sum.

**A shared variable.** The code of a thread is a list of steps, and `Exclusion` reads off its position
whether it is between `lock` and `unlock`: a writer is then alone, a reader only with readers.
Hence what a thread read under a lock is still there (`StillThere`), which is
`CriticalSectionsWhole`. `Books` says that the counter is the sum, over the threads, of what each has
stored so far, which its iteration, its step and its local sum determine, and of the earlier phases
not reset since; the store of a guarded thread adds to what is there and changes one
term. Without a lock a store may put back an old value, and nothing adds up; `RaceUp` then bounds what
a thread has loaded by how far all of them have got. At least 2 remain: a thread that has stored before
loads more than 0, so that its next store leaves 2 or more, and as long as the counter is less than 2 some
thread has a store to come. `RaceBothWays` bounds deposits and withdrawals by the number of each.

**Fork and join.** `Frontier` is the point from which nothing has been given out (`startRow`,
`currentIndex`, or the boundary that the number of threads launched determines). Each range lies
below it (`Within`), each element below it is done or in one thread's range (`Covered`), and no two
ranges meet; a thread is given what lies between the old and the new frontier. When all is joined the
frontier has reached the end: by arithmetic on quotient and remainder for the fixed ranges, and for the
primes because a thread merges only after it found the index past the limit (`Progress`).
`ResultInv` adds the order: futures are taken in the order of the ranges (`FromTheStart`), so
that the result is the sequence of all elements so far; primes come in any order, each once (`Gathered`).
What is computed for an element agrees with its definition. `isPrime` tries 2, 3 and the neighbours of
multiples of 6 up to the square root: the least divisor of a number that is not prime is no larger than
that root (`LeastDivisor`), and has itself no smaller divisor, so it is one of those (`PrimalityTest`). The nine
pixels that the loops over `dy` and `dx` meet are, each once, those at most one row and one column away
(`BlurIsMean`), and a sum does not depend on what its terms are called (`SameSum`).

**Merge sort.** A call's range is that of its caller, halved (`Halved`), and a call has a child under
way only while it waits (`UnfinishedAwaited`). Two calls that are both at work are therefore not above
one another, and the ranges of calls that are not are disjoint (`HeldApart`), which a fork keeps
since it gives its two halves away and touches none of them itself until both are done.
`DataInv` adds what is sorted when: what a call has finished is ascending until its caller takes it
back (`DoneSorted`), hence both halves are while they are merged (`HalvesSorted`), and what other
threads write lies elsewhere (`HeldApart`). That merging two ascending sequences gives an ascending
one, with each number as often as in both (`IsMerge`), is an induction on how many numbers are left
(`MergesAll`). `std::sort` is taken to return *some* ascending sequence with the same elements;
that there is one (`SortsExist`) is again a merge, of one more number.

**Observer.** `Ownership` counts the shared pointers to each observer, `Lists` and `Copying` say
what is in the list of weak pointers and in the publisher's copy, and `Hearing` which message each
observer got last. A copied pointer keeps its observer alive through the callback; the copy of the
temporary observer is at most one, so one late call is.

**Refinement.** The three `Implements` show `ImplementsTaskPool`: initial states map to initial
states, and every step of the pool maps to the step of `TaskPool` that `ImplementsTaskPool` names,
or to a stutter. With them the safety that the contract promises holds of all three.

**Induction.** The induction theorems of the library take an operator as a parameter, which the
provers cannot instantiate. `Climbing` states induction for a property given as a *set* of numbers,
and is proved from the well-foundedness of `<`. By it the function that the model's merge is defined by exists
(`MergesExist`); by it there is exactly one function that computes the sums
of a function over all subsets of a finite set, which is what the library's fold is defined by.

### Only model-checked

* Liveness (`Terminates`, `QueuedTasksStart`, `ShutdownCompletes`, `AllDelivered`, `MainReturns`):
  TLAPS does not handle `ENABLED`, and hence no fairness.
* `Lifecycle` (`NeverTerminates`, `NoDanglingReference`, `ResultsComplete`): its constants are the
  programs themselves, as lists of statements with a fixed number of threads, and TLC runs through
  all of them, at the size they have. There is nothing left to generalise but the factorial.

A type invariant, `TypeOK`, is checked by the run `thread_pool`; in the other modules it is a part
of the inductive invariant and is proved (`TypeCorrect`, or a conjunct `Types`, `SharedTypes`, `ForkTypes`,
`SortTypes` within the proofs).

## 5. Plan

Done: the inventory, a module for every part that has a protocol, the runs, the proofs of section 4.
What could still be added: for any script of `Lifecycle`, that a thread is in the hands of at most
one handle.
