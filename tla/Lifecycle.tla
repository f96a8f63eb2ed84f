------------------------------- MODULE Lifecycle -------------------------------
(* The exercises in which main() starts threads, hands them data and waits for them: what
   a std::thread, a std::jthread, a future or a ThreadGuard does when it is joined, detached,
   moved or destroyed, what a thread may refer to, and which results main() finds.  Each is
   a script: the statements of main() that matter and the code of each of its threads. *)
EXTENDS Integers, SequencesExt

CONSTANT Programs   \* the names of the exercises that run

-----------------------------------------------------------------------------
(* Statements.  Constructors return sequences, to be put one after the other. *)
Do(op, x, y, v) == <<[op |-> op, x |-> x, y |-> y, v |-> v]>>

\* Declarations of main().  A "joining" handle is one whose destructor waits for the thread:
\* a std::jthread, or the future that std::async returned.
Opens          == Do("scope", "", "", 0)
Declares(x, v) == Do("object", x, "", v)
Thread(h)      == Do("thread", h, "", 0)
Joining(h)     == Do("joining", h, "", 0)
Guards(g, h)   == Do("guard", g, h, 0)

\* The end of the innermost scope, reached by its last statement, a return or a throw.
Leaves == Do("leaves", "", "", 0)

\* The handle h is made to stand for the thread with the code of the same name.
Starts(h) == Do("starts", h, "", 0)
Launch(h) == Thread(h) \o Starts(h)

Move(h, g) == Thread(g) \o Do("moves", h, g, 0)

Joins(h)             == Do("joins", h, "", 0)
JoinsIfJoinable(h)   == Do("joins", h, "", 1)
Detaches(h)          == Do("detaches", h, "", 0)
DetachesIfJoinable(h) == Do("detaches", h, "", 1)

Stores(x, v) == Do("stores", x, "", v)     \* also of a thread
Adds(x, v)   == Do("adds", x, "", v)
Awaits(x)    == Do("awaits", x, "", 0)     \* future::get, or a loop that polls
Reads(x, v)  == Do("reads", x, "", v)      \* v: what the code leaves there, run to its end
Notifies     == Do("notifies", "", "", 0)

\* Steps of a thread only: it touches x, or nothing; it ends if x is set; it sleeps until x
\* is set; it passes the initialisation of a static object, of v stores.
Uses(x)    == Do("uses", x, "", 0)
Runs       == Uses("")
Checks(x)  == Do("checks", x, "", 0)
Sleeps(x)  == Do("sleeps", x, "", 0)
Once(x, v) == Do("once", x, "", v)

Program(main, code) == [main |-> Opens \o FlattenSeq(main) \o Leaves, code |-> code, threadLocal |-> {}]

Many(hs, S(_)) == FlattenSeq([i \in DOMAIN hs |-> S(hs[i])])

-----------------------------------------------------------------------------
(* The exercises *)

OneThread == Program(<<Launch("worker"), JoinsIfJoinable("worker")>>, [worker |-> Runs])
HelloThread == OneThread
ThreadUtilities == OneThread

FiveThreads == <<"worker1", "worker2", "worker3", "worker4", "worker5">>

\* Only a member function is given the address of an object of main().
FiveCodes(object) == [worker1 |-> Runs, worker2 |-> Runs, worker3 |-> Uses(object),
                      worker4 |-> Runs, worker5 |-> Runs]

ThreadCreation ==
  Program(<<Launch("worker1"), Launch("worker2"), Declares("testServiceInstance", 0),
            Launch("worker3"), Launch("worker4"), Launch("worker5"),
            Many(FiveThreads, JoinsIfJoinable)>>, FiveCodes("testServiceInstance"))

LaunchJoining(h) == Joining(h) \o Starts(h)

JThread ==
  Program(<<LaunchJoining("worker1"), LaunchJoining("worker2"), Declares("test", 0),
            LaunchJoining("worker3"), LaunchJoining("worker4"), LaunchJoining("worker5")>>,
          FiveCodes("test"))

JoinAndDetach ==
  Program(<<Launch("threadMotor"), Launch("threadMusic"),
            DetachesIfJoinable("threadMusic"), JoinsIfJoinable("threadMotor")>>,
          [threadMotor |-> Runs, threadMusic |-> Runs \o Runs \o Runs \o Runs \o Runs])

\* The worker of executeRiskyOperation is joined while the exception unwinds the stack.
LifecycleSafety ==
  Program(<<Thread("stateThread"), Starts("stateThread"), Joins("stateThread"),
            Opens, Launch("detachedThread"), Detaches("detachedThread"), Leaves,
            Opens, Launch("worker"), Guards("guard", "worker"), Leaves>>,
          [stateThread |-> Runs, detachedThread |-> Runs, worker |-> Runs])

LaunchThreadWithClass ==
  Program(<<Declares("worker1", 0), Declares("worker2", 0), Launch("t1"), Launch("t2"),
            JoinsIfJoinable("t1"), JoinsIfJoinable("t2"), Reads("worker1", 3), Reads("worker2", 5)>>,
          [t1 |-> Adds("worker1", 1) \o Adds("worker1", 1) \o Adds("worker1", 1),
           t2 |-> FlattenSeq([i \in 1..5 |-> Adds("worker2", 1)])])

ParamPassing ==
  Program(<<Launch("returnThread"), Joins("returnThread"),
            Declares("value", 10), Launch("refThread"), Joins("refThread"), Reads("value", 11),
            Launch("moveThread"), Joins("moveThread"),
            Launch("receivedThread"), Move("receivedThread", "destinationThread"),
            Joins("destinationThread")>>,
          [returnThread |-> Runs, refThread |-> Adds("value", 1), moveThread |-> Runs,
           receivedThread |-> Runs])

FourThreads == SubSeq(FiveThreads, 1, 4)

ThreadCounting ==
  Program(<<Many(FourThreads, Thread), Many(FourThreads, Starts), Many(FourThreads, JoinsIfJoinable)>>,
          [worker1 |-> Runs, worker2 |-> Runs, worker3 |-> Runs, worker4 |-> Runs])

\* The factorial of 3: the result is 1, 3 and 6.  Mutant: it is read before the join.
Factorial == [workerThread |-> Stores("factorialResult", 1) \o Stores("factorialResult", 3)
                                 \o Stores("factorialResult", 6)]
ParallelFactorialBug ==
  Program(<<Declares("factorialResult", 0), Launch("workerThread"),
            Reads("factorialResult", 6), JoinsIfJoinable("workerThread")>>, Factorial)
ParallelFactorial ==
  Program(<<Declares("factorialResult", 0), Launch("workerThread"),
            JoinsIfJoinable("workerThread"), Reads("factorialResult", 6)>>, Factorial)

PrintEvenOddNumber ==
  Program(<<Launch("evenWorker"), Launch("oddWorker"), JoinsIfJoinable("evenWorker"),
            JoinsIfJoinable("oddWorker")>>, [evenWorker |-> Runs, oddWorker |-> Runs])

\* while (!stopSignal.load()): the loop ends when it finds the flag set.
StopThread ==
  Program(<<Declares("stopSignal", 0), Launch("worker"), Stores("stopSignal", 1),
            JoinsIfJoinable("worker")>>, [worker |-> Awaits("stopSignal") \o Runs])

Countdown(seconds, cancelFlag) == FlattenSeq([i \in 1..seconds + 1 |-> Checks(cancelFlag)]) \o Runs

CountdownTimer ==
  Program(<<Declares("cancelTest1", 0), Launch("timer1"), JoinsIfJoinable("timer1"),
            Declares("cancelTest2", 0), Launch("timer2"), Stores("cancelTest2", 1),
            JoinsIfJoinable("timer2")>>,
          [timer1 |-> Countdown(3, "cancelTest1"), timer2 |-> Countdown(10, "cancelTest2")])

\* The shared state of promise and future belongs to both, and is no object of main().
Get(x, v) == Awaits(x) \o Reads(x, v)

PromiseAndFuture ==
  Program(<<Launch("workerThread"), Get("resultFuture", 999), JoinsIfJoinable("workerThread")>>,
          [workerThread |-> Runs \o Stores("resultFuture", 999) \o Runs])

\* 42.5 in tenths; 11 characters times 1337; -1: the exception that get() throws again.  get()
\* on the future of std::async also joins the thread.
AsyncFuture ==
  Program(<<Launch("promiseThread"), Get("promiseFuture", 425), JoinsIfJoinable("promiseThread"),
            Launch("taskThread"), Detaches("taskThread"), Get("hashFuture", 14707),
            LaunchJoining("asyncFuture"), Awaits("asyncFuture"),
            Joins("asyncFuture"), Reads("asyncFuture", 42),
            LaunchJoining("errorFuture"), Joins("errorFuture"), Reads("errorFuture", -1)>>,
          [promiseThread |-> Runs \o Stores("promiseFuture", 425),
           taskThread |-> Runs \o Stores("hashFuture", 14707),
           asyncFuture |-> Runs \o Stores("asyncFuture", 42),
           errorFuture |-> Runs \o Stores("errorFuture", -1)])

\* Mutant: cv is not notified.
Printer == [threadWorker |-> Sleeps("ready") \o Runs]
ConditionVariablesBug ==
  Program(<<Launch("threadWorker"), Stores("ready", 1), JoinsIfJoinable("threadWorker")>>, Printer)
ConditionVariables ==
  Program(<<Launch("threadWorker"), Stores("ready", 1), Notifies, JoinsIfJoinable("threadWorker")>>,
          Printer)

\* The vector of threads; each thread fetches a value of the one instance, of four entries.
ThreadSafeSingleton ==
  Program(<<Many(FiveThreads, Launch), Many(FiveThreads, JoinsIfJoinable)>>,
          [i \in ToSet(FiveThreads) |-> Once("singletonInstance", 4) \o Reads("singletonInstance", 4)])

ThreadLocalStorage ==
  [Program(<<Stores("counter", 999), Many(SubSeq(FiveThreads, 1, 3), Launch),
             Many(SubSeq(FiveThreads, 1, 3), JoinsIfJoinable), Reads("counter", 999)>>,
           [i \in {"worker1", "worker2", "worker3"} |->
              Adds("counter", 10) \o Adds("counter", 10) \o Adds("counter", 10) \o Reads("counter", 30)])
   EXCEPT !.threadLocal = {"counter"}]

Script ==
  [hello_thread |-> HelloThread, thread_utilities |-> ThreadUtilities,
   thread_creation |-> ThreadCreation, jthread |-> JThread, join_and_detach |-> JoinAndDetach,
   lifecycle_safety |-> LifecycleSafety, launch_thread_with_class |-> LaunchThreadWithClass,
   param_passing |-> ParamPassing, thread_counting |-> ThreadCounting,
   parallel_factorial |-> ParallelFactorial, print_even_odd_number |-> PrintEvenOddNumber,
   stop_thread |-> StopThread, countdown_timer |-> CountdownTimer,
   promise_and_future |-> PromiseAndFuture, async_future |-> AsyncFuture,
   condition_variables |-> ConditionVariables, thread_safe_singleton |-> ThreadSafeSingleton,
   thread_local_storage |-> ThreadLocalStorage]

ASSUME LifecycleAssumption == Programs \subseteq DOMAIN Script

-----------------------------------------------------------------------------
VARIABLES program,
          outcome,   \* "runs", or how main() ended: "returned" or "terminated"
          next,      \* of main() and of each thread: its next statement, 0 before it starts
          locals,    \* the stack of main(): the declarations of what is alive
          stands,    \* for which thread a handle stands, or NoThread: it is not joinable
          cell,      \* the values of variables and of the shared states of futures, 0: not set
          asleep,    \* the threads in the wait set of the condition variable
          builder,   \* who initialises the static object
          seen       \* history: what was read, and what had to be read there

shared == <<cell, asleep, builder, seen>>
vars   == <<program, outcome, next, locals, stands, shared>>

NoThread == "none"

CodeOf(a) == IF a = "main" THEN Script[program].main ELSE Script[program].code[a]
Threads   == DOMAIN Script[program].code
Actors    == {"main"} \cup Threads

Statements == UNION {ToSet(CodeOf(a)) : a \in Actors}
Objects(S) == {s.x : s \in {d \in S : d.op = "object"}}
Handles    == {s.x : s \in {d \in ToSet(CodeOf("main")) : d.op \in {"thread", "joining"}}}

\* What a sees under the name x: its own copy, if the variable is thread_local.
Copy(a, x) == <<IF x \in Script[program].threadLocal THEN a ELSE NoThread, x>>

Init == /\ program \in Programs /\ outcome = "runs"
        /\ next = [a \in Actors |-> IF a = "main" THEN 1 ELSE 0]
        /\ locals = <<>>
        /\ stands = [h \in Handles |-> NoThread]
        /\ cell = [c \in (Actors \cup {NoThread}) \X {s.x : s \in Statements} |-> 0]
        /\ asleep = {} /\ builder = NoThread /\ seen = {}

Joinable(h) == stands[h] # NoThread
Done(t) == next[t] > Len(CodeOf(t))

\* a is before the statement s, and goes to the next one.
At(a, s, op) == /\ outcome = "runs" /\ next[a] \in DOMAIN CodeOf(a) /\ a \notin asleep
                /\ s = CodeOf(a)[next[a]] /\ s.op = op
                /\ UNCHANGED program

Advances(a) == next' = [next EXCEPT ![a] = @ + 1] /\ UNCHANGED outcome

Terminates == outcome' = "terminated" /\ UNCHANGED <<next, locals, stands, shared>>

-----------------------------------------------------------------------------
(* What main() does with its objects and handles; s is the statement *)

Declare(s) ==
  /\ \E op \in {"scope", "object", "thread", "joining", "guard"} : At("main", s, op)
  /\ Advances("main")
  /\ locals' = Append(locals, s)
  /\ cell' = [cell EXCEPT ![Copy("main", s.x)] = s.v]
  /\ UNCHANGED <<stands, asleep, builder, seen>>

\* Assigning a thread to a handle that stands for one already calls std::terminate.
Start(s) ==
  /\ At("main", s, "starts")
  /\ IF Joinable(s.x) THEN Terminates
     ELSE /\ next' = [next EXCEPT !["main"] = @ + 1, ![s.x] = 1]
          /\ stands' = [stands EXCEPT ![s.x] = s.x]
          /\ UNCHANGED <<outcome, locals, shared>>

MoveHandle(s) ==
  /\ At("main", s, "moves") /\ Advances("main")
  /\ stands' = [stands EXCEPT ![s.y] = stands[s.x], ![s.x] = NoThread]
  /\ UNCHANGED <<locals, shared>>

\* What is not joinable can be joined or detached only if that is tested before; join()
\* waits for the end of the thread.
Join(s) ==
  /\ At("main", s, "joins")
  /\ IF Joinable(s.x)
     THEN /\ Done(stands[s.x]) /\ Advances("main")
          /\ stands' = [stands EXCEPT ![s.x] = NoThread] /\ UNCHANGED <<locals, shared>>
     ELSE IF s.v = 1 THEN Advances("main") /\ UNCHANGED <<locals, stands, shared>> ELSE Terminates

Detach(s) ==
  /\ At("main", s, "detaches")
  /\ IF Joinable(s.x) \/ s.v = 1
     THEN /\ Advances("main")
          /\ stands' = [stands EXCEPT ![s.x] = NoThread] /\ UNCHANGED <<locals, shared>>
     ELSE Terminates

-----------------------------------------------------------------------------
(* The end of a scope: its objects are destroyed, the last one declared first *)

\* Whose thread the destructor of d joins, if it is joinable.
HandleOf(d) == IF d.op = "guard" THEN d.y ELSE d.x

JoinsFirstBug(d) == d.op = "joining"   \* mutant: ThreadGuard does not join
JoinsFirst(d) == d.op \in {"joining", "guard"}

DestroyedBug == IF Len(locals) = 1 THEN locals[1] ELSE locals[2]   \* mutant: what was declared first goes first
Destroyed == Last(locals)

Destroy(s) ==
  /\ At("main", s, "leaves") /\ Destroyed.op # "scope"
  /\ LET d == Destroyed IN
     IF d.op = "thread" /\ Joinable(d.x) THEN Terminates
     ELSE /\ JoinsFirst(d) /\ Joinable(HandleOf(d)) => Done(stands[HandleOf(d)])
          /\ stands' = IF JoinsFirst(d) THEN [stands EXCEPT ![HandleOf(d)] = NoThread] ELSE stands
          /\ locals' = RemoveFirst(locals, d)
          /\ UNCHANGED <<outcome, next, shared>>

Leave(s) == /\ At("main", s, "leaves") /\ Destroyed.op = "scope"
            /\ Advances("main") /\ locals' = Front(locals)
            /\ UNCHANGED <<stands, shared>>

\* The program ends with main(), and threads that were detached end with it.
Return == /\ outcome = "runs" /\ Done("main") /\ outcome' = "returned"
          /\ UNCHANGED <<program, next, locals, stands, shared>>

-----------------------------------------------------------------------------
(* What main() and threads do with shared data *)

Store(a, s) == /\ At(a, s, "stores") /\ Advances(a)
               /\ cell' = [cell EXCEPT ![Copy(a, s.x)] = s.v]
               /\ UNCHANGED <<locals, stands, asleep, builder, seen>>

Add(a, s) == /\ At(a, s, "adds") /\ Advances(a)
             /\ cell' = [cell EXCEPT ![Copy(a, s.x)] = @ + s.v]
             /\ UNCHANGED <<locals, stands, asleep, builder, seen>>

Await(a, s) == /\ At(a, s, "awaits") /\ cell[Copy(a, s.x)] # 0
               /\ Advances(a) /\ UNCHANGED <<locals, stands, shared>>

Read(a, s) == /\ At(a, s, "reads") /\ Advances(a)
              /\ seen' = seen \cup {[got |-> cell[Copy(a, s.x)], expected |-> s.v]}
              /\ UNCHANGED <<locals, stands, cell, asleep, builder>>

Use(t, s) == At(t, s, "uses") /\ Advances(t) /\ UNCHANGED <<locals, stands, shared>>

\* if (cancelFlag.load()) return;
Check(t, s) ==
  /\ At(t, s, "checks")
  /\ IF cell[Copy(t, s.x)] = 0 THEN Advances(t)
     ELSE next' = [next EXCEPT ![t] = Len(CodeOf(t)) + 1] /\ UNCHANGED outcome
  /\ UNCHANGED <<locals, stands, shared>>

\* cv.wait: the mutex is held from the test of the predicate until the thread is asleep, and
\* the store is made with it held: the test and falling asleep are one step.
Sleep(t, s) ==
  /\ At(t, s, "sleeps")
  /\ IF cell[Copy(t, s.x)] # 0 THEN Advances(t) /\ UNCHANGED asleep
     ELSE asleep' = asleep \cup {t} /\ UNCHANGED <<outcome, next>>
  /\ UNCHANGED <<locals, stands, cell, builder, seen>>

WakeSpuriously(t) == /\ outcome = "runs" /\ t \in asleep /\ asleep' = asleep \ {t}
                     /\ UNCHANGED <<program, outcome, next, locals, stands, cell, builder, seen>>

Notify(s) == /\ At("main", s, "notifies") /\ Advances("main")
             /\ \/ asleep = {} /\ UNCHANGED asleep
                \/ \E t \in asleep : asleep' = asleep \ {t}
             /\ UNCHANGED <<locals, stands, cell, builder, seen>>

\* A static object of a function is initialised by the first thread that comes there; the
\* others wait.
Initialise(t, s) ==
  /\ At(t, s, "once") /\ cell[Copy(t, s.x)] < s.v
  /\ builder \in {NoThread, t} /\ builder' = t
  /\ cell' = [cell EXCEPT ![Copy(t, s.x)] = @ + 1]
  /\ UNCHANGED <<outcome, next, locals, stands, asleep, seen>>

Initialised(t, s) == /\ At(t, s, "once") /\ cell[Copy(t, s.x)] = s.v
                     /\ Advances(t) /\ UNCHANGED <<locals, stands, shared>>

Ended == outcome # "runs" /\ UNCHANGED vars

-----------------------------------------------------------------------------
SharedStep(a, s) == Store(a, s) \/ Add(a, s) \/ Await(a, s) \/ Read(a, s)

Main == \/ \E s \in ToSet(CodeOf("main")) :
             \/ Declare(s) \/ Start(s) \/ MoveHandle(s) \/ Join(s) \/ Detach(s)
             \/ Destroy(s) \/ Leave(s) \/ Notify(s) \/ SharedStep("main", s)
        \/ Return

Step(t) == \E s \in ToSet(CodeOf(t)) :
             \/ Use(t, s) \/ Check(t, s) \/ Sleep(t, s)
             \/ Initialise(t, s) \/ Initialised(t, s) \/ SharedStep(t, s)

Next == Main \/ (\E t \in Threads : Step(t) \/ WakeSpuriously(t)) \/ Ended

Spec == Init /\ [][Next]_vars

\* The scheduler lets main() and every thread go on; spurious wakeups need not happen.
FairSpec == Spec /\ WF_vars(Main) /\ WF_vars(\E t \in Threads : Step(t))

-----------------------------------------------------------------------------
\* "Il programma e' salvo grazie a RAII!": on no path, the one of the exception included, is
\* a std::thread destroyed or assigned to that still stands for a thread, nor one joined or
\* detached that stands for none, after it was moved from in particular.
NeverTerminates == outcome # "terminated"

\* A thread that was given a reference to an object of main() ends, or uses it for the last
\* time, before the object is destroyed: also if it is detached, and if destructors join.
NoDanglingReference ==
  outcome = "runs" =>
    \A t \in {u \in Threads : next[u] > 0} : \A i \in next[t]..Len(CodeOf(t)) :
      CodeOf(t)[i].x \in Objects(Statements) => CodeOf(t)[i].x \in Objects(ToSet(locals))

\* "Valore di x dopo il thread (atteso 11)", "E rimasto 999, totalmente isolato": what is
\* read from a thread is what it leaves in the end, read after a join, a future or the
\* initialisation of the instance, and no other thread's.
ResultsComplete == \A r \in seen : r.got = r.expected

\* Every wait of main() comes to an end, be it a join, a destructor, a future or a poll: the
\* stop flags reach the loops that poll them, the notification the thread that sleeps.
MainReturns == <>(outcome = "returned")
=============================================================================
