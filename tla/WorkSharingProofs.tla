--------------------------- MODULE WorkSharingProofs ---------------------------
(* Safety of the programs that divide work among threads, for any number of threads and any
   amount of work: of the pool whose workers steal (WorkStealingPool), that it keeps the
   executor's contract; of fork and join (ForkJoin), that the shares of the threads are a
   partition of the work and the result is that of the sequential program; of the parallel
   merge sort (MergeSort), that no two threads are ever at work on the same elements, and that
   it sorts. *)
EXTENDS WorkStealingPool, ForkJoin, MergeSort, SequenceTheorems, FiniteSetTheorems,
        WellFoundedInduction, TLAPS

-----------------------------------------------------------------------------
(* Part 1: the deques of the workers *)

MainPCs == {"spawn", "check", "push", "sleep", "join", "done"}
WorkerPCs == {"unborn", "loop", "pop", "size", "steal", "run", "check", "push", "exited", "aborted"}

\* Each thread runs its own code, with an argument to submit whenever it submits.
Control ==
  /\ pc[Main] \in MainPCs
  /\ \A w \in Workers : pc[w] \in WorkerPCs
  /\ pc[Main] = "spawn" => nextQueueAssignmentIndex = 0
  /\ pc[Main] \in {"check", "push"} => nextQueueAssignmentIndex < Len(MainTasks)
  /\ \A w \in Workers : currentTask[w] # NoTask <=> pc[w] \in {"run", "check", "push", "aborted"}
  /\ \A w \in Workers : pc[w] \in {"check", "push"} => Child[currentTask[w]] # NoTask
  /\ isShutdownRequested <=> pc[Main] \in {"join", "done"}
  /\ pc[Main] = "done" => \A w \in Workers : pc[w] = "exited"

\* x was pushed: by main(), in an earlier iteration, or by the one task that started and
\* whose child x is, once past its own push.
Pushed(x) ==
  \/ \E i \in DOMAIN MainTasks : x = MainTasks[i] /\ i <= nextQueueAssignmentIndex
  \/ \E p \in started :
       /\ x = Child[p]
       /\ \A w \in Workers : currentTask[w] = p => pc[w] \notin {"check", "push", "aborted"}

NoRepetition(q) == \A i, j \in DOMAIN q : q[i] = q[j] => i = j

\* A task is pushed on one deque, and leaves it for one worker, once.
Once ==
  /\ \A w \in Workers : NoRepetition(workerQueues[w])
  /\ \A v, w \in Workers : v # w => ToSet(workerQueues[v]) \cap ToSet(workerQueues[w]) = {}
  /\ \A w \in Workers : ToSet(workerQueues[w]) \cap started = {}
  /\ \A x \in started : Pushed(x)
  /\ \A w \in Workers : \A x \in ToSet(workerQueues[w]) : Pushed(x)
  /\ \A w \in Workers : currentTask[w] # NoTask => currentTask[w] \in started
  /\ \A v, w \in Workers : currentTask[v] # NoTask /\ currentTask[v] = currentTask[w] => v = w

\* The inductive invariant.
IInv == TypeOK /\ Control /\ Once

\* What the two ways to take a task from a deque have in common: w gets x from v's deque.
Takes(w, v, x) ==
  /\ x \in Tasks /\ x \in ToSet(workerQueues[v])
  /\ workerQueues' \in [Workers -> Seq(Tasks)]
  /\ ToSet(workerQueues'[v]) = ToSet(workerQueues[v]) \ {x} /\ NoRepetition(workerQueues'[v])
  /\ \A u \in Workers \ {v} : workerQueues'[u] = workerQueues[u]
  /\ pc[w] \in {"pop", "steal"}
  /\ pc' = [pc EXCEPT ![w] = IF Child[x] = NoTask THEN "run" ELSE "check"]
  /\ currentTask' = [currentTask EXCEPT ![w] = x] /\ started' = started \cup {x}
  /\ UNCHANGED pool

\* What the two ways to push have in common: u, a caller of submitTask, puts x in v's deque.
Puts(u, v, x) ==
  /\ x \in Tasks /\ x = Argument(u)
  /\ workerQueues' \in [Workers -> Seq(Tasks)]
  /\ ToSet(workerQueues'[v]) = ToSet(workerQueues[v]) \cup {x} /\ NoRepetition(workerQueues'[v])
  /\ \A w \in Workers \ {v} : workerQueues'[w] = workerQueues[w]
  /\ pc[u] = "push" /\ pc'[u] \in {"run", "check", "sleep"}
  /\ \A t \in Threads \ {u} : pc'[t] = pc[t] /\ Argument(t)' = Argument(t)
  /\ Pushed(x)'
  /\ nextQueueAssignmentIndex' \in {nextQueueAssignmentIndex, nextQueueAssignmentIndex + 1}
  /\ UNCHANGED <<currentTask, started, isShutdownRequested>>

-----------------------------------------------------------------------------
(* What the deque operations do to what a deque holds. *)

(* A task at a new head. *)
LEMMA PutFirst ==
  ASSUME NEW q \in Seq(Tasks), NEW x \in Tasks
  PROVE  /\ <<x>> \o q \in Seq(Tasks) /\ ToSet(<<x>> \o q) = ToSet(q) \cup {x}
         /\ NoRepetition(q) /\ x \notin ToSet(q) => NoRepetition(<<x>> \o q)
  <1>1. /\ Len(q) \in Nat /\ DOMAIN q = 1..Len(q)
        /\ <<x>> \in Seq(Tasks) /\ Len(<<x>>) = 1 /\ <<x>>[1] = x
    BY LenProperties
  <1>2. /\ <<x>> \o q \in Seq(Tasks) /\ Len(<<x>> \o q) = 1 + Len(q)
        /\ \A i \in 1..(1 + Len(q)) : (<<x>> \o q)[i] = IF i <= 1 THEN <<x>>[i] ELSE q[i - 1]
    BY <1>1, ConcatProperties
  <1>3. DOMAIN (<<x>> \o q) = 1..(1 + Len(q))
    BY <1>2, LenProperties
  <1>4. (<<x>> \o q)[1] = x /\ \A i \in 1..Len(q) : (<<x>> \o q)[i + 1] = q[i]
    BY <1>1, <1>2
  <1>5. ASSUME NEW y \in ToSet(<<x>> \o q) PROVE y \in ToSet(q) \cup {x}
    <2>1. PICK i \in 1..(1 + Len(q)) : y = (<<x>> \o q)[i]
      BY <1>3, <1>5 DEF ToSet
    <2>2. CASE i = 1
      BY <1>4, <2>1, <2>2
    <2>3. CASE i # 1
      <3>1. i - 1 \in 1..Len(q) /\ y = q[i - 1]
        BY <1>1, <1>2, <2>1, <2>3
      <3>2. QED
        BY <1>1, <3>1 DEF ToSet
    <2>4. QED
      BY <2>2, <2>3
  <1>6. ASSUME NEW y \in ToSet(q) \cup {x} PROVE y \in ToSet(<<x>> \o q)
    <2>1. CASE y = x
      <3>1. 1 \in 1..(1 + Len(q))
        BY <1>1
      <3>2. QED
        BY <1>3, <1>4, <2>1, <3>1 DEF ToSet
    <2>2. CASE y \in ToSet(q)
      <3>1. PICK i \in 1..Len(q) : y = q[i]
        BY <1>1, <2>2 DEF ToSet
      <3>2. i + 1 \in 1..(1 + Len(q)) /\ y = (<<x>> \o q)[i + 1]
        BY <1>1, <1>4, <3>1
      <3>3. QED
        BY <1>3, <3>2 DEF ToSet
    <2>3. QED
      BY <2>1, <2>2
  <1>7. ASSUME NoRepetition(q), x \notin ToSet(q),
               NEW i \in 1..(1 + Len(q)), NEW j \in 1..(1 + Len(q)), (<<x>> \o q)[i] = (<<x>> \o q)[j]
        PROVE  i = j
    <2>1. \A k \in 1..(1 + Len(q)) : k # 1 => k - 1 \in 1..Len(q) /\ (<<x>> \o q)[k] = q[k - 1] /\ q[k - 1] # x
      <3> SUFFICES ASSUME NEW k \in 1..(1 + Len(q)), k # 1
                   PROVE  k - 1 \in 1..Len(q) /\ (<<x>> \o q)[k] = q[k - 1] /\ q[k - 1] # x
        OBVIOUS
      <3>1. k - 1 \in 1..Len(q) /\ (<<x>> \o q)[k] = q[k - 1]
        BY <1>1, <1>2
      <3>2. q[k - 1] \in ToSet(q)
        BY <1>1, <3>1 DEF ToSet
      <3>3. QED
        BY <1>7, <3>1, <3>2
    <2>2. CASE i = 1 \/ j = 1
      BY <1>4, <1>7, <2>1, <2>2
    <2>3. CASE i # 1 /\ j # 1
      <3>1. i - 1 \in 1..Len(q) /\ j - 1 \in 1..Len(q) /\ q[i - 1] = q[j - 1]
        BY <1>7, <2>1, <2>3
      <3>2. i - 1 = j - 1
        BY <1>1, <1>7, <3>1 DEF NoRepetition
      <3>3. QED
        BY <1>1, <3>2
    <2>4. QED
      BY <2>2, <2>3
  <1>8. NoRepetition(q) /\ x \notin ToSet(q) => NoRepetition(<<x>> \o q)
    BY <1>3, <1>7 DEF NoRepetition
  <1>9. QED
    BY <1>2, <1>5, <1>6, <1>8

(* The owner's end of a deque. *)
LEMMA TakeFirst ==
  ASSUME NEW q \in Seq(Tasks), q # <<>>, NoRepetition(q)
  PROVE  /\ Head(q) \in Tasks /\ Head(q) \in ToSet(q) /\ Tail(q) \in Seq(Tasks)
         /\ ToSet(Tail(q)) = ToSet(q) \ {Head(q)} /\ NoRepetition(Tail(q))
  <1>1. Len(q) \in Nat /\ Len(q) >= 1 /\ DOMAIN q = 1..Len(q) /\ Head(q) = q[1]
    BY EmptySeq, LenProperties
  <1>2. /\ Tail(q) \in Seq(Tasks) /\ DOMAIN Tail(q) = 1..(Len(q) - 1)
        /\ \A i \in 1..(Len(q) - 1) : Tail(q)[i] = q[i + 1]
    BY HeadTailProperties, LenProperties
  <1>3. ASSUME NEW x \in ToSet(q), x # Head(q) PROVE x \in ToSet(Tail(q))
    <2>1. PICK i \in 1..Len(q) : x = q[i]
      BY <1>1, <1>3 DEF ToSet
    <2>2. i - 1 \in 1..(Len(q) - 1) /\ Tail(q)[i - 1] = x
      BY <1>1, <1>2, <1>3, <2>1
    <2>3. QED
      BY <1>2, <2>2 DEF ToSet
  <1>4. ASSUME NEW x \in ToSet(Tail(q)) PROVE x \in ToSet(q) /\ x # Head(q)
    <2>1. PICK i \in 1..(Len(q) - 1) : x = q[i + 1]
      BY <1>2, <1>4 DEF ToSet
    <2>2. i + 1 \in 1..Len(q) /\ i + 1 # 1 /\ 1 \in 1..Len(q)
      BY <1>1
    <2>3. QED
      BY <1>1, <2>1, <2>2 DEF ToSet, NoRepetition
  <1>5. ASSUME NEW i \in DOMAIN Tail(q), NEW j \in DOMAIN Tail(q), Tail(q)[i] = Tail(q)[j]
        PROVE  i = j
    <2>1. q[i + 1] = q[j + 1] /\ i + 1 \in 1..Len(q) /\ j + 1 \in 1..Len(q) /\ i \in Nat /\ j \in Nat
      BY <1>1, <1>2, <1>5
    <2>2. i + 1 = j + 1
      BY <1>1, <2>1 DEF NoRepetition
    <2>3. QED
      BY <2>1, <2>2
  <1>6. Head(q) \in Tasks /\ Head(q) \in ToSet(q)
    BY <1>1, ElementOfSeq DEF ToSet
  <1>7. QED
    BY <1>2, <1>3, <1>4, <1>5, <1>6 DEF NoRepetition

(* The thieves' end. *)
LEMMA TakeLast ==
  ASSUME NEW q \in Seq(Tasks), q # <<>>, NoRepetition(q)
  PROVE  /\ Last(q) \in Tasks /\ Last(q) \in ToSet(q) /\ Front(q) \in Seq(Tasks)
         /\ ToSet(Front(q)) = ToSet(q) \ {Last(q)} /\ NoRepetition(Front(q))
  <1>1. Len(q) \in Nat /\ Len(q) >= 1 /\ DOMAIN q = 1..Len(q) /\ Last(q) = q[Len(q)]
    BY EmptySeq, LenProperties DEF Last
  <1>2. \A i \in 1..(Len(q) - 1) : q[i] \in Tasks /\ i \in 1..Len(q)
    BY <1>1, ElementOfSeq
  <1>3. /\ Front(q) \in Seq(Tasks) /\ Len(Front(q)) = Len(q) - 1
        /\ \A i \in 1..(Len(q) - 1) : Front(q)[i] = q[i]
    <2>1. Front(q) = SubSeq(q, 1, Len(q) - 1) /\ 1 \in 1..Len(q) + 1 /\ Len(q) - 1 \in 1-1..Len(q)
      BY <1>1 DEF Front
    <2>2. /\ SubSeq(q, 1, Len(q) - 1) \in Seq(Tasks) /\ Len(SubSeq(q, 1, Len(q) - 1)) = Len(q) - 1
          /\ \A i \in 1..(Len(q) - 1) : SubSeq(q, 1, Len(q) - 1)[i] = q[i]
      BY <1>1, <1>2
    <2>3. QED
      BY <2>1, <2>2, Zenon
  <1>4. DOMAIN Front(q) = 1..(Len(q) - 1)
    BY <1>3, LenProperties
  <1>5. ASSUME NEW x \in ToSet(q), x # Last(q) PROVE x \in ToSet(Front(q))
    <2>1. PICK i \in 1..Len(q) : x = q[i]
      BY <1>1, <1>5 DEF ToSet
    <2>2. i \in 1..(Len(q) - 1) /\ Front(q)[i] = x
      BY <1>1, <1>3, <1>5, <2>1
    <2>3. QED
      BY <1>4, <2>2 DEF ToSet
  <1>6. ASSUME NEW x \in ToSet(Front(q)) PROVE x \in ToSet(q) /\ x # Last(q)
    <2>1. PICK i \in 1..(Len(q) - 1) : x = q[i]
      BY <1>3, <1>4, <1>6 DEF ToSet
    <2>2. i \in 1..Len(q) /\ i # Len(q)
      <3>1. Len(q) \in Nat
        BY <1>1
      <3>2. QED
        BY <3>1
    <2>3. Len(q) \in 1..Len(q)
      BY <1>1
    <2>4. QED
      BY <1>1, <2>1, <2>2, <2>3 DEF ToSet, NoRepetition
  <1>7. NoRepetition(Front(q))
    BY <1>1, <1>2, <1>3, <1>4 DEF NoRepetition
  <1>8. Last(q) \in Tasks /\ Last(q) \in ToSet(q)
    <2>1. Len(q) \in 1..Len(q)
      BY <1>1
    <2>2. QED
      BY <1>1, <2>1, ElementOfSeq DEF ToSet
  <1>9. QED
    BY <1>3, <1>5, <1>6, <1>7, <1>8

-----------------------------------------------------------------------------
(* What is pushed stays so: main() goes forward, and nobody returns to the push of a task. *)
LEMMA PushedStays ==
  ASSUME IInv, NEW x, Pushed(x), started \subseteq started',
         nextQueueAssignmentIndex' \in {nextQueueAssignmentIndex, nextQueueAssignmentIndex + 1},
         \A w \in Workers, p \in started :
           currentTask'[w] = p /\ pc'[w] \in {"check", "push", "aborted"}
             => currentTask[w] = p /\ pc[w] \in {"check", "push", "aborted"}
  PROVE  Pushed(x)'
  <1>1. CASE \E i \in DOMAIN MainTasks : x = MainTasks[i] /\ i <= nextQueueAssignmentIndex
    <2>1. PICK i \in DOMAIN MainTasks : x = MainTasks[i] /\ i <= nextQueueAssignmentIndex
      BY <1>1
    <2>2. i \in Nat /\ nextQueueAssignmentIndex \in Nat
      BY WorkStealingAssumption, LenProperties DEF IInv, TypeOK
    <2>3. i <= nextQueueAssignmentIndex'
      BY <2>1, <2>2
    <2>4. QED
      BY <2>1, <2>3 DEF Pushed
  <1>2. CASE \E p \in started :
               /\ x = Child[p]
               /\ \A w \in Workers : currentTask[w] = p => pc[w] \notin {"check", "push", "aborted"}
    BY <1>2 DEF Pushed
  <1>3. QED
    BY <1>1, <1>2 DEF Pushed

(* A step that neither pushes nor takes keeps every task where it is. *)
LEMMA OnceElsewhere ==
  ASSUME IInv, UNCHANGED <<workerQueues, started, nextQueueAssignmentIndex>>,
         \A w \in Workers : currentTask'[w] \in {currentTask[w], NoTask},
         \A w \in Workers : pc'[w] \in {"check", "push", "aborted"} => pc[w] \in {"check", "push", "aborted"}
  PROVE  Once'
  <1>1. \A w \in Workers, p \in started : currentTask'[w] = p => currentTask[w] = p
    BY WorkStealingAssumption DEF IInv, TypeOK
  <1>2. \A x : Pushed(x) => Pushed(x)'
    BY <1>1, PushedStays
  <1>3. QED
    BY <1>2 DEF Once, IInv

(* What a thread is about to submit is a task that nobody has pushed or submits as well. *)
LEMMA ArgumentIsNew ==
  ASSUME IInv, NEW u \in Threads, pc[u] \in {"check", "push"}
  PROVE  \E x \in Tasks : /\ x = Argument(u) /\ ~Pushed(x)
                          /\ \A v \in Threads \ {u} : pc[v] \in {"check", "push"} => Argument(v) # x
  <1>1. ASSUME pc[Main] \in {"check", "push"}
        PROVE  /\ nextQueueAssignmentIndex + 1 \in DOMAIN MainTasks /\ nextQueueAssignmentIndex \in Nat
               /\ Argument(Main) = MainTasks[nextQueueAssignmentIndex + 1] /\ Argument(Main) \in Tasks
    <2>1. /\ nextQueueAssignmentIndex \in Nat /\ nextQueueAssignmentIndex < Len(MainTasks)
          /\ Len(MainTasks) \in Nat /\ DOMAIN MainTasks = 1..Len(MainTasks)
      BY <1>1, WorkStealingAssumption, LenProperties DEF IInv, TypeOK, Control
    <2>2. nextQueueAssignmentIndex + 1 \in 1..Len(MainTasks)
      BY <2>1
    <2>3. QED
      BY <2>1, <2>2, WorkStealingAssumption, ElementOfSeq DEF Argument
  <1>2. \A w \in Workers : pc[w] \in {"check", "push"} =>
          /\ w # Main /\ Argument(w) = Child[currentTask[w]] /\ currentTask[w] \in started
          /\ currentTask[w] \in Tasks /\ Child[currentTask[w]] # NoTask /\ Argument(w) \in Tasks
    BY WorkStealingAssumption DEF Argument, IInv, TypeOK, Control, Once
  <1>3. CASE u = Main
    <2>1. PICK x \in Tasks : x = Argument(Main)
      BY <1>1, <1>3
    <2>2. \A i \in DOMAIN MainTasks : MainTasks[i] = x => i = nextQueueAssignmentIndex + 1
      BY <1>1, <1>3, <2>1, TasksAreDistinct
    <2>3. \A p \in Tasks : Child[p] # x
      BY <1>1, <1>3, <2>1, TasksAreDistinct
    <2>4. ~Pushed(x)
      <3>1. ~(nextQueueAssignmentIndex + 1 <= nextQueueAssignmentIndex)
        BY <1>1, <1>3
      <3>2. QED
        BY <2>2, <2>3, <3>1 DEF Pushed, IInv, TypeOK
    <2>5. \A v \in Threads \ {u} : pc[v] \in {"check", "push"} => Argument(v) # x
      BY <1>2, <1>3, <2>3 DEF Threads
    <2>6. QED
      BY <1>3, <2>1, <2>4, <2>5
  <1>4. CASE u \in Workers
    <2>1. PICK x \in Tasks : x = Child[currentTask[u]] /\ x = Argument(u)
      BY <1>2, <1>4
    <2>2. \A p \in Tasks : Child[p] = x => p = currentTask[u]
      BY <1>2, <1>4, <2>1, TasksAreDistinct
    <2>3. \A i \in DOMAIN MainTasks : MainTasks[i] # x
      BY <1>2, <1>4, <2>1, TasksAreDistinct
    <2>4. ~Pushed(x)
      BY <1>2, <1>4, <2>2, <2>3 DEF Pushed, IInv, TypeOK
    <2>5. \A v \in Threads \ {u} : pc[v] \in {"check", "push"} => Argument(v) # x
      <3>1. ASSUME NEW v \in Workers, v # u, pc[v] \in {"check", "push"} PROVE Argument(v) # x
        <4>1. currentTask[v] # currentTask[u]
          BY <1>2, <1>4, <3>1, WorkStealingAssumption DEF IInv, Once
        <4>2. QED
          BY <1>2, <2>2, <3>1, <4>1
      <3>2. pc[Main] \in {"check", "push"} => Argument(Main) # x
        BY <1>1, <2>3
      <3>3. QED
        BY <3>1, <3>2 DEF Threads
    <2>6. QED
      BY <2>1, <2>4, <2>5
  <1>5. QED
    BY <1>3, <1>4 DEF Threads

-----------------------------------------------------------------------------
(* Each operation on a deque takes or puts one task. *)

(* The remainder of a division. *)
LEMMA Remainder == \A a \in Int, n \in Nat : n # 0 => a % n \in 0..n-1
  OBVIOUS

(* The victim of a search is a worker. *)
LEMMA VictimIsWorker ==
  ASSUME IInv, NEW w \in Workers, SearchGoesOn(w)
  PROVE  Victim(w) \in Workers
  <1>1. PICK a \in Int : a = w + searchIndex[w] + 1
    BY WorkStealingAssumption DEF IInv, TypeOK, Workers
  <1>2. PICK n \in 1..N : n = totalWorkersCount[w]
    BY WorkStealingAssumption DEF SearchGoesOn, IInv, TypeOK
  <1>3. a % n \in 0..n-1 /\ n \in Nat /\ n # 0
    <2>1. n \in Nat /\ n # 0
      BY WorkStealingAssumption
    <2>2. QED
      BY <2>1, Remainder
  <1>4. a % n \in 0..N-1
    BY <1>3, WorkStealingAssumption
  <1>5. QED
    BY <1>1, <1>2, <1>4 DEF Victim, Workers

(* The owner takes from the head of its deque, or finds it empty. *)
LEMMA PopTakes ==
  ASSUME IInv, NEW w \in Workers, PopFromHead(w)
  PROVE  \/ \E x \in Tasks : Takes(w, w, x)
         \/ pc[w] = "pop" /\ pc' = [pc EXCEPT ![w] = "size"] /\ UNCHANGED <<tasks, pool>>
  <1>1. CASE workerQueues[w] = <<>>
    BY <1>1 DEF PopFromHead, Goto
  <1>2. CASE workerQueues[w] # <<>>
    <2>1. workerQueues[w] \in Seq(Tasks) /\ NoRepetition(workerQueues[w])
      BY DEF IInv, TypeOK, Once
    <2>2. /\ Head(workerQueues[w]) \in Tasks /\ Head(workerQueues[w]) \in ToSet(workerQueues[w])
          /\ Tail(workerQueues[w]) \in Seq(Tasks) /\ NoRepetition(Tail(workerQueues[w]))
          /\ ToSet(Tail(workerQueues[w])) = ToSet(workerQueues[w]) \ {Head(workerQueues[w])}
      BY <1>2, <2>1, TakeFirst
    <2>3. PICK x \in Tasks : x = Head(workerQueues[w])
      BY <2>2
    <2>4. /\ workerQueues' = [workerQueues EXCEPT ![w] = Tail(workerQueues[w])]
          /\ workerQueues \in [Workers -> Seq(Tasks)]
          /\ pc[w] = "pop" /\ pc' = [pc EXCEPT ![w] = IF Child[x] = NoTask THEN "run" ELSE "check"]
          /\ currentTask' = [currentTask EXCEPT ![w] = x] /\ started' = started \cup {x}
          /\ UNCHANGED pool
      BY <1>2, <2>3 DEF PopFromHead, Receives, Goto, IInv, TypeOK
    <2>5. workerQueues'[w] = Tail(workerQueues[w]) /\ workerQueues' \in [Workers -> Seq(Tasks)]
      BY <2>2, <2>4
    <2>6. \A u \in Workers \ {w} : workerQueues'[u] = workerQueues[u]
      BY <2>4
    <2>7. Takes(w, w, x)
      BY <2>2, <2>3, <2>4, <2>5, <2>6 DEF Takes
    <2>8. QED
      BY <2>7
  <1>3. QED
    BY <1>1, <1>2

(* A thief takes from the tail of a deque, or finds it empty and goes on. *)
LEMMA StealTakes ==
  ASSUME IInv, NEW w \in Workers, StealFromTail(w)
  PROVE  \/ \E v \in Workers, x \in Tasks : Takes(w, v, x)
         \/ pc[w] = "steal" /\ pc' = [pc EXCEPT ![w] = "steal"] /\ UNCHANGED <<tasks, pool>>
  <1>1. PICK v \in Workers : v = Victim(w)
    BY VictimIsWorker DEF StealFromTail
  <1>2. CASE workerQueues[v] = <<>>
    BY <1>1, <1>2 DEF StealFromTail, Goto
  <1>3. CASE workerQueues[v] # <<>>
    <2>1. workerQueues[v] \in Seq(Tasks) /\ NoRepetition(workerQueues[v])
      BY DEF IInv, TypeOK, Once
    <2>2. /\ Last(workerQueues[v]) \in Tasks /\ Last(workerQueues[v]) \in ToSet(workerQueues[v])
          /\ Front(workerQueues[v]) \in Seq(Tasks) /\ NoRepetition(Front(workerQueues[v]))
          /\ ToSet(Front(workerQueues[v])) = ToSet(workerQueues[v]) \ {Last(workerQueues[v])}
      BY <1>3, <2>1, TakeLast
    <2>3. PICK x \in Tasks : x = Last(workerQueues[v])
      BY <2>2
    <2>4. /\ workerQueues' = [workerQueues EXCEPT ![v] = Front(workerQueues[v])]
          /\ workerQueues \in [Workers -> Seq(Tasks)]
          /\ pc[w] = "steal" /\ pc' = [pc EXCEPT ![w] = IF Child[x] = NoTask THEN "run" ELSE "check"]
          /\ currentTask' = [currentTask EXCEPT ![w] = x] /\ started' = started \cup {x}
          /\ UNCHANGED pool
      BY <1>1, <1>3, <2>3 DEF StealFromTail, LeftBehind, Receives, Goto, IInv, TypeOK
    <2>5. workerQueues'[v] = Front(workerQueues[v]) /\ workerQueues' \in [Workers -> Seq(Tasks)]
      BY <2>2, <2>4
    <2>6. \A u \in Workers \ {v} : workerQueues'[u] = workerQueues[u]
      BY <2>4
    <2>7. Takes(w, v, x)
      BY <2>2, <2>3, <2>4, <2>5, <2>6 DEF Takes
    <2>8. QED
      BY <2>7
  <1>4. QED
    BY <1>2, <1>3

(* main() pushes its next task on the deque whose turn it is. *)
LEMMA RoundRobinPuts ==
  ASSUME IInv, PushRoundRobin
  PROVE  \E v \in Workers, x \in Tasks : Puts(Main, v, x)
  <1>1. PICK v \in Workers : v = nextQueueAssignmentIndex % N
    <2>1. nextQueueAssignmentIndex \in Int /\ N \in Nat /\ N # 0
      BY WorkStealingAssumption DEF IInv, TypeOK
    <2>2. QED
      BY <2>1, Remainder DEF Workers
  <1>2. /\ pc[Main] = "push" /\ pc' = [pc EXCEPT ![Main] = Submission(nextQueueAssignmentIndex + 1)]
        /\ workerQueues' = [workerQueues EXCEPT ![v] = <<Argument(Main)>> \o workerQueues[v]]
        /\ nextQueueAssignmentIndex' = nextQueueAssignmentIndex + 1
        /\ UNCHANGED <<currentTask, started, isShutdownRequested>>
        /\ pc \in [Threads -> PCs] /\ workerQueues \in [Workers -> Seq(Tasks)]
        /\ workerQueues[v] \in Seq(Tasks) /\ NoRepetition(workerQueues[v]) /\ Main \in Threads
    BY <1>1 DEF PushRoundRobin, Goto, IInv, TypeOK, Once, Threads
  <1>3. PICK x \in Tasks : x = Argument(Main) /\ ~Pushed(x)
    BY <1>2, ArgumentIsNew
  <1>4. x \notin ToSet(workerQueues[v])
    BY <1>3 DEF IInv, Once
  <1>5. /\ <<x>> \o workerQueues[v] \in Seq(Tasks) /\ NoRepetition(<<x>> \o workerQueues[v])
        /\ ToSet(<<x>> \o workerQueues[v]) = ToSet(workerQueues[v]) \cup {x}
    BY <1>2, <1>4, PutFirst
  <1>6. /\ workerQueues' \in [Workers -> Seq(Tasks)] /\ workerQueues'[v] = <<x>> \o workerQueues[v]
        /\ \A w \in Workers \ {v} : workerQueues'[w] = workerQueues[w]
    BY <1>2, <1>3, <1>5
  <1>7. pc'[Main] \in {"check", "sleep"} /\ \A t \in Threads \ {Main} : pc'[t] = pc[t]
    BY <1>2 DEF Submission
  <1>8. \A t \in Threads \ {Main} : Argument(t)' = Argument(t)
    BY <1>2 DEF Argument
  <1>9. Pushed(x)'
    <2>1. nextQueueAssignmentIndex \in Nat /\ nextQueueAssignmentIndex < Len(MainTasks)
      BY <1>2 DEF IInv, TypeOK, Control
    <2>2. nextQueueAssignmentIndex + 1 \in DOMAIN MainTasks
      BY <2>1, WorkStealingAssumption, LenProperties
    <2>3. nextQueueAssignmentIndex + 1 <= nextQueueAssignmentIndex'
      BY <1>2, <2>1
    <2>4. x = MainTasks[nextQueueAssignmentIndex + 1]
      BY <1>3 DEF Argument
    <2>5. QED
      BY <2>2, <2>3, <2>4 DEF Pushed
  <1>10. Puts(Main, v, x)
    BY <1>2, <1>3, <1>5, <1>6, <1>7, <1>8, <1>9 DEF Puts
  <1>11. QED
    BY <1>10

(* A worker pushes the child of its task on its own deque. *)
LEMMA OwnHeadPuts ==
  ASSUME IInv, NEW w \in Workers, PushToOwnHead(w)
  PROVE  \E x \in Tasks : Puts(w, w, x)
  <1>1. /\ pc[w] = "push" /\ pc' = [pc EXCEPT ![w] = "run"]
        /\ workerQueues' = [workerQueues EXCEPT ![w] = <<Argument(w)>> \o workerQueues[w]]
        /\ UNCHANGED <<currentTask, started, isShutdownRequested, nextQueueAssignmentIndex>>
        /\ pc \in [Threads -> PCs] /\ workerQueues \in [Workers -> Seq(Tasks)]
        /\ workerQueues[w] \in Seq(Tasks) /\ NoRepetition(workerQueues[w]) /\ w \in Threads
    BY DEF PushToOwnHead, Goto, pool, IInv, TypeOK, Once, Threads
  <1>2. PICK x \in Tasks : x = Argument(w) /\ ~Pushed(x)
    BY <1>1, ArgumentIsNew
  <1>3. x \notin ToSet(workerQueues[w])
    BY <1>2 DEF IInv, Once
  <1>4. /\ <<x>> \o workerQueues[w] \in Seq(Tasks) /\ NoRepetition(<<x>> \o workerQueues[w])
        /\ ToSet(<<x>> \o workerQueues[w]) = ToSet(workerQueues[w]) \cup {x}
    BY <1>1, <1>3, PutFirst
  <1>5. /\ workerQueues' \in [Workers -> Seq(Tasks)] /\ workerQueues'[w] = <<x>> \o workerQueues[w]
        /\ \A v \in Workers \ {w} : workerQueues'[v] = workerQueues[v]
    BY <1>1, <1>2, <1>4
  <1>6. pc'[w] = "run" /\ \A t \in Threads \ {w} : pc'[t] = pc[t]
    BY <1>1
  <1>7. \A t \in Threads : Argument(t)' = Argument(t)
    BY <1>1 DEF Argument
  <1>8. Pushed(x)'
    <2>1. currentTask[w] \in started /\ currentTask[w] # NoTask /\ x = Child[currentTask[w]]
      BY <1>1, <1>2, WorkStealingAssumption DEF Argument, IInv, Control, Once
    <2>2. \A v \in Workers : currentTask[v] = currentTask[w] => v = w
      BY <2>1 DEF IInv, Once
    <2>3. \A v \in Workers : currentTask'[v] = currentTask[w] => pc'[v] \notin {"check", "push", "aborted"}
      BY <1>1, <1>6, <2>2
    <2>4. QED
      BY <1>1, <2>1, <2>3 DEF Pushed
  <1>9. Puts(w, w, x)
    BY <1>1, <1>2, <1>4, <1>5, <1>6, <1>7, <1>8 DEF Puts
  <1>10. QED
    BY <1>9

(* A task that is taken has one owner and is nowhere else. *)
LEMMA TakesKeeps ==
  ASSUME IInv, NEW w \in Workers, NEW v \in Workers, NEW x \in Tasks, Takes(w, v, x)
  PROVE  Control' /\ Once'
  <1>1. /\ x \notin started /\ \A u \in Workers : currentTask[u] # x /\ (u # v => x \notin ToSet(workerQueues[u]))
        /\ Pushed(x) /\ x # NoTask /\ w # Main
    <2>1. x \notin started /\ Pushed(x) /\ (\A u \in Workers : u # v => x \notin ToSet(workerQueues[u]))
      BY DEF Takes, IInv, Once
    <2>2. \A u \in Workers : currentTask[u] # x
      BY <2>1, WorkStealingAssumption DEF IInv, Once
    <2>3. x # NoTask /\ w # Main
      BY WorkStealingAssumption
    <2>4. QED
      BY <2>1, <2>2, <2>3
  <1>2. /\ \A u \in Workers : currentTask'[u] = IF u = w THEN x ELSE currentTask[u]
        /\ \A u \in Threads : pc'[u] = IF u = w THEN IF Child[x] = NoTask THEN "run" ELSE "check" ELSE pc[u]
    BY DEF Takes, IInv, TypeOK, Threads
  <1>3. /\ ToSet(workerQueues'[v]) = ToSet(workerQueues[v]) \ {x} /\ NoRepetition(workerQueues'[v])
        /\ \A u \in Workers \ {v} : workerQueues'[u] = workerQueues[u]
        /\ started' = started \cup {x} /\ UNCHANGED <<isShutdownRequested, nextQueueAssignmentIndex>>
        /\ pc[w] \in {"pop", "steal"} /\ w \in Threads
    BY DEF Takes, pool, Threads
  <1>4. \A y : Pushed(y) => Pushed(y)'
    <2>1. \A u \in Workers, p \in started :
            currentTask'[u] = p /\ pc'[u] \in {"check", "push", "aborted"}
              => currentTask[u] = p /\ pc[u] \in {"check", "push", "aborted"}
      BY <1>1, <1>2 DEF Threads
    <2>2. QED
      BY <1>3, <2>1, PushedStays
  <1>5. Control'
    BY <1>1, <1>2, <1>3 DEF IInv, Control, Threads, MainPCs, WorkerPCs
  <1>6. \A u \in Workers : ToSet(workerQueues'[u]) \subseteq ToSet(workerQueues[u]) \ {x}
    BY <1>1, <1>3
  <1>7. \A u \in Workers : NoRepetition(workerQueues'[u])
    BY <1>3 DEF IInv, Once
  <1>8. \A u \in Workers : ToSet(workerQueues'[u]) \cap started' = {}
    BY <1>3, <1>6 DEF IInv, Once
  <1>9. \A t, u \in Workers : t # u => ToSet(workerQueues'[t]) \cap ToSet(workerQueues'[u]) = {}
    BY <1>6 DEF IInv, Once
  <1>10. (\A y \in started' : Pushed(y)') /\ \A u \in Workers : \A y \in ToSet(workerQueues'[u]) : Pushed(y)'
    BY <1>1, <1>3, <1>4, <1>6 DEF IInv, Once
  <1>11. /\ \A u \in Workers : currentTask'[u] # NoTask => currentTask'[u] \in started'
         /\ \A t, u \in Workers : currentTask'[t] # NoTask /\ currentTask'[t] = currentTask'[u] => t = u
    BY <1>1, <1>2, <1>3 DEF IInv, Once
  <1>12. Once'
    BY <1>7, <1>8, <1>9, <1>10, <1>11 DEF Once, NoRepetition
  <1>13. QED
    BY <1>5, <1>12

(* A task that is put is in one deque. *)
LEMMA PutsKeeps ==
  ASSUME IInv, NEW u \in Threads, NEW v \in Workers, NEW x \in Tasks, Puts(u, v, x)
  PROVE  Once'
  <1>1. ~Pushed(x)
    BY ArgumentIsNew DEF Puts
  <1>2. x \notin started /\ \A w \in Workers : x \notin ToSet(workerQueues[w])
    BY <1>1 DEF IInv, Once
  <1>3. /\ ToSet(workerQueues'[v]) = ToSet(workerQueues[v]) \cup {x} /\ NoRepetition(workerQueues'[v])
        /\ \A w \in Workers \ {v} : workerQueues'[w] = workerQueues[w]
        /\ UNCHANGED <<currentTask, started>> /\ Pushed(x)'
    BY DEF Puts
  <1>4. \A y : Pushed(y) => Pushed(y)'
    <2>1. \A w \in Workers : pc'[w] \in {"check", "push", "aborted"} => pc[w] \in {"check", "push", "aborted"}
      BY DEF Puts, Threads
    <2>2. QED
      BY <1>3, <2>1, PushedStays DEF Puts
  <1>5. \A w \in Workers : NoRepetition(workerQueues'[w]) /\ ToSet(workerQueues'[w]) \cap started' = {}
    BY <1>2, <1>3 DEF IInv, Once
  <1>6. \A t, w \in Workers : t # w => ToSet(workerQueues'[t]) \cap ToSet(workerQueues'[w]) = {}
    BY <1>2, <1>3 DEF IInv, Once
  <1>7. (\A y \in started' : Pushed(y)') /\ \A w \in Workers : \A y \in ToSet(workerQueues'[w]) : Pushed(y)'
    BY <1>3, <1>4 DEF IInv, Once
  <1>8. QED
    BY <1>3, <1>5, <1>6, <1>7 DEF IInv, Once, NoRepetition

-----------------------------------------------------------------------------
(* A worker sees a vector of at most N threads. *)
LEMMA AtMostN == Cardinality(Spawned) \in 0..N
  <1>1. IsFiniteSet(Workers) /\ Cardinality(Workers) = N
    <2>1. 0 \in Int /\ N - 1 \in Int
      BY WorkStealingAssumption
    <2>2. /\ IsFiniteSet(0..N-1)
          /\ Cardinality(0..N-1) = IF 0 > N-1 THEN 0 ELSE (N-1) - 0 + 1
      BY <2>1, FS_Interval, Zenon
    <2>3. ASSUME NEW c, c = IF 0 > N-1 THEN 0 ELSE (N-1) - 0 + 1 PROVE c = N
      BY <2>3, WorkStealingAssumption
    <2>4. Cardinality(0..N-1) = N
      BY <2>2, <2>3, Zenon
    <2>5. QED
      BY <2>2, <2>4, Zenon DEF Workers
  <1>2. IsFiniteSet(Spawned) /\ Cardinality(Spawned) <= N
    BY <1>1, FS_Subset DEF Spawned
  <1>3. Cardinality(Spawned) \in Nat
    BY <1>2, FS_CardinalityType
  <1>4. QED
    BY <1>2, <1>3, WorkStealingAssumption

(* Before the first thread is started the inductive invariant holds. *)
LEMMA InitInv == Init => IInv
  <1> SUFFICES ASSUME Init PROVE IInv
    OBVIOUS
  <1> USE WorkStealingAssumption DEF Init, Threads
  <1>1. TypeOK
    <2>1. pc \in [Threads -> PCs]
      BY DEF PCs
    <2>2. workerQueues \in [Workers -> Seq(Tasks)]
      BY EmptySeq
    <2>3. totalWorkersCount \in [Workers -> 0..N] /\ searchIndex \in [Workers -> 0..N]
      OBVIOUS
    <2>4. QED
      BY <2>1, <2>2, <2>3 DEF TypeOK
  <1>2. Control
    BY DEF Control, MainPCs, WorkerPCs
  <1>3. \A w \in Workers : ToSet(workerQueues[w]) = {} /\ NoRepetition(workerQueues[w])
    BY DEF ToSet, NoRepetition
  <1>4. \A w \in Workers : currentTask[w] = NoTask
    OBVIOUS
  <1>5. Once
    BY <1>3, <1>4 DEF Once
  <1>6. QED
    BY <1>1, <1>2, <1>5 DEF IInv

(* Every step preserves the inductive invariant, one case per action. *)
LEMMA StepInv == IInv /\ [Next]_vars => IInv'
  <1> SUFFICES ASSUME IInv, [Next]_vars PROVE IInv'
    OBVIOUS
  <1> USE WorkStealingAssumption DEF Threads
  <1>1. ASSUME NEW w \in Workers, LoopTest(w) PROVE IInv'
    <2>1. \A u \in Workers : pc'[u] \in {"check", "push", "aborted"} => pc[u] \in {"check", "push", "aborted"}
      BY <1>1 DEF LoopTest, Goto, IInv, TypeOK
    <2>2. Once'
      BY <1>1, <2>1, OnceElsewhere DEF LoopTest, tasks, pool
    <2>3. Control'
      BY <1>1 DEF LoopTest, Goto, Stop, tasks, pool, IInv, TypeOK, Control, MainPCs, WorkerPCs
    <2>4. TypeOK'
      BY <1>1 DEF LoopTest, Goto, tasks, pool, search, IInv, TypeOK, PCs
    <2>5. QED
      BY <2>2, <2>3, <2>4 DEF IInv
  <1>2. ASSUME NEW w \in Workers, NEW v \in Workers, NEW x \in Tasks, Takes(w, v, x),
               UNCHANGED totalWorkersCount, searchIndex' \in [Workers -> 0..N]
        PROVE  IInv'
    <2>1. Control' /\ Once'
      BY <1>2, TakesKeeps
    <2>2. pc' \in [Threads -> PCs] /\ currentTask' \in [Workers -> Tasks \cup {NoTask}]
      BY <1>2 DEF Takes, IInv, TypeOK, PCs
    <2>3. TypeOK'
      BY <1>2, <2>2 DEF Takes, pool, IInv, TypeOK
    <2>4. QED
      BY <2>1, <2>3 DEF IInv
  <1>3. ASSUME NEW w \in Workers, PopFromHead(w) PROVE IInv'
    <2>1. UNCHANGED totalWorkersCount /\ UNCHANGED searchIndex /\ searchIndex \in [Workers -> 0..N]
      BY <1>3 DEF PopFromHead, search, IInv, TypeOK
    <2>2. CASE \E x \in Tasks : Takes(w, w, x)
      BY <1>2, <2>1, <2>2
    <2>3. CASE pc[w] = "pop" /\ pc' = [pc EXCEPT ![w] = "size"] /\ UNCHANGED <<tasks, pool>>
      <3>1. \A u \in Workers : pc'[u] \in {"check", "push", "aborted"} => pc[u] \in {"check", "push", "aborted"}
        BY <2>3 DEF IInv, TypeOK
      <3>2. Once'
        BY <2>3, <3>1, OnceElsewhere DEF tasks, pool
      <3>3. Control'
        BY <2>3 DEF tasks, pool, IInv, TypeOK, Control, MainPCs, WorkerPCs
      <3>4. TypeOK'
        BY <2>1, <2>3 DEF tasks, pool, IInv, TypeOK, PCs
      <3>5. QED
        BY <3>2, <3>3, <3>4 DEF IInv
    <2>4. QED
      BY <1>3, <2>2, <2>3, PopTakes
  <1>4. ASSUME NEW w \in Workers, ReadsSize(w) PROVE IInv'
    <2>1. \A u \in Workers : pc'[u] \in {"check", "push", "aborted"} => pc[u] \in {"check", "push", "aborted"}
      BY <1>4 DEF ReadsSize, Goto, IInv, TypeOK
    <2>2. Once'
      BY <1>4, <2>1, OnceElsewhere DEF ReadsSize, tasks, pool
    <2>3. Control'
      BY <1>4 DEF ReadsSize, Goto, tasks, pool, IInv, TypeOK, Control, MainPCs, WorkerPCs
    <2>4. PICK n \in 0..N : totalWorkersCount' = [totalWorkersCount EXCEPT ![w] = n]
      <3>1. ASSUME NEW c \in 0..N
            PROVE  (IF pc[Main] = "spawn" THEN 0..c ELSE {N}) \subseteq 0..N
        BY WorkStealingAssumption
      <3>2. (IF pc[Main] = "spawn" THEN 0..Cardinality(Spawned) ELSE {N}) \subseteq 0..N
        BY <3>1, AtMostN, Zenon
      <3>3. \E n \in IF pc[Main] = "spawn" THEN 0..Cardinality(Spawned) ELSE {N} :
              totalWorkersCount' = [totalWorkersCount EXCEPT ![w] = n]
        BY <1>4, Zenon DEF ReadsSize
      <3>4. QED
        BY <3>2, <3>3, Zenon
    <2>5. TypeOK'
      BY <1>4, <2>4 DEF ReadsSize, Goto, tasks, pool, IInv, TypeOK, PCs
    <2>6. QED
      BY <2>2, <2>3, <2>5 DEF IInv
  <1>5. ASSUME NEW w \in Workers, StealFromTail(w) PROVE IInv'
    <2>1. UNCHANGED totalWorkersCount /\ searchIndex' \in [Workers -> 0..N]
      <3>1. searchIndex \in [Workers -> 0..N] /\ searchIndex[w] + 1 \in 0..N
        BY <1>5 DEF StealFromTail, SearchGoesOn, IInv, TypeOK
      <3>2. searchIndex' = searchIndex \/ searchIndex' = [searchIndex EXCEPT ![w] = searchIndex[w] + 1]
        BY <1>5 DEF StealFromTail, search
      <3>3. UNCHANGED totalWorkersCount
        BY <1>5 DEF StealFromTail
      <3>4. QED
        BY <3>1, <3>2, <3>3
    <2>2. CASE \E v \in Workers, x \in Tasks : Takes(w, v, x)
      BY <1>2, <2>1, <2>2
    <2>3. CASE pc[w] = "steal" /\ pc' = [pc EXCEPT ![w] = "steal"] /\ UNCHANGED <<tasks, pool>>
      <3>1. \A u \in Workers : pc'[u] \in {"check", "push", "aborted"} => pc[u] \in {"check", "push", "aborted"}
        BY <2>3 DEF IInv, TypeOK
      <3>2. Once'
        BY <2>3, <3>1, OnceElsewhere DEF tasks, pool
      <3>3. Control'
        BY <2>3 DEF tasks, pool, IInv, TypeOK, Control, MainPCs, WorkerPCs
      <3>4. TypeOK'
        BY <2>1, <2>3 DEF tasks, pool, IInv, TypeOK, PCs
      <3>5. QED
        BY <3>2, <3>3, <3>4 DEF IInv
    <2>4. QED
      BY <1>5, <2>2, <2>3, StealTakes
  <1>6. ASSUME NEW w \in Workers, Yields(w) PROVE IInv'
    <2>1. \A u \in Workers : pc'[u] \in {"check", "push", "aborted"} => pc[u] \in {"check", "push", "aborted"}
      BY <1>6 DEF Yields, Goto, IInv, TypeOK
    <2>2. Once'
      BY <1>6, <2>1, OnceElsewhere DEF Yields, tasks, pool
    <2>3. Control'
      BY <1>6 DEF Yields, Goto, tasks, pool, IInv, TypeOK, Control, MainPCs, WorkerPCs
    <2>4. TypeOK'
      BY <1>6 DEF Yields, Goto, tasks, pool, search, IInv, TypeOK, PCs
    <2>5. QED
      BY <2>2, <2>3, <2>4 DEF IInv
  <1>7. ASSUME NEW t \in Threads, SubmitCheck(t) PROVE IInv'
    <2>1. \A u \in Workers : pc'[u] \in {"check", "push", "aborted"} => pc[u] \in {"check", "push", "aborted"}
      BY <1>7 DEF SubmitCheck, Goto, IInv, TypeOK
    <2>2. Once'
      BY <1>7, <2>1, OnceElsewhere DEF SubmitCheck, tasks, pool
    <2>3. Control'
      BY <1>7 DEF SubmitCheck, Goto, tasks, pool, IInv, TypeOK, Control, MainPCs, WorkerPCs
    <2>4. TypeOK'
      BY <1>7 DEF SubmitCheck, Goto, tasks, pool, search, IInv, TypeOK, PCs
    <2>5. QED
      BY <2>2, <2>3, <2>4 DEF IInv
  <1>8. ASSUME NEW w \in Workers, PushToOwnHead(w) PROVE IInv'
    <2>1. PICK x \in Tasks : Puts(w, w, x)
      BY <1>8, OwnHeadPuts
    <2>2. Once'
      BY <2>1, PutsKeeps
    <2>3. Control'
      BY <1>8 DEF PushToOwnHead, Goto, pool, IInv, TypeOK, Control, MainPCs, WorkerPCs
    <2>4. TypeOK'
      BY <1>8, <2>1 DEF PushToOwnHead, Puts, Goto, pool, search, IInv, TypeOK, PCs
    <2>5. QED
      BY <2>2, <2>3, <2>4 DEF IInv
  <1>9. CASE PushRoundRobin
    <2>1. PICK v \in Workers, x \in Tasks : Puts(Main, v, x)
      BY <1>9, RoundRobinPuts
    <2>2. Once'
      BY <2>1, PutsKeeps
    <2>3. Control'
      BY <1>9 DEF PushRoundRobin, Submission, Goto, IInv, TypeOK, Control, MainPCs, WorkerPCs
    <2>4. TypeOK'
      BY <1>9, <2>1 DEF PushRoundRobin, Submission, Puts, Goto, search, IInv, TypeOK, PCs
    <2>5. QED
      BY <2>2, <2>3, <2>4 DEF IInv
  <1>10. ASSUME NEW w \in Workers, TaskReturns(w) PROVE IInv'
    <2>1. /\ \A u \in Workers : pc'[u] \in {"check", "push", "aborted"} => pc[u] \in {"check", "push", "aborted"}
          /\ \A u \in Workers : currentTask'[u] \in {currentTask[u], NoTask}
      BY <1>10 DEF TaskReturns, Goto, IInv, TypeOK
    <2>2. Once'
      BY <1>10, <2>1, OnceElsewhere DEF TaskReturns, pool
    <2>3. Control'
      BY <1>10 DEF TaskReturns, Goto, pool, IInv, TypeOK, Control, MainPCs, WorkerPCs
    <2>4. TypeOK'
      BY <1>10 DEF TaskReturns, Goto, pool, search, IInv, TypeOK, PCs
    <2>5. QED
      BY <2>2, <2>3, <2>4 DEF IInv
  <1>11. ASSUME NEW w \in Workers, SpawnWorker(w) PROVE IInv'
    <2>1. \A u \in Workers : pc'[u] \in {"check", "push", "aborted"} => pc[u] \in {"check", "push", "aborted"}
      BY <1>11 DEF SpawnWorker, Goto, IInv, TypeOK
    <2>2. Once'
      BY <1>11, <2>1, OnceElsewhere DEF SpawnWorker, tasks, pool
    <2>3. Control'
      BY <1>11 DEF SpawnWorker, Goto, tasks, pool, IInv, TypeOK, Control, MainPCs, WorkerPCs
    <2>4. TypeOK'
      BY <1>11 DEF SpawnWorker, Goto, tasks, pool, search, IInv, TypeOK, PCs
    <2>5. QED
      BY <2>2, <2>3, <2>4 DEF IInv
  <1>12. CASE PoolBuilt \/ DestructorSetsFlag \/ DestructorReturns
    <2>1. UNCHANGED <<workerQueues, currentTask, started, nextQueueAssignmentIndex, totalWorkersCount, searchIndex>>
      BY <1>12 DEF PoolBuilt, DestructorSetsFlag, DestructorReturns, tasks, pool, search
    <2>2. \A u \in Workers : pc'[u] = pc[u]
      BY <1>12 DEF PoolBuilt, DestructorSetsFlag, DestructorReturns, Goto, IInv, TypeOK
    <2>3. Once'
      BY <2>1, <2>2, OnceElsewhere
    <2>4. Control'
      <3>1. CASE PoolBuilt
        <4>1. nextQueueAssignmentIndex = 0
          BY <3>1 DEF PoolBuilt, Goto, IInv, Control
        <4>2. QED
          BY <2>1, <3>1, <4>1 DEF PoolBuilt, Submission, Goto, tasks, pool, IInv, TypeOK, Control, MainPCs, WorkerPCs
      <3>2. CASE DestructorSetsFlag
        BY <2>1, <3>2 DEF DestructorSetsFlag, Goto, IInv, TypeOK, Control, MainPCs, WorkerPCs
      <3>3. CASE DestructorReturns
        BY <2>1, <3>3 DEF DestructorReturns, AllJoined, Goto, pool, IInv, TypeOK, Control, MainPCs, WorkerPCs
      <3>4. QED
        BY <1>12, <3>1, <3>2, <3>3
    <2>5. TypeOK'
      BY <1>12, <2>1 DEF PoolBuilt, Submission, DestructorSetsFlag, DestructorReturns, Goto, pool, IInv, TypeOK, PCs
    <2>6. QED
      BY <2>3, <2>4, <2>5 DEF IInv
  <1>13. CASE UNCHANGED vars
    <2>1. /\ UNCHANGED <<pc, workerQueues, currentTask, started, isShutdownRequested,
                         nextQueueAssignmentIndex, totalWorkersCount, searchIndex>>
      BY <1>13 DEF vars, tasks, pool, search
    <2>2. Once'
      BY <2>1, OnceElsewhere
    <2>3. Control' /\ TypeOK'
      BY <2>1 DEF IInv, TypeOK, Control
    <2>4. QED
      BY <2>2, <2>3 DEF IInv
  <1>14. QED
    BY <1>1, <1>3, <1>4, <1>5, <1>6, <1>7, <1>8, <1>9, <1>10, <1>11, <1>12, <1>13
       DEF Next, WorkerStep, MainStep, Ended

(* The inductive invariant holds in every reachable state of the pool. *)
THEOREM Invariance == Spec => []IInv
  BY InitInv, StepInv, PTL DEF Spec

(* Types are respected whatever the numbers of workers and tasks: in particular no search
   ever leaves the vector of deques. *)
THEOREM TypeCorrect == Spec => []TypeOK
  <1>1. IInv => TypeOK
    BY DEF IInv
  <1>2. QED
    BY <1>1, Invariance, PTL

(* No task is in two deques, in the hands of two workers, or queued again once started. *)
THEOREM EachTaskOnce == Spec => []Once
  <1>1. IInv => Once
    BY DEF IInv
  <1>2. QED
    BY <1>1, Invariance, PTL

-----------------------------------------------------------------------------
(* What a step of the pool is to the contract: status by status. *)

Pending(t) == \E u \in Threads : pc[u] = "push" /\ Argument(u) = t

(* A step that leaves alone who runs what, what started, and what was accepted. *)
LEMMA StatusUnchanged ==
  ASSUME UNCHANGED <<currentTask, started>>,
         NEW t, Queued(t)' \/ Pending(t)' <=> Queued(t) \/ Pending(t)
  PROVE  Status(t)' = Status(t)
  BY DEF Status, Pending

(* The statuses, as a function, when one task's changes. *)
LEMMA OneBecomes ==
  ASSUME NEW t \in Tasks, NEW from, NEW to, Status(t) = from, Status(t)' = to,
         \A u \in Tasks : u # t => Status(u)' = Status(u)
  PROVE  Contract!Becomes(t, from, to)
  BY DEF Contract!Becomes

(* A step that leaves the tasks alone and gets nobody in or out of a push is no step. *)
LEMMA Stutters ==
  ASSUME UNCHANGED <<workerQueues, currentTask, started, nextQueueAssignmentIndex, isShutdownRequested>>,
         \A t \in Threads : pc'[t] = "push" <=> pc[t] = "push",
         (pc'[Main] = "done") = (pc[Main] = "done")
  PROVE  UNCHANGED Contract!vars
  <1>1. \A t \in Threads : Argument(t)' = Argument(t)
    BY DEF Argument
  <1>2. ASSUME NEW t \in Tasks PROVE Status(t)' = Status(t)
    <2>1. Queued(t)' = Queued(t)
      BY DEF Queued
    <2>2. Pending(t)' = Pending(t)
      BY <1>1 DEF Pending
    <2>3. QED
      BY <2>1, <2>2, StatusUnchanged
  <1>3. QED
    BY <1>2 DEF Contract!vars

(* To take a task is to start it. *)
LEMMA TakesStarts ==
  ASSUME IInv, NEW w \in Workers, NEW v \in Workers, NEW x \in Tasks, Takes(w, v, x)
  PROVE  Contract!Next
  <1>1. /\ x \notin started /\ \A u \in Workers : currentTask[u] # x
        /\ currentTask[w] = NoTask /\ x # NoTask /\ w # Main /\ w \in Threads
    <2>1. x \notin started
      BY DEF Takes, IInv, Once
    <2>2. x # NoTask /\ w # Main /\ w \in Threads
      BY WorkStealingAssumption DEF Threads
    <2>3. \A u \in Workers : currentTask[u] # x
      BY <2>1, <2>2 DEF IInv, Once
    <2>4. currentTask[w] = NoTask
      BY DEF Takes, IInv, Control
    <2>5. QED
      BY <2>1, <2>2, <2>3, <2>4
  <1>2. /\ \A u \in Workers : currentTask'[u] = IF u = w THEN x ELSE currentTask[u]
        /\ \A u \in Threads \ {w} : pc'[u] = pc[u]
        /\ pc[w] # "push" /\ pc'[w] # "push" /\ pc[w] # "exited"
    BY DEF Takes, IInv, TypeOK, Threads
  <1>3. /\ x \in ToSet(workerQueues[v]) /\ ToSet(workerQueues'[v]) = ToSet(workerQueues[v]) \ {x}
        /\ \A u \in Workers \ {v} : workerQueues'[u] = workerQueues[u]
        /\ started' = started \cup {x} /\ UNCHANGED <<isShutdownRequested, nextQueueAssignmentIndex>>
    BY DEF Takes, pool
  <1>4. Status(x) = "queued" /\ Status(x)' = "running"
    <2>1. Queued(x)
      BY <1>3 DEF Queued
    <2>2. currentTask'[w] = x
      BY <1>2
    <2>3. QED
      BY <1>1, <2>1, <2>2 DEF Status
  <1>5. ASSUME NEW y \in Tasks, y # x PROVE Status(y)' = Status(y)
    <2>1. Queued(y)' = Queued(y)
      BY <1>3, <1>5 DEF Queued
    <2>2. Pending(y)' = Pending(y)
      <3>1. \A u \in Threads : pc[u] = "push" => Argument(u)' = Argument(u)
        BY <1>2, <1>3 DEF Argument, Threads
      <3>2. QED
        BY <1>1, <1>2, <3>1 DEF Pending
    <2>3. (\E u \in Workers : currentTask'[u] = y) = (\E u \in Workers : currentTask[u] = y)
      BY <1>1, <1>2, <1>5, WorkStealingAssumption
    <2>4. y \in started' <=> y \in started
      BY <1>3, <1>5
    <2>5. QED
      BY <2>1, <2>2, <2>3, <2>4 DEF Status, Pending
  <1>6. pc[Main] # "done" /\ pc'[Main] = pc[Main]
    BY <1>1, <1>2 DEF IInv, Control, Threads
  <1>7. Contract!Start(x)
    BY <1>3, <1>4, <1>5, <1>6, OneBecomes DEF Contract!Start
  <1>8. QED
    BY <1>7 DEF Contract!Next

(* To push what was accepted changes nothing for the contract. *)
LEMMA PutsStutters ==
  ASSUME IInv, NEW u \in Threads, NEW v \in Workers, NEW x \in Tasks, Puts(u, v, x)
  PROVE  UNCHANGED Contract!vars
  <1>1. /\ x = Argument(u) /\ pc[u] = "push" /\ pc'[u] # "push" /\ pc'[u] # "done"
        /\ ToSet(workerQueues'[v]) = ToSet(workerQueues[v]) \cup {x}
        /\ \A w \in Workers \ {v} : workerQueues'[w] = workerQueues[w]
        /\ \A t \in Threads \ {u} : pc'[t] = pc[t] /\ Argument(t)' = Argument(t)
        /\ UNCHANGED <<currentTask, started, isShutdownRequested>>
    BY DEF Puts
  <1>2. Queued(x)' /\ Pending(x)
    BY <1>1 DEF Queued, Pending
  <1>3. ASSUME NEW y \in Tasks, y # x PROVE Queued(y)' = Queued(y) /\ Pending(y)' = Pending(y)
    <2>1. Queued(y)' = Queued(y)
      BY <1>1, <1>3 DEF Queued
    <2>2. Pending(y)' = Pending(y)
      BY <1>1, <1>3 DEF Pending
    <2>3. QED
      BY <2>1, <2>2
  <1>4. \A y \in Tasks : Status(y)' = Status(y)
    BY <1>1, <1>2, <1>3, StatusUnchanged
  <1>5. (pc'[Main] = "done") = (pc[Main] = "done")
    BY <1>1 DEF Threads
  <1>6. QED
    BY <1>1, <1>4, <1>5 DEF Contract!vars

(* A submission that passes the check of the flag is accepted. *)
LEMMA ChecksSubmits ==
  ASSUME IInv, NEW u \in Threads, SubmitCheck(u), ~isShutdownRequested
  PROVE  Contract!Next
  <1>1. /\ pc[u] = "check" /\ pc'[u] = "push" /\ \A t \in Threads \ {u} : pc'[t] = pc[t]
        /\ UNCHANGED <<workerQueues, currentTask, started, isShutdownRequested, nextQueueAssignmentIndex>>
    BY DEF SubmitCheck, Goto, tasks, pool, IInv, TypeOK
  <1>2. PICK x \in Tasks : /\ x = Argument(u) /\ ~Pushed(x)
                           /\ \A v \in Threads \ {u} : pc[v] \in {"check", "push"} => Argument(v) # x
    BY <1>1, ArgumentIsNew
  <1>3. /\ x \notin started /\ ~Queued(x) /\ \A w \in Workers : currentTask[w] # x
    BY <1>2, WorkStealingAssumption DEF IInv, Once, Queued
  <1>4. \A t \in Threads : Argument(t)' = Argument(t)
    BY <1>1 DEF Argument
  <1>5. ~Pending(x) /\ Pending(x)'
    BY <1>1, <1>2, <1>4 DEF Pending
  <1>6. Status(x) = "new" /\ Status(x)' = "queued"
    BY <1>1, <1>3, <1>5 DEF Status, Pending
  <1>7. ASSUME NEW y \in Tasks, y # x PROVE Status(y)' = Status(y)
    <2>1. Queued(y)' = Queued(y)
      BY <1>1 DEF Queued
    <2>2. Pending(y)' = Pending(y)
      BY <1>1, <1>2, <1>4, <1>7 DEF Pending
    <2>3. QED
      BY <1>1, <2>1, <2>2, StatusUnchanged
  <1>8. pc[Main] # "done" /\ pc'[Main] # "done"
    BY <1>1 DEF IInv, Control, Threads
  <1>9. Contract!Submit(x)
    BY <1>1, <1>6, <1>7, <1>8, OneBecomes DEF Contract!Submit
  <1>10. QED
    BY <1>9 DEF Contract!Next

(* Every step is a step of TaskPool, or changes nothing it can see. *)
LEMMA StepRefines == IInv /\ [Next]_vars => [Contract!Next]_(Contract!vars)
  <1> SUFFICES ASSUME IInv, [Next]_vars PROVE [Contract!Next]_(Contract!vars)
    OBVIOUS
  <1> USE WorkStealingAssumption DEF Threads
  <1>1. ASSUME NEW w \in Workers, PopFromHead(w) PROVE [Contract!Next]_(Contract!vars)
    <2>1. CASE \E x \in Tasks : Takes(w, w, x)
      BY <2>1, TakesStarts
    <2>2. CASE pc[w] = "pop" /\ pc' = [pc EXCEPT ![w] = "size"] /\ UNCHANGED <<tasks, pool>>
      <3>1. \A t \in Threads : (pc'[t] = "push" <=> pc[t] = "push") /\ (pc'[t] = "done" <=> pc[t] = "done")
        BY <2>2 DEF IInv, TypeOK
      <3>2. QED
        BY <2>2, <3>1, Stutters DEF tasks, pool
    <2>3. QED
      BY <1>1, <2>1, <2>2, PopTakes
  <1>2. ASSUME NEW w \in Workers, StealFromTail(w) PROVE [Contract!Next]_(Contract!vars)
    <2>1. CASE \E v \in Workers, x \in Tasks : Takes(w, v, x)
      BY <2>1, TakesStarts
    <2>2. CASE pc[w] = "steal" /\ pc' = [pc EXCEPT ![w] = "steal"] /\ UNCHANGED <<tasks, pool>>
      <3>1. \A t \in Threads : (pc'[t] = "push" <=> pc[t] = "push") /\ (pc'[t] = "done" <=> pc[t] = "done")
        BY <2>2 DEF IInv, TypeOK
      <3>2. QED
        BY <2>2, <3>1, Stutters DEF tasks, pool
    <2>3. QED
      BY <1>2, <2>1, <2>2, StealTakes
  <1>3. ASSUME NEW w \in Workers, PushToOwnHead(w) PROVE UNCHANGED Contract!vars
    BY <1>3, OwnHeadPuts, PutsStutters
  <1>4. ASSUME PushRoundRobin PROVE UNCHANGED Contract!vars
    BY <1>4, RoundRobinPuts, PutsStutters
  <1>5. ASSUME NEW t \in Threads, SubmitCheck(t) PROVE [Contract!Next]_(Contract!vars)
    <2>1. CASE ~isShutdownRequested
      BY <1>5, <2>1, ChecksSubmits
    <2>2. CASE isShutdownRequested
      <3>1. \A u \in Threads : (pc'[u] = "push" <=> pc[u] = "push") /\ (pc'[u] = "done" <=> pc[u] = "done")
        BY <1>5, <2>2 DEF SubmitCheck, Goto, IInv, TypeOK
      <3>2. QED
        BY <1>5, <3>1, Stutters DEF SubmitCheck, tasks, pool
    <2>3. QED
      BY <2>1, <2>2
  <1>6. ASSUME NEW w \in Workers, TaskReturns(w) PROVE Contract!Next
    <2>1. /\ pc[w] = "run" /\ pc' = [pc EXCEPT ![w] = "loop"] /\ w \in Threads /\ w # Main
          /\ currentTask' = [currentTask EXCEPT ![w] = NoTask]
          /\ UNCHANGED <<workerQueues, started, isShutdownRequested, nextQueueAssignmentIndex>>
          /\ pc \in [Threads -> PCs] /\ currentTask \in [Workers -> Tasks \cup {NoTask}]
      BY <1>6 DEF TaskReturns, Goto, pool, IInv, TypeOK
    <2>2. PICK x \in Tasks : x = currentTask[w] /\ x \in started /\ x # NoTask
      BY <2>1 DEF IInv, Control, Once
    <2>3. \A v \in Workers : v # w => currentTask[v] # x
      BY <2>2 DEF IInv, Once
    <2>4. \A v \in Workers : currentTask'[v] = IF v = w THEN NoTask ELSE currentTask[v]
      BY <2>1
    <2>5. Status(x) = "running" /\ Status(x)' = "done"
      BY <2>1, <2>2, <2>3, <2>4 DEF Status
    <2>6. ASSUME NEW y \in Tasks, y # x PROVE Status(y)' = Status(y)
      <3>1. Queued(y)' = Queued(y)
        BY <2>1 DEF Queued
      <3>2. \A u \in Threads : pc'[u] = "push" <=> pc[u] = "push"
        BY <2>1
      <3>3. \A u \in Threads : pc[u] = "push" => Argument(u)' = Argument(u)
        BY <2>1, <2>4 DEF Argument
      <3>4. Pending(y)' = Pending(y)
        BY <3>2, <3>3 DEF Pending
      <3>5. (\E v \in Workers : currentTask'[v] = y) = (\E v \in Workers : currentTask[v] = y)
        BY <2>2, <2>4, <2>6
      <3>6. QED
        BY <2>1, <3>1, <3>4, <3>5 DEF Status, Pending
    <2>7. pc[Main] # "done" /\ pc'[Main] = pc[Main]
      BY <2>1 DEF IInv, Control
    <2>8. Contract!Finish(x)
      BY <2>1, <2>5, <2>6, <2>7, OneBecomes DEF Contract!Finish
    <2>9. QED
      BY <2>8 DEF Contract!Next
  <1>7. ASSUME NEW w \in Workers, LoopTest(w) \/ ReadsSize(w) \/ Yields(w) \/ SpawnWorker(w)
        PROVE  UNCHANGED Contract!vars
    <2>1. \A u \in Threads : (pc'[u] = "push" <=> pc[u] = "push") /\ (pc'[u] = "done" <=> pc[u] = "done")
      BY <1>7 DEF LoopTest, ReadsSize, Yields, SpawnWorker, Goto, IInv, TypeOK
    <2>2. QED
      BY <1>7, <2>1, Stutters DEF LoopTest, ReadsSize, Yields, SpawnWorker, tasks, pool
  <1>8. ASSUME PoolBuilt PROVE UNCHANGED Contract!vars
    <2>1. \A u \in Threads : (pc'[u] = "push" <=> pc[u] = "push") /\ (pc'[u] = "done" <=> pc[u] = "done")
      BY <1>8 DEF PoolBuilt, Submission, Goto, IInv, TypeOK
    <2>2. QED
      BY <1>8, <2>1, Stutters DEF PoolBuilt, tasks, pool
  <1>9. ASSUME UNCHANGED vars PROVE UNCHANGED Contract!vars
    BY <1>9, Stutters DEF vars, tasks, pool
  <1>10. ASSUME DestructorSetsFlag \/ DestructorReturns
         PROVE  /\ \A t \in Tasks : Status(t)' = Status(t)
                /\ pc[Main] \in {"sleep", "join"} /\ \A u \in Threads \ {Main} : pc'[u] = pc[u]
    <2>1. /\ UNCHANGED <<workerQueues, currentTask, started, nextQueueAssignmentIndex>>
          /\ pc[Main] \in {"sleep", "join"} /\ pc'[Main] \in {"join", "done"}
          /\ \A u \in Threads \ {Main} : pc'[u] = pc[u]
      BY <1>10 DEF DestructorSetsFlag, DestructorReturns, Goto, tasks, pool, IInv, TypeOK
    <2>2. \A u \in Threads : (pc'[u] = "push" <=> pc[u] = "push") /\ Argument(u)' = Argument(u)
      BY <2>1 DEF Argument
    <2>3. ASSUME NEW t \in Tasks PROVE Status(t)' = Status(t)
      <3>1. Queued(t)' = Queued(t)
        BY <2>1 DEF Queued
      <3>2. Pending(t)' = Pending(t)
        BY <2>2 DEF Pending
      <3>3. QED
        BY <2>1, <3>1, <3>2, StatusUnchanged
    <2>4. QED
      BY <2>1, <2>3
  <1>11. ASSUME DestructorSetsFlag PROVE Contract!Next
    <2>1. pc[Main] = "sleep" /\ pc'[Main] = "join" /\ ~isShutdownRequested /\ isShutdownRequested'
      BY <1>11 DEF DestructorSetsFlag, Goto, IInv, TypeOK, Control
    <2>2. Contract!Close
      BY <1>10, <1>11, <2>1 DEF Contract!Close
    <2>3. QED
      BY <2>2 DEF Contract!Next
  <1>12. ASSUME DestructorReturns PROVE Contract!Next
    <2>1. /\ pc[Main] = "join" /\ pc'[Main] = "done" /\ isShutdownRequested
          /\ isShutdownRequested' = isShutdownRequested
          /\ \A w \in Workers : currentTask[w] = NoTask
      BY <1>12 DEF DestructorReturns, AllJoined, Goto, pool, IInv, TypeOK, Control
    <2>2. \A t \in Tasks : Status(t) # "running"
      BY <2>1 DEF Status
    <2>3. Contract!Join
      BY <1>10, <1>12, <2>1, <2>2 DEF Contract!Join
    <2>4. QED
      BY <2>3 DEF Contract!Next
  <1>13. QED
    BY <1>1, <1>2, <1>3, <1>4, <1>5, <1>6, <1>7, <1>8, <1>9, <1>11, <1>12 DEF Next, WorkerStep, MainStep, Ended

(* The pool keeps the executor's contract, step by step: each task is run once, by one
   worker, none disappears before the shutdown, none runs after the destructor. *)
THEOREM Implements == Spec => ImplementsTaskPool
  <1>1. Init => Contract!Init
    <2> SUFFICES ASSUME Init PROVE Contract!Init
      OBVIOUS
    <2>1. /\ \A w \in Workers : currentTask[w] = NoTask /\ ToSet(workerQueues[w]) = {}
          /\ \A t \in Threads : pc[t] # "push"
      BY DEF Init, ToSet
    <2>2. \A t \in Tasks : Status(t) = "new"
      <3>1. \A t \in Tasks : ~Queued(t) /\ ~Pending(t)
        BY <2>1 DEF Queued, Pending
      <3>2. QED
        BY <2>1, <3>1, WorkStealingAssumption DEF Init, Status, Pending
    <2>3. pc[Main] # "done" /\ ~isShutdownRequested
      BY DEF Init, Threads
    <2>4. QED
      BY <2>2, <2>3 DEF Contract!Init
  <1>2. QED
    BY <1>1, StepRefines, Invariance, PTL DEF Spec, ImplementsTaskPool, Contract!Spec

-----------------------------------------------------------------------------
(* Part 2: ranges for the threads of a loop *)

\* The elements are Lowest..Limit-1; of them only the primes are kept in one exercise.
Lowest == IF exercise.name \in {"parallel_sum", "fake_image_processing",
                                "parallel_matrix_multiplication"} THEN 0 ELSE 1
Limit  == IF Dynamic THEN exercise.size ELSE Lowest + exercise.size
Wanted(x) == Dynamic => isPrime(x)

\* The next range that is handed out starts here.
Frontier == IF Dynamic THEN currentIndex ELSE IF launched = 0 THEN Lowest ELSE startRow

\* Where the range of thread i starts, and that of thread i-1 stops.
Boundary(i) ==
  CASE exercise.name = "parallel_matrix_multiplication"
         -> i * elementsPerThread + IF i < remainingRows THEN i ELSE remainingRows
    [] exercise.name = "multiple_async_tasks" -> 1 + i
    [] OTHER -> Lowest + IF i = exercise.threads THEN exercise.size ELSE i * elementsPerThread

Stages == {"unborn", "reserve", "work", "finished", "merge", "joined"}

ForkTypes ==
  /\ exercise \in Exercises /\ launched \in 0..exercise.threads
  /\ startRow \in Int /\ currentIndex \in Nat \ {0}
  /\ stage \in [ForkedThreads -> Stages]
  /\ next \in [ForkedThreads -> Int] /\ end \in [ForkedThreads -> Int]
  /\ done \in [ForkedThreads -> Seq(Int)]

\* How far the launching loop and the threads are.
Progress ==
  /\ Lowest <= Frontier /\ (launched = 0 => startRow = 0)
  /\ ~Dynamic => Frontier = Boundary(launched)
  /\ \A i \in ForkedThreads : stage[i] # "unborn" => i < launched
  /\ \A i \in ForkedThreads : stage[i] = "unborn" => next[i] = 0 /\ end[i] = 0 /\ done[i] = <<>>
  /\ \A i \in ForkedThreads : stage[i] # "work" => next[i] >= end[i]
  /\ \A i \in ForkedThreads : Dynamic /\ stage[i] \in {"merge", "joined"} => currentIndex >= exercise.size

\* Only a thread that reserves chunks comes back for more, and merges.
Reserving ==
  \A i \in ForkedThreads : /\ stage[i] \in {"reserve", "merge"} => Dynamic
                           /\ stage[i] = "finished" => ~Dynamic

\* A thread deals with the elements of its range one after the other.
InTurn ==
  \A i \in ForkedThreads :
    /\ \A n \in 1..Len(done[i]) : done[i][n] < next[i] /\ Wanted(done[i][n])
    /\ \A m, n \in 1..Len(done[i]) : done[i][m] = done[i][n] => m = n

\* What the threads have dealt with, or still have to, are elements before the frontier, and
\* all of those that are wanted.
Within == \A i \in ForkedThreads : \A x \in Share(i) : Lowest <= x /\ x < Frontier /\ x < Limit

Covered == \A x \in Int : Lowest <= x /\ x < Frontier /\ x < Limit /\ Wanted(x) =>
                            \E i \in ForkedThreads : x \in Share(i)

ForkInv == ForkTypes /\ Progress /\ Reserving /\ InTurn /\ Within /\ Covered /\ SharesDisjoint

\* Every element is dealt with once, by one thread, and nothing else is.
EachElementOnce ==
  Collected =>
    /\ \A x \in Int : Lowest <= x /\ x < Limit /\ Wanted(x) =>
         \E i \in ForkedThreads : \E n \in 1..Len(done[i]) :
           /\ done[i][n] = x
           /\ \A j \in ForkedThreads : \A m \in 1..Len(done[j]) : done[j][m] = x => j = i /\ m = n
    /\ \A i \in ForkedThreads : \A n \in 1..Len(done[i]) :
         Lowest <= done[i][n] /\ done[i][n] < Limit /\ Wanted(done[i][n])

\* A fixed range is dealt with from its start on.
FromTheStart ==
  \A i \in ForkedThreads : ~Dynamic /\ i < launched =>
    /\ end[i] = Boundary(i+1) /\ next[i] <= end[i] /\ next[i] = Boundary(i) + Len(done[i])
    /\ \A n \in 1..Len(done[i]) : done[i][n] = Boundary(i) + n - 1

\* The results of the first j threads are there, and the others have been joined at once,
\* because there is nothing left for them.
InOrder ==
  ~Dynamic => \E j \in 0..exercise.threads :
    /\ result = [k \in 1..Boundary(j) - Lowest |-> Value(Lowest + k - 1)]
    /\ \A i \in ForkedThreads :
         /\ i < j => stage[i] = "joined"
         /\ i >= j /\ stage[i] = "joined" =>
              \A k \in 0..exercise.threads : k >= i => Boundary(k) = Limit

\* The chunks have been merged without their order, each once.
Gathered ==
  Dynamic =>
    /\ result \in Seq(Int)
    /\ \A n \in 1..Len(result) :
         \E i \in ForkedThreads : stage[i] = "joined" /\ result[n] \in ToSet(done[i])
    /\ \A i \in ForkedThreads : stage[i] = "joined" =>
         \A x \in ToSet(done[i]) : \E n \in 1..Len(result) : result[n] = x
    /\ \A m, n \in 1..Len(result) : result[m] = result[n] => m = n

ResultInv == ForkInv /\ FromTheStart /\ InOrder /\ Gathered

\* What the threads computed is put together as one thread alone would do it; of the primes
\* each is there once, in some order.
EachResultOnce ==
  Collected =>
    IF Dynamic THEN /\ \A x \in Int : Lowest <= x /\ x < Limit /\ isPrime(x) <=>
                                      \E n \in 1..Len(result) : result[n] = x
                    /\ \A m, n \in 1..Len(result) : result[m] = result[n] => m = n
    ELSE result = [k \in 1..exercise.size |-> Value(Lowest + k - 1)]

-----------------------------------------------------------------------------
(* Dividing n by t leaves less than t. *)
LEMMA Division ==
  ASSUME NEW n \in Nat, NEW t \in Nat \ {0}
  PROVE  n \div t \in Nat /\ n % t \in 0..t-1 /\ n = t * (n \div t) + (n % t)
  OBVIOUS

LEMMA Multiples ==
  ASSUME NEW k \in Nat, NEW e \in Nat
  PROVE  /\ (k+1) * e = k * e + e /\ k * e \in Nat
         /\ \A t \in Nat : k <= t => k * e <= t * e
  OBVIOUS

(* What is assumed of the exercise that runs. *)
LEMMA ExerciseType ==
  ASSUME exercise \in Exercises
  PROVE  /\ exercise.size \in Nat /\ exercise.threads \in Nat \ {0} /\ chunkSize \in Nat \ {0}
         /\ elementsPerThread \in Nat /\ remainingRows \in 0..exercise.threads - 1
         /\ exercise.size = exercise.threads * elementsPerThread + remainingRows
         /\ exercise.name \in {"parallel_sum", "fake_image_processing", "parallel_image_filter",
                               "parallel_matrix_multiplication", "multiple_async_tasks",
                               "parallel_prime_number_finder"}
         /\ exercise.name = "multiple_async_tasks" => exercise.threads = exercise.size
         /\ Lowest \in 0..1 /\ Limit \in Nat
  <1>1. exercise.size \in Nat /\ exercise.threads \in Nat \ {0} /\ chunkSize \in Nat \ {0}
    BY ForkJoinAssumption
  <1>2. Lowest \in 0..1
    BY DEF Lowest
  <1>3. Limit \in Nat
    BY <1>1, <1>2 DEF Limit
  <1>4. QED
    BY <1>1, <1>2, <1>3, Division, ForkJoinAssumption DEF elementsPerThread, remainingRows

(* Each fixed range stops where the next one starts, the last one at the end. *)
LEMMA Boundaries ==
  ASSUME exercise \in Exercises, ~Dynamic
  PROVE  /\ Boundary(0) = Lowest /\ Boundary(exercise.threads) = Limit
         /\ \A i \in ForkedThreads :
              /\ Boundary(i) \in Int /\ Boundary(i+1) \in Int
              /\ Boundary(i) <= Boundary(i+1) /\ Boundary(i+1) <= Limit
         /\ \A i \in ForkedThreads : (IF i = 0 THEN startRow = 0 ELSE startRow = Boundary(i)) =>
              FixedRange(i).start = Boundary(i) /\ FixedRange(i).stop = Boundary(i+1)
  <1> DEFINE e == elementsPerThread
             t == exercise.threads
             r == remainingRows
  <1>1. /\ exercise.size \in Nat /\ t \in Nat \ {0} /\ e \in Nat /\ r \in 0..t-1
        /\ exercise.size = t * e + r /\ Lowest \in 0..1 /\ Limit = Lowest + exercise.size
        /\ t * e \in Nat /\ 0 * e = 0
    BY ExerciseType, Multiples DEF Limit
  <1>2. \A i \in ForkedThreads : /\ i \in Nat /\ i + 1 \in Nat /\ i < t /\ i * e \in Nat
                                 /\ (i+1) * e = i * e + e /\ (i+1) * e <= t * e /\ i # t
    <2> SUFFICES ASSUME NEW i \in ForkedThreads
                 PROVE  /\ i \in Nat /\ i + 1 \in Nat /\ i < t /\ i * e \in Nat
                        /\ (i+1) * e = i * e + e /\ (i+1) * e <= t * e /\ i # t
      OBVIOUS
    <2>1. i \in Nat /\ i + 1 \in Nat /\ i < t /\ i + 1 <= t /\ i # t
      BY <1>1 DEF ForkedThreads
    <2>2. (i+1) * e = i * e + e /\ i * e \in Nat
      BY <2>1, <1>1, Multiples
    <2>3. (i+1) * e <= t * e
      BY <2>1, <1>1, Multiples
    <2>4. QED
      BY <2>1, <2>2, <2>3
  <1>3. CASE exercise.name = "parallel_matrix_multiplication"
    <2>1. /\ Lowest = 0
          /\ \A i : Boundary(i) = i * e + IF i < r THEN i ELSE r
          /\ \A i : FixedRange(i) = Slice(startRow, startRow + e + IF i < r THEN 1 ELSE 0)
      BY <1>3 DEF Lowest, Boundary, FixedRange, MatrixRows
    <2>2. QED
      <3> HIDE DEF e, t, r
      <3>1. Boundary(0) = Lowest /\ Boundary(t) = Limit
        BY <1>1, <2>1
      <3>2. ASSUME NEW i \in ForkedThreads
            PROVE  /\ Boundary(i) \in Int /\ Boundary(i+1) \in Int
                   /\ Boundary(i) <= Boundary(i+1) /\ Boundary(i+1) <= Limit
                   /\ (IF i = 0 THEN startRow = 0 ELSE startRow = Boundary(i)) =>
                        FixedRange(i).start = Boundary(i) /\ FixedRange(i).stop = Boundary(i+1)
        <4>1. /\ i \in Nat /\ i < t /\ i * e \in Nat /\ (i+1) * e = i * e + e /\ (i+1) * e <= t * e
          BY <1>2
        <4>2. Boundary(i) \in Int /\ Boundary(i+1) = Boundary(i) + e + (IF i < r THEN 1 ELSE 0)
          BY <4>1, <1>1, <2>1
        <4>3. Boundary(i+1) <= Limit
          BY <4>1, <1>1, <2>1
        <4>4. i = 0 => Boundary(i) = 0
          BY <3>1, <2>1
        <4>5. FixedRange(i).start = startRow /\ FixedRange(i).stop = startRow + e + (IF i < r THEN 1 ELSE 0)
          BY <2>1 DEF Slice
        <4>6. QED
          BY <4>2, <4>3, <4>4, <4>5, <1>1
      <3>3. QED
        BY <3>1, <3>2 DEF t
  <1>4. CASE exercise.name = "multiple_async_tasks"
    <2>1. /\ Lowest = 1 /\ t = exercise.size
          /\ \A i : Boundary(i) = 1 + i
          /\ \A i : FixedRange(i) = Slice(i + 1, i + 2)
      BY <1>4, ExerciseType DEF Lowest, Boundary, FixedRange, AsyncTask
    <2>2. QED
      BY <1>1, <1>2, <2>1 DEF Slice
  <1>5. CASE exercise.name \in {"parallel_sum", "fake_image_processing", "parallel_image_filter"}
    <2>1. /\ \A i : Boundary(i) = Lowest + IF i = t THEN exercise.size ELSE i * e
          /\ \A i \in ForkedThreads : FixedRange(i) = Slice(Lowest + i * e,
                                 IF last(i) THEN Lowest + exercise.size ELSE Lowest + (i+1) * e)
      <3>1. \A i : Boundary(i) = Lowest + IF i = t THEN exercise.size ELSE i * e
        BY <1>5 DEF Boundary
      <3>2. \A i : exercise.name # "parallel_image_filter" =>
              Lowest = 0 /\ FixedRange(i) = Slice(i * e, IF last(i) THEN exercise.size ELSE (i+1) * e)
        BY <1>5 DEF FixedRange, ParallelSum, FakeImages, Lowest
      <3>3. \A i : exercise.name = "parallel_image_filter" =>
              /\ Lowest = 1
              /\ FixedRange(i) = Slice(1 + i * e, IF last(i) THEN exercise.size + 1 ELSE 1 + (i+1) * e)
        BY DEF FixedRange, BlurRows, Lowest
      <3>4. QED
        <4>1. \A i \in ForkedThreads : FixedRange(i) = Slice(Lowest + i * e,
                               IF last(i) THEN Lowest + exercise.size ELSE Lowest + (i+1) * e)
          <5> SUFFICES ASSUME NEW i \in ForkedThreads
                       PROVE  FixedRange(i) = Slice(Lowest + i * e,
                               IF last(i) THEN Lowest + exercise.size ELSE Lowest + (i+1) * e)
            OBVIOUS
          <5>1. i * e \in Nat /\ (i+1) * e \in Nat
            BY <1>2, Multiples, <1>1
          <5>2. CASE exercise.name # "parallel_image_filter"
            BY <5>1, <5>2, <3>2, <1>1
          <5>3. CASE exercise.name = "parallel_image_filter"
            BY <5>1, <5>3, <3>3, <1>1
          <5>4. QED
            BY <5>2, <5>3
        <4>2. QED
          BY <3>1, <4>1
    <2>2. QED
      <3>1. \A i \in ForkedThreads : last(i) <=> i + 1 = t
        BY <1>1, <1>2 DEF last
      <3> HIDE DEF e, t, r
      <3>2. Boundary(0) = Lowest /\ Boundary(t) = Limit
        BY <1>1, <2>1
      <3>3. ASSUME NEW i \in ForkedThreads
            PROVE  /\ Boundary(i) \in Int /\ Boundary(i+1) \in Int
                   /\ Boundary(i) <= Boundary(i+1) /\ Boundary(i+1) <= Limit
                   /\ FixedRange(i).start = Boundary(i) /\ FixedRange(i).stop = Boundary(i+1)
        <4>1. /\ i \in Nat /\ i < t /\ i # t /\ i * e \in Nat
              /\ (i+1) * e = i * e + e /\ (i+1) * e <= t * e
          BY <1>2
        <4>2. Boundary(i) = Lowest + i * e
          BY <4>1, <2>1
        <4>3. Boundary(i+1) = Lowest + IF i + 1 = t THEN exercise.size ELSE i * e + e
          BY <4>1, <2>1
        <4>4. /\ FixedRange(i).start = Lowest + i * e
              /\ FixedRange(i).stop = IF i + 1 = t THEN Lowest + exercise.size ELSE Lowest + (i * e + e)
          BY <4>1, <2>1, <3>1 DEF Slice
        <4>5. exercise.size >= i * e + e
          BY <4>1, <1>1
        <4>6. QED
          BY <4>1, <4>2, <4>3, <4>4, <4>5, <1>1
      <3>4. QED
        BY <3>2, <3>3 DEF t
  <1>6. QED
    BY <1>3, <1>4, <1>5, ExerciseType DEF Dynamic

(* What a sequence holds after one more element. *)
LEMMA ToSetOf ==
  ASSUME NEW s \in Seq(Int)
  PROVE  /\ ToSet(s) = {s[n] : n \in 1..Len(s)}
         /\ \A x \in Int : ToSet(Append(s, x)) = ToSet(s) \cup {x}
  <1>1. ToSet(s) = {s[n] : n \in 1..Len(s)}
    BY DEF ToSet
  <1>2. ASSUME NEW x \in Int  PROVE  ToSet(Append(s, x)) = ToSet(s) \cup {x}
    <2> DEFINE u == Append(s, x)
    <2>1. u \in Seq(Int) /\ Len(u) = Len(s) + 1 /\ u[Len(s) + 1] = x
          /\ Len(s) \in Nat /\ \A n \in 1..Len(s) : u[n] = s[n]
      OBVIOUS
    <2>2. ToSet(u) = {u[n] : n \in 1..Len(u)}
      BY <2>1 DEF ToSet
    <2> HIDE DEF u
    <2>3. QED
      BY <2>1, <2>2, <1>1 DEF u
  <1>3. QED
    BY <1>1, <1>2

(* What does not depend on how far the program is. *)
LEMMA SameExercise ==
  ASSUME exercise' = exercise
  PROVE  /\ Lowest' = Lowest /\ Limit' = Limit /\ Dynamic' = Dynamic
         /\ ForkedThreads' = ForkedThreads
         /\ \A x : Wanted(x)' = Wanted(x) /\ Boundary(x)' = Boundary(x)
  BY DEF Lowest, Limit, Dynamic, ForkedThreads, Wanted, Boundary, elementsPerThread, remainingRows

LEMMA ShareOf ==
  ASSUME ForkTypes, NEW i \in ForkedThreads
  PROVE  /\ \A x \in Share(i) : x \in Int
         /\ \A x \in Int : x \in Share(i) <=> (next[i] <= x /\ x < end[i])
                                            \/ (\E n \in 1..Len(done[i]) : done[i][n] = x)
  <1>1. next[i] \in Int /\ end[i] \in Int /\ done[i] \in Seq(Int)
    BY DEF ForkTypes
  <1>2. ToSet(done[i]) = {done[i][n] : n \in 1..Len(done[i])}
    BY <1>1, ToSetOf
  <1>3. \A n \in 1..Len(done[i]) : done[i][n] \in Int
    BY <1>1
  <1>4. QED
    BY <1>1, <1>2, <1>3 DEF Share

(* One thread alone may lose elements that nobody wants, and is given those between the
   frontier and the new one, which nobody has: S and T are the shares before and after. *)
LEMMA Advances ==
  ASSUME NEW P, NEW i \in P, NEW S \in [P -> SUBSET Int], NEW T \in [P -> SUBSET Int],
         NEW W, NEW lo \in Int, NEW lim \in Int, NEW f \in Int, NEW g \in Int,
         lo <= f, f <= g,
         \A j \in P : \A x \in S[j] : lo <= x /\ x < f /\ x < lim,
         \A x \in Int : lo <= x /\ x < f /\ x < lim /\ x \in W => \E j \in P : x \in S[j],
         \A j, k \in P : j # k => S[j] \cap S[k] = {},
         \A j \in P : j # i => T[j] = S[j],
         \A x \in Int : x \in T[i] => x \in S[i] \/ (f <= x /\ x < g /\ x < lim),
         \A x \in Int : (x \in S[i] \/ (f <= x /\ x < g /\ x < lim)) /\ x \in W => x \in T[i]
  PROVE  /\ \A j \in P : \A x \in T[j] : lo <= x /\ x < g /\ x < lim
         /\ \A x \in Int : lo <= x /\ x < g /\ x < lim /\ x \in W => \E j \in P : x \in T[j]
         /\ \A j, k \in P : j # k => T[j] \cap T[k] = {}
  <1>1. ASSUME NEW j \in P, NEW x \in T[j]  PROVE  lo <= x /\ x < g /\ x < lim
    <2>1. x \in Int
      OBVIOUS
    <2>2. CASE x \in S[j]
      BY <2>1, <2>2
    <2>3. CASE x \notin S[j]
      BY <2>1, <2>3
    <2>4. QED
      BY <2>2, <2>3
  <1>2. ASSUME NEW x \in Int, lo <= x, x < g, x < lim, x \in W
        PROVE  \E j \in P : x \in T[j]
    <2>1. CASE x < f
      <3>1. PICK j \in P : x \in S[j]
        BY <1>2, <2>1
      <3>2. x \in T[j]
        BY <1>2, <3>1
      <3>3. QED
        BY <3>2
    <2>2. CASE f <= x
      BY <1>2, <2>2
    <2>3. QED
      BY <2>1, <2>2
  <1>3. ASSUME NEW j \in P, NEW k \in P, j # k, NEW x \in T[j], x \in T[k]
        PROVE  FALSE
    <2>1. x \in Int
      OBVIOUS
    <2>2. \A h, l \in P : h # l /\ x \in S[h] => x \notin S[l]
      OBVIOUS
    <2>3. \A l \in P : l # i /\ x \in T[l] => x \notin T[i]
      <3> SUFFICES ASSUME NEW l \in P, l # i, x \in T[l]  PROVE  x \notin T[i]
        OBVIOUS
      <3>1. x \in S[l] /\ x < f
        OBVIOUS
      <3>2. x \notin S[i]
        BY <2>2, <3>1
      <3>3. QED
        BY <2>1, <3>1, <3>2
    <2>4. CASE j = i \/ k = i
      BY <2>3, <2>4, <1>3
    <2>5. CASE j # i /\ k # i
      BY <2>2, <2>5, <1>3
    <2>6. QED
      BY <2>4, <2>5
  <1>4. QED
    BY <1>1, <1>2, <1>3

LEMMA ShareSteps ==
  ASSUME ForkTypes, Within, Covered, SharesDisjoint, ForkTypes', exercise' = exercise,
         NEW i \in ForkedThreads, NEW f \in Int, NEW g \in Int, f = Frontier, g = Frontier',
         Lowest <= f, f <= g,
         \A j \in ForkedThreads :
           j # i => next'[j] = next[j] /\ end'[j] = end[j] /\ done'[j] = done[j],
         \A x \in Int : x \in ToSet(done'[i]) \/ (next'[i] <= x /\ x < end'[i])
           => x \in Share(i) \/ (f <= x /\ x < g /\ x < Limit),
         \A x \in Int : (x \in Share(i) \/ (f <= x /\ x < g /\ x < Limit)) /\ Wanted(x)
           => x \in ToSet(done'[i]) \/ (next'[i] <= x /\ x < end'[i])
  PROVE  Within' /\ Covered' /\ SharesDisjoint'
  <1>1. /\ Lowest' = Lowest /\ Limit' = Limit /\ ForkedThreads' = ForkedThreads
        /\ \A x : Wanted(x)' = Wanted(x)
    BY SameExercise
  <1>2. Lowest \in Int /\ Limit \in Int
    BY ExerciseType DEF ForkTypes
  <1>3. PICK P : P = ForkedThreads
    OBVIOUS
  <1>4. PICK S : S = [j \in P |-> Share(j)]
    OBVIOUS
  <1>5. PICK T : T = [j \in P |-> ToSet(done'[j]) \cup next'[j]..end'[j]-1]
    OBVIOUS
  <1>6. PICK W : W = {x \in Int : Wanted(x)}
    OBVIOUS
  <1>7. S \in [P -> SUBSET Int]
    BY <1>3, <1>4, ShareOf
  <1>8. \A j \in P : /\ next'[j] \in Int /\ end'[j] \in Int /\ done'[j] \in Seq(Int)
                     /\ T[j] \in SUBSET Int
                     /\ \A x \in Int : x \in T[j] <=> x \in ToSet(done'[j])
                                                    \/ (next'[j] <= x /\ x < end'[j])
    <2> SUFFICES ASSUME NEW j \in P
                 PROVE  /\ next'[j] \in Int /\ end'[j] \in Int /\ done'[j] \in Seq(Int)
                        /\ T[j] \in SUBSET Int
                        /\ \A x \in Int : x \in T[j] <=> x \in ToSet(done'[j])
                                                        \/ (next'[j] <= x /\ x < end'[j])
      OBVIOUS
    <2>1. next'[j] \in Int /\ end'[j] \in Int /\ done'[j] \in Seq(Int)
      BY <1>1, <1>3 DEF ForkTypes
    <2>2. ToSet(done'[j]) \in SUBSET Int
      <3>1. ToSet(done'[j]) = {done'[j][n] : n \in 1..Len(done'[j])}
        BY <2>1, ToSetOf
      <3>2. QED
        BY <3>1, <2>1
    <2>3. QED
      BY <2>1, <2>2, <1>5
  <1>9. T \in [P -> SUBSET Int] /\ i \in P
    BY <1>3, <1>5, <1>8
  <1>10. \A j \in P : j # i => T[j] = S[j]
    BY <1>3, <1>4, <1>5 DEF Share
  <1>11. /\ \A j \in P : \A x \in T[j] : Lowest <= x /\ x < g /\ x < Limit
         /\ \A x \in Int : Lowest <= x /\ x < g /\ x < Limit /\ x \in W => \E j \in P : x \in T[j]
         /\ \A j, k \in P : j # k => T[j] \cap T[k] = {}
    <2>1. \A j \in P : \A x \in S[j] : Lowest <= x /\ x < f /\ x < Limit
      BY <1>3, <1>4 DEF Within
    <2>2. \A x \in Int : Lowest <= x /\ x < f /\ x < Limit /\ x \in W => \E j \in P : x \in S[j]
      BY <1>3, <1>4, <1>6 DEF Covered
    <2>3. \A j, k \in P : j # k => S[j] \cap S[k] = {}
      BY <1>3, <1>4 DEF SharesDisjoint
    <2>4. \A x \in Int : x \in T[i] => x \in S[i] \/ (f <= x /\ x < g /\ x < Limit)
      BY <1>4, <1>8, <1>9
    <2>5. \A x \in Int : (x \in S[i] \/ (f <= x /\ x < g /\ x < Limit)) /\ x \in W => x \in T[i]
      BY <1>4, <1>6, <1>8, <1>9
    <2>6. PICK lo \in Int, lim \in Int : lo = Lowest /\ lim = Limit
      BY <1>2
    <2>7. QED
      BY <1>7, <1>9, <1>10, <2>1, <2>2, <2>3, <2>4, <2>5, <2>6, Advances
  <1>12. \A j \in P : Share(j)' = T[j]
    BY <1>5 DEF Share
  <1>13. Within'
    BY <1>1, <1>3, <1>11, <1>12 DEF Within
  <1>14. Covered'
    BY <1>1, <1>3, <1>6, <1>11, <1>12 DEF Covered
  <1>15. SharesDisjoint'
    BY <1>1, <1>3, <1>11, <1>12 DEF SharesDisjoint
  <1>16. QED
    BY <1>13, <1>14, <1>15

-----------------------------------------------------------------------------
LEMMA ForkInitially == ForkInit => ForkInv
  <1> SUFFICES ASSUME ForkInit  PROVE  ForkInv
    OBVIOUS
  <1>1. /\ exercise.size \in Nat /\ exercise.threads \in Nat \ {0}
        /\ Lowest \in 0..1 /\ Limit \in Nat
    BY ExerciseType DEF ForkInit
  <1>2. ForkTypes
    BY <1>1 DEF ForkInit, ForkTypes, ForkedThreads, Stages
  <1>3. Lowest <= Frontier /\ (Dynamic => Frontier = 1 /\ Lowest = 1) /\ (~Dynamic => Frontier = Lowest)
    <2>1. Lowest <= Lowest
      BY <1>1
    <2>2. QED
      BY <2>1 DEF ForkInit, Frontier, Lowest, Dynamic
  <1>4. Progress
    <2>1. ~Dynamic => Frontier = Boundary(launched)
      BY <1>3, Boundaries DEF ForkInit
    <2>2. QED
      BY <1>3, <2>1 DEF ForkInit, Progress
  <1>5. \A i \in ForkedThreads : Share(i) = {} /\ Len(done[i]) = 0
    <2> SUFFICES ASSUME NEW i \in ForkedThreads  PROVE  Share(i) = {} /\ Len(done[i]) = 0
      OBVIOUS
    <2>1. done[i] = <<>> /\ next[i] = 0 /\ end[i] = 0 /\ Len(done[i]) = 0
      BY DEF ForkInit
    <2>2. \A x \in Int : ~(x \in Share(i))
      BY <1>2, <2>1, ShareOf
    <2>3. QED
      BY <1>2, <2>1, <2>2, ShareOf
  <1>6. InTurn /\ Within /\ SharesDisjoint
    BY <1>5 DEF InTurn, Within, SharesDisjoint
  <1>7. Covered
    BY <1>1, <1>3 DEF Covered
  <1>8. Reserving
    BY DEF ForkInit, Reserving
  <1>9. QED
    BY <1>2, <1>4, <1>6, <1>7, <1>8 DEF ForkInv

(* A step in which no thread's range or results change, and at most the index moves on when
   there is nothing left to hand out. *)
LEMMA SameShares ==
  ASSUME ForkInv, ForkTypes', exercise' = exercise, next' = next, end' = end, done' = done,
         Frontier' \in Int, Frontier <= Frontier',
         Frontier' = Frontier \/ Limit <= Frontier
  PROVE  Within' /\ Covered' /\ SharesDisjoint' /\ InTurn'
  <1>1. Lowest \in Int /\ Limit \in Int /\ 0 \in ForkedThreads /\ exercise \in Exercises
    <2>1. exercise \in Exercises
      BY DEF ForkTypes, ForkInv
    <2>2. QED
      BY <2>1, ExerciseType DEF ForkedThreads
  <1>2. Frontier \in Int /\ Lowest <= Frontier
    <2>1. Frontier \in Int
      BY <1>1 DEF ForkInv, ForkTypes, Frontier
    <2>2. QED
      BY <2>1 DEF ForkInv, Progress
  <1>3. \A x \in Int : x \in Share(0) <=> x \in ToSet(done'[0]) \/ (next'[0] <= x /\ x < end'[0])
    <2>1. next[0] \in Int /\ end[0] \in Int
      BY <1>1 DEF ForkInv, ForkTypes
    <2>2. QED
      BY <2>1 DEF Share
  <1>4. PICK f \in Int, g \in Int : f = Frontier /\ g = Frontier'
    BY <1>2
  <1>5. \A x \in Int : ~(f <= x /\ x < g /\ x < Limit)
    BY <1>1, <1>4
  <1>6. Within' /\ Covered' /\ SharesDisjoint'
    BY <1>1, <1>2, <1>3, <1>4, <1>5, ShareSteps DEF ForkInv
  <1>7. InTurn'
    BY SameExercise DEF ForkInv, InTurn
  <1>8. QED
    BY <1>6, <1>7

LEMMA ForkLaunch ==
  ASSUME ForkInv, LaunchesFixed  PROVE  ForkInv'
  <1>1. PICK i : i = launched
    OBVIOUS
  <1>2. /\ exercise \in Exercises /\ exercise' = exercise /\ ~Dynamic
        /\ exercise.threads \in Nat \ {0} /\ i \in ForkedThreads /\ launched \in Int
        /\ Lowest \in Int /\ Limit \in Int
    <2>1. exercise \in Exercises /\ exercise' = exercise /\ ~Dynamic
      BY DEF ForkInv, ForkTypes, LaunchesFixed
    <2>2. exercise.threads \in Nat \ {0} /\ Lowest \in Int /\ Limit \in Int
      BY <2>1, ExerciseType
    <2>3. launched \in 0..exercise.threads /\ launched < exercise.threads
      BY DEF ForkInv, ForkTypes, LaunchesFixed
    <2>4. QED
      BY <1>1, <2>1, <2>2, <2>3 DEF ForkedThreads
  <1>3. /\ Lowest' = Lowest /\ Limit' = Limit /\ Dynamic' = Dynamic
        /\ ForkedThreads' = ForkedThreads
        /\ \A x : Wanted(x)' = Wanted(x) /\ Boundary(x)' = Boundary(x)
    BY <1>2, SameExercise
  <1>4. PICK f \in Int, g \in Int : f = Boundary(i) /\ g = Boundary(i+1) /\ f <= g /\ g <= Limit
    BY <1>2, Boundaries
  <1>5. Frontier = f /\ Lowest <= f
    BY <1>1, <1>2, <1>4 DEF ForkInv, Progress
  <1>6. FixedRange(i).start = f /\ FixedRange(i).stop = g
    <2>1. IF i = 0 THEN startRow = 0 ELSE startRow = Boundary(i)
      <3>1. CASE i = 0
        BY <3>1, <1>1 DEF ForkInv, Progress
      <3>2. CASE i # 0
        BY <3>2, <1>1, <1>2, <1>4, <1>5 DEF Frontier
      <3>3. QED
        BY <3>1, <3>2
    <2>2. QED
      BY <2>1, <1>2, <1>4, Boundaries
  <1>7. /\ next' = [next EXCEPT ![i] = f] /\ end' = [end EXCEPT ![i] = g] /\ startRow' = g
        /\ launched' = i + 1 /\ currentIndex' = currentIndex /\ done' = done
    BY <1>1, <1>6 DEF LaunchesFixed
  <1>8. PICK s \in {"joined", "work"} :
          /\ stage' = [stage EXCEPT ![i] = s]
          /\ s = "joined" => f >= g
    BY <1>1, <1>6 DEF LaunchesFixed
  <1>9. stage[i] = "unborn" /\ next[i] = 0 /\ end[i] = 0 /\ done[i] = <<>>
    <2>1. stage[i] = "unborn"
      BY <1>1, <1>2 DEF ForkInv, Progress
    <2>2. QED
      BY <2>1, <1>2 DEF ForkInv, Progress
  <1>10. /\ stage \in [ForkedThreads -> Stages] /\ next \in [ForkedThreads -> Int]
         /\ end \in [ForkedThreads -> Int] /\ done \in [ForkedThreads -> Seq(Int)]
         /\ startRow \in Int /\ currentIndex \in Nat \ {0}
    BY DEF ForkInv, ForkTypes
  <1>11. /\ next'[i] = f /\ end'[i] = g /\ stage'[i] = s
         /\ \A j \in ForkedThreads :
              /\ done'[j] = done[j]
              /\ j # i => next'[j] = next[j] /\ end'[j] = end[j] /\ stage'[j] = stage[j]
    <2>1. next'[i] = f /\ \A j \in ForkedThreads : j # i => next'[j] = next[j]
      BY <1>2, <1>7, <1>10
    <2>2. end'[i] = g /\ \A j \in ForkedThreads : j # i => end'[j] = end[j]
      BY <1>2, <1>7, <1>10
    <2>3. stage'[i] = s /\ \A j \in ForkedThreads : j # i => stage'[j] = stage[j]
      BY <1>2, <1>8, <1>10
    <2>4. QED
      BY <2>1, <2>2, <2>3, <1>7
  <1>12. ForkTypes'
    <2>1. launched' \in 0..exercise.threads
      BY <1>2, <1>7 DEF ForkedThreads
    <2>2. stage' \in [ForkedThreads -> Stages]
      <3>1. s \in Stages
        BY <1>8 DEF Stages
      <3>2. QED
        BY <3>1, <1>2, <1>8, <1>10
    <2>3. QED
      BY <2>1, <2>2, <1>2, <1>3, <1>7, <1>10 DEF ForkTypes
  <1>13. Frontier' = g
    <2>1. i + 1 # 0
      BY <1>2 DEF ForkedThreads
    <2>2. QED
      BY <2>1, <1>2, <1>3, <1>7 DEF Frontier
  <1>14. Progress'
    <2>1. Lowest <= g /\ i + 1 # 0
      BY <1>2, <1>4, <1>5 DEF ForkedThreads
    <2>2. ASSUME NEW j \in ForkedThreads
          PROVE  /\ stage'[j] # "unborn" => j < launched'
                 /\ stage'[j] = "unborn" => next'[j] = 0 /\ end'[j] = 0 /\ done'[j] = <<>>
                 /\ stage'[j] # "work" => next'[j] >= end'[j]
      <3>1. CASE j = i
        <4>1. i < i + 1 /\ (f >= g => next'[i] >= end'[i])
          BY <1>2, <1>11 DEF ForkedThreads
        <4>2. QED
          BY <3>1, <4>1, <1>2, <1>7, <1>8, <1>11
      <3>2. CASE j # i
        <4>1. stage[j] # "unborn" => j < launched /\ launched < launched' /\ j \in Int
          BY <1>1, <1>2, <1>7 DEF ForkInv, Progress, ForkedThreads
        <4>2. stage[j] # "unborn" => j < launched'
          BY <4>1, <1>1, <1>2, <1>7
        <4>3. /\ stage[j] = "unborn" => next[j] = 0 /\ end[j] = 0 /\ done[j] = <<>>
              /\ stage[j] # "work" => next[j] >= end[j]
          BY DEF ForkInv, Progress
        <4>4. QED
          BY <3>2, <4>2, <4>3, <1>11
      <3>3. QED
        BY <3>1, <3>2
    <2>3. QED
      BY <2>1, <2>2, <1>2, <1>3, <1>4, <1>7, <1>13 DEF Progress
  <1>15. InTurn'
    <2>1. \A j \in ForkedThreads :
            /\ j = i => Len(done[j]) = 0
            /\ j # i => next'[j] = next[j]
      BY <1>9, <1>11
    <2>2. \A j \in ForkedThreads :
            /\ \A n \in 1..Len(done[j]) : done[j][n] < next'[j] /\ Wanted(done[j][n])
            /\ \A m, n \in 1..Len(done[j]) : done[j][m] = done[j][n] => m = n
      <3> SUFFICES ASSUME NEW j \in ForkedThreads
                   PROVE  /\ \A n \in 1..Len(done[j]) : done[j][n] < next'[j] /\ Wanted(done[j][n])
                          /\ \A m, n \in 1..Len(done[j]) : done[j][m] = done[j][n] => m = n
        OBVIOUS
      <3>1. CASE j = i
        <4>1. \A n \in 1..Len(done[j]) : FALSE
          <5>1. Len(done[j]) = 0
            BY <2>1, <3>1
          <5>2. QED
            BY <5>1
        <4>2. QED
          BY <4>1
      <3>2. CASE j # i
        BY <2>1, <3>2 DEF ForkInv, InTurn
      <3>3. QED
        BY <3>1, <3>2
    <2>3. QED
      BY <2>2, <1>3, <1>7 DEF InTurn
  <1>16. Within' /\ Covered' /\ SharesDisjoint'
    <2>1. \A x : x \notin ToSet(done'[i]) /\ x \notin Share(i)
      <3>1. ToSet(<<>>) = {}
        BY DEF ToSet
      <3>2. QED
        BY <3>1, <1>2, <1>9, <1>11 DEF Share
    <2>2. \A x \in Int : x \in ToSet(done'[i]) \/ (next'[i] <= x /\ x < end'[i])
                         <=> x \in Share(i) \/ (f <= x /\ x < g /\ x < Limit)
      BY <2>1, <1>2, <1>4, <1>11
    <2>3. QED
      <3>1. ForkTypes /\ Within /\ Covered /\ SharesDisjoint
        BY DEF ForkInv
      <3>2. QED
        <4>1. \A j \in ForkedThreads :
                j # i => next'[j] = next[j] /\ end'[j] = end[j] /\ done'[j] = done[j]
          BY <1>11
        <4>2. \A x \in Int : x \in ToSet(done'[i]) \/ (next'[i] <= x /\ x < end'[i])
                         => x \in Share(i) \/ (f <= x /\ x < g /\ x < Limit)
          BY <2>2
        <4>3. \A x \in Int : (x \in Share(i) \/ (f <= x /\ x < g /\ x < Limit)) /\ Wanted(x)
                         => x \in ToSet(done'[i]) \/ (next'[i] <= x /\ x < end'[i])
          BY <2>2
        <4>4. /\ exercise' = exercise /\ i \in ForkedThreads /\ f = Frontier /\ g = Frontier'
              /\ Lowest <= f /\ f <= g
          BY <1>2, <1>4, <1>5, <1>13
        <4>5. QED
          BY <3>1, <4>1, <4>2, <4>3, <4>4, <1>12, ShareSteps
  <1>17. Reserving'
    <2>1. \A j \in ForkedThreads : stage'[j] = stage[j] \/ stage'[j] \in {"joined", "work"}
      BY <1>8, <1>11
    <2>2. QED
      BY <2>1, <1>3 DEF ForkInv, Reserving
  <1>18. QED
    BY <1>12, <1>14, <1>15, <1>16, <1>17 DEF ForkInv
(* What every step of a thread starts from. *)
LEMMA ForkFacts ==
  ASSUME ForkInv, exercise' = exercise
  PROVE  /\ exercise \in Exercises /\ exercise.threads \in Nat \ {0} /\ exercise.size \in Nat
         /\ Lowest \in Int /\ Limit \in Int /\ Frontier \in Int /\ Lowest <= Frontier
         /\ launched \in 0..exercise.threads /\ startRow \in Int /\ currentIndex \in Nat \ {0}
         /\ stage \in [ForkedThreads -> Stages] /\ next \in [ForkedThreads -> Int]
         /\ end \in [ForkedThreads -> Int] /\ done \in [ForkedThreads -> Seq(Int)]
         /\ Lowest' = Lowest /\ Limit' = Limit /\ Dynamic' = Dynamic
         /\ ForkedThreads' = ForkedThreads
         /\ \A x : Wanted(x)' = Wanted(x) /\ Boundary(x)' = Boundary(x)
         /\ \A j \in ForkedThreads : j \in Int
  <1>1. /\ exercise \in Exercises /\ launched \in 0..exercise.threads /\ startRow \in Int
        /\ currentIndex \in Nat \ {0}
        /\ stage \in [ForkedThreads -> Stages] /\ next \in [ForkedThreads -> Int]
        /\ end \in [ForkedThreads -> Int] /\ done \in [ForkedThreads -> Seq(Int)]
    BY DEF ForkInv, ForkTypes
  <1>2. /\ exercise.threads \in Nat \ {0} /\ exercise.size \in Nat
        /\ Lowest \in Int /\ Limit \in Int
    BY <1>1, ExerciseType
  <1>3. Frontier \in Int /\ Lowest <= Frontier
    <2>1. Frontier \in Int
      BY <1>1, <1>2 DEF Frontier
    <2>2. QED
      BY <2>1 DEF ForkInv, Progress
  <1>4. \A j \in ForkedThreads : j \in Int
    BY <1>2 DEF ForkedThreads
  <1>5. QED
    BY <1>1, <1>2, <1>3, <1>4, SameExercise

(* The numbers among them. *)
LEMMA ForkNumbers ==
  ASSUME ForkInv, exercise' = exercise
  PROVE  /\ exercise.threads \in Nat \ {0} /\ exercise.size \in Nat
         /\ Lowest \in Int /\ Limit \in Int /\ Frontier \in Int /\ Lowest <= Frontier
         /\ launched \in 0..exercise.threads /\ startRow \in Int /\ currentIndex \in Nat \ {0}
         /\ Lowest' = Lowest /\ Limit' = Limit /\ Dynamic' = Dynamic
         /\ \A j \in ForkedThreads : j \in Int
  BY ForkFacts

(* A thread alone goes on to another stage. *)
LEMMA ForkStages ==
  ASSUME ForkInv, exercise' = exercise, UNCHANGED <<launched, startRow, next, end, done>>,
         NEW i \in ForkedThreads, NEW s \in Stages \ {"unborn"},
         stage' = [stage EXCEPT ![i] = s], i < launched, s # "work" => next[i] >= end[i],
         currentIndex' \in Nat \ {0}, currentIndex <= currentIndex',
         currentIndex' = currentIndex \/ exercise.size <= currentIndex,
         Dynamic /\ s \in {"merge", "joined"} => currentIndex >= exercise.size,
         s \in {"reserve", "merge"} => Dynamic, s = "finished" => ~Dynamic
  PROVE  ForkInv'
  <1>1. /\ \A j \in ForkedThreads : j # i => stage'[j] = stage[j]
        /\ stage'[i] = s /\ stage' \in [ForkedThreads -> Stages]
    BY ForkFacts
  <1>2. ForkTypes'
    BY <1>1, ForkFacts DEF ForkTypes
  <1>3. Frontier' \in Int /\ Frontier <= Frontier' /\ (Frontier' = Frontier \/ Limit <= Frontier)
    <2>1. CASE Dynamic
      BY <2>1, ForkFacts DEF Frontier, Limit
    <2>2. CASE ~Dynamic
      <3>1. Frontier' = Frontier
        BY <2>2, ForkFacts DEF Frontier
      <3>2. QED
        BY <3>1, ForkFacts
    <2>3. QED
      BY <2>1, <2>2
  <1>4. Progress'
    <2>1. ~Dynamic => Frontier' = Boundary(launched)
      <3>1. ~Dynamic => Frontier' = Frontier
        BY ForkFacts DEF Frontier
      <3>2. QED
        BY <3>1 DEF ForkInv, Progress
    <2>2. Lowest <= Frontier' /\ (launched = 0 => startRow = 0)
      BY <1>3, ForkFacts DEF ForkInv, Progress
    <2>3. ASSUME NEW j \in ForkedThreads
          PROVE  /\ stage'[j] # "unborn" => j < launched
                 /\ stage'[j] = "unborn" => next[j] = 0 /\ end[j] = 0 /\ done[j] = <<>>
                 /\ stage'[j] # "work" => next[j] >= end[j]
                 /\ Dynamic /\ stage'[j] \in {"merge", "joined"} => currentIndex' >= exercise.size
      <3>1. Dynamic /\ stage'[j] \in {"merge", "joined"} => currentIndex >= exercise.size
        BY <1>1 DEF ForkInv, Progress
      <3>2. Dynamic /\ stage'[j] \in {"merge", "joined"} => currentIndex' >= exercise.size
        BY <3>1, ForkNumbers
      <3>3. QED
        BY <1>1, <3>2 DEF ForkInv, Progress
    <2>4. QED
      BY <2>1, <2>2, <2>3, ForkFacts DEF Progress
  <1>5. Within' /\ Covered' /\ SharesDisjoint' /\ InTurn'
    BY <1>2, <1>3, SameShares
  <1>6. Reserving'
    BY <1>1, ForkFacts DEF ForkInv, Reserving
  <1>7. QED
    BY <1>2, <1>4, <1>5, <1>6 DEF ForkInv
(* A thread reserves the next chunk. *)
LEMMA ForkReserves ==
  ASSUME ForkInv, NEW i \in ForkedThreads, Reserves(i), Dynamic, currentIndex < exercise.size
  PROVE  ForkInv'
  <1>1. exercise' = exercise /\ launched' = launched /\ startRow' = startRow /\ done' = done
    BY DEF Reserves
  <1>2. PICK f \in Int, g \in Int, h \in Int :
          /\ f = currentIndex /\ g = currentIndex' /\ h = ReservedEnd(currentIndex)
          /\ f <= g /\ f >= 1 /\ f < Limit /\ f < h
          /\ \A x \in Int : x < h <=> x < g /\ x < Limit
    <2>1. currentIndex' = currentIndex + chunkSize /\ chunkSize \in Nat \ {0}
      BY ForkJoinAssumption DEF Reserves, Added
    <2>2. Limit = exercise.size /\ Limit \in Int /\ currentIndex \in Nat \ {0}
      BY <1>1, ForkFacts DEF Limit
    <2>3. QED
      BY <2>1, <2>2 DEF ReservedEnd
  <1>3. /\ stage[i] = "reserve" /\ stage' = [stage EXCEPT ![i] = "work"]
        /\ next' = [next EXCEPT ![i] = f] /\ end' = [end EXCEPT ![i] = h]
    <2>1. stage[i] = "reserve" /\ ~(currentIndex >= exercise.size)
      BY <1>1, <1>2, ForkNumbers DEF Reserves, Limit
    <2>2. /\ stage' = [stage EXCEPT ![i] = "work"] /\ next' = [next EXCEPT ![i] = currentIndex]
          /\ end' = [end EXCEPT ![i] = ReservedEnd(currentIndex)]
      BY <2>1 DEF Reserves
    <2>3. QED
      BY <2>1, <2>2, <1>2
  <1>4. /\ stage'[i] = "work" /\ next'[i] = f /\ end'[i] = h
        /\ \A j \in ForkedThreads :
             /\ done'[j] = done[j]
             /\ j # i => next'[j] = next[j] /\ end'[j] = end[j] /\ stage'[j] = stage[j]
    <2>1. stage'[i] = "work" /\ \A j \in ForkedThreads : j # i => stage'[j] = stage[j]
      BY <1>1, <1>3, ForkFacts
    <2>2. next'[i] = f /\ \A j \in ForkedThreads : j # i => next'[j] = next[j]
      BY <1>1, <1>3, ForkFacts
    <2>3. end'[i] = h /\ \A j \in ForkedThreads : j # i => end'[j] = end[j]
      BY <1>1, <1>3, ForkFacts
    <2>4. QED
      BY <2>1, <2>2, <2>3, <1>1
  <1>5. ForkTypes'
    <2>1. "work" \in Stages
      BY DEF Stages
    <2>2. /\ stage' \in [ForkedThreads -> Stages] /\ next' \in [ForkedThreads -> Int]
          /\ end' \in [ForkedThreads -> Int]
      BY <1>1, <1>3, <2>1, ForkFacts
    <2>3. currentIndex' \in Nat \ {0}
      BY <1>2
    <2>4. QED
      BY <2>2, <2>3, <1>1, ForkFacts DEF ForkTypes
  <1>6. Frontier = f /\ Frontier' = g /\ Lowest <= f
    BY <1>1, <1>2, ForkFacts DEF Frontier
  <1>7. Progress'
    <2>1. Dynamic' /\ Lowest' <= Frontier'
      BY <1>1, <1>2, <1>6, ForkFacts
    <2>2. ASSUME NEW j \in ForkedThreads
          PROVE  /\ stage'[j] # "unborn" => j < launched
                 /\ stage'[j] = "unborn" => next'[j] = 0 /\ end'[j] = 0 /\ done'[j] = <<>>
                 /\ stage'[j] # "work" => next'[j] >= end'[j]
                 /\ stage'[j] \notin {"merge", "joined"}
      <3>1. CASE j = i
        BY <3>1, <1>3, <1>4 DEF ForkInv, Progress
      <3>2. CASE j # i
        <4>1. stage[j] \notin {"merge", "joined"}
          <5>1. ~(currentIndex >= exercise.size)
            BY <1>1, ForkNumbers
          <5>2. QED
            BY <5>1 DEF ForkInv, Progress
        <4>2. QED
          BY <3>2, <4>1, <1>4 DEF ForkInv, Progress
      <3>3. QED
        BY <3>1, <3>2
    <2>3. QED
      BY <2>1, <2>2, <1>1, ForkFacts DEF Progress, ForkInv
  <1>8. InTurn'
    <2>1. ASSUME NEW j \in ForkedThreads, NEW n \in 1..Len(done[j])
          PROVE  done[j][n] < next'[j]
      <3>1. done[j][n] < next[j] /\ done[j][n] \in Int
        <4>1. done[j][n] < next[j]
          BY DEF ForkInv, InTurn
        <4>2. done \in [ForkedThreads -> Seq(Int)]
          BY <1>1, ForkFacts
        <4>3. QED
          BY <4>1, <4>2
      <3>2. CASE j = i
        <4>1. done[j][n] \in Share(j)
          BY <3>1, ShareOf DEF ForkInv
        <4>2. done[j][n] < f
          BY <4>1, <1>6 DEF ForkInv, Within
        <4>3. QED
          BY <3>2, <4>2, <1>4
      <3>3. CASE j # i
        BY <3>1, <3>3, <1>4
      <3>4. QED
        BY <3>2, <3>3
    <2>2. QED
      BY <2>1, <1>1, ForkFacts DEF ForkInv, InTurn
  <1>9. Within' /\ Covered' /\ SharesDisjoint'
    <2>1. next[i] >= end[i] /\ next[i] \in Int /\ end[i] \in Int
      BY <1>1, <1>3, ForkFacts DEF ForkInv, Progress
    <2>2. \A x \in Int : x \in Share(i) <=> x \in ToSet(done'[i])
      BY <2>1, <1>1 DEF Share
    <2>3. \A x \in Int : x \in ToSet(done'[i]) \/ (next'[i] <= x /\ x < end'[i])
                           <=> x \in Share(i) \/ (f <= x /\ x < g /\ x < Limit)
      BY <2>2, <1>2, <1>4
    <2>4. \A j \in ForkedThreads :
            j # i => next'[j] = next[j] /\ end'[j] = end[j] /\ done'[j] = done[j]
      BY <1>4
    <2>5. ForkTypes /\ Within /\ Covered /\ SharesDisjoint
      BY DEF ForkInv
    <2>6. \A x \in Int : x \in ToSet(done'[i]) \/ (next'[i] <= x /\ x < end'[i])
                           => x \in Share(i) \/ (f <= x /\ x < g /\ x < Limit)
      BY <2>3
    <2>7. \A x \in Int : (x \in Share(i) \/ (f <= x /\ x < g /\ x < Limit)) /\ Wanted(x)
                           => x \in ToSet(done'[i]) \/ (next'[i] <= x /\ x < end'[i])
      BY <2>3
    <2>8. QED
      BY <2>4, <2>5, <2>6, <2>7, <1>1, <1>2, <1>5, <1>6, ShareSteps
  <1>10. Reserving'
    <2>1. \A j \in ForkedThreads : stage'[j] = stage[j] \/ stage'[j] = "work"
      BY <1>4
    <2>2. QED
      BY <2>1, <1>1, ForkFacts DEF ForkInv, Reserving
  <1>11. QED
    BY <1>5, <1>7, <1>8, <1>9, <1>10 DEF ForkInv

(* A thread deals with the next element of its range. *)
LEMMA ForkWorks ==
  ASSUME ForkInv, NEW i \in ForkedThreads, Works(i)
  PROVE  ForkInv'
  <1>1. /\ exercise' = exercise /\ launched' = launched /\ startRow' = startRow
        /\ currentIndex' = currentIndex /\ stage' = stage /\ end' = end
        /\ stage[i] = "work" /\ next[i] < end[i]
    BY DEF Works
  <1>2. PICK a \in Int : a = next[i]
    BY <1>1, ForkFacts
  <1>3. PICK d \in Seq(Int) : d = done[i]
    BY <1>1, ForkFacts
  <1>4. next' = [next EXCEPT ![i] = a + 1]
    BY <1>2 DEF Works
  <1>5. PICK u : /\ done' = [done EXCEPT ![i] = u]
                 /\ IF Wanted(a) THEN u = Append(d, a) ELSE u = d
    <2>1. Wanted(a) <=> ~Dynamic \/ isPrime(a)
      BY DEF Wanted
    <2>2. done' = [done EXCEPT ![i] = IF Wanted(a) THEN Append(d, a) ELSE d]
      BY <2>1, <1>2, <1>3 DEF Works
    <2>3. QED
      BY <2>2
  <1>6. /\ u \in Seq(Int) /\ Len(d) \in Nat
        /\ IF Wanted(a) THEN Len(u) = Len(d) + 1 /\ u[Len(d) + 1] = a ELSE Len(u) = Len(d)
        /\ \A n \in 1..Len(d) : u[n] = d[n] /\ d[n] \in Int
    <2>1. CASE Wanted(a)
      <3>1. u = Append(d, a)
        BY <1>5, <2>1
      <3>2. QED
        BY <3>1, <2>1
    <2>2. CASE ~Wanted(a)
      BY <1>5, <2>2
    <2>3. QED
      BY <2>1, <2>2
  <1>7. /\ next'[i] = a + 1 /\ done'[i] = u /\ end'[i] = end[i]
        /\ \A j \in ForkedThreads :
             j # i => next'[j] = next[j] /\ end'[j] = end[j] /\ done'[j] = done[j]
    BY <1>1, <1>4, <1>5, ForkFacts
  <1>8. ForkTypes'
    <2>1. next' \in [ForkedThreads -> Int]
      <3>1. a + 1 \in Int
        OBVIOUS
      <3>2. QED
        BY <3>1, <1>1, <1>4, ForkFacts
    <2>2. done' \in [ForkedThreads -> Seq(Int)]
      BY <1>1, <1>5, <1>6, ForkFacts
    <2>3. QED
      BY <2>1, <2>2, <1>1, ForkFacts DEF ForkTypes
  <1>9. Frontier' = Frontier
    BY <1>1, ForkFacts DEF Frontier
  <1>10. Progress'
    <2>1. ASSUME NEW j \in ForkedThreads
          PROVE  /\ stage[j] = "unborn" => next'[j] = 0 /\ end[j] = 0 /\ done'[j] = <<>>
                 /\ stage[j] # "work" => next'[j] >= end[j]
      <3>1. CASE j = i
        BY <3>1, <1>1
      <3>2. CASE j # i
        BY <3>2, <1>7 DEF ForkInv, Progress
      <3>3. QED
        BY <3>1, <3>2
    <2>2. QED
      <3>1. \A j \in ForkedThreads : stage[j] # "unborn" => j < launched
        BY DEF ForkInv, Progress
      <3>2. \A j \in ForkedThreads :
              Dynamic /\ stage[j] \in {"merge", "joined"} => currentIndex >= exercise.size
        BY DEF ForkInv, Progress
      <3>3. /\ Lowest <= Frontier /\ (launched = 0 => startRow = 0)
            /\ ~Dynamic => Frontier = Boundary(launched)
        BY DEF ForkInv, Progress
      <3>4. ForkedThreads' = ForkedThreads /\ Lowest' = Lowest /\ Dynamic' = Dynamic
        BY <1>1, ForkFacts
      <3>5. ~Dynamic => Frontier' = Boundary(launched)'
        BY <3>3, <1>1, <1>9, ForkFacts
      <3>6. QED
        BY <2>1, <3>1, <3>2, <3>3, <3>4, <3>5, <1>1, <1>9 DEF Progress
  <1>11. InTurn'
    <2>1. /\ \A n \in 1..Len(d) : d[n] < a /\ Wanted(d[n])
          /\ \A m, n \in 1..Len(d) : d[m] = d[n] => m = n
      BY <1>2, <1>3 DEF ForkInv, InTurn
    <2>2. \A n \in 1..Len(u) : /\ n # Len(d) + 1 => n \in 1..Len(d)
                               /\ n = Len(d) + 1 => Wanted(a) /\ u[n] = a
      BY <1>6
    <2>3. \A n \in 1..Len(u) : u[n] < a + 1 /\ Wanted(u[n])
      <3> SUFFICES ASSUME NEW n \in 1..Len(u)  PROVE  u[n] < a + 1 /\ Wanted(u[n])
        OBVIOUS
      <3>1. CASE n = Len(d) + 1
        BY <3>1, <2>2
      <3>2. CASE n # Len(d) + 1
        <4>1. n \in 1..Len(d) /\ u[n] = d[n] /\ d[n] \in Int /\ d[n] < a /\ Wanted(d[n])
          BY <3>2, <1>6, <2>1, <2>2
        <4>2. QED
          BY <4>1
      <3>3. QED
        BY <3>1, <3>2
    <2>4. \A m, n \in 1..Len(u) : u[m] = u[n] => m = n
      <3> SUFFICES ASSUME NEW m \in 1..Len(u), NEW n \in 1..Len(u), u[m] = u[n]  PROVE  m = n
        OBVIOUS
      <3>1. \A k \in 1..Len(u) : k # Len(d) + 1 => u[k] = d[k] /\ u[k] < a
        BY <1>6, <2>1, <2>2
      <3>2. CASE m = Len(d) + 1 \/ n = Len(d) + 1
        BY <3>1, <3>2, <2>2
      <3>3. CASE m # Len(d) + 1 /\ n # Len(d) + 1
        BY <3>1, <3>3, <2>1, <2>2
      <3>4. QED
        BY <3>2, <3>3
    <2>5. ASSUME NEW j \in ForkedThreads
          PROVE  /\ \A n \in 1..Len(done'[j]) : done'[j][n] < next'[j] /\ Wanted(done'[j][n])
                 /\ \A m, n \in 1..Len(done'[j]) : done'[j][m] = done'[j][n] => m = n
      <3>1. CASE j = i
        BY <3>1, <2>3, <2>4, <1>7
      <3>2. CASE j # i
        BY <3>2, <1>7 DEF ForkInv, InTurn
      <3>3. QED
        BY <3>1, <3>2
    <2>6. QED
      BY <2>5, <1>1, ForkFacts DEF InTurn
  <1>12. Within' /\ Covered' /\ SharesDisjoint'
    <2>1. PICK f \in Int : f = Frontier /\ Lowest <= f
      BY <1>1, ForkFacts
    <2>2. PICK b \in Int : b = end[i] /\ a < b
      BY <1>1, <1>2, ForkFacts
    <2>3. \A x \in Int : x \in Share(i) <=> x \in ToSet(d) \/ (a <= x /\ x < b)
      BY <1>2, <1>3, <2>2 DEF Share
    <2>4. \A x \in Int : x \in ToSet(u) <=> x \in ToSet(d) \/ (Wanted(a) /\ x = a)
      <3>1. CASE Wanted(a)
        <4>1. ToSet(Append(d, a)) = ToSet(d) \cup {a}
          BY ToSetOf
        <4>2. QED
          BY <4>1, <3>1, <1>5
      <3>2. CASE ~Wanted(a)
        BY <3>2, <1>5
      <3>3. QED
        BY <3>1, <3>2
    <2>5. \A x \in Int : ~(f <= x /\ x < f /\ x < Limit)
      OBVIOUS
    <2>6. \A x \in Int : x \in ToSet(done'[i]) \/ (next'[i] <= x /\ x < end'[i])
                           => x \in Share(i) \/ (f <= x /\ x < f /\ x < Limit)
      BY <2>2, <2>3, <2>4, <1>7
    <2>7. \A x \in Int : (x \in Share(i) \/ (f <= x /\ x < f /\ x < Limit)) /\ Wanted(x)
                           => x \in ToSet(done'[i]) \/ (next'[i] <= x /\ x < end'[i])
      <3> SUFFICES ASSUME NEW x \in Int, x \in Share(i), Wanted(x)
                   PROVE  x \in ToSet(u) \/ (a + 1 <= x /\ x < b)
        BY <2>2, <2>5, <1>7
      <3>1. CASE x = a
        BY <3>1, <2>4
      <3>2. CASE x # a
        BY <3>2, <2>2, <2>3, <2>4
      <3>3. QED
        BY <3>1, <3>2
    <2>8. ForkTypes /\ Within /\ Covered /\ SharesDisjoint /\ f <= f
      BY DEF ForkInv
    <2>9. QED
      BY <2>1, <2>6, <2>7, <2>8, <1>1, <1>7, <1>8, <1>9, ShareSteps
  <1>13. Reserving'
    <2>1. ForkedThreads' = ForkedThreads /\ Dynamic' = Dynamic /\ stage' = stage
      BY <1>1, ForkFacts
    <2>2. QED
      BY <2>1 DEF ForkInv, Reserving
  <1>14. QED
    BY <1>8, <1>10, <1>11, <1>12, <1>13 DEF ForkInv

LEMMA ForkStep == ForkInv /\ [ForkNext]_forkVars => ForkInv'
  <1> SUFFICES ASSUME ForkInv, [ForkNext]_forkVars  PROVE  ForkInv'
    OBVIOUS
  <1>1. CASE LaunchesFixed
    BY <1>1, ForkLaunch
  <1>2. CASE LaunchesDynamic
    <2>1. /\ exercise' = exercise /\ currentIndex' = currentIndex
          /\ Dynamic /\ launched < exercise.threads /\ launched' = launched + 1
          /\ UNCHANGED <<startRow, next, end, done>>
          /\ stage' = [stage EXCEPT ![launched] = "reserve"]
      BY <1>2 DEF LaunchesDynamic, range
    <2>2. PICK i \in ForkedThreads : i = launched
      BY <2>1, ForkFacts DEF ForkedThreads
    <2>3. stage'[i] = "reserve" /\ \A j \in ForkedThreads : j # i => stage'[j] = stage[j]
      BY <2>1, <2>2, ForkFacts
    <2>4. ForkTypes'
      <3>1. stage' \in [ForkedThreads -> Stages]
        BY <2>1, <2>2, ForkFacts DEF Stages
      <3>2. launched' \in 0..exercise.threads
        BY <2>1, ForkNumbers
      <3>3. QED
        BY <3>1, <3>2, <2>1, ForkFacts DEF ForkTypes
    <2>5. Frontier' = Frontier
      BY <2>1, ForkFacts DEF Frontier
    <2>6. Progress'
      <3>1. launched' # 0 /\ i < launched'
        BY <2>1, <2>2, ForkFacts
      <3>2. stage[i] = "unborn"
        <4>1. ~(i < launched)
          BY <2>1, <2>2, ForkFacts
        <4>2. QED
          BY <4>1 DEF ForkInv, Progress
      <3>3. next[i] = 0 /\ end[i] = 0 /\ 0 >= 0
        BY <3>2 DEF ForkInv, Progress
      <3>4. \A j \in ForkedThreads : j < launched => j < launched'
        BY <2>1, ForkNumbers
      <3>5. ASSUME NEW j \in ForkedThreads
            PROVE  /\ stage'[j] # "unborn" => j < launched'
                   /\ stage'[j] = "unborn" => next[j] = 0 /\ end[j] = 0 /\ done[j] = <<>>
                   /\ stage'[j] # "work" => next[j] >= end[j]
                   /\ stage'[j] \in {"merge", "joined"} => currentIndex >= exercise.size
        <4>1. CASE j = i
          BY <4>1, <2>3, <3>1, <3>3
        <4>2. CASE j # i
          BY <4>2, <2>1, <2>3, <3>4 DEF ForkInv, Progress
        <4>3. QED
          BY <4>1, <4>2
      <3>6. QED
        BY <2>1, <2>5, <3>1, <3>5, ForkFacts DEF Progress
    <2>7. Within' /\ Covered' /\ SharesDisjoint' /\ InTurn'
      <3>1. Frontier' \in Int /\ Frontier <= Frontier'
        BY <2>1, <2>5, ForkFacts
      <3>2. QED
        BY <3>1, <2>1, <2>4, <2>5, SameShares
    <2>8. Reserving'
      BY <2>1, <2>3, ForkFacts DEF ForkInv, Reserving
    <2>9. QED
      BY <2>4, <2>6, <2>7, <2>8 DEF ForkInv
  <1>3. ASSUME NEW i \in ForkedThreads, Thread(i)  PROVE  ForkInv'
    <2>1. CASE Reserves(i)
      <3>1. exercise' = exercise /\ stage[i] = "reserve"
        BY <2>1 DEF Reserves
      <3>2. CASE Dynamic /\ currentIndex < exercise.size
        BY <2>1, <3>2, ForkReserves
      <3>3. CASE currentIndex >= exercise.size
        <4>1. stage' = [stage EXCEPT ![i] = "merge"] /\ UNCHANGED <<launched, startRow, next, end, done>>
          BY <2>1, <3>3 DEF Reserves, range
        <4>2. currentIndex' \in Nat \ {0} /\ currentIndex <= currentIndex'
          BY <2>1, <3>1, ForkNumbers, ForkJoinAssumption DEF Reserves, Added
        <4>3. i < launched /\ next[i] >= end[i] /\ "merge" \in Stages \ {"unborn"}
          BY <3>1 DEF ForkInv, Progress, Stages
        <4>4. exercise.size <= currentIndex
          BY <3>1, <3>3, ForkFacts
        <4>5. Dynamic
          BY <3>1 DEF ForkInv, Reserving
        <4>6. QED
          BY <3>1, <3>3, <4>1, <4>2, <4>3, <4>4, <4>5, ForkStages
      <3>4. Dynamic
        BY <3>1 DEF ForkInv, Reserving
      <3>5. currentIndex \in Int /\ exercise.size \in Int
        BY <3>1, ForkFacts
      <3>6. QED
        BY <3>2, <3>3, <3>4, <3>5
    <2>2. CASE Works(i)
      BY <2>2, ForkWorks
    <2>3. CASE EndsRange(i)
      <3>1. /\ exercise' = exercise /\ stage[i] = "work" /\ next[i] >= end[i]
            /\ UNCHANGED <<launched, startRow, next, end, done>> /\ currentIndex' = currentIndex
            /\ stage' = [stage EXCEPT ![i] = IF Dynamic THEN "reserve" ELSE "finished"]
        BY <2>3 DEF EndsRange, range
      <3>2. i < launched
        BY <3>1 DEF ForkInv, Progress
      <3>3. PICK s \in Stages \ {"unborn"} : s = IF Dynamic THEN "reserve" ELSE "finished"
        BY DEF Stages
      <3>4. stage' = [stage EXCEPT ![i] = s]
        BY <3>1, <3>3
      <3>5. currentIndex' \in Nat \ {0} /\ currentIndex <= currentIndex'
        BY <3>1, ForkFacts
      <3>6. QED
        BY <3>1, <3>2, <3>3, <3>4, <3>5, ForkStages
    <2>4. CASE Merges(i)
      <3>1. /\ exercise' = exercise /\ stage[i] = "merge"
            /\ UNCHANGED <<launched, startRow, next, end, done>> /\ currentIndex' = currentIndex
            /\ stage' = [stage EXCEPT ![i] = "joined"]
        BY <2>4 DEF Merges, range
      <3>2. /\ i < launched /\ next[i] >= end[i] /\ "joined" \in Stages \ {"unborn"}
            /\ Dynamic => currentIndex >= exercise.size
        BY <3>1 DEF ForkInv, Progress, Stages
      <3>3. currentIndex' \in Nat \ {0} /\ currentIndex <= currentIndex'
        BY <3>1, ForkFacts
      <3>4. QED
        BY <3>1, <3>2, <3>3, ForkStages
    <2>5. CASE Joins(i)
      <3>1. /\ exercise' = exercise /\ stage[i] = "finished"
            /\ UNCHANGED <<launched, startRow, next, end, done>> /\ currentIndex' = currentIndex
            /\ stage' = [stage EXCEPT ![i] = "joined"]
        BY <2>5 DEF Joins, range
      <3>2. i < launched /\ next[i] >= end[i] /\ "joined" \in Stages \ {"unborn"} /\ ~Dynamic
        BY <3>1 DEF ForkInv, Progress, Reserving, Stages
      <3>3. currentIndex' \in Nat \ {0} /\ currentIndex <= currentIndex'
        BY <3>1, ForkFacts
      <3>4. QED
        BY <3>1, <3>2, <3>3, ForkStages
    <2>6. QED
      BY <1>3, <2>1, <2>2, <2>3, <2>4, <2>5 DEF Thread
  <1>4. CASE UNCHANGED forkVars
    BY <1>4, SameExercise DEF forkVars, range, ForkInv, ForkTypes, Progress, Reserving, InTurn,
         Within, Covered, SharesDisjoint, Share, Frontier
  <1>5. QED
    BY <1>1, <1>2, <1>3, <1>4 DEF ForkNext, ForkEnded

-----------------------------------------------------------------------------
(* The invariant holds of every exercise, size, number of threads and chunk size. *)
THEOREM ForkInvariance == ForkSpec => []ForkInv
  <1>1. QED
    BY ForkInitially, ForkStep, PTL DEF ForkSpec

(* No element is ever in the hands of two threads, so nothing is read or written twice:
   the reason why the threads need no lock. *)
THEOREM SharesAreDisjoint == ForkSpec => []SharesDisjoint
  <1>1. ForkInv => SharesDisjoint
    BY DEF ForkInv
  <1>2. QED
    BY <1>1, ForkInvariance, PTL

(* Every thread has dealt with all it had, and the frontier is the end. *)
LEMMA EachElementThen ==
  ASSUME ForkInv  PROVE  EachElementOnce
  <1> SUFFICES ASSUME Collected  PROVE  EachElementOnce
    BY DEF EachElementOnce
  <1>1. /\ Lowest \in Int /\ Limit \in Int /\ Frontier \in Int
        /\ 0 \in ForkedThreads /\ launched = exercise.threads
        /\ \A i \in ForkedThreads : stage[i] = "joined"
    <2>1. exercise \in Exercises /\ launched = exercise.threads
          /\ \A i \in ForkedThreads : stage[i] = "joined"
      BY DEF ForkInv, ForkTypes, Collected
    <2>2. /\ exercise.threads \in Nat \ {0} /\ exercise.size \in Nat
          /\ Lowest \in Int /\ Limit \in Int
      BY <2>1, ExerciseType
    <2>3. Frontier \in Int
      BY <2>1, <2>2 DEF ForkInv, ForkTypes, Frontier
    <2>4. QED
      BY <2>1, <2>2, <2>3 DEF ForkedThreads
  <1>2. Limit <= Frontier
    <2>1. CASE Dynamic
      <3>1. currentIndex >= exercise.size
        BY <1>1, <2>1 DEF ForkInv, Progress
      <3>2. QED
        BY <1>1, <2>1, <3>1 DEF Frontier, Limit
    <2>2. CASE ~Dynamic
      <3>1. Frontier = Boundary(exercise.threads)
        BY <1>1, <2>2 DEF ForkInv, Progress
      <3>2. Boundary(exercise.threads) = Limit
        BY <2>2, Boundaries DEF ForkInv, ForkTypes
      <3>3. QED
        BY <1>1, <3>1, <3>2
    <2>3. QED
      BY <2>1, <2>2
  <1>3. ASSUME NEW i \in ForkedThreads
        PROVE  /\ \A x \in Int : x \in Share(i) <=> \E n \in 1..Len(done[i]) : done[i][n] = x
               /\ \A n \in 1..Len(done[i]) : done[i][n] \in Int
    <2>1. next[i] >= end[i] /\ next[i] \in Int /\ end[i] \in Int /\ done[i] \in Seq(Int)
      BY <1>1 DEF ForkInv, ForkTypes, Progress
    <2>2. \A x \in Int : x \in Share(i) <=> (next[i] <= x /\ x < end[i])
                                        \/ (\E n \in 1..Len(done[i]) : done[i][n] = x)
      BY ShareOf DEF ForkInv
    <2>3. QED
      BY <2>1, <2>2
  <1>4. ASSUME NEW x \in Int, Lowest <= x, x < Limit, Wanted(x)
        PROVE  \E i \in ForkedThreads : \E n \in 1..Len(done[i]) :
                 /\ done[i][n] = x
                 /\ \A j \in ForkedThreads : \A m \in 1..Len(done[j]) :
                      done[j][m] = x => j = i /\ m = n
    <2>1. PICK i \in ForkedThreads : x \in Share(i)
      BY <1>1, <1>2, <1>4 DEF ForkInv, Covered
    <2>2. PICK n \in 1..Len(done[i]) : done[i][n] = x
      BY <1>3, <2>1
    <2>3. ASSUME NEW j \in ForkedThreads, NEW m \in 1..Len(done[j]), done[j][m] = x
          PROVE  j = i /\ m = n
      <3>1. x \in Share(j)
        BY <1>3, <2>3
      <3>2. j = i
        BY <2>1, <3>1 DEF ForkInv, SharesDisjoint
      <3>3. QED
        BY <2>2, <2>3, <3>2 DEF ForkInv, InTurn
    <2>4. QED
      BY <2>2, <2>3
  <1>5. ASSUME NEW i \in ForkedThreads, NEW n \in 1..Len(done[i])
        PROVE  Lowest <= done[i][n] /\ done[i][n] < Limit /\ Wanted(done[i][n])
    <2>1. done[i][n] \in Int /\ done[i][n] \in Share(i)
      BY <1>3
    <2>2. QED
      BY <2>1 DEF ForkInv, Within, InTurn
  <1>6. QED
    BY <1>4, <1>5 DEF EachElementOnce

(* When all threads have been joined every element - in parallel_prime_number_finder every
   prime - has been dealt with exactly once, and nothing else has. *)
THEOREM ForkDealsWithEach == ForkSpec => []EachElementOnce
  <1>1. ForkInv => EachElementOnce
    BY EachElementThen
  <1>2. QED
    BY <1>1, ForkInvariance, PTL
-----------------------------------------------------------------------------
(* Behind an empty range of the matrix there is nothing. *)
LEMMA NoMoreRanges ==
  ASSUME exercise \in Exercises, exercise.name = "parallel_matrix_multiplication",
         NEW i \in ForkedThreads, Boundary(i) >= Boundary(i+1)
  PROVE  \A k \in 0..exercise.threads : k >= i => Boundary(k) = Limit
  <1>1. PICK e \in Nat, t \in Nat \ {0}, r \in Nat :
          /\ e = elementsPerThread /\ t = exercise.threads /\ r = remainingRows /\ r < t
          /\ exercise.size = t * e + r
    BY ExerciseType
  <1>2. /\ Lowest = 0 /\ Limit = exercise.size
        /\ \A k : Boundary(k) = k * e + IF k < r THEN k ELSE r
    BY <1>1 DEF Lowest, Limit, Boundary, Dynamic
  <1>3. i \in Nat /\ i * e \in Nat /\ (i+1) * e = i * e + e
    BY <1>1, Multiples DEF ForkedThreads
  <1>4. e = 0 /\ i >= r
    BY <1>1, <1>2, <1>3
  <1>5. \A k \in Nat : k * e = 0
    BY <1>4
  <1>6. QED
    BY <1>1, <1>2, <1>3, <1>4, <1>5

LEMMA FromTheStartStep ==
  ASSUME ForkInv, FromTheStart, [ForkNext]_forkVars  PROVE  FromTheStart'
  <1>1. exercise' = exercise
    BY DEF ForkNext, LaunchesFixed, LaunchesDynamic, Thread, Reserves, Works, EndsRange, Merges,
           Joins, ForkEnded, forkVars
  <1>2. CASE Dynamic
    BY <1>1, <1>2, ForkFacts DEF FromTheStart
  <1>3. CASE ~Dynamic
    <2> DEFINE Good(i) == /\ end[i] = Boundary(i+1) /\ next[i] <= end[i]
                          /\ next[i] = Boundary(i) + Len(done[i])
                          /\ \A n \in 1..Len(done[i]) : done[i][n] = Boundary(i) + n - 1
    <2> SUFFICES ASSUME NEW i \in ForkedThreads, i < launched'  PROVE  Good(i)'
      BY <1>1, ForkFacts DEF FromTheStart
    <2>1. /\ Boundary(i) \in Int /\ Boundary(i+1) \in Int /\ Boundary(i) <= Boundary(i+1)
          /\ Boundary(i)' = Boundary(i) /\ Boundary(i+1)' = Boundary(i+1)
      BY <1>1, <1>3, Boundaries, ForkFacts
    <2>2. i < launched => Good(i)
      BY <1>3 DEF FromTheStart
    <2>3. CASE LaunchesFixed
      <3>1. /\ launched' = launched + 1 /\ done' = done
            /\ next' = [next EXCEPT ![launched] = FixedRange(launched).start]
            /\ end' = [end EXCEPT ![launched] = FixedRange(launched).stop]
        BY <2>3 DEF LaunchesFixed
      <3>2. CASE i = launched
        <4>1. FixedRange(i).start = Boundary(i) /\ FixedRange(i).stop = Boundary(i+1)
          <5>1. i # 0 => startRow = Boundary(i)
            BY <1>3, <3>2 DEF ForkInv, Progress, Frontier
          <5>2. i = 0 => startRow = 0
            BY <3>2 DEF ForkInv, Progress
          <5>3. QED
            BY <1>1, <1>3, <5>1, <5>2, Boundaries, ForkFacts
        <4>2. next'[i] = Boundary(i) /\ end'[i] = Boundary(i+1) /\ done'[i] = done[i]
          BY <1>1, <3>1, <3>2, <4>1, ForkFacts
        <4>3. done[i] = <<>>
          <5>1. ~(i < launched)
            BY <1>1, <3>2, ForkFacts
          <5>2. QED
            BY <5>1 DEF ForkInv, Progress
        <4>4. Len(done[i]) = 0
          BY <4>3
        <4>5. QED
          BY <2>1, <4>2, <4>4
      <3>3. CASE i # launched
        <4>1. i < launched
          BY <1>1, <3>1, <3>3, ForkFacts
        <4>2. next'[i] = next[i] /\ end'[i] = end[i] /\ done'[i] = done[i]
          BY <1>1, <3>1, <3>3, ForkFacts
        <4>3. QED
          BY <2>1, <2>2, <4>1, <4>2
      <3>4. QED
        BY <3>2, <3>3
    <2>4. ASSUME NEW h \in ForkedThreads, Works(h)  PROVE  Good(i)'
      <3>1. /\ launched' = launched /\ end' = end /\ next[h] < end[h]
            /\ next' = [next EXCEPT ![h] = @ + 1]
            /\ done' = [done EXCEPT ![h] = Append(@, next[h])]
        BY <1>3, <2>4 DEF Works
      <3>2. CASE i = h
        <4>1. PICK a \in Int, b \in Int, s \in Seq(Int) : a = next[i] /\ b = end[i] /\ s = done[i]
          BY <1>1, ForkFacts
        <4>2. next'[i] = a + 1 /\ done'[i] = Append(s, a) /\ end'[i] = b /\ a < b
          BY <1>1, <3>1, <3>2, <4>1, ForkFacts
        <4>3. /\ b = Boundary(i+1) /\ a = Boundary(i) + Len(s)
              /\ \A n \in 1..Len(s) : s[n] = Boundary(i) + n - 1
          BY <2>2, <3>1, <4>1
        <4>4. PICK u \in Seq(Int) : u = Append(s, a)
          <5>1. Append(s, a) \in Seq(Int)
            OBVIOUS
          <5>2. QED
            BY <5>1
        <4>5. Len(u) = Len(s) + 1 /\ Len(s) \in Nat /\ u[Len(s) + 1] = a
              /\ \A n \in 1..Len(s) : u[n] = s[n]
          BY <4>4
        <4>6. \A n \in 1..Len(u) : u[n] = Boundary(i) + n - 1
          <5> SUFFICES ASSUME NEW n \in 1..Len(u)  PROVE  u[n] = Boundary(i) + n - 1
            OBVIOUS
          <5>1. CASE n = Len(s) + 1
            BY <5>1, <4>3, <4>5, <2>1
          <5>2. CASE n # Len(s) + 1
            <6>1. n \in 1..Len(s)
              BY <5>2, <4>5
            <6>2. QED
              BY <6>1, <4>3, <4>5
          <5>3. QED
            BY <5>1, <5>2
        <4>7. a + 1 <= b /\ a + 1 = Boundary(i) + Len(u)
          BY <2>1, <4>2, <4>3, <4>5
        <4>8. QED
          BY <2>1, <4>2, <4>3, <4>4, <4>6, <4>7
      <3>3. CASE i # h
        <4>1. next'[i] = next[i] /\ end'[i] = end[i] /\ done'[i] = done[i] /\ i < launched
          BY <1>1, <3>1, <3>3, ForkFacts
        <4>2. QED
          BY <2>1, <2>2, <4>1
      <3>4. QED
        BY <3>2, <3>3
    <2>5. ASSUME UNCHANGED <<launched, next, end, done>>  PROVE  Good(i)'
      BY <2>1, <2>2, <2>5
    <2>6. ASSUME NEW h \in ForkedThreads, Reserves(h)  PROVE  FALSE
      BY <1>3, <2>6 DEF Reserves, ForkInv, Reserving
    <2>7. QED
      BY <1>3, <2>3, <2>4, <2>5, <2>6
         DEF ForkNext, LaunchesDynamic, Thread, EndsRange, Merges, Joins, ForkEnded, forkVars, range
  <1>4. QED
    BY <1>2, <1>3

(* Nothing is put together in the step. *)
LEMMA NothingMerged ==
  ASSUME ForkInv, InOrder, Gathered, exercise' = exercise, result' = result,
         \A i \in ForkedThreads : stage[i] = "joined" => stage'[i] = "joined" /\ done'[i] = done[i],
         \A i \in ForkedThreads : stage'[i] = "joined" /\ stage[i] # "joined" =>
           /\ ~Dynamic
           /\ \A k \in 0..exercise.threads : k >= i => Boundary(k) = Limit
  PROVE  InOrder' /\ Gathered'
  <1>1. InOrder'
    <2>1. \A x : Value(x)' = Value(x)
      BY DEF Value
    <2> DEFINE R(j) == [k \in 1..Boundary(j) - Lowest |-> Value(Lowest + k - 1)]
    <2>2. \A j : R(j)' = R(j)
      <3> SUFFICES ASSUME NEW j  PROVE  R(j)' = R(j)
        OBVIOUS
      <3>1. Boundary(j)' = Boundary(j) /\ Lowest' = Lowest
        BY ForkFacts
      <3>2. QED
        BY <2>1, <3>1
    <2> SUFFICES ASSUME ~Dynamic  PROVE  InOrder'
      BY ForkFacts DEF InOrder
    <2>3. PICK j \in 0..exercise.threads :
            /\ result = R(j)
            /\ \A i \in ForkedThreads :
                 /\ i < j => stage[i] = "joined"
                 /\ i >= j /\ stage[i] = "joined" =>
                      \A k \in 0..exercise.threads : k >= i => Boundary(k) = Limit
      BY DEF InOrder
    <2>4. /\ result' = R(j)'
          /\ \A i \in ForkedThreads :
               /\ i < j => stage'[i] = "joined"
               /\ i >= j /\ stage'[i] = "joined" =>
                    \A k \in 0..exercise.threads : k >= i => Boundary(k) = Limit
      <3>1. result' = R(j)'
        BY <2>2, <2>3
      <3>2. QED
        BY <3>1, <2>3
    <2>5. QED
      BY <2>4, ForkFacts DEF InOrder
  <1>2. Gathered'
    <2>1. \A i \in ForkedThreads : Dynamic => (stage'[i] = "joined" <=> stage[i] = "joined")
      OBVIOUS
    <2>2. QED
      BY <2>1, ForkFacts DEF Gathered
  <1>3. QED
    BY <1>1, <1>2
(* The last elements of a concatenation, and the first. *)
LEMMA Concatenation ==
  ASSUME NEW S, NEW s \in Seq(S), NEW u \in Seq(S)
  PROVE  /\ s \o u \in Seq(S) /\ Len(s \o u) = Len(s) + Len(u)
         /\ \A n \in 1..Len(s) : (s \o u)[n] = s[n]
         /\ \A n \in 1..Len(u) : (s \o u)[Len(s) + n] = u[n]
         /\ \A n \in 1..Len(s \o u) : \/ n \in 1..Len(s)
                                      \/ \E m \in 1..Len(u) : n = Len(s) + m
  <1>1. s \o u \in Seq(S) /\ Len(s \o u) = Len(s) + Len(u) /\ Len(s) \in Nat /\ Len(u) \in Nat
    OBVIOUS
  <1>2. \A n \in 1..Len(s) + Len(u) : (s \o u)[n] = IF n <= Len(s) THEN s[n] ELSE u[n - Len(s)]
    OBVIOUS
  <1>3. \A n \in 1..Len(s) : (s \o u)[n] = s[n]
    BY <1>1, <1>2
  <1>4. ASSUME NEW n \in 1..Len(u)  PROVE  (s \o u)[Len(s) + n] = u[n]
    <2>1. PICK k \in 1..Len(s) + Len(u) : k = Len(s) + n /\ ~(k <= Len(s)) /\ k - Len(s) = n
      BY <1>1
    <2>2. QED
      BY <1>2, <2>1
  <1>5. ASSUME NEW n \in 1..Len(s) + Len(u), n \notin 1..Len(s)
        PROVE  \E m \in 1..Len(u) : n = Len(s) + m
    <2>1. n - Len(s) \in 1..Len(u) /\ n = Len(s) + (n - Len(s))
      BY <1>1, <1>5
    <2>2. QED
      BY <2>1
  <1>6. QED
    BY <1>1, <1>3, <1>4, <1>5

(* A step of the launching loop, of a thread, or none, in which nothing is merged. *)
LEMMA ResultSteps ==
  ASSUME ForkInv, FromTheStart, InOrder, Gathered, [ForkNext]_forkVars,
         ~(\E i \in ForkedThreads : Merges(i) \/ Joins(i))
  PROVE  InOrder' /\ Gathered'
  <1>1. exercise' = exercise /\ result' = result
    BY DEF ForkNext, LaunchesFixed, LaunchesDynamic, Thread, Reserves, Works, EndsRange,
           ForkEnded, forkVars
  <1>2. ASSUME NEW i \in ForkedThreads, NEW s, stage[i] # "joined", s # "joined",
               stage' = [stage EXCEPT ![i] = s], done' = done
        PROVE  InOrder' /\ Gathered'
    <2>1. \A j \in ForkedThreads : /\ done'[j] = done[j] /\ (j # i => stage'[j] = stage[j])
                                   /\ stage'[i] = s
      BY <1>1, <1>2, ForkFacts
    <2>2. \A j \in ForkedThreads : stage'[j] = "joined" <=> stage[j] = "joined"
      BY <1>2, <2>1
    <2>3. QED
      BY <1>1, <2>1, <2>2, NothingMerged
  <1>3. CASE LaunchesFixed
    <2>1. PICK i \in ForkedThreads : i = launched
      BY <1>1, <1>3, ForkFacts DEF LaunchesFixed, ForkedThreads
    <2>2. stage[i] = "unborn" /\ done' = done /\ ~Dynamic
      <3>1. ~(i < launched)
        BY <1>1, <2>1, ForkFacts
      <3>2. QED
        BY <3>1, <1>3 DEF LaunchesFixed, ForkInv, Progress
    <2>3. CASE /\ exercise.name = "parallel_matrix_multiplication"
               /\ FixedRange(i).start >= FixedRange(i).stop
      <3>1. stage' = [stage EXCEPT ![i] = "joined"]
        BY <1>3, <2>1, <2>3 DEF LaunchesFixed
      <3>2. FixedRange(i).start = Boundary(i) /\ FixedRange(i).stop = Boundary(i+1)
        <4>1. i # 0 => startRow = Boundary(i)
          BY <2>1, <2>2 DEF ForkInv, Progress, Frontier
        <4>2. i = 0 => startRow = 0
          BY <2>1 DEF ForkInv, Progress
        <4>3. QED
          BY <1>1, <2>2, <4>1, <4>2, Boundaries, ForkFacts
      <3>3. \A k \in 0..exercise.threads : k >= i => Boundary(k) = Limit
        BY <1>1, <2>3, <3>2, ForkFacts, NoMoreRanges
      <3>4. \A j \in ForkedThreads : done'[j] = done[j] /\ (j # i => stage'[j] = stage[j])
        BY <1>1, <2>2, <3>1, ForkFacts
      <3>5. /\ \A j \in ForkedThreads : stage[j] = "joined" => stage'[j] = "joined" /\ done'[j] = done[j]
            /\ \A j \in ForkedThreads : stage'[j] = "joined" /\ stage[j] # "joined" => j = i
        BY <2>2, <3>4
      <3>6. QED
        BY <1>1, <2>2, <3>3, <3>5, NothingMerged
    <2>4. CASE ~(/\ exercise.name = "parallel_matrix_multiplication"
                 /\ FixedRange(i).start >= FixedRange(i).stop)
      <3>1. stage' = [stage EXCEPT ![i] = "work"]
        BY <1>3, <2>1, <2>4 DEF LaunchesFixed
      <3>2. QED
        BY <2>2, <3>1, <1>2
    <2>5. QED
      BY <2>3, <2>4
  <1>4. CASE LaunchesDynamic
    <2>1. PICK i \in ForkedThreads : i = launched
      BY <1>1, <1>4, ForkFacts DEF LaunchesDynamic, ForkedThreads
    <2>2. ~(i < launched)
      BY <1>1, <2>1, ForkFacts
    <2>3. stage[i] = "unborn" /\ done' = done /\ stage' = [stage EXCEPT ![i] = "reserve"]
      BY <2>1, <2>2, <1>4 DEF LaunchesDynamic, ForkInv, Progress
    <2>4. QED
      BY <2>3, <1>2
  <1>5. ASSUME NEW i \in ForkedThreads, Reserves(i) \/ EndsRange(i)
        PROVE  InOrder' /\ Gathered'
    <2>1. PICK s \in {"merge", "work", "reserve", "finished"} : stage' = [stage EXCEPT ![i] = s]
      BY <1>5 DEF Reserves, EndsRange
    <2>2. stage[i] # "joined" /\ done' = done
      BY <1>5 DEF Reserves, EndsRange
    <2>3. QED
      BY <1>2, <2>1, <2>2
  <1>6. ASSUME NEW i \in ForkedThreads, Works(i)
        PROVE  InOrder' /\ Gathered'
    <2>1. stage' = stage /\ stage[i] = "work" /\ \A j \in ForkedThreads : j # i => done'[j] = done[j]
      BY <1>1, <1>6, ForkFacts DEF Works
    <2>2. QED
      BY <1>1, <2>1, NothingMerged
  <1>7. CASE UNCHANGED forkVars
    BY <1>1, <1>7, NothingMerged DEF forkVars
  <1>8. QED
    BY <1>3, <1>4, <1>5, <1>6, <1>7 DEF ForkNext, Thread, ForkEnded

LEMMA BoundariesFromLowest ==
  ASSUME exercise \in Exercises, ~Dynamic, NEW i \in ForkedThreads
  PROVE  Lowest <= Boundary(i)
  <1>1. PICK e \in Nat, t \in Nat \ {0}, r \in Nat :
          e = elementsPerThread /\ t = exercise.threads /\ r = remainingRows
    BY ExerciseType
  <1>2. /\ i \in Nat /\ i # t /\ i * e \in Nat /\ Lowest \in Int
        /\ exercise.name \in {"parallel_sum", "fake_image_processing", "parallel_image_filter",
                              "parallel_matrix_multiplication", "multiple_async_tasks"}
    BY <1>1, Multiples, ExerciseType DEF ForkedThreads, Dynamic
  <1>3. CASE exercise.name = "parallel_matrix_multiplication"
    BY <1>1, <1>2, <1>3 DEF Boundary, Lowest
  <1>4. CASE exercise.name = "multiple_async_tasks"
    BY <1>2, <1>4 DEF Boundary, Lowest
  <1>5. CASE exercise.name \in {"parallel_sum", "fake_image_processing", "parallel_image_filter"}
    <2>1. Boundary(i) = Lowest + i * e
      BY <1>1, <1>2, <1>5 DEF Boundary
    <2>2. QED
      BY <1>2, <2>1
  <1>6. QED
    BY <1>2, <1>3, <1>4, <1>5

(* Two stretches of a function, put one after the other. *)
LEMMA Stretches ==
  ASSUME NEW V, NEW f \in [Int -> V], NEW l \in Int, NEW a \in Int, NEW b \in Int, l <= a, a <= b
  PROVE  [k \in 1..a - l |-> f[l + k - 1]] \o [k \in 1..b - a |-> f[a + k - 1]]
           = [k \in 1..b - l |-> f[l + k - 1]]
  <1> DEFINE s == [k \in 1..a - l |-> f[l + k - 1]]
             u == [k \in 1..b - a |-> f[a + k - 1]]
             w == [k \in 1..b - l |-> f[l + k - 1]]
  <1>1. /\ s \in Seq(V) /\ Len(s) = a - l /\ \A k \in 1..a - l : s[k] = f[l + k - 1]
        /\ u \in Seq(V) /\ Len(u) = b - a /\ \A k \in 1..b - a : u[k] = f[a + k - 1]
        /\ w \in Seq(V) /\ Len(w) = b - l /\ \A k \in 1..b - l : w[k] = f[l + k - 1]
    <2>1. a - l \in Nat /\ b - a \in Nat /\ b - l \in Nat
      OBVIOUS
    <2>2. s \in Seq(V) /\ Len(s) = a - l
      BY <2>1
    <2>3. u \in Seq(V) /\ Len(u) = b - a
      BY <2>1
    <2>4. w \in Seq(V) /\ Len(w) = b - l
      BY <2>1
    <2>5. QED
      BY <2>2, <2>3, <2>4
  <1> HIDE DEF s, u, w
  <1>2. /\ s \o u \in Seq(V) /\ Len(s \o u) = b - l
        /\ \A k \in 1..a - l : (s \o u)[k] = s[k]
        /\ \A k \in 1..b - a : (s \o u)[a - l + k] = u[k]
    <2>1. /\ s \o u \in Seq(V) /\ Len(s \o u) = Len(s) + Len(u)
          /\ \A n \in 1..Len(s) : (s \o u)[n] = s[n]
          /\ \A n \in 1..Len(u) : (s \o u)[Len(s) + n] = u[n]
      <3>1. s \in Seq(V) /\ u \in Seq(V)
        BY <1>1
      <3>2. QED
        BY <3>1, Concatenation
    <2>2. Len(s) = a - l /\ Len(u) = b - a
      BY <1>1
    <2>3. Len(s \o u) = b - l
      BY <2>1, <2>2
    <2>4. QED
      BY <2>1, <2>2, <2>3
  <1>3. \A k \in 1..b - l : (s \o u)[k] = w[k]
    <2> SUFFICES ASSUME NEW k \in 1..b - l  PROVE  (s \o u)[k] = w[k]
      OBVIOUS
    <2>1. CASE k <= a - l
      <3>1. k \in 1..a - l
        BY <2>1
      <3>2. QED
        BY <3>1, <1>1, <1>2
    <2>2. CASE ~(k <= a - l)
      <3>1. PICK m \in 1..b - a : k = a - l + m
        <4>1. k - (a - l) \in 1..b - a /\ k = a - l + (k - (a - l))
          BY <2>2
        <4>2. QED
          BY <4>1
      <3>2. (s \o u)[k] = f[a + m - 1]
        BY <3>1, <1>1, <1>2
      <3>3. w[k] = f[l + k - 1] /\ l + k - 1 = a + m - 1
        BY <3>1, <1>1
      <3>4. QED
        BY <3>2, <3>3
    <2>3. QED
      BY <2>1, <2>2
  <1>4. s \o u = w
    <2>1. s \o u \in Seq(V) /\ w \in Seq(V) /\ Len(s \o u) = Len(w) /\ Len(w) = b - l
      BY <1>1, <1>2
    <2>2. QED
      BY <2>1, <1>3, SeqEqual
  <1>5. QED
    BY <1>4 DEF s, u, w

(* A thread adds the primes of its chunks. *)
LEMMA ResultMerges ==
  ASSUME ForkInv, Gathered, NEW i \in ForkedThreads, Merges(i)
  PROVE  InOrder' /\ Gathered'
  <1>1. /\ exercise' = exercise /\ done' = done /\ stage[i] = "merge"
        /\ stage' = [stage EXCEPT ![i] = "joined"] /\ Dynamic
    BY DEF Merges, ForkInv, Reserving
  <1>2. PICK d \in Seq(Int), r \in Seq(Int), q \in Seq(Int) :
          d = done[i] /\ r = result /\ q = r \o d /\ q = result'
    <2>1. result \in Seq(Int) /\ done[i] \in Seq(Int) /\ result' = result \o done[i]
      BY <1>1, ForkFacts DEF Merges, Gathered
    <2>2. result \o done[i] \in Seq(Int)
      BY <2>1
    <2>3. QED
      BY <2>1, <2>2
  <1>3. /\ Len(q) = Len(r) + Len(d) /\ Len(r) \in Nat /\ Len(d) \in Nat
        /\ \A n \in 1..Len(r) : q[n] = r[n]
        /\ \A n \in 1..Len(d) : q[Len(r) + n] = d[n]
        /\ \A n \in 1..Len(q) : n \in 1..Len(r) \/ \E m \in 1..Len(d) : n = Len(r) + m
    <2>1. q = r \o d /\ Len(r) \in Nat /\ Len(d) \in Nat
      BY <1>2
    <2>2. QED
      BY <2>1, Concatenation
  <1>4. PICK P : P = ForkedThreads
    OBVIOUS
  <1>5. PICK J : J = {j \in P : stage[j] = "joined"}
    OBVIOUS
  <1>6. PICK D : D = [j \in P |-> ToSet(done[j])]
    OBVIOUS
  <1>7. i \in P /\ i \notin J /\ {j \in P : stage'[j] = "joined"} = J \cup {i} /\ J \subseteq P
    BY <1>1, <1>4, <1>5, ForkFacts
  <1>8. /\ \A n \in 1..Len(r) : \E j \in J : r[n] \in D[j]
        /\ \A j \in J : \A x \in D[j] : \E n \in 1..Len(r) : r[n] = x
        /\ \A m, n \in 1..Len(r) : r[m] = r[n] => m = n
    BY <1>1, <1>2, <1>4, <1>5, <1>6 DEF Gathered
  <1>9. \A j \in J : D[i] \cap D[j] = {}
    <2> SUFFICES ASSUME NEW j \in J  PROVE  D[i] \cap D[j] = {}
      OBVIOUS
    <2>1. Share(i) \cap Share(j) = {}
      BY <1>4, <1>7 DEF ForkInv, SharesDisjoint
    <2>2. QED
      BY <2>1, <1>6, <1>7 DEF Share
  <1>10. D[i] = {d[n] : n \in 1..Len(d)}
    BY <1>2, <1>6, <1>7, ToSetOf
  <1>11. \A m, n \in 1..Len(d) : d[m] = d[n] => m = n
    BY <1>2 DEF ForkInv, InTurn
  <1>12. \A n \in 1..Len(q) : \E j \in J \cup {i} : q[n] \in D[j]
    <2> SUFFICES ASSUME NEW n \in 1..Len(q)  PROVE  \E j \in J \cup {i} : q[n] \in D[j]
      OBVIOUS
    <2>1. CASE n \in 1..Len(r)
      BY <2>1, <1>3, <1>8
    <2>2. CASE n \notin 1..Len(r)
      <3>1. PICK m \in 1..Len(d) : n = Len(r) + m
        BY <2>2, <1>3
      <3>2. q[n] = d[m]
        BY <3>1, <1>3
      <3>3. QED
        BY <3>2, <1>10
    <2>3. QED
      BY <2>1, <2>2
  <1>13. \A j \in J \cup {i} : \A x \in D[j] : \E n \in 1..Len(q) : q[n] = x
    <2> SUFFICES ASSUME NEW j \in J \cup {i}, NEW x \in D[j]
                 PROVE  \E n \in 1..Len(q) : q[n] = x
      OBVIOUS
    <2>1. CASE j \in J
      <3>1. PICK n \in 1..Len(r) : r[n] = x
        BY <2>1, <1>8
      <3>2. n \in 1..Len(q) /\ q[n] = x
        BY <3>1, <1>3
      <3>3. QED
        BY <3>2
    <2>2. CASE j = i
      <3>1. PICK m \in 1..Len(d) : d[m] = x
        BY <2>2, <1>10
      <3>2. Len(r) + m \in 1..Len(q) /\ q[Len(r) + m] = x
        <4>1. Len(r) \in Nat /\ Len(d) \in Nat /\ Len(q) = Len(r) + Len(d)
          BY <1>3
        <4>2. QED
          BY <3>1, <4>1, <1>3
      <3>3. QED
        BY <3>2
    <2>3. QED
      BY <2>1, <2>2
  <1>14. \A m, n \in 1..Len(q) : q[m] = q[n] => m = n
    <2>1. \A m \in 1..Len(r), n \in 1..Len(d) : r[m] # d[n]
      <3> SUFFICES ASSUME NEW m \in 1..Len(r), NEW n \in 1..Len(d), r[m] = d[n]  PROVE  FALSE
        OBVIOUS
      <3>1. PICK j \in J : r[m] \in D[j]
        BY <1>8
      <3>2. d[n] \in D[i]
        BY <1>10
      <3>3. QED
        BY <3>1, <3>2, <1>9
    <2> SUFFICES ASSUME NEW m \in 1..Len(q), NEW n \in 1..Len(q), q[m] = q[n]  PROVE  m = n
      OBVIOUS
    <2>2. CASE m \in 1..Len(r) /\ n \in 1..Len(r)
      BY <2>2, <1>3, <1>8
    <2>3. CASE m \in 1..Len(r) /\ n \notin 1..Len(r)
      <3>1. PICK k \in 1..Len(d) : n = Len(r) + k
        BY <2>3, <1>3
      <3>2. q[n] = d[k] /\ q[m] = r[m]
        BY <3>1, <2>3, <1>3
      <3>3. QED
        BY <3>2, <2>1, <2>3
    <2>4. CASE m \notin 1..Len(r) /\ n \in 1..Len(r)
      <3>1. PICK k \in 1..Len(d) : m = Len(r) + k
        BY <2>4, <1>3
      <3>2. q[m] = d[k] /\ q[n] = r[n]
        BY <3>1, <2>4, <1>3
      <3>3. QED
        BY <3>2, <2>1, <2>4
    <2>5. CASE m \notin 1..Len(r) /\ n \notin 1..Len(r)
      <3>1. PICK k \in 1..Len(d) : m = Len(r) + k
        BY <2>5, <1>3
      <3>2. PICK l \in 1..Len(d) : n = Len(r) + l
        BY <2>5, <1>3
      <3>3. d[k] = d[l]
        BY <3>1, <3>2, <1>3
      <3>4. QED
        BY <3>1, <3>2, <3>3, <1>11
    <2>6. QED
      BY <2>2, <2>3, <2>4, <2>5
  <1>15. Gathered'
    <2>1. \A n \in 1..Len(q) : \E j \in P : stage'[j] = "joined" /\ q[n] \in D[j]
      BY <1>7, <1>12
    <2>2. \A j \in P : stage'[j] = "joined" => \A x \in D[j] : \E n \in 1..Len(q) : q[n] = x
      BY <1>7, <1>13
    <2>3. ForkedThreads' = P /\ \A j \in P : ToSet(done'[j]) = D[j]
      BY <1>1, <1>4, <1>6, ForkFacts
    <2>4. QED
      <3>1. result' = q /\ q \in Seq(Int)
        BY <1>2
      <3>2. \A n \in 1..Len(q) :
              \E j \in ForkedThreads' : stage'[j] = "joined" /\ q[n] \in ToSet(done'[j])
        BY <2>1, <2>3
      <3>3. \A j \in ForkedThreads' : stage'[j] = "joined" =>
              \A x \in ToSet(done'[j]) : \E n \in 1..Len(q) : q[n] = x
        BY <2>2, <2>3
      <3>4. QED
        <4>1. Len(q) \in Nat /\ (\A m, n \in 1..Len(q) : q[m] = q[n] => m = n)
          BY <1>14, <3>1
        <4>2. QED
          BY <3>1, <3>2, <3>3, <4>1, Zenon DEF Gathered
  <1>16. InOrder'
    BY <1>1, ForkFacts DEF InOrder
  <1>17. QED
    BY <1>15, <1>16

(* main() takes the results of the next thread. *)
LEMMA ResultJoins ==
  ASSUME ForkInv, FromTheStart, InOrder, NEW i \in ForkedThreads, Joins(i)
  PROVE  InOrder' /\ Gathered'
  <1>1. /\ exercise' = exercise /\ done' = done /\ stage[i] = "finished" /\ ~Dynamic
        /\ stage' = [stage EXCEPT ![i] = "joined"] /\ launched = exercise.threads
        /\ \A j \in 0..i-1 : stage[j] = "joined"
    BY DEF Joins, ForkInv, Reserving
  <1>2. \A x : Value(x)' = Value(x)
    BY <1>1 DEF Value
  <1>3. PICK V : V = {Value(x) : x \in Int}
    OBVIOUS
  <1>4. PICK j \in 0..exercise.threads :
          /\ result = [k \in 1..Boundary(j) - Lowest |-> Value(Lowest + k - 1)]
          /\ \A h \in ForkedThreads :
               /\ h < j => stage[h] = "joined"
               /\ h >= j /\ stage[h] = "joined" =>
                    \A k \in 0..exercise.threads : k >= h => Boundary(k) = Limit
    BY <1>1 DEF InOrder
  <1>5. i \in Nat /\ j \in Nat /\ j <= i /\ i + 1 \in 0..exercise.threads /\ i \in 0..exercise.threads
    <2>1. exercise.threads \in Nat /\ i \in 0..exercise.threads - 1
      BY <1>1, ForkFacts DEF ForkedThreads
    <2>2. ~(i < j)
      BY <1>1, <1>4
    <2>3. QED
      BY <2>1, <2>2
  <1>6. Boundary(j) = Boundary(i)
    <2>1. CASE j < i
      <3>1. j \in ForkedThreads /\ j \in 0..i-1
        BY <1>1, <1>5, <2>1, ForkFacts DEF ForkedThreads
      <3>2. stage[j] = "joined" /\ j >= j /\ i >= j
        BY <1>1, <1>5, <3>1
      <3>3. \A k \in 0..exercise.threads : k >= j => Boundary(k) = Limit
        BY <1>4, <3>1, <3>2
      <3>4. QED
        BY <1>5, <3>2, <3>3
    <2>2. CASE j = i
      BY <2>2
    <2>3. QED
      BY <1>5, <2>1, <2>2
  <1>7. PICK a \in Int, b \in Int, l \in Int :
          a = Boundary(i) /\ b = Boundary(i+1) /\ l = Lowest /\ a <= b /\ l <= a
    <2>1. /\ Boundary(i) \in Int /\ Boundary(i+1) \in Int /\ Boundary(i) <= Boundary(i+1)
          /\ Lowest \in Int
      BY <1>1, Boundaries, ForkFacts
    <2>2. Lowest <= Boundary(i)
      BY <1>1, BoundariesFromLowest, ForkFacts
    <2>3. QED
      BY <2>1, <2>2
  <1>8. PICK d : /\ d \in Seq(Int) /\ d = done[i] /\ Len(d) = b - a
                 /\ \A n \in 1..Len(d) : d[n] = a + n - 1
    <2>1. done[i] \in Seq(Int) /\ next[i] \in Int /\ end[i] \in Int /\ i < launched
      BY <1>1, ForkFacts DEF ForkInv, Progress
    <2>2. next[i] >= end[i]
      BY <1>1 DEF ForkInv, Progress
    <2>3. /\ end[i] = b /\ next[i] <= end[i] /\ next[i] = a + Len(done[i])
          /\ \A n \in 1..Len(done[i]) : done[i][n] = a + n - 1
      BY <1>1, <1>7, <2>1 DEF FromTheStart
    <2>4. Len(done[i]) = b - a
      <3>1. next[i] = b
        <4>1. end[i] = b /\ next[i] <= end[i]
          BY <2>3
        <4>2. \A x, y \in Int : x <= y /\ x >= y => x = y
          OBVIOUS
        <4>3. QED
          BY <2>1, <2>2, <4>1, <4>2
      <3>2. Len(done[i]) \in Nat /\ b = a + Len(done[i])
        BY <2>1, <2>3, <3>1
      <3>3. QED
        BY <3>2
    <2>5. QED
      BY <2>1, <2>3, <2>4
  <1>9. PICK f : f = [x \in Int |-> Value(x)]
    OBVIOUS
  <1>10. f \in [Int -> V] /\ \A x \in Int : f[x] = Value(x)
    BY <1>3, <1>9
  <1>11. result = [k \in 1..a - l |-> f[l + k - 1]]
    BY <1>4, <1>6, <1>7, <1>10
  <1>12. result' = [k \in 1..a - l |-> f[l + k - 1]] \o [n \in 1..b - a |-> f[a + n - 1]]
    <2>1. DOMAIN d = 1..b - a
      BY <1>8
    <2>2. [n \in DOMAIN d |-> Value(d[n])] = [n \in 1..b - a |-> f[a + n - 1]]
      BY <2>1, <1>8, <1>10
    <2>3. result' = result \o [n \in DOMAIN d |-> Value(d[n])]
      BY <1>8 DEF Joins
    <2>4. QED
      BY <2>2, <2>3, <1>11
  <1>13. result' = [k \in 1..b - l |-> f[l + k - 1]]
    <2>1. l <= a /\ a <= b /\ f \in [Int -> V]
      BY <1>7, <1>10
    <2>2. [k \in 1..a - l |-> f[l + k - 1]] \o [k \in 1..b - a |-> f[a + k - 1]]
            = [k \in 1..b - l |-> f[l + k - 1]]
      BY <2>1, Stretches
    <2>3. QED
      BY <2>2, <1>12
  <1>14. result' = [k \in 1..Boundary(i+1) - Lowest |-> Value(Lowest + k - 1)]
    BY <1>7, <1>10, <1>13
  <1>15. \A h \in ForkedThreads :
           /\ h < i + 1 => stage'[h] = "joined"
           /\ h >= i + 1 /\ stage'[h] = "joined" =>
                \A k \in 0..exercise.threads : k >= h => Boundary(k) = Limit
    <2> SUFFICES ASSUME NEW h \in ForkedThreads
                 PROVE  /\ h < i + 1 => stage'[h] = "joined"
                        /\ h >= i + 1 /\ stage'[h] = "joined" =>
                             \A k \in 0..exercise.threads : k >= h => Boundary(k) = Limit
      OBVIOUS
    <2>1. h \in Nat /\ stage'[i] = "joined" /\ (h # i => stage'[h] = stage[h])
      BY <1>1, ForkFacts DEF ForkedThreads
    <2>2. h < i + 1 => h = i \/ h \in 0..i-1
      BY <1>5, <2>1
    <2>3. h >= i + 1 => h # i /\ h >= j
      BY <1>5, <2>1
    <2>4. QED
      BY <1>1, <1>4, <2>1, <2>2, <2>3
  <1>16. InOrder'
    <2> DEFINE R(k) == [n \in 1..Boundary(k) - Lowest |-> Value(Lowest + n - 1)]
    <2>1. R(i+1)' = R(i+1)
      <3>1. Boundary(i+1)' = Boundary(i+1) /\ Lowest' = Lowest
        BY <1>1, ForkFacts
      <3>2. QED
        BY <1>2, <3>1
    <2>2. result' = R(i+1)'
      BY <1>14, <2>1
    <2>3. QED
      BY <2>2, <1>1, <1>5, <1>15, ForkFacts DEF InOrder
  <1>17. Gathered'
    BY <1>1, ForkFacts DEF Gathered
  <1>18. QED
    BY <1>16, <1>17

(* The results are put together in the order of the elements, and the primes without a loss
   or a repetition, whatever the threads do. *)
THEOREM ResultInvariance == ForkSpec => []ResultInv
  <1>1. ForkInit => ResultInv
    <2> SUFFICES ASSUME ForkInit  PROVE  ResultInv
      OBVIOUS
    <2>1. ForkInv
      BY ForkInitially
    <2>2. /\ launched = 0 /\ result = <<>> /\ exercise \in Exercises
          /\ \A i \in ForkedThreads : stage[i] = "unborn" /\ i \in Nat
      <3>1. exercise.threads \in Nat
        BY ExerciseType DEF ForkInit
      <3>2. QED
        BY <3>1 DEF ForkInit, ForkedThreads
    <2>3. FromTheStart
      BY <2>2 DEF FromTheStart
    <2>4. InOrder
      <3> SUFFICES ASSUME ~Dynamic  PROVE  InOrder
        BY DEF InOrder
      <3>1. Boundary(0) - Lowest = 0 /\ 0 \in 0..exercise.threads
        BY <2>2, Boundaries, ExerciseType
      <3>2. result = [k \in 1..Boundary(0) - Lowest |-> Value(Lowest + k - 1)]
        <4>1. 1..0 = {} /\ <<>> = [k \in {} |-> Value(Lowest + k - 1)]
          OBVIOUS
        <4>2. QED
          BY <2>2, <3>1, <4>1
      <3>3. \A i \in ForkedThreads : ~(i < 0) /\ stage[i] # "joined"
        BY <2>2
      <3>4. QED
        BY <3>1, <3>2, <3>3 DEF InOrder
    <2>5. Gathered
      <3>1. result \in Seq(Int) /\ \A n \in 1..Len(result) : FALSE
        BY <2>2
      <3>2. QED
        BY <2>2, <3>1 DEF Gathered
    <2>6. QED
      BY <2>1, <2>3, <2>4, <2>5 DEF ResultInv
  <1>2. ResultInv /\ [ForkNext]_forkVars => ResultInv'
    <2> SUFFICES ASSUME ResultInv, [ForkNext]_forkVars  PROVE  ResultInv'
      OBVIOUS
    <2>1. ForkInv /\ FromTheStart /\ InOrder /\ Gathered
      BY DEF ResultInv
    <2>2. ForkInv'
      BY <2>1, ForkStep
    <2>3. FromTheStart'
      BY <2>1, FromTheStartStep
    <2>4. InOrder' /\ Gathered'
      BY <2>1, ResultSteps, ResultMerges, ResultJoins
    <2>5. QED
      BY <2>2, <2>3, <2>4 DEF ResultInv
  <1>3. QED
    BY <1>1, <1>2, PTL DEF ForkSpec

(* When everything has been collected the result is what one thread alone would have put
   together, the primes up to their order. *)
THEOREM EachResultIsThere == ForkSpec => []EachResultOnce
  <1>1. ResultInv => EachResultOnce
    <2> SUFFICES ASSUME ResultInv, Collected  PROVE  EachResultOnce
      BY DEF EachResultOnce
    <2>1. EachElementOnce
      BY EachElementThen DEF ResultInv
    <2>2. \A i \in ForkedThreads : stage[i] = "joined"
      BY DEF Collected
    <2>3. /\ launched = exercise.threads /\ exercise \in Exercises
          /\ exercise.threads \in Nat \ {0} /\ Lowest \in Int /\ exercise.size \in Nat
      <3>1. launched = exercise.threads /\ exercise \in Exercises
        BY DEF Collected, ResultInv, ForkInv, ForkTypes
      <3>2. QED
        BY <3>1, ExerciseType
    <2>4. ASSUME Dynamic
          PROVE  /\ \A x \in Int : Lowest <= x /\ x < Limit /\ isPrime(x) <=>
                                     \E n \in 1..Len(result) : result[n] = x
                 /\ \A m, n \in 1..Len(result) : result[m] = result[n] => m = n
      <3>1. \A i \in ForkedThreads : ToSet(done[i]) = {done[i][n] : n \in 1..Len(done[i])}
        BY ToSetOf DEF ResultInv, ForkInv, ForkTypes
      <3>2. ASSUME NEW x \in Int, Lowest <= x, x < Limit, isPrime(x)
            PROVE  \E n \in 1..Len(result) : result[n] = x
        <4>1. PICK i \in ForkedThreads : \E n \in 1..Len(done[i]) : done[i][n] = x
          BY <2>1, <3>2 DEF EachElementOnce, Wanted
        <4>2. x \in ToSet(done[i])
          BY <3>1, <4>1
        <4>3. QED
          BY <2>2, <2>4, <4>2 DEF ResultInv, Gathered
      <3>3. ASSUME NEW n \in 1..Len(result)
            PROVE  Lowest <= result[n] /\ result[n] < Limit /\ isPrime(result[n])
        <4>1. PICK i \in ForkedThreads : result[n] \in ToSet(done[i])
          BY <2>4 DEF ResultInv, Gathered
        <4>2. PICK m \in 1..Len(done[i]) : done[i][m] = result[n]
          BY <3>1, <4>1
        <4>3. QED
          BY <2>1, <2>4, <4>2 DEF EachElementOnce, Wanted
      <3>4. \A m, n \in 1..Len(result) : result[m] = result[n] => m = n
        BY <2>4 DEF ResultInv, Gathered
      <3>5. QED
        BY <3>2, <3>3, <3>4
    <2>5. ASSUME ~Dynamic
          PROVE  result = [k \in 1..exercise.size |-> Value(Lowest + k - 1)]
      <3>1. PICK j \in 0..exercise.threads :
              /\ result = [k \in 1..Boundary(j) - Lowest |-> Value(Lowest + k - 1)]
              /\ \A i \in ForkedThreads : i >= j /\ stage[i] = "joined" =>
                   \A k \in 0..exercise.threads : k >= i => Boundary(k) = Limit
        BY <2>5 DEF ResultInv, InOrder
      <3>2. Boundary(j) = Limit
        <4>1. CASE j = exercise.threads
          BY <2>3, <2>5, <4>1, Boundaries
        <4>2. CASE j # exercise.threads
          <5>1. j \in ForkedThreads /\ j >= j
            BY <2>3, <4>2 DEF ForkedThreads
          <5>2. QED
            BY <2>2, <3>1, <5>1
        <4>3. QED
          BY <4>1, <4>2
      <3>3. Boundary(j) - Lowest = exercise.size
        BY <2>3, <2>5, <3>2 DEF Limit
      <3>4. QED
        BY <3>1, <3>3
    <2>6. QED
      BY <2>4, <2>5 DEF EachResultOnce
  <1>2. QED
    BY <1>1, ResultInvariance, PTL

-----------------------------------------------------------------------------
(* Dividing, and the primality test *)

(* Induction over the natural numbers, for a property given as a set. *)
LEMMA Climbing ==
  ASSUME NEW G, G \subseteq Nat, 0 \in G, \A n \in G : n + 1 \in G
  PROVE  \A n \in Nat : n \in G
  <1> SUFFICES ASSUME Nat \ G # {} PROVE FALSE
    OBVIOUS
  <1>1. PICK n \in Nat \ G : \A k \in Nat \ G : ~(<<k, n>> \in OpToRel(<, Nat))
    BY WFMin, NatLessThanWellFounded
  <1>2. n \in Nat /\ n \notin G /\ n # 0 /\ n - 1 \in Nat /\ (n - 1) + 1 = n
    OBVIOUS
  <1>3. <<n - 1, n>> \in OpToRel(<, Nat)
    BY <1>2 DEF OpToRel
  <1>4. n - 1 \in G
    BY <1>1, <1>2, <1>3
  <1>5. QED
    BY <1>2, <1>4

(* To divide means to have a whole quotient. *)
LEMMA Divides ==
  ASSUME NEW x \in Nat, NEW d \in Nat \ {0}
  PROVE  x % d = 0 <=> \E q \in Nat : x = q * d
  <1>1. x \div d \in Nat /\ x % d \in 0..d-1 /\ x = d * (x \div d) + (x % d)
    OBVIOUS
  <1>2. ASSUME x % d = 0 PROVE x = (x \div d) * d
    BY <1>1, <1>2
  <1>3. ASSUME NEW q \in Nat, x = q * d PROVE x % d = 0
    <2> DEFINE p == x \div d  r == x % d
    <2>1. p \in Nat /\ r \in 0..d-1 /\ q * d = d * p + r
      BY <1>1, <1>3
    <2> HIDE DEF p, r
    <2>2. (q - p) * d = r /\ q - p \in Int
      BY <2>1
    <2>3. CASE q - p >= 1
      BY <2>1, <2>2, <2>3
    <2>4. CASE q - p <= -1
      BY <2>1, <2>2, <2>4
    <2>5. CASE q - p = 0
      BY <2>1, <2>2, <2>5 DEF r
    <2>6. QED
      BY <2>2, <2>3, <2>4, <2>5
  <1>4. QED
    BY <1>1, <1>2, <1>3

(* A set of natural numbers has a least one. *)
LEMMA Least ==
  ASSUME NEW G, G \subseteq Nat, G # {}
  PROVE  \E n \in G : \A k \in G : n <= k
  <1>1. PICK n \in G : \A k \in G : ~(<<k, n>> \in OpToRel(<, Nat))
    BY WFMin, NatLessThanWellFounded
  <1>2. \A k \in G : ~(k < n) /\ k \in Nat /\ n \in Nat
    BY <1>1 DEF OpToRel
  <1>3. QED
    BY <1>2

(* The least divisor of a number that is not prime: its square is not larger than the number,
   and it has itself no smaller divisor. *)
LEMMA LeastDivisor ==
  ASSUME NEW x \in Nat, NEW e \in 2..x-1, x % e = 0
  PROVE  \E d \in 2..x-1 : /\ x % d = 0 /\ d * d <= x
                           /\ \A c \in 2..d-1 : d % c # 0
  <1> DEFINE G == {d \in 2..x-1 : x % d = 0}
  <1>1. PICK d \in G : \A k \in G : d <= k
    <2>1. G \subseteq Nat
      OBVIOUS
    <2>2. e \in G
      OBVIOUS
    <2> HIDE DEF G
    <2>3. QED
      BY <2>1, <2>2, Least
  <1>2. d \in 2..x-1 /\ x % d = 0 /\ d \in Nat \ {0}
    OBVIOUS
  <1>3. PICK q \in Nat : x = q * d
    BY <1>2, Divides
  <1>4. q \in 2..x-1
    <2>1. q # 0 /\ q # 1
      BY <1>2, <1>3
    <2>2. q < x
      BY <1>2, <1>3, <2>1
    <2>3. QED
      BY <2>1, <2>2
  <1>5. x = d * q /\ q \in Nat \ {0}
    BY <1>2, <1>3, <1>4
  <1>6. x % q = 0
    BY <1>2, <1>5, Divides
  <1>7. d <= q
    BY <1>1, <1>4, <1>6
  <1>8. d * d <= x
    <2>1. d * d <= q * d
      BY <1>2, <1>4, <1>7
    <2>2. QED
      BY <1>3, <2>1
  <1>9. ASSUME NEW c \in 2..d-1, d % c = 0 PROVE FALSE
    <2>1. c \in Nat \ {0} /\ c \in 2..x-1
      BY <1>2
    <2>2. PICK p \in Nat : d = p * c
      BY <1>2, <1>9, <2>1, Divides
    <2>3. x = (q * p) * c /\ q * p \in Nat
      BY <1>2, <1>3, <2>1, <2>2
    <2>4. x % c = 0
      BY <2>1, <2>3, Divides
    <2>5. d <= c
      BY <1>1, <2>1, <2>4
    <2>6. QED
      BY <1>2, <2>5
  <1>10. QED
    BY <1>2, <1>8, <1>9

(* isPrime() looks for divisors up to the square root, and among them only at 2, 3 and those
   next to a multiple of 6: no other divisor is missed. *)
THEOREM PrimalityTest ==
  \A x \in Nat : isPrime(x) <=> x > 1 /\ \A d \in 2..x-1 : x % d # 0
  <1> SUFFICES ASSUME NEW x \in Nat
               PROVE  isPrime(x) <=> x > 1 /\ \A d \in 2..x-1 : x % d # 0
    OBVIOUS
  <1>1. CASE x <= 3
    <2>1. \A d \in 2..x-1 : x = 3 /\ d = 2
      BY <1>1
    <2>2. QED
      BY <1>1, <2>1 DEF isPrime
  <1>2. CASE x > 3
    <2>1. ASSUME isPrime(x), NEW e \in 2..x-1, x % e = 0 PROVE FALSE
      <3>1. PICK d \in 2..x-1 : x % d = 0 /\ d * d <= x /\ \A c \in 2..d-1 : d % c # 0
        BY <2>1, LeastDivisor
      <3>2. d # 2 /\ d # 3
        BY <1>2, <2>1, <3>1 DEF isPrime
      <3>3. d % 2 # 0 /\ d % 3 # 0 /\ d >= 5
        BY <3>1, <3>2
      <3>4. d % 6 = 5 \/ (d % 6 = 1 /\ d >= 7)
        BY <3>3
      <3>5. CASE d % 6 = 5
        <4>1. d \in 5..x
          BY <3>1, <3>3
        <4>2. QED
          BY <1>2, <2>1, <3>1, <3>5, <4>1, Zenon DEF isPrime
      <3>6. CASE d % 6 = 1 /\ d >= 7
        <4>1. PICK i \in 5..x : i + 2 = d
          BY <3>6
        <4>2. i % 6 = 5
          BY <3>6, <4>1
        <4>3. i * i <= d * d /\ d * d \in Int /\ i * i \in Int
          BY <4>1
        <4>4. x % (i + 2) = 0 /\ i * i <= x
          BY <3>1, <4>1, <4>3
        <4>5. QED
          BY <1>2, <2>1, <4>2, <4>4, Zenon DEF isPrime
      <3>7. QED
        BY <3>4, <3>5, <3>6
    <2>2. ASSUME \A d \in 2..x-1 : x % d # 0 PROVE isPrime(x)
      <3>1. x % 2 # 0 /\ x % 3 # 0
        BY <1>2, <2>2
      <3>2. ASSUME NEW i \in 5..x, i * i <= x
            PROVE  x % i # 0 /\ x % (i + 2) # 0
        <4>1. i * i >= 5 * i /\ i * i \in Int
          OBVIOUS
        <4>2. i \in 2..x-1 /\ i + 2 \in 2..x-1
          BY <3>2, <4>1
        <4>3. QED
          BY <2>2, <4>2
      <3>3. x > 1
        BY <1>2
      <3>4. QED
        BY <3>1, <3>2, <3>3, Zenon DEF isPrime
    <2>3. isPrime(x) => \A d \in 2..x-1 : x % d # 0
      BY <2>1
    <2>4. x > 1
      BY <1>2
    <2>5. QED
      BY <2>2, <2>3, <2>4
  <1>3. QED
    BY <1>1, <1>2

-----------------------------------------------------------------------------
(* Sums *)

\* it is the function by which the sum of f over S is computed.
Pick(s) == CHOOSE x \in s : TRUE
SumsUp(it, f, S) == it = [s \in SUBSET S |-> IF s = {} THEN 0 ELSE f[Pick(s)] + it[s \ {Pick(s)}]]

(* A set without the element picked has one less. *)
LEMMA Picking ==
  ASSUME NEW S, IsFiniteSet(S), NEW s \in SUBSET S
  PROVE  /\ Cardinality(s) \in Nat /\ (Cardinality(s) = 0 <=> s = {})
         /\ s # {} => /\ Pick(s) \in s /\ s \ {Pick(s)} \in SUBSET S
                      /\ Cardinality(s \ {Pick(s)}) = Cardinality(s) - 1
  <1>1. IsFiniteSet(s)
    BY FS_Subset
  <1>2. Cardinality(s) \in Nat /\ (Cardinality(s) = 0 <=> s = {})
    BY <1>1, FS_CardinalityType, FS_EmptySet
  <1>3. s # {} => Pick(s) \in s
    BY DEF Pick
  <1>4. s # {} => Cardinality(s \ {Pick(s)}) = Cardinality(s) - 1
    BY <1>1, <1>3, FS_RemoveElement
  <1>5. QED
    BY <1>2, <1>3, <1>4

(* There is such a function. *)
LEMMA SumsExist ==
  ASSUME NEW S, IsFiniteSet(S), NEW f \in [S -> Int]
  PROVE  \E it : SumsUp(it, f, S)
  <1> DEFINE P == SUBSET S
             Upto(n) == {s \in P : Cardinality(s) <= n}
             Step(it, s) == IF s = {} THEN 0 ELSE f[Pick(s)] + it[s \ {Pick(s)}]
             G == {n \in Nat : \E it : it = [s \in Upto(n) |-> Step(it, s)]}
  <1>1. \A s \in P : s # {} => /\ s \ {Pick(s)} \in P
                               /\ Cardinality(s \ {Pick(s)}) = Cardinality(s) - 1
    BY Picking
  <1>2. \A s \in P : Cardinality(s) \in Nat /\ (Cardinality(s) = 0 <=> s = {})
    BY Picking
  <1> HIDE DEF P
  <1>3. 0 \in G
    <2>1. \A s \in Upto(0) : s = {}
      BY <1>2
    <2> DEFINE zero == [s \in Upto(0) |-> 0]
    <2>2. zero = [s \in Upto(0) |-> Step(zero, s)]
      BY <2>1
    <2>3. QED
      BY <2>2
  <1>4. ASSUME NEW n \in G PROVE n + 1 \in G
    <2>1. PICK it : it = [s \in Upto(n) |-> Step(it, s)]
      OBVIOUS
    <2> DEFINE jt == [s \in Upto(n + 1) |-> Step(it, s)]
    <2>2. n \in Nat /\ \A s \in Upto(n) : s \in Upto(n + 1)
      BY <1>2
    <2>3. ASSUME NEW s \in Upto(n + 1), s # {} PROVE s \ {Pick(s)} \in Upto(n)
      <3>1. s \ {Pick(s)} \in P /\ Cardinality(s \ {Pick(s)}) = Cardinality(s) - 1
        BY <1>1, <2>3
      <3>2. Cardinality(s) \in Nat /\ Cardinality(s) <= n + 1
        BY <1>2
      <3>3. QED
        BY <2>2, <3>1, <3>2
    <2> HIDE DEF Upto
    <2>4. \A s \in Upto(n) : it[s] = Step(it, s)
      BY <2>1
    <2>5. \A s \in Upto(n) : jt[s] = Step(it, s)
      BY <2>2
    <2>6. \A s \in Upto(n) : jt[s] = it[s]
      BY <2>4, <2>5
    <2> HIDE DEF jt
    <2>7. \A s \in Upto(n + 1) : Step(jt, s) = Step(it, s)
      BY <2>3, <2>6
    <2>8. jt = [s \in Upto(n + 1) |-> Step(jt, s)]
      BY <2>7 DEF jt
    <2>9. \E jjt : jjt = [s \in Upto(n + 1) |-> Step(jjt, s)]
      BY <2>8
    <2>10. QED
      BY <2>2, <2>9
  <1>5. Cardinality(S) \in Nat /\ \A s \in P : Cardinality(s) <= Cardinality(S)
    BY FS_CardinalityType, FS_Subset DEF P
  <1>6. Upto(Cardinality(S)) = P
    BY <1>5
  <1>7. Cardinality(S) \in G
    <2> HIDE DEF G
    <2>1. \A n \in Nat : n \in G
      BY <1>3, <1>4, Climbing DEF G
    <2>2. QED
      BY <1>5, <2>1
  <1>8. QED
    BY <1>6, <1>7 DEF SumsUp, P

Without(s, x, r) == x \in s /\ r = s \ {x}

\* Any element may be taken first.
TakesAny(it, f, S) ==
  it[{}] = 0 /\ \A s, r, x : s \in SUBSET S /\ Without(s, x, r) => it[s] = f[x] + it[r]

(* The sum does not depend on the order. *)
LEMMA SumsTake ==
  ASSUME NEW S, IsFiniteSet(S), NEW f \in [S -> Int], NEW it, SumsUp(it, f, S)
  PROVE  TakesAny(it, f, S)
  <1> DEFINE P == SUBSET S
             Good(s) == it[s] \in Int /\ \A x \in s : it[s] = f[x] + it[s \ {x}]
             G == {n \in Nat : \A s \in P : Cardinality(s) <= n => Good(s)}
  <1>1. \A s \in P : it[s] = IF s = {} THEN 0 ELSE f[Pick(s)] + it[s \ {Pick(s)}]
    BY DEF SumsUp
  <1>2. \A s \in P : s # {} => /\ Pick(s) \in s /\ s \ {Pick(s)} \in P
                               /\ Cardinality(s \ {Pick(s)}) = Cardinality(s) - 1
    BY Picking
  <1>3. \A s \in P : Cardinality(s) \in Nat /\ (Cardinality(s) = 0 <=> s = {})
    BY Picking
  <1>4. \A s \in P : \A x \in s : /\ f[x] \in Int /\ s \ {x} \in P
                                  /\ Cardinality(s \ {x}) = Cardinality(s) - 1
    <2> SUFFICES ASSUME NEW s \in P, NEW x \in s
                 PROVE  f[x] \in Int /\ s \ {x} \in P /\ Cardinality(s \ {x}) = Cardinality(s) - 1
      OBVIOUS
    <2>1. IsFiniteSet(s)
      BY FS_Subset
    <2>2. QED
      BY <2>1, FS_RemoveElement
  <1>5. {} \in P
    OBVIOUS
  <1> HIDE DEF P
  <1>6. it[{}] = 0
    BY <1>1, <1>5
  <1>7. 0 \in G
    <2>1. \A s \in P : Cardinality(s) <= 0 => s = {}
      BY <1>3
    <2>2. Good({})
      BY <1>6
    <2>3. QED
      BY <2>1, <2>2
  <1>8. ASSUME NEW n \in G PROVE n + 1 \in G
    <2> SUFFICES ASSUME NEW s \in P, Cardinality(s) <= n + 1, s # {} PROVE Good(s)
      <3>1. Good({})
        BY <1>6
      <3> HIDE DEF Good
      <3>2. QED
        BY <3>1
    <2>1. n \in Nat
      OBVIOUS
    <2> DEFINE p == Pick(s)
    <2>2. p \in s /\ it[s] = f[p] + it[s \ {p}] /\ f[p] \in Int
      BY <1>1, <1>2, <1>4
    <2> HIDE DEF p
    <2>3. ASSUME NEW x \in s PROVE s \ {x} \in P /\ Good(s \ {x})
      <3>1. s \ {x} \in P /\ Cardinality(s \ {x}) = Cardinality(s) - 1
        BY <1>4
      <3>2. Cardinality(s \ {x}) <= n
        BY <1>3, <2>1, <3>1
      <3>3. QED
        BY <3>1, <3>2
    <2>4. it[s] \in Int
      <3>1. Good(s \ {p})
        BY <2>2, <2>3
      <3>2. it[s \ {p}] \in Int
        BY <3>1
      <3>3. QED
        BY <2>2, <3>2
    <2>5. ASSUME NEW x \in s, x # p PROVE it[s] = f[x] + it[s \ {x}]
      <3>1. x \in s \ {p} /\ p \in s \ {x}
        BY <2>2, <2>5
      <3>2. it[s \ {p}] = f[x] + it[(s \ {p}) \ {x}] /\ it[s \ {x}] = f[p] + it[(s \ {x}) \ {p}]
        BY <2>2, <2>3, <3>1
      <3>3. (s \ {p}) \ {x} = (s \ {x}) \ {p}
        OBVIOUS
      <3>4. it[(s \ {p}) \ {x}] \in Int
        <4>1. Good(s \ {p}) /\ s \ {p} \in P
          BY <2>2, <2>3
        <4>2. (s \ {p}) \ {x} \in P /\ Cardinality((s \ {p}) \ {x}) = Cardinality(s \ {p}) - 1
          BY <1>4, <3>1, <4>1
        <4>3. Cardinality(s \ {p}) = Cardinality(s) - 1
          BY <1>4, <2>2
        <4>4. Cardinality((s \ {p}) \ {x}) <= n
          BY <1>3, <2>1, <4>1, <4>2, <4>3
        <4>5. QED
          BY <4>2, <4>4
      <3> DEFINE rest == it[(s \ {p}) \ {x}]
      <3>5. it[s \ {p}] = f[x] + rest /\ it[s \ {x}] = f[p] + rest /\ rest \in Int
        BY <3>2, <3>3, <3>4
      <3>6. f[x] \in Int
        BY <1>4
      <3> HIDE DEF rest
      <3>7. QED
        BY <2>2, <3>5, <3>6
    <2>6. QED
      BY <2>2, <2>4, <2>5
  <1>9. \A n \in Nat : n \in G
    <2> HIDE DEF G
    <2>1. G \subseteq Nat
      BY DEF G
    <2>2. QED
      BY <1>7, <1>8, <2>1, Climbing
  <1>10. \A s \in P : Good(s)
    BY <1>3, <1>9
  <1>11. QED
    BY <1>6, <1>10 DEF P, TakesAny, Without

(* Sums of the same terms are equal, whatever the terms are called. *)
LEMMA SumsAgree ==
  ASSUME NEW S, IsFiniteSet(S), NEW f \in [S -> Int], NEW it, SumsUp(it, f, S),
         NEW T, IsFiniteSet(T), NEW g \in [T -> Int], NEW jt, SumsUp(jt, g, T),
         NEW b \in [S -> T], \A x, y \in S : b[x] = b[y] => x = y, \A x \in S : f[x] = g[b[x]]
  PROVE  \A s \in SUBSET S : it[s] = jt[{b[x] : x \in s}]
  <1> DEFINE P == SUBSET S
             Q == SUBSET T
             Im(s) == {b[x] : x \in s}
             G == {n \in Nat : \A s \in P : Cardinality(s) = n => it[s] = jt[Im(s)]}
  <1>1. it[{}] = 0 /\ \A s, r, x : s \in P /\ Without(s, x, r) => it[s] = f[x] + it[r]
    <2>1. TakesAny(it, f, S)
      BY SumsTake
    <2>2. QED
      BY <2>1 DEF TakesAny
  <1>2. /\ jt[{}] = 0
        /\ \A s, r, x : s \in Q /\ Without(s, x, r) => jt[s] = g[x] + jt[r]
    <2>1. TakesAny(jt, g, T)
      BY SumsTake
    <2>2. QED
      BY <2>1 DEF TakesAny
  <1>3. \A s \in P : Cardinality(s) \in Nat /\ (Cardinality(s) = 0 <=> s = {})
    BY Picking
  <1>4. \A s \in P : s # {} => \E x \in s : /\ s \ {x} \in P /\ x \in S
                                            /\ Cardinality(s \ {x}) = Cardinality(s) - 1
    BY Picking
  <1>5. \A s \in P : \A x \in s : Im(s) \in Q /\ b[x] \in Im(s) /\ Im(s) \ {b[x]} = Im(s \ {x})
    OBVIOUS
  <1>6. Im({}) = {}
    OBVIOUS
  <1> HIDE DEF P, Q, Im
  <1>7. 0 \in G
    BY <1>1, <1>2, <1>3, <1>6
  <1>8. ASSUME NEW n \in G PROVE n + 1 \in G
    <2> SUFFICES ASSUME NEW s \in P, Cardinality(s) = n + 1 PROVE it[s] = jt[Im(s)]
      OBVIOUS
    <2>1. n \in Nat /\ s # {}
      BY <1>3
    <2>2. PICK x \in s : s \ {x} \in P /\ x \in S /\ Cardinality(s \ {x}) = Cardinality(s) - 1
      BY <1>4, <2>1
    <2>3. it[s \ {x}] = jt[Im(s \ {x})]
      BY <2>1, <2>2
    <2>4. it[s] = f[x] + it[s \ {x}]
      BY <1>1 DEF Without
    <2>5. jt[Im(s)] = g[b[x]] + jt[Im(s \ {x})]
      <3>1. Im(s) \in Q /\ Without(Im(s), b[x], Im(s \ {x}))
        BY <1>5 DEF Without
      <3>2. QED
        BY <1>2, <3>1
    <2>6. f[x] = g[b[x]]
      BY <2>2
    <2>7. QED
      BY <2>3, <2>4, <2>5, <2>6
  <1>9. \A n \in Nat : n \in G
    <2> HIDE DEF G
    <2>1. G \subseteq Nat
      BY DEF G
    <2>2. QED
      BY <1>7, <1>8, <2>1, Climbing
  <1>10. \A s \in P : it[s] = jt[Im(s)]
    BY <1>3, <1>9
  <1>11. QED
    BY <1>10 DEF P, Im

(* The sum is what such a function computes. *)
LEMMA SumIs ==
  ASSUME NEW S, IsFiniteSet(S), NEW f \in [S -> Int], NEW it, SumsUp(it, f, S)
  PROVE  SumFunction(f) = it[S]
  <1>1. ASSUME NEW jt, SumsUp(jt, f, S) PROVE jt = it
    <2> DEFINE b == [x \in S |-> x]
    <2>1. b \in [S -> S] /\ (\A x, y \in S : b[x] = b[y] => x = y) /\ \A x \in S : f[x] = f[b[x]]
      OBVIOUS
    <2>2. \A s \in SUBSET S : {b[x] : x \in s} = s
      OBVIOUS
    <2> HIDE DEF b
    <2>3. \A s \in SUBSET S : jt[s] = it[{b[x] : x \in s}]
      BY <1>1, <2>1, SumsAgree
    <2>4. \A s \in SUBSET S : jt[s] = it[s]
      BY <2>2, <2>3
    <2>5. /\ it = [s \in SUBSET S |-> it[s]]
          /\ jt = [s \in SUBSET S |-> jt[s]]
      BY <1>1 DEF SumsUp
    <2>6. QED
      BY <2>4, <2>5
  <1>2. DOMAIN f = S
    OBVIOUS
  <1>3. QED
    BY <1>1, <1>2 DEF SumFunction, SumFunctionOnSet, FoldFunctionOnSet, MapThenFoldSet, SumsUp, Pick

(* Sums of the same terms are equal. *)
LEMMA SameSum ==
  ASSUME NEW S, IsFiniteSet(S), NEW f \in [S -> Int],
         NEW T, IsFiniteSet(T), NEW g \in [T -> Int],
         NEW b \in [S -> T], \A x, y \in S : b[x] = b[y] => x = y,
         \A t \in T : \E x \in S : b[x] = t, \A x \in S : f[x] = g[b[x]]
  PROVE  SumFunction(f) = SumFunction(g)
  <1>1. PICK it : SumsUp(it, f, S)
    BY SumsExist
  <1>2. PICK jt : SumsUp(jt, g, T)
    BY SumsExist
  <1>3. {b[x] : x \in S} = T /\ S \in SUBSET S
    OBVIOUS
  <1>4. \A s \in SUBSET S : it[s] = jt[{b[x] : x \in s}]
    BY <1>1, <1>2, SumsAgree
  <1>5. it[S] = jt[T]
    BY <1>3, <1>4
  <1>6. QED
    BY <1>1, <1>2, <1>5, SumIs

(* A sum of four terms. *)
LEMMA SumOfFour ==
  ASSUME NEW f \in [1..4 -> Int]
  PROVE  SumFunction(f) = f[1] + f[2] + f[3] + f[4]
  <1>1. IsFiniteSet(1..4)
    <2>1. PICK m \in Int, n \in Int : m = 1 /\ n = 4
      OBVIOUS
    <2>2. IsFiniteSet(m..n)
      BY FS_Interval
    <2>3. QED
      BY <2>1, <2>2
  <1>2. PICK it : SumsUp(it, f, 1..4)
    BY <1>1, SumsExist
  <1> DEFINE P == SUBSET (1..4)
             A == 1..4  B == 2..4  C == 3..4  D == {4}
  <1>3. it[{}] = 0 /\ \A s, r, x : s \in P /\ Without(s, x, r) => it[s] = f[x] + it[r]
    <2>1. TakesAny(it, f, 1..4)
      BY <1>1, <1>2, SumsTake
    <2>2. QED
      BY <2>1, Zenon DEF TakesAny
  <1>4. /\ A \in P /\ Without(A, 1, B) /\ B \in P /\ Without(B, 2, C)
        /\ C \in P /\ Without(C, 3, D) /\ D \in P /\ Without(D, 4, {})
    BY DEF Without
  <1>5. f[1] \in Int /\ f[2] \in Int /\ f[3] \in Int /\ f[4] \in Int
    OBVIOUS
  <1>6. SumFunction(f) = it[A]
    BY <1>1, <1>2, SumIs
  <1> HIDE DEF P, A, B, C, D
  <1>7. it[A] = f[1] + it[B] /\ it[B] = f[2] + it[C] /\ it[C] = f[3] + it[D] /\ it[D] = f[4] + it[{}]
    BY <1>3, <1>4
  <1>8. QED
    BY <1>3, <1>5, <1>6, <1>7

-----------------------------------------------------------------------------
(* A row of the product of the two matrices. *)
LEMMA RowIsProduct ==
  ASSUME NEW i \in Nat
  PROVE  ProductRow(i) = Product[(i % 4) + 1]
  <1> DEFINE r == (i % 4) + 1
             term(j) == [k \in 1..4 |-> matrixA[r][k] * matrixB[k][j]]
  <1>1. r \in {1, 2, 3, 4}
    OBVIOUS
  <1>2. ProductRow(i) = [j \in 1..4 |-> SumFunction(term(j))]
    BY DEF ProductRow
  <1> HIDE DEF r
  <1>3. /\ matrixA[r] = IF r = 1 THEN <<1, 2, 3, 4>> ELSE IF r = 2 THEN <<5, 6, 7, 8>>
                        ELSE IF r = 3 THEN <<9, 1, 2, 3>> ELSE <<4, 5, 6, 7>>
        /\ Product[r] = IF r = 1 THEN <<16, 34, 20, 40>> ELSE IF r = 2 THEN <<40, 74, 52, 88>>
                        ELSE IF r = 3 THEN <<19, 24, 30, 28>> ELSE <<34, 64, 44, 76>>
    BY <1>1 DEF matrixA, Product
  <1>4. /\ matrixB[1] = <<1, 0, 2, 0>> /\ matrixB[2] = <<0, 3, 0, 4>>
        /\ matrixB[3] = <<5, 0, 6, 0>> /\ matrixB[4] = <<0, 7, 0, 8>>
    BY DEF matrixB
  <1>5. ASSUME NEW j \in 1..4
        PROVE  SumFunction(term(j)) = Product[r][j]
    <2>1. /\ term(j)[1] = matrixA[r][1] * matrixB[1][j] /\ term(j)[2] = matrixA[r][2] * matrixB[2][j]
          /\ term(j)[3] = matrixA[r][3] * matrixB[3][j] /\ term(j)[4] = matrixA[r][4] * matrixB[4][j]
      OBVIOUS
    <2>2. \A k \in 1..4 : matrixA[r][k] \in Int /\ matrixB[k][j] \in Int
      <3>1. \A k \in 1..4 : matrixA[r][k] \in Int
        BY <1>1, <1>3
      <3>2. \A k \in 1..4 : matrixB[k][j] \in Int
        BY <1>4
      <3>3. QED
        BY <3>1, <3>2
    <2>3. term(j) \in [1..4 -> Int]
      BY <2>2
    <2> HIDE DEF term
    <2>4. SumFunction(term(j)) = term(j)[1] + term(j)[2] + term(j)[3] + term(j)[4]
      BY <2>3, SumOfFour
    <2>5. CASE r = 1
      BY <1>3, <1>4, <2>1, <2>4, <2>5
    <2>6. CASE r = 2
      BY <1>3, <1>4, <2>1, <2>4, <2>6
    <2>7. CASE r = 3
      BY <1>3, <1>4, <2>1, <2>4, <2>7
    <2>8. CASE r = 4
      BY <1>3, <1>4, <2>1, <2>4, <2>8
    <2>9. QED
      BY <1>1, <2>5, <2>6, <2>7, <2>8
  <1>6. Product[r] = [j \in 1..4 |-> Product[r][j]]
    BY <1>1, <1>3
  <1>7. QED
    BY <1>2, <1>5, <1>6 DEF r

(* The nine neighbours that the loops over dy and dx find are those at most one row and one
   column away. *)
LEMMA BlurIsMean ==
  ASSUME exercise.size \in Nat, NEW y \in 1..exercise.size, NEW x \in 1..width - 2
  PROVE  Blurred(y)[x] = Mean(y, x)
  <1> DEFINE D == (-1..1) \X (-1..1)
             A == Around(y, x)
             b == [d \in D |-> neighborIdx(y, x, d)]
             f == [d \in D |-> Pixel(neighborIdx(y, x, d))]
             g == [i \in A |-> Pixel(i)]
  <1>1. /\ y \in Nat /\ y >= 1 /\ y + 1 <= exercise.size + 1 /\ x \in {1, 2}
        /\ y - 1 \in Int
    BY DEF width
  <1>2. Blurred(y)[x] = SumFunction(f) \div 9 /\ Mean(y, x) = SumFunction(g) \div 9
    BY DEF Blurred, Mean
  <1>3. ASSUME NEW u \in -1..1, NEW v \in -1..1
        PROVE  /\ neighborIdx(y, x, <<u, v>>) = 4 * (y + u) + (x + v)
               /\ x + v \in 0..3 /\ y + u \in Nat /\ y + u <= exercise.size + 1
    BY <1>1 DEF neighborIdx, width
  <1>4. \A q \in Nat, r \in 0..3 : (4 * q + r) \div 4 = q /\ (4 * q + r) % 4 = r
    OBVIOUS
  <1>5. ASSUME NEW i \in Int
        PROVE  i \in A <=> /\ 0 <= i /\ i < 4 * (exercise.size + 2)
                           /\ i \div 4 \in y-1..y+1 /\ i % 4 \in x-1..x+1
    BY DEF Around, width
  <1>6. ASSUME NEW u \in -1..1, NEW v \in -1..1
        PROVE  neighborIdx(y, x, <<u, v>>) \in A
    <2> DEFINE i == 4 * (y + u) + (x + v)
    <2>1. x + v \in 0..3 /\ y + u \in Nat /\ y + u <= exercise.size + 1
          /\ neighborIdx(y, x, <<u, v>>) = i
      BY <1>3
    <2>2. i \div 4 = y + u /\ i % 4 = x + v
      BY <2>1, <1>4
    <2>3. i \in Int /\ 0 <= i /\ i < 4 * (exercise.size + 2)
      BY <2>1
    <2> HIDE DEF i
    <2>4. i \div 4 \in y-1..y+1 /\ i % 4 \in x-1..x+1
      BY <1>1, <2>2
    <2>5. QED
      BY <1>5, <2>1, <2>3, <2>4
  <1>7. b \in [D -> A]
    BY <1>6
  <1>8. \A d, e \in D : b[d] = b[e] => d = e
    <2> SUFFICES ASSUME NEW d \in D, NEW e \in D, b[d] = b[e] PROVE d = e
      OBVIOUS
    <2>1. PICK u \in -1..1, v \in -1..1 : d = <<u, v>>
      OBVIOUS
    <2>2. PICK s \in -1..1, t \in -1..1 : e = <<s, t>>
      OBVIOUS
    <2>3. 4 * (y + u) + (x + v) = 4 * (y + s) + (x + t)
      BY <1>3, <2>1, <2>2
    <2>4. u = s /\ v = t
      BY <1>1, <2>3
    <2>5. QED
      BY <2>1, <2>2, <2>4
  <1>9. \A i \in A : \E d \in D : b[d] = i
    <2> SUFFICES ASSUME NEW i \in A PROVE \E d \in D : b[d] = i
      OBVIOUS
    <2>1. i \in Int
      BY DEF Around, width
    <2>2. PICK u \in -1..1, v \in -1..1 : i \div 4 = y + u /\ i % 4 = x + v
      <3>1. i \div 4 \in y-1..y+1 /\ i % 4 \in x-1..x+1
        BY <1>5, <2>1
      <3>2. (i \div 4) - y \in -1..1 /\ (i % 4) - x \in -1..1
        BY <1>1, <3>1
      <3>3. i \div 4 = y + ((i \div 4) - y) /\ i % 4 = x + ((i % 4) - x)
        BY <1>1, <2>1
      <3>4. QED
        BY <3>2, <3>3
    <2>3. i = 4 * (i \div 4) + (i % 4)
      BY <2>1
    <2>4. neighborIdx(y, x, <<u, v>>) = i
      BY <1>3, <2>2, <2>3
    <2>5. <<u, v>> \in D /\ b[<<u, v>>] = neighborIdx(y, x, <<u, v>>)
      OBVIOUS
    <2>6. QED
      BY <2>4, <2>5
  <1>10. IsFiniteSet(D) /\ IsFiniteSet(A)
    <2>1. ASSUME NEW m \in Int, NEW n \in Int PROVE IsFiniteSet(m..n)
      BY FS_Interval
    <2>2. IsFiniteSet(-1..1)
      <3>1. PICK m \in Int, n \in Int : m = -1 /\ n = 1
        OBVIOUS
      <3>2. IsFiniteSet(m..n)
        BY <2>1
      <3>3. QED
        BY <3>1, <3>2
    <2>3. IsFiniteSet(D)
      BY <2>2, FS_Product
    <2>4. IsFiniteSet(0..width * (exercise.size + 2) - 1)
      BY <2>1 DEF width
    <2>5. IsFiniteSet(A)
      BY <2>4, FS_Subset DEF Around
    <2>6. QED
      BY <2>3, <2>5
  <1>11. \A i \in A : Pixel(i) \in Int
    <2>1. \A i \in A : i \in Int
      BY DEF Around, width
    <2>2. \A i \in Int : Pixel(i) \in Int
      BY DEF Pixel
    <2>3. QED
      BY <2>1, <2>2
  <1>12. f \in [D -> Int] /\ g \in [A -> Int] /\ \A d \in D : f[d] = g[b[d]]
    BY <1>7, <1>11
  <1>13. SumFunction(f) = SumFunction(g)
    <2> HIDE DEF D, A, b, f, g
    <2>1. QED
      BY <1>7, <1>8, <1>9, <1>10, <1>12, SameSum
  <1>14. QED
    BY <1>2, <1>13

-----------------------------------------------------------------------------
(* What the threads put together is what Elements says. *)
LEMMA FixedResults ==
  ASSUME exercise \in Exercises, ~Dynamic
  PROVE  [k \in 1..exercise.size |-> Value(Lowest + k - 1)] = Elements
  <1>1. exercise.size \in Nat
    BY ExerciseType
  <1>2. CASE exercise.name \in {"parallel_sum", "fake_image_processing"}
    <2>1. /\ \A k \in 1..exercise.size : Value(Lowest + k - 1) = k - 1
          /\ Elements = [k \in 1..exercise.size |-> k - 1]
      BY <1>1, <1>2 DEF Value, Lowest, Elements
    <2>2. QED
      BY <2>1
  <1>3. CASE exercise.name = "parallel_matrix_multiplication"
    <2>1. /\ Lowest = 0 /\ \A k : Value(k) = ProductRow(k)
          /\ Elements = [k \in 1..exercise.size |-> Product[((k - 1) % 4) + 1]]
      BY <1>3 DEF Value, Lowest, Elements
    <2>2. \A k \in 1..exercise.size : Lowest + k - 1 = k - 1 /\ k - 1 \in Nat
      BY <1>1, <2>1
    <2>3. \A k \in 1..exercise.size : ProductRow(k - 1) = Product[((k - 1) % 4) + 1]
      BY <2>2, RowIsProduct
    <2>4. QED
      BY <2>1, <2>2, <2>3
  <1>4. CASE exercise.name = "parallel_image_filter"
    <2>1. /\ Lowest = 1 /\ \A k : Value(k) = Blurred(k)
          /\ Elements = [k \in 1..exercise.size |-> [x \in 1..width - 2 |-> Mean(k, x)]]
      BY <1>4 DEF Value, Lowest, Elements
    <2>2. \A k \in 1..exercise.size : Lowest + k - 1 = k
      BY <1>1, <2>1
    <2>3. \A k \in 1..exercise.size : Blurred(k) = [x \in 1..width - 2 |-> Mean(k, x)]
      <3> SUFFICES ASSUME NEW k \in 1..exercise.size
                   PROVE  Blurred(k) = [x \in 1..width - 2 |-> Mean(k, x)]
        OBVIOUS
      <3>1. Blurred(k) = [x \in 1..width - 2 |-> Blurred(k)[x]]
        BY DEF Blurred
      <3>2. \A x \in 1..width - 2 : Blurred(k)[x] = Mean(k, x)
        BY <1>1, BlurIsMean
      <3>3. QED
        BY <3>1, <3>2
    <2>4. QED
      BY <2>1, <2>2, <2>3
  <1>5. CASE exercise.name = "multiple_async_tasks"
    <2>1. /\ Lowest = 1 /\ \A k : Value(k) = k * 10
          /\ Elements = [k \in 1..exercise.size |-> 10 * k]
      BY <1>5 DEF Value, Lowest, Elements
    <2>2. \A k \in 1..exercise.size : Value(Lowest + k - 1) = 10 * k
      BY <1>1, <2>1
    <2>3. QED
      BY <2>1, <2>2
  <1>6. QED
    BY <1>2, <1>3, <1>4, <1>5, ExerciseType DEF Dynamic

(* A sequence that holds each element of a set once is as long as the set is large. *)
LEMMA LengthIsCardinality ==
  ASSUME NEW s \in Seq(Int), NEW E, \A x \in Int : x \in E <=> \E n \in 1..Len(s) : s[n] = x,
         E \subseteq Int, \A m, n \in 1..Len(s) : s[m] = s[n] => m = n
  PROVE  ToSet(s) = E /\ Len(s) = Cardinality(E)
  <1>1. ToSet(s) = {s[n] : n \in 1..Len(s)} /\ Len(s) \in Nat /\ \A n \in 1..Len(s) : s[n] \in Int
    BY ToSetOf
  <1>2. ToSet(s) = E
    <2>1. \A z : z \in ToSet(s) <=> z \in Int /\ \E n \in 1..Len(s) : s[n] = z
      BY <1>1
    <2>2. QED
      BY <2>1
  <1>3. s \in [1..Len(s) -> E]
    BY <1>1, <1>2
  <1>4. s \in Bijection(1..Len(s), E)
    BY <1>1, <1>2, <1>3 DEF Bijection, Injection, Surjection, IsInjective
  <1>5. ExistsBijection(1..Len(s), E)
    BY <1>4 DEF ExistsBijection
  <1>6. QED
    BY <1>1, <1>2, <1>5, FS_CountingElements

(* The result of the primes' exercise. *)
LEMMA PrimesResult ==
  ASSUME exercise \in Exercises, Dynamic, result \in Seq(Int),
         \A x \in Int : Lowest <= x /\ x < Limit /\ isPrime(x) <=>
                          \E n \in 1..Len(result) : result[n] = x,
         \A m, n \in 1..Len(result) : result[m] = result[n] => m = n
  PROVE  ToSet(result) = Primes /\ Len(result) = Cardinality(Primes)
  <1>1. exercise.size \in Nat /\ Limit = exercise.size /\ Lowest = 1
    BY ExerciseType DEF Limit, Lowest, Dynamic
  <1>2. ASSUME NEW x \in Int
        PROVE  x \in Primes <=> Lowest <= x /\ x < Limit /\ isPrime(x)
    <2>1. CASE x < 2
      <3>1. x \notin Primes
        BY <1>1, <2>1 DEF Primes
      <3>2. ~isPrime(x)
        BY <2>1 DEF isPrime
      <3>3. QED
        BY <3>1, <3>2
    <2>2. CASE x >= 2
      <3>1. isPrime(x) <=> x > 1 /\ \A d \in 2..x-1 : x % d # 0
        <4>1. x \in Nat
          BY <2>2
        <4>2. QED
          BY <4>1, PrimalityTest
      <3>2. Lowest <= x /\ x > 1 /\ (x < Limit <=> x \in 2..exercise.size - 1)
        BY <1>1, <2>2
      <3>3. QED
        BY <3>1, <3>2 DEF Primes
    <2>3. QED
      BY <2>1, <2>2
  <1>3. \A x \in Int : x \in Primes <=> \E n \in 1..Len(result) : result[n] = x
    BY <1>2
  <1>4. Primes \subseteq Int
    BY <1>1 DEF Primes
  <1>5. QED
    BY <1>3, <1>4, LengthIsCardinality

(* When everything has been collected the result is that of the sequential program, computed
   in another way: of the primes their set, whose size the result's length is. *)
THEOREM ResultsAreSequential == ForkSpec => []ResultIsSequential
  <1>1. ResultInv /\ EachResultOnce => ResultIsSequential
    <2> SUFFICES ASSUME ResultInv, EachResultOnce, Collected  PROVE  ResultIsSequential
      BY DEF ResultIsSequential
    <2>1. exercise \in Exercises
      BY DEF ResultInv, ForkInv, ForkTypes
    <2>2. CASE Dynamic
      <3>1. result \in Seq(Int)
        BY <2>2 DEF ResultInv, Gathered
      <3>2. /\ \A x \in Int : Lowest <= x /\ x < Limit /\ isPrime(x) <=>
                                \E n \in 1..Len(result) : result[n] = x
            /\ \A m, n \in 1..Len(result) : result[m] = result[n] => m = n
        BY <2>2 DEF EachResultOnce
      <3>3. ToSet(result) = Primes /\ Len(result) = Cardinality(Primes)
        BY <2>1, <2>2, <3>1, <3>2, PrimesResult
      <3>4. QED
        BY <2>2, <3>3 DEF ResultIsSequential
    <2>3. CASE ~Dynamic
      <3>1. result = [k \in 1..exercise.size |-> Value(Lowest + k - 1)]
        BY <2>3 DEF EachResultOnce
      <3>2. QED
        BY <2>1, <2>3, <3>1, FixedResults DEF ResultIsSequential
    <2>4. QED
      BY <2>2, <2>3
  <1>2. QED
    BY <1>1, EachResultIsThere, ResultInvariance, PTL

-----------------------------------------------------------------------------
(* Part 3: the halves of a sort *)

CallStates == {"none", "called", "sorting", "waits", "merging", "done"}

SortTypes ==
  /\ input \in Inputs
  /\ call \in [Nodes -> [at : CallStates, begin : Int, end : Int, currentDepth : Nat]]

IsHalf(k, p) == k = Left(p) \/ k = Right(p)

\* The caller has forked and has not begun to merge.
Awaited(k) == k = Root \/ \E p \in Nodes : IsHalf(k, p) /\ call[p].at = "waits"

\* The calls whose ranges are in use, or finished and not yet taken back by the caller.
Holding == {k \in Nodes : call[k].at \in {"called", "sorting", "merging", "done"} /\ Awaited(k)}

Apart(j, k) == call[j].end <= call[k].begin \/ call[k].end <= call[j].begin

Depths == \A k \in Nodes : call[k].at # "none" => call[k].currentDepth = Len(k)

\* Only main()'s range may be empty, and then it is not divided.
NotEmpty ==
  \A k \in Nodes : k # Root /\ call[k].at # "none" =>
    call[k].begin < call[k].end /\ call[Root].begin < call[Root].end

\* Who waits has given away its whole range.
Halved ==
  \A k \in Nodes : call[k].at = "waits" =>
    /\ Left(k) \in Nodes /\ Right(k) \in Nodes
    /\ call[Left(k)].begin = call[k].begin /\ call[Left(k)].end = call[Right(k)].begin
    /\ call[Right(k)].end = call[k].end

UnfinishedAwaited ==
  \A k \in Nodes : call[k].at \in {"called", "sorting", "waits", "merging"} => Awaited(k)

HeldApart == \A j, k \in Holding : j # k => Apart(j, k)

SortInv == SortTypes /\ Depths /\ NotEmpty /\ Halved /\ UnfinishedAwaited /\ HeldApart

-----------------------------------------------------------------------------
(* The paths, and those that are long enough to have been forked. *)
LEMMA Paths ==
  ASSUME input.maxDepth \in Nat
  PROVE  /\ Root \in Nodes
         /\ \A k \in Nodes : Left(k) # Root /\ Right(k) # Root /\ Left(k) # Right(k)
                           /\ Left(k) # k /\ Right(k) # k
         /\ \A j, k \in Nodes : /\ Left(j) = Left(k) => j = k
                                /\ Right(j) = Right(k) => j = k
                                /\ Left(j) # Right(k)
         /\ \A k \in Nodes : Len(k) <= input.maxDepth =>
              /\ Left(k) \in Nodes /\ Len(Left(k)) = Len(k) + 1
              /\ Right(k) \in Nodes /\ Len(Right(k)) = Len(k) + 1
         /\ \A k \in Nodes : Len(k) \in Nat
  <1> DEFINE D == {"left", "right"}
             Node2 == {s \in Seq(D) : Len(s) <= input.maxDepth + 1}
  <1>1. \A s : s \in Nodes <=> s \in Node2
    <2>1. ASSUME NEW s \in Nodes  PROVE  s \in Node2
      <3>1. PICK n \in 0..input.maxDepth + 1 : s \in [1..n -> D]
        BY DEF Nodes
      <3>2. n \in Nat
        OBVIOUS
      <3>3. s \in Seq(D) /\ Len(s) = n
        BY <3>1, <3>2
      <3>4. QED
        BY <3>3
    <2>2. ASSUME NEW s \in Node2  PROVE  s \in Nodes
      <3>1. s \in [1..Len(s) -> D] /\ Len(s) \in 0..input.maxDepth + 1
        OBVIOUS
      <3>2. QED
        BY <3>1 DEF Nodes
    <2>3. QED
      BY <2>1, <2>2
  <1>2. \A k \in Node2 : /\ Left(k) \in Seq(D) /\ Left(k) # <<>> /\ Len(Left(k)) = Len(k) + 1
                         /\ Right(k) \in Seq(D) /\ Right(k) # <<>> /\ Len(Right(k)) = Len(k) + 1
                         /\ Len(k) \in Nat
    <2> SUFFICES ASSUME NEW k \in Node2
                 PROVE  /\ Left(k) \in Seq(D) /\ Left(k) # <<>> /\ Len(Left(k)) = Len(k) + 1
                        /\ Right(k) \in Seq(D) /\ Right(k) # <<>> /\ Len(Right(k)) = Len(k) + 1
                        /\ Len(k) \in Nat
      OBVIOUS
    <2>1. k \in Seq(D) /\ "left" \in D /\ "right" \in D
      OBVIOUS
    <2>2. Len(k) \in Nat
      BY <2>1
    <2>3. QED
      BY <2>1, <2>2, AppendProperties DEF Left, Right
  <1>3. \A j, k \in Node2 : /\ Left(j) = Left(k) => j = k
                            /\ Right(j) = Right(k) => j = k
                            /\ Left(j) # Right(k)
    BY AppendInjective DEF Left, Right
  <1>4. Root \in Node2
    BY DEF Root
  <1>5. \A k \in Node2 : Left(k) # k /\ Right(k) # k
    BY <1>2
  <1> HIDE DEF Node2
  <1>6. \A k \in Nodes : Len(k) <= input.maxDepth =>
              /\ Left(k) \in Nodes /\ Len(Left(k)) = Len(k) + 1
              /\ Right(k) \in Nodes /\ Len(Right(k)) = Len(k) + 1
    BY <1>1, <1>2 DEF Node2
  <1>7. QED
    BY <1>1, <1>2, <1>3, <1>4, <1>5, <1>6 DEF Root

LEMMA SortFacts ==
  ASSUME SortTypes, input' = input
  PROVE  /\ input.maxDepth \in Nat /\ input.minThreshold \in Nat \ {0}
         /\ input.unorderedData \in Seq(Int) /\ Nodes' = Nodes
         /\ call \in [Nodes -> [at : CallStates, begin : Int, end : Int, currentDepth : Nat]]
         /\ \A k \in Nodes : /\ call[k].at \in CallStates /\ call[k].begin \in Int
                             /\ call[k].end \in Int /\ call[k].currentDepth \in Nat
  BY MergeSortAssumption DEF SortTypes, Nodes

(* A call goes on. *)
LEMMA MoveFacts ==
  ASSUME SortTypes, input' = input, NEW k \in Nodes, NEW from, NEW to \in CallStates,
         Moves(k, from, to)
  PROVE  /\ SortTypes'
         /\ \A j \in Nodes : /\ call'[j].begin = call[j].begin /\ call'[j].end = call[j].end
                             /\ call'[j].currentDepth = call[j].currentDepth
                             /\ j # k => call'[j].at = call[j].at
         /\ call[k].at = from /\ call'[k].at = to
  <1> DEFINE R == [at : CallStates, begin : Int, end : Int, currentDepth : Nat]
  <1>1. call \in [Nodes -> R] /\ Nodes' = Nodes
    BY SortFacts
  <1>2. PICK c \in R : c = call[k]
    BY <1>1
  <1>3. PICK d \in R : d = [c EXCEPT !.at = to]
    BY <1>2
  <1>4. /\ d.at = to /\ d.begin = c.begin /\ d.end = c.end /\ d.currentDepth = c.currentDepth
    BY <1>2, <1>3
  <1>5. call' = [call EXCEPT ![k] = d] /\ call[k].at = from
    BY <1>2, <1>3 DEF Moves
  <1> HIDE DEF R
  <1>6. call' \in [Nodes -> R]
    BY <1>1, <1>5
  <1>7. call'[k] = d /\ \A j \in Nodes : j # k => call'[j] = call[j]
    BY <1>1, <1>5
  <1>8. SortTypes'
    BY <1>1, <1>6 DEF SortTypes, R
  <1>9. QED
    BY <1>2, <1>4, <1>5, <1>7, <1>8

(* Sorting or merging begins or ends. *)
LEMMA SortMoves ==
  ASSUME SortInv, input' = input, NEW k \in Nodes,
         NEW from \in {"called", "sorting", "merging"}, NEW to \in {"sorting", "merging", "done"},
         Moves(k, from, to)
  PROVE  SortInv'
  <1>1. SortTypes /\ to \in CallStates /\ Nodes' = Nodes
    BY SortFacts DEF SortInv, CallStates
  <1>2. /\ SortTypes'
        /\ \A j \in Nodes : /\ call'[j].begin = call[j].begin /\ call'[j].end = call[j].end
                            /\ call'[j].currentDepth = call[j].currentDepth
                            /\ j # k => call'[j].at = call[j].at
        /\ call[k].at = from /\ call'[k].at = to
    BY <1>1, MoveFacts
  <1>3. \A j \in Nodes : /\ call'[j].at = "waits" <=> call[j].at = "waits"
                         /\ call'[j].at = "none" <=> call[j].at = "none"
                         /\ call'[j].at \in {"called", "sorting", "merging"}
                              => call[j].at \in {"called", "sorting", "merging"}
                         /\ call'[j].at \in {"called", "sorting", "merging", "done"}
                              <=> call[j].at \in {"called", "sorting", "merging", "done"}
    BY <1>2
  <1>4. \A j \in Nodes : Awaited(j)' <=> Awaited(j)
    BY <1>1, <1>3 DEF Awaited, IsHalf
  <1>5. Depths'
    BY <1>1, <1>2, <1>3 DEF SortInv, Depths
  <1>6. NotEmpty'
    <2>1. Root \in Nodes
      BY <1>1, SortFacts, Paths
    <2>2. QED
      BY <1>1, <1>2, <1>3, <2>1 DEF SortInv, NotEmpty
  <1>7. Halved'
    <2> SUFFICES ASSUME NEW j \in Nodes, call'[j].at = "waits"
                 PROVE  /\ Left(j) \in Nodes /\ Right(j) \in Nodes
                        /\ call'[Left(j)].begin = call'[j].begin
                        /\ call'[Left(j)].end = call'[Right(j)].begin
                        /\ call'[Right(j)].end = call'[j].end
      BY <1>1 DEF Halved
    <2>1. /\ Left(j) \in Nodes /\ Right(j) \in Nodes
          /\ call[Left(j)].begin = call[j].begin /\ call[Left(j)].end = call[Right(j)].begin
          /\ call[Right(j)].end = call[j].end
      BY <1>3 DEF SortInv, Halved
    <2>2. QED
      BY <2>1, <1>2
  <1>8. UnfinishedAwaited'
    BY <1>1, <1>3, <1>4 DEF SortInv, UnfinishedAwaited
  <1>9. HeldApart'
    <2>1. \A j \in Nodes : j \in Holding' <=> j \in Holding
      BY <1>1, <1>3, <1>4 DEF Holding
    <2>2. \A j \in Holding' : j \in Nodes
      BY <1>1 DEF Holding
    <2>3. \A h, j \in Nodes : Apart(h, j)' <=> Apart(h, j)
      BY <1>2 DEF Apart
    <2>4. QED
      BY <2>1, <2>2, <2>3 DEF SortInv, HeldApart
  <1>10. QED
    BY <1>2, <1>5, <1>6, <1>7, <1>8, <1>9 DEF SortInv

(* A call takes its range back when both halves are done. *)
LEMMA SortTakesBack ==
  ASSUME SortInv, NEW k \in Nodes, BeginsMerge(k)
  PROVE  SortInv'
  <1>1. SortTypes /\ input' = input /\ Nodes' = Nodes /\ Moves(k, "waits", "merging") /\ Joined(k)
    BY SortFacts DEF SortInv, BeginsMerge
  <1>2. /\ SortTypes'
        /\ \A j \in Nodes : /\ call'[j].begin = call[j].begin /\ call'[j].end = call[j].end
                            /\ call'[j].currentDepth = call[j].currentDepth
                            /\ j # k => call'[j].at = call[j].at
        /\ call[k].at = "waits" /\ call'[k].at = "merging"
    BY <1>1, MoveFacts DEF CallStates
  <1>3. PICK l \in Nodes, r \in Nodes :
          /\ l = Left(k) /\ r = Right(k) /\ l # k /\ r # k /\ l # r
          /\ call[l].begin = call[k].begin /\ call[l].end = call[r].begin
          /\ call[r].end = call[k].end
          /\ call[l].at = "done" /\ call[r].at = "done"
    <2>1. /\ Left(k) \in Nodes /\ Right(k) \in Nodes
          /\ call[Left(k)].begin = call[k].begin /\ call[Left(k)].end = call[Right(k)].begin
          /\ call[Right(k)].end = call[k].end
      BY <1>2 DEF SortInv, Halved
    <2>2. Left(k) # k /\ Right(k) # k /\ Left(k) # Right(k)
      BY <1>1, SortFacts, Paths
    <2>3. QED
      BY <2>1, <2>2, <1>1 DEF Joined
  <1>4. \A j \in Nodes : j # l /\ j # r => (Awaited(j)' <=> Awaited(j))
    <2>1. \A j, p \in Nodes : IsHalf(j, p) /\ j # l /\ j # r => p # k
      BY <1>3 DEF IsHalf
    <2>2. QED
      BY <1>1, <1>2, <2>1 DEF Awaited
  <1>5. ~Awaited(l)' /\ ~Awaited(r)' /\ Awaited(l) /\ Awaited(r) /\ l # Root /\ r # Root
    <2>1. \A p \in Nodes : IsHalf(l, p) \/ IsHalf(r, p) => p = k
      BY <1>1, <1>3, SortFacts, Paths DEF IsHalf
    <2>2. l # Root /\ r # Root
      BY <1>1, <1>3, SortFacts, Paths
    <2>3. IsHalf(l, k) /\ IsHalf(r, k)
      BY <1>3 DEF IsHalf
    <2>4. ~Awaited(l)' /\ ~Awaited(r)'
      BY <1>1, <1>2, <2>1, <2>2 DEF Awaited, IsHalf
    <2>5. QED
      BY <1>2, <2>2, <2>3, <2>4 DEF Awaited
  <1>6. Depths'
    BY <1>1, <1>2 DEF SortInv, Depths
  <1>7. NotEmpty'
    <2>1. Root \in Nodes
      BY <1>1, SortFacts, Paths
    <2>2. QED
      BY <1>1, <1>2, <2>1 DEF SortInv, NotEmpty
  <1>8. Halved'
    <2> SUFFICES ASSUME NEW j \in Nodes, call'[j].at = "waits"
                 PROVE  /\ Left(j) \in Nodes /\ Right(j) \in Nodes
                        /\ call'[Left(j)].begin = call'[j].begin
                        /\ call'[Left(j)].end = call'[Right(j)].begin
                        /\ call'[Right(j)].end = call'[j].end
      BY <1>1 DEF Halved
    <2>1. call[j].at = "waits"
      BY <1>2
    <2>2. /\ Left(j) \in Nodes /\ Right(j) \in Nodes
          /\ call[Left(j)].begin = call[j].begin /\ call[Left(j)].end = call[Right(j)].begin
          /\ call[Right(j)].end = call[j].end
      BY <2>1 DEF SortInv, Halved
    <2>3. QED
      BY <2>2, <1>2
  <1>9. UnfinishedAwaited'
    <2> SUFFICES ASSUME NEW j \in Nodes, call'[j].at \in {"called", "sorting", "waits", "merging"}
                 PROVE  Awaited(j)'
      BY <1>1 DEF UnfinishedAwaited
    <2>1. j # l /\ j # r
      BY <1>2, <1>3
    <2>2. call[j].at \in {"called", "sorting", "waits", "merging"}
      BY <1>2
    <2>3. Awaited(j)
      BY <2>2 DEF SortInv, UnfinishedAwaited
    <2>4. QED
      BY <2>1, <2>3, <1>4
  <1>10. l \in Holding /\ r \in Holding
    BY <1>3, <1>5 DEF Holding
  <1>11. \A j \in Nodes : j \in Holding' /\ j # k => j \in Holding /\ j # l /\ j # r
    BY <1>1, <1>2, <1>3, <1>4, <1>5 DEF Holding
  <1>12. ASSUME NEW j \in Nodes, j \in Holding', j # k  PROVE  Apart(j, k)
    <2>1. j \in Holding /\ j # l /\ j # r
      BY <1>11, <1>12
    <2>2. Apart(j, l) /\ Apart(j, r)
      BY <2>1, <1>10 DEF SortInv, HeldApart
    <2>3. call[j].begin < call[j].end
      <3>1. call[j].at # "none" /\ call[l].at # "none"
        BY <2>1, <1>3 DEF Holding
      <3>2. j # Root => call[j].begin < call[j].end
        BY <3>1 DEF SortInv, NotEmpty
      <3>3. call[Root].begin < call[Root].end
        BY <3>1, <1>5 DEF SortInv, NotEmpty
      <3>4. QED
        BY <3>2, <3>3
    <2>4. /\ call[j].begin \in Int /\ call[j].end \in Int /\ call[l].begin \in Int
          /\ call[l].end \in Int /\ call[r].end \in Int
      BY <1>1, SortFacts
    <2>5. QED
      BY <2>2, <2>3, <2>4, <1>3 DEF Apart
  <1>13. HeldApart'
    <2>1. \A h, j \in Nodes : Apart(h, j)' <=> Apart(h, j)
      BY <1>2 DEF Apart
    <2>2. \A h, j \in Nodes : Apart(h, j) <=> Apart(j, h)
      BY DEF Apart
    <2>3. \A h, j \in Nodes : h \in Holding' /\ j \in Holding' /\ h # j => Apart(h, j)
      <3> SUFFICES ASSUME NEW h \in Nodes, NEW j \in Nodes, h \in Holding', j \in Holding', h # j
                   PROVE  Apart(h, j)
        OBVIOUS
      <3>1. CASE h = k
        BY <3>1, <1>12, <2>2
      <3>2. CASE j = k
        BY <3>2, <1>12
      <3>3. CASE h # k /\ j # k
        BY <3>3, <1>11 DEF SortInv, HeldApart
      <3>4. QED
        BY <3>1, <3>2, <3>3
    <2>4. \A j \in Holding' : j \in Nodes
      BY <1>1 DEF Holding
    <2>5. QED
      BY <2>1, <2>3, <2>4 DEF HeldApart
  <1>14. QED
    BY <1>2, <1>6, <1>7, <1>8, <1>9, <1>13 DEF SortInv

(* Half of two elements or more is one of them at least, and not all. *)
LEMMA HalfOf ==
  ASSUME NEW b \in Int, NEW e \in Int, e - b >= 2
  PROVE  b + (e - b) \div 2 \in Int /\ b < b + (e - b) \div 2 /\ b + (e - b) \div 2 < e
  <1>1. PICK n \in Nat : n = e - b /\ n >= 2
    OBVIOUS
  <1>2. n \div 2 \in Nat /\ 1 <= n \div 2 /\ n \div 2 < n
    BY <1>1
  <1>3. QED
    BY <1>1, <1>2

(* The range of a call and those of its halves, which are new calls. *)
LEMMA ForkCalls ==
  ASSUME SortInv, NEW k \in Nodes, Forks(k)
  PROVE  /\ SortTypes' /\ input' = input /\ Nodes' = Nodes
         /\ \E l, r \in Nodes, b, e, m \in Int, d \in Nat :
              /\ b = call[k].begin /\ e = call[k].end /\ m = middle(k) /\ b < m /\ m < e
              /\ d = call[k].currentDepth /\ d = Len(k) /\ d <= input.maxDepth
              /\ l = Left(k) /\ r = Right(k) /\ l # k /\ r # k /\ l # r /\ l # Root /\ r # Root
              /\ Len(l) = d + 1 /\ Len(r) = d + 1
              /\ call'[k].at = "waits" /\ call'[k].begin = b /\ call'[k].end = e
              /\ call'[k].currentDepth = d
              /\ call'[l].at = "called" /\ call'[l].begin = b /\ call'[l].end = m
              /\ call'[l].currentDepth = d + 1
              /\ call'[r].at = "called" /\ call'[r].begin = m /\ call'[r].end = e
              /\ call'[r].currentDepth = d + 1
              /\ \A j \in Nodes : j # k /\ j # l /\ j # r => call'[j] = call[j]
  <1> DEFINE R == [at : CallStates, begin : Int, end : Int, currentDepth : Nat]
  <1>1. /\ SortTypes /\ input' = input /\ Nodes' = Nodes /\ call[k].at = "called" /\ ~Stops(k)
        /\ call \in [Nodes -> R] /\ input.minThreshold \in Nat \ {0} /\ input.maxDepth \in Nat
    BY SortFacts DEF SortInv, Forks
  <1>2. PICK b \in Int, e \in Int, m \in Int, d \in Nat :
          /\ b = call[k].begin /\ e = call[k].end /\ m = middle(k) /\ d = call[k].currentDepth
          /\ b < m /\ m < e /\ d = Len(k) /\ d <= input.maxDepth
    <2>1. /\ call[k].begin \in Int /\ call[k].end \in Int /\ call[k].currentDepth \in Nat
          /\ call[k].currentDepth = Len(k)
      BY <1>1, SortFacts DEF SortInv, Depths
    <2>2. ~(call[k].end - call[k].begin <= input.minThreshold) /\ ~(call[k].currentDepth > input.maxDepth)
      BY <1>1 DEF Stops, elementCount
    <2>3. call[k].end - call[k].begin >= 2 /\ call[k].currentDepth <= input.maxDepth
      BY <1>1, <2>1, <2>2
    <2>4. middle(k) \in Int /\ call[k].begin < middle(k) /\ middle(k) < call[k].end
      BY <2>1, <2>3, HalfOf DEF middle, elementCount
    <2>5. QED
      BY <2>1, <2>3, <2>4
  <1>3. PICK l \in Nodes, r \in Nodes :
          /\ l = Left(k) /\ r = Right(k) /\ l # k /\ r # k /\ l # r /\ l # Root /\ r # Root
          /\ Len(l) = d + 1 /\ Len(r) = d + 1
    <2>1. Left(k) \in Nodes /\ Right(k) \in Nodes /\ Len(Left(k)) = d + 1 /\ Len(Right(k)) = d + 1
      BY <1>1, <1>2, Paths
    <2>2. /\ Left(k) # k /\ Right(k) # k /\ Left(k) # Right(k)
          /\ Left(k) # Root /\ Right(k) # Root
      BY <1>1, Paths
    <2>3. QED
      BY <2>1, <2>2
  <1>4. PICK c \in R, cl \in R, cr \in R :
          /\ c = [call[k] EXCEPT !.at = "waits"]
          /\ cl = Call(b, m, d + 1) /\ cr = Call(m, e, d + 1)
    <2>1. call[k] \in R /\ "waits" \in CallStates /\ "called" \in CallStates /\ d + 1 \in Nat
      BY <1>1 DEF CallStates
    <2>2. [call[k] EXCEPT !.at = "waits"] \in R
      BY <2>1
    <2>3. Call(b, m, d + 1) \in R /\ Call(m, e, d + 1) \in R
      BY <2>1 DEF Call
    <2>4. QED
      BY <2>2, <2>3
  <1>5. /\ c.at = "waits" /\ c.begin = b /\ c.end = e /\ c.currentDepth = d
        /\ cl.at = "called" /\ cl.begin = b /\ cl.end = m /\ cl.currentDepth = d + 1
        /\ cr.at = "called" /\ cr.begin = m /\ cr.end = e /\ cr.currentDepth = d + 1
    <2>1. c.at = "waits" /\ c.begin = b /\ c.end = e /\ c.currentDepth = d
      <3>1. call[k] \in R
        BY <1>1
      <3>2. QED
        BY <3>1, <1>2, <1>4
    <2>2. QED
      BY <2>1, <1>4 DEF Call
  <1>6. call' = [call EXCEPT ![k] = c, ![l] = cl, ![r] = cr]
    BY <1>2, <1>3, <1>4 DEF Forks
  <1> HIDE DEF R
  <1>7. /\ call'[k] = c /\ call'[l] = cl /\ call'[r] = cr /\ call' \in [Nodes -> R]
        /\ \A j \in Nodes : j # k /\ j # l /\ j # r => call'[j] = call[j]
    BY <1>1, <1>3, <1>6
  <1>8. SortTypes'
    BY <1>1, <1>7 DEF SortTypes, R
  <1>9. QED
    BY <1>1, <1>2, <1>3, <1>5, <1>7, <1>8

(* A call gives its range away, in two halves. *)
LEMMA SortForks ==
  ASSUME SortInv, NEW k \in Nodes, Forks(k)
  PROVE  SortInv'
  <1>1. /\ SortTypes /\ input' = input /\ Nodes' = Nodes /\ call[k].at = "called"
        /\ input.minThreshold \in Nat \ {0} /\ input.maxDepth \in Nat
    BY SortFacts DEF SortInv, Forks
  <1>2. PICK l, r \in Nodes, b, e, m \in Int, d \in Nat :
          /\ b = call[k].begin /\ e = call[k].end /\ m = middle(k) /\ b < m /\ m < e
          /\ d = call[k].currentDepth /\ d = Len(k) /\ d <= input.maxDepth
          /\ l = Left(k) /\ r = Right(k) /\ l # k /\ r # k /\ l # r /\ l # Root /\ r # Root
          /\ Len(l) = d + 1 /\ Len(r) = d + 1
          /\ call'[k].at = "waits" /\ call'[k].begin = b /\ call'[k].end = e
          /\ call'[k].currentDepth = d
          /\ call'[l].at = "called" /\ call'[l].begin = b /\ call'[l].end = m
          /\ call'[l].currentDepth = d + 1
          /\ call'[r].at = "called" /\ call'[r].begin = m /\ call'[r].end = e
          /\ call'[r].currentDepth = d + 1
          /\ \A j \in Nodes : j # k /\ j # l /\ j # r => call'[j] = call[j]
    BY ForkCalls
  <1>3. /\ l = Left(k) /\ r = Right(k) /\ l # k /\ r # k /\ l # r /\ l # Root /\ r # Root
        /\ Len(l) = d + 1 /\ Len(r) = d + 1
    BY <1>2
  <1>4. /\ call'[k].at = "waits" /\ call'[k].begin = b /\ call'[k].end = e
        /\ call'[k].currentDepth = d
        /\ call'[l].at = "called" /\ call'[l].begin = b /\ call'[l].end = m
        /\ call'[l].currentDepth = d + 1
        /\ call'[r].at = "called" /\ call'[r].begin = m /\ call'[r].end = e
        /\ call'[r].currentDepth = d + 1
    BY <1>2
  <1>5. \A j \in Nodes : j # k /\ j # l /\ j # r => call'[j] = call[j]
    BY <1>2
  <1>6. SortTypes'
    BY ForkCalls
  <1>7. Awaited(k) /\ k \in Holding
    BY <1>1 DEF SortInv, UnfinishedAwaited, Holding
  <1>8. \A p \in Nodes : call[p].at = "waits" =>
          /\ p # k /\ (call'[p].at = "waits" \/ p = l \/ p = r)
    BY <1>1, <1>5
  <1>9. \A p \in Nodes : call'[p].at = "waits" <=> (call[p].at = "waits" /\ p # l /\ p # r) \/ p = k
    BY <1>1, <1>3, <1>4, <1>5
  <1>10. call[l].at # "waits" /\ call[r].at # "waits"
    <2>1. \A p \in Nodes : IsHalf(l, p) \/ IsHalf(r, p) => p = k
      BY <1>1, <1>3, Paths DEF IsHalf
    <2>2. ~Awaited(l) /\ ~Awaited(r)
      BY <2>1, <1>1, <1>3 DEF Awaited
    <2>3. QED
      BY <2>2 DEF SortInv, UnfinishedAwaited
  <1>11. \A p \in Nodes : call'[p].at = "waits" <=> call[p].at = "waits" \/ p = k
    BY <1>9, <1>10, <1>3
  <1>12. \A j \in Nodes : Awaited(j)' <=> Awaited(j) \/ j = l \/ j = r
    <2>1. \A j : IsHalf(j, k) <=> j = l \/ j = r
      BY <1>3 DEF IsHalf
    <2>2. \A j : Awaited(j)' <=> j = Root \/ \E p \in Nodes : IsHalf(j, p) /\ call'[p].at = "waits"
      BY <1>1 DEF Awaited, IsHalf
    <2>3. QED
      BY <2>1, <2>2, <1>11 DEF Awaited
  <1>13. Depths'
    <2> SUFFICES ASSUME NEW j \in Nodes, call'[j].at # "none"  PROVE  call'[j].currentDepth = Len(j)
      BY <1>1 DEF Depths
    <2>1. CASE j \in {k, l, r}
      BY <2>1, <1>2, <1>3, <1>4, <1>5
    <2>2. CASE j \notin {k, l, r}
      BY <2>2, <1>5 DEF SortInv, Depths
    <2>3. QED
      BY <2>1, <2>2
  <1>14. NotEmpty'
    <2>1. Root \in Nodes
      BY <1>1, Paths
    <2>2. call[Root].begin < call[Root].end
      <3>1. CASE k = Root
        BY <3>1, <1>2
      <3>2. CASE k # Root
        BY <3>2, <1>1 DEF SortInv, NotEmpty
      <3>3. QED
        BY <3>1, <3>2
    <2>3. call'[Root].begin = call[Root].begin /\ call'[Root].end = call[Root].end
      <3>1. CASE k = Root
        BY <3>1, <1>2, <1>4, <1>5
      <3>2. CASE k # Root
        BY <3>2, <2>1, <1>3, <1>5
      <3>3. QED
        BY <3>1, <3>2
    <2>4. ASSUME NEW j \in Nodes, j # Root, call'[j].at # "none"
          PROVE  call'[j].begin < call'[j].end
      <3>1. CASE j \in {k, l, r}
        BY <3>1, <1>2, <1>4, <1>5
      <3>2. CASE j \notin {k, l, r}
        BY <2>4, <3>2, <1>5 DEF SortInv, NotEmpty
      <3>3. QED
        BY <3>1, <3>2
    <2>5. QED
      BY <1>1, <2>2, <2>3, <2>4 DEF NotEmpty
  <1>15. Halved'
    <2> SUFFICES ASSUME NEW j \in Nodes, call'[j].at = "waits"
                 PROVE  /\ Left(j) \in Nodes /\ Right(j) \in Nodes
                        /\ call'[Left(j)].begin = call'[j].begin
                        /\ call'[Left(j)].end = call'[Right(j)].begin
                        /\ call'[Right(j)].end = call'[j].end
      BY <1>1 DEF Halved
    <2>1. CASE j = k
      BY <2>1, <1>3, <1>4, <1>5
    <2>2. CASE j # k
      <3>1. call[j].at = "waits" /\ j # l /\ j # r
        BY <2>2, <1>9
      <3>2. /\ Left(j) \in Nodes /\ Right(j) \in Nodes
            /\ call[Left(j)].begin = call[j].begin /\ call[Left(j)].end = call[Right(j)].begin
            /\ call[Right(j)].end = call[j].end
        BY <3>1 DEF SortInv, Halved
      <3>3. Left(j) # l /\ Left(j) # r /\ Right(j) # l /\ Right(j) # r
        BY <2>2, <1>1, <1>3, Paths
      <3>4. \A h \in Nodes : h # l /\ h # r => call'[h].begin = call[h].begin /\ call'[h].end = call[h].end
        BY <1>2, <1>4, <1>5
      <3>5. QED
        BY <3>1, <3>2, <3>3, <3>4
    <2>3. QED
      BY <2>1, <2>2
  <1>16. UnfinishedAwaited'
    <2> SUFFICES ASSUME NEW j \in Nodes, call'[j].at \in {"called", "sorting", "waits", "merging"}
                 PROVE  Awaited(j)'
      BY <1>1 DEF UnfinishedAwaited
    <2>1. CASE j \in {k, l, r}
      BY <2>1, <1>7, <1>12
    <2>2. CASE j \notin {k, l, r}
      BY <2>2, <1>5, <1>12 DEF SortInv, UnfinishedAwaited
    <2>3. QED
      BY <2>1, <2>2
  <1>17. \A j \in Nodes : j \in Holding' => j = l \/ j = r \/ (j \in Holding /\ j # k /\ call'[j] = call[j])
    BY <1>1, <1>4, <1>5, <1>12 DEF Holding
  <1>18. ASSUME NEW j \in Nodes, j \in Holding, j # k, call'[j] = call[j]
         PROVE  Apart(j, l)' /\ Apart(j, r)'
    <2>1. Apart(j, k)
      BY <1>7, <1>18 DEF SortInv, HeldApart
    <2>2. call[j].begin \in Int /\ call[j].end \in Int
      BY <1>1, SortFacts
    <2>3. call[j].end <= b \/ e <= call[j].begin
      BY <2>1, <1>2 DEF Apart
    <2>4. /\ call'[j].end <= call'[l].begin \/ call'[l].end <= call'[j].begin
          /\ call'[j].end <= call'[r].begin \/ call'[r].end <= call'[j].begin
      BY <2>2, <2>3, <1>2, <1>4, <1>5, <1>18
    <2>5. QED
      BY <2>4 DEF Apart
  <1>19. HeldApart'
    <2>1. \A h, j \in Nodes : Apart(h, j)' <=> Apart(j, h)'
      BY DEF Apart
    <2>2. Apart(l, r)'
      BY <1>2, <1>4, <1>5 DEF Apart
    <2>3. \A h, j \in Nodes : h \in Holding' /\ j \in Holding' /\ h # j => Apart(h, j)'
      <3> SUFFICES ASSUME NEW h \in Nodes, NEW j \in Nodes, h \in Holding', j \in Holding', h # j
                   PROVE  Apart(h, j)'
        OBVIOUS
      <3>1. CASE h \in {l, r} /\ j \in {l, r}
        BY <3>1, <2>1, <2>2
      <3>2. CASE h \in {l, r} /\ j \notin {l, r}
        BY <3>2, <1>17, <1>18, <2>1
      <3>3. CASE h \notin {l, r} /\ j \in {l, r}
        BY <3>3, <1>17, <1>18
      <3>4. CASE h \notin {l, r} /\ j \notin {l, r}
        <4>1. h \in Holding /\ j \in Holding /\ call'[h] = call[h] /\ call'[j] = call[j]
          BY <3>4, <1>17
        <4>2. Apart(h, j)
          BY <4>1 DEF SortInv, HeldApart
        <4>3. QED
          BY <4>1, <4>2 DEF Apart
      <3>5. QED
        BY <3>1, <3>2, <3>3, <3>4
    <2>4. \A j \in Holding' : j \in Nodes
      BY <1>1 DEF Holding
    <2>5. QED
      BY <2>3, <2>4 DEF HeldApart
  <1>20. QED
    BY <1>6, <1>13, <1>14, <1>15, <1>16, <1>19 DEF SortInv

(* Every call works on a range of its own until its caller takes it back. *)
THEOREM SortInvariance == SortSpec => []SortInv
  <1>1. SortInit => SortInv
    <2> SUFFICES ASSUME SortInit  PROVE  SortInv
      OBVIOUS
    <2> DEFINE R == [at : CallStates, begin : Int, end : Int, currentDepth : Nat]
    <2>1. input \in Inputs /\ input.maxDepth \in Nat /\ data \in Seq(Int) /\ Len(data) \in Nat
      BY MergeSortAssumption DEF SortInit
    <2>2. Call(1, Len(data) + 1, 0) \in R /\ NoCall \in R
      BY <2>1 DEF Call, NoCall, CallStates
    <2>3. call = [k \in Nodes |-> IF k = Root THEN Call(1, Len(data) + 1, 0) ELSE NoCall]
      BY DEF SortInit
    <2>4. SortTypes
      <3> HIDE DEF R
      <3>1. call \in [Nodes -> R]
        BY <2>2, <2>3
      <3>2. QED
        BY <2>1, <3>1 DEF SortTypes, R
    <2>5. \A k \in Nodes : /\ k # Root => call[k].at = "none"
                           /\ k = Root => call[k].at = "called" /\ call[k].currentDepth = 0
      BY <2>3 DEF Call, NoCall
    <2>6. Len(Root) = 0
      BY DEF Root
    <2>7. Depths /\ NotEmpty /\ Halved
      BY <2>5, <2>6 DEF Depths, NotEmpty, Halved
    <2>8. UnfinishedAwaited
      BY <2>5 DEF UnfinishedAwaited, Awaited
    <2>9. HeldApart
      BY <2>5 DEF HeldApart, Holding
    <2>10. QED
      BY <2>4, <2>7, <2>8, <2>9 DEF SortInv
  <1>2. SortInv /\ [SortNext]_sortVars => SortInv'
    <2> SUFFICES ASSUME SortInv, [SortNext]_sortVars  PROVE  SortInv'
      OBVIOUS
    <2>1. ASSUME NEW k \in Nodes, BeginsSort(k)  PROVE  SortInv'
      BY <2>1, SortMoves DEF BeginsSort
    <2>2. ASSUME NEW k \in Nodes, EndsSort(k)  PROVE  SortInv'
      BY <2>2, SortMoves DEF EndsSort
    <2>3. ASSUME NEW k \in Nodes, Forks(k)  PROVE  SortInv'
      BY <2>3, SortForks
    <2>4. ASSUME NEW k \in Nodes, BeginsMerge(k)  PROVE  SortInv'
      BY <2>4, SortTakesBack
    <2>5. ASSUME NEW k \in Nodes, EndsMerge(k)  PROVE  SortInv'
      BY <2>5, SortMoves DEF EndsMerge
    <2>6. CASE UNCHANGED sortVars
      <3>1. input' = input /\ call' = call /\ Nodes' = Nodes
        BY <2>6 DEF sortVars, Nodes
      <3>2. \A j : Awaited(j)' <=> Awaited(j)
        BY <3>1 DEF Awaited, IsHalf
      <3>3. SortTypes' /\ Depths' /\ NotEmpty' /\ Halved'
        BY <3>1 DEF SortInv, SortTypes, Depths, NotEmpty, Halved
      <3>4. UnfinishedAwaited'
        BY <3>1, <3>2 DEF SortInv, UnfinishedAwaited
      <3>5. \A j : j \in Holding' <=> j \in Holding
        BY <3>1, <3>2 DEF Holding
      <3>6. HeldApart'
        BY <3>1, <3>5 DEF SortInv, HeldApart, Apart
      <3>7. QED
        BY <3>3, <3>4, <3>6 DEF SortInv
    <2>7. QED
      BY <2>1, <2>2, <2>3, <2>4, <2>5, <2>6 DEF SortNext, Node, SortEnded
  <1>3. QED
    BY <1>1, <1>2, PTL DEF SortSpec

(* Two threads never sort or merge overlapping parts of the vector, whatever it holds, the
   threshold and the depth. *)
THEOREM SortHasNoRace == SortSpec => []NoRace
  <1>1. SortInv => NoRace
    <2> SUFFICES ASSUME SortInv  PROVE  NoRace
      OBVIOUS
    <2>1. \A k \in Working : k \in Holding
      BY DEF Working, Holding, SortInv, UnfinishedAwaited
    <2>2. QED
      BY <2>1 DEF NoRace, SortInv, HeldApart, Apart
  <1>2. QED
    BY <1>1, SortInvariance, PTL

-----------------------------------------------------------------------------
(* Part 4: what a sort makes of the vector *)

-----------------------------------------------------------------------------
(* Counting *)

\* How often x is among f[lo], ..., f[hi - 1], and where.
Places(f, lo, hi, x) == {i \in lo..hi - 1 : f[i] = x}
Count(f, lo, hi, x) == Cardinality(Places(f, lo, hi, x))

LEMMA Counts ==
  ASSUME NEW f, NEW lo \in Int, NEW hi \in Int, NEW x
  PROVE  /\ IsFiniteSet(Places(f, lo, hi, x)) /\ Count(f, lo, hi, x) \in Nat
         /\ Count(f, lo, hi, x) # 0 <=> \E i \in lo..hi - 1 : f[i] = x
  <1>1. IsFiniteSet(lo..hi - 1)
    BY FS_Interval
  <1>2. Places(f, lo, hi, x) \in SUBSET (lo..hi - 1)
    BY DEF Places
  <1>3. IsFiniteSet(Places(f, lo, hi, x))
    BY <1>1, <1>2, FS_Subset
  <1>4. Count(f, lo, hi, x) \in Nat /\ (Count(f, lo, hi, x) = 0 <=> Places(f, lo, hi, x) = {})
    BY <1>3, FS_CardinalityType, FS_EmptySet DEF Count
  <1>5. QED
    BY <1>3, <1>4 DEF Places

(* What is counted in two parts. *)
LEMMA CountSplits ==
  ASSUME NEW f, NEW lo \in Int, NEW mid \in Int, NEW hi \in Int, lo <= mid, mid <= hi, NEW x
  PROVE  Count(f, lo, hi, x) = Count(f, lo, mid, x) + Count(f, mid, hi, x)
  <1> DEFINE S == Places(f, lo, mid, x)  T == Places(f, mid, hi, x)
  <1>1. Places(f, lo, hi, x) = S \cup T /\ S \cap T = {}
    BY DEF Places
  <1>2. IsFiniteSet(S) /\ IsFiniteSet(T) /\ Cardinality(S) \in Nat /\ Cardinality(T) \in Nat
    BY Counts DEF Count
  <1>3. Cardinality(S \cup T) = Cardinality(S) + Cardinality(T) - Cardinality(S \cap T)
    <2> HIDE DEF S, T
    <2>1. QED
      BY <1>2, FS_Union
  <1>4. Cardinality(S \cap T) = 0
    BY <1>1, FS_EmptySet
  <1>5. QED
    <2> HIDE DEF S, T
    <2>1. Cardinality(S \cup T) = Cardinality(S) + Cardinality(T)
      BY <1>2, <1>3, <1>4
    <2>2. QED
      BY <2>1, <1>1 DEF Count, S, T

(* What is counted at one place, and at none. *)
LEMMA CountOne ==
  ASSUME NEW f, NEW i \in Int, NEW k \in Int, NEW x, k = i + 1
  PROVE  Count(f, i, k, x) = IF f[i] = x THEN 1 ELSE 0
  <1>1. i..k - 1 = {i}
    OBVIOUS
  <1>2. Places(f, i, k, x) = IF f[i] = x THEN {i} ELSE {}
    BY <1>1 DEF Places
  <1>3. Cardinality({}) = 0 /\ Cardinality({i}) = 1
    BY FS_EmptySet, FS_Singleton
  <1>4. QED
    BY <1>2, <1>3 DEF Count

LEMMA CountNone ==
  ASSUME NEW f, NEW i \in Int, NEW x
  PROVE  Count(f, i, i, x) = 0
  <1>1. Places(f, i, i, x) = {}
    BY DEF Places
  <1>2. QED
    BY <1>1, FS_EmptySet DEF Count

(* What is counted when one more place is looked at. *)
LEMMA CountUpTo ==
  ASSUME NEW f, NEW lo \in Int, NEW i \in Int, NEW k \in Int, NEW x, lo <= i, k = i + 1
  PROVE  Count(f, lo, k, x) = Count(f, lo, i, x) + IF f[i] = x THEN 1 ELSE 0
  <1>1. i <= k
    OBVIOUS
  <1>2. Count(f, lo, k, x) = Count(f, lo, i, x) + Count(f, i, k, x)
    BY <1>1, CountSplits
  <1>3. Count(f, i, k, x) = IF f[i] = x THEN 1 ELSE 0
    BY CountOne
  <1>4. QED
    BY <1>2, <1>3

(* What is counted in another place, d further on. *)
LEMMA CountShifts ==
  ASSUME NEW f, NEW g, NEW lo \in Int, NEW hi \in Int, NEW d \in Int, NEW x,
         \A i \in lo..hi - 1 : g[i + d] = f[i]
  PROVE  Count(g, lo + d, hi + d, x) = Count(f, lo, hi, x)
  <1> DEFINE G == {n \in Nat : lo + n <= hi => Count(g, lo + d, lo + n + d, x) = Count(f, lo, lo + n, x)}
  <1>1. 0 \in G
    <2>1. lo + 0 + d = lo + d /\ lo + 0 = lo /\ lo + d \in Int
      OBVIOUS
    <2>2. QED
      BY <2>1, CountNone
  <1>2. ASSUME NEW n \in G  PROVE  n + 1 \in G
    <2> SUFFICES ASSUME lo + (n + 1) <= hi
                 PROVE  Count(g, lo + d, lo + (n + 1) + d, x) = Count(f, lo, lo + (n + 1), x)
      OBVIOUS
    <2>1. PICK m \in Int, c \in Int : m = lo + n /\ c = lo + n + d /\ lo <= m /\ lo + d <= c
      OBVIOUS
    <2>2. m \in lo..hi - 1 /\ m + d = c
      BY <2>1
    <2>3. Count(f, lo, m + 1, x) = Count(f, lo, m, x) + IF f[m] = x THEN 1 ELSE 0
      BY <2>1, CountUpTo
    <2>4. Count(g, lo + d, c + 1, x) = Count(g, lo + d, c, x) + IF g[c] = x THEN 1 ELSE 0
      <3>1. PICK a \in Int, e \in Int : a = lo + d /\ e = c + 1 /\ a <= c
        BY <2>1
      <3>2. Count(g, a, e, x) = Count(g, a, c, x) + IF g[c] = x THEN 1 ELSE 0
        BY <3>1, CountUpTo
      <3>3. QED
        BY <3>1, <3>2
    <2>5. g[c] = f[m] /\ lo + (n + 1) = m + 1 /\ lo + (n + 1) + d = c + 1
      BY <2>1, <2>2
    <2>6. Count(g, lo + d, c, x) = Count(f, lo, m, x)
      BY <2>1, <2>2
    <2>7. QED
      BY <2>3, <2>4, <2>5, <2>6
  <1>3. \A n \in Nat : n \in G
    <2>1. G \subseteq Nat
      OBVIOUS
    <2> HIDE DEF G
    <2>2. QED
      BY <1>1, <1>2, <2>1, Climbing
  <1>4. CASE lo <= hi
    <2>1. PICK n \in Nat : lo + n = hi /\ lo + n + d = hi + d
      <3>1. hi - lo \in Nat /\ lo + (hi - lo) = hi /\ lo + (hi - lo) + d = hi + d
        BY <1>4
      <3>2. QED
        BY <3>1
    <2>2. n \in G
      BY <1>3
    <2>3. QED
      BY <2>1, <2>2
  <1>5. CASE hi < lo
    <2>1. Places(f, lo, hi, x) = {} /\ Places(g, lo + d, hi + d, x) = {}
      BY <1>5 DEF Places
    <2>2. QED
      BY <2>1 DEF Count
  <1>6. QED
    BY <1>4, <1>5

\* The values from lo to hi - 1 of f lie in g from k to m - 1.
Moved(f, lo, hi, g, k, m) == m - k = hi - lo /\ \A i \in lo..hi - 1 : g[i - lo + k] = f[i]

(* They are counted there. *)
LEMMA CountMoves ==
  ASSUME NEW f, NEW g, NEW lo \in Int, NEW hi \in Int, NEW k \in Int, NEW m \in Int, NEW x,
         Moved(f, lo, hi, g, k, m)
  PROVE  Count(g, k, m, x) = Count(f, lo, hi, x)
  <1>1. PICK d \in Int : d = k - lo /\ lo + d = k /\ hi + d = m
    <2>1. k - lo \in Int /\ lo + (k - lo) = k /\ hi + (k - lo) = m
      BY DEF Moved
    <2>2. QED
      BY <2>1
  <1>2. \A i \in lo..hi - 1 : g[i + d] = f[i]
    <2>1. \A i \in lo..hi - 1 : i - lo + k = i + d
      BY <1>1
    <2>2. QED
      BY <2>1 DEF Moved
  <1>3. Count(g, lo + d, hi + d, x) = Count(f, lo, hi, x)
    BY <1>2, CountShifts
  <1>4. QED
    BY <1>1, <1>3

-----------------------------------------------------------------------------
(* Merging *)

\* What the last i elements of a and the last j of b are merged to.
MergeStep(m, a, b, i, j) ==
  IF i = 0 THEN SubSeq(b, Len(b) - j + 1, Len(b))
  ELSE IF j = 0 THEN SubSeq(a, Len(a) - i + 1, Len(a))
  ELSE IF b[Len(b) - j + 1] < a[Len(a) - i + 1]
       THEN <<b[Len(b) - j + 1]>> \o m[<<i, j - 1>>]
       ELSE <<a[Len(a) - i + 1]>> \o m[<<i - 1, j>>]

MergesUp(m, a, b) ==
  m = [p \in (0..Len(a)) \X (0..Len(b)) |-> MergeStep(m, a, b, p[1], p[2])]

(* Such a function exists. *)
LEMMA MergesExist ==
  ASSUME NEW a, NEW b, Len(a) \in Nat, Len(b) \in Nat
  PROVE  \E m : MergesUp(m, a, b)
  <1> DEFINE P == (0..Len(a)) \X (0..Len(b))
             Upto(n) == {p \in P : p[1] + p[2] <= n}
             G == {n \in Nat : \E m : m = [p \in Upto(n) |-> MergeStep(m, a, b, p[1], p[2])]}
  <1>1. \A p \in P : /\ p = <<p[1], p[2]>> /\ p[1] \in Nat /\ p[2] \in Nat
                     /\ p[1] <= Len(a) /\ p[2] <= Len(b)
    OBVIOUS
  <1>2. \A i, j \in Nat : i <= Len(a) /\ j <= Len(b) => <<i, j>> \in P
    OBVIOUS
  <1> HIDE DEF P
  <1>3. 0 \in G
    <2> DEFINE m == [p \in Upto(0) |-> SubSeq(b, Len(b) - p[2] + 1, Len(b))]
    <2>1. \A p \in Upto(0) : p[1] = 0
      BY <1>1
    <2>2. ASSUME NEW p \in Upto(0)
          PROVE  MergeStep(m, a, b, p[1], p[2]) = SubSeq(b, Len(b) - p[2] + 1, Len(b))
      BY <2>1 DEF MergeStep
    <2>3. m = [p \in Upto(0) |-> MergeStep(m, a, b, p[1], p[2])]
      BY <2>2
    <2>4. QED
      BY <2>3
  <1>4. ASSUME NEW n \in G  PROVE  n + 1 \in G
    <2>1. n \in Nat /\ n + 1 \in Nat
      OBVIOUS
    <2>2. PICK m : m = [p \in Upto(n) |-> MergeStep(m, a, b, p[1], p[2])]
      OBVIOUS
    <2> DEFINE w == [p \in Upto(n + 1) |-> MergeStep(m, a, b, p[1], p[2])]
    <2>3. \A p \in Upto(n) : p \in Upto(n + 1) /\ w[p] = m[p]
      <3>1. \A p \in Upto(n) : p \in Upto(n + 1)
        BY <1>1, <2>1
      <3>2. \A p \in Upto(n) : m[p] = MergeStep(m, a, b, p[1], p[2])
        BY <2>2
      <3> HIDE DEF Upto
      <3>3. \A p \in Upto(n + 1) : w[p] = MergeStep(m, a, b, p[1], p[2])
        OBVIOUS
      <3>4. QED
        BY <3>1, <3>2, <3>3
    <2>4. ASSUME NEW p \in Upto(n + 1)
          PROVE  MergeStep(w, a, b, p[1], p[2]) = MergeStep(m, a, b, p[1], p[2])
      <3> HIDE DEF w
      <3>1. PICK i \in Nat, j \in Nat : /\ i = p[1] /\ j = p[2] /\ i + j <= n + 1
                                        /\ i <= Len(a) /\ j <= Len(b)
        BY <1>1
      <3>2. CASE i = 0 \/ j = 0
        BY <3>1, <3>2 DEF MergeStep
      <3>3. CASE i # 0 /\ j # 0
        <4>1. i - 1 \in Nat /\ j - 1 \in Nat /\ (i - 1) + j <= n /\ i + (j - 1) <= n
          <5> HIDE DEF G
          <5>1. i + j <= n + 1
            BY <3>1
          <5>2. QED
            BY <2>1, <3>3, <5>1
        <4>2. <<i - 1, j>> \in Upto(n) /\ <<i, j - 1>> \in Upto(n)
          <5>1. <<i - 1, j>> \in P /\ <<i, j - 1>> \in P
            <6>1. i - 1 <= Len(a) /\ j - 1 <= Len(b)
              BY <3>1
            <6>2. QED
              BY <3>1, <4>1, <6>1, <1>2
          <5>2. QED
            BY <4>1, <5>1
        <4>3. w[<<i - 1, j>>] = m[<<i - 1, j>>] /\ w[<<i, j - 1>>] = m[<<i, j - 1>>]
          BY <2>3, <4>2
        <4>4. MergeStep(w, a, b, i, j) = MergeStep(m, a, b, i, j)
          BY <3>3, <4>3 DEF MergeStep
        <4>5. QED
          BY <3>1, <4>4
      <3>4. QED
        BY <3>2, <3>3
    <2>5. w = [p \in Upto(n + 1) |-> MergeStep(w, a, b, p[1], p[2])]
      <3>1. w = [p \in Upto(n + 1) |-> MergeStep(m, a, b, p[1], p[2])]
        OBVIOUS
      <3> HIDE DEF w, Upto
      <3>2. QED
        BY <2>4, <3>1
    <2>6. QED
      BY <2>1, <2>5
  <1>5. \A n \in Nat : n \in G
    <2>1. G \subseteq Nat
      OBVIOUS
    <2> HIDE DEF G
    <2>2. QED
      BY <1>3, <1>4, <2>1, Climbing
  <1>6. Upto(Len(a) + Len(b)) = P
    BY <1>1
  <1>7. Len(a) + Len(b) \in G
    <2> HIDE DEF G
    <2>1. QED
      BY <1>5
  <1>8. QED
    BY <1>6, <1>7 DEF MergesUp, P

(* The model's std::inplace_merge is such a function. *)
LEMMA MergedIs ==
  ASSUME NEW a, NEW b, Len(a) \in Nat, Len(b) \in Nat
  PROVE  \E m : MergesUp(m, a, b) /\ Merged(a, b) = m[<<Len(a), Len(b)>>]
  <1> DEFINE M == CHOOSE m : MergesUp(m, a, b)
  <1>1. MergesUp(M, a, b)
    BY MergesExist
  <1>2. Merged(a, b) = M[<<Len(a), Len(b)>>]
    BY DEF Merged, MergesUp, MergeStep
  <1>3. QED
    BY <1>1, <1>2

\* A sequence of numbers: a name for the type, so that the facts below are about any value.
Ints(s) == s \in Seq(Int)

LEMMA IntsAre ==
  ASSUME NEW s, Ints(s)
  PROVE  Len(s) \in Nat /\ DOMAIN s = 1..Len(s) /\ \A i \in 1..Len(s) : s[i] \in Int
  BY DEF Ints

\* w begins with x and goes on with v.
Prefixed(w, x, v) == /\ Ints(w) /\ Len(w) = Len(v) + 1 /\ w[1] = x
                     /\ \A i \in 1..Len(v) : w[i + 1] = v[i]

LEMMA IsPrefixed ==
  ASSUME NEW v, NEW x \in Int, Ints(v)
  PROVE  Prefixed(<<x>> \o v, x, v)
  <1>1. v \in Seq(Int)
    BY DEF Ints
  <1>2. /\ <<x>> \o v \in Seq(Int) /\ Len(<<x>> \o v) = Len(v) + 1 /\ (<<x>> \o v)[1] = x
        /\ \A i \in 1..Len(v) : (<<x>> \o v)[i + 1] = v[i]
    BY <1>1
  <1>3. QED
    BY <1>2 DEF Prefixed, Ints

(* How often a value is in it. *)
LEMMA CountPrefixed ==
  ASSUME NEW w, NEW x, NEW v, NEW n \in Nat, NEW z, Prefixed(w, x, v), n = Len(v)
  PROVE  Count(w, 1, n + 2, z) = (IF x = z THEN 1 ELSE 0) + Count(v, 1, n + 1, z)
  <1>1. Count(w, 1, 2, z) = IF x = z THEN 1 ELSE 0
    <2>1. 1 \in Int /\ 2 \in Int /\ 2 = 1 + 1
      OBVIOUS
    <2>2. Count(w, 1, 2, z) = IF w[1] = z THEN 1 ELSE 0
      BY <2>1, CountOne, Zenon
    <2>3. QED
      BY <2>2 DEF Prefixed
  <1>2. Count(w, 1, n + 2, z) = Count(w, 1, 2, z) + Count(w, 2, n + 2, z)
    BY CountSplits
  <1>3. Count(w, 2, n + 2, z) = Count(v, 1, n + 1, z)
    <2>1. Moved(v, 1, n + 1, w, 2, n + 2)
      <3>1. \A i \in 1..(n + 1) - 1 : i \in 1..Len(v) /\ i - 1 + 2 = i + 1
        OBVIOUS
      <3>2. \A i \in 1..(n + 1) - 1 : w[i - 1 + 2] = v[i]
        BY <3>1 DEF Prefixed
      <3>3. QED
        BY <3>2 DEF Moved
    <2>2. 1 \in Int /\ 2 \in Int /\ n + 1 \in Int /\ n + 2 \in Int
      OBVIOUS
    <2>3. QED
      BY <2>1, <2>2, CountMoves
  <1>4. QED
    BY <1>1, <1>2, <1>3

(* What is counted from p on: what lies at p, and the rest. *)
LEMMA CountFrom ==
  ASSUME NEW f, NEW p \in Int, NEW hi \in Int, p < hi, NEW z
  PROVE  Count(f, p, hi, z) = (IF f[p] = z THEN 1 ELSE 0) + Count(f, p + 1, hi, z)
  <1>1. p <= p + 1 /\ p + 1 <= hi /\ p + 1 \in Int
    OBVIOUS
  <1>2. Count(f, p, hi, z) = Count(f, p, p + 1, z) + Count(f, p + 1, hi, z)
    BY <1>1, CountSplits
  <1>3. Count(f, p, p + 1, z) = IF f[p] = z THEN 1 ELSE 0
    BY CountOne
  <1>4. QED
    BY <1>2, <1>3

\* The values from lo to hi - 1 ascend.
Rises(f, lo, hi) == \A i, j \in lo..hi - 1 : i < j => f[i] <= f[j]

(* A number put before ascending ones none of which is smaller. *)
LEMMA RisesFrom ==
  ASSUME NEW v, NEW w, NEW x \in Int, NEW n \in Nat, Rises(v, 1, n + 1),
         w[1] = x, \A m \in 1..n : w[m + 1] = v[m] /\ x <= v[m]
  PROVE  Rises(w, 1, n + 2)
  <1> SUFFICES ASSUME NEW i \in 1..(n + 2) - 1, NEW j \in 1..(n + 2) - 1, i < j  PROVE  w[i] <= w[j]
    BY DEF Rises
  <1>1. j - 1 \in 1..n /\ (j - 1) + 1 = j
    OBVIOUS
  <1>2. w[j] = v[j - 1] /\ x <= v[j - 1]
    BY <1>1
  <1>3. CASE i = 1
    BY <1>2, <1>3
  <1>4. CASE i # 1
    <2>1. i - 1 \in 1..n /\ (i - 1) + 1 = i /\ i - 1 < j - 1
      BY <1>4
    <2>2. w[i] = v[i - 1]
      BY <2>1
    <2>3. i - 1 \in 1..(n + 1) - 1 /\ j - 1 \in 1..(n + 1) - 1
      BY <1>1, <2>1
    <2>4. v[i - 1] <= v[j - 1]
      BY <2>1, <2>3 DEF Rises
    <2>5. QED
      BY <1>2, <2>2, <2>4
  <1>5. QED
    BY <1>3, <1>4

\* w is a from p on and b from q on, in ascending order.
IsMerge(w, a, b, p, q) ==
  /\ Ints(w) /\ Len(w) = (Len(a) + 1 - p) + (Len(b) + 1 - q) /\ Rises(w, 1, Len(w) + 1)
  /\ \A z : Count(w, 1, Len(w) + 1, z) = Count(a, p, Len(a) + 1, z) + Count(b, q, Len(b) + 1, z)

(* The element that comes first is put before what the others are merged to. *)
LEMMA MergesOneMore ==
  ASSUME NEW a, Ints(a), Rises(a, 1, Len(a) + 1), NEW b, Ints(b), NEW p \in 1..Len(a),
         NEW q \in 1..Len(b) + 1, NEW v, IsMerge(v, a, b, p + 1, q), \A r \in q..Len(b) : a[p] <= b[r]
  PROVE  IsMerge(<<a[p]>> \o v, a, b, p, q)
  <1>1. Len(a) \in Nat /\ Len(b) \in Nat /\ Len(v) \in Nat /\ a[p] \in Int /\ Ints(v)
        /\ \A n \in 1..Len(v) : v[n] \in Int
    BY IntsAre DEF IsMerge
  <1>2. PICK x \in Int : x = a[p]
    BY <1>1
  <1>3. PICK w : w = <<x>> \o v
    OBVIOUS
  <1>4. Prefixed(w, x, v)
    BY <1>1, <1>3, IsPrefixed
  <1>5. /\ Ints(w) /\ Len(w) = Len(v) + 1 /\ w[1] = x
        /\ \A n \in 1..Len(v) : w[n + 1] = v[n] 
    BY <1>4 DEF Prefixed
  <1>6. \A n \in 1..Len(v) : x <= v[n]
    <2> SUFFICES ASSUME NEW n \in 1..Len(v)  PROVE  x <= v[n]
      OBVIOUS
    <2>1. PICK z : z = v[n]
      OBVIOUS
    <2>2. Count(v, 1, Len(v) + 1, z) # 0
      <3>1. n \in 1..(Len(v) + 1) - 1 /\ Len(v) + 1 \in Int
        BY <1>1
      <3>2. QED
        BY <2>1, <3>1, Counts
    <2>3. Count(a, p + 1, Len(a) + 1, z) # 0 \/ Count(b, q, Len(b) + 1, z) # 0
      BY <2>2 DEF IsMerge
    <2>4. CASE Count(a, p + 1, Len(a) + 1, z) # 0
      <3>1. PICK r \in p + 1..(Len(a) + 1) - 1 : a[r] = z
        BY <2>4, <1>1, Counts
      <3>2. p \in 1..(Len(a) + 1) - 1 /\ r \in 1..(Len(a) + 1) - 1 /\ p < r
        BY <1>1
      <3>3. a[p] <= a[r]
        BY <3>2 DEF Rises
      <3>4. QED
        BY <2>1, <1>2, <3>1, <3>3
    <2>5. CASE Count(b, q, Len(b) + 1, z) # 0
      <3>1. PICK r \in q..(Len(b) + 1) - 1 : b[r] = z
        BY <2>5, <1>1, Counts
      <3>2. r \in q..Len(b)
        BY <1>1
      <3>3. QED
        BY <2>1, <1>2, <3>1, <3>2
    <2>6. QED
      BY <2>3, <2>4, <2>5
  <1>7. PICK n \in Nat : n = Len(v)
    BY <1>1
  <1>8. Len(w) + 1 = n + 2
    BY <1>5, <1>7
  <1>9. Rises(w, 1, n + 2)
    <2>1. Rises(v, 1, n + 1) /\ \A m \in 1..n : w[m + 1] = v[m] /\ x <= v[m]
      BY <1>5, <1>6, <1>7 DEF IsMerge
    <2>2. QED
      BY <2>1, <1>5, RisesFrom
  <1>10. ASSUME NEW z
         PROVE  Count(w, 1, n + 2, z) = Count(a, p, Len(a) + 1, z) + Count(b, q, Len(b) + 1, z)
    <2>1. Count(v, 1, n + 1, z) = Count(a, p + 1, Len(a) + 1, z) + Count(b, q, Len(b) + 1, z)
      BY <1>7 DEF IsMerge
    <2>2. Count(w, 1, n + 2, z) = (IF x = z THEN 1 ELSE 0) + Count(v, 1, n + 1, z)
      BY <1>4, <1>7, CountPrefixed
    <2>3. Count(a, p, Len(a) + 1, z) = (IF x = z THEN 1 ELSE 0) + Count(a, p + 1, Len(a) + 1, z)
      BY <1>1, <1>2, CountFrom
    <2>4. Count(a, p + 1, Len(a) + 1, z) \in Nat /\ Count(b, q, Len(b) + 1, z) \in Nat
      BY <1>1, Counts
    <2>5. QED
      BY <2>1, <2>2, <2>3, <2>4
  <1>11. Len(w) = (Len(a) + 1 - p) + (Len(b) + 1 - q)
    BY <1>1, <1>5 DEF IsMerge
  <1>12. IsMerge(w, a, b, p, q)
    BY <1>5, <1>8, <1>9, <1>10, <1>11 DEF IsMerge
  <1>13. QED
    BY <1>2, <1>3, <1>12

(* It does not matter which of the two comes first. *)
LEMMA MergesEither ==
  ASSUME NEW a, Ints(a), NEW b, Ints(b), NEW p \in Int, NEW q \in Int, NEW w, IsMerge(w, b, a, q, p)
  PROVE  IsMerge(w, a, b, p, q)
  <1>1. Len(a) \in Nat /\ Len(b) \in Nat
    BY IntsAre
  <1>2. ASSUME NEW z
        PROVE  Count(w, 1, Len(w) + 1, z) = Count(a, p, Len(a) + 1, z) + Count(b, q, Len(b) + 1, z)
    <2>1. Count(a, p, Len(a) + 1, z) \in Nat /\ Count(b, q, Len(b) + 1, z) \in Nat
      BY <1>1, Counts
    <2>2. Count(w, 1, Len(w) + 1, z) = Count(b, q, Len(b) + 1, z) + Count(a, p, Len(a) + 1, z)
      BY DEF IsMerge
    <2>3. QED
      BY <2>1, <2>2
  <1>3. QED
    BY <1>1, <1>2 DEF IsMerge

\* w is what s holds from lo to hi - 1.
PartOf(w, s, lo, hi) ==
  /\ Ints(w) /\ Len(w) = hi - lo /\ \A n \in 1..hi - lo : w[n] = s[lo + n - 1]
  /\ \A z : Count(w, 1, hi - lo + 1, z) = Count(s, lo, hi, z)
  /\ Rises(s, lo, hi) => Rises(w, 1, hi - lo + 1)

LEMMA Parts ==
  ASSUME NEW s, NEW lo \in Nat \ {0}, NEW hi \in Int, Ints(s), lo <= hi, hi <= Len(s) + 1
  PROVE  PartOf(SubSeq(s, lo, hi - 1), s, lo, hi)
  <1> DEFINE w == SubSeq(s, lo, hi - 1)
  <1>1. Ints(w) /\ Len(w) = hi - lo /\ \A n \in 1..hi - lo : w[n] = s[lo + n - 1]
    <2>1. s \in Seq(Int)
      BY DEF Ints
    <2>2. hi - 1 \in lo - 1..Len(s) /\ hi - 1 - lo + 1 = hi - lo
      BY <2>1
    <2>3. \A i \in lo..hi - 1 : i \in 1..Len(s)
      BY <2>1
    <2>4. PICK h : h = hi - 1
      OBVIOUS
    <2>5. h \in lo - 1..Len(s) /\ h - lo + 1 = hi - lo
      BY <2>2, <2>4
    <2>6. \A i \in lo..h : i \in 1..Len(s)
      BY <2>3, <2>4
    <2>7. /\ SubSeq(s, lo, h) \in Seq(Int)
          /\ Len(SubSeq(s, lo, h)) = IF lo <= h + 1 THEN h - lo + 1 ELSE 0
          /\ \A n \in 1..h - lo + 1 : SubSeq(s, lo, h)[n] = s[lo + n - 1]
      BY <2>1, <2>5, <2>6, SubSeqProperties
    <2>8. QED
      BY <2>4, <2>5, <2>7 DEF Ints
  <1> HIDE DEF w
  <1>2. \A i \in lo..hi - 1 : w[i - lo + 1] = s[i]
    <2> SUFFICES ASSUME NEW i \in lo..hi - 1  PROVE  w[i - lo + 1] = s[i]
      OBVIOUS
    <2>1. i - lo + 1 \in 1..hi - lo /\ lo + (i - lo + 1) - 1 = i
      OBVIOUS
    <2>2. QED
      BY <2>1, <1>1
  <1>3. \A z : Count(w, 1, hi - lo + 1, z) = Count(s, lo, hi, z)
    <2>1. hi - lo + 1 \in Int /\ (hi - lo + 1) - 1 = hi - lo /\ lo \in Int /\ 1 \in Int
      OBVIOUS
    <2>2. Moved(s, lo, hi, w, 1, hi - lo + 1)
      BY <2>1, <1>2 DEF Moved
    <2>3. QED
      BY <2>1, <2>2, CountMoves
  <1>4. ASSUME Rises(s, lo, hi)  PROVE  Rises(w, 1, hi - lo + 1)
    <2> SUFFICES ASSUME NEW m \in 1..(hi - lo + 1) - 1, NEW n \in 1..(hi - lo + 1) - 1, m < n
                 PROVE  w[m] <= w[n]
      BY DEF Rises
    <2>1. m \in 1..hi - lo /\ n \in 1..hi - lo
      OBVIOUS
    <2>2. w[m] = s[lo + m - 1] /\ w[n] = s[lo + n - 1]
      BY <2>1, <1>1
    <2>3. lo + m - 1 \in lo..hi - 1 /\ lo + n - 1 \in lo..hi - 1 /\ lo + m - 1 < lo + n - 1
      BY <2>1
    <2>4. s[lo + m - 1] <= s[lo + n - 1]
      BY <2>3, <1>4 DEF Rises
    <2>5. QED
      BY <2>2, <2>4
  <1>5. PartOf(w, s, lo, hi)
    BY <1>1, <1>3, <1>4 DEF PartOf
  <1>6. QED
    BY <1>5 DEF w

(* When one of them is used up the rest of the other one remains. *)
LEMMA MergesRest ==
  ASSUME NEW a, Ints(a), NEW b, Ints(b), Rises(b, 1, Len(b) + 1), NEW q \in 1..Len(b) + 1,
         NEW p, p = Len(a) + 1
  PROVE  IsMerge(SubSeq(b, q, Len(b)), a, b, p, q)
  <1>1. Len(a) \in Nat /\ Len(b) \in Nat /\ q \in Nat \ {0}
    BY IntsAre
  <1>2. PICK hi \in Int : hi = Len(b) + 1
    BY <1>1
  <1>3. PICK w : w = SubSeq(b, q, hi - 1)
    OBVIOUS
  <1>4. q <= hi /\ hi <= Len(b) + 1 /\ hi - 1 = Len(b) /\ Rises(b, q, hi)
    <2>1. q <= hi /\ hi <= Len(b) + 1 /\ hi - 1 = Len(b)
      BY <1>1, <1>2
    <2>2. \A r \in q..hi - 1 : r \in 1..(Len(b) + 1) - 1
      BY <1>1, <1>2
    <2>3. QED
      BY <2>1, <2>2 DEF Rises
  <1>5. /\ Ints(w) /\ Len(w) = hi - q /\ Rises(w, 1, hi - q + 1)
        /\ \A z : Count(w, 1, hi - q + 1, z) = Count(b, q, hi, z)
    <2>1. PartOf(w, b, q, hi)
      BY <1>1, <1>3, <1>4, Parts
    <2>2. QED
      BY <2>1, <1>4 DEF PartOf
  <1>6. Len(w) = (Len(a) + 1 - p) + (Len(b) + 1 - q) /\ Len(w) + 1 = hi - q + 1
    BY <1>1, <1>2, <1>5
  <1>7. ASSUME NEW z
        PROVE  Count(w, 1, Len(w) + 1, z) = Count(a, p, Len(a) + 1, z) + Count(b, q, Len(b) + 1, z)
    <2>1. Count(a, p, p, z) = 0
      BY <1>1, CountNone
    <2>2. Count(b, q, Len(b) + 1, z) \in Nat
      BY <1>1, Counts
    <2>3. QED
      BY <2>1, <2>2, <1>2, <1>5, <1>6
  <1>8. IsMerge(w, a, b, p, q)
    BY <1>5, <1>6, <1>7 DEF IsMerge
  <1>9. QED
    BY <1>3, <1>4, <1>8

(* So what is made of i elements of a and j of b merges them. *)
LEMMA MergesAll ==
  ASSUME NEW a, Ints(a), Rises(a, 1, Len(a) + 1), NEW b, Ints(b), Rises(b, 1, Len(b) + 1),
         NEW m, MergesUp(m, a, b)
  PROVE  IsMerge(m[<<Len(a), Len(b)>>], a, b, 1, 1)
  <1> DEFINE Good(i, j) == IsMerge(m[<<i, j>>], a, b, Len(a) - i + 1, Len(b) - j + 1)
             G == {n \in Nat : \A i \in 0..Len(a), j \in 0..Len(b) : i + j <= n => Good(i, j)}
  <1>1. /\ Len(a) \in Nat /\ \A i \in 1..Len(a) : a[i] \in Int
        /\ Len(b) \in Nat /\ \A i \in 1..Len(b) : b[i] \in Int
    BY IntsAre
  <1>2. \A i \in 0..Len(a), j \in 0..Len(b) : m[<<i, j>>] = MergeStep(m, a, b, i, j)
    <2> SUFFICES ASSUME NEW i \in 0..Len(a), NEW j \in 0..Len(b)
                 PROVE  m[<<i, j>>] = MergeStep(m, a, b, i, j)
      OBVIOUS
    <2>1. PICK k : k = <<i, j>>
      OBVIOUS
    <2>2. k \in (0..Len(a)) \X (0..Len(b)) /\ k[1] = i /\ k[2] = j
      BY <2>1
    <2>3. m[k] = MergeStep(m, a, b, k[1], k[2])
      BY <2>2 DEF MergesUp
    <2>4. QED
      BY <2>1, <2>2, <2>3
  <1>3. ASSUME NEW j \in 0..Len(b)  PROVE  Good(0, j)
    <2>1. PICK p, q : p = Len(a) - 0 + 1 /\ q = Len(b) - j + 1
      OBVIOUS
    <2>2. p = Len(a) + 1 /\ q \in 1..Len(b) + 1 /\ 0 \in 0..Len(a)
      BY <1>1, <2>1
    <2>3. m[<<0, j>>] = SubSeq(b, q, Len(b))
      BY <1>2, <2>1, <2>2 DEF MergeStep
    <2>4. IsMerge(SubSeq(b, q, Len(b)), a, b, p, q)
      BY <2>2, MergesRest
    <2>5. QED
      BY <2>1, <2>3, <2>4
  <1>4. ASSUME NEW i \in 0..Len(a), i # 0  PROVE  Good(i, 0)
    <2>1. PICK p, q : p = Len(a) - i + 1 /\ q = Len(b) - 0 + 1
      OBVIOUS
    <2>2. q = Len(b) + 1 /\ p \in 1..Len(a) + 1 /\ 0 \in 0..Len(b)
      BY <1>1, <2>1
    <2>3. m[<<i, 0>>] = SubSeq(a, p, Len(a))
      BY <1>2, <1>4, <2>1, <2>2 DEF MergeStep
    <2>4. IsMerge(SubSeq(a, p, Len(a)), b, a, q, p)
      BY <2>2, MergesRest
    <2>5. IsMerge(SubSeq(a, p, Len(a)), a, b, p, q)
      <3>1. p \in Int /\ q \in Int
        BY <1>1, <2>1
      <3>2. QED
        BY <2>4, <3>1, MergesEither
    <2>6. QED
      BY <2>1, <2>3, <2>5
  <1>5. ASSUME NEW i \in 1..Len(a), NEW j \in 1..Len(b), Good(i - 1, j), Good(i, j - 1)  PROVE  Good(i, j)
    <2>1. PICK p \in 1..Len(a), q \in 1..Len(b) : /\ p = Len(a) - i + 1 /\ q = Len(b) - j + 1
                   /\ p + 1 = Len(a) - (i - 1) + 1 /\ q + 1 = Len(b) - (j - 1) + 1
      <3>1. /\ Len(a) - i + 1 \in 1..Len(a) /\ Len(b) - j + 1 \in 1..Len(b)
            /\ (Len(a) - i + 1) + 1 = Len(a) - (i - 1) + 1 /\ (Len(b) - j + 1) + 1 = Len(b) - (j - 1) + 1
        BY <1>1
      <3>2. QED
        BY <3>1
    <2>2. IsMerge(m[<<i - 1, j>>], a, b, p + 1, q) /\ IsMerge(m[<<i, j - 1>>], a, b, p, q + 1)
      BY <2>1, <1>5
    <2>3. i \in 0..Len(a) /\ j \in 0..Len(b) /\ i # 0 /\ j # 0
      BY <1>1
    <2>4. m[<<i, j>>] = IF b[q] < a[p] THEN <<b[q]>> \o m[<<i, j - 1>>]
                                       ELSE <<a[p]>> \o m[<<i - 1, j>>]
      BY <1>2, <2>1, <2>3 DEF MergeStep
    <2>5. /\ a[p] \in Int /\ b[q] \in Int /\ p \in Int /\ q \in Int /\ p + 1 \in Int /\ q + 1 \in Int
          /\ p \in 1..Len(a) + 1 /\ q \in 1..Len(b) + 1
      BY <1>1
    <2>6. CASE b[q] < a[p]
      <3>1. \A r \in p..Len(a) : b[q] <= a[r]
        <4> SUFFICES ASSUME NEW r \in p..Len(a)  PROVE  b[q] <= a[r]
          OBVIOUS
        <4>1. p \in 1..(Len(a) + 1) - 1 /\ r \in 1..(Len(a) + 1) - 1 /\ (p < r \/ p = r)
          BY <1>1
        <4>2. p < r => a[p] <= a[r]
          BY <4>1 DEF Rises
        <4>3. a[r] \in Int
          BY <1>1
        <4>4. QED
          BY <4>1, <4>2, <4>3, <2>5, <2>6
      <3>2. IsMerge(m[<<i, j - 1>>], b, a, q + 1, p)
        BY <2>2, <2>5, MergesEither
      <3>3. IsMerge(<<b[q]>> \o m[<<i, j - 1>>], b, a, q, p)
        BY <3>1, <3>2, <2>5, MergesOneMore
      <3>4. IsMerge(<<b[q]>> \o m[<<i, j - 1>>], a, b, p, q)
        BY <3>3, <2>5, MergesEither
      <3>5. QED
        BY <3>4, <2>1, <2>4, <2>6
    <2>7. CASE ~(b[q] < a[p])
      <3>1. \A r \in q..Len(b) : a[p] <= b[r]
        <4> SUFFICES ASSUME NEW r \in q..Len(b)  PROVE  a[p] <= b[r]
          OBVIOUS
        <4>1. q \in 1..(Len(b) + 1) - 1 /\ r \in 1..(Len(b) + 1) - 1 /\ (q < r \/ q = r)
          BY <1>1
        <4>2. q < r => b[q] <= b[r]
          BY <4>1 DEF Rises
        <4>3. b[r] \in Int
          BY <1>1
        <4>4. QED
          BY <4>1, <4>2, <4>3, <2>5, <2>7
      <3>2. IsMerge(<<a[p]>> \o m[<<i - 1, j>>], a, b, p, q)
        BY <3>1, <2>2, <2>5, MergesOneMore
      <3>3. QED
        BY <3>2, <2>1, <2>4, <2>7
    <2>8. QED
      BY <2>6, <2>7
  <1> HIDE DEF Good
  <1>6. 0 \in G
    <2>1. \A i \in 0..Len(a), j \in 0..Len(b) : i + j <= 0 => i = 0
      BY <1>1
    <2>2. QED
      BY <2>1, <1>3
  <1>7. ASSUME NEW n \in G  PROVE  n + 1 \in G
    <2> SUFFICES ASSUME NEW i \in 0..Len(a), NEW j \in 0..Len(b), i + j <= n + 1  PROVE  Good(i, j)
      OBVIOUS
    <2>1. CASE i = 0 \/ j = 0
      BY <2>1, <1>3, <1>4
    <2>2. CASE i # 0 /\ j # 0
      <3>1. /\ i \in 1..Len(a) /\ j \in 1..Len(b) /\ i - 1 \in 0..Len(a) /\ j - 1 \in 0..Len(b)
            /\ (i - 1) + j <= n /\ i + (j - 1) <= n
        BY <2>2, <1>1
      <3>2. Good(i - 1, j) /\ Good(i, j - 1)
        BY <3>1
      <3>3. QED
        BY <3>1, <3>2, <1>5
    <2>3. QED
      BY <2>1, <2>2
  <1>8. \A n \in Nat : n \in G
    <2>1. G \subseteq Nat
      OBVIOUS
    <2> HIDE DEF G
    <2>2. QED
      BY <1>6, <1>7, <2>1, Climbing
  <1>9. Good(Len(a), Len(b))
    <2>1. Len(a) + Len(b) \in G /\ Len(a) \in 0..Len(a) /\ Len(b) \in 0..Len(b)
      <3> HIDE DEF G
      <3>1. QED
        BY <1>1, <1>8
    <2>2. QED
      BY <2>1, <1>1
  <1>10. Len(a) - Len(a) + 1 = 1 /\ Len(b) - Len(b) + 1 = 1
    BY <1>1
  <1>11. QED
    BY <1>9, <1>10 DEF Good

(* std::inplace_merge makes one ascending sequence of two. *)
LEMMA MergedMerges ==
  ASSUME NEW a, Ints(a), Rises(a, 1, Len(a) + 1), NEW b, Ints(b), Rises(b, 1, Len(b) + 1)
  PROVE  IsMerge(Merged(a, b), a, b, 1, 1)
  <1>1. Len(a) \in Nat /\ Len(b) \in Nat
    BY IntsAre
  <1>2. PICK m : MergesUp(m, a, b) /\ Merged(a, b) = m[<<Len(a), Len(b)>>]
    BY <1>1, MergedIs
  <1>3. QED
    BY <1>2, MergesAll

-----------------------------------------------------------------------------
(* Sorting *)

LEMMA AscendingIs ==
  ASSUME NEW s, Ints(s)
  PROVE  Ascending(s) <=> Rises(s, 1, Len(s) + 1)
  <1>1. DOMAIN s = 1..(Len(s) + 1) - 1
    BY IntsAre
  <1>2. QED
    BY <1>1 DEF Ascending, Rises

LEMMA OccurrencesAre ==
  ASSUME NEW s, Ints(s), NEW z
  PROVE  Occurrences(s, z) = Count(s, 1, Len(s) + 1, z) /\ (z \in ToSet(s) <=> Count(s, 1, Len(s) + 1, z) # 0)
  <1>1. DOMAIN s = 1..(Len(s) + 1) - 1 /\ Len(s) + 1 \in Int
    BY IntsAre
  <1>2. Occurrences(s, z) = Count(s, 1, Len(s) + 1, z)
    BY <1>1 DEF Occurrences, Count, Places
  <1>3. Count(s, 1, Len(s) + 1, z) # 0 <=> \E i \in 1..(Len(s) + 1) - 1 : s[i] = z
    BY <1>1, Counts
  <1>4. z \in ToSet(s) <=> \E i \in DOMAIN s : s[i] = z
    BY DEF ToSet
  <1>5. QED
    BY <1>1, <1>2, <1>3, <1>4

LEMMA SameElementsAre ==
  ASSUME NEW s, Ints(s), NEW t, Ints(t)
  PROVE  SameElements(s, t) <=> \A z : Count(s, 1, Len(s) + 1, z) = Count(t, 1, Len(t) + 1, z)
  <1>1. \A z : /\ Occurrences(s, z) = Count(s, 1, Len(s) + 1, z)
               /\ Occurrences(t, z) = Count(t, 1, Len(t) + 1, z)
               /\ z \in ToSet(s) <=> Count(s, 1, Len(s) + 1, z) # 0
               /\ z \in ToSet(t) <=> Count(t, 1, Len(t) + 1, z) # 0
    BY OccurrencesAre
  <1>2. ASSUME SameElements(s, t), NEW z
        PROVE  Count(s, 1, Len(s) + 1, z) = Count(t, 1, Len(t) + 1, z)
    BY <1>1, <1>2 DEF SameElements
  <1>3. ASSUME \A z : Count(s, 1, Len(s) + 1, z) = Count(t, 1, Len(t) + 1, z)
        PROVE  SameElements(s, t)
    BY <1>1, <1>3 DEF SameElements
  <1>4. QED
    BY <1>2, <1>3

\* t is what s becomes when it is sorted.
Sorts(t, s) == /\ Ints(t) /\ Len(t) = Len(s) /\ Rises(t, 1, Len(t) + 1)
               /\ \A z : Count(t, 1, Len(t) + 1, z) = Count(s, 1, Len(s) + 1, z)

(* One more number is merged into what was sorted. *)
LEMMA SortsOneMore ==
  ASSUME NEW s, Ints(s), NEW n \in Nat, Len(s) = n + 1,
         \A r : Ints(r) /\ Len(r) = n => \E t : Sorts(t, r)
  PROVE  \E t : Sorts(t, s)
  <1>1. PICK x \in Int : x = s[n + 1]
    BY IntsAre
  <1>2. PICK r : r = SubSeq(s, 1, (n + 1) - 1)
    OBVIOUS
  <1>3. Ints(r) /\ Len(r) = n /\ \A z : Count(r, 1, n + 1, z) = Count(s, 1, n + 1, z)
    <2>1. /\ 1 \in Nat \ {0} /\ n + 1 \in Int /\ 1 <= n + 1 /\ n + 1 <= Len(s) + 1 /\ (n + 1) - 1 = n
          /\ (n + 1) - 1 + 1 = n + 1
      OBVIOUS
    <2>2. PartOf(r, s, 1, n + 1)
      BY <2>1, <1>2, Parts
    <2>3. /\ Ints(r) /\ Len(r) = (n + 1) - 1
          /\ \A z : Count(r, 1, (n + 1) - 1 + 1, z) = Count(s, 1, n + 1, z)
      BY <2>2 DEF PartOf
    <2>4. QED
      BY <2>1, <2>3
  <1>4. PICK t : Sorts(t, r)
    BY <1>3
  <1>5. PICK b : b = <<x>>
    OBVIOUS
  <1>6. Ints(b) /\ Len(b) = 1 /\ b[1] = x
    BY <1>5 DEF Ints
  <1>7. Rises(b, 1, Len(b) + 1)
    BY <1>6 DEF Rises
  <1>8. Ints(t) /\ Rises(t, 1, Len(t) + 1) /\ Len(t) = n
    BY <1>3, <1>4 DEF Sorts
  <1>9. PICK w : IsMerge(w, t, b, 1, 1)
    BY <1>6, <1>7, <1>8, MergedMerges
  <1>10. Ints(w) /\ Len(w) = Len(s) /\ Rises(w, 1, Len(w) + 1)
    BY <1>6, <1>8, <1>9 DEF IsMerge
  <1>11. ASSUME NEW z  PROVE  Count(w, 1, Len(w) + 1, z) = Count(s, 1, Len(s) + 1, z)
    <2>1. Count(w, 1, Len(w) + 1, z) = Count(t, 1, n + 1, z) + Count(b, 1, 2, z)
      BY <1>6, <1>8, <1>9 DEF IsMerge
    <2>2. Count(t, 1, n + 1, z) = Count(s, 1, n + 1, z)
      BY <1>3, <1>4, <1>8 DEF Sorts
    <2>3. Count(b, 1, 2, z) = IF x = z THEN 1 ELSE 0
      <3>1. 1 \in Int /\ 2 \in Int /\ 2 = 1 + 1
        OBVIOUS
      <3>2. Count(b, 1, 2, z) = IF b[1] = z THEN 1 ELSE 0
        BY <3>1, CountOne
      <3>3. QED
        BY <3>2, <1>6
    <2>4. Count(s, n + 1, n + 2, z) = IF x = z THEN 1 ELSE 0
      <3>1. PICK i \in Int, k \in Int : i = n + 1 /\ k = n + 2 /\ k = i + 1
        OBVIOUS
      <3>2. Count(s, i, k, z) = IF s[i] = z THEN 1 ELSE 0
        BY <3>1, CountOne
      <3>3. QED
        BY <3>1, <3>2, <1>1
    <2>5. Count(s, 1, n + 2, z) = Count(s, 1, n + 1, z) + Count(s, n + 1, n + 2, z)
      BY CountSplits
    <2>6. Len(s) + 1 = n + 2
      OBVIOUS
    <2>7. QED
      BY <2>1, <2>2, <2>3, <2>4, <2>5, <2>6
  <1>12. QED
    BY <1>10, <1>11 DEF Sorts

(* So every sequence can be sorted. *)
LEMMA SortsExist ==
  ASSUME NEW s, Ints(s)
  PROVE  \E t : Sorts(t, s)
  <1> DEFINE G == {n \in Nat : \A r : Ints(r) /\ Len(r) = n => \E t : Sorts(t, r)}
  <1>1. 0 \in G
    <2> SUFFICES ASSUME NEW r, Ints(r), Len(r) = 0  PROVE  \E t : Sorts(t, r)
      OBVIOUS
    <2>1. Rises(r, 1, Len(r) + 1)
      BY DEF Rises
    <2>2. QED
      BY <2>1 DEF Sorts
  <1>2. ASSUME NEW n \in G  PROVE  n + 1 \in G
    <2>1. \A r : Ints(r) /\ Len(r) = n + 1 => \E t : Sorts(t, r)
      BY SortsOneMore, Zenon
    <2>2. QED
      BY <2>1
  <1>3. \A n \in Nat : n \in G
    <2>1. G \subseteq Nat
      OBVIOUS
    <2> HIDE DEF G
    <2>2. QED
      BY <1>1, <1>2, <2>1, Climbing
  <1>4. Len(s) \in G
    <2> HIDE DEF G
    <2>1. QED
      BY <1>3, IntsAre
  <1>5. QED
    BY <1>4

(* The model's std::sort sorts. *)
LEMMA ArrangedSorts ==
  ASSUME NEW s, Ints(s)
  PROVE  Sorts(Arranged(s), s)
  <1> DEFINE OK(t) == t \in [DOMAIN s -> ToSet(s)] /\ Ascending(t) /\ SameElements(t, s)
  <1>1. PICK u : Sorts(u, s)
    BY SortsExist
  <1>2. Ints(u) /\ Len(u) = Len(s)
    BY <1>1 DEF Sorts
  <1>3. DOMAIN u = DOMAIN s /\ u = [i \in DOMAIN s |-> u[i]] /\ DOMAIN s = 1..Len(s)
    <2>1. DOMAIN u = DOMAIN s /\ DOMAIN s = 1..Len(s)
      BY <1>2, IntsAre
    <2>2. u = [i \in DOMAIN u |-> u[i]]
      BY <1>2 DEF Ints
    <2>3. QED
      BY <2>1, <2>2
  <1>4. \A i \in DOMAIN s : u[i] \in ToSet(s)
    <2> SUFFICES ASSUME NEW i \in DOMAIN s  PROVE  u[i] \in ToSet(s)
      OBVIOUS
    <2>1. PICK z : z = u[i]
      OBVIOUS
    <2>2. i \in DOMAIN u
      BY <1>3
    <2>3. z \in ToSet(u)
      BY <2>1, <2>2 DEF ToSet
    <2>4. Count(u, 1, Len(u) + 1, z) # 0
      BY <1>2, <2>3, OccurrencesAre
    <2>5. Count(s, 1, Len(s) + 1, z) # 0
      BY <2>4, <1>1 DEF Sorts
    <2>6. QED
      BY <2>1, <2>5, OccurrencesAre
  <1>5. u \in [DOMAIN s -> ToSet(s)]
    BY <1>3, <1>4
  <1>6. Ascending(u) /\ SameElements(u, s)
    <2>1. Rises(u, 1, Len(u) + 1) /\ \A z : Count(u, 1, Len(u) + 1, z) = Count(s, 1, Len(s) + 1, z)
      BY <1>1 DEF Sorts
    <2>2. QED
      BY <2>1, <1>2, AscendingIs, SameElementsAre
  <1>7. OK(Arranged(s))
    <2>1. OK(u)
      BY <1>5, <1>6
    <2> HIDE DEF OK
    <2>2. Arranged(s) = CHOOSE t : OK(t)
      BY DEF Arranged, OK
    <2>3. QED
      BY <2>1, <2>2
  <1>8. PICK t : t = Arranged(s)
    OBVIOUS
  <1>9. t \in [DOMAIN s -> ToSet(s)] /\ Ascending(t) /\ SameElements(t, s)
    BY <1>7, <1>8
  <1>10. Ints(t) /\ Len(t) = Len(s)
    <2>1. ToSet(s) \subseteq Int /\ DOMAIN s = 1..Len(s) /\ Len(s) \in Nat
      BY IntsAre DEF ToSet
    <2>2. t \in [1..Len(s) -> Int]
      BY <2>1, <1>9
    <2>3. QED
      BY <2>1, <2>2 DEF Ints
  <1>11. Rises(t, 1, Len(t) + 1) /\ \A z : Count(t, 1, Len(t) + 1, z) = Count(s, 1, Len(s) + 1, z)
    BY <1>9, <1>10, AscendingIs, SameElementsAre
  <1>12. QED
    BY <1>8, <1>10, <1>11 DEF Sorts

-----------------------------------------------------------------------------
(* Writing back *)

LEMMA WrittenIs ==
  ASSUME Ints(data), NEW lo \in Nat \ {0}, NEW hi \in Int, lo <= hi, hi <= Len(data) + 1,
         NEW s, Ints(s), Len(s) = hi - lo,
         \A z : Count(s, 1, hi - lo + 1, z) = Count(data, lo, hi, z),
         NEW d, d = Written(lo, s)
  PROVE  /\ Ints(d) /\ Len(d) = Len(data)
         /\ \A i \in 1..Len(data) : i < lo \/ hi <= i => d[i] = data[i]
         /\ Rises(s, 1, hi - lo + 1) => Rises(d, lo, hi)
         /\ \A z : Count(d, 1, Len(d) + 1, z) = Count(data, 1, Len(data) + 1, z)
  <1>1. /\ Len(data) \in Nat /\ DOMAIN data = 1..Len(data) /\ \A i \in 1..Len(data) : data[i] \in Int
        /\ DOMAIN s = 1..hi - lo /\ \A i \in 1..hi - lo : s[i] \in Int
    BY IntsAre
  <1>2. /\ d = [i \in 1..Len(data) |-> IF i - lo + 1 \in 1..hi - lo THEN s[i - lo + 1] ELSE data[i]]
    BY <1>1 DEF Written
  <1>3. \A i \in lo..hi - 1 : d[i] = s[i - lo + 1] /\ i - lo + 1 \in 1..hi - lo
    BY <1>1, <1>2
  <1>4. \A i \in 1..Len(data) : i < lo \/ hi <= i => d[i] = data[i]
    BY <1>1, <1>2
  <1>5. Ints(d) /\ Len(d) = Len(data)
    <2>1. \A i \in 1..Len(data) : d[i] \in Int
      <3> SUFFICES ASSUME NEW i \in 1..Len(data)  PROVE  d[i] \in Int
        OBVIOUS
      <3>1. CASE i - lo + 1 \in 1..hi - lo
        BY <3>1, <1>1, <1>2
      <3>2. CASE i - lo + 1 \notin 1..hi - lo
        BY <3>2, <1>1, <1>2
      <3>3. QED
        BY <3>1, <3>2
    <2>2. d \in [1..Len(data) -> Int]
      BY <2>1, <1>2
    <2>3. d \in Seq(Int) /\ Len(d) = Len(data)
      <3>1. PICK n \in Nat : n = Len(data)
        BY <1>1
      <3>2. d \in [1..n -> Int]
        BY <3>1, <2>2
      <3>3. d \in Seq(Int) /\ Len(d) = n
        BY <3>2
      <3>4. QED
        BY <3>1, <3>3
    <2>4. QED
      BY <2>3 DEF Ints
  <1>6. ASSUME Rises(s, 1, hi - lo + 1)  PROVE  Rises(d, lo, hi)
    <2> SUFFICES ASSUME NEW i \in lo..hi - 1, NEW j \in lo..hi - 1, i < j  PROVE  d[i] <= d[j]
      BY DEF Rises
    <2>1. /\ i - lo + 1 \in 1..(hi - lo + 1) - 1 /\ j - lo + 1 \in 1..(hi - lo + 1) - 1
          /\ i - lo + 1 < j - lo + 1
      OBVIOUS
    <2>2. s[i - lo + 1] <= s[j - lo + 1]
      BY <2>1, <1>6 DEF Rises
    <2>3. QED
      BY <2>2, <1>3
  <1>7. ASSUME NEW z
        PROVE  Count(d, 1, Len(data) + 1, z) = Count(data, 1, Len(data) + 1, z)
    <2>1. Count(d, 1, lo, z) = Count(data, 1, lo, z)
      <3>1. \A i \in 1..lo - 1 : d[i] = data[i]
        BY <1>1, <1>4
      <3>2. Places(d, 1, lo, z) = Places(data, 1, lo, z)
        BY <3>1 DEF Places
      <3>3. QED
        BY <3>2 DEF Count
    <2>2. Count(d, hi, Len(data) + 1, z) = Count(data, hi, Len(data) + 1, z)
      <3>1. \A i \in hi..(Len(data) + 1) - 1 : d[i] = data[i]
        BY <1>1, <1>4
      <3>2. Places(d, hi, Len(data) + 1, z) = Places(data, hi, Len(data) + 1, z)
        BY <3>1 DEF Places
      <3>3. QED
        BY <3>2 DEF Count
    <2>3. Count(d, lo, hi, z) = Count(s, 1, hi - lo + 1, z)
      <3>1. \A i \in 1..(hi - lo + 1) - 1 : d[i - 1 + lo] = s[i]
        <4> SUFFICES ASSUME NEW i \in 1..(hi - lo + 1) - 1  PROVE  d[i - 1 + lo] = s[i]
          OBVIOUS
        <4>1. i - 1 + lo \in lo..hi - 1 /\ (i - 1 + lo) - lo + 1 = i
          OBVIOUS
        <4>2. QED
          BY <4>1, <1>3
      <3>2. hi - lo + 1 \in Int /\ hi - lo = (hi - lo + 1) - 1 /\ lo \in Int /\ 1 \in Int
        OBVIOUS
      <3>3. Moved(s, 1, hi - lo + 1, d, lo, hi)
        BY <3>1, <3>2 DEF Moved
      <3>4. QED
        BY <3>2, <3>3, CountMoves
    <2>4. \A f : /\ Count(f, 1, Len(data) + 1, z) = Count(f, 1, lo, z) + Count(f, lo, Len(data) + 1, z)
                 /\ Count(f, lo, Len(data) + 1, z) = Count(f, lo, hi, z) + Count(f, hi, Len(data) + 1, z)
      <3>1. Len(data) + 1 \in Int /\ 1 <= lo /\ lo <= Len(data) + 1
        BY <1>1
      <3>2. QED
        BY <3>1, CountSplits
    <2>5. QED
      BY <2>1, <2>2, <2>3, <2>4
  <1>8. QED
    BY <1>4, <1>5, <1>6, <1>7

-----------------------------------------------------------------------------
(* What is sorted when *)

\* Every range lies in the vector, main()'s is all of it.
Ranges ==
  /\ \A k \in Nodes : call[k].at # "none" =>
       1 <= call[k].begin /\ call[k].begin <= call[k].end /\ call[k].end <= Len(data) + 1
  /\ call[Root].begin = 1 /\ call[Root].end = Len(data) + 1 /\ call[Root].at # "none"

\* The halves are those that will be merged.
Middles == \A k \in Nodes : call[k].at = "waits" => call[Left(k)].end = middle(k)

HalvesSorted ==
  \A k \in Nodes : call[k].at = "merging" =>
    Rises(data, call[k].begin, middle(k)) /\ Rises(data, middle(k), call[k].end)

DoneSorted == \A k \in Holding : call[k].at = "done" => Rises(data, call[k].begin, call[k].end)

SameData == /\ Ints(data) /\ Len(data) = Len(input.unorderedData)
            /\ SameElements(data, input.unorderedData)

DataInv == SameData /\ Ranges /\ Middles /\ HalvesSorted /\ DoneSorted

\* Where the middle of a range lies.
LEMMA MiddleWithin ==
  ASSUME NEW b \in Int, NEW e \in Int, b <= e
  PROVE  b + (e - b) \div 2 \in Int /\ b <= b + (e - b) \div 2 /\ b + (e - b) \div 2 <= e
  <1>1. PICK n \in Nat : n = e - b
    OBVIOUS
  <1>2. n \div 2 \in Nat /\ n \div 2 <= n
    BY <1>1
  <1>3. QED
    BY <1>1, <1>2

LEMMA RangeFacts ==
  ASSUME SortTypes, SameData, Ranges, NEW k \in Nodes, call[k].at # "none"
  PROVE  /\ call[k].begin \in Nat \ {0} /\ call[k].end \in Int /\ middle(k) \in Nat \ {0}
         /\ call[k].begin <= middle(k) /\ middle(k) <= call[k].end
         /\ call[k].begin <= call[k].end /\ call[k].end <= Len(data) + 1 /\ Len(data) \in Nat
  <1>1. call[k].begin \in Int /\ call[k].end \in Int
    BY DEF SortTypes
  <1>2. 1 <= call[k].begin /\ call[k].begin <= call[k].end /\ call[k].end <= Len(data) + 1
    BY DEF Ranges
  <1>3. middle(k) \in Int /\ call[k].begin <= middle(k) /\ middle(k) <= call[k].end
    BY <1>1, <1>2, MiddleWithin DEF middle, elementCount
  <1>4. Len(data) \in Nat
    BY IntsAre DEF SameData
  <1>5. QED
    BY <1>1, <1>2, <1>3, <1>4

(* A call goes on, and what it writes lies within its range. *)
LEMMA DataMoves ==
  ASSUME SortInv, DataInv, input' = input, NEW k \in Nodes,
         NEW from \in {"called", "sorting", "merging"}, NEW to \in {"sorting", "done"},
         Moves(k, from, to), SameData',
         \A i \in 1..Len(data) : i < call[k].begin \/ call[k].end <= i => data'[i] = data[i],
         to = "done" => Rises(data', call[k].begin, call[k].end)
  PROVE  DataInv'
  <1>1. SortTypes /\ to \in CallStates /\ Nodes' = Nodes /\ SameData /\ Ranges
    BY SortFacts DEF SortInv, CallStates, DataInv
  <1>2. /\ \A j \in Nodes : /\ call'[j].begin = call[j].begin /\ call'[j].end = call[j].end
                            /\ j # k => call'[j].at = call[j].at
        /\ call[k].at = from /\ call'[k].at = to
    BY <1>1, MoveFacts
  <1>3. k \in Holding /\ call[k].at # "none"
    BY <1>2 DEF SortInv, UnfinishedAwaited, Holding
  <1>4. Len(data') = Len(data) /\ Len(data) \in Nat
    BY <1>1, IntsAre DEF SameData
  <1>5. \A j \in Nodes : middle(j)' = middle(j)
    BY <1>2 DEF middle, elementCount
  <1>6. Ranges'
    <2>1. Root \in Nodes
      BY <1>1, SortFacts, Paths
    <2>2. \A j \in Nodes : call'[j].at # "none" <=> call[j].at # "none"
      BY <1>2
    <2>3. QED
      BY <1>1, <1>2, <1>4, <2>1, <2>2 DEF Ranges
  <1>7. Middles'
    <2> SUFFICES ASSUME NEW j \in Nodes, call'[j].at = "waits"
                 PROVE  call'[Left(j)].end = middle(j)'
      BY <1>1 DEF Middles
    <2>1. call[j].at = "waits"
      BY <1>2
    <2>2. Left(j) \in Nodes
      BY <2>1 DEF SortInv, Halved
    <2>3. call[Left(j)].end = middle(j)
      BY <2>1 DEF DataInv, Middles
    <2>4. QED
      BY <2>2, <2>3, <1>2, <1>5
  <1>8. ASSUME NEW j \in Nodes, j \in Holding, j # k, NEW lo \in Int, NEW hi \in Int,
               call[j].begin <= lo, hi <= call[j].end, Rises(data, lo, hi)
        PROVE  Rises(data', lo, hi)
    <2>1. call[j].at # "none"
      BY <1>8 DEF Holding
    <2>2. /\ call[j].begin \in Nat \ {0} /\ call[j].end \in Int /\ call[j].end <= Len(data) + 1
          /\ call[k].begin \in Nat \ {0} /\ call[k].end \in Int
      BY <1>1, <1>3, <2>1, RangeFacts
    <2>3. call[j].end <= call[k].begin \/ call[k].end <= call[j].begin
      BY <1>3, <1>8 DEF SortInv, HeldApart, Apart
    <2>4. \A i \in lo..hi - 1 : data'[i] = data[i]
      <3> SUFFICES ASSUME NEW i \in lo..hi - 1  PROVE  data'[i] = data[i]
        OBVIOUS
      <3>1. i \in Int /\ lo <= i /\ i < hi
        OBVIOUS
      <3>2. call[j].begin <= i /\ i < call[j].end
        BY <3>1, <1>8, <2>2
      <3>3. i \in 1..Len(data)
        BY <3>1, <3>2, <2>2, <1>4
      <3>4. i < call[k].begin \/ call[k].end <= i
        BY <3>1, <3>2, <2>2, <2>3
      <3>5. QED
        BY <3>3, <3>4
    <2>5. QED
      BY <2>4, <1>8 DEF Rises
  <1>9. HalvesSorted'
    <2> SUFFICES ASSUME NEW j \in Nodes, call'[j].at = "merging"
                 PROVE  /\ Rises(data', call[j].begin, middle(j))
                        /\ Rises(data', middle(j), call[j].end)
      BY <1>1, <1>2, <1>5 DEF HalvesSorted
    <2>1. j # k /\ call[j].at = "merging"
      BY <1>2
    <2>2. j \in Holding
      BY <2>1 DEF SortInv, UnfinishedAwaited, Holding
    <2>3. /\ call[j].begin \in Int /\ call[j].end \in Int /\ middle(j) \in Int
          /\ call[j].begin <= middle(j) /\ middle(j) <= call[j].end
      BY <1>1, <2>1, RangeFacts
    <2>4. Rises(data, call[j].begin, middle(j)) /\ Rises(data, middle(j), call[j].end)
      BY <2>1 DEF DataInv, HalvesSorted
    <2>5. QED
      BY <2>1, <2>2, <2>3, <2>4, <1>8
  <1>10. DoneSorted'
    <2> SUFFICES ASSUME NEW j \in Nodes, j \in Holding', call'[j].at = "done"
                 PROVE  Rises(data', call[j].begin, call[j].end)
      BY <1>1, <1>2 DEF DoneSorted, Holding
    <2>1. CASE j = k
      BY <2>1, <1>2
    <2>2. CASE j # k
      <3>1. call[j].at = "done"
        BY <2>2, <1>2
      <3>2. Awaited(j)
        BY <1>1, <1>2 DEF Holding, Awaited, IsHalf
      <3>3. j \in Holding
        BY <3>1, <3>2 DEF Holding
      <3>4. Rises(data, call[j].begin, call[j].end)
        BY <3>1, <3>3 DEF DataInv, DoneSorted
      <3>5. call[j].begin \in Int /\ call[j].end \in Int
        BY <1>1, SortFacts
      <3>6. QED
        BY <2>2, <3>3, <3>4, <3>5, <1>8
    <2>3. QED
      BY <2>1, <2>2
  <1>11. QED
    BY <1>6, <1>7, <1>9, <1>10 DEF DataInv

(* What is written back where it was taken from. *)
LEMMA Replaces ==
  ASSUME SortTypes, SameData, input' = input,
         NEW lo \in Nat \ {0}, NEW hi \in Int, lo <= hi, hi <= Len(data) + 1,
         NEW s, Ints(s), Len(s) = hi - lo, Rises(s, 1, hi - lo + 1),
         \A z : Count(s, 1, hi - lo + 1, z) = Count(data, lo, hi, z),
         data' = Written(lo, s)
  PROVE  /\ SameData' /\ Rises(data', lo, hi)
         /\ \A i \in 1..Len(data) : i < lo \/ hi <= i => data'[i] = data[i]
  <1>1. PICK d : d = Written(lo, s)
    OBVIOUS
  <1>2. Ints(data)
    BY DEF SameData
  <1>3. /\ Ints(d) /\ Len(d) = Len(data) /\ Rises(d, lo, hi)
        /\ \A i \in 1..Len(data) : i < lo \/ hi <= i => d[i] = data[i]
        /\ \A z : Count(d, 1, Len(d) + 1, z) = Count(data, 1, Len(data) + 1, z)
    BY <1>1, <1>2, WrittenIs
  <1>4. PICK u : u = input.unorderedData
    OBVIOUS
  <1>5. Ints(u)
    BY <1>4, MergeSortAssumption DEF SortTypes, Ints
  <1>6. SameElements(data, u)
    BY <1>4 DEF SameData
  <1>7. SameElements(d, u)
    <2>1. \A z : Count(data, 1, Len(data) + 1, z) = Count(u, 1, Len(u) + 1, z)
      BY <1>2, <1>5, <1>6, SameElementsAre
    <2>2. \A z : Count(d, 1, Len(d) + 1, z) = Count(u, 1, Len(u) + 1, z)
      BY <2>1, <1>3
    <2>3. QED
      BY <2>2, <1>3, <1>5, SameElementsAre
  <1>8. data' = d
    BY <1>1
  <1>9. SameData'
    BY <1>3, <1>4, <1>7, <1>8 DEF SameData
  <1>10. QED
    BY <1>3, <1>8, <1>9

(* std::sort *)
LEMMA DataSorts ==
  ASSUME SortInv, DataInv, NEW k \in Nodes, EndsSort(k)
  PROVE  DataInv'
  <1>1. SortTypes /\ SameData /\ Ranges /\ input' = input /\ Moves(k, "sorting", "done")
    BY DEF SortInv, DataInv, EndsSort
  <1>2. call[k].at # "none"
    BY <1>1 DEF Moves
  <1>3. PICK lo \in Nat \ {0}, hi \in Int :
          /\ lo = call[k].begin /\ hi = call[k].end /\ lo <= hi /\ hi <= Len(data) + 1
    BY <1>1, <1>2, RangeFacts
  <1>4. PICK w : w = SubSeq(data, lo, hi - 1)
    OBVIOUS
  <1>5. PICK s : s = Arranged(w)
    OBVIOUS
  <1>6. data' = Written(lo, s)
    BY <1>3, <1>4, <1>5 DEF EndsSort, Sorted, Part
  <1>7. /\ Ints(w) /\ Len(w) = hi - lo
        /\ \A z : Count(w, 1, hi - lo + 1, z) = Count(data, lo, hi, z)
    <2>1. PartOf(w, data, lo, hi)
      BY <1>1, <1>3, <1>4, Parts DEF SameData
    <2>2. QED
      BY <2>1 DEF PartOf
  <1>8. Sorts(s, w)
    BY <1>5, <1>7, ArrangedSorts
  <1>9. /\ Ints(s) /\ Len(s) = hi - lo /\ Rises(s, 1, hi - lo + 1)
        /\ \A z : Count(s, 1, hi - lo + 1, z) = Count(data, lo, hi, z)
    BY <1>7, <1>8 DEF Sorts
  <1>10. /\ SameData' /\ Rises(data', lo, hi)
         /\ \A i \in 1..Len(data) : i < lo \/ hi <= i => data'[i] = data[i]
    BY <1>1, <1>3, <1>6, <1>9, Replaces
  <1>11. QED
    BY <1>1, <1>3, <1>10, DataMoves

(* std::inplace_merge *)
LEMMA DataMerges ==
  ASSUME SortInv, DataInv, NEW k \in Nodes, EndsMerge(k)
  PROVE  DataInv'
  <1>1. SortTypes /\ SameData /\ Ranges /\ input' = input /\ Moves(k, "merging", "done")
    BY DEF SortInv, DataInv, EndsMerge
  <1>2. call[k].at = "merging"
    BY <1>1 DEF Moves
  <1>3. PICK lo \in Nat \ {0}, mid \in Nat \ {0}, hi \in Int :
          /\ lo = call[k].begin /\ mid = middle(k) /\ hi = call[k].end
          /\ lo <= mid /\ mid <= hi /\ hi <= Len(data) + 1 /\ Len(data) \in Nat
    BY <1>1, <1>2, RangeFacts
  <1>4. PICK a, b : a = SubSeq(data, lo, mid - 1) /\ b = SubSeq(data, mid, hi - 1)
    OBVIOUS
  <1>5. PICK s : s = Merged(a, b)
    OBVIOUS
  <1>6. data' = Written(lo, s)
    BY <1>3, <1>4, <1>5 DEF EndsMerge, Part
  <1>7. Rises(data, lo, mid) /\ Rises(data, mid, hi)
    BY <1>2, <1>3 DEF DataInv, HalvesSorted
  <1>8. /\ Ints(a) /\ Len(a) = mid - lo /\ Rises(a, 1, mid - lo + 1)
        /\ \A z : Count(a, 1, mid - lo + 1, z) = Count(data, lo, mid, z)
    <2>1. mid <= Len(data) + 1 /\ mid \in Int
      BY <1>3
    <2>2. PartOf(a, data, lo, mid)
      BY <2>1, <1>1, <1>3, <1>4, Parts DEF SameData
    <2>3. QED
      BY <2>2, <1>7 DEF PartOf
  <1>9. /\ Ints(b) /\ Len(b) = hi - mid /\ Rises(b, 1, hi - mid + 1)
        /\ \A z : Count(b, 1, hi - mid + 1, z) = Count(data, mid, hi, z)
    <2>1. mid <= hi
      BY <1>3
    <2>2. PartOf(b, data, mid, hi)
      BY <2>1, <1>1, <1>3, <1>4, Parts DEF SameData
    <2>3. QED
      BY <2>2, <1>7 DEF PartOf
  <1>10. IsMerge(s, a, b, 1, 1)
    BY <1>5, <1>8, <1>9, MergedMerges
  <1>11. Ints(s) /\ Len(s) = hi - lo /\ Rises(s, 1, hi - lo + 1)
    BY <1>8, <1>9, <1>10 DEF IsMerge
  <1>12. ASSUME NEW z  PROVE  Count(s, 1, hi - lo + 1, z) = Count(data, lo, hi, z)
    <2>1. Count(s, 1, hi - lo + 1, z) = Count(a, 1, mid - lo + 1, z) + Count(b, 1, hi - mid + 1, z)
      BY <1>8, <1>9, <1>10, <1>11 DEF IsMerge
    <2>2. Count(data, lo, hi, z) = Count(data, lo, mid, z) + Count(data, mid, hi, z)
      BY <1>3, CountSplits
    <2>3. QED
      BY <2>1, <2>2, <1>8, <1>9
  <1>13. /\ SameData' /\ Rises(data', lo, hi)
         /\ \A i \in 1..Len(data) : i < lo \/ hi <= i => data'[i] = data[i]
    <2>1. lo <= hi
      BY <1>3
    <2>2. QED
      BY <2>1, <1>1, <1>3, <1>6, <1>11, <1>12, Replaces
  <1>14. QED
    BY <1>1, <1>3, <1>13, DataMoves

(* A call takes back its halves: they are sorted. *)
LEMMA DataTakenBack ==
  ASSUME SortInv, DataInv, NEW k \in Nodes, BeginsMerge(k)
  PROVE  DataInv'
  <1>1. /\ SortTypes /\ SameData /\ Ranges /\ input' = input /\ data' = data /\ Nodes' = Nodes
        /\ Moves(k, "waits", "merging") /\ Joined(k)
    BY SortFacts DEF SortInv, DataInv, BeginsMerge
  <1>2. /\ \A j \in Nodes : /\ call'[j].begin = call[j].begin /\ call'[j].end = call[j].end
                            /\ j # k => call'[j].at = call[j].at
        /\ call[k].at = "waits" /\ call'[k].at = "merging"
    BY <1>1, MoveFacts DEF CallStates
  <1>3. \A j \in Nodes : middle(j)' = middle(j)
    BY <1>2 DEF middle, elementCount
  <1>4. SameData'
    BY <1>1 DEF SameData
  <1>5. Ranges'
    <2>1. Root \in Nodes
      BY <1>1, SortFacts, Paths
    <2>2. \A j \in Nodes : call'[j].at # "none" <=> call[j].at # "none"
      BY <1>2
    <2>3. QED
      BY <1>1, <1>2, <2>1, <2>2 DEF Ranges
  <1>6. Middles'
    <2> SUFFICES ASSUME NEW j \in Nodes, call'[j].at = "waits"
                 PROVE  call'[Left(j)].end = middle(j)'
      BY <1>1 DEF Middles
    <2>1. call[j].at = "waits"
      BY <1>2
    <2>2. Left(j) \in Nodes
      BY <2>1 DEF SortInv, Halved
    <2>3. call[Left(j)].end = middle(j)
      BY <2>1 DEF DataInv, Middles
    <2>4. QED
      BY <2>2, <2>3, <1>2, <1>3
  <1>7. Rises(data, call[k].begin, middle(k)) /\ Rises(data, middle(k), call[k].end)
    <2>1. /\ Left(k) \in Nodes /\ Right(k) \in Nodes
          /\ call[Left(k)].begin = call[k].begin /\ call[Left(k)].end = call[Right(k)].begin
          /\ call[Right(k)].end = call[k].end
      BY <1>2 DEF SortInv, Halved
    <2>2. call[Left(k)].end = middle(k)
      BY <1>2 DEF DataInv, Middles
    <2>3. call[Left(k)].at = "done" /\ call[Right(k)].at = "done"
      BY <1>1 DEF Joined
    <2>4. Left(k) \in Holding /\ Right(k) \in Holding
      BY <1>2, <2>1, <2>3 DEF Holding, Awaited, IsHalf
    <2>5. /\ Rises(data, call[Left(k)].begin, call[Left(k)].end)
          /\ Rises(data, call[Right(k)].begin, call[Right(k)].end)
      BY <2>3, <2>4 DEF DataInv, DoneSorted
    <2>6. QED
      BY <2>1, <2>2, <2>5
  <1>8. HalvesSorted'
    <2> SUFFICES ASSUME NEW j \in Nodes, call'[j].at = "merging"
                 PROVE  Rises(data, call[j].begin, middle(j)) /\ Rises(data, middle(j), call[j].end)
      BY <1>1, <1>2, <1>3 DEF HalvesSorted
    <2>1. CASE j = k
      BY <2>1, <1>7
    <2>2. CASE j # k
      BY <2>2, <1>2 DEF DataInv, HalvesSorted
    <2>3. QED
      BY <2>1, <2>2
  <1>9. DoneSorted'
    <2> SUFFICES ASSUME NEW j \in Nodes, j \in Holding', call'[j].at = "done"
                 PROVE  Rises(data, call[j].begin, call[j].end)
      BY <1>1, <1>2 DEF DoneSorted, Holding
    <2>1. call[j].at = "done"
      BY <1>2
    <2>2. Awaited(j)
      BY <1>1, <1>2 DEF Holding, Awaited, IsHalf
    <2>3. j \in Holding
      BY <2>1, <2>2 DEF Holding
    <2>4. QED
      BY <2>1, <2>3 DEF DataInv, DoneSorted
  <1>10. QED
    BY <1>4, <1>5, <1>6, <1>8, <1>9 DEF DataInv

(* A call gives its halves away. *)
LEMMA DataForks ==
  ASSUME SortInv, DataInv, NEW k \in Nodes, Forks(k)
  PROVE  DataInv'
  <1>1. /\ SortTypes /\ SameData /\ Ranges /\ input' = input /\ data' = data /\ Nodes' = Nodes
        /\ input.maxDepth \in Nat /\ call[k].at = "called"
    BY SortFacts DEF SortInv, DataInv, Forks
  <1>2. PICK l, r \in Nodes, b, e, m \in Int :
          /\ b = call[k].begin /\ e = call[k].end /\ m = middle(k) /\ b < m /\ m < e
          /\ l = Left(k) /\ r = Right(k) /\ l # k /\ r # k /\ l # r /\ l # Root /\ r # Root
          /\ call'[k].at = "waits" /\ call'[k].begin = b /\ call'[k].end = e
          /\ call'[l].at = "called" /\ call'[l].begin = b /\ call'[l].end = m
          /\ call'[r].at = "called" /\ call'[r].begin = m /\ call'[r].end = e
          /\ \A j \in Nodes : j # k /\ j # l /\ j # r => call'[j] = call[j]
    BY ForkCalls
  <1>3. \A j \in Nodes : j # k /\ j # l /\ j # r => call'[j] = call[j]
    BY <1>2
  <1>4. \A j \in Nodes : j # l /\ j # r => call'[j].begin = call[j].begin /\ call'[j].end = call[j].end
    BY <1>2
  <1>5. \A j \in Nodes : j # l /\ j # r => middle(j)' = middle(j)
    BY <1>4 DEF middle, elementCount
  <1>6. SameData'
    BY <1>1 DEF SameData
  <1>7. Ranges'
    <2>1. 1 <= b /\ e <= Len(data) + 1 /\ Len(data) \in Nat
      BY <1>1, <1>2, RangeFacts
    <2>2. ASSUME NEW j \in Nodes, call'[j].at # "none"
          PROVE  1 <= call'[j].begin /\ call'[j].begin <= call'[j].end /\ call'[j].end <= Len(data) + 1
      <3>1. CASE j \in {k, l, r}
        BY <3>1, <2>1, <1>2
      <3>2. CASE j \notin {k, l, r}
        <4>1. call'[j] = call[j]
          BY <3>2, <1>3
        <4>2. QED
          BY <4>1, <2>2, <1>1 DEF Ranges
      <3>3. QED
        BY <3>1, <3>2
    <2>3. call'[Root].begin = 1 /\ call'[Root].end = Len(data) + 1 /\ call'[Root].at # "none"
      <3>1. Root \in Nodes /\ Root # l /\ Root # r
        BY <1>1, <1>2, Paths
      <3>2. call'[Root].begin = call[Root].begin /\ call'[Root].end = call[Root].end
        BY <3>1, <1>4
      <3>3. call'[Root].at # "none"
        <4>1. CASE Root = k
          BY <4>1, <1>2
        <4>2. CASE Root # k
          BY <4>2, <3>1, <1>1, <1>3 DEF Ranges
        <4>3. QED
          BY <4>1, <4>2
      <3>4. QED
        BY <3>2, <3>3, <1>1 DEF Ranges
    <2>4. QED
      BY <1>1, <2>2, <2>3 DEF Ranges
  <1>8. Middles'
    <2> SUFFICES ASSUME NEW j \in Nodes, call'[j].at = "waits"
                 PROVE  call'[Left(j)].end = middle(j)'
      BY <1>1 DEF Middles
    <2>1. j # l /\ j # r
      BY <1>2
    <2>2. CASE j = k
      BY <2>1, <2>2, <1>2, <1>5
    <2>3. CASE j # k
      <3>1. call[j].at = "waits"
        BY <2>1, <2>3, <1>3
      <3>2. Left(j) \in Nodes
        BY <3>1 DEF SortInv, Halved
      <3>3. Left(j) # l /\ Left(j) # r
        BY <1>1, <1>2, <2>3, Paths
      <3>4. call[Left(j)].end = middle(j)
        BY <3>1 DEF DataInv, Middles
      <3>5. QED
        BY <2>1, <3>2, <3>3, <3>4, <1>4, <1>5
    <2>4. QED
      BY <2>2, <2>3
  <1>9. HalvesSorted'
    <2> SUFFICES ASSUME NEW j \in Nodes, call'[j].at = "merging"
                 PROVE  /\ Rises(data, call'[j].begin, middle(j)')
                        /\ Rises(data, middle(j)', call'[j].end)
      BY <1>1 DEF HalvesSorted
    <2>1. j # k /\ j # l /\ j # r
      BY <1>2
    <2>2. call'[j] = call[j] /\ middle(j)' = middle(j)
      BY <2>1, <1>3, <1>5
    <2>3. QED
      BY <2>2 DEF DataInv, HalvesSorted
  <1>10. DoneSorted'
    <2> SUFFICES ASSUME NEW j \in Nodes, j \in Holding', call'[j].at = "done"
                 PROVE  Rises(data, call'[j].begin, call'[j].end)
      BY <1>1 DEF DoneSorted, Holding
    <2>1. j # k /\ j # l /\ j # r
      BY <1>2
    <2>2. call'[j] = call[j]
      BY <2>1, <1>3
    <2>3. Awaited(j)
      <3>1. CASE j = Root
        BY <3>1 DEF Awaited
      <3>2. CASE j # Root
        <4>1. PICK p \in Nodes : IsHalf(j, p) /\ call'[p].at = "waits"
          BY <3>2, <1>1 DEF Holding, Awaited, IsHalf
        <4>2. p # k /\ p # l /\ p # r
          BY <4>1, <2>1, <1>2 DEF IsHalf
        <4>3. call[p].at = "waits"
          BY <4>1, <4>2, <1>3
        <4>4. QED
          BY <4>1, <4>3 DEF Awaited
      <3>3. QED
        BY <3>1, <3>2
    <2>4. j \in Holding
      BY <2>2, <2>3 DEF Holding
    <2>5. QED
      BY <2>2, <2>4 DEF DataInv, DoneSorted
  <1>11. QED
    BY <1>6, <1>7, <1>8, <1>9, <1>10 DEF DataInv

(* What a call has finished is sorted until its caller takes it back, and the vector always
   holds what main() gave it. *)
THEOREM DataInvariance == SortSpec => []DataInv
  <1>1. SortInit => DataInv
    <2> SUFFICES ASSUME SortInit  PROVE  DataInv
      OBVIOUS
    <2>1. input \in Inputs /\ input.maxDepth \in Nat /\ data = input.unorderedData /\ Ints(data)
      BY MergeSortAssumption DEF SortInit, Ints
    <2>2. Len(data) \in Nat
      BY <2>1, IntsAre
    <2>3. call = [k \in Nodes |-> IF k = Root THEN Call(1, Len(data) + 1, 0) ELSE NoCall]
      BY DEF SortInit
    <2>4. Root \in Nodes
      BY <2>1, Paths
    <2>5. /\ \A k \in Nodes : k # Root => call[k].at = "none"
          /\ call[Root].at = "called" /\ call[Root].begin = 1 /\ call[Root].end = Len(data) + 1
      BY <2>3, <2>4 DEF Call, NoCall
    <2>6. SameData
      <3>1. SameElements(data, data)
        BY <2>1, SameElementsAre
      <3>2. QED
        BY <2>1, <3>1 DEF SameData
    <2>7. Ranges
      BY <2>2, <2>5 DEF Ranges
    <2>8. Middles /\ HalvesSorted /\ DoneSorted
      BY <2>5 DEF Middles, HalvesSorted, DoneSorted, Holding
    <2>9. QED
      BY <2>6, <2>7, <2>8 DEF DataInv
  <1>2. SortInv /\ DataInv /\ [SortNext]_sortVars => DataInv'
    <2> SUFFICES ASSUME SortInv, DataInv, [SortNext]_sortVars  PROVE  DataInv'
      OBVIOUS
    <2>1. ASSUME NEW k \in Nodes, BeginsSort(k)  PROVE  DataInv'
      <3>1. Moves(k, "called", "sorting") /\ input' = input /\ data' = data
        BY <2>1 DEF BeginsSort
      <3>2. SameData'
        BY <3>1 DEF DataInv, SameData
      <3>3. QED
        BY <3>1, <3>2, DataMoves
    <2>2. ASSUME NEW k \in Nodes, EndsSort(k)  PROVE  DataInv'
      BY <2>2, DataSorts
    <2>3. ASSUME NEW k \in Nodes, Forks(k)  PROVE  DataInv'
      BY <2>3, DataForks
    <2>4. ASSUME NEW k \in Nodes, BeginsMerge(k)  PROVE  DataInv'
      BY <2>4, DataTakenBack
    <2>5. ASSUME NEW k \in Nodes, EndsMerge(k)  PROVE  DataInv'
      BY <2>5, DataMerges
    <2>6. CASE UNCHANGED sortVars
      <3>1. input' = input /\ data' = data /\ call' = call /\ Nodes' = Nodes
        BY <2>6 DEF sortVars, Nodes
      <3>2. SameData'
        BY <3>1 DEF DataInv, SameData
      <3>3. Ranges' /\ Middles'
        BY <3>1 DEF DataInv, Ranges, Middles, middle, elementCount
      <3>4. HalvesSorted'
        BY <3>1 DEF DataInv, HalvesSorted, middle, elementCount
      <3>5. \A j : j \in Holding' <=> j \in Holding
        BY <3>1 DEF Holding, Awaited, IsHalf
      <3>6. DoneSorted'
        BY <3>1, <3>5 DEF DataInv, DoneSorted
      <3>7. QED
        BY <3>2, <3>3, <3>4, <3>6 DEF DataInv
    <2>7. QED
      BY <2>1, <2>2, <2>3, <2>4, <2>5, <2>6 DEF SortNext, Node, SortEnded
  <1>3. QED
    BY <1>1, <1>2, SortInvariance, PTL DEF SortSpec

(* When main()'s call returns the vector is sorted and holds what it held, whatever the
   input, the threshold, the depth and the order in which the threads run. *)
THEOREM SortIsRight == SortSpec => []SortedAtTheEnd
  <1>1. SortTypes /\ DataInv => SortedAtTheEnd
    <2> SUFFICES ASSUME SortTypes, DataInv, call[Root].at = "done"
                 PROVE  Ascending(data) /\ SameElements(data, input.unorderedData)
      BY DEF SortedAtTheEnd
    <2>1. Root \in Nodes
      BY MergeSortAssumption, Paths DEF SortTypes
    <2>2. Root \in Holding
      BY <2>1 DEF Holding, Awaited
    <2>3. Rises(data, 1, Len(data) + 1)
      <3>1. Rises(data, call[Root].begin, call[Root].end)
        BY <2>2 DEF DataInv, DoneSorted
      <3>2. QED
        BY <3>1 DEF DataInv, Ranges
    <2>4. QED
      BY <2>3, AscendingIs DEF DataInv, SameData
  <1>2. SortInv => SortTypes
    BY DEF SortInv
  <1>3. QED
    BY <1>1, <1>2, SortInvariance, DataInvariance, PTL
=============================================================================
