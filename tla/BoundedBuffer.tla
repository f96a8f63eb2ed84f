----------------------------- MODULE BoundedBuffer -----------------------------
(* product_consumer_basic_v1 and _v2, and ping_pong: two threads that hand values over
   under one mutex.  In v2 the queue is bounded, and main() stops the producer by clearing
   an atomic flag and notifying, both without the mutex.  In ping_pong the boolean
   isPingTurn is a queue of capacity 1: Ping fills it and Pong empties it. *)
EXTENDS Naturals, Sequences

CONSTANTS Exercises,     \* what may run, see below
          MaxSpurious    \* bound on the wakeups nobody asked for

\* items: how many values are generated, in v2 a bound (while the producer is active);
\* stopped: main() stops the producer; announces: the producer sets a flag when it is over,
\* else the consumer counts; locked: notifications are made with the mutex held.
Exercise(capacity, items, stopped, announces, locked) ==
  [maxQueueCapacity |-> capacity, items |-> items,
   stopped |-> stopped, announces |-> announces, locked |-> locked]

ASSUME BoundedBufferAssumption ==
  /\ \A e \in Exercises :
       /\ e.maxQueueCapacity \in Nat \ {0} /\ e.items \in Nat \ {0}
       /\ e.stopped \in BOOLEAN /\ e.announces \in BOOLEAN /\ e.locked \in BOOLEAN
       /\ e.stopped => e.announces /\ e.locked
       /\ ~e.locked => e.maxQueueCapacity >= e.items   \* v1: the producer never waits
  /\ MaxSpurious \in Nat

BasicV1(items)           == Exercise(items, items, FALSE, TRUE, FALSE)
BasicV2(capacity, items) == Exercise(capacity, items, TRUE, TRUE, TRUE)
PingPong(rounds)         == Exercise(1, rounds, FALSE, FALSE, TRUE)

Threads == {"producer", "consumer", "main"}

VARIABLES exercise, pc,
          syncMutex,             \* its owner, or "free"
          sharedBoundedQueue,
          isProductionActive,    \* atomic, written by main without the mutex
          isProductionFinished,
          generatedSequenceId,
          consumed,              \* history: the values taken, in order
          spurious

queue == <<sharedBoundedQueue, generatedSequenceId, consumed>>
flags == <<isProductionActive, isProductionFinished>>
vars  == <<exercise, pc, syncMutex, queue, flags, spurious>>

Init == /\ exercise \in Exercises
        /\ pc = [t \in Threads |-> CASE t = "producer" -> "while"
                                     [] t = "consumer" -> "lock"
                                     [] t = "main"     -> IF exercise.stopped THEN "sleep" ELSE "join"]
        /\ syncMutex = "free"
        /\ sharedBoundedQueue = <<>> /\ generatedSequenceId = 0 /\ consumed = <<>>
        /\ isProductionActive = TRUE /\ isProductionFinished = FALSE
        /\ spurious = 0

-----------------------------------------------------------------------------
Goto(t, from, to) == pc[t] = from /\ pc' = [pc EXCEPT ![t] = to] /\ UNCHANGED exercise

\* t goes on, and u leaves the wait set of the condition variable, if it is there: whatever
\* is notified, the other thread alone can be waiting for it.
GotoAndNotify(t, from, to, u) ==
  /\ pc[t] = from /\ UNCHANGED exercise
  /\ pc' = [pc EXCEPT ![t] = to, ![u] = IF @ = "waiting" THEN "lock" ELSE @]

Unlock(t) == syncMutex = t /\ syncMutex' = "free"

Acquire(t) == /\ Goto(t, "lock", "test")
              /\ syncMutex = "free" /\ syncMutex' = t
              /\ UNCHANGED <<queue, flags, spurious>>

\* The wait: predicate false, then mutex released and thread asleep in one step.
Blocks(t) == /\ Goto(t, "block", "waiting") /\ Unlock(t)
             /\ UNCHANGED <<queue, flags, spurious>>

WakesSpuriously(t) == /\ spurious < MaxSpurious /\ spurious' = spurious + 1
                      /\ Goto(t, "waiting", "lock")
                      /\ UNCHANGED <<syncMutex, queue, flags>>

-----------------------------------------------------------------------------
(* producerWorkerTask *)

\* for (i < items), or while (isProductionActive): generating takes time, hence the bound.
ProducerLoops ==
  /\ isProductionActive /\ generatedSequenceId < exercise.items
  /\ Goto("producer", "while", "lock")
  /\ UNCHANGED <<syncMutex, queue, flags, spurious>>

ProducerLeavesLoop ==
  /\ IF exercise.stopped THEN ~isProductionActive ELSE generatedSequenceId = exercise.items
  /\ Goto("producer", "while", IF exercise.announces THEN "finish" ELSE "done")
  /\ UNCHANGED <<syncMutex, queue, flags, spurious>>

MayProduce == Len(sharedBoundedQueue) < exercise.maxQueueCapacity \/ ~isProductionActive

ProducerTests == /\ Goto("producer", "test", IF MayProduce THEN "recheck" ELSE "block")
                 /\ UNCHANGED <<syncMutex, queue, flags, spurious>>

\* The flag is read again, and may have been cleared since the predicate was evaluated.
ProducerBreaks == /\ ~isProductionActive
                  /\ Goto("producer", "recheck", "finish") /\ Unlock("producer")
                  /\ UNCHANGED <<queue, flags, spurious>>

ProducerPushes ==
  /\ isProductionActive
  /\ IF exercise.locked THEN GotoAndNotify("producer", "recheck", "while", "consumer")
     ELSE Goto("producer", "recheck", "notifyOne")
  /\ Unlock("producer")
  /\ generatedSequenceId' = generatedSequenceId + 1
  /\ sharedBoundedQueue' = Append(sharedBoundedQueue, generatedSequenceId')
  /\ UNCHANGED <<consumed, flags, spurious>>

\* v1 notifies after it has released the mutex.
ProducerNotifiesLate == /\ GotoAndNotify("producer", "notifyOne", "while", "consumer")
                        /\ UNCHANGED <<syncMutex, queue, flags, spurious>>

ProducerFinishes == /\ Goto("producer", "finish", "notify") /\ syncMutex = "free"
                    /\ isProductionFinished' = TRUE
                    /\ UNCHANGED <<syncMutex, queue, isProductionActive, spurious>>

ProducerNotifies == /\ GotoAndNotify("producer", "notify", "done", "consumer")
                    /\ UNCHANGED <<syncMutex, queue, flags, spurious>>

-----------------------------------------------------------------------------
(* consumerWorkerTask *)

ConsumerTests ==
  /\ Goto("consumer", "test",
          IF sharedBoundedQueue # <<>> THEN "take" ELSE IF isProductionFinished THEN "leave" ELSE "block")
  /\ UNCHANGED <<syncMutex, queue, flags, spurious>>

ConsumerLeaves == /\ Goto("consumer", "leave", "done") /\ Unlock("consumer")
                  /\ UNCHANGED <<queue, flags, spurious>>

WokenBug == "main"       \* mutant: queueNotFullCondition is not notified
Woken == "producer"

\* Pong's loop is over when it has had all its turns.
AfterTake == IF ~exercise.announces /\ Len(consumed) + 1 = exercise.items THEN "done" ELSE "lock"

\* In v1 the producer does not wait and is not notified.
ConsumerTakes ==
  /\ GotoAndNotify("consumer", "take", AfterTake, Woken) /\ Unlock("consumer")
  /\ consumed' = Append(consumed, Head(sharedBoundedQueue))
  /\ sharedBoundedQueue' = Tail(sharedBoundedQueue)
  /\ UNCHANGED <<generatedSequenceId, flags, spurious>>

-----------------------------------------------------------------------------
(* main: the two steps that stop the producer need no mutex *)

MainDeactivates == /\ Goto("main", "sleep", "notify")
                   /\ isProductionActive' = FALSE
                   /\ UNCHANGED <<syncMutex, queue, isProductionFinished, spurious>>

MainNotifies == /\ GotoAndNotify("main", "notify", "join", "producer")
                /\ UNCHANGED <<syncMutex, queue, flags, spurious>>

JoinedBug == pc["producer"] = "done"   \* mutant: the consumer is not joined
Joined == pc["producer"] = "done" /\ pc["consumer"] = "done"

MainJoins == /\ Joined /\ Goto("main", "join", "done")
             /\ UNCHANGED <<syncMutex, queue, flags, spurious>>

Ended == pc["main"] = "done" /\ UNCHANGED vars

-----------------------------------------------------------------------------
Producer == \/ Acquire("producer") \/ Blocks("producer")
            \/ ProducerLoops \/ ProducerLeavesLoop \/ ProducerTests \/ ProducerBreaks
            \/ ProducerPushes \/ ProducerNotifiesLate \/ ProducerFinishes \/ ProducerNotifies

Consumer == \/ Acquire("consumer") \/ Blocks("consumer") \/ ConsumerTests
            \/ ConsumerLeaves \/ ConsumerTakes

Main == MainDeactivates \/ MainNotifies \/ MainJoins

Next == \/ Producer \/ Consumer \/ Main \/ Ended
        \/ WakesSpuriously("producer") \/ WakesSpuriously("consumer")

Spec == Init /\ [][Next]_vars

\* Threads run; spurious wakeups need not happen.
FairSpec == Spec /\ WF_vars(Producer) /\ WF_vars(Consumer) /\ WF_vars(Main)

-----------------------------------------------------------------------------
(* Type invariant; in particular the queue never exceeds its capacity. *)
TypeOK == /\ exercise \in Exercises
          /\ pc \in [Threads -> {"while", "lock", "test", "block", "waiting", "recheck", "notifyOne", "take",
                                 "finish", "leave", "sleep", "notify", "join", "done"}]
          /\ syncMutex \in {"producer", "consumer", "free"}
          /\ sharedBoundedQueue \in Seq(Nat) /\ Len(sharedBoundedQueue) <= exercise.maxQueueCapacity
          /\ generatedSequenceId \in Nat
          /\ consumed \in Seq(Nat)
          /\ isProductionActive \in BOOLEAN /\ isProductionFinished \in BOOLEAN
          /\ spurious \in 0..MaxSpurious

\* A thread sleeps only while it has nothing to do: the producer while the queue is full, and
\* then the consumer is awake, the consumer while it is empty, or a notification is still
\* to come.  In v2 main's notification can miss a producer that has evaluated its predicate but
\* is not yet asleep; the queue is full then, and the consumer's next notification wakes it.
MissedWakeupIsRescued ==
  /\ pc["producer"] = "waiting" =>
       Len(sharedBoundedQueue) = exercise.maxQueueCapacity /\ pc["consumer"] # "waiting"
  /\ pc["consumer"] = "waiting" =>
       /\ sharedBoundedQueue # <<>> => pc["producer"] = "notifyOne"
       /\ isProductionFinished => pc["producer"] = "notify"

\* "fino a svuotamento", and "la corretta sequenza di messaggi" of Ping and Pong: the values
\* leave in the order in which they were generated, and none is left when main() returns.
AllConsumedInOrder ==
  /\ consumed \o sharedBoundedQueue = [i \in 1..generatedSequenceId |-> i]
  /\ pc["main"] = "done" => sharedBoundedQueue = <<>>

\* "graceful shutdown": all three threads come to their end, in v2 once the flag is cleared.
Terminates == <>(pc["main"] = "done")
=============================================================================
