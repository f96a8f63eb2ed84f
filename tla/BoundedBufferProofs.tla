-------------------------- MODULE BoundedBufferProofs --------------------------
(* Safety of the bounded buffer in all three exercises, for any capacity and number of
   values, and any number of spurious wakeups. *)
EXTENDS BoundedBuffer, SequenceTheorems, TLAPS

PCs == {"while", "lock", "test", "block", "waiting", "recheck", "notifyOne", "take",
        "finish", "leave", "sleep", "notify", "join", "done"}

Ids(n) == [i \in 1..n |-> i]

\* Whoever is between locking and unlocking syncMutex is its only owner.
Exclusion ==
  /\ syncMutex = "producer" <=> pc["producer"] \in {"test", "block", "recheck"}
  /\ syncMutex = "consumer" <=> pc["consumer"] \in {"test", "block", "take", "leave"}

\* Each thread runs its own code; the producer generates no more than its share.
Control ==
  /\ pc["producer"] \in {"while", "lock", "test", "block", "waiting", "recheck", "notifyOne",
                         "finish", "notify", "done"}
  /\ pc["consumer"] \in {"lock", "test", "block", "waiting", "take", "leave", "done"}
  /\ pc["main"] \in {"sleep", "notify", "join", "done"}
  /\ generatedSequenceId <= exercise.items
  /\ pc["producer"] \in {"lock", "test", "block", "waiting", "recheck"} =>
       generatedSequenceId < exercise.items

\* What a thread has seen under the mutex and relies on later.
Seen ==
  /\ pc["producer"] = "block" => Len(sharedBoundedQueue) = exercise.maxQueueCapacity
  /\ pc["producer"] = "recheck" => MayProduce
  /\ pc["consumer"] = "block" => sharedBoundedQueue = <<>> /\ ~isProductionFinished
  /\ pc["consumer"] = "take" => sharedBoundedQueue # <<>>
  /\ pc["consumer"] = "leave" => isProductionFinished

\* When the consumer has left, nothing is queued and nothing will be.
Shutdown ==
  /\ isProductionFinished => pc["producer"] \in {"notify", "done"}
  /\ pc["consumer"] \in {"leave", "done"} =>
       /\ sharedBoundedQueue = <<>>
       /\ isProductionFinished \/ generatedSequenceId = exercise.items
  /\ pc["main"] = "done" => pc["consumer"] = "done"

\* The inductive invariant.
IInv == /\ TypeOK /\ Exclusion /\ Control /\ Seen /\ Shutdown
        /\ MissedWakeupIsRescued /\ AllConsumedInOrder

-----------------------------------------------------------------------------
(* What the queue operations do to AllConsumedInOrder. *)

(* As many values as were generated have been consumed or are queued. *)
LEMMA Lengths ==
  ASSUME NEW n \in Nat, NEW c \in Seq(Nat), NEW q \in Seq(Nat), c \o q = Ids(n)
  PROVE  Len(c) + Len(q) = n
  <1>1. Len(c \o q) = Len(c) + Len(q)
    BY ConcatProperties
  <1>2. Ids(n) \in Seq(Nat) /\ Len(Ids(n)) = n
    BY DEF Ids
  <1>3. QED
    BY <1>1, <1>2

(* What is appended to two sequences is appended to the second. *)
LEMMA AppendToSecond == \A s, q \in Seq(Nat), x \in Nat : s \o Append(q, x) = Append(s \o q, x)
  BY SMT

(* The next value generated goes to the back of the queue. *)
LEMMA PushKeepsOrder ==
  ASSUME NEW n \in Nat, NEW c \in Seq(Nat), NEW q \in Seq(Nat), c \o q = Ids(n)
  PROVE  c \o Append(q, n+1) = Ids(n+1)
  <1>1. c \o Append(q, n+1) = Append(c \o q, n+1)
    <2>1. n+1 \in Nat
      OBVIOUS
    <2>2. QED
      BY <2>1, AppendToSecond, Zenon
  <1>2. Append(Ids(n), n+1) = Ids(n+1)
    BY SMT DEF Ids
  <1>3. QED
    BY <1>1, <1>2, Zenon

(* The front of the queue becomes the last value consumed. *)
LEMMA TakeKeepsOrder ==
  ASSUME NEW c \in Seq(Nat), NEW q \in Seq(Nat), q # <<>>
  PROVE  /\ Append(c, Head(q)) \in Seq(Nat) /\ Tail(q) \in Seq(Nat)
         /\ Len(Append(c, Head(q))) = Len(c) + 1 /\ Len(Tail(q)) = Len(q) - 1
         /\ Append(c, Head(q)) \o Tail(q) = c \o q
  BY SMT

(* The queue is empty when its length is 0. *)
LEMMA EmptyQueue == ASSUME NEW q \in Seq(Nat) PROVE q = <<>> <=> Len(q) = 0
  BY EmptySeq

(* What holds of the exercise that runs. *)
LEMMA ExerciseType ==
  ASSUME TypeOK
  PROVE  exercise.maxQueueCapacity \in Nat \ {0} /\ exercise.items \in Nat \ {0}
  BY BoundedBufferAssumption DEF TypeOK

-----------------------------------------------------------------------------
(* Before the first value the inductive invariant holds. *)
LEMMA InitInv == Init => IInv
  <1> SUFFICES ASSUME Init PROVE IInv
    OBVIOUS
  <1>0. /\ pc["producer"] = "while" /\ pc["consumer"] = "lock" /\ pc["main"] \in {"sleep", "join"}
        /\ syncMutex = "free" /\ sharedBoundedQueue = <<>> /\ generatedSequenceId = 0
        /\ consumed = <<>> /\ isProductionFinished = FALSE
    BY DEF Init, Threads
  <1>1. TypeOK
    <2>1. exercise.maxQueueCapacity \in Nat \ {0}
      BY BoundedBufferAssumption DEF Init
    <2>2. sharedBoundedQueue \in Seq(Nat) /\ consumed \in Seq(Nat) /\ Len(sharedBoundedQueue) = 0
      BY <1>0, EmptySeq
    <2>3. pc \in [Threads -> PCs]
      BY DEF Init, Threads, PCs
    <2>4. spurious \in 0..MaxSpurious /\ Len(sharedBoundedQueue) <= exercise.maxQueueCapacity
      BY <2>1, <2>2, BoundedBufferAssumption DEF Init
    <2>5. QED
      BY <2>2, <2>3, <2>4 DEF TypeOK, Init, PCs
  <1>2. Exclusion /\ Seen /\ Shutdown /\ MissedWakeupIsRescued
    BY <1>0 DEF Exclusion, Seen, Shutdown, MissedWakeupIsRescued
  <1>3. Control
    BY <1>0, <1>1, ExerciseType DEF Control
  <1>4. AllConsumedInOrder
    <2>1. <<>> \o <<>> = <<>> /\ Ids(0) = <<>>
      BY ConcatEmptySeq, EmptySeq DEF Ids
    <2>2. QED
      BY <1>0, <2>1 DEF AllConsumedInOrder, Ids
  <1>5. QED
    BY <1>1, <1>2, <1>3, <1>4 DEF IInv

-----------------------------------------------------------------------------
(* The steps that move a thread and leave queue and history alone. *)
LEMMA QueueUnchanged ==
  ASSUME IInv, UNCHANGED <<queue>>, pc'["main"] = "done" => pc["main"] = "done"
  PROVE  AllConsumedInOrder'
  BY DEF IInv, AllConsumedInOrder, queue

(* The types that a step keeps that only moves threads and changes who has the mutex. *)
LEMMA TypeUnchanged ==
  ASSUME IInv, UNCHANGED <<exercise, queue>>,
         pc' \in [Threads -> PCs],
         syncMutex' \in {"producer", "consumer", "free"},
         isProductionActive' \in BOOLEAN, isProductionFinished' \in BOOLEAN,
         spurious' \in 0..MaxSpurious
  PROVE  TypeOK'
  BY DEF IInv, TypeOK, queue, PCs

(* Every step preserves the inductive invariant, one case per action: the facts of the step
   thread by thread, then the conjuncts. *)
LEMMA StepInv == IInv /\ [Next]_vars => IInv'
  <1> SUFFICES ASSUME IInv, [Next]_vars PROVE IInv'
    OBVIOUS
  <1>1. CASE Acquire("producer")
    <2>0. /\ pc' \in [Threads -> PCs]
          /\ pc'["producer"] = "test"
          /\ pc'["consumer"] = pc["consumer"]
          /\ pc'["main"] = pc["main"]
          /\ pc["producer"] = "lock"
          /\ syncMutex = "free" /\ syncMutex' = "producer"
          /\ UNCHANGED <<exercise, queue, flags, spurious>>
      BY <1>1 DEF Acquire, Goto, Threads, PCs, IInv, TypeOK
    <2>1. TypeOK'
      BY <2>0, TypeUnchanged DEF IInv, TypeOK, queue, flags
    <2>2. Exclusion' /\ Control' /\ Seen' /\ Shutdown' /\ MissedWakeupIsRescued'
      BY <2>0 DEF IInv, Exclusion, Control, Seen, Shutdown, MissedWakeupIsRescued, MayProduce, queue, flags
    <2>3. AllConsumedInOrder'
      BY <2>0, QueueUnchanged
    <2>4. QED
      BY <2>1, <2>2, <2>3 DEF IInv
  <1>2. CASE Acquire("consumer")
    <2>0. /\ pc' \in [Threads -> PCs]
          /\ pc'["producer"] = pc["producer"]
          /\ pc'["consumer"] = "test"
          /\ pc'["main"] = pc["main"]
          /\ pc["consumer"] = "lock"
          /\ syncMutex = "free" /\ syncMutex' = "consumer"
          /\ UNCHANGED <<exercise, queue, flags, spurious>>
      BY <1>2 DEF Acquire, Goto, Threads, PCs, IInv, TypeOK
    <2>1. TypeOK'
      BY <2>0, TypeUnchanged DEF IInv, TypeOK, queue, flags
    <2>2. Exclusion' /\ Control' /\ Seen' /\ Shutdown' /\ MissedWakeupIsRescued'
      BY <2>0 DEF IInv, Exclusion, Control, Seen, Shutdown, MissedWakeupIsRescued, MayProduce, queue, flags
    <2>3. AllConsumedInOrder'
      BY <2>0, QueueUnchanged
    <2>4. QED
      BY <2>1, <2>2, <2>3 DEF IInv
  <1>3. CASE Blocks("producer")
    <2>0. /\ pc' \in [Threads -> PCs]
          /\ pc'["producer"] = "waiting"
          /\ pc'["consumer"] = pc["consumer"]
          /\ pc'["main"] = pc["main"]
          /\ pc["producer"] = "block"
          /\ syncMutex = "producer" /\ syncMutex' = "free"
          /\ UNCHANGED <<exercise, queue, flags, spurious>>
      BY <1>3 DEF Blocks, Unlock, Goto, Threads, PCs, IInv, TypeOK
    <2>1. TypeOK'
      BY <2>0, TypeUnchanged DEF IInv, TypeOK, queue, flags
    <2>2. Exclusion' /\ Control' /\ Seen' /\ Shutdown'
      BY <2>0 DEF IInv, Exclusion, Control, Seen, Shutdown, MayProduce, queue, flags
    <2>3. MissedWakeupIsRescued'
      BY <2>0, ExerciseType, EmptyQueue DEF IInv, MissedWakeupIsRescued, Seen, TypeOK, queue, flags
    <2>4. AllConsumedInOrder'
      BY <2>0, QueueUnchanged
    <2>5. QED
      BY <2>1, <2>2, <2>3, <2>4 DEF IInv
  <1>4. CASE Blocks("consumer")
    <2>0. /\ pc' \in [Threads -> PCs]
          /\ pc'["producer"] = pc["producer"]
          /\ pc'["consumer"] = "waiting"
          /\ pc'["main"] = pc["main"]
          /\ pc["consumer"] = "block"
          /\ syncMutex = "consumer" /\ syncMutex' = "free"
          /\ UNCHANGED <<exercise, queue, flags, spurious>>
      BY <1>4 DEF Blocks, Unlock, Goto, Threads, PCs, IInv, TypeOK
    <2>1. TypeOK'
      BY <2>0, TypeUnchanged DEF IInv, TypeOK, queue, flags
    <2>2. Exclusion' /\ Control' /\ Seen' /\ Shutdown'
      BY <2>0 DEF IInv, Exclusion, Control, Seen, Shutdown, MayProduce, queue, flags
    <2>3. MissedWakeupIsRescued'
      BY <2>0, ExerciseType, EmptyQueue DEF IInv, MissedWakeupIsRescued, Seen, TypeOK, queue, flags
    <2>4. AllConsumedInOrder'
      BY <2>0, QueueUnchanged
    <2>5. QED
      BY <2>1, <2>2, <2>3, <2>4 DEF IInv
  <1>5. CASE WakesSpuriously("producer")
    <2>0. /\ pc' \in [Threads -> PCs]
          /\ pc'["producer"] = "lock"
          /\ pc'["consumer"] = pc["consumer"]
          /\ pc'["main"] = pc["main"]
          /\ pc["producer"] = "waiting"
          /\ UNCHANGED <<exercise, syncMutex, queue, flags>> /\ spurious' \in 0..MaxSpurious
      BY <1>5, BoundedBufferAssumption DEF WakesSpuriously, Goto, Threads, PCs, IInv, TypeOK
    <2>1. TypeOK'
      BY <2>0, TypeUnchanged DEF IInv, TypeOK, queue, flags
    <2>2. Exclusion' /\ Control' /\ Seen' /\ Shutdown' /\ MissedWakeupIsRescued'
      BY <2>0 DEF IInv, Exclusion, Control, Seen, Shutdown, MissedWakeupIsRescued, MayProduce, queue, flags
    <2>3. AllConsumedInOrder'
      BY <2>0, QueueUnchanged
    <2>4. QED
      BY <2>1, <2>2, <2>3 DEF IInv
  <1>6. CASE WakesSpuriously("consumer")
    <2>0. /\ pc' \in [Threads -> PCs]
          /\ pc'["producer"] = pc["producer"]
          /\ pc'["consumer"] = "lock"
          /\ pc'["main"] = pc["main"]
          /\ pc["consumer"] = "waiting"
          /\ UNCHANGED <<exercise, syncMutex, queue, flags>> /\ spurious' \in 0..MaxSpurious
      BY <1>6, BoundedBufferAssumption DEF WakesSpuriously, Goto, Threads, PCs, IInv, TypeOK
    <2>1. TypeOK'
      BY <2>0, TypeUnchanged DEF IInv, TypeOK, queue, flags
    <2>2. Exclusion' /\ Control' /\ Seen' /\ Shutdown' /\ MissedWakeupIsRescued'
      BY <2>0 DEF IInv, Exclusion, Control, Seen, Shutdown, MissedWakeupIsRescued, MayProduce, queue, flags
    <2>3. AllConsumedInOrder'
      BY <2>0, QueueUnchanged
    <2>4. QED
      BY <2>1, <2>2, <2>3 DEF IInv
  <1>7. CASE ProducerLoops
    <2>0. /\ pc' \in [Threads -> PCs]
          /\ pc'["producer"] = "lock"
          /\ pc'["consumer"] = pc["consumer"]
          /\ pc'["main"] = pc["main"]
          /\ pc["producer"] = "while" /\ generatedSequenceId < exercise.items
          /\ UNCHANGED <<exercise, syncMutex, queue, flags, spurious>>
      BY <1>7 DEF ProducerLoops, Goto, Threads, PCs, IInv, TypeOK
    <2>1. TypeOK'
      BY <2>0, TypeUnchanged DEF IInv, TypeOK, queue, flags
    <2>2. Exclusion' /\ Control' /\ Seen' /\ Shutdown' /\ MissedWakeupIsRescued'
      BY <2>0 DEF IInv, Exclusion, Control, Seen, Shutdown, MissedWakeupIsRescued, MayProduce, queue, flags
    <2>3. AllConsumedInOrder'
      BY <2>0, QueueUnchanged
    <2>4. QED
      BY <2>1, <2>2, <2>3 DEF IInv
  <1>8. CASE ProducerLeavesLoop
    <2>0. /\ pc' \in [Threads -> PCs]
          /\ pc'["producer"] = IF exercise.announces THEN "finish" ELSE "done"
          /\ pc'["consumer"] = pc["consumer"]
          /\ pc'["main"] = pc["main"]
          /\ pc["producer"] = "while"
          /\ UNCHANGED <<exercise, syncMutex, queue, flags, spurious>>
      BY <1>8 DEF ProducerLeavesLoop, Goto, Threads, PCs, IInv, TypeOK
    <2>1. TypeOK'
      BY <2>0, TypeUnchanged DEF IInv, TypeOK, queue, flags
    <2>2. Exclusion' /\ Control' /\ Seen' /\ Shutdown' /\ MissedWakeupIsRescued'
      BY <2>0 DEF IInv, Exclusion, Control, Seen, Shutdown, MissedWakeupIsRescued, MayProduce, queue, flags
    <2>3. AllConsumedInOrder'
      BY <2>0, QueueUnchanged
    <2>4. QED
      BY <2>1, <2>2, <2>3 DEF IInv
  <1>9. CASE ProducerTests
    <2>0. /\ pc' \in [Threads -> PCs]
          /\ pc'["producer"] = IF MayProduce THEN "recheck" ELSE "block"
          /\ pc'["consumer"] = pc["consumer"]
          /\ pc'["main"] = pc["main"]
          /\ pc["producer"] = "test"
          /\ UNCHANGED <<exercise, syncMutex, queue, flags, spurious>>
      BY <1>9 DEF ProducerTests, Goto, Threads, PCs, IInv, TypeOK
    <2>1. TypeOK'
      BY <2>0, TypeUnchanged DEF IInv, TypeOK, queue, flags
    <2>2. Exclusion' /\ Control' /\ Shutdown' /\ MissedWakeupIsRescued'
      BY <2>0 DEF IInv, Exclusion, Control, Shutdown, MissedWakeupIsRescued, queue, flags
    <2>3. Seen'
      BY <2>0, ExerciseType DEF IInv, Seen, MayProduce, TypeOK, queue, flags
    <2>4. AllConsumedInOrder'
      BY <2>0, QueueUnchanged
    <2>5. QED
      BY <2>1, <2>2, <2>3, <2>4 DEF IInv
  <1>10. CASE ProducerBreaks
    <2>0. /\ pc' \in [Threads -> PCs]
          /\ pc'["producer"] = "finish"
          /\ pc'["consumer"] = pc["consumer"]
          /\ pc'["main"] = pc["main"]
          /\ pc["producer"] = "recheck"
          /\ syncMutex = "producer" /\ syncMutex' = "free"
          /\ UNCHANGED <<exercise, queue, flags, spurious>>
      BY <1>10 DEF ProducerBreaks, Unlock, Goto, Threads, PCs, IInv, TypeOK
    <2>1. TypeOK'
      BY <2>0, TypeUnchanged DEF IInv, TypeOK, queue, flags
    <2>2. Exclusion' /\ Control' /\ Seen' /\ Shutdown' /\ MissedWakeupIsRescued'
      BY <2>0 DEF IInv, Exclusion, Control, Seen, Shutdown, MissedWakeupIsRescued, MayProduce, queue, flags
    <2>3. AllConsumedInOrder'
      BY <2>0, QueueUnchanged
    <2>4. QED
      BY <2>1, <2>2, <2>3 DEF IInv
  <1>11. CASE ProducerPushes /\ exercise.locked
    <2>0. /\ pc' \in [Threads -> PCs]
          /\ pc'["producer"] = "while"
          /\ pc'["consumer"] = IF pc["consumer"] = "waiting" THEN "lock" ELSE pc["consumer"]
          /\ pc'["main"] = pc["main"]
          /\ pc["producer"] = "recheck" /\ isProductionActive
          /\ syncMutex = "producer" /\ syncMutex' = "free"
          /\ generatedSequenceId' = generatedSequenceId + 1
          /\ sharedBoundedQueue' = Append(sharedBoundedQueue, generatedSequenceId + 1)
          /\ UNCHANGED <<exercise, consumed, flags, spurious>>
      BY <1>11 DEF ProducerPushes, GotoAndNotify, Unlock, Threads, PCs, IInv, TypeOK
    <2>1. TypeOK'
      <3>1. Len(sharedBoundedQueue) < exercise.maxQueueCapacity
        BY <2>0 DEF IInv, Seen, MayProduce
      <3>2. /\ Append(sharedBoundedQueue, generatedSequenceId + 1) \in Seq(Nat)
            /\ Len(Append(sharedBoundedQueue, generatedSequenceId + 1)) <= exercise.maxQueueCapacity
            /\ generatedSequenceId + 1 \in Nat
        BY <3>1, ExerciseType, AppendProperties, LenProperties DEF IInv, TypeOK
      <3>3. QED
        BY <2>0, <3>2 DEF IInv, TypeOK, PCs, flags
    <2>2. Exclusion'
      BY <2>0 DEF IInv, Exclusion
    <2>3. Control'
      BY <2>0, ExerciseType DEF IInv, Control, TypeOK
    <2>4. Seen'
      BY <2>0, ExerciseType DEF IInv, Seen, MayProduce, TypeOK, flags, Exclusion
    <2>5. Shutdown'
      BY <2>0 DEF IInv, Shutdown, TypeOK, flags, Control, Exclusion
    <2>6. MissedWakeupIsRescued'
      BY <2>0 DEF IInv, MissedWakeupIsRescued, flags, Exclusion
    <2>7. AllConsumedInOrder'
      <3>1. consumed \o sharedBoundedQueue = Ids(generatedSequenceId)
        BY DEF IInv, AllConsumedInOrder, Ids
      <3>2. consumed \o Append(sharedBoundedQueue, generatedSequenceId + 1) = Ids(generatedSequenceId + 1)
        BY <3>1, PushKeepsOrder DEF IInv, TypeOK
      <3>3. pc["main"] # "done"
        BY <2>0, ExerciseType DEF IInv, Shutdown, Control, TypeOK
      <3>4. QED
        BY <2>0, <3>2, <3>3 DEF AllConsumedInOrder, Ids
    <2>8. QED
      BY <2>1, <2>2, <2>3, <2>4, <2>5, <2>6, <2>7 DEF IInv
  <1>12. CASE ProducerPushes /\ ~exercise.locked
    <2>0. /\ pc' \in [Threads -> PCs]
          /\ pc'["producer"] = "notifyOne"
          /\ pc'["consumer"] = pc["consumer"]
          /\ pc'["main"] = pc["main"]
          /\ pc["producer"] = "recheck" /\ isProductionActive
          /\ syncMutex = "producer" /\ syncMutex' = "free"
          /\ generatedSequenceId' = generatedSequenceId + 1
          /\ sharedBoundedQueue' = Append(sharedBoundedQueue, generatedSequenceId + 1)
          /\ UNCHANGED <<exercise, consumed, flags, spurious>>
      BY <1>12 DEF ProducerPushes, Goto, Unlock, Threads, PCs, IInv, TypeOK
    <2>1. TypeOK'
      <3>1. Len(sharedBoundedQueue) < exercise.maxQueueCapacity
        BY <2>0 DEF IInv, Seen, MayProduce
      <3>2. /\ Append(sharedBoundedQueue, generatedSequenceId + 1) \in Seq(Nat)
            /\ Len(Append(sharedBoundedQueue, generatedSequenceId + 1)) <= exercise.maxQueueCapacity
            /\ generatedSequenceId + 1 \in Nat
        BY <3>1, ExerciseType, AppendProperties, LenProperties DEF IInv, TypeOK
      <3>3. QED
        BY <2>0, <3>2 DEF IInv, TypeOK, PCs, flags
    <2>2. Exclusion'
      BY <2>0 DEF IInv, Exclusion
    <2>3. Control'
      BY <2>0, ExerciseType DEF IInv, Control, TypeOK
    <2>4. Seen'
      BY <2>0, ExerciseType DEF IInv, Seen, MayProduce, TypeOK, flags, Exclusion
    <2>5. Shutdown'
      BY <2>0 DEF IInv, Shutdown, TypeOK, flags, Control, Exclusion
    <2>6. MissedWakeupIsRescued'
      BY <2>0 DEF IInv, MissedWakeupIsRescued, flags, Exclusion
    <2>7. AllConsumedInOrder'
      <3>1. consumed \o sharedBoundedQueue = Ids(generatedSequenceId)
        BY DEF IInv, AllConsumedInOrder, Ids
      <3>2. consumed \o Append(sharedBoundedQueue, generatedSequenceId + 1) = Ids(generatedSequenceId + 1)
        BY <3>1, PushKeepsOrder DEF IInv, TypeOK
      <3>3. pc["main"] # "done"
        BY <2>0, ExerciseType DEF IInv, Shutdown, Control, TypeOK
      <3>4. QED
        BY <2>0, <3>2, <3>3 DEF AllConsumedInOrder, Ids
    <2>8. QED
      BY <2>1, <2>2, <2>3, <2>4, <2>5, <2>6, <2>7 DEF IInv
  <1>13. CASE ProducerNotifiesLate
    <2>0. /\ pc' \in [Threads -> PCs]
          /\ pc'["producer"] = "while"
          /\ pc'["consumer"] = IF pc["consumer"] = "waiting" THEN "lock" ELSE pc["consumer"]
          /\ pc'["main"] = pc["main"]
          /\ pc["producer"] = "notifyOne"
          /\ UNCHANGED <<exercise, syncMutex, queue, flags, spurious>>
      BY <1>13 DEF ProducerNotifiesLate, GotoAndNotify, Threads, PCs, IInv, TypeOK
    <2>1. TypeOK'
      BY <2>0, TypeUnchanged DEF IInv, TypeOK, queue, flags
    <2>2. Exclusion' /\ Control' /\ Seen' /\ Shutdown' /\ MissedWakeupIsRescued'
      BY <2>0 DEF IInv, Exclusion, Control, Seen, Shutdown, MissedWakeupIsRescued, MayProduce, queue, flags
    <2>3. AllConsumedInOrder'
      BY <2>0, QueueUnchanged
    <2>4. QED
      BY <2>1, <2>2, <2>3 DEF IInv
  <1>14. CASE ProducerFinishes
    <2>0. /\ pc' \in [Threads -> PCs]
          /\ pc'["producer"] = "notify"
          /\ pc'["consumer"] = pc["consumer"]
          /\ pc'["main"] = pc["main"]
          /\ pc["producer"] = "finish" /\ syncMutex = "free" /\ isProductionFinished' = TRUE
          /\ UNCHANGED <<exercise, syncMutex, queue, isProductionActive, spurious>>
      BY <1>14 DEF ProducerFinishes, Goto, Threads, PCs, IInv, TypeOK
    <2>1. TypeOK'
      BY <2>0, TypeUnchanged DEF IInv, TypeOK, queue, flags
    <2>2. Exclusion' /\ Control' /\ Shutdown' /\ MissedWakeupIsRescued'
      BY <2>0 DEF IInv, Exclusion, Control, Shutdown, MissedWakeupIsRescued, queue, flags
    <2>3. Seen'
      BY <2>0 DEF IInv, Seen, MayProduce, queue, Exclusion
    <2>4. AllConsumedInOrder'
      BY <2>0, QueueUnchanged
    <2>5. QED
      BY <2>1, <2>2, <2>3, <2>4 DEF IInv
  <1>15. CASE ProducerNotifies
    <2>0. /\ pc' \in [Threads -> PCs]
          /\ pc'["producer"] = "done"
          /\ pc'["consumer"] = IF pc["consumer"] = "waiting" THEN "lock" ELSE pc["consumer"]
          /\ pc'["main"] = pc["main"]
          /\ pc["producer"] = "notify"
          /\ UNCHANGED <<exercise, syncMutex, queue, flags, spurious>>
      BY <1>15 DEF ProducerNotifies, GotoAndNotify, Threads, PCs, IInv, TypeOK
    <2>1. TypeOK'
      BY <2>0, TypeUnchanged DEF IInv, TypeOK, queue, flags
    <2>2. Exclusion' /\ Control' /\ Seen' /\ Shutdown' /\ MissedWakeupIsRescued'
      BY <2>0 DEF IInv, Exclusion, Control, Seen, Shutdown, MissedWakeupIsRescued, MayProduce, queue, flags
    <2>3. AllConsumedInOrder'
      BY <2>0, QueueUnchanged
    <2>4. QED
      BY <2>1, <2>2, <2>3 DEF IInv
  <1>16. CASE ConsumerTests
    <2>0. /\ pc' \in [Threads -> PCs]
          /\ pc'["producer"] = pc["producer"]
          /\ pc'["consumer"] = IF sharedBoundedQueue # <<>> THEN "take" ELSE IF isProductionFinished THEN "leave" ELSE "block"
          /\ pc'["main"] = pc["main"]
          /\ pc["consumer"] = "test"
          /\ UNCHANGED <<exercise, syncMutex, queue, flags, spurious>>
      BY <1>16 DEF ConsumerTests, Goto, Threads, PCs, IInv, TypeOK
    <2>1. TypeOK'
      BY <2>0, TypeUnchanged DEF IInv, TypeOK, queue, flags
    <2>2. Exclusion' /\ Control' /\ Seen' /\ Shutdown' /\ MissedWakeupIsRescued'
      BY <2>0 DEF IInv, Exclusion, Control, Seen, Shutdown, MissedWakeupIsRescued, MayProduce, queue, flags
    <2>3. AllConsumedInOrder'
      BY <2>0, QueueUnchanged
    <2>4. QED
      BY <2>1, <2>2, <2>3 DEF IInv
  <1>17. CASE ConsumerLeaves
    <2>0. /\ pc' \in [Threads -> PCs]
          /\ pc'["producer"] = pc["producer"]
          /\ pc'["consumer"] = "done"
          /\ pc'["main"] = pc["main"]
          /\ pc["consumer"] = "leave"
          /\ syncMutex = "consumer" /\ syncMutex' = "free"
          /\ UNCHANGED <<exercise, queue, flags, spurious>>
      BY <1>17 DEF ConsumerLeaves, Unlock, Goto, Threads, PCs, IInv, TypeOK
    <2>1. TypeOK'
      BY <2>0, TypeUnchanged DEF IInv, TypeOK, queue, flags
    <2>2. Exclusion' /\ Control' /\ Seen' /\ Shutdown' /\ MissedWakeupIsRescued'
      BY <2>0 DEF IInv, Exclusion, Control, Seen, Shutdown, MissedWakeupIsRescued, MayProduce, queue, flags
    <2>3. AllConsumedInOrder'
      BY <2>0, QueueUnchanged
    <2>4. QED
      BY <2>1, <2>2, <2>3 DEF IInv
  <1>18. CASE ConsumerTakes
    <2>0. /\ pc' \in [Threads -> PCs]
          /\ pc'["producer"] = IF pc["producer"] = "waiting" THEN "lock" ELSE pc["producer"]
          /\ pc'["consumer"] = AfterTake
          /\ pc'["main"] = pc["main"]
          /\ pc["consumer"] = "take"
          /\ syncMutex = "consumer" /\ syncMutex' = "free"
          /\ consumed' = Append(consumed, Head(sharedBoundedQueue))
          /\ sharedBoundedQueue' = Tail(sharedBoundedQueue)
          /\ UNCHANGED <<exercise, generatedSequenceId, flags, spurious>>
      <3>1. pc \in [Threads -> PCs] /\ AfterTake \in {"done", "lock"}
        BY DEF IInv, TypeOK, PCs, AfterTake
      <3>2. pc' = [pc EXCEPT !["consumer"] = AfterTake, !["producer"] = IF @ = "waiting" THEN "lock" ELSE @]
        BY <1>18 DEF ConsumerTakes, GotoAndNotify, Unlock, Woken
      <3>3. /\ pc' \in [Threads -> PCs]
            /\ pc'["producer"] = IF pc["producer"] = "waiting" THEN "lock" ELSE pc["producer"]
            /\ pc'["consumer"] = AfterTake
            /\ pc'["main"] = pc["main"]
        BY <3>1, <3>2 DEF Threads, PCs
      <3>4. /\ pc["consumer"] = "take"
            /\ syncMutex = "consumer" /\ syncMutex' = "free"
            /\ consumed' = Append(consumed, Head(sharedBoundedQueue))
            /\ sharedBoundedQueue' = Tail(sharedBoundedQueue)
            /\ UNCHANGED <<exercise, generatedSequenceId, flags, spurious>>
        BY <1>18 DEF ConsumerTakes, GotoAndNotify, Unlock, Woken
      <3>5. QED
        BY <3>3, <3>4
    <2>1. TypeOK' /\ Len(consumed') = Len(consumed) + 1 /\ consumed' \o sharedBoundedQueue' = consumed \o sharedBoundedQueue
      <3>1. sharedBoundedQueue # <<>>
        BY <2>0 DEF IInv, Seen
      <3>2. /\ Append(consumed, Head(sharedBoundedQueue)) \in Seq(Nat) /\ Tail(sharedBoundedQueue) \in Seq(Nat)
            /\ Len(Append(consumed, Head(sharedBoundedQueue))) = Len(consumed) + 1
            /\ Len(Tail(sharedBoundedQueue)) = Len(sharedBoundedQueue) - 1
            /\ Append(consumed, Head(sharedBoundedQueue)) \o Tail(sharedBoundedQueue) = consumed \o sharedBoundedQueue
        BY <3>1, TakeKeepsOrder DEF IInv, TypeOK
      <3>3. Len(Tail(sharedBoundedQueue)) <= exercise.maxQueueCapacity
        BY <3>2, ExerciseType, LenProperties DEF IInv, TypeOK
      <3>4. TypeOK'
        BY <2>0, <3>2, <3>3 DEF IInv, TypeOK, PCs, flags
      <3>5. QED
        BY <2>0, <3>2, <3>4
    <2>2. Exclusion'
      BY <2>0 DEF IInv, Exclusion, AfterTake
    <2>3. Control'
      BY <2>0 DEF IInv, Control, AfterTake
    <2>4. Seen'
      BY <2>0 DEF IInv, Seen, flags, MayProduce, Exclusion, AfterTake
    <2>5. Shutdown'
      <3>1. Len(consumed) + 1 = exercise.items => sharedBoundedQueue' = <<>> /\ generatedSequenceId = exercise.items
        <4>1. consumed' \o sharedBoundedQueue' = Ids(generatedSequenceId)
          BY <2>1 DEF IInv, AllConsumedInOrder, Ids
        <4>2. Len(consumed') + Len(sharedBoundedQueue') = generatedSequenceId
          BY <2>1, <4>1, <2>0, Lengths DEF IInv, TypeOK
        <4>3. Len(sharedBoundedQueue') \in Nat /\ (Len(sharedBoundedQueue') = 0 => sharedBoundedQueue' = <<>>)
          BY <2>1, LenProperties, EmptyQueue DEF TypeOK
        <4>4. QED
          <5>1. /\ Len(consumed') = Len(consumed) + 1 /\ generatedSequenceId \in Nat
                /\ generatedSequenceId <= exercise.items /\ exercise.items \in Nat
            BY <2>1, ExerciseType DEF IInv, Control, TypeOK
          <5>2. QED
            BY <4>2, <4>3, <5>1
      <3>2. QED
        BY <2>0, <3>1 DEF IInv, Shutdown, Control, AfterTake, flags
    <2>6. MissedWakeupIsRescued'
      BY <2>0 DEF IInv, MissedWakeupIsRescued, flags, AfterTake
    <2>7. AllConsumedInOrder'
      BY <2>0, <2>1 DEF IInv, AllConsumedInOrder, Shutdown
    <2>8. QED
      BY <2>1, <2>2, <2>3, <2>4, <2>5, <2>6, <2>7 DEF IInv
  <1>19. CASE MainDeactivates
    <2>0. /\ pc' \in [Threads -> PCs]
          /\ pc'["producer"] = pc["producer"]
          /\ pc'["consumer"] = pc["consumer"]
          /\ pc'["main"] = "notify"
          /\ pc["main"] = "sleep" /\ isProductionActive' = FALSE
          /\ UNCHANGED <<exercise, syncMutex, queue, isProductionFinished, spurious>>
      BY <1>19 DEF MainDeactivates, Goto, Threads, PCs, IInv, TypeOK
    <2>1. TypeOK'
      BY <2>0, TypeUnchanged DEF IInv, TypeOK, queue, flags
    <2>2. Exclusion' /\ Control' /\ Shutdown' /\ MissedWakeupIsRescued'
      BY <2>0 DEF IInv, Exclusion, Control, Shutdown, MissedWakeupIsRescued, queue, flags
    <2>3. Seen'
      BY <2>0 DEF IInv, Seen, MayProduce, queue
    <2>4. AllConsumedInOrder'
      BY <2>0, QueueUnchanged
    <2>5. QED
      BY <2>1, <2>2, <2>3, <2>4 DEF IInv
  <1>20. CASE MainNotifies
    <2>0. /\ pc' \in [Threads -> PCs]
          /\ pc'["producer"] = IF pc["producer"] = "waiting" THEN "lock" ELSE pc["producer"]
          /\ pc'["consumer"] = pc["consumer"]
          /\ pc'["main"] = "join"
          /\ pc["main"] = "notify"
          /\ UNCHANGED <<exercise, syncMutex, queue, flags, spurious>>
      BY <1>20 DEF MainNotifies, GotoAndNotify, Threads, PCs, IInv, TypeOK
    <2>1. TypeOK'
      BY <2>0, TypeUnchanged DEF IInv, TypeOK, queue, flags
    <2>2. Exclusion' /\ Control' /\ Seen' /\ Shutdown' /\ MissedWakeupIsRescued'
      BY <2>0 DEF IInv, Exclusion, Control, Seen, Shutdown, MissedWakeupIsRescued, MayProduce, queue, flags
    <2>3. AllConsumedInOrder'
      BY <2>0, QueueUnchanged
    <2>4. QED
      BY <2>1, <2>2, <2>3 DEF IInv
  <1>21. CASE MainJoins
    <2>0. /\ pc' \in [Threads -> PCs]
          /\ pc'["producer"] = pc["producer"]
          /\ pc'["consumer"] = pc["consumer"]
          /\ pc'["main"] = "done"
          /\ pc["main"] = "join" /\ pc["consumer"] = "done"
          /\ UNCHANGED <<exercise, syncMutex, queue, flags, spurious>>
      BY <1>21 DEF MainJoins, Joined, Goto, Threads, PCs, IInv, TypeOK
    <2>1. TypeOK'
      BY <2>0, TypeUnchanged DEF IInv, TypeOK, queue, flags
    <2>2. Exclusion' /\ Control' /\ Seen' /\ Shutdown' /\ MissedWakeupIsRescued'
      BY <2>0 DEF IInv, Exclusion, Control, Seen, Shutdown, MissedWakeupIsRescued, MayProduce, queue, flags
    <2>3. AllConsumedInOrder'
      BY <2>0 DEF IInv, AllConsumedInOrder, Shutdown, queue
    <2>4. QED
      BY <2>1, <2>2, <2>3 DEF IInv
  <1>22. CASE UNCHANGED vars
    BY <1>22 DEF vars, queue, flags, IInv, TypeOK, Exclusion, Control, Seen, MayProduce, Shutdown, MissedWakeupIsRescued, AllConsumedInOrder
  <1>23. QED
    BY <1>1, <1>2, <1>3, <1>4, <1>5, <1>6, <1>7, <1>8, <1>9, <1>10, <1>11, <1>12, <1>13, <1>14, <1>15, <1>16, <1>17, <1>18, <1>19, <1>20, <1>21, <1>22 DEF Next, Producer, Consumer, Main, Ended, ProducerPushes

-----------------------------------------------------------------------------
(* The inductive invariant holds in every reachable state of the three exercises. *)
THEOREM Invariance == Spec => []IInv
  BY InitInv, StepInv, PTL DEF Spec

(* Types are respected, and the queue never exceeds its capacity. *)
THEOREM TypeCorrect == Spec => []TypeOK
  <1>1. IInv => TypeOK
    BY DEF IInv
  <1>2. QED
    BY <1>1, Invariance, PTL

(* syncMutex: producer and consumer are never both between locking and unlocking it. *)
THEOREM MutualExclusion == Spec => []Exclusion
  <1>1. IInv => Exclusion
    BY DEF IInv
  <1>2. QED
    BY <1>1, Invariance, PTL

(* Nobody sleeps while there is something for him to do and no notification to come. *)
THEOREM SleepersAreAwoken == Spec => []MissedWakeupIsRescued
  <1>1. IInv => MissedWakeupIsRescued
    BY DEF IInv
  <1>2. QED
    BY <1>1, Invariance, PTL

(* Values are consumed in the order of their generation, and all of them before main returns. *)
THEOREM ValuesInOrder == Spec => []AllConsumedInOrder
  <1>1. IInv => AllConsumedInOrder
    BY DEF IInv
  <1>2. QED
    BY <1>1, Invariance, PTL
=============================================================================
