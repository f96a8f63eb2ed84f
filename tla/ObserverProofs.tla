----------------------------- MODULE ObserverProofs -----------------------------
(* Proofs about thread_safe_observer, for any observers that main() subscribes and any
   number of messages: nobody calls a destroyed observer, a call after unsubscribing is the
   only one, and nobody misses a message. *)
EXTENDS Observer, SequenceTheorems, FiniteSetTheorems, TLAPS

InList(o)   == \E i \in 1..Len(observerWeakList) : observerWeakList[i] = o
IsActive(o) == \E i \in 1..Len(activeObserversList) : activeObserversList[i] = o

Types ==
  /\ publisher \in {"sleep", "copy", "call"}
  /\ modifier \in {"create", "subscribe", "unsubscribe", "abandon", "drop", "done", "gone"}
  /\ subjectMutex = IF publisher = "copy" THEN "publisher" ELSE "free"
  /\ observerWeakList \in Seq(Observers) /\ activeObserversList \in Seq(Observers)
  /\ owners \in [Observers -> Nat]
  /\ position \in Nat \ {0} /\ messageIndex \in 1..Messages + 1
  /\ publisher # "sleep" => messageIndex <= Messages
  /\ received \in [Observers -> Seq(Nat)] /\ late \in Nat

\* The modifier thread holds a shared pointer to its observer.
Owned == modifier \in {"subscribe", "unsubscribe", "abandon", "drop"}

\* The shared pointers to an observer: that of main() or of the modifier, and that of the
\* publisher.
Ownership ==
  \A o \in Observers :
    owners[o] = (IF o \in Persistent \/ Owned THEN 1 ELSE 0) + (IF IsActive(o) THEN 1 ELSE 0)

\* What is in the two lists.
Lists ==
  /\ \A i, j \in 1..Len(observerWeakList) : observerWeakList[i] = observerWeakList[j] => i = j
  /\ \A i, j \in 1..Len(activeObserversList) :
       activeObserversList[i] = activeObserversList[j] => i = j
  /\ \A o \in Persistent : InList(o)
  /\ InList(temporary) => modifier \in {"unsubscribe", "abandon", "gone"}
  /\ IsActive(temporary) => modifier \notin {"create", "subscribe"}

\* What the publisher has copied is what it went past, the observers of main() among it.
Copying ==
  /\ publisher = "sleep" => Len(activeObserversList) = 0
  /\ publisher = "copy" =>
       /\ position <= Len(observerWeakList) + 1
       /\ \A j \in 1..Len(activeObserversList) : \E i \in 1..position - 1 :
            activeObserversList[j] = observerWeakList[i]
       /\ \A i \in 1..position - 1 : observerWeakList[i] \in Persistent =>
                                       IsActive(observerWeakList[i])
  /\ publisher = "call" =>
       /\ position <= Len(activeObserversList) + 1
       /\ \A o \in Persistent : IsActive(o)

\* The publisher has called o, or is yet to call it, in this notification.
Called(o)  == publisher = "call" /\ \E i \in 1..position - 1 : activeObserversList[i] = o
Pending(o) == \E i \in (IF publisher = "call" THEN position ELSE 1)..Len(activeObserversList) :
                activeObserversList[i] = o

Late == late = 0 \/ (late = 1 /\ Unsubscribed /\ ~Pending(temporary))

\* The last message that o can have got.
Due(o) == IF Called(o) THEN messageIndex ELSE messageIndex - 1

\* The temporary observer will hear the messages to come.
Listens == Owned /\ InList(temporary)

\* An observer that may get another message got the last one.
Hearing ==
  /\ \A o \in Persistent : /\ Len(received[o]) = Due(o)
                           /\ \A i \in 1..Len(received[o]) : received[o][i] = i
  /\ \A i \in 2..Len(received[temporary]) : received[temporary][i] = received[temporary][i-1] + 1
  /\ modifier \in {"create", "subscribe"} => Len(received[temporary]) = 0
  /\ Len(received[temporary]) > 0 /\ (Listens \/ IsActive(temporary)) =>
       received[temporary][Len(received[temporary])] = Due(temporary)
  /\ Len(received[temporary]) > 0 /\ Listens =>
       \/ publisher = "sleep" \/ IsActive(temporary)
       \/ /\ publisher = "copy"
          /\ \E i \in position..Len(observerWeakList) : observerWeakList[i] = temporary

IInv == Types /\ Ownership /\ Lists /\ Copying /\ Late /\ Hearing

-----------------------------------------------------------------------------
(* Of each observer main() subscribes one weak pointer. *)
LEMMA InitInv == Init => IInv
  <1> SUFFICES ASSUME Init PROVE IInv
    OBVIOUS
  <1>1. /\ Cardinality(Persistent) \in Nat /\ Messages \in Nat /\ temporary \notin Persistent
        /\ IsFiniteSet(Persistent)
    BY ObserverAssumption, FS_CardinalityType
  <1> DEFINE N == Cardinality(Persistent)
  <1>2. /\ observerWeakList \in [1..N -> Persistent]
        /\ ToSet(observerWeakList) = Persistent
    BY DEF Init
  <1>3. /\ observerWeakList \in Seq(Persistent) /\ observerWeakList \in Seq(Observers)
        /\ Len(observerWeakList) = N
    BY <1>1, <1>2, LenProperties, IsASeq DEF Observers
  <1>4. \A i, j \in 1..N : observerWeakList[i] = observerWeakList[j] => i = j
    <2>1. observerWeakList \in Surjection(1..N, Persistent)
      BY <1>2 DEF Surjection, ToSet
    <2>2. IsFiniteSet(1..N) /\ Cardinality(1..N) = N
      BY <1>1, FS_Interval
    <2>3. observerWeakList \in Injection(1..N, Persistent)
      BY <1>1, <2>1, <2>2, FS_SurjSameCardinalityImpliesInj
    <2>4. QED
      BY <2>3 DEF Injection, IsInjective
  <1>5. \A o \in Persistent : InList(o)
    BY <1>2, <1>3 DEF InList, ToSet
  <1>6. ~InList(temporary)
    BY <1>1, <1>2, <1>3 DEF InList
  <1>7. activeObserversList = <<>> /\ Len(activeObserversList) = 0 /\ \A o \in Observers : received[o] = <<>> /\ Len(received[o]) = 0
    BY DEF Init
  <1>8. \A o \in Observers : ~IsActive(o) /\ ~Called(o) /\ Due(o) = 0
    BY <1>7 DEF Init, IsActive, Called, Due
  <1>9. Types
    BY <1>1, <1>3 DEF Init, Types, Observers
  <1>10. Ownership
    BY <1>1, <1>8 DEF Init, Ownership, Owned, Observers
  <1>11. Lists
    BY <1>3, <1>4, <1>5, <1>6, <1>7 DEF Lists, IsActive
  <1>12. Copying /\ Late
    BY <1>7 DEF Init, Copying, Late
  <1>13. Hearing
    BY <1>7, <1>8 DEF Hearing, Observers
  <1>14. QED
    BY <1>9, <1>10, <1>11, <1>12, <1>13 DEF IInv

(* What the inductive invariant says of the lengths and places of the two lists. *)
LEMMA Places ==
  ASSUME IInv
  PROVE  /\ Len(observerWeakList) \in Nat /\ Len(activeObserversList) \in Nat
         /\ \A i \in 1..Len(observerWeakList) : observerWeakList[i] \in Observers
         /\ \A i \in 1..Len(activeObserversList) :
              activeObserversList[i] \in Observers /\ IsActive(activeObserversList[i])
         /\ temporary \in Observers /\ temporary \notin Persistent /\ Persistent \subseteq Observers
         /\ \A o \in Observers : received[o] \in Seq(Nat) /\ Len(received[o]) \in Nat
         /\ position \in Nat /\ position >= 1 /\ messageIndex \in Nat /\ messageIndex >= 1
  <1>1. observerWeakList \in Seq(Observers) /\ activeObserversList \in Seq(Observers)
    BY DEF IInv, Types
  <1>2. \A o \in Observers : received[o] \in Seq(Nat) /\ Len(received[o]) \in Nat
    BY LenProperties DEF IInv, Types
  <1>3. position \in Nat /\ position >= 1 /\ messageIndex \in Nat /\ messageIndex >= 1
    BY ObserverAssumption DEF IInv, Types
  <1>4. QED
    BY <1>1, <1>2, <1>3, LenProperties, ElementOfSeq, ObserverAssumption DEF Observers, IsActive

(* The publisher locks the mutex. *)
LEMMA LocksStep == ASSUME IInv, NotifyLocks PROVE IInv'
  <1>1. /\ publisher = "sleep" /\ messageIndex <= Messages /\ publisher' = "copy"
        /\ subjectMutex' = "publisher" /\ position' = 1
        /\ UNCHANGED <<modifier, observerWeakList, owners, activeObserversList, messageIndex,
                       received, late>>
    BY DEF NotifyLocks, Lock, history
  <1>2. Len(activeObserversList) = 0
    BY <1>1 DEF IInv, Copying
  <1>3. \A o : /\ ~IsActive(o) /\ ~IsActive(o)' /\ ~Called(o) /\ ~Called(o)' /\ Due(o)' = Due(o)
               /\ InList(o)' = InList(o)
    BY <1>1, <1>2 DEF IsActive, InList, Called, Due
  <1>4. Owned' = Owned /\ Listens' = Listens /\ Unsubscribed' = Unsubscribed
    BY <1>1, <1>3 DEF Owned, Listens, Unsubscribed
  <1>5. Types'
    BY <1>1 DEF IInv, Types
  <1>6. Ownership' /\ Lists'
    BY <1>1, <1>3, <1>4 DEF IInv, Ownership, Lists
  <1>7. Copying'
    BY <1>1, <1>2, Places DEF Copying
  <1>8. Late'
    <2>1. ~Pending(temporary)'
      BY <1>1, <1>2 DEF Pending
    <2>2. QED
      BY <1>1, <1>4, <2>1 DEF IInv, Late
  <1>9. Hearing'
    <2>1. Listens => \E i \in 1..Len(observerWeakList) : observerWeakList[i] = temporary
      BY DEF Listens, InList
    <2>2. QED
      BY <1>1, <1>3, <1>4, <2>1 DEF IInv, Hearing
  <1>10. QED
    BY <1>5, <1>6, <1>7, <1>8, <1>9 DEF IInv

(* The next observer in the list lives: the publisher shares it. *)
LEMMA SharesStep ==
  ASSUME IInv, NotifyCopies, Lives(observerWeakList[position]) PROVE IInv'
  <1>1. PICK o \in Observers : o = observerWeakList[position] /\ position <= Len(observerWeakList)
    BY Places DEF NotifyCopies
  <1>2. /\ publisher = "copy" /\ position <= Len(observerWeakList) /\ publisher' = "copy"
        /\ activeObserversList' = Append(activeObserversList, o)
        /\ owners' = [owners EXCEPT ![o] = @ + 1] /\ position' = position + 1
        /\ UNCHANGED <<modifier, subjectMutex, observerWeakList, messageIndex, received, late>>
    BY <1>1 DEF NotifyCopies, SharedWith, subject, history
  <1>3. o \in Observers /\ InList(o)
    BY <1>2, <1>1, Places DEF InList
  <1>4. /\ Len(activeObserversList') = Len(activeObserversList) + 1
        /\ activeObserversList'[Len(activeObserversList) + 1] = o
        /\ \A i \in 1..Len(activeObserversList) : activeObserversList'[i] = activeObserversList[i]
        /\ activeObserversList' \in Seq(Observers)
    BY <1>2, <1>3, AppendProperties DEF IInv, Types
  <1>5. \A x : IsActive(x)' <=> IsActive(x) \/ x = o
    <2>1. \A i \in 1..Len(activeObserversList) + 1 :
            i \in 1..Len(activeObserversList) \/ i = Len(activeObserversList) + 1
      BY Places
    <2>2. /\ 1..Len(activeObserversList) \subseteq 1..Len(activeObserversList) + 1
          /\ Len(activeObserversList) + 1 \in 1..Len(activeObserversList) + 1
      BY Places
    <2>3. QED
      BY <1>4, <2>1, <2>2, Zenon DEF IsActive
  <1>6. ~IsActive(o)
    <2>1. ASSUME NEW j \in 1..Len(activeObserversList), activeObserversList[j] = o PROVE FALSE
      <3>1. PICK i \in 1..position - 1 : activeObserversList[j] = observerWeakList[i]
        BY <1>2, <2>1 DEF IInv, Copying
      <3>2. i \in 1..Len(observerWeakList) /\ position \in 1..Len(observerWeakList) /\ i # position
        BY <1>2, <3>1, Places
      <3>3. QED
        BY <1>1, <2>1, <3>1, <3>2 DEF IInv, Lists
    <2>2. QED
      BY <2>1 DEF IsActive
  <1>7. \A x : /\ ~Called(x) /\ ~Called(x)' /\ Due(x)' = Due(x) /\ InList(x)' = InList(x)
               /\ Pending(x) = IsActive(x) /\ Pending(x)' = IsActive(x)'
    BY <1>2 DEF InList, IsActive, Called, Due, Pending
  <1>8. Owned' = Owned /\ Listens' = Listens /\ Unsubscribed' = Unsubscribed
    BY <1>2, <1>7 DEF Owned, Listens, Unsubscribed
  <1>9. Types'
    <2>1. owners' \in [Observers -> Nat]
      <3>1. owners \in [Observers -> Nat] /\ owners[o] + 1 \in Nat
        BY DEF IInv, Types
      <3>2. QED
        BY <1>2, <3>1
    <2>2. position + 1 \in Nat \ {0}
      BY Places
    <2>3. QED
      BY <1>2, <1>4, <2>1, <2>2 DEF IInv, Types
  <1>10. Ownership'
    <2>1. \A x \in Observers : owners[x] \in Nat /\ owners'[x] = IF x = o THEN owners[x] + 1 ELSE owners[x]
      BY <1>2 DEF IInv, Types
    <2>2. \A x \in Observers : owners[x] = (IF x \in Persistent \/ Owned THEN 1 ELSE 0)
                                           + (IF IsActive(x) THEN 1 ELSE 0)
      BY DEF IInv, Ownership
    <2>3. QED
      BY <1>5, <1>6, <1>8, <2>1, <2>2 DEF Ownership
  <1>11. Lists'
    <2>1. \A i, j \in 1..Len(activeObserversList) + 1 :
            activeObserversList'[i] = activeObserversList'[j] => i = j
      <3>1. \A i \in 1..Len(activeObserversList) : activeObserversList[i] # o
        BY <1>6 DEF IsActive
      <3>2. \A i, j \in 1..Len(activeObserversList) :
              activeObserversList[i] = activeObserversList[j] => i = j
        BY DEF IInv, Lists
      <3>3. \A i \in 1..Len(activeObserversList) + 1 :
              i \in 1..Len(activeObserversList) \/ i = Len(activeObserversList) + 1
        BY Places
      <3>4. QED
        BY <1>4, <3>1, <3>2, <3>3, Zenon
    <2>2. o = temporary => modifier \notin {"create", "subscribe"}
      BY <1>3 DEF IInv, Lists
    <2>3. QED
      BY <1>2, <1>4, <1>5, <1>7, <2>1, <2>2 DEF IInv, Lists
  <1>12. Copying'
    <2>1. \A j \in 1..Len(activeObserversList) + 1 : \E i \in 1..position :
            activeObserversList'[j] = observerWeakList[i]
      <3>1. \A j \in 1..Len(activeObserversList) : \E i \in 1..position - 1 :
              activeObserversList[j] = observerWeakList[i]
        BY <1>2 DEF IInv, Copying
      <3>2. 1..position - 1 \subseteq 1..position /\ position \in 1..position
        BY Places
      <3>3. \A j \in 1..Len(activeObserversList) + 1 :
              j \in 1..Len(activeObserversList) \/ j = Len(activeObserversList) + 1
        BY Places
      <3>4. QED
        BY <1>4, <1>1, <3>1, <3>2, <3>3
    <2>2. \A i \in 1..position : observerWeakList[i] \in Persistent => IsActive(observerWeakList[i])'
      <3>1. \A i \in 1..position - 1 : observerWeakList[i] \in Persistent => IsActive(observerWeakList[i])
        BY <1>2 DEF IInv, Copying
      <3>2. \A i \in 1..position : i \in 1..position - 1 \/ i = position
        BY Places
      <3>3. \A i : IsActive(observerWeakList[i]) \/ observerWeakList[i] = o => IsActive(observerWeakList[i])'
        BY <1>2, <1>5
      <3>4. QED
        BY <1>1, <3>1, <3>2, <3>3
    <2>3. position + 1 <= Len(observerWeakList) + 1 /\ (position + 1) - 1 = position
      BY <1>2, Places
    <2>4. QED
      BY <1>2, <1>4, <2>1, <2>2, <2>3 DEF Copying
  <1>13. Late'
    <2>1. Unsubscribed => o # temporary
      BY <1>3 DEF IInv, Lists, Unsubscribed
    <2>2. QED
      BY <1>2, <1>5, <1>7, <1>8, <2>1 DEF IInv, Late
  <1>14. Hearing'
    <2>1. o = temporary => Listens
      <3>1. o = temporary => owners[temporary] > 0 /\ ~IsActive(temporary)
        BY <1>6, <1>1 DEF Lives
      <3>2. o = temporary => Owned
        BY <3>1, Places DEF IInv, Ownership
      <3>3. QED
        BY <1>3, <3>2 DEF Listens
    <2>2. /\ Listens \/ IsActive(temporary)' => Listens \/ IsActive(temporary)
          /\ IsActive(temporary) => IsActive(temporary)'
      BY <1>5, <2>1
    <2>3. (\E i \in position..Len(observerWeakList) : observerWeakList[i] = temporary) =>
            \/ IsActive(temporary)'
            \/ \E i \in position + 1..Len(observerWeakList) : observerWeakList[i] = temporary
      <3>1. \A i \in position..Len(observerWeakList) : i = position \/ i \in position + 1..Len(observerWeakList)
        BY Places
      <3>2. QED
        BY <1>5, <1>1, <3>1
    <2>4. \A x \in Persistent : /\ Len(received[x]) = Due(x)
                                /\ \A i \in 1..Len(received[x]) : received[x][i] = i
      BY DEF IInv, Hearing
    <2>5. /\ \A i \in 2..Len(received[temporary]) : received[temporary][i] = received[temporary][i-1] + 1
          /\ modifier \in {"create", "subscribe"} => Len(received[temporary]) = 0
          /\ Len(received[temporary]) > 0 /\ (Listens \/ IsActive(temporary)) =>
               received[temporary][Len(received[temporary])] = Due(temporary)
          /\ Len(received[temporary]) > 0 /\ Listens =>
               \/ IsActive(temporary)
               \/ \E i \in position..Len(observerWeakList) : observerWeakList[i] = temporary
      BY <1>2 DEF IInv, Hearing
    <2>6. QED
      BY <1>2, <1>7, <1>8, <2>2, <2>3, <2>4, <2>5 DEF Hearing
  <1>15. QED
    BY <1>9, <1>10, <1>11, <1>12, <1>13, <1>14 DEF IInv

(* The next observer in the list is gone: the publisher passes it over. *)
LEMMA PassesStep ==
  ASSUME IInv, NotifyCopies, ~Lives(observerWeakList[position]) PROVE IInv'
  <1>1. PICK o \in Observers : o = observerWeakList[position] /\ position <= Len(observerWeakList)
    BY Places DEF NotifyCopies
  <1>2. /\ publisher = "copy" /\ publisher' = "copy" /\ position' = position + 1
        /\ UNCHANGED <<modifier, subjectMutex, observerWeakList, activeObserversList, owners,
                       messageIndex, received, late>>
    BY DEF NotifyCopies, subject, history
  <1>3. /\ o \notin Persistent /\ ~IsActive(o) /\ (o = temporary => ~Owned)
    <2>1. /\ owners[o] \in Nat /\ ~(owners[o] > 0)
          /\ owners[o] = (IF o \in Persistent \/ Owned THEN 1 ELSE 0) + (IF IsActive(o) THEN 1 ELSE 0)
      BY <1>1 DEF Lives, IInv, Types, Ownership
    <2>2. QED
      BY <2>1
  <1>4. \A x : /\ ~Called(x) /\ ~Called(x)' /\ Due(x)' = Due(x) /\ InList(x)' = InList(x)
               /\ IsActive(x)' = IsActive(x) /\ Pending(x)' = Pending(x)
    BY <1>2 DEF InList, IsActive, Called, Due, Pending
  <1>5. Owned' = Owned /\ Listens' = Listens /\ Unsubscribed' = Unsubscribed
    BY <1>2, <1>4 DEF Owned, Listens, Unsubscribed
  <1>6. Types'
    <2>1. position + 1 \in Nat \ {0}
      BY Places
    <2>2. QED
      BY <1>2, <2>1 DEF IInv, Types
  <1>7. Ownership' /\ Lists' /\ Late'
    BY <1>2, <1>4, <1>5 DEF IInv, Ownership, Lists, Late
  <1>8. Copying'
    <2>1. \A i \in 1..(position + 1) - 1 : i \in 1..position - 1 \/ i = position
      BY Places
    <2>2. position + 1 <= Len(observerWeakList) + 1 /\ 1..position - 1 \subseteq 1..(position + 1) - 1
      BY <1>1, Places
    <2>3. /\ \A j \in 1..Len(activeObserversList) : \E i \in 1..position - 1 :
               activeObserversList[j] = observerWeakList[i]
          /\ \A i \in 1..position - 1 : observerWeakList[i] \in Persistent =>
                                          IsActive(observerWeakList[i])
      BY <1>2 DEF IInv, Copying
    <2>4. \A j \in 1..Len(activeObserversList) : \E i \in 1..(position + 1) - 1 :
            activeObserversList[j] = observerWeakList[i]
      BY <2>2, <2>3
    <2>5. \A i \in 1..(position + 1) - 1 : observerWeakList[i] \in Persistent =>
                                             IsActive(observerWeakList[i])
      BY <1>3, <1>1, <2>1, <2>3
    <2>6. \A i : IsActive(observerWeakList[i])' <=> IsActive(observerWeakList[i])
      BY <1>2 DEF IsActive
    <2>7. QED
      BY <1>2, <2>2, <2>4, <2>5, <2>6 DEF Copying
  <1>9. Hearing'
    <2>1. Listens => o # temporary
      BY <1>3 DEF Listens
    <2>2. \A i \in position..Len(observerWeakList) : i = position \/ i \in position + 1..Len(observerWeakList)
      BY Places
    <2>3. Listens /\ (\E i \in position..Len(observerWeakList) : observerWeakList[i] = temporary) =>
            \E i \in position + 1..Len(observerWeakList) : observerWeakList[i] = temporary
      BY <1>1, <2>1, <2>2
    <2>4. QED
      BY <1>2, <1>4, <1>5, <2>3 DEF IInv, Hearing
  <1>10. QED
    BY <1>6, <1>7, <1>8, <1>9 DEF IInv

(* The publisher has seen the whole list and releases the mutex. *)
LEMMA UnlocksStep == ASSUME IInv, NotifyUnlocks PROVE IInv'
  <1>1. /\ publisher = "copy" /\ position > Len(observerWeakList) /\ publisher' = "call"
        /\ subjectMutex' = "free" /\ position' = 1
        /\ UNCHANGED <<modifier, observerWeakList, owners, activeObserversList, messageIndex,
                       received, late>>
    BY DEF NotifyUnlocks, history
  <1>2. position - 1 = Len(observerWeakList) /\ position..Len(observerWeakList) = {}
    BY <1>1, Places DEF IInv, Copying
  <1>3. \A x : /\ ~Called(x) /\ ~Called(x)' /\ Due(x)' = Due(x) /\ InList(x)' = InList(x)
               /\ IsActive(x)' = IsActive(x) /\ Pending(x)' = Pending(x)
    BY <1>1 DEF InList, IsActive, Called, Due, Pending
  <1>4. Owned' = Owned /\ Listens' = Listens /\ Unsubscribed' = Unsubscribed
    BY <1>1, <1>3 DEF Owned, Listens, Unsubscribed
  <1>5. Types'
    BY <1>1 DEF IInv, Types
  <1>6. Ownership' /\ Lists' /\ Late'
    BY <1>1, <1>3, <1>4 DEF IInv, Ownership, Lists, Late
  <1>7. Copying'
    <2>1. \A o \in Persistent : IsActive(o)
      <3> SUFFICES ASSUME NEW o \in Persistent PROVE IsActive(o)
        OBVIOUS
      <3>1. PICK i \in 1..Len(observerWeakList) : observerWeakList[i] = o
        BY DEF IInv, Lists, InList
      <3>2. QED
        BY <1>1, <1>2, <3>1 DEF IInv, Copying
    <2>2. 1 <= Len(activeObserversList) + 1
      BY Places
    <2>3. QED
      BY <1>1, <1>3, <2>1, <2>2 DEF Copying
  <1>8. Hearing'
    BY <1>1, <1>2, <1>3, <1>4 DEF IInv, Hearing
  <1>9. QED
    BY <1>5, <1>6, <1>7, <1>8 DEF IInv

(* The publisher calls the next observer. *)
LEMMA CallsStep == ASSUME IInv, NotifyCalls PROVE IInv'
  <1>1. PICK o \in Observers : o = activeObserversList[position] /\ position <= Len(activeObserversList)
    BY Places DEF NotifyCalls
  <1>2. /\ publisher = "call" /\ publisher' = "call" /\ position' = position + 1
        /\ received' = [received EXCEPT ![o] = Append(@, messageIndex)]
        /\ late' = IF o = temporary /\ Unsubscribed THEN late + 1 ELSE late
        /\ UNCHANGED <<modifier, subjectMutex, observerWeakList, owners, activeObserversList,
                       messageIndex>>
    BY <1>1 DEF NotifyCalls, subject
  <1>3. IsActive(o) /\ Pending(o)
    <2>1. position \in 1..Len(activeObserversList) /\ position \in position..Len(activeObserversList)
      BY <1>1, Places
    <2>2. QED
      BY <1>2, <1>1, <2>1 DEF IsActive, Pending
  <1>4. \A i \in 1..Len(activeObserversList) : activeObserversList[i] = o => i = position
    <2>1. position \in 1..Len(activeObserversList)
      BY <1>1, Places
    <2>2. QED
      BY <1>1, <2>1 DEF IInv, Lists
  <1>5. \A x : Called(x)' <=> Called(x) \/ x = o
    <2>1. \A i : i \in 1..(position + 1) - 1 <=> i \in 1..position - 1 \/ i = position
      BY Places
    <2>2. QED
      BY <1>2, <1>1, <2>1 DEF Called
  <1>6. ~Called(o)
    <2>1. \A i \in 1..position - 1 : i \in 1..Len(activeObserversList) /\ i # position
      BY <1>1, Places
    <2>2. QED
      BY <1>4, <2>1 DEF Called
  <1>7. ~Pending(o)' /\ \A x : Pending(x)' => Pending(x)
    <2>1. \A i \in position + 1..Len(activeObserversList) :
            /\ i \in 1..Len(activeObserversList) /\ i # position
            /\ i \in position..Len(activeObserversList)
      BY Places
    <2>2. QED
      BY <1>2, <1>4, <2>1 DEF Pending
  <1>8. \A x : InList(x)' = InList(x) /\ IsActive(x)' = IsActive(x)
    BY <1>2 DEF InList, IsActive
  <1>9. Owned' = Owned /\ Listens' = Listens /\ Unsubscribed' = Unsubscribed
    BY <1>2, <1>8 DEF Owned, Listens, Unsubscribed
  <1>10. /\ Due(o) = messageIndex - 1 /\ Due(o)' = messageIndex
         /\ \A x : x # o => Due(x)' = Due(x)
    BY <1>2, <1>5, <1>6 DEF Due
  <1>11. /\ \A x \in Observers : x # o => received'[x] = received[x]
         /\ received'[o] = Append(received[o], messageIndex)
    BY <1>2 DEF IInv, Types
  <1>12. /\ received'[o] \in Seq(Nat) /\ Len(received'[o]) = Len(received[o]) + 1
         /\ received'[o][Len(received[o]) + 1] = messageIndex
         /\ \A i \in 1..Len(received[o]) : received'[o][i] = received[o][i]
    BY <1>11, Places, AppendProperties
  <1>13. Types'
    <2>1. received' \in [Observers -> Seq(Nat)]
      BY <1>2, <1>11, <1>12 DEF IInv, Types
    <2>2. position + 1 \in Nat \ {0} /\ late' \in Nat
      BY <1>2, Places DEF IInv, Types
    <2>3. QED
      BY <1>2, <2>1, <2>2 DEF IInv, Types
  <1>14. Ownership' /\ Lists'
    BY <1>2, <1>8, <1>9 DEF IInv, Ownership, Lists
  <1>15. Copying'
    <2>1. position + 1 <= Len(activeObserversList) + 1
      BY <1>1, Places
    <2>2. QED
      BY <1>2, <1>8, <2>1 DEF IInv, Copying
  <1>16. Late'
    <2>1. CASE o = temporary /\ Unsubscribed
      <3>1. late = 0
        BY <1>3, <2>1 DEF IInv, Late
      <3>2. QED
        BY <1>2, <1>7, <1>9, <2>1, <3>1 DEF Late
    <2>2. CASE ~(o = temporary /\ Unsubscribed)
      BY <1>2, <1>7, <1>9, <2>2 DEF IInv, Late
    <2>3. QED
      BY <2>1, <2>2
  <1>17. Hearing'
    <2>1. \A x \in Persistent : /\ Len(received[x]) = Due(x)
                                /\ \A i \in 1..Len(received[x]) : received[x][i] = i
      BY DEF IInv, Hearing
    <2>2. \A x \in Persistent : /\ Len(received'[x]) = Due(x)'
                                /\ \A i \in 1..Len(received'[x]) : received'[x][i] = i
      <3> SUFFICES ASSUME NEW x \in Persistent
                   PROVE  /\ Len(received'[x]) = Due(x)'
                          /\ \A i \in 1..Len(received'[x]) : received'[x][i] = i
        OBVIOUS
      <3>1. CASE x # o
        BY <1>10, <1>11, <2>1, <3>1, Places
      <3>2. CASE x = o
        <4>1. Len(received[o]) = messageIndex - 1
          BY <1>10, <2>1, <3>2
        <4>2. \A i \in 1..Len(received[o]) + 1 : i \in 1..Len(received[o]) \/ i = messageIndex
          BY <4>1, Places
        <4>3. Len(received'[o]) = messageIndex /\ messageIndex = Len(received[o]) + 1
          BY <1>12, <4>1, Places
        <4>4. \A i \in 1..Len(received[o]) : received'[o][i] = i
          BY <1>12, <2>1, <3>2
        <4>5. \A i \in 1..messageIndex : received'[o][i] = i
          BY <1>12, <4>2, <4>3, <4>4
        <4>6. QED
          BY <1>10, <3>2, <4>3, <4>5
      <3>3. QED
        BY <3>1, <3>2
    <2>3. /\ \A i \in 2..Len(received[temporary]) : received[temporary][i] = received[temporary][i-1] + 1
          /\ modifier \in {"create", "subscribe"} => Len(received[temporary]) = 0
          /\ Len(received[temporary]) > 0 /\ (Listens \/ IsActive(temporary)) =>
               received[temporary][Len(received[temporary])] = Due(temporary)
          /\ Len(received[temporary]) > 0 /\ Listens => IsActive(temporary)
      BY <1>2 DEF IInv, Hearing
    <2>4. CASE o # temporary
      BY <1>2, <1>8, <1>9, <1>10, <1>11, <2>2, <2>3, <2>4, Places DEF Hearing
    <2>5. CASE o = temporary
      <3>1. \A i \in 2..Len(received[o]) + 1 : received'[o][i] = received'[o][i-1] + 1
        <4>1. \A i \in 2..Len(received[o]) : received'[o][i] = received'[o][i-1] + 1
          <5>1. \A i \in 2..Len(received[o]) : i \in 1..Len(received[o]) /\ i-1 \in 1..Len(received[o])
            BY Places
          <5>2. QED
            BY <1>12, <2>3, <2>5, <5>1
        <4>2. Len(received[o]) > 0 => received'[o][Len(received[o]) + 1] = received'[o][Len(received[o])] + 1
          <5>1. Len(received[o]) > 0 => Len(received[o]) \in 1..Len(received[o])
            BY Places
          <5>2. Len(received[o]) > 0 => received[o][Len(received[o])] = messageIndex - 1
            BY <1>3, <1>10, <2>3, <2>5
          <5>3. Len(received[o]) > 0 => received'[o][Len(received[o])] = messageIndex - 1
            BY <1>12, <5>1, <5>2
          <5>4. received'[o][Len(received[o]) + 1] = messageIndex /\ messageIndex = (messageIndex - 1) + 1
            BY <1>12, Places
          <5>5. QED
            BY <5>3, <5>4
        <4>3. \A i \in 2..Len(received[o]) + 1 :
                \/ i \in 2..Len(received[o])
                \/ i = Len(received[o]) + 1 /\ i - 1 = Len(received[o]) /\ Len(received[o]) > 0
          BY Places
        <4>4. QED
          BY <4>1, <4>2, <4>3
      <3>2. modifier \notin {"create", "subscribe"}
        BY <1>3, <2>5 DEF IInv, Lists
      <3>3. QED
        BY <1>2, <1>3, <1>8, <1>9, <1>10, <1>12, <2>2, <2>5, <3>1, <3>2 DEF Hearing
    <2>6. QED
      BY <2>4, <2>5
  <1>18. QED
    BY <1>13, <1>14, <1>15, <1>16, <1>17 DEF IInv

(* The publisher has called everyone and drops its pointers. *)
LEMMA ReleasesStep == ASSUME IInv, NotifyReleases PROVE IInv'
  <1>1. /\ publisher = "call" /\ position > Len(activeObserversList)
        /\ owners' = [o \in Observers |-> IF o \in ToSet(activeObserversList) THEN owners[o] - 1 ELSE owners[o]]
        /\ activeObserversList' = <<>> /\ Len(activeObserversList') = 0
        /\ publisher' = "sleep" /\ messageIndex' = messageIndex + 1
        /\ UNCHANGED <<modifier, subjectMutex, observerWeakList, position, received, late>>
    BY DEF NotifyReleases, Released, subject, history
  <1>2. position - 1 = Len(activeObserversList)
    BY <1>1, Places DEF IInv, Copying
  <1>3. \A x : /\ Called(x) <=> IsActive(x)
               /\ ~IsActive(x)' /\ ~Called(x)' /\ ~Pending(x)' /\ InList(x)' = InList(x)
               /\ x \in ToSet(activeObserversList) <=> IsActive(x)
    <2>1. DOMAIN activeObserversList = 1..Len(activeObserversList)
      BY DEF IInv, Types
    <2>2. QED
      BY <1>1, <1>2, <2>1 DEF InList, IsActive, Called, Pending, ToSet
  <1>4. \A x : Due(x)' = messageIndex /\ (IsActive(x) => Due(x) = messageIndex)
    BY <1>1, <1>3, Places DEF Due
  <1>5. Owned' = Owned /\ Listens' = Listens /\ Unsubscribed' = Unsubscribed
    BY <1>1, <1>3 DEF Owned, Listens, Unsubscribed
  <1>6. \A x \in Observers : /\ owners[x] \in Nat /\ owners'[x] = IF IsActive(x) THEN owners[x] - 1 ELSE owners[x]
                             /\ owners[x] = (IF x \in Persistent \/ Owned THEN 1 ELSE 0)
                                            + (IF IsActive(x) THEN 1 ELSE 0)
    BY <1>1, <1>3 DEF IInv, Types, Ownership
  <1>7. \A x \in Observers : owners'[x] = IF x \in Persistent \/ Owned THEN 1 ELSE 0
    BY <1>6
  <1>8. Types'
    <2>1. owners' \in [Observers -> Nat]
      BY <1>1, <1>7
    <2>2. messageIndex + 1 \in 1..Messages + 1
      BY <1>1, Places, ObserverAssumption DEF IInv, Types
    <2>3. activeObserversList' \in Seq(Observers)
      BY <1>1
    <2>4. QED
      BY <1>1, <2>1, <2>2, <2>3 DEF IInv, Types
  <1>9. Ownership'
    BY <1>3, <1>5, <1>7 DEF Ownership
  <1>10. Lists' /\ Copying' /\ Late'
    BY <1>1, <1>3, <1>5 DEF IInv, Lists, Copying, Late
  <1>11. Hearing'
    <2>1. \A o \in Persistent : IsActive(o)
      BY <1>1 DEF IInv, Copying
    <2>2. Len(received[temporary]) > 0 /\ Listens => IsActive(temporary)
      BY <1>1 DEF IInv, Hearing
    <2>3. QED
      BY <1>1, <1>3, <1>4, <1>5, <2>1, <2>2 DEF IInv, Hearing
  <1>12. QED
    BY <1>8, <1>9, <1>10, <1>11 DEF IInv

-----------------------------------------------------------------------------
(* What a step that leaves the publisher alone cannot change. *)
LEMMA PublisherUnchanged ==
  ASSUME UNCHANGED <<publisher, position, activeObserversList, messageIndex>>
  PROVE  \A x : /\ IsActive(x)' = IsActive(x) /\ Called(x)' = Called(x)
                /\ Pending(x)' = Pending(x) /\ Due(x)' = Due(x)
  BY DEF IsActive, Called, Pending, Due

(* The modifier makes its observer. *)
LEMMA CreatesStep == ASSUME IInv, Creates PROVE IInv'
  <1>1. /\ modifier = "create" /\ modifier' = "subscribe"
        /\ owners' = [owners EXCEPT ![temporary] = 1]
        /\ UNCHANGED <<publisher, subjectMutex, observerWeakList, position, activeObserversList,
                       messageIndex, received, late>>
    BY DEF Creates, subject, notify, history
  <1>2. \A x : /\ IsActive(x)' = IsActive(x) /\ Called(x)' = Called(x)
               /\ Pending(x)' = Pending(x) /\ Due(x)' = Due(x) /\ InList(x)' = InList(x)
    BY <1>1, PublisherUnchanged DEF InList
  <1>3. /\ Owned' /\ ~Owned /\ ~Unsubscribed /\ ~Unsubscribed' /\ ~IsActive(temporary)
        /\ ~InList(temporary) /\ ~Listens'
    BY <1>1, <1>2 DEF Owned, Unsubscribed, Listens, IInv, Lists
  <1>4. \A o \in Observers : owners'[o] = IF o = temporary THEN 1 ELSE owners[o]
    BY <1>1 DEF IInv, Types
  <1>5. Types'
    BY <1>1 DEF IInv, Types
  <1>6. Ownership'
    BY <1>2, <1>3, <1>4, Places DEF IInv, Ownership, Observers
  <1>7. Lists' /\ Copying'
    BY <1>1, <1>2, <1>3 DEF IInv, Lists, Copying
  <1>8. Late'
    BY <1>1, <1>3 DEF IInv, Late
  <1>9. Hearing'
    BY <1>1, <1>2, <1>3 DEF IInv, Hearing
  <1>10. QED
    BY <1>5, <1>6, <1>7, <1>8, <1>9 DEF IInv

(* The modifier subscribes its observer, at the end of the list. *)
LEMMA SubscribesStep == ASSUME IInv, Subscribes PROVE IInv'
  <1>1. /\ modifier = "subscribe" /\ modifier' \in {"unsubscribe", "abandon"}
        /\ subjectMutex = "free" /\ observerWeakList' = Append(observerWeakList, temporary)
        /\ UNCHANGED <<publisher, subjectMutex, owners, position, activeObserversList,
                       messageIndex, received, late>>
    BY DEF Subscribes, notify, history
  <1>2. publisher # "copy"
    BY <1>1 DEF IInv, Types
  <1>3. \A x : /\ IsActive(x)' = IsActive(x) /\ Called(x)' = Called(x)
               /\ Pending(x)' = Pending(x) /\ Due(x)' = Due(x)
    BY <1>1, PublisherUnchanged
  <1>4. /\ Owned' /\ Owned /\ ~Unsubscribed /\ ~Unsubscribed' /\ ~IsActive(temporary)
        /\ ~InList(temporary) /\ Len(received[temporary]) = 0
    BY <1>1 DEF Owned, Unsubscribed, IInv, Lists, Hearing
  <1>5. /\ observerWeakList' \in Seq(Observers)
        /\ Len(observerWeakList') = Len(observerWeakList) + 1
        /\ observerWeakList'[Len(observerWeakList) + 1] = temporary
        /\ \A i \in 1..Len(observerWeakList) : observerWeakList'[i] = observerWeakList[i]
    BY <1>1, Places, AppendProperties DEF IInv, Types
  <1>6. Types'
    BY <1>1, <1>5 DEF IInv, Types
  <1>7. Ownership' /\ Late'
    BY <1>1, <1>3, <1>4 DEF IInv, Ownership, Late
  <1>8. Lists'
    <2>1. \A i \in 1..Len(observerWeakList) + 1 :
            i \in 1..Len(observerWeakList) \/ i = Len(observerWeakList) + 1
      BY Places
    <2>2. \A i \in 1..Len(observerWeakList) : observerWeakList[i] # temporary
      BY <1>4 DEF InList
    <2>3. \A i, j \in 1..Len(observerWeakList) : observerWeakList[i] = observerWeakList[j] => i = j
      BY DEF IInv, Lists
    <2>4. \A i, j \in 1..Len(observerWeakList) + 1 :
            observerWeakList'[i] = observerWeakList'[j] => i = j
      BY <1>5, <2>1, <2>2, <2>3
    <2>5. \A o \in Persistent : InList(o)'
      <3> SUFFICES ASSUME NEW o \in Persistent PROVE InList(o)'
        OBVIOUS
      <3>1. PICK i \in 1..Len(observerWeakList) : observerWeakList[i] = o
        BY DEF IInv, Lists, InList
      <3>2. i \in 1..Len(observerWeakList') /\ observerWeakList'[i] = o
        BY <1>5, <3>1, Places
      <3>3. QED
        BY <3>2 DEF InList
    <2>6. QED
      BY <1>1, <1>3, <1>4, <1>5, <2>4, <2>5 DEF IInv, Lists
  <1>9. Copying'
    BY <1>1, <1>2, <1>3 DEF IInv, Copying
  <1>10. Hearing'
    BY <1>1, <1>3, <1>4, Places DEF IInv, Hearing
  <1>11. QED
    BY <1>6, <1>7, <1>8, <1>9, <1>10 DEF IInv

(* The modifier unsubscribes its observer: everybody else who lives stays in the list. *)
LEMMA ErasesStep == ASSUME IInv, UnsubscribeErases PROVE IInv'
  <1>1. /\ modifier = "unsubscribe" /\ modifier' = "drop" /\ subjectMutex = "free"
        /\ UNCHANGED <<publisher, subjectMutex, owners, position, activeObserversList,
                       messageIndex, received, late>>
    BY DEF UnsubscribeErases, notify, history
  <1>2. publisher # "copy"
    BY <1>1 DEF IInv, Types
  <1>3. \A x : /\ IsActive(x)' = IsActive(x) /\ Called(x)' = Called(x)
               /\ Pending(x)' = Pending(x) /\ Due(x)' = Due(x)
    BY <1>1, PublisherUnchanged
  <1>4. PICK n \in 0..Len(observerWeakList) : \E from \in [1..n -> Survivors] :
          /\ \A j, k \in 1..n : j < k => from[j] < from[k]
          /\ \A i \in Survivors : \E j \in 1..n : from[j] = i
          /\ observerWeakList' = [j \in 1..n |-> observerWeakList[from[j]]]
    BY DEF UnsubscribeErases
  <1>5. PICK from \in [1..n -> Survivors] :
          /\ \A j, k \in 1..n : j < k => from[j] < from[k]
          /\ \A i \in Survivors : \E j \in 1..n : from[j] = i
          /\ observerWeakList' = [j \in 1..n |-> observerWeakList[from[j]]]
    BY <1>4
  <1>6. n \in Nat /\ DOMAIN observerWeakList = 1..Len(observerWeakList)
    BY Places DEF IInv, Types
  <1>7. \A i \in Survivors : /\ i \in 1..Len(observerWeakList) /\ observerWeakList[i] \in Observers
                             /\ observerWeakList[i] # temporary
    BY <1>6, Places DEF Survivors, Kept
  <1>8. \A j \in 1..n : from[j] \in Survivors /\ observerWeakList'[j] = observerWeakList[from[j]]
    BY <1>5
  <1>9. observerWeakList' \in Seq(Observers) /\ Len(observerWeakList') = n
    <2>1. observerWeakList' \in [1..n -> Observers]
      BY <1>5, <1>7, <1>8
    <2>2. QED
      BY <1>6, <2>1, IsASeq, LenProperties
  <1>10. \A o \in Persistent : InList(o)'
    <2> SUFFICES ASSUME NEW o \in Persistent PROVE InList(o)'
      OBVIOUS
    <2>1. PICK i \in 1..Len(observerWeakList) : observerWeakList[i] = o
      BY DEF IInv, Lists, InList
    <2>2. Lives(o) /\ o # temporary
      BY Places DEF Lives, IInv, Ownership
    <2>3. i \in Survivors
      BY <1>6, <2>1, <2>2 DEF Survivors, Kept
    <2>4. PICK j \in 1..n : from[j] = i
      BY <1>5, <2>3
    <2>5. j \in 1..Len(observerWeakList') /\ observerWeakList'[j] = o
      BY <1>8, <1>9, <2>1, <2>4
    <2>6. QED
      BY <2>5 DEF InList
  <1>11. ~InList(temporary)'
    BY <1>7, <1>8, <1>9 DEF InList
  <1>12. \A j, k \in 1..n : observerWeakList'[j] = observerWeakList'[k] => j = k
    <2> SUFFICES ASSUME NEW j \in 1..n, NEW k \in 1..n, observerWeakList'[j] = observerWeakList'[k]
                 PROVE  j = k
      OBVIOUS
    <2>1. from[j] = from[k]
      BY <1>7, <1>8 DEF IInv, Lists
    <2>2. from[j] \in Nat /\ ~(from[j] < from[j])
      BY <1>7, <1>8, Places
    <2>3. ~(j < k) /\ ~(k < j)
      BY <1>5, <2>1, <2>2
    <2>4. QED
      BY <1>6, <2>3
  <1>13. Owned' /\ Owned /\ ~Unsubscribed /\ ~Listens'
    BY <1>1, <1>11 DEF Owned, Unsubscribed, Listens
  <1>14. Types'
    BY <1>1, <1>9 DEF IInv, Types
  <1>15. Ownership' /\ Late'
    BY <1>1, <1>3, <1>13 DEF IInv, Ownership, Late
  <1>16. Lists'
    BY <1>1, <1>3, <1>9, <1>10, <1>11, <1>12 DEF IInv, Lists
  <1>17. Copying'
    BY <1>1, <1>2, <1>3 DEF IInv, Copying
  <1>18. Hearing'
    BY <1>1, <1>3, <1>13 DEF IInv, Hearing
  <1>19. QED
    BY <1>14, <1>15, <1>16, <1>17, <1>18 DEF IInv

(* The modifier's pointer goes out of scope. *)
LEMMA DropsStep == ASSUME IInv, Drops PROVE IInv'
  <1>1. /\ \/ modifier = "drop" /\ modifier' = "done"
           \/ modifier = "abandon" /\ modifier' = "gone"
        /\ owners' = [owners EXCEPT ![temporary] = @ - 1]
        /\ UNCHANGED <<publisher, subjectMutex, observerWeakList, position, activeObserversList,
                       messageIndex, received, late>>
    BY DEF Drops, subject, notify, history
  <1>2. \A x : /\ IsActive(x)' = IsActive(x) /\ Called(x)' = Called(x)
               /\ Pending(x)' = Pending(x) /\ Due(x)' = Due(x) /\ InList(x)' = InList(x)
    BY <1>1, PublisherUnchanged DEF InList
  <1>3. Owned /\ ~Owned' /\ Unsubscribed' = Unsubscribed /\ ~Listens'
    BY <1>1 DEF Owned, Unsubscribed, Listens
  <1>4. \A o \in Observers : /\ owners[o] \in Nat
                             /\ owners'[o] = IF o = temporary THEN owners[o] - 1 ELSE owners[o]
                             /\ owners[o] = 1 + (IF IsActive(o) THEN 1 ELSE 0)
    BY <1>1, <1>3 DEF IInv, Types, Ownership
  <1>5. \A o \in Observers :
          owners'[o] = (IF o \in Persistent THEN 1 ELSE 0) + (IF IsActive(o) THEN 1 ELSE 0)
    BY <1>4, Places DEF Observers
  <1>6. Types'
    <2>1. owners' \in [Observers -> Nat]
      <3>1. DOMAIN owners' = Observers /\ owners' = [o \in Observers |-> owners'[o]]
        BY <1>1 DEF IInv, Types
      <3>2. \A o \in Observers : owners'[o] \in Nat
        BY <1>5
      <3>3. QED
        BY <3>1, <3>2
    <2>2. QED
      BY <1>1, <2>1 DEF IInv, Types
  <1>7. Ownership'
    BY <1>2, <1>3, <1>5 DEF Ownership
  <1>8. Lists' /\ Copying'
    BY <1>1, <1>2 DEF IInv, Lists, Copying
  <1>9. Late'
    BY <1>1, <1>2, <1>3 DEF IInv, Late
  <1>10. Hearing'
    BY <1>1, <1>2, <1>3 DEF IInv, Hearing
  <1>11. QED
    BY <1>6, <1>7, <1>8, <1>9, <1>10 DEF IInv

(* Every step preserves the inductive invariant. *)
LEMMA StepInv == IInv /\ [Next]_vars => IInv'
  <1> SUFFICES ASSUME IInv, [Next]_vars PROVE IInv'
    OBVIOUS
  <1>1. CASE NotifyLocks
    BY <1>1, LocksStep
  <1>2. CASE NotifyCopies
    BY <1>2, SharesStep, PassesStep
  <1>3. CASE NotifyUnlocks
    BY <1>3, UnlocksStep
  <1>4. CASE NotifyCalls
    BY <1>4, CallsStep
  <1>5. CASE NotifyReleases
    BY <1>5, ReleasesStep
  <1>6. CASE Creates
    BY <1>6, CreatesStep
  <1>7. CASE Subscribes
    BY <1>7, SubscribesStep
  <1>8. CASE UnsubscribeErases
    BY <1>8, ErasesStep
  <1>9. CASE Drops
    BY <1>9, DropsStep
  <1>10. CASE Ended \/ UNCHANGED vars
    <2>1. UNCHANGED <<publisher, modifier, subjectMutex, observerWeakList, owners, position,
                      activeObserversList, messageIndex, received, late>>
      BY <1>10 DEF Ended, vars, subject, notify, history
    <2>2. /\ \A x : /\ IsActive(x)' = IsActive(x) /\ Called(x)' = Called(x)
                    /\ Pending(x)' = Pending(x) /\ Due(x)' = Due(x) /\ InList(x)' = InList(x)
          /\ Owned' = Owned /\ Unsubscribed' = Unsubscribed /\ Listens' = Listens
      BY <2>1, PublisherUnchanged DEF InList, Owned, Unsubscribed, Listens
    <2>3. Types' /\ Ownership' /\ Lists'
      BY <2>1, <2>2 DEF IInv, Types, Ownership, Lists
    <2>4. Copying' /\ Late' /\ Hearing'
      BY <2>1, <2>2 DEF IInv, Copying, Late, Hearing
    <2>5. QED
      BY <2>3, <2>4 DEF IInv
  <1>11. QED
    BY <1>1, <1>2, <1>3, <1>4, <1>5, <1>6, <1>7, <1>8, <1>9, <1>10 DEF Next, Publisher, Modifier

-----------------------------------------------------------------------------
(* The inductive invariant always holds. *)
THEOREM Invariance == Spec => []IInv
  BY InitInv, StepInv, PTL DEF Spec

(* Whoever is about to be called lives: the pointers copied under the mutex keep it alive
   after its owner dropped it, and nothing keeps it alive once the threads have ended. *)
THEOREM NobodyDangles == Spec => []NoDanglingCall
  <1>1. IInv => NoDanglingCall
    <2> SUFFICES ASSUME IInv PROVE NoDanglingCall
      OBVIOUS
    <2>1. ASSUME publisher = "call", NEW i \in position..Len(activeObserversList)
          PROVE  Lives(activeObserversList[i])
      <3>1. i \in 1..Len(activeObserversList)
        BY Places
      <3>2. activeObserversList[i] \in Observers /\ IsActive(activeObserversList[i])
        BY <3>1, Places
      <3>3. owners[activeObserversList[i]] >= 1
        BY <3>2 DEF IInv, Ownership
      <3>4. owners[activeObserversList[i]] \in Nat
        BY <3>2 DEF IInv, Types
      <3>5. QED
        BY <3>3, <3>4 DEF Lives
    <2>2. ASSUME AllJoined PROVE ~Lives(temporary)
      <3>1. publisher = "sleep" /\ ~Owned
        BY <2>2 DEF AllJoined, Owned
      <3>2. ~IsActive(temporary)
        BY <3>1 DEF IInv, Copying, IsActive
      <3>3. owners[temporary] = 0
        BY <3>1, <3>2, Places DEF IInv, Ownership
      <3>4. QED
        BY <3>3 DEF Lives
    <2>3. QED
      BY <2>1, <2>2 DEF NoDanglingCall
  <1>2. QED
    BY <1>1, Invariance, PTL

(* After unsubscribeObserver has returned its observer is called at most once more. *)
THEOREM OneCallIsLate == Spec => []AtMostOneLate
  <1>1. IInv => AtMostOneLate
    BY DEF IInv, Late, AtMostOneLate
  <1>2. QED
    BY <1>1, Invariance, PTL

(* However subscribing, unsubscribing and expiring come between the messages, the observers of
   main() hear each of them, in order, and the temporary one misses none between two it hears. *)
THEOREM EverybodyHears == Spec => []SubscribersHearAll
  <1>1. IInv => SubscribersHearAll
    <2> SUFFICES ASSUME IInv PROVE SubscribersHearAll
      OBVIOUS
    <2>1. ASSUME AllJoined, NEW o \in Persistent PROVE received[o] = [i \in 1..Messages |-> i]
      <3>1. Due(o) = Messages
        BY <2>1, ObserverAssumption DEF AllJoined, Due, Called, IInv, Types
      <3>2. received[o] \in Seq(Nat) /\ Len(received[o]) = Messages
        BY <3>1, Places DEF IInv, Hearing
      <3>3. \A i \in 1..Messages : received[o][i] = i
        BY <3>2 DEF IInv, Hearing
      <3>4. received[o] = [i \in 1..Messages |-> received[o][i]]
        BY <3>2, LenProperties
      <3>5. QED
        BY <3>3, <3>4
    <2>2. QED
      BY <2>1 DEF SubscribersHearAll, IInv, Hearing
  <1>2. QED
    BY <1>1, Invariance, PTL
=================================================================================
