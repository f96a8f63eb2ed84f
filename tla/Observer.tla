------------------------------- MODULE Observer -------------------------------
(* thread_safe_observer: a Subject that keeps weak pointers to its observers.  To notify
   it copies those that still live under its mutex, and calls them after it released it.
   A publisher thread notifies while a modifier thread subscribes an observer of its own,
   unsubscribes it and drops it.  A shared pointer is counted, each copy and each drop. *)
EXTENDS Naturals, Sequences, FiniteSets, SequencesExt

CONSTANTS Persistent,     \* the observers main() subscribes before it starts the threads
          temporary,      \* the observer of the modifier thread
          Messages,       \* how many messages the publisher sends
          Unsubscribes    \* {TRUE}: the modifier unsubscribes before it drops its observer;
                          \* FALSE too: a client that relies on the weak pointer expiring

Observers == Persistent \cup {temporary}

ASSUME ObserverAssumption ==
  /\ IsFiniteSet(Persistent) /\ temporary \notin Persistent
  /\ Messages \in Nat /\ Unsubscribes \subseteq BOOLEAN

VARIABLES publisher, modifier,   \* where the two threads are
          subjectMutex,          \* its owner, or "free"
          observerWeakList,
          owners,                \* the number of shared pointers to each observer
          position,              \* of the publisher in the list it goes through
          activeObserversList,
          messageIndex,
          received,              \* history: the messages each observer got
          late                   \* history: messages the temporary one got after
                                 \* unsubscribeObserver had returned

subject == <<subjectMutex, observerWeakList>>
notify  == <<position, activeObserversList, messageIndex>>
history == <<received, late>>
vars == <<publisher, modifier, subject, owners, notify, history>>

Init == /\ publisher = "sleep" /\ modifier = "create"
        /\ subjectMutex = "free"
        /\ observerWeakList \in {l \in [1..Cardinality(Persistent) -> Persistent] : ToSet(l) = Persistent}
        /\ owners = [o \in Observers |-> IF o \in Persistent THEN 1 ELSE 0]
        /\ position = 1 /\ activeObserversList = <<>> /\ messageIndex = 1
        /\ received = [o \in Observers |-> <<>>] /\ late = 0

-----------------------------------------------------------------------------
Lives(o) == owners[o] > 0

Lock(thread) == subjectMutex = "free" /\ subjectMutex' = thread

(* notifyObservers, called by the publisher *)

NotifyLocks ==
  /\ publisher = "sleep" /\ messageIndex <= Messages /\ publisher' = "copy"
  /\ Lock("publisher")
  /\ position' = 1
  /\ UNCHANGED <<modifier, observerWeakList, owners, activeObserversList, messageIndex, history>>

SharedWithBug(o) == owners   \* mutant: a raw pointer is copied
SharedWith(o) == [owners EXCEPT ![o] = @ + 1]

\* weak_ptr::lock on the next element: a new owner, or nothing when it has expired.
NotifyCopies ==
  /\ publisher = "copy" /\ position <= Len(observerWeakList)
  /\ LET o == observerWeakList[position] IN
     IF Lives(o)
     THEN activeObserversList' = Append(activeObserversList, o) /\ owners' = SharedWith(o)
     ELSE UNCHANGED <<activeObserversList, owners>>
  /\ position' = position + 1
  /\ UNCHANGED <<publisher, modifier, subject, messageIndex, history>>

NotifyUnlocks ==
  /\ publisher = "copy" /\ position > Len(observerWeakList)
  /\ publisher' = "call"
  /\ subjectMutex' = "free" /\ position' = 1
  /\ UNCHANGED <<modifier, observerWeakList, owners, activeObserversList, messageIndex, history>>

\* unsubscribeObserver has returned.
Unsubscribed == modifier \in {"drop", "done"}

\* onEvent, outside the mutex.
NotifyCalls ==
  /\ publisher = "call" /\ position <= Len(activeObserversList)
  /\ LET o == activeObserversList[position] IN
     /\ received' = [received EXCEPT ![o] = Append(@, messageIndex)]
     /\ late' = IF o = temporary /\ Unsubscribed THEN late + 1 ELSE late
  /\ position' = position + 1
  /\ UNCHANGED <<publisher, modifier, subject, owners, activeObserversList, messageIndex>>

ReleasedBug == <<>>   \* mutant: a shared pointer is kept
Released == activeObserversList

\* The local list is destroyed, one pointer after the other, and notifyObservers returns.
NotifyReleases ==
  /\ publisher = "call" /\ position > Len(activeObserversList)
  /\ owners' = [o \in Observers |-> IF o \in ToSet(Released) THEN owners[o] - 1 ELSE owners[o]]
  /\ activeObserversList' = <<>>
  /\ publisher' = "sleep" /\ messageIndex' = messageIndex + 1
  /\ UNCHANGED <<modifier, subject, position, history>>

-----------------------------------------------------------------------------
(* The modifier thread: make_shared, subscribeObserver, unsubscribeObserver, end of scope *)

Creates ==
  /\ modifier = "create" /\ modifier' = "subscribe"
  /\ owners' = [owners EXCEPT ![temporary] = 1]
  /\ UNCHANGED <<publisher, subject, notify, history>>

\* A critical section of one step; it needs the mutex, and leaves it free.
Subscribes ==
  /\ modifier = "subscribe"
  /\ modifier' \in {IF b THEN "unsubscribe" ELSE "abandon" : b \in Unsubscribes}
  /\ subjectMutex = "free"
  /\ observerWeakList' = Append(observerWeakList, temporary)
  /\ UNCHANGED <<publisher, subjectMutex, owners, notify, history>>

KeptBug(o) == Lives(o)          \* mutant: only the expired are erased
KeptInverted(o) == o = temporary   \* mutant: the predicate of remove_if inverted
Kept(o) == Lives(o) /\ o # temporary

Survivors == {i \in DOMAIN observerWeakList : Kept(observerWeakList[i])}

\* erase and remove_if leave the elements at the places from[1] < from[2] < ..., all survivors.
UnsubscribeErases ==
  /\ modifier = "unsubscribe" /\ modifier' = "drop"
  /\ subjectMutex = "free"
  /\ \E n \in 0..Len(observerWeakList) : \E from \in [1..n -> Survivors] :
       /\ \A j, k \in 1..n : j < k => from[j] < from[k]
       /\ \A i \in Survivors : \E j \in 1..n : from[j] = i
       /\ observerWeakList' = [j \in 1..n |-> observerWeakList[from[j]]]
  /\ UNCHANGED <<publisher, subjectMutex, owners, notify, history>>

Drops ==
  /\ \/ modifier = "drop" /\ modifier' = "done"
     \/ modifier = "abandon" /\ modifier' = "gone"
  /\ owners' = [owners EXCEPT ![temporary] = @ - 1]
  /\ UNCHANGED <<publisher, subject, notify, history>>

AllJoined == publisher = "sleep" /\ messageIndex > Messages /\ modifier \in {"done", "gone"}

Ended == AllJoined /\ UNCHANGED vars

Publisher == NotifyLocks \/ NotifyCopies \/ NotifyUnlocks \/ NotifyCalls \/ NotifyReleases

Modifier == Creates \/ Subscribes \/ UnsubscribeErases \/ Drops

Next == Publisher \/ Modifier \/ Ended

Spec == Init /\ [][Next]_vars

-----------------------------------------------------------------------------
\* "osservatori deallocati (dangling pointers)": an observer that is about to be called
\* lives, although its owner may drop it at any time; and nothing keeps it alive afterwards.
NoDanglingCall ==
  /\ publisher = "call" => \A i \in position..Len(activeObserversList) : Lives(activeObserversList[i])
  /\ AllJoined => ~Lives(temporary)

\* Since the callbacks are made without the mutex an observer can be called after
\* unsubscribeObserver has returned, but for one message only: the one under way.
AtMostOneLate == late <= 1

\* Whatever the modifier does, the other observers get every message, once and in order;
\* and the temporary one gets a gapless run of them.
SubscribersHearAll ==
  /\ AllJoined => \A o \in Persistent : received[o] = [i \in 1..Messages |-> i]
  /\ \A i \in 2..Len(received[temporary]) : received[temporary][i] = received[temporary][i-1] + 1
=============================================================================
