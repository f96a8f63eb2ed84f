----------------------------- MODULE LockFreeQueue -----------------------------
(* lock_free_queue: the Michael and Scott queue, with nodes that pop deletes at once.
   Every atomic load, compare-exchange, read of a node and delete is a step.  Memory
   keeps its content when it is freed: a thread that still follows a pointer to it
   reads what was there, or what a later push wrote there. *)
EXTENDS Naturals, Sequences, FiniteSets, SequencesExt

CONSTANTS Scenarios,    \* what may run: [pairs, items, reuse, failures]
          MaxPairs,     \* the largest number of producers, and of consumers
          Addresses,    \* where nodes may be allocated
          Null

Producers == {"producer"} \X (1..MaxPairs)
Consumers == {"consumer"} \X (1..MaxPairs)
Threads   == Producers \cup Consumers

ASSUME LockFreeQueueAssumption ==
  /\ MaxPairs \in Nat /\ Null \notin Addresses
  /\ Addresses # {}
  /\ Scenarios \subseteq [pairs : 1..MaxPairs, items : Nat, reuse : BOOLEAN, failures : Nat]

VARIABLES scenario,     \* pairs of threads, items of each, are addresses reused, and
                        \* how often compare_exchange_weak may fail without a reason
          pc, count,    \* where each thread is, and how many operations it completed
          head, tail,   \* head_ and tail_
          node,         \* next_ and data_ of the node at each address
          live, used,   \* the addresses of the nodes that exist, and that ever did
          local,        \* the local variables of push and pop, for each thread
          pushed,       \* history: the values in the order their nodes were linked
          popped,       \* history: the values in the order pop returned them
          badAccess,    \* history: a pointer to no live node was followed
          spurious      \* how often it did

memory  == <<node, live, used>>
history == <<pushed, popped>>
vars == <<scenario, pc, count, head, tail, memory, local, history, badAccess, spurious>>

PCs == {"new", "loadHead", "loadTail", "loadNext", "checkTail", "link", "swing", "checkHead",
        "empty", "read", "advance", "delete", "help", "done"}

\* main()'s loops: the next call, or the end of the thread.
Call(t, n, s) == IF n = s.items THEN "done" ELSE IF t \in Producers THEN "new" ELSE "loadHead"

\* The constructor makes one dummy node.
Init == /\ scenario \in Scenarios
        /\ count = [t \in Threads |-> 0]
        /\ pc = [t \in Threads |-> IF t[2] > scenario.pairs THEN "done" ELSE Call(t, 0, scenario)]
        /\ head = CHOOSE a \in Addresses : TRUE
        /\ tail = head /\ live = {head} /\ used = {head}
        /\ node = [a \in Addresses |-> [next |-> Null, data |-> Null]]
        /\ local = [t \in Threads |-> [head |-> Null, tail |-> Null, next |-> Null, new |-> Null,
                                       data |-> Null, sawEmpty |-> FALSE]]
        /\ pushed = <<>> /\ popped = <<>>
        /\ badAccess = FALSE /\ spurious = 0

-----------------------------------------------------------------------------
Goto(t, from, to) == pc[t] = from /\ pc' = [pc EXCEPT ![t] = to]

Again(t) == IF t \in Producers THEN "loadTail" ELSE "loadHead"   \* while (true)

\* The call returns true, and its thread makes the next.
Completes(t, from) == /\ Goto(t, from, Call(t, count[t] + 1, scenario))
                      /\ count' = [count EXCEPT ![t] = @ + 1]

\* To follow a pointer to where no node lives is undefined behaviour.
Follows(a) == badAccess' = (badAccess \/ a \notin live)

At(a) == IF a = Null THEN [next |-> Null, data |-> Null] ELSE node[a]

SwingTailBug(expected, new) == UNCHANGED tail   \* mutant: tail_ is left behind

\* A compare-exchange of tail_ whose result is not looked at.
SwingTail(expected, new) == tail' = IF tail = expected THEN new ELSE tail

LoadTail(t) ==
  /\ Goto(t, "loadTail", "loadNext")
  /\ local' = [local EXCEPT ![t].tail = tail]
  /\ UNCHANGED <<scenario, count, head, tail, memory, history, badAccess, spurious>>

\* The thread sees that tail_ lags behind, and advances it for whoever linked the node.
Help(t) ==
  /\ Goto(t, "help", Again(t))
  /\ SwingTail(local[t].tail, local[t].next)
  /\ UNCHANGED <<scenario, count, head, memory, local, history, badAccess, spurious>>

-----------------------------------------------------------------------------
(* push *)

\* Memory is not exhausted.
Free == Addresses \ IF scenario.reuse THEN live ELSE used

Allocate(p) ==
  /\ Goto(p, "new", "loadTail")
  /\ Free # {}
  /\ \E a \in IF scenario.reuse THEN Free ELSE {CHOOSE b \in Free : TRUE} :
       /\ local' = [local EXCEPT ![p].new = a]
       /\ node' = [node EXCEPT ![a] = [next |-> Null, data |-> <<p[2], count[p]>>]]
       /\ live' = live \cup {a} /\ used' = used \cup {a}
  /\ UNCHANGED <<scenario, count, head, tail, history, badAccess, spurious>>

LoadTailNext(p) ==
  /\ p \in Producers
  /\ Goto(p, "loadNext", "checkTail")
  /\ local' = [local EXCEPT ![p].next = At(local[p].tail).next]
  /\ Follows(local[p].tail)
  /\ UNCHANGED <<scenario, count, head, tail, memory, history, spurious>>

CheckTail(p) ==
  /\ Goto(p, "checkTail", IF local[p].tail # tail THEN "loadTail"
                          ELSE IF local[p].next = Null THEN "link" ELSE "help")
  /\ UNCHANGED <<scenario, count, head, tail, memory, local, history, badAccess, spurious>>

LinksHereBug(p) == TRUE   \* mutant: a store instead of a compare-exchange
LinksHere(p) == At(local[p].tail).next = Null

\* The compare-exchange of next_: it succeeds, and links the node, or somebody was faster.
Link(p) ==
  /\ Follows(local[p].tail)
  /\ \/ /\ LinksHere(p)
        /\ Goto(p, "link", "swing")
        /\ node' = [node EXCEPT ![local[p].tail].next = local[p].new]
        /\ pushed' = Append(pushed, <<p[2], count[p]>>)
     \/ /\ ~LinksHere(p)
        /\ Goto(p, "link", "loadTail")
        /\ UNCHANGED <<node, pushed>>
  /\ UNCHANGED <<scenario, count, head, tail, live, used, local, popped, spurious>>

Swing(p) ==
  /\ Completes(p, "swing")
  /\ SwingTail(local[p].tail, local[p].new)
  /\ UNCHANGED <<scenario, head, memory, local, history, badAccess, spurious>>

-----------------------------------------------------------------------------
(* pop *)

LoadHead(c) ==
  /\ Goto(c, "loadHead", "loadTail")
  /\ local' = [local EXCEPT ![c].head = head]
  /\ UNCHANGED <<scenario, count, head, tail, memory, history, badAccess, spurious>>

\* sawEmpty is history: was the queue empty at this moment?
LoadHeadNext(c) ==
  /\ c \in Consumers
  /\ Goto(c, "loadNext", "checkHead")
  /\ local' = [local EXCEPT ![c].next = At(local[c].head).next,
                            ![c].sawEmpty = Len(pushed) = Len(popped)]
  /\ Follows(local[c].head)
  /\ UNCHANGED <<scenario, count, head, tail, memory, history, spurious>>

AnswersEmptyBug(c) == local[c].head = local[c].tail   \* mutant: next is not looked at
AnswersEmpty(c) == local[c].head = local[c].tail /\ local[c].next = Null

CheckHead(c) ==
  /\ Goto(c, "checkHead", IF local[c].head # head THEN "loadHead"
                          ELSE IF AnswersEmpty(c) THEN "empty"
                          ELSE IF local[c].head = local[c].tail THEN "help" ELSE "read")
  /\ UNCHANGED <<scenario, count, head, tail, memory, local, history, badAccess, spurious>>

\* pop returns false, and the consumer yields and calls it again.
ReturnsEmpty(c) ==
  /\ Goto(c, "empty", "loadHead")
  /\ UNCHANGED <<scenario, count, head, tail, memory, local, history, badAccess, spurious>>

ReadData(c) ==
  /\ Goto(c, "read", "advance")
  /\ local' = [local EXCEPT ![c].data = At(local[c].next).data]
  /\ Follows(local[c].next)
  /\ UNCHANGED <<scenario, count, head, tail, memory, history, spurious>>

Advances(c) == head = local[c].head

\* The compare-exchange of head_: the value read before is this thread's, or it is not.
Advance(c) ==
  /\ \/ /\ Advances(c)
        /\ Goto(c, "advance", "delete")
        /\ head' = local[c].next
        /\ popped' = Append(popped, local[c].data)
     \/ /\ ~Advances(c)
        /\ Goto(c, "advance", "loadHead")
        /\ UNCHANGED <<head, popped>>
  /\ UNCHANGED <<scenario, count, tail, memory, local, pushed, badAccess, spurious>>

DeletedBug(c) == local[c].next   \* mutant: the new dummy node is deleted
Deleted(c) == local[c].head

\* delete, of a node nobody must have deleted before.
Delete(c) ==
  /\ Completes(c, "delete")
  /\ Follows(Deleted(c))
  /\ live' = live \ {Deleted(c)}
  /\ UNCHANGED <<scenario, head, tail, node, used, local, history, spurious>>

-----------------------------------------------------------------------------
\* compare_exchange_weak may fail although the values agree.
FailsSpuriously(t) ==
  /\ spurious < scenario.failures /\ spurious' = spurious + 1
  /\ \/ pc[t] \in {"link", "advance", "help"} /\ Goto(t, pc[t], Again(t)) /\ UNCHANGED count
     \/ Completes(t, "swing")
  /\ UNCHANGED <<scenario, head, tail, memory, local, history, badAccess>>

AllDone == \A t \in Threads : pc[t] = "done"

\* ~LockFreeQueue, after every thread was joined: one node per iteration.
Destroy ==
  /\ AllDone /\ head # Null
  /\ head' = At(head).next
  /\ live' = live \ {head}
  /\ Follows(head)
  /\ UNCHANGED <<scenario, pc, count, tail, node, used, local, history, spurious>>

Ended == AllDone /\ head = Null /\ UNCHANGED vars

Push(p) == Allocate(p) \/ LoadTail(p) \/ LoadTailNext(p) \/ CheckTail(p) \/ Help(p) \/ Link(p) \/ Swing(p)

Pop(c) == LoadHead(c) \/ LoadTail(c) \/ LoadHeadNext(c) \/ CheckHead(c) \/ ReturnsEmpty(c)
          \/ Help(c) \/ ReadData(c) \/ Advance(c) \/ Delete(c)

Next == \/ \E p \in Producers : Push(p)
        \/ \E c \in Consumers : Pop(c)
        \/ \E t \in Threads : FailsSpuriously(t)
        \/ Destroy
        \/ Ended

Spec == Init /\ [][Next]_vars

\* Every thread runs; compare_exchange_weak need not fail.
FairSpec == /\ Spec /\ WF_vars(Destroy)
            /\ \A p \in Producers : WF_vars(Push(p))
            /\ \A c \in Consumers : WF_vars(Pop(c))

-----------------------------------------------------------------------------
(* Type invariant. *)
Pointers == Addresses \cup {Null}
Values   == (1..MaxPairs) \X Nat
Locals   == [head : Pointers, tail : Pointers, next : Pointers, new : Pointers,
             data : Values \cup {Null}, sawEmpty : BOOLEAN]

TypeOK == /\ scenario \in Scenarios
          /\ pc \in [Threads -> PCs] /\ count \in [Threads -> Nat]
          /\ head \in Pointers /\ tail \in Addresses
          /\ node \in [Addresses -> [next : Pointers, data : Values \cup {Null}]]
          /\ live \subseteq used /\ used \subseteq Addresses
          /\ local \in [Threads -> Locals]
          /\ pushed \in Seq(Values) /\ popped \in Seq(Values \cup {Null})
          /\ badAccess \in BOOLEAN /\ spurious \in Nat

\* Values leave in the order in which their nodes were linked, each once, whoever pushes
\* and pops; no value is lost or made up.
FIFO == IsPrefix(popped, pushed)

\* "false" is a true answer: at some moment of that call of pop the queue was empty.
EmptyWasEmpty == \A c \in Consumers : pc[c] = "empty" => local[c].sawEmpty

\* With one producer and one consumer, and a compare-exchange that fails only for a reason
\* (as on x86), no thread follows a pointer to a deleted node or deletes one twice, even
\* when new returns the addresses of deleted nodes; the destructor leaves no node behind.
OneByOneIsMemorySafe ==
  scenario.pairs = 1 /\ scenario.failures = 0 => ~badAccess /\ (head = Null => live = {})

\* "per garantire thread-safety" (lock_free_queue/main.cpp:8): for any number of threads
\* no pointer to a deleted node is followed.
NoUseAfterFree == ~badAccess

\* "progresso concorrente": all values are delivered, and every thread comes to its end.
AllDelivered == <>(AllDone /\ popped = pushed /\ Len(popped) = scenario.pairs * scenario.items)
=============================================================================
