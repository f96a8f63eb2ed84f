-------------------------- MODULE LockFreeQueueProofs --------------------------
(* The queue is first in, first out and truthful when it says "empty", for any number of
   producers, consumers, items and spurious failures, as long as no address is reused; for
   one producer and one consumer also if it is, and no deleted node is touched then. *)
EXTENDS LockFreeQueue, SequenceTheorems, TLAPS

-----------------------------------------------------------------------------
\* Each thread is somewhere in its own code.
ProducerPCs == {"new", "loadTail", "loadNext", "checkTail", "link", "swing", "help", "done"}
ConsumerPCs == {"loadHead", "loadTail", "loadNext", "checkHead", "empty", "read", "advance",
                "delete", "help", "done"}

Control ==
  /\ \A p \in Producers : pc[p] \in ProducerPCs
  /\ \A c \in Consumers : pc[c] \in ConsumerPCs
  /\ \A t \in Threads : pc[t] = "help" => local[t].next # Null
  /\ \A p \in Producers : pc[p] \notin {"new", "done"} => local[p].new # Null

\* The nodes that were ever linked, in the order in which they were: the first is the dummy
\* of the constructor, and each of the others holds the value that was pushed with it.
Linked(chain) ==
  /\ Len(chain) = Len(pushed) + 1
  /\ \A i, j \in 1..Len(chain) : chain[i] = chain[j] => i = j
  /\ \A i \in 1..Len(chain) : chain[i] \in used
  /\ \A i \in 1..Len(pushed) : /\ node[chain[i]].next = chain[i + 1]
                               /\ node[chain[i + 1]].data = pushed[i]
  /\ node[chain[Len(chain)]].next = Null

\* head_ is the node of the last value popped, until the destructor is at work.
HeadAt(chain) ==
  /\ Len(popped) <= Len(pushed)
  /\ \A i \in 1..Len(popped) : popped[i] = pushed[i]
  /\ AllDone \/ head = chain[Len(popped) + 1]

\* tail_ is at node i of the chain or behind it.
TailFrom(chain, i) == \E k \in 1..Len(chain) : i <= k /\ tail = chain[k]

\* Where a producer has a node that it did not link yet.
Unlinked == {"loadTail", "loadNext", "checkTail", "link", "help"}

\* The node a producer is about to link is its own, and complete.
NewNode(chain, p) ==
  pc[p] \in Unlinked =>
    /\ local[p].new \in used /\ \A i \in 1..Len(chain) : chain[i] # local[p].new
    /\ node[local[p].new] = [next |-> Null, data |-> <<p[2], count[p]>>]
    /\ \A q \in Producers : q # p /\ pc[q] \in Unlinked => local[q].new # local[p].new

\* What a producer knows: its currentTail was linked, and its currentNext, if any, is the next.
Pushes(chain, p) ==
  /\ pc[p] \in {"loadNext", "checkTail", "link"} => \E k \in 1..Len(chain) : local[p].tail = chain[k]
  /\ pc[p] = "checkTail" /\ local[p].next # Null =>
       \E k \in 1..Len(pushed) : local[p].tail = chain[k] /\ local[p].next = chain[k + 1]
  /\ pc[p] = "swing" =>
       \E k \in 1..Len(pushed) : local[p].tail = chain[k] /\ local[p].new = chain[k + 1]

\* Who helps moves tail_ to the node after the one it saw it at.
Helps(chain, t) ==
  pc[t] = "help" =>
    \E k \in 1..Len(pushed) : local[t].tail = chain[k] /\ local[t].next = chain[k + 1]

\* What a consumer knows: its currentHead was head_ and is not behind its currentTail; its
\* currentNext is the next node, and there is none only if the queue was empty then.
Pops(chain, c) ==
  /\ pc[c] = "loadTail" => \E i \in 1..Len(popped) + 1 : local[c].head = chain[i]
  /\ pc[c] \in {"loadNext", "checkHead"} =>
       \E i \in 1..Len(popped) + 1 : \E j \in i..Len(chain) :
         /\ local[c].head = chain[i] /\ local[c].tail = chain[j] /\ TailFrom(chain, j)
         /\ pc[c] = "checkHead" => IF local[c].next = Null THEN local[c].sawEmpty /\ i = j
                                   ELSE i <= Len(pushed) /\ local[c].next = chain[i + 1]
  /\ pc[c] = "empty" => local[c].sawEmpty
  /\ pc[c] \in {"read", "advance"} =>
       \E i \in 1..Len(pushed) :
         /\ local[c].head = chain[i] /\ local[c].next = chain[i + 1] /\ TailFrom(chain, i + 1)
         /\ pc[c] = "advance" => local[c].data = pushed[i]

Chain(chain) ==
  /\ Linked(chain) /\ HeadAt(chain) /\ TailFrom(chain, Len(popped) + 1)
  /\ \A p \in Producers : NewNode(chain, p) /\ Pushes(chain, p)
  /\ \A c \in Consumers : Pops(chain, c)
  /\ \A t \in Threads : Helps(chain, t)

-----------------------------------------------------------------------------
\* One producer, one consumer, and a compare-exchange that fails only for a reason.
Alone == scenario.pairs = 1 /\ scenario.failures = 0
P == <<"producer", 1>>
C == <<"consumer", 1>>

\* The nodes that are in the queue, from head_ on: the first is the dummy node.
Cells(q) ==
  /\ head = IF Len(q) = 0 THEN Null ELSE q[1]
  /\ \A i, j \in 1..Len(q) : q[i] = q[j] => i = j
  /\ \A i \in 1..Len(q) - 1 : node[q[i]].next = q[i + 1]
  /\ Len(q) # 0 => node[q[Len(q)]].next = Null

\* Who answers for a node: the queue, the producer until it is linked, or the consumer
\* that took it off the queue and deletes it.
Owned(q, a) == \/ \E i \in 1..Len(q) : a = q[i]
               \/ pc[P] \in Unlinked /\ a = local[P].new
               \/ pc[C] = "delete" /\ a = local[C].head

\* Every live node has an owner, and only one.
Owners(q) ==
  /\ \A a \in Addresses : a \in live <=> Owned(q, a)
  /\ pc[P] \in Unlinked =>
       /\ \A i \in 1..Len(q) : q[i] # local[P].new
       /\ node[local[P].new] = [next |-> Null, data |-> <<1, count[P]>>]
  /\ pc[C] = "delete" =>
       /\ local[C].head \in live /\ \A i \in 1..Len(q) : q[i] # local[C].head
       /\ pc[P] \in Unlinked => local[C].head # local[P].new

\* The values in the queue are those that were pushed and not popped yet.
Contents(q) ==
  /\ Len(popped) + Len(q) = Len(pushed) + 1
  /\ \A i \in 1..Len(q) - 1 : node[q[i + 1]].data = pushed[Len(popped) + i]

\* tail_ is the last node, or the one before while its producer has still to move it.
TailOf(q) ==
  IF pc[P] = "swing"
  THEN /\ local[P].new = q[Len(q)]
       /\ \/ tail = q[Len(q)] /\ local[P].tail # tail
          \/ Len(q) >= 2 /\ tail = q[Len(q) - 1] /\ local[P].tail = tail
  ELSE tail = q[Len(q)]

\* The producer's currentTail is still tail_, and nothing comes after it.
Producing(q) ==
  /\ pc[P] # "help"
  /\ pc[P] \in {"loadNext", "checkTail", "link"} => local[P].tail = tail
  /\ pc[P] = "checkTail" => local[P].next = Null

\* The consumer's currentHead is still head_; if it found more than the dummy node then
\* that is still there, and tail_ is not behind.
Consuming(q) ==
  /\ pc[C] \notin {"loadHead", "delete", "done"} => local[C].head = head
  /\ pc[C] \in {"loadNext", "checkHead"} /\ local[C].tail # head => tail # head
  /\ pc[C] = "checkHead" => IF local[C].next = Null THEN local[C].sawEmpty /\ local[C].tail = head
                            ELSE Len(q) >= 2 /\ local[C].next = q[2]
  /\ pc[C] = "empty" => local[C].sawEmpty
  /\ pc[C] = "help" => local[C].tail = head /\ Len(q) >= 2 /\ local[C].next = q[2]
  /\ pc[C] \in {"read", "advance"} => tail # head /\ Len(q) >= 2 /\ local[C].next = q[2]
  /\ pc[C] = "advance" => local[C].data = pushed[Len(popped) + 1]

Queue(q) ==
  /\ ~badAccess /\ \A t \in Threads \ {P, C} : pc[t] = "done"
  /\ Len(popped) <= Len(pushed) /\ \A i \in 1..Len(popped) : popped[i] = pushed[i]
  /\ Cells(q) /\ Owners(q)
  /\ AllDone \/ (Contents(q) /\ TailOf(q) /\ Producing(q) /\ Consuming(q))

-----------------------------------------------------------------------------
\* The inductive invariant: what holds in every scenario, without reuse, and with one
\* thread of each kind.
IInv == /\ TypeOK /\ Control
        /\ ~scenario.reuse => \E chain \in Seq(Addresses) : Chain(chain)
        /\ Alone => \E q \in Seq(Addresses) : Queue(q)

-----------------------------------------------------------------------------
(* Types and control: for every scenario. *)

(* Producers and consumers are different threads. *)
LEMMA Roles == Producers \cap Consumers = {} /\ Threads = Producers \cup Consumers
  BY DEF Producers, Consumers, Threads

(* Reading a node through a pointer gives a pointer and a value. *)
LEMMA Reading ==
  ASSUME TypeOK, NEW a \in Pointers
  PROVE  At(a).next \in Pointers /\ At(a).data \in Values \cup {Null}
  BY DEF TypeOK, At, Pointers

(* The local variables keep their types when one of them is assigned. *)
LEMMA Assigning ==
  ASSUME NEW l \in Locals, NEW a \in Pointers, NEW v \in Values \cup {Null}, NEW b \in BOOLEAN
  PROVE  /\ [l EXCEPT !.head = a] \in Locals /\ [l EXCEPT !.tail = a] \in Locals
         /\ [l EXCEPT !.next = a] \in Locals /\ [l EXCEPT !.new = a] \in Locals
         /\ [l EXCEPT !.next = a, !.sawEmpty = b] \in Locals /\ [l EXCEPT !.data = v] \in Locals
  BY DEF Locals

(* Before the first call types and control are right. *)
LEMMA InitTypes == Init => TypeOK /\ Control
  <1> SUFFICES ASSUME Init PROVE TypeOK /\ Control
    OBVIOUS
  <1> USE LockFreeQueueAssumption DEF Init
  <1>1. head \in Addresses
    OBVIOUS
  <1>2. \A t \in Threads : pc[t] \in {"new", "loadHead", "done"} /\ (t \in Producers => pc[t] # "loadHead")
                                                           /\ (t \notin Producers => pc[t] # "new")
    BY DEF Call
  <1>3. TypeOK
    <2>1. pc \in [Threads -> PCs]
      BY <1>2 DEF PCs
    <2>2. pushed \in Seq(Values) /\ popped \in Seq(Values \cup {Null})
      BY EmptySeq
    <2>3. QED
      BY <1>1, <2>1, <2>2 DEF TypeOK, Pointers, Locals
  <1>4. Control
    BY <1>2, Roles DEF Control, ProducerPCs, ConsumerPCs
  <1>5. QED
    BY <1>3, <1>4

(* Every step respects types and control, one case per action. *)
LEMMA StepTypes == TypeOK /\ Control /\ [Next]_vars => TypeOK' /\ Control'
  <1> SUFFICES ASSUME TypeOK, Control, [Next]_vars PROVE TypeOK' /\ Control'
    OBVIOUS
  <1> USE Roles DEF memory, history
  <1>1. \A t \in Threads : /\ local[t].head \in Pointers /\ local[t].tail \in Pointers
                           /\ local[t].next \in Pointers /\ local[t].new \in Pointers
                           /\ local[t].data \in Values \cup {Null} /\ local[t].sawEmpty \in BOOLEAN
                           /\ count[t] \in Nat
    BY DEF TypeOK, Locals
  <1>2. /\ head \in Pointers /\ tail \in Pointers /\ local \in [Threads -> Locals]
        /\ \A t \in Threads : local[t] \in Locals
    BY DEF TypeOK, Pointers
  <1>3. \A t \in Threads : [count EXCEPT ![t] = @ + 1] \in [Threads -> Nat]
    BY DEF TypeOK
  <1>4. ASSUME NEW t \in Threads, LoadTail(t) PROVE TypeOK' /\ Control'
    <2>1. local' \in [Threads -> Locals]
      <3>1. [local[t] EXCEPT !.tail = tail] \in Locals
        BY <1>2, Assigning
      <3>2. local' = [local EXCEPT ![t] = [local[t] EXCEPT !.tail = tail]]
        BY <1>4 DEF LoadTail
      <3>3. QED
        BY <1>2, <3>1, <3>2
    <2>2. TypeOK'
      BY <1>4, <2>1 DEF LoadTail, Goto, TypeOK, PCs
    <2>3. Control'
      BY <1>4 DEF LoadTail, Goto, TypeOK, Control, ProducerPCs, ConsumerPCs
    <2>4. QED
      BY <2>2, <2>3
  <1>5. ASSUME NEW t \in Threads, Help(t) PROVE TypeOK' /\ Control'
    <2>1. tail' \in Addresses
      BY <1>1, <1>5 DEF Help, Goto, SwingTail, TypeOK, Control, Pointers
    <2>2. TypeOK'
      BY <1>5, <2>1 DEF Help, Goto, Again, TypeOK, PCs
    <2>3. Control'
      BY <1>5 DEF Help, Goto, Again, TypeOK, Control, ProducerPCs, ConsumerPCs
    <2>4. QED
      BY <2>2, <2>3
  <1>6. ASSUME NEW p \in Producers, Allocate(p) PROVE TypeOK' /\ Control'
    <2>1. PICK a \in Addresses :
            /\ local' = [local EXCEPT ![p].new = a]
            /\ node' = [node EXCEPT ![a] = [next |-> Null, data |-> <<p[2], count[p]>>]]
            /\ live' = live \cup {a} /\ used' = used \cup {a}
      BY <1>6 DEF Allocate, Free
    <2>2. <<p[2], count[p]>> \in Values
      BY <1>1 DEF Values, Producers
    <2>3. local' \in [Threads -> Locals]
      <3>1. [local[p] EXCEPT !.new = a] \in Locals
        BY <1>2, Assigning DEF Pointers
      <3>2. local' = [local EXCEPT ![p] = [local[p] EXCEPT !.new = a]]
        BY <2>1
      <3>3. QED
        BY <1>2, <3>1, <3>2
    <2>4. TypeOK'
      BY <1>6, <2>1, <2>2, <2>3 DEF Allocate, Goto, TypeOK, PCs, Pointers
    <2>5. Control'
      BY <1>6, <2>1, LockFreeQueueAssumption DEF Allocate, Goto, TypeOK, Control, ProducerPCs, ConsumerPCs
    <2>6. QED
      BY <2>4, <2>5
  <1>7. ASSUME NEW p \in Producers, LoadTailNext(p) PROVE TypeOK' /\ Control'
    <2>1. At(local[p].tail).next \in Pointers /\ badAccess' \in BOOLEAN
      BY <1>1, <1>7, Reading DEF LoadTailNext, Follows, TypeOK
    <2>2. local' \in [Threads -> Locals]
      <3>1. [local[p] EXCEPT !.next = At(local[p].tail).next] \in Locals
        BY <1>2, <2>1, Assigning
      <3>2. local' = [local EXCEPT ![p] = [local[p] EXCEPT !.next = At(local[p].tail).next]]
        BY <1>7 DEF LoadTailNext
      <3>3. QED
        BY <1>2, <3>1, <3>2
    <2>3. TypeOK'
      BY <1>7, <2>1, <2>2 DEF LoadTailNext, Goto, TypeOK, PCs
    <2>4. Control'
      BY <1>7 DEF LoadTailNext, Goto, TypeOK, Control, ProducerPCs, ConsumerPCs
    <2>5. QED
      BY <2>3, <2>4
  <1>8. ASSUME NEW p \in Producers, CheckTail(p) PROVE TypeOK' /\ Control'
    <2>1. TypeOK'
      BY <1>8 DEF CheckTail, Goto, TypeOK, PCs
    <2>2. Control'
      BY <1>8 DEF CheckTail, Goto, TypeOK, Control, ProducerPCs, ConsumerPCs
    <2>3. QED
      BY <2>1, <2>2
  <1>9. ASSUME NEW p \in Producers, Link(p) PROVE TypeOK' /\ Control'
    <2>1. badAccess' \in BOOLEAN
      BY <1>9 DEF Link, Follows, TypeOK
    <2>2. pc' = [pc EXCEPT ![p] = "swing"] \/ pc' = [pc EXCEPT ![p] = "loadTail"]
      BY <1>9 DEF Link, Goto
    <2>3. node' \in [Addresses -> [next : Pointers, data : Values \cup {Null}]]
      <3>1. UNCHANGED node \/ node' = [node EXCEPT ![local[p].tail].next = local[p].new]
        BY <1>9 DEF Link
      <3>2. \A a \in Addresses : [node[a] EXCEPT !.next = local[p].new]
                                \in [next : Pointers, data : Values \cup {Null}]
        BY <1>1 DEF TypeOK
      <3>3. QED
        BY <3>1, <3>2 DEF TypeOK
    <2>4. pushed' \in Seq(Values)
      <3>1. <<p[2], count[p]>> \in Values
        BY <1>1 DEF Values, Producers
      <3>2. UNCHANGED pushed \/ pushed' = Append(pushed, <<p[2], count[p]>>)
        BY <1>9 DEF Link
      <3>3. pushed \in Seq(Values) /\ Append(pushed, <<p[2], count[p]>>) \in Seq(Values)
        BY <3>1, AppendProperties, Zenon DEF TypeOK
      <3>4. QED
        BY <3>2, <3>3, Zenon
    <2>5. TypeOK'
      BY <1>9, <2>1, <2>2, <2>3, <2>4 DEF Link, TypeOK, PCs
    <2>6. Control'
      BY <1>9, <2>2 DEF Link, Goto, TypeOK, Control, ProducerPCs, ConsumerPCs
    <2>7. QED
      BY <2>5, <2>6
  <1>10. ASSUME NEW p \in Producers, Swing(p) PROVE TypeOK' /\ Control'
    <2>1. pc' = [pc EXCEPT ![p] = "new"] \/ pc' = [pc EXCEPT ![p] = "done"]
      BY <1>10 DEF Swing, Completes, Goto, Call
    <2>2. tail' \in Addresses
      BY <1>1, <1>10 DEF Swing, Completes, Goto, SwingTail, TypeOK, Control, Pointers
    <2>3. TypeOK'
      BY <1>3, <1>10, <2>1, <2>2 DEF Swing, Completes, TypeOK, PCs
    <2>4. Control'
      BY <1>10, <2>1 DEF Swing, TypeOK, Control, ProducerPCs, ConsumerPCs
    <2>5. QED
      BY <2>3, <2>4
  <1>11. ASSUME NEW c \in Consumers, LoadHead(c) PROVE TypeOK' /\ Control'
    <2>1. local' \in [Threads -> Locals]
      <3>1. [local[c] EXCEPT !.head = head] \in Locals
        BY <1>2, Assigning
      <3>2. local' = [local EXCEPT ![c] = [local[c] EXCEPT !.head = head]]
        BY <1>11 DEF LoadHead
      <3>3. QED
        BY <1>2, <3>1, <3>2
    <2>2. TypeOK'
      BY <1>11, <2>1 DEF LoadHead, Goto, TypeOK, PCs
    <2>3. Control'
      BY <1>11 DEF LoadHead, Goto, TypeOK, Control, ProducerPCs, ConsumerPCs
    <2>4. QED
      BY <2>2, <2>3
  <1>12. ASSUME NEW c \in Consumers, LoadHeadNext(c) PROVE TypeOK' /\ Control'
    <2>1. /\ At(local[c].head).next \in Pointers /\ badAccess' \in BOOLEAN
          /\ (Len(pushed) = Len(popped)) \in BOOLEAN
      BY <1>1, <1>12, Reading DEF LoadHeadNext, Follows, TypeOK
    <2>2. local' \in [Threads -> Locals]
      <3>1. [local[c] EXCEPT !.next = At(local[c].head).next, !.sawEmpty = (Len(pushed) = Len(popped))] \in Locals
        BY <1>2, <2>1, Assigning
      <3>2. local' = [local EXCEPT ![c] = [local[c] EXCEPT !.next = At(local[c].head).next, !.sawEmpty = (Len(pushed) = Len(popped))]]
        BY <1>12 DEF LoadHeadNext
      <3>3. QED
        BY <1>2, <3>1, <3>2
    <2>3. TypeOK'
      BY <1>12, <2>1, <2>2 DEF LoadHeadNext, Goto, TypeOK, PCs
    <2>4. Control'
      BY <1>12 DEF LoadHeadNext, Goto, TypeOK, Control, ProducerPCs, ConsumerPCs
    <2>5. QED
      BY <2>3, <2>4
  <1>13. ASSUME NEW c \in Consumers, CheckHead(c) PROVE TypeOK' /\ Control'
    <2>1. TypeOK'
      BY <1>13 DEF CheckHead, Goto, TypeOK, PCs
    <2>2. Control'
      BY <1>13 DEF CheckHead, AnswersEmpty, Goto, TypeOK, Control, ProducerPCs, ConsumerPCs
    <2>3. QED
      BY <2>1, <2>2
  <1>14. ASSUME NEW c \in Consumers, ReturnsEmpty(c) PROVE TypeOK' /\ Control'
    <2>1. TypeOK'
      BY <1>14 DEF ReturnsEmpty, Goto, TypeOK, PCs
    <2>2. Control'
      BY <1>14 DEF ReturnsEmpty, Goto, TypeOK, Control, ProducerPCs, ConsumerPCs
    <2>3. QED
      BY <2>1, <2>2
  <1>15. ASSUME NEW c \in Consumers, ReadData(c) PROVE TypeOK' /\ Control'
    <2>1. At(local[c].next).data \in Values \cup {Null} /\ badAccess' \in BOOLEAN
      BY <1>1, <1>15, Reading DEF ReadData, Follows, TypeOK
    <2>2. local' \in [Threads -> Locals]
      <3>1. [local[c] EXCEPT !.data = At(local[c].next).data] \in Locals
        BY <1>2, <2>1, Assigning
      <3>2. local' = [local EXCEPT ![c] = [local[c] EXCEPT !.data = At(local[c].next).data]]
        BY <1>15 DEF ReadData
      <3>3. QED
        BY <1>2, <3>1, <3>2
    <2>3. TypeOK'
      BY <1>15, <2>1, <2>2 DEF ReadData, Goto, TypeOK, PCs
    <2>4. Control'
      BY <1>15 DEF ReadData, Goto, TypeOK, Control, ProducerPCs, ConsumerPCs
    <2>5. QED
      BY <2>3, <2>4
  <1>16. ASSUME NEW c \in Consumers, Advance(c) PROVE TypeOK' /\ Control'
    <2>1. pc' = [pc EXCEPT ![c] = "delete"] \/ pc' = [pc EXCEPT ![c] = "loadHead"]
      BY <1>16 DEF Advance, Goto
    <2>2. popped' \in Seq(Values \cup {Null})
      <3>1. UNCHANGED popped \/ popped' = Append(popped, local[c].data)
        BY <1>16 DEF Advance
      <3>2. popped \in Seq(Values \cup {Null}) /\ Append(popped, local[c].data) \in Seq(Values \cup {Null})
        BY <1>1, AppendProperties, Zenon DEF TypeOK
      <3>3. QED
        BY <3>1, <3>2, Zenon
    <2>3. head' \in Pointers
      BY <1>1, <1>16 DEF Advance, TypeOK
    <2>4. TypeOK'
      BY <1>16, <2>1, <2>2, <2>3 DEF Advance, TypeOK, PCs
    <2>5. Control'
      BY <1>16, <2>1 DEF Advance, TypeOK, Control, ProducerPCs, ConsumerPCs
    <2>6. QED
      BY <2>4, <2>5
  <1>17. ASSUME NEW c \in Consumers, Delete(c) PROVE TypeOK' /\ Control'
    <2>1. pc' = [pc EXCEPT ![c] = "loadHead"] \/ pc' = [pc EXCEPT ![c] = "done"]
      BY <1>17 DEF Delete, Completes, Goto, Call
    <2>2. badAccess' \in BOOLEAN
      BY <1>17 DEF Delete, Follows, TypeOK
    <2>3. TypeOK'
      BY <1>3, <1>17, <2>1, <2>2 DEF Delete, Completes, TypeOK, PCs
    <2>4. Control'
      BY <1>17, <2>1 DEF Delete, TypeOK, Control, ProducerPCs, ConsumerPCs
    <2>5. QED
      BY <2>3, <2>4
  <1>18. ASSUME NEW t \in Threads, FailsSpuriously(t) PROVE TypeOK' /\ Control'
    <2>1. /\ pc[t] \in {"link", "advance", "help", "swing"}
          /\ \/ pc' = [pc EXCEPT ![t] = Again(t)] \/ pc' = [pc EXCEPT ![t] = Call(t, count[t] + 1, scenario)]
      BY <1>18 DEF FailsSpuriously, Completes, Goto
    <2>2. pc'  \in [Threads -> PCs]
      BY <2>1 DEF Again, Call, TypeOK, PCs
    <2>3. TypeOK'
      <3>1. count' \in [Threads -> Nat] /\ spurious' \in Nat
        <4>1. (count' = count \/ count' = [count EXCEPT ![t] = @ + 1]) /\ spurious' = spurious + 1
          BY <1>18 DEF FailsSpuriously, Completes
        <4>2. count \in [Threads -> Nat] /\ spurious \in Nat
          BY DEF TypeOK
        <4>3. spurious' \in Nat
          BY <4>1, <4>2
        <4>4. QED
          BY <1>3, <4>1, <4>2, <4>3, Zenon
      <3>2. QED
        BY <1>18, <2>2, <3>1 DEF FailsSpuriously, TypeOK
    <2>4. Control'
      <3>1. UNCHANGED local /\ pc' = [pc EXCEPT ![t] = pc'[t]] /\ pc \in [Threads -> PCs]
        BY <1>18, <2>1 DEF FailsSpuriously, TypeOK
      <3>2. t \in Producers => pc'[t] \in {"loadTail", "new", "done"}
        BY <2>1 DEF Again, Call, TypeOK
      <3>3. t \in Consumers => pc'[t] \in {"loadHead", "done"}
        BY <2>1 DEF Again, Call, TypeOK
      <3>4. t \in Producers => local[t].new # Null
        BY <2>1 DEF Control
      <3>5. QED
        BY <3>1, <3>2, <3>3, <3>4 DEF Control, ProducerPCs, ConsumerPCs
    <2>5. QED
      BY <2>3, <2>4
  <1>19. ASSUME Destroy PROVE TypeOK' /\ Control'
    <2>1. At(head).next \in Pointers /\ badAccess' \in BOOLEAN
      BY <1>19, Reading DEF Destroy, Follows, TypeOK
    <2>2. TypeOK'
      BY <1>19, <2>1 DEF Destroy, TypeOK
    <2>3. Control'
      BY <1>19 DEF Destroy, Control
    <2>4. QED
      BY <2>2, <2>3
  <1>20. CASE UNCHANGED vars
    <2>1. TypeOK'
      BY <1>20 DEF vars, TypeOK
    <2>2. Control'
      BY <1>20 DEF vars, Control
    <2>3. QED
      BY <2>1, <2>2
  <1>21. QED
    BY <1>4, <1>5, <1>6, <1>7, <1>8, <1>9, <1>10, <1>11, <1>12, <1>13, <1>14, <1>15, <1>16, <1>17,
       <1>18, <1>19, <1>20 DEF Next, Push, Pop, Ended

-----------------------------------------------------------------------------
(* The chain. *)

(* The histories and a chain have lengths. *)
LEMMA Lengths ==
  ASSUME TypeOK, NEW c \in Seq(Addresses)
  PROVE  /\ Len(pushed) \in Nat /\ Len(popped) \in Nat /\ Len(c) \in Nat
         /\ \A i \in 1..Len(c) : c[i] \in Addresses /\ c[i] # Null
  BY LenProperties, ElementOfSeq, LockFreeQueueAssumption DEF TypeOK

\* Chain d of the next state is what chain c becomes; neither head_ nor tail_ moves back.
Grows(c, d) ==
  /\ Len(c) <= Len(d) /\ Len(d) = Len(pushed') + 1
  /\ \A i \in 1..Len(c) : d[i] = c[i]
  /\ \A i \in 1..Len(pushed) : pushed'[i] = pushed[i]
  /\ Len(popped) <= Len(popped')
  /\ \A i \in Nat : TailFrom(c, i) => TailFrom(d, i)'

(* What a thread knows of the chain stays true while others work on it. *)
LEMMA KnowledgeStays ==
  ASSUME TypeOK, TypeOK', NEW c \in Seq(Addresses), NEW d \in Seq(Addresses), Linked(c), HeadAt(c), Grows(c, d),
         NEW t \in Threads, pc'[t] = pc[t], local'[t] = local[t]
  PROVE  /\ Pushes(c, t) => Pushes(d, t)'
         /\ Helps(c, t) => Helps(d, t)'
         /\ Pops(c, t) => Pops(d, t)'
  <1>1. /\ Len(pushed) \in Nat /\ Len(popped) \in Nat /\ Len(c) \in Nat /\ Len(d) \in Nat
        /\ Len(pushed') \in Nat /\ Len(popped') \in Nat
    BY Lengths, LenProperties DEF TypeOK
  <1>2. /\ Len(c) <= Len(d) /\ Len(c) = Len(pushed) + 1 /\ Len(d) = Len(pushed') + 1
        /\ \A i \in 1..Len(c) : d[i] = c[i]
        /\ \A i \in 1..Len(pushed) : pushed'[i] = pushed[i]
        /\ Len(popped) <= Len(popped')
        /\ \A i \in Nat : TailFrom(c, i) => TailFrom(d, i)'
    BY DEF Grows, Linked
  <1>3. \A k \in 1..Len(c) : k \in 1..Len(d)
    BY <1>1, <1>2
  <1>4. \A k \in 1..Len(pushed) : /\ k \in 1..Len(c) /\ k + 1 \in 1..Len(c) /\ k \in 1..Len(pushed')
                                  /\ k + 1 \in Nat
    BY <1>1, <1>2
  <1>5. \A i \in 1..Len(popped) + 1 : i \in 1..Len(popped') + 1 /\ i \in 1..Len(c)
    BY <1>1, <1>2 DEF HeadAt
  <1>6. Pushes(c, t) => Pushes(d, t)'
    <2> SUFFICES ASSUME Pushes(c, t) PROVE Pushes(d, t)'
      OBVIOUS
    <2>1. pc[t] \in {"loadNext", "checkTail", "link"} => \E k \in 1..Len(d) : local[t].tail = d[k]
      BY <1>2, <1>3 DEF Pushes
    <2>2. pc[t] = "checkTail" /\ local[t].next # Null =>
            \E k \in 1..Len(pushed') : local[t].tail = d[k] /\ local[t].next = d[k + 1]
      BY <1>2, <1>4 DEF Pushes
    <2>3. pc[t] = "swing" => \E k \in 1..Len(pushed') : local[t].tail = d[k] /\ local[t].new = d[k + 1]
      BY <1>2, <1>4 DEF Pushes
    <2>4. QED
      BY <2>1, <2>2, <2>3 DEF Pushes
  <1>7. Helps(c, t) => Helps(d, t)'
    BY <1>2, <1>4 DEF Helps
  <1>8. Pops(c, t) => Pops(d, t)'
    <2> SUFFICES ASSUME Pops(c, t) PROVE Pops(d, t)'
      OBVIOUS
    <2>1. pc[t] = "loadTail" => \E i \in 1..Len(popped') + 1 : local[t].head = d[i]
      BY <1>2, <1>5 DEF Pops
    <2>2. pc[t] \in {"loadNext", "checkHead"} =>
            \E i \in 1..Len(popped') + 1 : \E j \in i..Len(d) :
              /\ local[t].head = d[i] /\ local[t].tail = d[j] /\ TailFrom(d, j)'
              /\ pc[t] = "checkHead" => IF local[t].next = Null THEN local[t].sawEmpty /\ i = j
                                        ELSE i <= Len(pushed') /\ local[t].next = d[i + 1]
      <3> SUFFICES ASSUME pc[t] \in {"loadNext", "checkHead"}
                   PROVE  \E i \in 1..Len(popped') + 1 : \E j \in i..Len(d) :
              /\ local[t].head = d[i] /\ local[t].tail = d[j] /\ TailFrom(d, j)'
              /\ pc[t] = "checkHead" => IF local[t].next = Null THEN local[t].sawEmpty /\ i = j
                                        ELSE i <= Len(pushed') /\ local[t].next = d[i + 1]
        OBVIOUS
      <3>1. PICK i \in 1..Len(popped) + 1 : \E j \in i..Len(c) :
              /\ local[t].head = c[i] /\ local[t].tail = c[j] /\ TailFrom(c, j)
              /\ pc[t] = "checkHead" => IF local[t].next = Null THEN local[t].sawEmpty /\ i = j
                                        ELSE i <= Len(pushed) /\ local[t].next = c[i + 1]
        BY DEF Pops
      <3>2. PICK j \in i..Len(c) :
              /\ local[t].head = c[i] /\ local[t].tail = c[j] /\ TailFrom(c, j)
              /\ pc[t] = "checkHead" => IF local[t].next = Null THEN local[t].sawEmpty /\ i = j
                                        ELSE i <= Len(pushed) /\ local[t].next = c[i + 1]
        BY <3>1
      <3>3. i \in 1..Len(popped') + 1 /\ j \in i..Len(d) /\ i \in 1..Len(c) /\ j \in 1..Len(c) /\ j \in Nat
        BY <1>1, <1>2, <1>5
      <3>4. d[i] = c[i] /\ d[j] = c[j] /\ TailFrom(d, j)'
        BY <1>2, <3>2, <3>3
      <3>5. i <= Len(pushed) => i <= Len(pushed') /\ d[i + 1] = c[i + 1]
        BY <1>1, <1>2, <1>4, <3>3
      <3>6. QED
        BY <3>2, <3>3, <3>4, <3>5
    <2>3. pc[t] \in {"read", "advance"} =>
            \E i \in 1..Len(pushed') :
              /\ local[t].head = d[i] /\ local[t].next = d[i + 1] /\ TailFrom(d, i + 1)'
              /\ pc[t] = "advance" => local[t].data = pushed'[i]
      <3> SUFFICES ASSUME pc[t] \in {"read", "advance"}
                   PROVE  \E i \in 1..Len(pushed') :
              /\ local[t].head = d[i] /\ local[t].next = d[i + 1] /\ TailFrom(d, i + 1)'
              /\ pc[t] = "advance" => local[t].data = pushed'[i]
        OBVIOUS
      <3>1. PICK i \in 1..Len(pushed) :
              /\ local[t].head = c[i] /\ local[t].next = c[i + 1] /\ TailFrom(c, i + 1)
              /\ pc[t] = "advance" => local[t].data = pushed[i]
        BY DEF Pops
      <3>2. /\ i \in 1..Len(pushed') /\ d[i] = c[i] /\ d[i + 1] = c[i + 1] /\ TailFrom(d, i + 1)'
            /\ pushed'[i] = pushed[i]
        BY <1>2, <1>4, <3>1
      <3>3. QED
        BY <3>1, <3>2
    <2>4. pc[t] = "empty" => local[t].sawEmpty
      BY DEF Pops
    <2>5. QED
      BY <2>1, <2>2, <2>3, <2>4 DEF Pops
  <1>9. QED
    BY <1>6, <1>7, <1>8

(* Nor does anybody touch the node that another producer has not linked yet. *)
LEMMA NewNodesStay ==
  ASSUME NEW c \in Seq(Addresses), NEW d \in Seq(Addresses), NEW t \in Threads,
         \A u \in Threads \ {t} : pc'[u] = pc[u] /\ local'[u] = local[u] /\ count'[u] = count[u],
         pc'[t] \in Unlinked => t \in Consumers \/ (pc[t] \in Unlinked /\ count'[t] = count[t]),
         local'[t].new = local[t].new, used \subseteq used',
         \A p \in Producers : NewNode(c, p),
         NEW p \in Producers,
         pc[p] \in Unlinked /\ pc'[p] \in Unlinked =>
           /\ node'[local[p].new] = node[local[p].new]
           /\ \A i \in 1..Len(d) : d[i] # local[p].new
  PROVE  NewNode(d, p)'
  <1> SUFFICES ASSUME pc'[p] \in Unlinked PROVE NewNode(d, p)'
    BY DEF NewNode
  <1>1. \A q \in Producers : local'[q].new = local[q].new
    BY DEF Threads
  <1>2. \A q \in Producers : pc'[q] \in Unlinked => pc[q] \in Unlinked /\ count'[q] = count[q]
    BY Roles
  <1>3. pc[p] \in Unlinked /\ NewNode(c, p)
    BY <1>2
  <1>4. QED
    BY <1>2, <1>1, <1>3 DEF NewNode

(* When the chain stays as it is, and head_ too, it is enough to look at the acting thread. *)
LEMMA ChainStays ==
  ASSUME TypeOK, TypeOK', NEW c \in Seq(Addresses), Chain(c), ~AllDone,
         UNCHANGED <<head, node, used, pushed, popped>>,
         \A i \in Nat : TailFrom(c, i) => TailFrom(c, i)',
         NEW t \in Threads,
         \A u \in Threads \ {t} : pc'[u] = pc[u] /\ local'[u] = local[u] /\ count'[u] = count[u],
         pc'[t] \in Unlinked => t \in Consumers \/ (pc[t] \in Unlinked /\ count'[t] = count[t]),
         local'[t].new = local[t].new,
         t \in Producers => Pushes(c, t)', t \in Consumers => Pops(c, t)', Helps(c, t)'
  PROVE  Chain(c)'
  <1>1. /\ Linked(c) /\ HeadAt(c) /\ TailFrom(c, Len(popped) + 1) /\ Len(popped) + 1 \in Nat
        /\ \A p \in Producers : NewNode(c, p) /\ Pushes(c, p)
        /\ \A p \in Consumers : Pops(c, p)
        /\ \A u \in Threads : Helps(c, u)
    BY Lengths DEF Chain
  <1>2. Grows(c, c)
    BY <1>1, Lengths DEF Grows, Linked
  <1>3. Linked(c)'
    BY <1>1 DEF Linked
  <1>4. HeadAt(c)' /\ TailFrom(c, Len(popped) + 1)'
    BY <1>1 DEF HeadAt
  <1>5. ASSUME NEW p \in Producers PROVE NewNode(c, p)'
    <2>1. pc[p] \in Unlinked => \A i \in 1..Len(c) : c[i] # local[p].new
      BY <1>1 DEF NewNode
    <2>2. used \subseteq used' /\ \A a : node'[a] = node[a]
      OBVIOUS
    <2>3. QED
      BY <1>1, <2>1, <2>2, NewNodesStay
  <1>6. \A u \in Threads \ {t} : /\ Pushes(c, u) => Pushes(c, u)'
                                 /\ Helps(c, u) => Helps(c, u)'
                                 /\ Pops(c, u) => Pops(c, u)'
    BY <1>1, <1>2, KnowledgeStays
  <1>7. QED
    BY <1>1, <1>3, <1>4, <1>5, <1>6 DEF Chain, Threads

(* A compare-exchange of tail_ with a node and the next does not move it back. *)
LEMMA TailMovesOn ==
  ASSUME TypeOK, NEW c \in Seq(Addresses), Linked(c), NEW k \in 1..Len(pushed),
         tail' = IF tail = c[k] THEN c[k + 1] ELSE tail
  PROVE  \A i \in Nat : TailFrom(c, i) => TailFrom(c, i)'
  <1> SUFFICES ASSUME NEW i \in Nat, TailFrom(c, i) PROVE TailFrom(c, i)'
    OBVIOUS
  <1>1. Len(c) \in Nat /\ Len(pushed) \in Nat /\ Len(c) = Len(pushed) + 1
    BY Lengths DEF Linked
  <1>2. PICK m \in 1..Len(c) : i <= m /\ tail = c[m]
    BY DEF TailFrom
  <1>3. CASE tail = c[k]
    <2>1. k \in 1..Len(c) /\ k + 1 \in 1..Len(c)
      BY <1>1
    <2>2. m = k
      BY <1>2, <1>3, <2>1 DEF Linked
    <2>3. i <= k + 1
      BY <1>1, <1>2, <2>2
    <2>4. QED
      BY <1>3, <2>1, <2>3 DEF TailFrom
  <1>4. CASE tail # c[k]
    BY <1>2, <1>4 DEF TailFrom
  <1>5. QED
    BY <1>3, <1>4

(* The constructor's node is a chain. *)
LEMMA InitChain == Init => \E chain \in Seq(Addresses) : Chain(chain)
  <1> SUFFICES ASSUME Init PROVE \E chain \in Seq(Addresses) : Chain(chain)
    OBVIOUS
  <1>1. head \in Addresses /\ tail = head /\ used = {head} /\ pushed = <<>> /\ popped = <<>>
        /\ node[head].next = Null
    BY LockFreeQueueAssumption DEF Init
  <1>2. /\ <<head>> \in Seq(Addresses) /\ Len(<<head>>) = 1 /\ <<head>>[1] = head
        /\ Len(pushed) = 0 /\ Len(popped) = 0
    BY <1>1
  <1>3. \A t \in Threads : pc[t] \in {"new", "loadHead", "done"}
    BY DEF Init, Call
  <1>4. Linked(<<head>>) /\ HeadAt(<<head>>) /\ TailFrom(<<head>>, Len(popped) + 1)
    BY <1>1, <1>2 DEF Linked, HeadAt, TailFrom
  <1>5. \A t \in Threads : /\ NewNode(<<head>>, t) /\ Pushes(<<head>>, t)
                           /\ Helps(<<head>>, t) /\ Pops(<<head>>, t)
    BY <1>3 DEF NewNode, Unlinked, Pushes, Helps, Pops
  <1>6. QED
    BY <1>2, <1>4, <1>5 DEF Chain, Threads

-----------------------------------------------------------------------------
(* Each action keeps the chain or extends it.  First those that move one thread. *)

(* A thread that is not done is not done: the destructor does not run yet. *)
LEMMA Running ==
  ASSUME NEW t \in Threads, pc[t] # "done"
  PROVE  ~AllDone
  BY DEF AllDone

(* Where the nodes of a chain lead to. *)
LEMMA Links ==
  ASSUME TypeOK, NEW c \in Seq(Addresses), Linked(c), NEW k \in 1..Len(c)
  PROVE  /\ At(c[k]) = node[c[k]]
         /\ node[c[k]].next = Null => k = Len(c)
         /\ node[c[k]].next # Null => k \in 1..Len(pushed) /\ node[c[k]].next = c[k + 1]
  <1>1. /\ Len(c) \in Nat /\ Len(pushed) \in Nat /\ Len(c) = Len(pushed) + 1
        /\ \A i \in 1..Len(c) : c[i] # Null
    BY Lengths DEF Linked
  <1>2. k \in 1..Len(pushed) => k + 1 \in 1..Len(c) /\ node[c[k]].next = c[k + 1]
    BY <1>1 DEF Linked
  <1>3. k \notin 1..Len(pushed) => k = Len(c) /\ node[c[k]].next = Null
    BY <1>1 DEF Linked
  <1>4. QED
    BY <1>1, <1>2, <1>3 DEF At

(* Steps of push that only look, or move tail_. *)
LEMMA PushLooks ==
  ASSUME TypeOK, TypeOK', Control, NEW c \in Seq(Addresses), Chain(c), NEW p \in Producers,
         \/ LoadTail(p) \/ LoadTailNext(p) \/ CheckTail(p) \/ Help(p) \/ Swing(p)
         \/ Link(p) /\ ~LinksHere(p)
  PROVE  Chain(c)'
  <1> USE Roles DEF memory, history
  <1>1. /\ p \in Threads /\ p \notin Consumers /\ Linked(c) /\ Pushes(c, p) /\ Helps(c, p)
        /\ TailFrom(c, Len(popped) + 1) /\ pc \in [Threads -> PCs] /\ count \in [Threads -> Nat]
        /\ local \in [Threads -> Locals]
    BY DEF Chain, TypeOK
  <1>2. CASE LoadTail(p)
    <2>1. /\ pc[p] = "loadTail" /\ pc'[p] = "loadNext" /\ local'[p].tail = tail
          /\ local'[p].new = local[p].new
          /\ \A u \in Threads \ {p} : pc'[u] = pc[u] /\ local'[u] = local[u] /\ count'[u] = count[u]
          /\ UNCHANGED <<head, tail, node, used, pushed, popped, count>>
      BY <1>1, <1>2 DEF LoadTail, Goto, Locals
    <2>2. \E k \in 1..Len(c) : tail = c[k]
      BY <1>1 DEF TailFrom
    <2>3. Pushes(c, p)' /\ Helps(c, p)'
      BY <2>1, <2>2 DEF Pushes, Helps
    <2>4. ~AllDone /\ pc[p] \in Unlinked /\ \A i \in Nat : TailFrom(c, i) => TailFrom(c, i)'
      BY <1>1, <2>1, Running DEF TailFrom, Unlinked
    <2>5. QED
      BY <1>1, <2>1, <2>3, <2>4, ChainStays
  <1>3. CASE LoadTailNext(p)
    <2>1. /\ pc[p] = "loadNext" /\ pc'[p] = "checkTail" /\ local'[p].next = At(local[p].tail).next
          /\ local'[p].tail = local[p].tail /\ local'[p].new = local[p].new
          /\ \A u \in Threads \ {p} : pc'[u] = pc[u] /\ local'[u] = local[u] /\ count'[u] = count[u]
          /\ UNCHANGED <<head, tail, node, used, pushed, popped, count>>
      BY <1>1, <1>3 DEF LoadTailNext, Goto, Locals
    <2>2. PICK k \in 1..Len(c) : local[p].tail = c[k]
      BY <1>1, <2>1 DEF Pushes
    <2>3. local'[p].next # Null => k \in 1..Len(pushed) /\ local'[p].next = c[k + 1]
      BY <1>1, <2>1, <2>2, Links
    <2>4. Pushes(c, p)' /\ Helps(c, p)'
      BY <2>1, <2>2, <2>3 DEF Pushes, Helps
    <2>5. ~AllDone /\ pc[p] \in Unlinked /\ \A i \in Nat : TailFrom(c, i) => TailFrom(c, i)'
      BY <1>1, <2>1, Running DEF TailFrom, Unlinked
    <2>6. QED
      BY <1>1, <2>1, <2>4, <2>5, ChainStays
  <1>4. CASE CheckTail(p)
    <2>1. /\ pc[p] = "checkTail" /\ pc'[p] \in {"loadTail", "link", "help"}
          /\ pc'[p] = "help" => local[p].next # Null
          /\ \A u \in Threads \ {p} : pc'[u] = pc[u] /\ local'[u] = local[u] /\ count'[u] = count[u]
          /\ UNCHANGED <<head, tail, node, used, pushed, popped, count, local>>
      BY <1>1, <1>4 DEF CheckTail, Goto
    <2>2. Pushes(c, p)' /\ Helps(c, p)'
      BY <1>1, <2>1 DEF Pushes, Helps
    <2>3. ~AllDone /\ pc[p] \in Unlinked /\ \A i \in Nat : TailFrom(c, i) => TailFrom(c, i)'
      BY <1>1, <2>1, Running DEF TailFrom, Unlinked
    <2>4. QED
      BY <1>1, <2>1, <2>2, <2>3, ChainStays
  <1>5. CASE Help(p)
    <2>1. /\ pc[p] = "help" /\ pc'[p] = "loadTail"
          /\ \A u \in Threads \ {p} : pc'[u] = pc[u] /\ local'[u] = local[u] /\ count'[u] = count[u]
          /\ UNCHANGED <<head, node, used, pushed, popped, count, local>>
          /\ tail' = IF tail = local[p].tail THEN local[p].next ELSE tail
      BY <1>1, <1>5 DEF Help, Goto, Again, SwingTail
    <2>2. PICK k \in 1..Len(pushed) : local[p].tail = c[k] /\ local[p].next = c[k + 1]
      BY <1>1, <2>1 DEF Helps
    <2>3. \A i \in Nat : TailFrom(c, i) => TailFrom(c, i)'
      BY <1>1, <2>1, <2>2, TailMovesOn
    <2>4. Pushes(c, p)' /\ Helps(c, p)'
      BY <2>1 DEF Pushes, Helps
    <2>5. ~AllDone /\ pc[p] \in Unlinked
      BY <1>1, <2>1, Running DEF Unlinked
    <2>6. QED
      BY <1>1, <2>1, <2>3, <2>4, <2>5, ChainStays
  <1>6. CASE Swing(p)
    <2>1. /\ pc[p] = "swing" /\ pc'[p] \in {"new", "done"}
          /\ \A u \in Threads \ {p} : pc'[u] = pc[u] /\ local'[u] = local[u] /\ count'[u] = count[u]
          /\ UNCHANGED <<head, node, used, pushed, popped, local>>
          /\ tail' = IF tail = local[p].tail THEN local[p].new ELSE tail
      BY <1>1, <1>6 DEF Swing, Completes, Goto, Call, SwingTail
    <2>2. PICK k \in 1..Len(pushed) : local[p].tail = c[k] /\ local[p].new = c[k + 1]
      BY <1>1, <2>1 DEF Pushes
    <2>3. \A i \in Nat : TailFrom(c, i) => TailFrom(c, i)'
      BY <1>1, <2>1, <2>2, TailMovesOn
    <2>4. Pushes(c, p)' /\ Helps(c, p)'
      BY <2>1 DEF Pushes, Helps
    <2>5. ~AllDone /\ pc'[p] \notin Unlinked
      BY <1>1, <2>1, Running DEF Unlinked
    <2>6. QED
      BY <1>1, <2>1, <2>3, <2>4, <2>5, ChainStays
  <1>7. CASE Link(p) /\ ~LinksHere(p)
    <2>1. /\ pc[p] = "link" /\ pc'[p] = "loadTail"
          /\ \A u \in Threads \ {p} : pc'[u] = pc[u] /\ local'[u] = local[u] /\ count'[u] = count[u]
          /\ UNCHANGED <<head, tail, node, used, pushed, popped, count, local>>
      BY <1>1, <1>7 DEF Link, Goto
    <2>2. Pushes(c, p)' /\ Helps(c, p)'
      BY <2>1 DEF Pushes, Helps
    <2>3. ~AllDone /\ pc[p] \in Unlinked /\ \A i \in Nat : TailFrom(c, i) => TailFrom(c, i)'
      BY <1>1, <2>1, Running DEF TailFrom, Unlinked
    <2>4. QED
      BY <1>1, <2>1, <2>2, <2>3, ChainStays
  <1>8. QED
    BY <1>2, <1>3, <1>4, <1>5, <1>6, <1>7

(* Steps of pop that only look, move tail_ or delete. *)
LEMMA PopLooks ==
  ASSUME TypeOK, TypeOK', Control, NEW c \in Seq(Addresses), Chain(c), NEW t \in Consumers,
         \/ LoadHead(t) \/ LoadTail(t) \/ LoadHeadNext(t) \/ CheckHead(t) \/ ReturnsEmpty(t)
         \/ Help(t) \/ ReadData(t) \/ Delete(t)
         \/ Advance(t) /\ ~Advances(t)
  PROVE  Chain(c)'
  <1> USE Roles DEF memory, history
  <1>1. /\ t \in Threads /\ t \notin Producers /\ Linked(c) /\ Pops(c, t) /\ Helps(c, t)
        /\ TailFrom(c, Len(popped) + 1) /\ pc \in [Threads -> PCs] /\ count \in [Threads -> Nat]
        /\ local \in [Threads -> Locals]
    BY DEF Chain, TypeOK
  <1>2. /\ Len(c) \in Nat /\ Len(pushed) \in Nat /\ Len(popped) \in Nat /\ Len(popped) <= Len(pushed)
        /\ Len(c) = Len(pushed) + 1 /\ \A i \in 1..Len(c) : c[i] # Null
        /\ \A i, j \in 1..Len(c) : c[i] = c[j] => i = j
    BY Lengths DEF Chain, Linked, HeadAt
  <1>3. CASE LoadHead(t)
    <2>1. /\ pc[t] = "loadHead" /\ pc'[t] = "loadTail" /\ local'[t].head = head
          /\ local'[t].new = local[t].new
          /\ \A u \in Threads \ {t} : pc'[u] = pc[u] /\ local'[u] = local[u] /\ count'[u] = count[u]
          /\ UNCHANGED <<head, tail, node, used, pushed, popped, count>>
      BY <1>1, <1>3 DEF LoadHead, Goto, Locals
    <2>2. ~AllDone /\ \A i \in Nat : TailFrom(c, i) => TailFrom(c, i)'
      BY <1>1, <2>1, Running DEF TailFrom
    <2>3. head = c[Len(popped) + 1] /\ Len(popped) + 1 \in 1..Len(popped) + 1
      BY <1>2, <2>2 DEF Chain, HeadAt
    <2>4. Pops(c, t)' /\ Helps(c, t)'
      BY <2>1, <2>3 DEF Pops, Helps
    <2>5. QED
      BY <1>1, <2>1, <2>2, <2>4, ChainStays
  <1>4. CASE LoadTail(t)
    <2>1. /\ pc[t] = "loadTail" /\ pc'[t] = "loadNext" /\ local'[t].tail = tail
          /\ local'[t].new = local[t].new /\ local'[t].head = local[t].head
          /\ \A u \in Threads \ {t} : pc'[u] = pc[u] /\ local'[u] = local[u] /\ count'[u] = count[u]
          /\ UNCHANGED <<head, tail, node, used, pushed, popped, count>>
      BY <1>1, <1>4 DEF LoadTail, Goto, Locals
    <2>2. ~AllDone /\ \A i \in Nat : TailFrom(c, i) => TailFrom(c, i)'
      BY <1>1, <2>1, Running DEF TailFrom
    <2>3. PICK i \in 1..Len(popped) + 1 : local[t].head = c[i]
      BY <1>1, <2>1 DEF Pops
    <2>4. PICK k \in 1..Len(c) : Len(popped) + 1 <= k /\ tail = c[k]
      BY <1>1 DEF TailFrom
    <2>5. k \in i..Len(c) /\ TailFrom(c, k)'
      BY <1>2, <2>1, <2>4 DEF TailFrom
    <2>6. Pops(c, t)' /\ Helps(c, t)'
      BY <2>1, <2>3, <2>4, <2>5 DEF Pops, Helps
    <2>7. QED
      BY <1>1, <2>1, <2>2, <2>6, ChainStays
  <1>5. CASE LoadHeadNext(t)
    <2>1. /\ pc[t] = "loadNext" /\ pc'[t] = "checkHead" /\ local'[t].next = At(local[t].head).next
          /\ local'[t].sawEmpty = (Len(pushed) = Len(popped))
          /\ local'[t].new = local[t].new /\ local'[t].head = local[t].head
          /\ local'[t].tail = local[t].tail
          /\ \A u \in Threads \ {t} : pc'[u] = pc[u] /\ local'[u] = local[u] /\ count'[u] = count[u]
          /\ UNCHANGED <<head, tail, node, used, pushed, popped, count>>
      BY <1>1, <1>5 DEF LoadHeadNext, Goto, Locals
    <2>2. ~AllDone /\ \A i \in Nat : TailFrom(c, i) => TailFrom(c, i)'
      BY <1>1, <2>1, Running DEF TailFrom
    <2>3. PICK i \in 1..Len(popped) + 1 : \E j \in i..Len(c) :
            local[t].head = c[i] /\ local[t].tail = c[j] /\ TailFrom(c, j)
      BY <1>1, <2>1 DEF Pops
    <2>4. PICK j \in i..Len(c) : local[t].head = c[i] /\ local[t].tail = c[j] /\ TailFrom(c, j)
      BY <2>3
    <2>5. i \in 1..Len(c) /\ j \in Nat /\ i <= j
      BY <1>2
    <2>6. /\ local'[t].next = Null => i = Len(c)
          /\ local'[t].next # Null => i \in 1..Len(pushed) /\ local'[t].next = c[i + 1]
      BY <1>1, <2>1, <2>4, <2>5, Links
    <2>7. local'[t].next = Null => local'[t].sawEmpty /\ i = j
      <3>1. i = Len(c) => Len(pushed) = Len(popped) /\ i = j
        BY <1>2, <2>5
      <3>2. QED
        BY <2>1, <2>6, <3>1
    <2>8. TailFrom(c, j)'
      BY <2>2, <2>4, <2>5
    <2>9. Pops(c, t)'
      BY <2>1, <2>4, <2>6, <2>7, <2>8 DEF Pops
    <2>10. Helps(c, t)'
      BY <2>1 DEF Helps
    <2>11. QED
      BY <1>1, <2>1, <2>2, <2>9, <2>10, ChainStays
  <1>6. CASE CheckHead(t)
    <2>1. /\ pc[t] = "checkHead"
          /\ \/ pc'[t] = "loadHead"
             \/ pc'[t] = "empty" /\ local[t].next = Null
             \/ pc'[t] = "help" /\ local[t].head = local[t].tail /\ local[t].next # Null
             \/ pc'[t] = "read" /\ local[t].head # local[t].tail
          /\ \A u \in Threads \ {t} : pc'[u] = pc[u] /\ local'[u] = local[u] /\ count'[u] = count[u]
          /\ UNCHANGED <<head, tail, node, used, pushed, popped, count, local>>
      BY <1>1, <1>6 DEF CheckHead, AnswersEmpty, Goto
    <2>2. ~AllDone /\ \A i \in Nat : TailFrom(c, i) => TailFrom(c, i)'
      BY <1>1, <2>1, Running DEF TailFrom
    <2>3. PICK i \in 1..Len(popped) + 1 : \E j \in i..Len(c) :
            /\ local[t].head = c[i] /\ local[t].tail = c[j] /\ TailFrom(c, j)
            /\ IF local[t].next = Null THEN local[t].sawEmpty /\ i = j
               ELSE i <= Len(pushed) /\ local[t].next = c[i + 1]
      BY <1>1, <2>1 DEF Pops
    <2>4. PICK j \in i..Len(c) :
            /\ local[t].head = c[i] /\ local[t].tail = c[j] /\ TailFrom(c, j)
            /\ IF local[t].next = Null THEN local[t].sawEmpty /\ i = j
               ELSE i <= Len(pushed) /\ local[t].next = c[i + 1]
      BY <2>3
    <2>5. i \in 1..Len(c) /\ j \in 1..Len(c) /\ i <= j
      BY <1>2
    <2>6. pc'[t] = "help" => i \in 1..Len(pushed) /\ local[t].tail = c[i] /\ local[t].next = c[i + 1]
      BY <1>2, <2>1, <2>4, <2>5
    <2>7. pc'[t] = "read" => i \in 1..Len(pushed) /\ local[t].next = c[i + 1] /\ i + 1 <= j
      BY <1>2, <2>1, <2>4, <2>5
    <2>8. pc'[t] = "read" => TailFrom(c, i + 1)'
      <3>1. PICK k \in 1..Len(c) : j <= k /\ tail = c[k]
        BY <2>4 DEF TailFrom
      <3>2. i + 1 <= j => i + 1 <= k
        BY <1>2, <2>5, <3>1
      <3>3. QED
        BY <2>1, <2>7, <3>1, <3>2 DEF TailFrom
    <2>9. Pops(c, t)'
      BY <2>1, <2>4, <2>7, <2>8 DEF Pops
    <2>10. Helps(c, t)'
      BY <2>1, <2>6 DEF Helps
    <2>11. QED
      BY <1>1, <2>1, <2>2, <2>9, <2>10, ChainStays
  <1>7. CASE ReturnsEmpty(t) \/ Delete(t) \/ (Advance(t) /\ ~Advances(t))
    <2>1. /\ pc[t] # "done" /\ pc'[t] \in {"loadHead", "done"}
          /\ \A u \in Threads \ {t} : pc'[u] = pc[u] /\ local'[u] = local[u] /\ count'[u] = count[u]
          /\ UNCHANGED <<head, tail, node, used, pushed, popped, local>>
      BY <1>1, <1>7 DEF ReturnsEmpty, Delete, Advance, Completes, Goto, Call
    <2>2. ~AllDone /\ \A i \in Nat : TailFrom(c, i) => TailFrom(c, i)'
      BY <1>1, <2>1, Running DEF TailFrom
    <2>3. Pops(c, t)' /\ Helps(c, t)'
      BY <2>1 DEF Pops, Helps
    <2>4. QED
      BY <1>1, <2>1, <2>2, <2>3, ChainStays
  <1>8. CASE Help(t)
    <2>1. /\ pc[t] = "help" /\ pc'[t] = "loadHead"
          /\ \A u \in Threads \ {t} : pc'[u] = pc[u] /\ local'[u] = local[u] /\ count'[u] = count[u]
          /\ UNCHANGED <<head, node, used, pushed, popped, count, local>>
          /\ tail' = IF tail = local[t].tail THEN local[t].next ELSE tail
      BY <1>1, <1>8 DEF Help, Goto, Again, SwingTail
    <2>2. PICK k \in 1..Len(pushed) : local[t].tail = c[k] /\ local[t].next = c[k + 1]
      BY <1>1, <2>1 DEF Helps
    <2>3. \A i \in Nat : TailFrom(c, i) => TailFrom(c, i)'
      BY <1>1, <2>1, <2>2, TailMovesOn
    <2>4. Pops(c, t)' /\ Helps(c, t)'
      BY <2>1 DEF Pops, Helps
    <2>5. ~AllDone
      BY <1>1, <2>1, Running
    <2>6. QED
      BY <1>1, <2>1, <2>3, <2>4, <2>5, ChainStays
  <1>9. CASE ReadData(t)
    <2>1. /\ pc[t] = "read" /\ pc'[t] = "advance" /\ local'[t].data = At(local[t].next).data
          /\ local'[t].new = local[t].new /\ local'[t].head = local[t].head
          /\ local'[t].next = local[t].next
          /\ \A u \in Threads \ {t} : pc'[u] = pc[u] /\ local'[u] = local[u] /\ count'[u] = count[u]
          /\ UNCHANGED <<head, tail, node, used, pushed, popped, count>>
      BY <1>1, <1>9 DEF ReadData, Goto, Locals
    <2>2. ~AllDone /\ \A i \in Nat : TailFrom(c, i) => TailFrom(c, i)'
      BY <1>1, <2>1, Running DEF TailFrom
    <2>3. PICK i \in 1..Len(pushed) :
            local[t].head = c[i] /\ local[t].next = c[i + 1] /\ TailFrom(c, i + 1)
      BY <1>1, <2>1 DEF Pops
    <2>4. i + 1 \in 1..Len(c) /\ i + 1 \in Nat
      BY <1>2
    <2>5. local'[t].data = pushed[i]
      <3>1. At(c[i + 1]) = node[c[i + 1]]
        BY <1>1, <2>4, Links
      <3>2. node[c[i + 1]].data = pushed[i]
        BY <1>1 DEF Linked
      <3>3. QED
        BY <2>1, <2>3, <3>1, <3>2
    <2>6. TailFrom(c, i + 1)'
      BY <2>2, <2>3, <2>4
    <2>7. Pops(c, t)'
      BY <2>1, <2>3, <2>5, <2>6 DEF Pops
    <2>8. Helps(c, t)'
      BY <2>1 DEF Helps
    <2>9. QED
      BY <1>1, <2>1, <2>2, <2>7, <2>8, ChainStays
  <1>10. QED
    BY <1>3, <1>4, <1>5, <1>6, <1>7, <1>8, <1>9
(* compare_exchange_weak fails for no reason. *)
LEMMA FailureLooks ==
  ASSUME TypeOK, TypeOK', Control, NEW c \in Seq(Addresses), Chain(c), NEW t \in Threads,
         FailsSpuriously(t)
  PROVE  Chain(c)'
  <1> USE Roles DEF memory, history
  <1>1. /\ pc \in [Threads -> PCs] /\ count \in [Threads -> Nat]
        /\ t \in Producers => t \notin Consumers
        /\ t \in Producers => pc[t] \in ProducerPCs
        /\ t \in Consumers => pc[t] \in ConsumerPCs
    BY DEF TypeOK, Control
  <1>2. /\ pc[t] # "done"
        /\ \/ /\ pc[t] \in {"link", "help"} /\ pc'[t] = "loadTail" /\ count' = count
              /\ t \in Producers
           \/ pc'[t] \in {"loadHead", "done", "new"}
        /\ \A u \in Threads \ {t} : pc'[u] = pc[u] /\ local'[u] = local[u] /\ count'[u] = count[u]
        /\ UNCHANGED <<head, tail, node, used, pushed, popped, local>>
    BY <1>1 DEF FailsSpuriously, Completes, Goto, Call, Again, ProducerPCs, ConsumerPCs
  <1>3. ~AllDone /\ \A i \in Nat : TailFrom(c, i) => TailFrom(c, i)'
    BY <1>2, Running DEF TailFrom
  <1>4. /\ t \in Producers => Pushes(c, t)'
        /\ t \in Consumers => Pops(c, t)'
        /\ Helps(c, t)'
    BY <1>1, <1>2 DEF Pushes, Pops, Helps
  <1>5. pc'[t] \in Unlinked => pc[t] \in Unlinked /\ count'[t] = count[t]
    BY <1>2 DEF Unlinked
  <1>6. QED
    BY <1>2, <1>3, <1>4, <1>5, ChainStays

(* A new node is not in the chain, and no other producer has it. *)
LEMMA Allocates ==
  ASSUME TypeOK, TypeOK', ~scenario.reuse, NEW c \in Seq(Addresses), Chain(c),
         NEW p \in Producers, Allocate(p)
  PROVE  Chain(c)'
  <1> USE Roles DEF memory, history
  <1>1. PICK a \in Addresses \ used :
          /\ local' = [local EXCEPT ![p].new = a]
          /\ node' = [node EXCEPT ![a] = [next |-> Null, data |-> <<p[2], count[p]>>]]
          /\ used' = used \cup {a}
    BY DEF Allocate, Free
  <1>2. /\ pc[p] = "new" /\ pc' = [pc EXCEPT ![p] = "loadTail"]
        /\ UNCHANGED <<head, tail, pushed, popped, count>>
    BY DEF Allocate, Goto
  <1>3. /\ pc \in [Threads -> PCs] /\ local \in [Threads -> Locals] /\ used \subseteq Addresses
        /\ node \in [Addresses -> [next : Pointers, data : Values \cup {Null}]]
        /\ p \in Threads /\ p \notin Consumers
    BY DEF TypeOK
  <1>4. /\ \A t \in Threads \ {p} : pc'[t] = pc[t] /\ local'[t] = local[t]
        /\ pc'[p] = "loadTail" /\ local'[p].new = a
        /\ \A b \in used : node'[b] = node[b]
        /\ node'[a] = [next |-> Null, data |-> <<p[2], count[p]>>]
    BY <1>1, <1>2, <1>3 DEF Locals
  <1>5. /\ Linked(c) /\ HeadAt(c) /\ TailFrom(c, Len(popped) + 1) /\ ~AllDone
        /\ Len(c) \in Nat /\ Len(pushed) \in Nat /\ Len(c) = Len(pushed) + 1 /\ Len(popped) \in Nat
        /\ \A q \in Producers : NewNode(c, q) /\ Pushes(c, q)
        /\ \A q \in Consumers : Pops(c, q)
        /\ \A t \in Threads : Helps(c, t)
    BY <1>2, <1>3, Lengths, Running DEF Chain, Linked
  <1>6. \A i \in 1..Len(c) : c[i] \in used /\ c[i] # a /\ node'[c[i]] = node[c[i]]
    BY <1>1, <1>4, <1>5 DEF Linked
  <1>7. Linked(c)'
    <2>1. \A i \in 1..Len(pushed) : node'[c[i]].next = c[i + 1] /\ node'[c[i + 1]].data = pushed[i]
      BY <1>5, <1>6 DEF Linked
    <2>2. node'[c[Len(c)]].next = Null
      BY <1>5, <1>6 DEF Linked
    <2>3. QED
      BY <1>1, <1>2, <1>5, <1>6, <2>1, <2>2 DEF Linked
  <1>8. HeadAt(c)' /\ TailFrom(c, Len(popped) + 1)' /\ \A i \in Nat : TailFrom(c, i) => TailFrom(c, i)'
    BY <1>2, <1>5 DEF HeadAt, TailFrom
  <1>9. Grows(c, c)
    BY <1>2, <1>5, <1>8 DEF Grows
  <1>10. Pushes(c, p)' /\ Helps(c, p)'
    BY <1>4 DEF Pushes, Helps
  <1>11. \A t \in Threads \ {p} : /\ Pushes(c, t) => Pushes(c, t)'
                                  /\ Helps(c, t) => Helps(c, t)'
                                  /\ Pops(c, t) => Pops(c, t)'
    BY <1>4, <1>5, <1>9, KnowledgeStays
  <1>12. ASSUME NEW q \in Producers PROVE NewNode(c, q)'
    <2>1. \A r \in Producers \ {p} : pc[r] \in Unlinked => local[r].new \in used
      BY <1>5 DEF NewNode
    <2>2. CASE q = p
      <3>1. \A r \in Producers : r # p /\ pc'[r] \in Unlinked => local'[r].new # a
        BY <1>1, <1>4, <2>1
      <3>2. QED
        BY <1>1, <1>2, <1>4, <1>6, <2>2, <3>1 DEF NewNode
    <2>3. CASE q # p
      <3>1. pc'[q] = pc[q] /\ local'[q] = local[q] /\ q \in Threads
        BY <1>4, <2>3
      <3>2. SUFFICES ASSUME pc[q] \in Unlinked PROVE NewNode(c, q)'
        BY <3>1 DEF NewNode
      <3>3. /\ local[q].new \in used /\ \A i \in 1..Len(c) : c[i] # local[q].new
            /\ node[local[q].new] = [next |-> Null, data |-> <<q[2], count[q]>>]
            /\ \A r \in Producers : r # q /\ pc[r] \in Unlinked => local[r].new # local[q].new
        BY <1>5, <3>2 DEF NewNode
      <3>4. \A r \in Producers : r # q /\ pc'[r] \in Unlinked => local'[r].new # local[q].new
        BY <1>1, <1>4, <3>3
      <3>5. local[q].new \in used' /\ node'[local[q].new] = node[local[q].new] /\ count' = count
        BY <1>1, <1>2, <1>4, <3>3
      <3>6. QED
        BY <3>1, <3>3, <3>4, <3>5 DEF NewNode
    <2>4. QED
      BY <2>2, <2>3
  <1>13. QED
    BY <1>5, <1>7, <1>8, <1>10, <1>11, <1>12 DEF Chain, Threads

(* A successful compare-exchange of next_ extends the chain by the producer's node: the
   currentTail is the last node of the chain, for no other leads nowhere. *)
LEMMA LinkExtends ==
  ASSUME TypeOK, TypeOK', NEW c \in Seq(Addresses), Chain(c), NEW p \in Producers,
         Link(p), LinksHere(p), NEW d \in Seq(Addresses), d = Append(c, local[p].new)
  PROVE  Chain(d)'
  <1> USE Roles DEF memory, history
  <1> DEFINE a == local[p].new
             v == <<p[2], count[p]>>
             n == Len(c)
  <1>1. /\ pc[p] = "link" /\ pc' = [pc EXCEPT ![p] = "swing"]
        /\ node' = [node EXCEPT ![local[p].tail].next = a]
        /\ pushed' = Append(pushed, v)
        /\ UNCHANGED <<head, tail, used, local, popped, count>>
        /\ At(local[p].tail).next = Null
    BY DEF Link, LinksHere, Goto
  <1>2. /\ pc \in [Threads -> PCs] /\ local \in [Threads -> Locals] /\ used \subseteq Addresses
        /\ node \in [Addresses -> [next : Pointers, data : Values \cup {Null}]]
        /\ pushed \in Seq(Values) /\ p \in Threads /\ p \notin Consumers /\ count[p] \in Nat
    BY DEF TypeOK
  <1>3. /\ Linked(c) /\ HeadAt(c) /\ TailFrom(c, Len(popped) + 1) /\ ~AllDone
        /\ n \in Nat /\ Len(pushed) \in Nat /\ n = Len(pushed) + 1 /\ Len(popped) \in Nat
        /\ \A q \in Producers : NewNode(c, q) /\ Pushes(c, q)
        /\ \A q \in Consumers : Pops(c, q)
        /\ \A t \in Threads : Helps(c, t)
    BY <1>1, <1>2, Lengths, Running DEF Chain, Linked
  <1>4. /\ a \in used /\ \A i \in 1..n : c[i] # a
        /\ node[a] = [next |-> Null, data |-> v]
        /\ \A q \in Producers : q # p /\ pc[q] \in Unlinked => local[q].new # a
    BY <1>1, <1>3 DEF NewNode, Unlinked
  <1>5. local[p].tail = c[n] /\ n \in 1..n
    <2>1. PICK k \in 1..n : local[p].tail = c[k]
      BY <1>1, <1>3 DEF Pushes
    <2>2. k = n
      BY <1>1, <1>3, <2>1, Links
    <2>3. QED
      BY <2>1, <2>2
  <1>6. v \in Values /\ a \in Addresses
    BY <1>2, <1>4 DEF Values, Producers
  <1>7. /\ d \in Seq(Addresses) /\ Len(d) = n + 1 /\ d[n + 1] = a
        /\ \A i \in 1..n : d[i] = c[i]
    BY <1>6, AppendProperties
  <1>8. /\ Len(pushed') = n /\ pushed'[n] = v
        /\ \A i \in 1..Len(pushed) : pushed'[i] = pushed[i]
    <2>1. /\ Len(pushed') = Len(pushed) + 1 /\ pushed'[Len(pushed) + 1] = v
          /\ \A i \in 1..Len(pushed) : pushed'[i] = pushed[i]
      BY <1>1, <1>2, <1>6, AppendProperties
    <2>2. QED
      BY <1>3, <2>1
  <1>9. /\ \A i \in 1..n : c[i] \in used /\ c[i] \in Addresses
        /\ \A b \in Addresses : b # c[n] => node'[b] = node[b]
        /\ node'[c[n]] = [node[c[n]] EXCEPT !.next = a]
        /\ node[c[n]] \in [next : Pointers, data : Values \cup {Null}]
    BY <1>1, <1>2, <1>3, <1>5 DEF Linked
  <1>10. Linked(d)'
    <2>1. \A i, j \in 1..Len(d) : d[i] = d[j] => i = j
      <3>1. \A i \in 1..Len(d) : i \in 1..n \/ i = n + 1
        BY <1>3, <1>7
      <3>2. \A i, j \in 1..n : c[i] = c[j] => i = j
        BY <1>3 DEF Linked
      <3>3. QED
        BY <1>4, <1>7, <3>1, <3>2
    <2>2. \A i \in 1..Len(d) : d[i] \in used'
      <3>1. \A i \in 1..Len(d) : i \in 1..n \/ i = n + 1
        BY <1>3, <1>7
      <3>2. QED
        BY <1>1, <1>4, <1>7, <1>9, <3>1
    <2>3. \A i \in 1..Len(pushed') : node'[d[i]].next = d[i + 1]
      <3>1. node'[c[n]].next = a
        BY <1>9
      <3>2. ASSUME NEW i \in 1..Len(pushed) PROVE node'[c[i]].next = c[i + 1] /\ i + 1 \in 1..n /\ i \in 1..n
        <4>1. i \in 1..n /\ i + 1 \in 1..n /\ i # n
          BY <1>3
        <4>2. c[i] # c[n]
          BY <1>3, <1>5, <4>1 DEF Linked
        <4>3. node'[c[i]] = node[c[i]]
          BY <1>9, <4>1, <4>2
        <4>4. QED
          BY <1>3, <4>1, <4>3 DEF Linked
      <3>3. \A i \in 1..Len(pushed') : i \in 1..Len(pushed) \/ i = n
        BY <1>3, <1>8
      <3>4. QED
        BY <1>5, <1>7, <3>1, <3>2, <3>3
    <2>4. \A i \in 1..Len(pushed') : node'[d[i + 1]].data = pushed'[i]
      <3>1. node'[a].data = v
        BY <1>4, <1>5, <1>6, <1>9
      <3>2. ASSUME NEW i \in 1..Len(pushed) PROVE node'[c[i + 1]].data = pushed'[i] /\ i + 1 \in 1..n
        <4>1. i + 1 \in 1..n
          BY <1>3
        <4>2. node'[c[i + 1]].data = node[c[i + 1]].data
          BY <1>9, <4>1
        <4>3. QED
          BY <1>3, <1>8, <4>1, <4>2 DEF Linked
      <3>3. \A i \in 1..Len(pushed') : i \in 1..Len(pushed) \/ i = n
        BY <1>3, <1>8
      <3>4. QED
        BY <1>7, <1>8, <3>1, <3>2, <3>3
    <2>5. node'[d[Len(d)]].next = Null
      <3>1. d[Len(d)] = a /\ a # c[n]
        BY <1>4, <1>5, <1>7
      <3>2. node'[a] = node[a]
        BY <1>6, <1>9, <3>1
      <3>3. QED
        BY <1>4, <3>1, <3>2
    <2>6. Len(d) = Len(pushed') + 1
      BY <1>7, <1>8
    <2>7. QED
      BY <2>1, <2>2, <2>3, <2>4, <2>5, <2>6 DEF Linked
  <1>11. \A i \in Nat : TailFrom(c, i) => TailFrom(d, i)'
    <2>1. \A k \in 1..n : k \in 1..Len(d) /\ d[k] = c[k]
      BY <1>3, <1>7
    <2>2. QED
      BY <1>1, <2>1 DEF TailFrom
  <1>12. HeadAt(d)' /\ TailFrom(d, Len(popped) + 1)'
    <2>1. Len(popped) <= Len(pushed) /\ (\A i \in 1..Len(popped) : popped[i] = pushed[i])
          /\ head = c[Len(popped) + 1]
      BY <1>3 DEF HeadAt
    <2>2. Len(popped) + 1 \in 1..n /\ Len(popped) <= Len(pushed') /\ Len(popped) + 1 \in Nat
          /\ \A i \in 1..Len(popped) : i \in 1..Len(pushed)
      BY <1>3, <1>8, <2>1
    <2>3. HeadAt(d)'
      BY <1>1, <1>7, <1>8, <2>1, <2>2 DEF HeadAt
    <2>4. TailFrom(d, Len(popped) + 1)'
      BY <1>1, <1>3, <1>11, <2>2 DEF TailFrom
    <2>5. QED
      BY <2>3, <2>4
  <1>13. Grows(c, d)
    BY <1>1, <1>3, <1>7, <1>8, <1>11 DEF Grows
  <1>14. Pushes(d, p)' /\ Helps(d, p)'
    <2>1. pc'[p] = "swing"
      BY <1>1, <1>2
    <2>2. n \in 1..Len(pushed') /\ local'[p].tail = d[n] /\ local'[p].new = d[n + 1]
      BY <1>1, <1>5, <1>7, <1>8
    <2>3. QED
      BY <2>1, <2>2 DEF Pushes, Helps
  <1>15. \A t \in Threads \ {p} : pc'[t] = pc[t] /\ local'[t] = local[t] /\ count'[t] = count[t]
    BY <1>1, <1>2
  <1>16. \A t \in Threads \ {p} : /\ Pushes(c, t) => Pushes(d, t)'
                                  /\ Helps(c, t) => Helps(d, t)'
                                  /\ Pops(c, t) => Pops(d, t)'
    BY <1>3, <1>7, <1>13, <1>15, KnowledgeStays
  <1>17. ASSUME NEW q \in Producers PROVE NewNode(d, q)'
    <2>1. pc'[p] \notin Unlinked /\ local'[p].new = local[p].new /\ used \subseteq used'
      BY <1>1, <1>2 DEF Unlinked
    <2>2. ASSUME pc[q] \in Unlinked, pc'[q] \in Unlinked
          PROVE  /\ node'[local[q].new] = node[local[q].new]
                 /\ \A i \in 1..Len(d) : d[i] # local[q].new
      <3>1. q # p
        BY <2>1, <2>2
      <3>2. /\ local[q].new \in used /\ \A i \in 1..n : c[i] # local[q].new
            /\ local[q].new # a
        BY <1>3, <1>4, <2>2, <3>1 DEF NewNode
      <3>3. \A i \in 1..Len(d) : i \in 1..n \/ i = n + 1
        BY <1>3, <1>7
      <3>4. QED
        BY <1>2, <1>5, <1>7, <1>9, <3>2, <3>3
    <2>3. QED
      BY <1>2, <1>3, <1>7, <1>15, <2>1, <2>2, NewNodesStay
  <1>18. QED
    BY <1>3, <1>10, <1>12, <1>14, <1>16, <1>17 DEF Chain, Threads
(* A successful compare-exchange of head_ takes the value of the node after it: that is the
   first value not popped yet, for head_ is where this thread read it. *)
LEMMA Advancing ==
  ASSUME TypeOK, TypeOK', NEW c \in Seq(Addresses), Chain(c), NEW t \in Consumers,
         Advance(t), Advances(t)
  PROVE  Chain(c)'
  <1> USE Roles DEF memory, history
  <1> DEFINE m == Len(popped)
  <1>1. /\ pc[t] = "advance" /\ pc' = [pc EXCEPT ![t] = "delete"]
        /\ head = local[t].head /\ head' = local[t].next /\ popped' = Append(popped, local[t].data)
        /\ UNCHANGED <<tail, node, used, local, pushed, count>>
    BY DEF Advance, Advances, Goto
  <1>2. /\ pc \in [Threads -> PCs] /\ popped \in Seq(Values \cup {Null}) /\ pushed \in Seq(Values)
        /\ t \in Threads /\ t \notin Producers
    BY DEF TypeOK
  <1>3. /\ Linked(c) /\ HeadAt(c) /\ TailFrom(c, m + 1) /\ ~AllDone
        /\ Len(c) \in Nat /\ Len(pushed) \in Nat /\ Len(c) = Len(pushed) + 1 /\ m \in Nat
        /\ \A q \in Producers : NewNode(c, q) /\ Pushes(c, q)
        /\ \A q \in Consumers : Pops(c, q)
        /\ \A u \in Threads : Helps(c, u)
    BY <1>1, <1>2, Lengths, Running DEF Chain, Linked
  <1>4. PICK i \in 1..Len(pushed) : /\ local[t].head = c[i] /\ local[t].next = c[i + 1]
                                    /\ TailFrom(c, i + 1) /\ local[t].data = pushed[i]
    BY <1>1, <1>3 DEF Pops
  <1>5. m <= Len(pushed) /\ head = c[m + 1] /\ \A j \in 1..m : popped[j] = pushed[j]
    BY <1>3 DEF HeadAt
  <1>6. i = m + 1
    <2>1. i \in 1..Len(c) /\ m + 1 \in 1..Len(c) /\ c[i] = c[m + 1]
      BY <1>1, <1>3, <1>4, <1>5
    <2>2. QED
      BY <1>3, <2>1 DEF Linked
  <1>7. /\ Len(popped') = i /\ popped'[i] = pushed[i]
        /\ \A j \in 1..i : popped'[j] = pushed[j]
    <2>1. pushed[i] \in Values
      BY <1>2, ElementOfSeq
    <2>2. /\ Len(popped') = m + 1 /\ popped'[m + 1] = pushed[i]
          /\ \A j \in 1..m : popped'[j] = popped[j]
      BY <1>1, <1>2, <1>4, <2>1, AppendProperties
    <2>3. \A j \in 1..i : j \in 1..m \/ j = i
      BY <1>3, <1>6
    <2>4. QED
      BY <1>5, <1>6, <2>2, <2>3
  <1>8. HeadAt(c)'
    BY <1>1, <1>4, <1>7 DEF HeadAt
  <1>9. TailFrom(c, Len(popped) + 1)'
    BY <1>1, <1>4, <1>7 DEF TailFrom
  <1>10. Linked(c)' /\ \A j \in Nat : TailFrom(c, j) => TailFrom(c, j)'
    BY <1>1, <1>3 DEF Linked, TailFrom
  <1>11. Grows(c, c)
    BY <1>1, <1>3, <1>6, <1>7, <1>10 DEF Grows
  <1>12. pc'[t] = "delete" /\ \A u \in Threads \ {t} : pc'[u] = pc[u] /\ local'[u] = local[u]
    BY <1>1, <1>2
  <1>13. Pops(c, t)' /\ Helps(c, t)'
    BY <1>12 DEF Pops, Helps
  <1>14. \A u \in Threads \ {t} : /\ Pushes(c, u) => Pushes(c, u)'
                                  /\ Helps(c, u) => Helps(c, u)'
                                  /\ Pops(c, u) => Pops(c, u)'
    BY <1>3, <1>11, <1>12, KnowledgeStays
  <1>15. ASSUME NEW q \in Producers PROVE NewNode(c, q)'
    <2>1. \A p \in Producers : pc'[p] = pc[p]
      BY <1>2, <1>12
    <2>2. QED
      BY <1>1, <1>3, <2>1 DEF NewNode
  <1>16. QED
    BY <1>2, <1>3, <1>8, <1>9, <1>10, <1>13, <1>14, <1>15 DEF Chain, Threads

(* The destructor looks at the chain, when no thread does any more. *)
LEMMA Destroying ==
  ASSUME TypeOK, NEW c \in Seq(Addresses), Chain(c), Destroy
  PROVE  Chain(c)'
  <1> USE DEF memory, history
  <1>1. AllDone /\ AllDone' /\ UNCHANGED <<pc, count, tail, node, used, local, pushed, popped>>
    BY DEF Destroy, AllDone
  <1>2. Linked(c)' /\ HeadAt(c)' /\ TailFrom(c, Len(popped) + 1)'
    BY <1>1 DEF Chain, Linked, HeadAt, TailFrom
  <1>3. \A t \in Threads : pc'[t] = "done"
    BY <1>1 DEF AllDone
  <1>4. \A t \in Threads : NewNode(c, t)' /\ Pushes(c, t)' /\ Helps(c, t)' /\ Pops(c, t)'
    BY <1>3 DEF NewNode, Unlinked, Pushes, Helps, Pops
  <1>5. QED
    BY <1>2, <1>4, Roles DEF Chain

(* Nothing changes. *)
LEMMA Stuttering ==
  ASSUME NEW c \in Seq(Addresses), Chain(c), UNCHANGED vars
  PROVE  Chain(c)'
  <1> USE DEF vars, memory, history
  <1>1. /\ Linked(c)' <=> Linked(c)
        /\ HeadAt(c)' <=> HeadAt(c)
        /\ TailFrom(c, Len(popped) + 1)' <=> TailFrom(c, Len(popped) + 1)
    BY DEF Linked, HeadAt, AllDone, TailFrom
  <1>2. ASSUME NEW t \in Threads
        PROVE  /\ NewNode(c, t)' <=> NewNode(c, t)
               /\ Pushes(c, t)' <=> Pushes(c, t)
               /\ Helps(c, t)' <=> Helps(c, t)
    BY DEF NewNode, Pushes, Helps
  <1>3. ASSUME NEW t \in Threads PROVE Pops(c, t)' <=> Pops(c, t)
    BY DEF Pops, TailFrom
  <1>4. QED
    BY <1>1, <1>2, <1>3, Roles DEF Chain

(* As long as no address is reused there is a chain after every step. *)
LEMMA StepChain ==
  ASSUME TypeOK, TypeOK', Control, ~scenario.reuse, [Next]_vars,
         NEW c \in Seq(Addresses), Chain(c)
  PROVE  \E d \in Seq(Addresses) : Chain(d)'
  <1>1. ASSUME NEW p \in Producers, Push(p) PROVE \E d \in Seq(Addresses) : Chain(d)'
    <2>1. CASE Allocate(p)
      BY <2>1, Allocates
    <2>2. CASE Link(p) /\ LinksHere(p)
      <3>1. local[p].new \in Addresses
        <4>1. pc[p] = "link" /\ p \in Threads
          BY <2>2, Roles DEF Link, Goto
        <4>2. local[p].new \in used
          BY <4>1 DEF Chain, NewNode, Unlinked
        <4>3. QED
          BY <4>2 DEF TypeOK
      <3>2. Append(c, local[p].new) \in Seq(Addresses)
        BY <3>1, AppendProperties
      <3>3. PICK d \in Seq(Addresses) : d = Append(c, local[p].new)
        BY <3>2
      <3>4. QED
        BY <2>2, <3>3, LinkExtends
    <2>3. CASE ~Allocate(p) /\ ~(Link(p) /\ LinksHere(p))
      BY <1>1, <2>3, PushLooks DEF Push
    <2>4. QED
      BY <2>1, <2>2, <2>3
  <1>2. ASSUME NEW t \in Consumers, Pop(t) PROVE \E d \in Seq(Addresses) : Chain(d)'
    <2>1. CASE Advance(t) /\ Advances(t)
      BY <2>1, Advancing
    <2>2. CASE ~(Advance(t) /\ Advances(t))
      BY <1>2, <2>2, PopLooks DEF Pop
    <2>3. QED
      BY <2>1, <2>2
  <1>3. ASSUME NEW t \in Threads, FailsSpuriously(t) PROVE \E d \in Seq(Addresses) : Chain(d)'
    BY <1>3, FailureLooks
  <1>4. CASE Destroy
    BY <1>4, Destroying
  <1>5. CASE UNCHANGED vars
    BY <1>5, Stuttering
  <1>6. QED
    BY <1>1, <1>2, <1>3, <1>4, <1>5 DEF Next, Ended

-----------------------------------------------------------------------------
(* One producer and one consumer, on memory that is reused. *)

(* Both threads exist, and are different. *)
LEMMA TheTwo ==
  ASSUME TypeOK, Alone
  PROVE  /\ P \in Producers /\ C \in Consumers /\ P \in Threads /\ C \in Threads /\ P # C
         /\ P[2] = 1 /\ spurious \in Nat /\ ~(spurious < scenario.failures)
  <1>1. scenario.pairs \in 1..MaxPairs /\ MaxPairs \in Nat
    BY LockFreeQueueAssumption DEF TypeOK
  <1>2. 1 \in 1..MaxPairs
    BY <1>1 DEF Alone
  <1>3. P \in Producers /\ C \in Consumers /\ P # C /\ P[2] = 1
    BY <1>2 DEF P, C, Producers, Consumers
  <1>4. QED
    BY <1>3, Roles DEF TypeOK, Alone

(* What the invariant gives while a thread runs. *)
LEMMA Sizes ==
  ASSUME TypeOK, NEW q \in Seq(Addresses), Queue(q), ~AllDone
  PROVE  /\ Len(pushed) \in Nat /\ Len(popped) \in Nat /\ Len(q) \in Nat /\ Len(q) >= 1
         /\ Len(popped) + Len(q) = Len(pushed) + 1
         /\ \A i \in 1..Len(q) : q[i] \in Addresses /\ q[i] # Null /\ q[i] \in live
         /\ \A i, j \in 1..Len(q) : q[i] = q[j] => i = j
         /\ 1 \in 1..Len(q) /\ Len(q) \in 1..Len(q) /\ head = q[1]
         /\ tail = q[Len(q)] \/ (Len(q) >= 2 /\ tail = q[Len(q) - 1])
         /\ tail \in live
  <1>1. /\ Len(pushed) \in Nat /\ Len(popped) \in Nat /\ Len(q) \in Nat
        /\ \A i \in 1..Len(q) : q[i] \in Addresses /\ q[i] # Null
    BY Lengths
  <1>2. /\ Len(popped) <= Len(pushed) /\ Len(popped) + Len(q) = Len(pushed) + 1
        /\ head = IF Len(q) = 0 THEN Null ELSE q[1]
        /\ \A i, j \in 1..Len(q) : q[i] = q[j] => i = j
        /\ \A a \in Addresses : (\E i \in 1..Len(q) : a = q[i]) => a \in live
    BY DEF Queue, Contents, Cells, Owners, Owned
  <1>3. Len(q) >= 1 /\ 1 \in 1..Len(q) /\ Len(q) \in 1..Len(q) /\ head = q[1]
    BY <1>1, <1>2
  <1>4. tail = q[Len(q)] \/ (Len(q) >= 2 /\ tail = q[Len(q) - 1])
    BY DEF Queue, TailOf
  <1>5. tail \in live
    <2>1. Len(q) >= 2 => Len(q) - 1 \in 1..Len(q)
      BY <1>1
    <2>2. QED
      BY <1>1, <1>2, <1>3, <1>4, <2>1
  <1>6. QED
    BY <1>1, <1>2, <1>3, <1>4, <1>5

(* When nodes and histories stay as they are and no node changes its owner, it is enough to
   look at what the two threads know. *)
LEMMA QueueStays ==
  ASSUME TypeOK, Alone, NEW q \in Seq(Addresses), Queue(q),
         UNCHANGED <<head, node, live, pushed, popped>>, ~badAccess',
         \A t \in Threads \ {P, C} : pc'[t] = pc[t],
         local'[P].new = local[P].new, pc'[P] \in Unlinked <=> pc[P] \in Unlinked,
         pc[P] \in Unlinked => count'[P] = count[P],
         pc'[C] = "delete" <=> pc[C] = "delete", pc[C] = "delete" => local'[C].head = local[C].head,
         ~AllDone,
         TailOf(q)', Producing(q)', Consuming(q)'
  PROVE  Queue(q)'
  <1>1. ~badAccess' /\ \A t \in Threads \ {P, C} : pc'[t] = "done"
    BY DEF Queue
  <1>2. Len(popped') <= Len(pushed') /\ \A i \in 1..Len(popped') : popped'[i] = pushed'[i]
    BY DEF Queue
  <1>3. Cells(q)'
    BY DEF Queue, Cells
  <1>4. Owners(q)'
    BY DEF Queue, Owners, Owned
  <1>5. Contents(q)'
    BY DEF Queue, Contents
  <1>6. QED
    BY <1>1, <1>2, <1>3, <1>4, <1>5 DEF Queue

(* push, without the two steps that change nodes. *)
LEMMA ProducerLooks ==
  ASSUME TypeOK, Control, Alone, NEW q \in Seq(Addresses), Queue(q),
         LoadTail(P) \/ LoadTailNext(P) \/ CheckTail(P) \/ Help(P) \/ Swing(P)
  PROVE  Queue(q)'
  <1> USE DEF memory, history
  <1>1. /\ pc \in [Threads -> PCs] /\ count \in [Threads -> Nat] /\ local \in [Threads -> Locals]
        /\ P \in Producers /\ C \in Consumers /\ P \in Threads /\ C \in Threads /\ P # C
        /\ head \in Pointers
    BY TheTwo DEF TypeOK
  <1>2. pc[P] # "done" /\ ~AllDone
    <2>1. pc[P] # "done"
      BY DEF LoadTail, LoadTailNext, CheckTail, Help, Swing, Completes, Goto
    <2>2. QED
      BY <1>1, <2>1, Running
  <1>3. TailOf(q) /\ Producing(q) /\ Consuming(q) /\ ~badAccess
    BY <1>2 DEF Queue
  <1>4. /\ Len(q) \in Nat /\ Len(q) >= 1 /\ tail \in live /\ head = q[1]
        /\ \A i \in 1..Len(q) : q[i] # Null
        /\ \A i, j \in 1..Len(q) : q[i] = q[j] => i = j
        /\ 1 \in 1..Len(q) /\ Len(q) \in 1..Len(q)
    BY <1>2, Sizes
  <1>5. /\ UNCHANGED <<head, node, live, pushed, popped>>
        /\ \A t \in Threads \ {P} : pc'[t] = pc[t] /\ local'[t] = local[t] /\ count'[t] = count[t]
    BY <1>1 DEF LoadTail, LoadTailNext, CheckTail, Help, Swing, Completes, Goto
  <1>6. pc'[C] = pc[C] /\ local'[C] = local[C] /\ \A t \in Threads \ {P, C} : pc'[t] = pc[t]
    BY <1>1, <1>5
  <1>7. CASE LoadTail(P)
    <2>1. /\ pc[P] = "loadTail" /\ pc'[P] = "loadNext" /\ local'[P].tail = tail
          /\ local'[P].new = local[P].new /\ UNCHANGED <<tail, count, badAccess>>
      BY <1>1, <1>7 DEF LoadTail, Goto, Locals
    <2>2. TailOf(q)' /\ Producing(q)'
      BY <1>3, <2>1 DEF TailOf, Producing
    <2>3. Consuming(q)'
      BY <1>3, <1>5, <1>6, <2>1 DEF Consuming
    <2>4. pc[P] \in Unlinked /\ pc'[P] \in Unlinked
      BY <2>1 DEF Unlinked
    <2>5. QED
      BY <1>2, <1>3, <1>5, <1>6, <2>1, <2>2, <2>3, <2>4, QueueStays
  <1>8. CASE LoadTailNext(P)
    <2>1. /\ pc[P] = "loadNext" /\ pc'[P] = "checkTail" /\ local'[P].tail = local[P].tail
          /\ local'[P].next = At(local[P].tail).next /\ badAccess' = (badAccess \/ local[P].tail \notin live)
          /\ local'[P].new = local[P].new /\ UNCHANGED <<tail, count>>
      BY <1>1, <1>8 DEF LoadTailNext, Follows, Goto, Locals
    <2>2. local[P].tail = tail /\ tail = q[Len(q)]
      BY <1>3, <2>1 DEF Producing, TailOf
    <2>3. node[q[Len(q)]].next = Null /\ q[Len(q)] # Null
      BY <1>4 DEF Queue, Cells
    <2>4. local'[P].next = Null
      BY <2>1, <2>2, <2>3 DEF At
    <2>5. ~badAccess'
      <3>1. local[P].tail \in live
        BY <1>4, <2>2
      <3>2. QED
        BY <1>3, <2>1, <3>1
    <2>6. TailOf(q)' /\ Producing(q)'
      BY <1>3, <2>1, <2>2, <2>4 DEF TailOf, Producing
    <2>7. Consuming(q)'
      BY <1>3, <1>5, <1>6, <2>1 DEF Consuming
    <2>8. pc[P] \in Unlinked /\ pc'[P] \in Unlinked
      BY <2>1 DEF Unlinked
    <2>9. QED
      BY <1>2, <1>3, <1>5, <1>6, <2>1, <2>5, <2>6, <2>7, <2>8, QueueStays
  <1>9. CASE CheckTail(P)
    <2>1. /\ pc[P] = "checkTail" /\ UNCHANGED <<tail, count, badAccess, local>>
          /\ pc' = [pc EXCEPT ![P] = IF local[P].tail # tail THEN "loadTail"
                                    ELSE IF local[P].next = Null THEN "link" ELSE "help"]
      BY <1>9 DEF CheckTail, Goto
    <2>2. local[P].tail = tail /\ tail = q[Len(q)] /\ local[P].next = Null
      BY <1>3, <2>1 DEF Producing, TailOf
    <2>3. pc'[P] = "link"
      BY <1>1, <2>1, <2>2
    <2>4. TailOf(q)' /\ Producing(q)'
      BY <2>1, <2>2, <2>3 DEF TailOf, Producing
    <2>5. Consuming(q)'
      BY <1>3, <1>5, <1>6, <2>1 DEF Consuming
    <2>6. pc[P] \in Unlinked /\ pc'[P] \in Unlinked
      BY <2>1, <2>3 DEF Unlinked
    <2>7. QED
      BY <1>2, <1>3, <1>5, <1>6, <2>1, <2>4, <2>5, <2>6, QueueStays
  <1>10. CASE Help(P)
    BY <1>3, <1>10 DEF Help, Goto, Producing
  <1>11. CASE Swing(P)
    <2>1. /\ pc[P] = "swing" /\ pc'[P] \in {"new", "done"} /\ UNCHANGED <<local, badAccess>>
          /\ tail' = IF tail = local[P].tail THEN local[P].new ELSE tail
      BY <1>1, <1>11 DEF Swing, Completes, Goto, Call, SwingTail
    <2>2. tail' = q[Len(q)]
      BY <1>3, <2>1 DEF TailOf
    <2>3. TailOf(q)' /\ Producing(q)'
      BY <2>1, <2>2 DEF TailOf, Producing
    <2>4. tail # head => tail' # head
      <3>1. tail # head => Len(q) # 1
        BY <1>3, <1>4, <2>1 DEF TailOf
      <3>2. QED
        BY <1>4, <2>2, <3>1
    <2>5. Consuming(q)'
      BY <1>3, <1>5, <1>6, <2>1, <2>4 DEF Consuming
    <2>6. pc[P] \notin Unlinked /\ pc'[P] \notin Unlinked
      BY <2>1 DEF Unlinked
    <2>7. QED
      BY <1>2, <1>3, <1>5, <1>6, <2>1, <2>3, <2>5, <2>6, QueueStays
  <1>12. QED
    BY <1>7, <1>8, <1>9, <1>10, <1>11

(* pop, without the two steps that change who owns a node. *)
LEMMA ConsumerLooks ==
  ASSUME TypeOK, Control, Alone, NEW q \in Seq(Addresses), Queue(q),
         \/ LoadHead(C) \/ LoadTail(C) \/ LoadHeadNext(C) \/ CheckHead(C) \/ ReturnsEmpty(C)
         \/ Help(C) \/ ReadData(C)
         \/ Advance(C) /\ ~Advances(C)
  PROVE  Queue(q)'
  <1> USE DEF memory, history
  <1>1. /\ pc \in [Threads -> PCs] /\ count \in [Threads -> Nat] /\ local \in [Threads -> Locals]
        /\ P \in Producers /\ C \in Consumers /\ P \in Threads /\ C \in Threads /\ P # C
        /\ C \notin Producers
    BY TheTwo, Roles DEF TypeOK
  <1>2. pc[C] \notin {"done", "delete"} /\ ~AllDone
    <2>1. pc[C] \notin {"done", "delete"}
      BY DEF LoadHead, LoadTail, LoadHeadNext, CheckHead, ReturnsEmpty, Help, ReadData, Advance, Goto
    <2>2. QED
      BY <1>1, <2>1, Running
  <1>3. TailOf(q) /\ Producing(q) /\ Consuming(q) /\ ~badAccess
    BY <1>2 DEF Queue
  <1>4. /\ Len(pushed) \in Nat /\ Len(popped) \in Nat /\ Len(popped) + Len(q) = Len(pushed) + 1
        /\ Len(q) \in Nat /\ Len(q) >= 1 /\ tail \in live /\ head = q[1]
        /\ \A i \in 1..Len(q) : q[i] # Null /\ q[i] \in live
        /\ \A i, j \in 1..Len(q) : q[i] = q[j] => i = j
        /\ 1 \in 1..Len(q) /\ Len(q) \in 1..Len(q)
    BY <1>2, Sizes
  <1>5. /\ UNCHANGED <<node, live, pushed, count>>
        /\ \A t \in Threads \ {C} : pc'[t] = pc[t] /\ local'[t] = local[t] /\ count'[t] = count[t]
    BY <1>1 DEF LoadHead, LoadTail, LoadHeadNext, CheckHead, ReturnsEmpty, Help, ReadData, Advance, Goto
  <1>6. pc'[P] = pc[P] /\ local'[P] = local[P] /\ \A t \in Threads \ {P, C} : pc'[t] = pc[t]
    BY <1>1, <1>5
  <1>7. UNCHANGED <<tail, node>> => TailOf(q)' /\ Producing(q)'
    BY <1>3, <1>6 DEF TailOf, Producing
  <1>8. ASSUME UNCHANGED <<head, popped>>, ~badAccess', pc'[C] # "delete",
               TailOf(q)', Producing(q)', Consuming(q)'
        PROVE  Queue(q)'
    BY <1>2, <1>5, <1>6, <1>8, QueueStays
  <1>9. CASE LoadHead(C)
    <2>1. /\ pc'[C] = "loadTail" /\ local'[C].head = head
          /\ UNCHANGED <<head, tail, popped, badAccess>>
      BY <1>1, <1>9 DEF LoadHead, Goto, Locals
    <2>2. Consuming(q)'
      BY <2>1 DEF Consuming
    <2>3. QED
      BY <1>3, <1>5, <1>7, <1>8, <2>1, <2>2
  <1>10. CASE LoadTail(C)
    <2>1. /\ pc[C] = "loadTail" /\ pc'[C] = "loadNext" /\ local'[C].tail = tail
          /\ local'[C].head = local[C].head /\ UNCHANGED <<head, tail, popped, badAccess>>
      BY <1>1, <1>10 DEF LoadTail, Goto, Locals
    <2>2. Consuming(q)'
      BY <1>3, <2>1 DEF Consuming
    <2>3. QED
      BY <1>3, <1>5, <1>7, <1>8, <2>1, <2>2
  <1>11. CASE LoadHeadNext(C)
    <2>1. /\ pc[C] = "loadNext" /\ pc'[C] = "checkHead" /\ local'[C].next = At(local[C].head).next
          /\ local'[C].sawEmpty = (Len(pushed) = Len(popped))
          /\ local'[C].head = local[C].head /\ local'[C].tail = local[C].tail
          /\ badAccess' = (badAccess \/ local[C].head \notin live)
          /\ UNCHANGED <<head, tail, popped>>
      BY <1>1, <1>11 DEF LoadHeadNext, Follows, Goto, Locals
    <2>2. local[C].head = head /\ (local[C].tail # head => tail # head)
      BY <1>3, <2>1 DEF Consuming
    <2>3. local[C].head \in live /\ local'[C].next = node[q[1]].next
      BY <1>4, <2>1, <2>2 DEF At
    <2>4. ~badAccess'
      BY <1>3, <2>1, <2>3
    <2>5. Len(q) # 1 => Len(q) >= 2 /\ Len(q) \in Nat
      <3>1. \A n \in Nat : n >= 1 /\ n # 1 => n >= 2
        OBVIOUS
      <3>2. QED
        BY <1>4, <3>1, Zenon
    <2>6. IF Len(q) = 1 THEN node[q[1]].next = Null ELSE node[q[1]].next = q[2] /\ q[2] # Null
      <3>1. 1 # Len(q) => 1 \in 1..Len(q) - 1 /\ 1 + 1 \in 1..Len(q) /\ 1 + 1 = 2
        BY <2>5
      <3>2. /\ \A i \in 1..Len(q) - 1 : node[q[i]].next = q[i + 1]
            /\ Len(q) # 0 => node[q[Len(q)]].next = Null
        BY DEF Queue, Cells
      <3>3. QED
        BY <1>4, <3>1, <3>2
    <2>7. Len(q) = 1 => Len(pushed) = Len(popped) /\ tail = head
      BY <1>3, <1>4 DEF TailOf
    <2>8. IF local'[C].next = Null THEN local'[C].sawEmpty /\ local'[C].tail = head'
                                   ELSE Len(q) >= 2 /\ local'[C].next = q[2]
      BY <2>1, <2>2, <2>3, <2>6, <2>7, <2>5
    <2>9. Consuming(q)'
      BY <2>1, <2>2, <2>8 DEF Consuming
    <2>10. QED
      BY <1>5, <1>7, <1>8, <2>1, <2>4, <2>9
  <1>12. CASE CheckHead(C)
    <2>1. /\ pc[C] = "checkHead" /\ UNCHANGED <<head, tail, popped, badAccess, local>>
          /\ \/ pc'[C] = "loadHead"
             \/ pc'[C] = "empty" /\ local[C].next = Null
             \/ pc'[C] = "help" /\ local[C].tail = local[C].head /\ local[C].next # Null
             \/ pc'[C] = "read" /\ local[C].tail # local[C].head
      BY <1>1, <1>12 DEF CheckHead, AnswersEmpty, Goto
    <2>2. /\ local[C].head = head /\ (local[C].tail # head => tail # head)
          /\ IF local[C].next = Null THEN local[C].sawEmpty /\ local[C].tail = head
             ELSE Len(q) >= 2 /\ local[C].next = q[2]
      BY <1>3, <2>1 DEF Consuming
    <2>3. Consuming(q)'
      BY <2>1, <2>2 DEF Consuming
    <2>4. QED
      BY <1>3, <1>5, <1>7, <1>8, <2>1, <2>3
  <1>13. CASE ReturnsEmpty(C)
    <2>1. /\ pc'[C] = "loadHead" /\ UNCHANGED <<head, tail, popped, badAccess>>
      BY <1>1, <1>13 DEF ReturnsEmpty, Goto
    <2>2. Consuming(q)'
      BY <2>1 DEF Consuming
    <2>3. QED
      BY <1>3, <1>5, <1>7, <1>8, <2>1, <2>2
  <1>14. CASE Help(C)
    <2>1. /\ pc[C] = "help" /\ pc'[C] = "loadHead" /\ UNCHANGED <<head, popped, badAccess, local>>
          /\ tail' = IF tail = local[C].tail THEN local[C].next ELSE tail
      BY <1>1, <1>14 DEF Help, Goto, Again, SwingTail
    <2>2. local[C].tail = q[1] /\ Len(q) >= 2 /\ local[C].next = q[2]
      BY <1>3, <1>4, <2>1 DEF Consuming
    <2>3. CASE tail # q[1]
      <3>1. tail' = tail
        BY <2>1, <2>2, <2>3
      <3>2. Consuming(q)'
        BY <2>1 DEF Consuming
      <3>3. QED
        BY <1>3, <1>5, <1>7, <1>8, <2>1, <3>1, <3>2
    <2>4. CASE tail = q[1]
      <3>1. q[Len(q)] # q[1] /\ (tail = q[Len(q) - 1] => Len(q) = 2)
        <4>1. Len(q) - 1 \in 1..Len(q) /\ (Len(q) - 1 = 1 => Len(q) = 2) /\ Len(q) # 1
          BY <1>4, <2>2
        <4>2. QED
          BY <1>4, <2>4, <4>1
      <3>2. /\ pc[P] = "swing" /\ local[P].new = q[Len(q)] /\ local[P].tail = tail /\ Len(q) = 2
        BY <1>3, <2>4, <3>1 DEF TailOf
      <3>3. tail' = q[Len(q)]
        BY <2>1, <2>2, <2>4, <3>2
      <3>4. TailOf(q)' /\ Producing(q)'
        BY <1>6, <2>4, <3>1, <3>2, <3>3 DEF TailOf, Producing
      <3>5. Consuming(q)'
        BY <2>1 DEF Consuming
      <3>6. QED
        BY <1>3, <1>8, <2>1, <3>4, <3>5
    <2>5. QED
      BY <2>3, <2>4
  <1>15. CASE ReadData(C)
    <2>1. /\ pc[C] = "read" /\ pc'[C] = "advance" /\ local'[C].data = At(local[C].next).data
          /\ local'[C].head = local[C].head /\ local'[C].next = local[C].next
          /\ badAccess' = (badAccess \/ local[C].next \notin live)
          /\ UNCHANGED <<head, tail, popped>>
      BY <1>1, <1>15 DEF ReadData, Follows, Goto, Locals
    <2>2. local[C].head = head /\ tail # head /\ Len(q) >= 2 /\ local[C].next = q[2]
      BY <1>3, <2>1 DEF Consuming
    <2>3. 2 \in 1..Len(q) /\ 1 \in 1..Len(q) - 1 /\ 1 + 1 = 2
      BY <1>4, <2>2
    <2>4. ~badAccess'
      BY <1>3, <1>4, <2>1, <2>2, <2>3
    <2>5. local'[C].data = pushed[Len(popped) + 1]
      <3>1. \A i \in 1..Len(q) - 1 : node[q[i + 1]].data = pushed[Len(popped) + i]
        BY <1>2 DEF Queue, Contents
      <3>2. node[q[2]].data = pushed[Len(popped) + 1]
        BY <2>3, <3>1
      <3>3. QED
        BY <1>4, <2>1, <2>2, <2>3, <3>2 DEF At
    <2>6. Consuming(q)'
      BY <1>5, <2>1, <2>2, <2>5 DEF Consuming
    <2>7. QED
      BY <1>5, <1>7, <1>8, <2>1, <2>4, <2>6
  <1>16. CASE Advance(C) /\ ~Advances(C)
    BY <1>3, <1>16 DEF Advance, Advances, Goto, Consuming
  <1>17. QED
    BY <1>9, <1>10, <1>11, <1>12, <1>13, <1>14, <1>15, <1>16
(* The new node is nobody's, even if it is where a deleted one was. *)
LEMMA AllocatesAlone ==
  ASSUME TypeOK, Control, Alone, NEW q \in Seq(Addresses), Queue(q), Allocate(P)
  PROVE  Queue(q)'
  <1> USE DEF memory, history
  <1>1. PICK a \in Addresses \ live :
          /\ local' = [local EXCEPT ![P].new = a]
          /\ node' = [node EXCEPT ![a] = [next |-> Null, data |-> <<P[2], count[P]>>]]
          /\ live' = live \cup {a}
    BY DEF Allocate, Free, TypeOK
  <1>2. /\ pc[P] = "new" /\ pc' = [pc EXCEPT ![P] = "loadTail"]
        /\ UNCHANGED <<head, tail, pushed, popped, count, badAccess>>
    BY DEF Allocate, Goto
  <1>3. /\ pc \in [Threads -> PCs] /\ local \in [Threads -> Locals]
        /\ node \in [Addresses -> [next : Pointers, data : Values \cup {Null}]]
        /\ P \in Threads /\ C \in Threads /\ P # C /\ P[2] = 1
    BY TheTwo DEF TypeOK
  <1>4. /\ pc'[P] = "loadTail" /\ local'[P].new = a
        /\ pc'[C] = pc[C] /\ local'[C] = local[C]
        /\ \A t \in Threads \ {P} : pc'[t] = pc[t]
        /\ \A b \in live : node'[b] = node[b] /\ b # a
        /\ node'[a] = [next |-> Null, data |-> <<1, count[P]>>]
    BY <1>1, <1>2, <1>3 DEF Locals, TypeOK
  <1>5. ~AllDone
    BY <1>2, <1>3, Running
  <1>6. TailOf(q) /\ Producing(q) /\ Consuming(q) /\ Contents(q) /\ Cells(q) /\ Owners(q)
    BY <1>5 DEF Queue
  <1>7. /\ Len(q) \in Nat /\ Len(q) >= 1
        /\ \A i \in 1..Len(q) : q[i] \in live /\ node'[q[i]] = node[q[i]] /\ q[i] # a
    BY <1>4, <1>5, Sizes
  <1>8. \A i \in 1..Len(q) - 1 : i \in 1..Len(q) /\ i + 1 \in 1..Len(q)
    BY <1>7
  <1>9. Cells(q)'
    <2>1. \A i \in 1..Len(q) - 1 : node'[q[i]].next = q[i + 1]
      BY <1>6, <1>7, <1>8 DEF Cells
    <2>2. Len(q) \in 1..Len(q) /\ node'[q[Len(q)]].next = Null
      BY <1>6, <1>7 DEF Cells
    <2>3. UNCHANGED head /\ head = (IF Len(q) = 0 THEN Null ELSE q[1])
          /\ \A i, j \in 1..Len(q) : q[i] = q[j] => i = j
      BY <1>2, <1>6 DEF Cells
    <2>4. QED
      BY <2>1, <2>2, <2>3 DEF Cells
  <1>10. Owners(q)'
    <2>1. pc[P] \notin Unlinked /\ pc'[P] \in Unlinked
      BY <1>2, <1>4 DEF Unlinked
    <2>2. \A b \in Addresses : b \in live' <=> Owned(q, b)'
      BY <1>1, <1>4, <1>6, <2>1 DEF Owners, Owned
    <2>3. pc[C] = "delete" => local[C].head \in live /\ local[C].head # a
                              /\ \A i \in 1..Len(q) : q[i] # local[C].head
      BY <1>4, <1>6 DEF Owners
    <2>4. \A b \in live : b \in live'
      BY <1>1
    <2>5. count' = count
      BY <1>2
    <2>6. QED
      BY <1>4, <1>7, <2>2, <2>3, <2>4, <2>5 DEF Owners
  <1>11. Contents(q)'
    BY <1>2, <1>6, <1>7, <1>8 DEF Contents
  <1>12. TailOf(q)' /\ Producing(q)'
    BY <1>2, <1>4, <1>6 DEF TailOf, Producing
  <1>13. Consuming(q)'
    BY <1>2, <1>4, <1>6 DEF Consuming
  <1>14. QED
    BY <1>2, <1>4, <1>9, <1>10, <1>11, <1>12, <1>13 DEF Queue

(* The producer's node becomes the last of the queue. *)
LEMMA LinksAlone ==
  ASSUME TypeOK, Control, Alone, NEW q \in Seq(Addresses), Queue(q), Link(P)
  PROVE  \E r \in Seq(Addresses) : Queue(r)'
  <1> USE DEF memory, history
  <1>1. /\ pc \in [Threads -> PCs] /\ local \in [Threads -> Locals] /\ count[P] \in Nat
        /\ node \in [Addresses -> [next : Pointers, data : Values \cup {Null}]]
        /\ pushed \in Seq(Values) /\ live \subseteq Addresses
        /\ P \in Threads /\ C \in Threads /\ P # C /\ P[2] = 1 /\ P \in Producers
    BY TheTwo DEF TypeOK
  <1>2. pc[P] = "link" /\ ~AllDone
    <2>1. pc[P] = "link"
      BY DEF Link, Goto
    <2>2. QED
      BY <1>1, <2>1, Running
  <1>3. TailOf(q) /\ Producing(q) /\ Consuming(q) /\ Contents(q) /\ Cells(q) /\ Owners(q) /\ ~badAccess
    BY <1>2 DEF Queue
  <1>4. /\ Len(pushed) \in Nat /\ Len(popped) \in Nat /\ Len(q) \in Nat /\ Len(q) >= 1
        /\ Len(popped) + Len(q) = Len(pushed) + 1 /\ Len(q) \in 1..Len(q) /\ head = q[1]
        /\ \A i \in 1..Len(q) : q[i] \in Addresses /\ q[i] # Null /\ q[i] \in live
        /\ \A i, j \in 1..Len(q) : q[i] = q[j] => i = j
    BY <1>2, Sizes
  <1>5. PICK a \in Addresses : a = local[P].new
    <2>1. local[P].new # Null /\ local[P].new \in Pointers
      BY <1>1, <1>2 DEF Control, Locals
    <2>2. QED
      BY <2>1 DEF Pointers
  <1>6. PICK n \in Nat : n = Len(q) /\ n >= 1
    BY <1>4
  <1>7. PICK v : v = <<1, count[P]>>
    OBVIOUS
  <1>8. /\ local[P].tail = q[n] /\ tail = q[n] /\ q[n] \in Addresses /\ q[n] \in live
        /\ node[q[n]].next = Null /\ At(q[n]).next = Null
    BY <1>2, <1>3, <1>4, <1>6 DEF Producing, TailOf, Cells, At
  <1>9. /\ \A i \in 1..n : q[i] # a
        /\ node[a] = [next |-> Null, data |-> v] /\ a \in live
    BY <1>2, <1>3, <1>5, <1>6, <1>7 DEF Owners, Owned, Unlinked
  <1>10. /\ pc' = [pc EXCEPT ![P] = "swing"] /\ node' = [node EXCEPT ![q[n]].next = a]
         /\ pushed' = Append(pushed, v) /\ badAccess' = (badAccess \/ q[n] \notin live)
         /\ UNCHANGED <<head, tail, live, local, popped, count>>
    BY <1>1, <1>5, <1>7, <1>8 DEF Link, LinksHere, Follows, Goto
  <1>11. ~badAccess'
    BY <1>3, <1>8, <1>10
  <1>12. /\ pc'[P] = "swing" /\ pc'[C] = pc[C] /\ \A t \in Threads \ {P} : pc'[t] = pc[t]
         /\ \A b \in Addresses : b # q[n] => node'[b] = node[b]
         /\ node'[q[n]].next = a /\ node'[q[n]].data = node[q[n]].data
    BY <1>1, <1>8, <1>10
  <1>13. node'[a].next = Null /\ node'[a].data = v
    <2>1. a # q[n]
      BY <1>6, <1>9
    <2>2. node'[a] = node[a]
      BY <1>12, <2>1
    <2>3. QED
      BY <1>9, <2>2
  <1>14. v \in Values
    BY <1>1, <1>7 DEF Values, Producers
  <1>15. /\ Len(pushed') = Len(pushed) + 1 /\ pushed'[Len(pushed) + 1] = v
         /\ \A i \in 1..Len(pushed) : pushed'[i] = pushed[i]
    BY <1>1, <1>10, <1>14, AppendProperties
  <1>16. PICK r \in Seq(Addresses) : Len(r) = n + 1 /\ r[n + 1] = a /\ \A i \in 1..n : r[i] = q[i]
    <2>1. /\ Append(q, a) \in Seq(Addresses) /\ Len(Append(q, a)) = Len(q) + 1
          /\ Append(q, a)[Len(q) + 1] = a /\ \A i \in 1..Len(q) : Append(q, a)[i] = q[i]
      BY AppendProperties
    <2>2. QED
      BY <1>6, <2>1
  <1>17. \A i \in 1..Len(r) : i \in 1..n \/ i = n + 1
    BY <1>6, <1>16
  <1>18. \A i \in 1..Len(r) - 1 : (i \in 1..Len(q) - 1 /\ i \in 1..n /\ i + 1 \in 1..n /\ i # n) \/ i = n
    BY <1>4, <1>6, <1>16
  <1>19. Cells(r)'
    <2>1. \A i, j \in 1..Len(r) : r[i] = r[j] => i = j
      BY <1>4, <1>6, <1>9, <1>16, <1>17
    <2>2. ASSUME NEW i \in 1..Len(r) - 1 PROVE node'[r[i]].next = r[i + 1]
      <3>1. CASE i = n
        BY <1>6, <1>12, <1>16, <3>1
      <3>2. CASE i # n
        <4>1. i \in 1..Len(q) - 1 /\ i \in 1..n /\ i + 1 \in 1..n
          BY <1>18, <3>2
        <4>2. q[i] # q[n] /\ q[i] \in Addresses
          BY <1>4, <1>6, <3>2, <4>1
        <4>3. node'[q[i]] = node[q[i]]
          BY <1>12, <4>2
        <4>4. node[q[i]].next = q[i + 1]
          BY <1>3, <4>1 DEF Cells
        <4>5. QED
          BY <1>16, <4>1, <4>3, <4>4
      <3>3. QED
        BY <3>1, <3>2
    <2>3. Len(r) # 0 /\ 1 \in 1..n /\ node'[r[Len(r)]].next = Null
      BY <1>6, <1>13, <1>16
    <2>4. head' = IF Len(r) = 0 THEN Null ELSE r[1]
      BY <1>4, <1>10, <1>16, <2>3
    <2>5. QED
      BY <2>1, <2>2, <2>3, <2>4 DEF Cells
  <1>20. Owners(r)'
    <2>1. pc[P] \in Unlinked /\ pc'[P] \notin Unlinked
      BY <1>2, <1>12 DEF Unlinked
    <2>2. \A b \in Addresses : Owned(q, b) <=> Owned(r, b)'
      <3>1. \A b \in Addresses : (\E i \in 1..Len(r) : b = r[i]) <=> (\E i \in 1..Len(q) : b = q[i]) \/ b = a
        <4>1. \A i \in 1..n : i \in 1..Len(r)
          BY <1>6, <1>16
        <4>2. n + 1 \in 1..Len(r)
          BY <1>6, <1>16
        <4>3. QED
          BY <1>6, <1>16, <1>17, <4>1, <4>2
      <3>2. QED
        BY <1>5, <1>10, <1>12, <2>1, <3>1 DEF Owned
    <2>3. \A b \in Addresses : b \in live' <=> Owned(r, b)'
      BY <1>3, <1>10, <2>2 DEF Owners
    <2>4. pc[C] = "delete" => local[C].head \in live /\ \A i \in 1..Len(r) : r[i] # local[C].head
      BY <1>3, <1>5, <1>6, <1>16, <1>17, <2>1 DEF Owners
    <2>5. QED
      BY <1>10, <1>12, <2>1, <2>3, <2>4 DEF Owners
  <1>21. Contents(r)'
    <2>1. Len(popped') + Len(r) = Len(pushed') + 1
      BY <1>4, <1>6, <1>10, <1>15, <1>16
    <2>2. ASSUME NEW i \in 1..Len(r) - 1 PROVE node'[r[i + 1]].data = pushed'[Len(popped) + i]
      <3>1. CASE i = n
        <4>1. Len(popped) + i = Len(pushed) + 1
          BY <1>4, <1>6, <3>1
        <4>2. QED
          BY <1>13, <1>15, <1>16, <3>1, <4>1
      <3>2. CASE i # n
        <4>1. i \in 1..Len(q) - 1 /\ i + 1 \in 1..n
          BY <1>18, <3>2
        <4>2. Len(popped) + i \in 1..Len(pushed)
          BY <1>4, <4>1
        <4>3. i \in 1..Len(q) - 1 /\ i + 1 \in 1..n /\ Len(popped) + i \in 1..Len(pushed)
          BY <4>1, <4>2
        <4>4. node'[q[i + 1]].data = node[q[i + 1]].data
          BY <1>4, <1>6, <1>12, <4>3
        <4>5. node[q[i + 1]].data = pushed[Len(popped) + i]
          BY <1>3, <4>3 DEF Contents
        <4>6. QED
          BY <1>15, <1>16, <4>3, <4>4, <4>5
      <3>3. QED
        BY <3>1, <3>2
    <2>3. QED
      BY <1>10, <2>1, <2>2 DEF Contents
  <1>22. TailOf(r)' /\ Producing(r)'
    <2>1. Len(r) >= 2 /\ Len(r) - 1 = n /\ n \in 1..n
      BY <1>6, <1>16
    <2>2. QED
      BY <1>5, <1>8, <1>10, <1>12, <1>16, <2>1 DEF TailOf, Producing
  <1>23. Consuming(r)'
    <2>1. Len(q) >= 2 => Len(r) >= 2 /\ r[2] = q[2] /\ pushed'[Len(popped) + 1] = pushed[Len(popped) + 1]
      <3>1. Len(q) >= 2 => 2 \in 1..n /\ Len(popped) + 1 \in 1..Len(pushed)
        BY <1>4, <1>6
      <3>2. QED
        BY <1>6, <1>15, <1>16, <3>1
    <2>2. QED
      BY <1>3, <1>10, <1>12, <2>1 DEF Consuming
  <1>24. /\ Len(popped') <= Len(pushed') /\ \A i \in 1..Len(popped') : popped'[i] = pushed'[i]
    <2>1. Len(popped) <= Len(pushed) /\ \A i \in 1..Len(popped) : popped[i] = pushed[i]
      BY DEF Queue
    <2>2. \A i \in 1..Len(popped) : i \in 1..Len(pushed)
      BY <1>4, <2>1
    <2>3. QED
      BY <1>4, <1>10, <1>15, <2>1, <2>2
  <1>25. \A t \in Threads \ {P, C} : pc'[t] = "done"
    BY <1>12 DEF Queue
  <1>26. QED
    BY <1>11, <1>16, <1>19, <1>20, <1>21, <1>22, <1>23, <1>24, <1>25 DEF Queue
(* The consumer takes the dummy node off the queue: tail_ is not there any more. *)
LEMMA AdvancesAlone ==
  ASSUME TypeOK, Control, Alone, NEW q \in Seq(Addresses), Queue(q), Advance(C), Advances(C)
  PROVE  \E r \in Seq(Addresses) : Queue(r)'
  <1> USE DEF memory, history
  <1>1. /\ pc \in [Threads -> PCs] /\ popped \in Seq(Values \cup {Null}) /\ pushed \in Seq(Values)
        /\ P \in Threads /\ C \in Threads /\ P # C
    BY TheTwo DEF TypeOK
  <1>2. pc[C] = "advance" /\ ~AllDone
    <2>1. pc[C] = "advance"
      BY DEF Advance, Goto
    <2>2. QED
      BY <1>1, <2>1, Running
  <1>3. TailOf(q) /\ Producing(q) /\ Consuming(q) /\ Contents(q) /\ Cells(q) /\ Owners(q) /\ ~badAccess
    BY <1>2 DEF Queue
  <1>4. /\ Len(pushed) \in Nat /\ Len(popped) \in Nat /\ Len(q) \in Nat
        /\ Len(popped) + Len(q) = Len(pushed) + 1 /\ Len(q) \in 1..Len(q) /\ 1 \in 1..Len(q) /\ head = q[1]
        /\ \A i \in 1..Len(q) : q[i] \in Addresses /\ q[i] # Null /\ q[i] \in live
        /\ \A i, j \in 1..Len(q) : q[i] = q[j] => i = j
    BY <1>2, Sizes
  <1>5. /\ local[C].head = q[1] /\ tail # q[1] /\ Len(q) >= 2 /\ local[C].next = q[2]
        /\ local[C].data = pushed[Len(popped) + 1]
    BY <1>2, <1>3, <1>4 DEF Consuming
  <1>6. /\ pc' = [pc EXCEPT ![C] = "delete"] /\ head' = q[2]
        /\ popped' = Append(popped, pushed[Len(popped) + 1])
        /\ UNCHANGED <<tail, node, live, local, pushed, count, badAccess>>
    BY <1>5 DEF Advance, Advances, Goto
  <1>7. pc'[C] = "delete" /\ pc'[P] = pc[P] /\ \A t \in Threads \ {C} : pc'[t] = pc[t]
    BY <1>1, <1>6
  <1>8. Len(popped) + 1 \in 1..Len(pushed) /\ Len(popped) + 1 \in Nat
    BY <1>4, <1>5
  <1>9. /\ Len(popped') = Len(popped) + 1
        /\ \A i \in 1..Len(popped') : popped'[i] = pushed'[i]
    <2>1. pushed[Len(popped) + 1] \in Values
      BY <1>1, <1>8, ElementOfSeq
    <2>2. /\ Len(popped') = Len(popped) + 1 /\ popped'[Len(popped) + 1] = pushed[Len(popped) + 1]
          /\ \A i \in 1..Len(popped) : popped'[i] = popped[i]
      BY <1>1, <1>6, <2>1, AppendProperties
    <2>3. \A i \in 1..Len(popped') : i \in 1..Len(popped) \/ i = Len(popped) + 1
      BY <1>4, <2>2
    <2>4. \A i \in 1..Len(popped) : popped[i] = pushed[i]
      BY DEF Queue
    <2>5. QED
      BY <1>6, <2>2, <2>3, <2>4
  <1>10. PICK n \in Nat : Len(q) = n + 1 /\ n >= 1
    <2>1. Len(q) - 1 \in Nat /\ Len(q) = (Len(q) - 1) + 1 /\ Len(q) - 1 >= 1
      BY <1>4, <1>5
    <2>2. QED
      BY <2>1
  <1>11. PICK r \in Seq(Addresses) : Len(r) = n /\ \A i \in 1..n : r[i] = q[i + 1]
    <2>1. q # <<>>
      BY <1>5
    <2>2. /\ Tail(q) \in Seq(Addresses) /\ Len(Tail(q)) = Len(q) - 1
          /\ \A i \in 1..Len(Tail(q)) : Tail(q)[i] = q[i + 1]
      BY <2>1, HeadTailProperties
    <2>3. Len(Tail(q)) = n
      BY <1>10, <2>2
    <2>4. QED
      BY <2>2, <2>3
  <1>12. /\ \A i \in 1..n : i + 1 \in 1..Len(q) /\ i + 1 # 1
         /\ \A i \in 1..n - 1 : i \in 1..n /\ i + 1 \in 1..n /\ i + 1 \in 1..Len(q) - 1
         /\ 1 \in 1..n /\ n \in 1..n /\ n # 0 /\ Len(q) # 0 /\ 1 + 1 = 2
    BY <1>10
  <1>13. /\ \A i, j \in 1..Len(q) : q[i] = q[j] => i = j
         /\ 1 \in 1..Len(q)
    BY <1>4
  <1>14. \A i \in 1..Len(r) : r[i] # q[1]
    BY <1>11, <1>12, <1>13
  <1>15. q[1] \in live
    BY <1>4
  <1>16. \A i \in 1..Len(q) - 1 : node'[q[i]].next = q[i + 1]
    BY <1>3, <1>6 DEF Cells
  <1>17. Cells(r)'
    <2>1. \A i, j \in 1..n : r[i] = r[j] => i = j
      <3>1. \A i, j \in 1..n : i + 1 = j + 1 => i = j
        OBVIOUS
      <3>2. ASSUME NEW i \in 1..n, NEW j \in 1..n, r[i] = r[j] PROVE i = j
        <4>1. q[i + 1] = q[j + 1] /\ i + 1 \in 1..Len(q) /\ j + 1 \in 1..Len(q)
          BY <1>11, <1>12, <3>2
        <4>2. QED
          BY <3>1, <1>13, <4>1
      <3>3. QED
        BY <3>2
    <2>2. \A i \in 1..n - 1 : node'[r[i]].next = r[i + 1]
      BY <1>11, <1>12, <1>16
    <2>3. node'[r[n]].next = Null
      BY <1>3, <1>6, <1>10, <1>11, <1>12 DEF Cells
    <2>4. head' = r[1]
      BY <1>6, <1>11, <1>12
    <2>5. QED
      BY <1>11, <1>12, <2>1, <2>2, <2>3, <2>4 DEF Cells
  <1>18. \A b : (\E i \in 1..Len(q) : b = q[i]) <=> (\E i \in 1..Len(r) : b = r[i]) \/ b = q[1]
    <2>1. \A i \in 1..Len(q) : i = 1 \/ (i - 1 \in 1..n /\ (i - 1) + 1 = i)
      BY <1>10
    <2>2. \A i \in 1..Len(q) : q[i] = q[1] \/ \E k \in 1..Len(r) : q[i] = r[k]
      BY <1>11, <2>1
    <2>3. \A k \in 1..Len(r) : \E i \in 1..Len(q) : r[k] = q[i]
      BY <1>11, <1>12
    <2>4. 1 \in 1..Len(q)
      BY <1>4
    <2>5. ASSUME NEW b
          PROVE  (\E i \in 1..Len(q) : b = q[i]) <=> (\E i \in 1..Len(r) : b = r[i]) \/ b = q[1]
      BY <2>2, <2>3, <2>4, Zenon
    <2>6. QED
      BY <2>5
  <1>19. Owners(r)'
    <2>1. \A b \in Addresses : Owned(q, b) <=> Owned(r, b)'
      <3>1. UNCHANGED local /\ pc'[P] = pc[P] /\ pc[C] # "delete" /\ pc'[C] = "delete" /\ local[C].head = q[1]
        BY <1>2, <1>5, <1>6, <1>7
      <3>2. QED
        BY <1>18, <3>1 DEF Owned
    <2>2. \A b \in Addresses : b \in live' <=> Owned(r, b)'
      BY <1>3, <1>6, <2>1 DEF Owners
    <2>3. local[C].head \in live /\ \A i \in 1..Len(r) : r[i] # local[C].head
      BY <1>5, <1>13, <1>14, <1>15
    <2>4. pc[P] \in Unlinked => /\ \A i \in 1..Len(q) : q[i] # local[P].new
                                /\ node[local[P].new] = [next |-> Null, data |-> <<1, count[P]>>]
      BY <1>3 DEF Owners
    <2>5. pc[P] \in Unlinked => local[C].head # local[P].new /\ \A i \in 1..Len(r) : r[i] # local[P].new
      <3>1. pc[P] \in Unlinked => ~\E i \in 1..Len(q) : local[P].new = q[i]
        BY <2>4
      <3>2. QED
        BY <1>5, <1>18, <3>1
    <2>6. QED
      BY <1>6, <1>7, <2>2, <2>3, <2>4, <2>5 DEF Owners
  <1>20. Contents(r)'
    <2>1. Len(popped') + Len(r) = Len(pushed') + 1
      BY <1>4, <1>6, <1>9, <1>10, <1>11
    <2>2. ASSUME NEW i \in 1..n - 1 PROVE node'[r[i + 1]].data = pushed'[Len(popped') + i]
      <3>1. node[q[(i + 1) + 1]].data = pushed[Len(popped) + (i + 1)]
        BY <1>3, <1>12 DEF Contents
      <3>2. Len(popped') + i = Len(popped) + (i + 1)
        BY <1>4, <1>9
      <3>3. r[i + 1] = q[(i + 1) + 1]
        BY <1>11, <1>12
      <3>4. QED
        BY <1>6, <3>1, <3>2, <3>3
    <2>3. QED
      BY <1>11, <2>1, <2>2 DEF Contents
  <1>21. TailOf(r)' /\ Producing(r)'
    <2>1. r[n] = q[Len(q)]
      BY <1>10, <1>11, <1>12
    <2>2. tail = q[Len(q) - 1] => Len(r) >= 2 /\ tail = r[Len(r) - 1]
      <3>1. Len(q) - 1 = n
        BY <1>10
      <3>2. tail = q[n] => n # 1
        BY <1>5
      <3>3. n # 1 => n >= 2 /\ n - 1 \in 1..n /\ (n - 1) + 1 = n
        BY <1>10
      <3>4. QED
        BY <1>11, <3>1, <3>2, <3>3
    <2>3. QED
      BY <1>3, <1>6, <1>7, <1>11, <2>1, <2>2 DEF TailOf, Producing
  <1>22. Consuming(r)'
    BY <1>7 DEF Consuming
  <1>23. Len(popped') <= Len(pushed') /\ \A t \in Threads \ {P, C} : pc'[t] = "done"
    <2>1. Len(popped') <= Len(pushed')
      BY <1>6, <1>8, <1>9
    <2>2. QED
      BY <1>7, <2>1 DEF Queue
  <1>24. ~badAccess'
    BY <1>3, <1>6
  <1>25. QED
    BY <1>9, <1>17, <1>19, <1>20, <1>21, <1>22, <1>23, <1>24 DEF Queue

(* What the consumer deletes is its own. *)
LEMMA DeletesAlone ==
  ASSUME TypeOK, Control, Alone, NEW q \in Seq(Addresses), Queue(q), Delete(C)
  PROVE  Queue(q)'
  <1> USE DEF memory, history
  <1>1. /\ pc \in [Threads -> PCs] /\ count \in [Threads -> Nat]
        /\ P \in Threads /\ C \in Threads /\ P # C /\ C \notin Producers
    BY TheTwo, Roles DEF TypeOK
  <1>2. /\ pc[C] = "delete" /\ pc'[C] \in {"loadHead", "done"} /\ pc'[P] = pc[P]
        /\ count'[P] = count[P] /\ \A t \in Threads \ {C} : pc'[t] = pc[t]
        /\ badAccess' = (badAccess \/ local[C].head \notin live) /\ live' = live \ {local[C].head}
        /\ UNCHANGED <<head, tail, node, local, pushed, popped>>
    BY <1>1 DEF Delete, Deleted, Follows, Completes, Goto, Call
  <1>3. ~AllDone
    BY <1>1, <1>2, Running
  <1>4. TailOf(q) /\ Producing(q) /\ Contents(q) /\ Cells(q) /\ Owners(q) /\ ~badAccess
    BY <1>3 DEF Queue
  <1>5. local[C].head \in live
    BY <1>2, <1>4 DEF Owners
  <1>6. ~badAccess'
    BY <1>2, <1>4, <1>5
  <1>7. Cells(q)'
    BY <1>2, <1>4 DEF Cells
  <1>8. Owners(q)'
    <2>1. /\ \A i \in 1..Len(q) : q[i] # local[C].head
          /\ pc[P] \in Unlinked => local[C].head # local[P].new
      BY <1>2, <1>4 DEF Owners
    <2>2. \A b \in Addresses : b \in live' <=> Owned(q, b)'
      BY <1>2, <1>4, <2>1 DEF Owners, Owned
    <2>3. QED
      BY <1>2, <1>4, <2>2 DEF Owners
  <1>9. Contents(q)' /\ TailOf(q)' /\ Producing(q)' /\ Consuming(q)'
    BY <1>2, <1>4 DEF Contents, TailOf, Producing, Consuming
  <1>10. QED
    BY <1>2, <1>6, <1>7, <1>8, <1>9 DEF Queue

(* The destructor deletes what is left, node by node. *)
LEMMA DestroysAlone ==
  ASSUME TypeOK, Control, Alone, NEW q \in Seq(Addresses), Queue(q), Destroy
  PROVE  \E r \in Seq(Addresses) : Queue(r)'
  <1> USE DEF memory, history
  <1>1. /\ AllDone /\ AllDone' /\ head # Null /\ head' = At(head).next /\ live' = live \ {head}
        /\ badAccess' = (badAccess \/ head \notin live)
        /\ UNCHANGED <<pc, count, tail, node, local, pushed, popped>>
    BY DEF Destroy, AllDone, Follows
  <1>2. pc[P] = "done" /\ pc[C] = "done" /\ pc'[P] = "done" /\ pc'[C] = "done"
    BY <1>1, TheTwo DEF AllDone
  <1>3. Cells(q) /\ Owners(q) /\ ~badAccess
    BY DEF Queue
  <1>4. /\ Len(q) \in Nat /\ \A i \in 1..Len(q) : q[i] \in Addresses /\ q[i] # Null
    BY Lengths
  <1>5. head = q[1] /\ Len(q) # 0
    BY <1>1, <1>3 DEF Cells
  <1>6. PICK n \in Nat : Len(q) = n + 1
    <2>1. Len(q) - 1 \in Nat /\ Len(q) = (Len(q) - 1) + 1
      BY <1>4, <1>5
    <2>2. QED
      BY <2>1
  <1>7. PICK r \in Seq(Addresses) : Len(r) = n /\ \A i \in 1..n : r[i] = q[i + 1]
    <2>1. q # <<>>
      BY <1>5
    <2>2. /\ Tail(q) \in Seq(Addresses) /\ Len(Tail(q)) = Len(q) - 1
          /\ \A i \in 1..Len(Tail(q)) : Tail(q)[i] = q[i + 1]
      BY <2>1, HeadTailProperties
    <2>3. Len(Tail(q)) = n
      BY <1>6, <2>2
    <2>4. QED
      BY <2>2, <2>3
  <1>8. /\ \A i \in 1..n : i + 1 \in 1..Len(q) /\ i + 1 # 1
        /\ \A i \in 1..n - 1 : i \in 1..n /\ i + 1 \in 1..n /\ i + 1 \in 1..Len(q) - 1
        /\ n # 0 => 1 \in 1..n /\ n \in 1..n /\ 1 \in 1..Len(q) - 1
        /\ 1 \in 1..Len(q)
    BY <1>6
  <1>9. \A b : (\E i \in 1..Len(q) : b = q[i]) <=> (\E i \in 1..Len(r) : b = r[i]) \/ b = q[1]
    <2>1. \A i \in 1..Len(q) : i = 1 \/ (i - 1 \in 1..n /\ (i - 1) + 1 = i)
      BY <1>6
    <2>2. QED
      BY <1>7, <1>8, <2>1
  <1>10. \A i, j \in 1..Len(q) : q[i] = q[j] => i = j
    BY <1>3 DEF Cells
  <1>11. \A i \in 1..Len(r) : r[i] # q[1]
    BY <1>7, <1>8, <1>10
  <1>12. head' = IF n = 0 THEN Null ELSE r[1]
    <2>1. head' = node[q[1]].next
      BY <1>1, <1>4, <1>5, <1>8 DEF At
    <2>2. CASE n = 0
      BY <1>3, <1>6, <2>1, <2>2 DEF Cells
    <2>3. CASE n # 0
      BY <1>3, <1>7, <1>8, <2>1, <2>3 DEF Cells
    <2>4. QED
      BY <2>2, <2>3
  <1>13. Cells(r)'
    <2>1. \A i, j \in 1..n : r[i] = r[j] => i = j
      <3>1. \A i, j \in 1..n : i + 1 = j + 1 => i = j
        OBVIOUS
      <3>2. ASSUME NEW i \in 1..n, NEW j \in 1..n, r[i] = r[j] PROVE i = j
        <4>1. q[i + 1] = q[j + 1] /\ i + 1 \in 1..Len(q) /\ j + 1 \in 1..Len(q)
          BY <1>7, <1>8, <3>2
        <4>2. QED
          BY <3>1, <1>10, <4>1
      <3>3. QED
        BY <3>2
    <2>2. \A i \in 1..n - 1 : node'[r[i]].next = r[i + 1]
      BY <1>1, <1>3, <1>7, <1>8 DEF Cells
    <2>3. n # 0 => node'[r[n]].next = Null
      BY <1>1, <1>3, <1>6, <1>7, <1>8 DEF Cells
    <2>4. QED
      BY <1>7, <1>12, <2>1, <2>2, <2>3 DEF Cells
  <1>14. pc[P] \notin Unlinked /\ pc[C] # "delete"
    BY <1>2 DEF Unlinked
  <1>15. \A b \in Addresses : b \in live <=> \E i \in 1..Len(q) : b = q[i]
    BY <1>3, <1>14 DEF Owners, Owned
  <1>16. Owners(r)'
    <2>1. \A b \in Addresses : b \in live' <=> \E i \in 1..Len(r) : b = r[i]
      BY <1>1, <1>5, <1>9, <1>11, <1>15
    <2>2. QED
      BY <1>1, <1>14, <2>1 DEF Owners, Owned
  <1>17. ~badAccess'
    <2>1. head \in live
      BY <1>4, <1>5, <1>8, <1>15
    <2>2. QED
      BY <1>1, <1>3, <2>1
  <1>18. QED
    BY <1>1, <1>13, <1>16, <1>17 DEF Queue

(* Nothing changes. *)
LEMMA StuttersAlone ==
  ASSUME NEW q \in Seq(Addresses), Queue(q), UNCHANGED vars
  PROVE  Queue(q)'
  <1> USE DEF vars, memory, history
  <1>1. Cells(q)' <=> Cells(q)
    BY DEF Cells
  <1>2. Owners(q)' <=> Owners(q)
    BY DEF Owners, Owned
  <1>3. Contents(q)' <=> Contents(q)
    BY DEF Contents
  <1>4. (TailOf(q)' <=> TailOf(q)) /\ (Producing(q)' <=> Producing(q)) /\ (Consuming(q)' <=> Consuming(q))
    BY DEF TailOf, Producing, Consuming
  <1>5. AllDone' <=> AllDone
    BY DEF AllDone
  <1>6. QED
    BY <1>1, <1>2, <1>3, <1>4, <1>5 DEF Queue

(* Every step of a lone producer or consumer keeps the queue in order. *)
LEMMA StepQueue ==
  ASSUME TypeOK, Control, Alone, [Next]_vars, NEW q \in Seq(Addresses), Queue(q)
  PROVE  \E r \in Seq(Addresses) : Queue(r)'
  <1>1. \A t \in Threads : pc[t] # "done" => t \in {P, C}
    BY DEF Queue
  <1>2. ASSUME NEW p \in Producers, Push(p) PROVE \E r \in Seq(Addresses) : Queue(r)'
    <2>1. pc[p] # "done" /\ p \in Threads
      BY <1>2, Roles DEF Push, Allocate, LoadTail, LoadTailNext, CheckTail, Help, Link, Swing, Completes, Goto
    <2>2. p = P
      BY <1>1, <2>1, TheTwo, Roles
    <2>3. CASE Allocate(P)
      BY <2>3, AllocatesAlone
    <2>4. CASE Link(P)
      BY <2>4, LinksAlone
    <2>5. CASE LoadTail(P) \/ LoadTailNext(P) \/ CheckTail(P) \/ Help(P) \/ Swing(P)
      BY <2>5, ProducerLooks
    <2>6. QED
      BY <1>2, <2>2, <2>3, <2>4, <2>5 DEF Push
  <1>3. ASSUME NEW c \in Consumers, Pop(c) PROVE \E r \in Seq(Addresses) : Queue(r)'
    <2>1. pc[c] # "done" /\ c \in Threads
      BY <1>3, Roles DEF Pop, LoadHead, LoadTail, LoadHeadNext, CheckHead, ReturnsEmpty, Help, ReadData,
                         Advance, Delete, Completes, Goto
    <2>2. c = C
      BY <1>1, <2>1, TheTwo, Roles
    <2>3. CASE Advance(C) /\ Advances(C)
      BY <2>3, AdvancesAlone
    <2>4. CASE Delete(C)
      BY <2>4, DeletesAlone
    <2>5. CASE ~Delete(C) /\ ~(Advance(C) /\ Advances(C))
      BY <1>3, <2>2, <2>5, ConsumerLooks DEF Pop
    <2>6. QED
      BY <2>3, <2>4, <2>5
  <1>4. ASSUME NEW t \in Threads, FailsSpuriously(t) PROVE FALSE
    BY <1>4, TheTwo DEF FailsSpuriously
  <1>5. CASE Destroy
    BY <1>5, DestroysAlone
  <1>6. CASE UNCHANGED vars
    BY <1>6, StuttersAlone
  <1>7. QED
    BY <1>2, <1>3, <1>4, <1>5, <1>6 DEF Next, Ended

(* The constructor's node is the queue. *)
LEMMA InitQueue == Init /\ Alone => \E q \in Seq(Addresses) : Queue(q)
  <1> SUFFICES ASSUME Init, Alone PROVE \E q \in Seq(Addresses) : Queue(q)
    OBVIOUS
  <1>1. /\ head \in Addresses /\ tail = head /\ live = {head} /\ pushed = <<>> /\ popped = <<>>
        /\ node[head].next = Null /\ ~badAccess
    BY LockFreeQueueAssumption DEF Init
  <1>2. /\ <<head>> \in Seq(Addresses) /\ Len(<<head>>) = 1 /\ <<head>>[1] = head
        /\ Len(pushed) = 0 /\ Len(popped) = 0
    BY <1>1
  <1>3. TypeOK /\ Control
    BY InitTypes
  <1>4. \A t \in Threads : /\ pc[t] \in {"new", "loadHead", "done"}
                           /\ t \notin {P, C} => pc[t] = "done"
    <2>1. \A t \in Threads : t \notin {P, C} => t[2] > 1
      <3>1. \A t \in Threads : t \notin {P, C} => t[2] \in 1..MaxPairs /\ t[2] # 1
        BY DEF Threads, Producers, Consumers, P, C
      <3>2. \A k \in 1..MaxPairs : k # 1 => k > 1
        BY LockFreeQueueAssumption
      <3>3. QED
        BY <3>1, <3>2
    <2>2. QED
      BY <2>1 DEF Init, Call, Alone
  <1>5. pc[P] \in {"new", "loadHead", "done"} /\ pc[C] \in {"loadHead", "done"}
    BY <1>3, <1>4, TheTwo DEF Control, ConsumerPCs
  <1>6. Cells(<<head>>)
    BY <1>1, <1>2 DEF Cells
  <1>7. Owners(<<head>>)
    BY <1>1, <1>2, <1>5 DEF Owners, Owned, Unlinked
  <1>8. Contents(<<head>>)
    BY <1>2 DEF Contents
  <1>9. TailOf(<<head>>)
    BY <1>1, <1>2, <1>5 DEF TailOf
  <1>10. Producing(<<head>>) /\ Consuming(<<head>>)
    BY <1>5 DEF Producing, Consuming
  <1>11. Len(popped) <= Len(pushed) /\ \A i \in 1..Len(popped) : popped[i] = pushed[i]
    BY <1>2
  <1>12. Queue(<<head>>)
    BY <1>1, <1>4, <1>6, <1>7, <1>8, <1>9, <1>10, <1>11 DEF Queue
  <1>13. QED
    BY <1>2, <1>12
-----------------------------------------------------------------------------
(* The theorems. *)

(* In every state types and control are right.  Without reuse the nodes linked so far are a
   chain from which head_, tail_ and what the threads remember can be read off; with one
   thread of each kind those from head_ on are, and every live node has one owner. *)
THEOREM Invariance == Spec => []IInv
  <1>1. Init => IInv
    BY InitTypes, InitChain, InitQueue DEF IInv
  <1>2. IInv /\ [Next]_vars => IInv'
    <2> SUFFICES ASSUME IInv, [Next]_vars PROVE IInv'
      OBVIOUS
    <2>1. TypeOK /\ Control /\ TypeOK' /\ Control'
      BY StepTypes DEF IInv
    <2>2. scenario' = scenario
      BY DEF Next, Push, Pop, LoadTail, Help, Allocate, LoadTailNext, CheckTail, Link, Swing, LoadHead,
             LoadHeadNext, CheckHead, ReturnsEmpty, ReadData, Advance, Delete, FailsSpuriously,
             Destroy, Ended, vars
    <2>3. ASSUME ~scenario'.reuse PROVE \E d \in Seq(Addresses) : Chain(d)'
      <3>1. PICK c \in Seq(Addresses) : Chain(c)
        BY <2>2, <2>3 DEF IInv
      <3>2. QED
        BY <2>1, <2>2, <2>3, <3>1, StepChain
    <2>4. ASSUME Alone' PROVE \E r \in Seq(Addresses) : Queue(r)'
      <3>1. Alone
        BY <2>2, <2>4 DEF Alone
      <3>2. PICK q \in Seq(Addresses) : Queue(q)
        BY <3>1 DEF IInv
      <3>3. QED
        BY <2>1, <3>1, <3>2, StepQueue
    <2>5. QED
      BY <2>1, <2>3, <2>4 DEF IInv
  <1>3. QED
    BY <1>1, <1>2, PTL DEF Spec

(* Every variable keeps its type, in every scenario. *)
THEOREM TypeCorrect == Spec => []TypeOK
  <1>1. IInv => TypeOK
    BY DEF IInv
  <1>2. QED
    BY <1>1, Invariance, PTL

(* Values leave the queue in the order in which their nodes were linked, none twice and none
   made up: what pop returned is a prefix of what was pushed.  This holds for any number of
   threads that call push and pop without reuse of memory, and with reuse for one of each. *)
THEOREM FirstInFirstOut == Spec => [](~scenario.reuse \/ Alone => FIFO)
  <1>1. IInv /\ (~scenario.reuse \/ Alone) => FIFO
    <2> SUFFICES ASSUME IInv, ~scenario.reuse \/ Alone PROVE FIFO
      OBVIOUS
    <2>1. TypeOK /\ pushed \in Seq(Values) /\ popped \in Seq(Values \cup {Null})
      BY DEF IInv, TypeOK
    <2>2. Len(popped) <= Len(pushed) /\ \A i \in 1..Len(popped) : popped[i] = pushed[i]
      BY DEF IInv, Chain, HeadAt, Queue
    <2>3. Len(popped) \in Nat /\ Len(pushed) \in Nat
      BY <2>1, LenProperties
    <2>4. SubSeq(pushed, 1, Len(popped)) = popped
      <3>1. /\ SubSeq(pushed, 1, Len(popped)) \in Seq(Values)
            /\ Len(SubSeq(pushed, 1, Len(popped))) = Len(popped)
            /\ \A i \in 1..Len(popped) : SubSeq(pushed, 1, Len(popped))[i] = pushed[i]
        BY <2>1, <2>2, <2>3
      <3>2. QED
        BY <2>1, <2>2, <3>1, SeqEqual
    <2>5. QED
      BY <2>2, <2>4 DEF FIFO, IsPrefix
  <1>2. QED
    BY <1>1, Invariance, PTL

(* When pop says that the queue is empty, it was, at the moment of the call when the next
   node was read: no value that somebody pushed before is overlooked. *)
THEOREM EmptyIsTruthful == Spec => [](~scenario.reuse \/ Alone => EmptyWasEmpty)
  <1>1. IInv /\ (~scenario.reuse \/ Alone) => EmptyWasEmpty
    <2> SUFFICES ASSUME IInv, ~scenario.reuse \/ Alone, NEW c \in Consumers, pc[c] = "empty"
                 PROVE  local[c].sawEmpty
      BY DEF EmptyWasEmpty
    <2>1. CASE ~scenario.reuse
      BY <2>1 DEF IInv, Chain, Pops
    <2>2. CASE Alone
      <3>1. PICK q \in Seq(Addresses) : Queue(q)
        BY <2>2 DEF IInv
      <3>2. c \in Threads /\ ~AllDone
        BY Roles DEF AllDone
      <3>3. c = C
        <4>1. c \notin Producers /\ P \in Producers
          BY <2>2, TheTwo, Roles DEF IInv
        <4>2. QED
          BY <3>1, <3>2, <4>1 DEF Queue
      <3>4. QED
        BY <3>1, <3>2, <3>3 DEF Queue, Consuming
    <2>3. QED
      BY <2>1, <2>2
  <1>2. QED
    BY <1>1, Invariance, PTL

(* One producer and one consumer never follow a pointer to a deleted node and never delete
   one twice, although new may return the address of a node that the other thread still
   remembers; and the destructor leaves no node behind. *)
THEOREM MemorySafe == Spec => []OneByOneIsMemorySafe
  <1>1. IInv => OneByOneIsMemorySafe
    <2> SUFFICES ASSUME IInv, Alone PROVE ~badAccess /\ (head = Null => live = {})
      BY DEF OneByOneIsMemorySafe, Alone
    <2>1. PICK q \in Seq(Addresses) : Queue(q)
      BY DEF IInv
    <2>2. TypeOK /\ live \subseteq Addresses
      BY DEF IInv, TypeOK
    <2>3. ASSUME head = Null PROVE live = {}
      <3>1. \A i \in 1..Len(q) : q[i] # Null
        BY <2>2, Lengths
      <3>2. AllDone
        BY <2>1, <2>2, <2>3, Sizes
      <3>3. Len(q) = 0
        <4>1. Len(q) # 0 => 1 \in 1..Len(q)
          BY <2>2, Lengths
        <4>2. QED
          BY <2>1, <2>3, <3>1, <4>1 DEF Queue, Cells
      <3>4. pc[P] \notin Unlinked /\ pc[C] # "delete"
        BY <2>2, <3>2, TheTwo DEF AllDone, Unlinked
      <3>5. \A a \in Addresses : a \notin live
        BY <2>1, <3>3, <3>4 DEF Queue, Owners, Owned
      <3>6. QED
        BY <2>2, <3>5
    <2>4. QED
      BY <2>1, <2>3 DEF Queue
  <1>2. QED
    BY <1>1, Invariance, PTL
=============================================================================
