---------------------------- MODULE PipelineProofs ----------------------------
(* Safety of the pipeline for any number of stages, packets and spurious wakeups. *)
EXTENDS Pipeline, SequenceTheorems, TLAPS

\* Each stage runs its own loop: the first fetches, the last has no queue to push into.
Control ==
  /\ pc[1] \notin {"pop", "waiting"}
  /\ \A q \in Queues : pc[q+1] # "fetch"
  /\ pc[LastStage] \notin {"notify", "shutdown", "notifyAll"}
  /\ \A s \in Stages : packet[s] # 0 <=> pc[s] = "work"

\* The first stage counts up to packetCount.
Source ==
  /\ Len(passed[1]) <= packetCount
  /\ pc[1] = "work" => Len(passed[1]) < packetCount
  /\ pc[1] \in {"shutdown", "notifyAll", "done"} => Len(passed[1]) = packetCount

\* The flag of a queue tells where its producer is; a consumer that gave up saw the flag
\* and an empty queue, and both stay.
Handover == \A q \in Queues :
  /\ isShutdownRequested[q] <=> pc[q] \in {"notifyAll", "done"}
  /\ pc[q+1] \in {"shutdown", "notifyAll", "done"} =>
       isShutdownRequested[q] /\ dataQueue[q] = <<>>

\* The inductive invariant.
IInv == TypeOK /\ Control /\ Source /\ Handover /\ InOrder /\ CascadingShutdown /\ NoLostWakeup

-----------------------------------------------------------------------------
(* The stages and the queues between them, without the arithmetic of their numbers. *)
LEMMA Neighbours ==
  /\ Stages \subseteq Nat /\ 1 \in Stages /\ LastStage \in Stages /\ 1 # LastStage
  /\ \A q \in Queues : q \in Stages /\ q+1 \in Stages /\ q # LastStage /\ q+1 # 1
  /\ LastStage \notin Queues
  BY PipelineAssumption DEF Stages, Queues

LEMMA Apart == \A q, r \in Queues : q \in Nat /\ q # q+1 /\ (q+1 = r+1 => q = r)
  BY PipelineAssumption DEF Queues

(* The queue before a stage, and the queues before a queue. *)
LEMMA Upstream ==
  /\ \A s \in Stages : s # 1 => s-1 \in Queues /\ (s-1)+1 = s
  /\ \A q \in Queues : \A r \in 1..q-1 : r \in Queues /\ r # q
  BY PipelineAssumption DEF Stages, Queues

(* What the queue operations do to InOrder: a finished element goes to the back of the
   queue of the next stage. *)
LEMMA PushKeepsOrder ==
  \A s, q \in Seq(1..packetCount), x \in 1..packetCount : Append(s \o q, x) = s \o Append(q, x)
  BY SMT

(* Finishing the one held element moves it to the end of what was finished. *)
LEMMA FinishKeepsOrder ==
  ASSUME NEW S, NEW p \in Seq(S), NEW q \in Seq(S), NEW x \in S
  PROVE  p \o <<x>> \o q = Append(p, x) \o <<>> \o q
  <1>1. Append(p, x) = p \o <<x>> /\ Append(p, x) \in Seq(S)
    BY AppendIsConcat, AppendProperties
  <1>2. Append(p, x) \o <<>> = Append(p, x)
    BY <1>1, ConcatEmptySeq
  <1>3. QED
    BY <1>1, <1>2, Zenon

(* Taking the front of a queue while holding nothing makes it the held element. *)
LEMMA TakeKeepsOrder ==
  ASSUME NEW S, NEW p \in Seq(S), NEW q \in Seq(S), q # <<>>
  PROVE  /\ Head(q) \in S /\ Tail(q) \in Seq(S)
         /\ p \o <<>> \o q = p \o <<Head(q)>> \o Tail(q)
  <1>1. Head(q) \in S /\ Tail(q) \in Seq(S) /\ <<Head(q)>> \in Seq(S)
    BY HeadTailProperties
  <1>2. q = <<Head(q)>> \o Tail(q)
    BY SMT
  <1>3. p \o (<<Head(q)>> \o Tail(q)) = p \o <<Head(q)>> \o Tail(q)
    BY <1>1, ConcatAssociative
  <1>4. p \o <<>> = p
    BY ConcatEmptySeq
  <1>5. QED
    BY <1>1, <1>2, <1>3, <1>4, Zenon

-----------------------------------------------------------------------------
(* Before the first packet the inductive invariant holds. *)
LEMMA InitInv == Init => IInv
  <1> SUFFICES ASSUME Init PROVE IInv
    OBVIOUS
  <1> USE Neighbours, PipelineAssumption DEF Init
  <1>1. TypeOK
    BY EmptySeq DEF TypeOK
  <1>2. Control /\ Source /\ Handover
    BY DEF Control, Source, Handover
  <1>3. CascadingShutdown /\ NoLostWakeup
    BY DEF CascadingShutdown, NoLostWakeup
  <1>4. InOrder
    <2> SUFFICES ASSUME NEW q \in Queues
                 PROVE  /\ passed[q] = passed[q+1] \o Held(q+1) \o dataQueue[q]
                        /\ pc[q+1] = "done" => dataQueue[q] = <<>>
      BY DEF InOrder
    <2>1. passed[q] = <<>> /\ passed[q+1] = <<>> /\ packet[q+1] = 0 /\ dataQueue[q] = <<>>
      OBVIOUS
    <2>2. QED
      BY <2>1 DEF Held
  <1>5. QED
    BY <1>1, <1>2, <1>3, <1>4 DEF IInv

-----------------------------------------------------------------------------
(* A step that leaves packets and queues alone, and ends no stage, keeps InOrder. *)
LEMMA OrderUnchanged ==
  ASSUME InOrder, UNCHANGED <<packet, dataQueue, passed>>,
         \A q \in Queues : pc'[q+1] = "done" => pc[q+1] = "done" \/ dataQueue[q] = <<>>
  PROVE  InOrder'
  BY DEF InOrder, Held

(* The stage that moves its packet from its hands to the end of what it finished keeps
   the order with respect to the stage before it. *)
LEMMA FinishingKeepsOrder ==
  ASSUME IInv, NEW q \in Queues, packet[q+1] \in 1..packetCount,
         passed'[q] = passed[q], passed'[q+1] = Append(passed[q+1], packet[q+1]),
         packet'[q+1] = 0, dataQueue'[q] = dataQueue[q], pc'[q+1] # "done"
  PROVE  /\ passed'[q] = passed'[q+1] \o Held(q+1)' \o dataQueue'[q]
         /\ pc'[q+1] = "done" => dataQueue'[q] = <<>>
  <1>1. Held(q+1) = <<packet[q+1]>> /\ Held(q+1)' = <<>>
    BY PipelineAssumption DEF Held
  <1>2. passed[q] = passed[q+1] \o <<packet[q+1]>> \o dataQueue[q]
    BY <1>1 DEF IInv, InOrder
  <1>3. passed[q+1] \in Seq(1..packetCount) /\ dataQueue[q] \in Seq(1..packetCount)
    BY Neighbours DEF IInv, TypeOK
  <1>4. passed[q+1] \o <<packet[q+1]>> \o dataQueue[q]
          = Append(passed[q+1], packet[q+1]) \o <<>> \o dataQueue[q]
    <2>1. \A p, d \in Seq(1..packetCount), x \in 1..packetCount :
            p \o <<x>> \o d = Append(p, x) \o <<>> \o d
      BY FinishKeepsOrder, Zenon
    <2>2. QED
      BY <1>3, <2>1, Zenon
  <1>5. QED
    BY <1>1, <1>2, <1>4, Zenon

(* Neither end of queue q has a part in the step. *)
LEMMA ElsewhereKeepsOrder ==
  ASSUME InOrder, NEW q \in Queues,
         passed'[q] = passed[q], passed'[q+1] = passed[q+1], packet'[q+1] = packet[q+1],
         dataQueue'[q] = dataQueue[q], pc'[q+1] = pc[q+1]
  PROVE  /\ passed'[q] = passed'[q+1] \o Held(q+1)' \o dataQueue'[q]
         /\ pc'[q+1] = "done" => dataQueue'[q] = <<>>
  BY DEF InOrder, Held

(* push: the packet leaves the stage's hands for the queue behind it. *)
LEMMA PushStep == ASSUME IInv, NEW s \in Stages, Push(s) PROVE IInv'
  <1>0. /\ s \in Queues /\ s+1 \in Stages /\ s+1 # s /\ pc[s] = "work"
        /\ pc' = [pc EXCEPT ![s] = "notify"] /\ packet' = [packet EXCEPT ![s] = 0]
        /\ dataQueue' = [dataQueue EXCEPT ![s] = Append(@, packet[s])]
        /\ passed' = [passed EXCEPT ![s] = Append(@, packet[s])]
        /\ UNCHANGED <<isShutdownRequested, spurious>>
    BY Neighbours DEF Push, Goto
  <1>1. packet[s] \in 1..packetCount
    BY <1>0, PipelineAssumption DEF IInv, TypeOK, Control
  <1>2. /\ Append(dataQueue[s], packet[s]) \in Seq(1..packetCount)
        /\ Append(passed[s], packet[s]) \in Seq(1..packetCount)
        /\ Len(passed[s]) \in Nat /\ Len(Append(passed[s], packet[s])) = Len(passed[s]) + 1
    BY <1>0, <1>1, AppendProperties, LenProperties DEF IInv, TypeOK
  <1>3. TypeOK'
    <2>1. pc' \in [Stages -> {"fetch", "pop", "waiting", "work", "notify", "shutdown", "notifyAll", "done"}]
      BY <1>0 DEF IInv, TypeOK
    <2>2. packet' \in [Stages -> 0..packetCount]
      BY <1>0, PipelineAssumption DEF IInv, TypeOK
    <2>3. dataQueue' \in [Queues -> Seq(1..packetCount)] /\ passed' \in [Stages -> Seq(1..packetCount)]
      BY <1>0, <1>2 DEF IInv, TypeOK
    <2>4. QED
      BY <1>0, <2>1, <2>2, <2>3 DEF IInv, TypeOK
  <1>4. Control'
    BY <1>0, Neighbours DEF IInv, TypeOK, Control
  <1>5. Source'
    BY <1>0, <1>2, Neighbours, PipelineAssumption DEF IInv, TypeOK, Source
  <1>6. Handover'
    <2>1. Handover /\ DOMAIN pc = Stages /\ DOMAIN dataQueue = Queues /\ DOMAIN isShutdownRequested = Queues
      BY DEF IInv, TypeOK
    <2>2. /\ \A r \in Stages : pc'[r] = IF r = s THEN "notify" ELSE pc[r]
          /\ \A q \in Queues : q # s => dataQueue'[q] = dataQueue[q]
      BY <1>0, <2>1
    <2>3. QED
      BY <1>0, <2>1, <2>2, Neighbours DEF Handover
  <1>7. NoLostWakeup'
    BY <1>0, Neighbours DEF IInv, TypeOK, NoLostWakeup
  <1>8. CascadingShutdown'
    <2>1. ~isShutdownRequested[s]
      BY <1>0 DEF IInv, Handover
    <2>2. \A q \in Queues : isShutdownRequested[q] => q # s /\ \A r \in 1..q-1 : r # s
      BY <2>1 DEF IInv, CascadingShutdown
    <2>3. \A q \in Queues : q # s => passed'[q] = passed[q] /\ dataQueue'[q] = dataQueue[q]
      BY <1>0, Neighbours DEF IInv, TypeOK
    <2>4. QED
      BY <1>0, <2>2, <2>3, Upstream DEF IInv, CascadingShutdown
  <1>9. InOrder'
    <2> SUFFICES ASSUME NEW q \in Queues
                 PROVE  /\ passed'[q] = passed'[q+1] \o Held(q+1)' \o dataQueue'[q]
                        /\ pc'[q+1] = "done" => dataQueue'[q] = <<>>
      BY DEF InOrder
    <2>0. q \in Stages /\ q+1 \in Stages /\ q # q+1
      BY Neighbours, Apart
    <2>1. CASE q = s
      <3>1. /\ passed'[q] = Append(passed[q], packet[q]) /\ passed'[q+1] = passed[q+1]
            /\ packet'[q+1] = packet[q+1] /\ dataQueue'[q] = Append(dataQueue[q], packet[q])
            /\ pc'[q+1] = pc[q+1]
        BY <1>0, <2>0, <2>1 DEF IInv, TypeOK
      <3>2. Held(q+1)' = Held(q+1) /\ Held(q+1) \in Seq(1..packetCount)
        <4>1. packet[q+1] \in 0..packetCount
          BY <2>0 DEF IInv, TypeOK
        <4>2. packet[q+1] = 0 \/ packet[q+1] \in 1..packetCount
          BY <4>1, PipelineAssumption
        <4>3. Held(q+1) = <<>> \/ Held(q+1) = <<packet[q+1]>>
          BY DEF Held
        <4>4. <<>> \in Seq(1..packetCount) /\ (packet[q+1] # 0 => <<packet[q+1]>> \in Seq(1..packetCount))
          BY <4>2
        <4>5. Held(q+1)' = Held(q+1)
          BY <3>1 DEF Held
        <4>6. QED
          BY <4>4, <4>5 DEF Held
      <3>3. /\ passed[q] = passed[q+1] \o Held(q+1) \o dataQueue[q]
            /\ passed[q+1] \in Seq(1..packetCount) /\ dataQueue[q] \in Seq(1..packetCount)
        BY <2>0 DEF IInv, InOrder, TypeOK
      <3>4. Append(passed[q+1] \o Held(q+1) \o dataQueue[q], packet[q])
              = passed[q+1] \o Held(q+1) \o Append(dataQueue[q], packet[q])
        <4> DEFINE r == passed[q+1] \o Held(q+1)
                   d == dataQueue[q]
                   x == packet[q]
        <4>1. r \in Seq(1..packetCount) /\ d \in Seq(1..packetCount) /\ x \in 1..packetCount
          BY <1>1, <2>1, <3>2, <3>3, ConcatProperties
        <4> HIDE DEF r, d, x
        <4>2. Append(r \o d, x) = r \o Append(d, x)
          BY <4>1, PushKeepsOrder, Zenon
        <4>3. QED
          BY <4>2 DEF r, d, x
      <3>5. pc[q+1] # "done"
        BY <1>0, <2>1 DEF IInv, Handover
      <3>6. QED
        BY <3>1, <3>2, <3>3, <3>4, <3>5, Zenon
    <2>2. CASE q + 1 = s
      <3>1. /\ passed'[q] = passed[q] /\ passed'[q+1] = Append(passed[q+1], packet[q+1])
            /\ packet'[q+1] = 0 /\ dataQueue'[q] = dataQueue[q] /\ pc'[q+1] = "notify"
        BY <1>0, <2>0, <2>2 DEF IInv, TypeOK
      <3>2. QED
        BY <1>1, <2>2, <3>1, FinishingKeepsOrder
    <2>3. CASE q # s /\ q + 1 # s
      <3>1. /\ passed'[q] = passed[q] /\ passed'[q+1] = passed[q+1] /\ packet'[q+1] = packet[q+1]
            /\ dataQueue'[q] = dataQueue[q] /\ pc'[q+1] = pc[q+1]
        BY <1>0, <2>0, <2>3 DEF IInv, TypeOK
      <3>2. QED
        BY <3>1, ElsewhereKeepsOrder DEF IInv
    <2>4. QED
      BY <2>1, <2>2, <2>3
  <1>10. QED
    BY <1>3, <1>4, <1>5, <1>6, <1>7, <1>8, <1>9 DEF IInv

(* push's notify_one and shutdown's notify_all. *)
LEMMA NotifyStep ==
  ASSUME IInv, NEW s \in Queues, NEW from \in {"notify", "notifyAll"},
         GotoAndNotify(s, from, IF from = "notify" THEN Loop(s) ELSE "done"),
         UNCHANGED <<packet, dataQueue, isShutdownRequested, passed, spurious>>
  PROVE  IInv'
  <1> DEFINE to == IF from = "notify" THEN Loop(s) ELSE "done"
  <1>0. /\ s \in Stages /\ s \in Nat /\ pc[s] = from /\ to \in {"fetch", "pop", "done"}
        /\ pc' = [pc EXCEPT ![s] = to, ![s+1] = IF @ = "waiting" THEN "pop" ELSE @]
        /\ to = "done" <=> from = "notifyAll"
        /\ to = "fetch" => s = 1
        /\ to = "pop" => s # 1
    BY Neighbours DEF GotoAndNotify, Loop
  <1> HIDE DEF to
  <1>1. /\ pc'[s] = to
        /\ pc'[s+1] = IF pc[s+1] = "waiting" THEN "pop" ELSE pc[s+1]
        /\ \A r \in Stages : r # s /\ r # s+1 => pc'[r] = pc[r]
        /\ \A r \in Stages : pc'[r] \in {"fetch", "pop", "waiting", "work", "notify", "shutdown", "notifyAll", "done"}
        /\ DOMAIN pc' = Stages
    <2>1. /\ s+1 \in Stages /\ s+1 # s /\ DOMAIN pc = Stages
          /\ \A r \in Stages : pc[r] \in {"fetch", "pop", "waiting", "work", "notify", "shutdown", "notifyAll", "done"}
      BY <1>0, Neighbours DEF IInv, TypeOK
    <2>2. /\ pc'[s] = to
          /\ pc'[s+1] = IF pc[s+1] = "waiting" THEN "pop" ELSE pc[s+1]
          /\ \A r \in Stages : r # s /\ r # s+1 => pc'[r] = pc[r]
          /\ DOMAIN pc' = Stages
      BY <1>0, <2>1
    <2>3. QED
      BY <1>0, <2>1, <2>2
  <1>2. \A q \in Queues : q \in Nat /\ (q+1 = s+1 => q = s)
    BY Apart
  <1>3. TypeOK'
    <2>1. pc' \in [Stages -> {"fetch", "pop", "waiting", "work", "notify", "shutdown", "notifyAll", "done"}]
      <3>1. DOMAIN pc' = Stages /\ pc' = [r \in DOMAIN pc' |-> pc'[r]]
        BY <1>0, <1>1
      <3>2. QED
        BY <1>1, <3>1
    <2>2. QED
      BY <2>1 DEF IInv, TypeOK
  <1>4. Source' /\ CascadingShutdown'
    BY <1>0, <1>1, Neighbours DEF IInv, Source, CascadingShutdown
  <1>5. Control'
    BY <1>0, <1>1, Neighbours DEF IInv, Control
  <1>6. Handover'
    <2>1. Handover
      BY DEF IInv
    <2>2. \A r \in Stages : r # s => \A x \in {"shutdown", "notifyAll", "done"} : pc'[r] = x <=> pc[r] = x
      BY <1>1, Neighbours
    <2>3. pc[s] = from /\ pc'[s] = to /\ to \notin {"shutdown", "notifyAll"}
          /\ (to = "done" <=> from = "notifyAll")
      BY <1>0, <1>1
    <2>4. ASSUME NEW q \in Queues
          PROVE  /\ isShutdownRequested'[q] <=> pc'[q] \in {"notifyAll", "done"}
                 /\ pc'[q+1] \in {"shutdown", "notifyAll", "done"} =>
                      isShutdownRequested'[q] /\ dataQueue'[q] = <<>>
      <3>1. /\ isShutdownRequested[q] <=> pc[q] \in {"notifyAll", "done"}
            /\ pc[q+1] \in {"shutdown", "notifyAll", "done"} =>
                 isShutdownRequested[q] /\ dataQueue[q] = <<>>
        BY <2>1 DEF Handover
      <3>2. q \in Stages /\ q+1 \in Stages
        BY Neighbours
      <3>3. pc'[q] \in {"notifyAll", "done"} <=> pc[q] \in {"notifyAll", "done"}
        BY <2>2, <2>3, <3>2
      <3>4. pc'[q+1] \in {"shutdown", "notifyAll", "done"} => pc[q+1] \in {"shutdown", "notifyAll", "done"}
        BY <2>2, <2>3, <3>2
      <3>5. QED
        BY <3>1, <3>3, <3>4
    <2>5. QED
      BY <2>4 DEF Handover
  <1>7. NoLostWakeup'
    <2> SUFFICES ASSUME NEW q \in Queues, pc'[q+1] = "waiting"
                 PROVE  /\ dataQueue[q] # <<>> => pc'[q] = "notify"
                        /\ isShutdownRequested[q] => pc'[q] = "notifyAll"
      BY DEF NoLostWakeup
    <2>1. q # s /\ pc[q+1] = "waiting" /\ (q = s+1 \/ pc'[q] = pc[q])
      BY <1>0, <1>1, <1>2, Neighbours
    <2>2. pc[q] # "waiting" => pc'[q] = pc[q]
      BY <1>0, <1>1, <2>1, Neighbours
    <2>3. QED
      BY <2>1, <2>2 DEF IInv, NoLostWakeup
  <1>8. InOrder'
    <2>1. \A q \in Queues : pc'[q+1] = "done" => dataQueue[q] = <<>>
      BY <1>0, <1>6, Neighbours DEF Handover
    <2>2. QED
      BY <2>1, OrderUnchanged DEF IInv
  <1>9. QED
    BY <1>3, <1>4, <1>5, <1>6, <1>7, <1>8 DEF IInv

(* shutdown sets the flag of the queue behind the stage: all packets went into it. *)
LEMMA ShutdownStep == ASSUME IInv, NEW s \in Stages, Shutdown(s) PROVE IInv'
  <1>0. /\ s \in Queues /\ pc[s] = "shutdown" /\ pc' = [pc EXCEPT ![s] = "notifyAll"]
        /\ isShutdownRequested' = [isShutdownRequested EXCEPT ![s] = TRUE]
        /\ UNCHANGED <<packet, dataQueue, passed, spurious>>
    BY DEF Shutdown, Goto
  <1>1. TypeOK'
    BY <1>0 DEF IInv, TypeOK
  <1>2. Source'
    BY <1>0, Neighbours DEF IInv, TypeOK, Source
  <1>3. Control'
    BY <1>0, Neighbours DEF IInv, TypeOK, Control
  <1>4. Handover'
    <2>1. Handover /\ DOMAIN pc = Stages /\ DOMAIN dataQueue = Queues /\ DOMAIN isShutdownRequested = Queues
      BY DEF IInv, TypeOK
    <2>2. /\ \A r \in Stages : pc'[r] = IF r = s THEN "notifyAll" ELSE pc[r]
          /\ \A q \in Queues : isShutdownRequested'[q] = IF q = s THEN TRUE ELSE isShutdownRequested[q]
      BY <1>0, <2>1, Neighbours
    <2>3. \A q \in Queues : q + 1 = s => isShutdownRequested[q] /\ dataQueue[q] = <<>>
      BY <1>0, <2>1 DEF Handover
    <2>4. QED
      BY <1>0, <2>1, <2>2, <2>3, Neighbours DEF Handover
  <1>5. NoLostWakeup'
    BY <1>0, Neighbours DEF IInv, TypeOK, NoLostWakeup
  <1>6. InOrder'
    <2>1. \A q \in Queues : pc'[q+1] = "done" => pc[q+1] = "done"
      BY <1>0, Neighbours DEF IInv, TypeOK
    <2>2. QED
      BY <1>0, <2>1, OrderUnchanged DEF IInv
  <1>7. /\ Len(passed[s]) = packetCount
        /\ \A r \in 1..s-1 : isShutdownRequested[r] /\ dataQueue[r] = <<>>
    <2>1. CASE s = 1
      BY <1>0, <2>1 DEF IInv, Source
    <2>2. CASE s # 1
      <3>1. PICK q \in Queues : q+1 = s
        BY <2>2, Upstream
      <3>2. isShutdownRequested[q] /\ dataQueue[q] = <<>> /\ packet[s] = 0
        BY <1>0, <3>1 DEF IInv, Handover, Control
      <3>3. passed[q] = passed[s] \o <<>> \o <<>>
        BY <3>1, <3>2 DEF IInv, InOrder, Held
      <3>4. passed[q] = passed[s]
        BY <3>3, ConcatEmptySeq DEF IInv, TypeOK
      <3>5. Len(passed[q]) = packetCount /\ \A r \in 1..q-1 : isShutdownRequested[r] /\ dataQueue[r] = <<>>
        BY <3>2 DEF IInv, CascadingShutdown
      <3>6. \A r \in 1..s-1 : r = q \/ r \in 1..q-1
        BY <3>1, Apart
      <3>7. QED
        BY <3>2, <3>4, <3>5, <3>6
    <2>3. QED
      BY <2>1, <2>2
  <1>8. CascadingShutdown'
    <2> SUFFICES ASSUME NEW q \in Queues, isShutdownRequested'[q]
                 PROVE  /\ Len(passed'[q]) = packetCount
                        /\ \A r \in 1..q-1 : isShutdownRequested'[r] /\ dataQueue'[r] = <<>>
      BY DEF CascadingShutdown
    <2>1. \A r \in Queues : isShutdownRequested[r] => isShutdownRequested'[r]
      BY <1>0 DEF IInv, TypeOK
    <2>2. CASE q = s
      BY <1>0, <1>7, <2>1, <2>2, Upstream
    <2>3. CASE q # s
      <3>1. isShutdownRequested[q]
        BY <1>0, <2>3 DEF IInv, TypeOK
      <3>2. QED
        BY <1>0, <2>1, <3>1, Upstream DEF IInv, CascadingShutdown
    <2>4. QED
      BY <2>2, <2>3
  <1>9. QED
    BY <1>1, <1>2, <1>3, <1>4, <1>5, <1>6, <1>8 DEF IInv

(* pop takes the front of the queue before the stage. *)
LEMMA TakeStep == ASSUME IInv, NEW s \in Stages, PopTakes(s) PROVE IInv'
  <1>0. PICK p \in Queues :
        /\ s = p+1 /\ dataQueue[p] # <<>>
        /\ pc[s] = "pop" /\ pc' = [pc EXCEPT ![s] = "work"]
        /\ packet' = [packet EXCEPT ![s] = Head(dataQueue[p])]
        /\ dataQueue' = [dataQueue EXCEPT ![p] = Tail(@)]
        /\ UNCHANGED <<isShutdownRequested, passed, spurious>>
    BY Upstream DEF PopTakes, Goto
  <1>1. dataQueue[p] \in Seq(1..packetCount) /\ passed[s] \in Seq(1..packetCount)
    BY DEF IInv, TypeOK
  <1>2. /\ Head(dataQueue[p]) \in 1..packetCount /\ Tail(dataQueue[p]) \in Seq(1..packetCount)
        /\ passed[s] \o <<>> \o dataQueue[p] = passed[s] \o <<Head(dataQueue[p])>> \o Tail(dataQueue[p])
    <2>1. \A r, d \in Seq(1..packetCount) : d # <<>> =>
            /\ Head(d) \in 1..packetCount /\ Tail(d) \in Seq(1..packetCount)
            /\ r \o <<>> \o d = r \o <<Head(d)>> \o Tail(d)
      BY TakeKeepsOrder, Zenon
    <2>2. QED
      BY <1>0, <1>1, <2>1, Zenon
  <1>3. TypeOK'
    <2>1. pc' \in [Stages -> {"fetch", "pop", "waiting", "work", "notify", "shutdown", "notifyAll", "done"}]
      BY <1>0 DEF IInv, TypeOK
    <2>2. packet' \in [Stages -> 0..packetCount]
      BY <1>0, <1>2, PipelineAssumption DEF IInv, TypeOK
    <2>3. dataQueue' \in [Queues -> Seq(1..packetCount)]
      BY <1>0, <1>2 DEF IInv, TypeOK
    <2>4. QED
      BY <1>0, <2>1, <2>2, <2>3 DEF IInv, TypeOK
  <1>4. Control'
    <2>1. packet'[s] # 0 /\ \A r \in Stages : r # s => packet'[r] = packet[r] /\ pc'[r] = pc[r]
      BY <1>0, <1>2, PipelineAssumption DEF IInv, TypeOK
    <2>2. pc'[s] = "work"
      BY <1>0 DEF IInv, TypeOK
    <2>3. QED
      BY <1>0, <2>1, <2>2, Neighbours DEF IInv, Control
  <1>5. Source'
    BY <1>0, Neighbours DEF IInv, TypeOK, Source
  <1>6. Handover'
    BY <1>0, Neighbours DEF IInv, TypeOK, Handover
  <1>7. NoLostWakeup'
    BY <1>0, Neighbours DEF IInv, TypeOK, NoLostWakeup
  <1>8. CascadingShutdown'
    <2>1. \A r \in Queues : dataQueue[r] = <<>> => dataQueue'[r] = <<>>
      BY <1>0 DEF IInv, TypeOK
    <2>2. QED
      BY <1>0, <2>1, Upstream DEF IInv, CascadingShutdown
  <1>9. InOrder'
    <2> SUFFICES ASSUME NEW q \in Queues
                 PROVE  /\ passed'[q] = passed'[q+1] \o Held(q+1)' \o dataQueue'[q]
                        /\ pc'[q+1] = "done" => dataQueue'[q] = <<>>
      BY DEF InOrder
    <2>0. q \in Stages /\ q+1 \in Stages /\ (q+1 = p+1 => q = p)
      BY Neighbours, Apart
    <2>1. CASE q = p
      <3>1. /\ passed'[q] = passed[q] /\ passed'[q+1] = passed[q+1]
            /\ dataQueue'[q] = Tail(dataQueue[q]) /\ pc'[q+1] = "work"
            /\ packet[q+1] = 0 /\ packet'[q+1] = Head(dataQueue[q])
        BY <1>0, <2>0, <2>1 DEF IInv, TypeOK, Control
      <3>2. Held(q+1) = <<>> /\ Held(q+1)' = <<Head(dataQueue[q])>>
        BY <1>2, <2>1, <3>1, PipelineAssumption DEF Held
      <3>3. passed[q] = passed[q+1] \o <<>> \o dataQueue[q]
        BY <3>2 DEF IInv, InOrder
      <3>4. QED
        BY <1>0, <1>2, <2>1, <3>1, <3>2, <3>3
    <2>2. CASE q # p
      <3>1. /\ passed'[q] = passed[q] /\ passed'[q+1] = passed[q+1] /\ packet'[q+1] = packet[q+1]
            /\ dataQueue'[q] = dataQueue[q] /\ pc'[q+1] = pc[q+1]
        BY <1>0, <2>0, <2>2 DEF IInv, TypeOK
      <3>2. QED
        BY <3>1, ElsewhereKeepsOrder DEF IInv
    <2>3. QED
      BY <2>1, <2>2
  <1>10. QED
    BY <1>3, <1>4, <1>5, <1>6, <1>7, <1>8, <1>9 DEF IInv

(* The last stage is done with a packet. *)
LEMMA ProcessStep == ASSUME IInv, Process PROVE IInv'
  <1>0. /\ pc[LastStage] = "work" /\ pc' = [pc EXCEPT ![LastStage] = "pop"]
        /\ passed' = [passed EXCEPT ![LastStage] = Append(@, packet[LastStage])]
        /\ packet' = [packet EXCEPT ![LastStage] = 0]
        /\ UNCHANGED <<dataQueue, isShutdownRequested, spurious>>
    BY DEF Process, Goto
  <1>1. packet[LastStage] \in 1..packetCount
    BY <1>0, Neighbours, PipelineAssumption DEF IInv, TypeOK, Control
  <1>2. Append(passed[LastStage], packet[LastStage]) \in Seq(1..packetCount)
    BY <1>1, Neighbours, AppendProperties DEF IInv, TypeOK
  <1>3. TypeOK'
    <2>1. pc' \in [Stages -> {"fetch", "pop", "waiting", "work", "notify", "shutdown", "notifyAll", "done"}]
      BY <1>0 DEF IInv, TypeOK
    <2>2. packet' \in [Stages -> 0..packetCount]
      <3>1. 0 \in 0..packetCount
        BY PipelineAssumption
      <3>2. QED
        BY <1>0, <3>1 DEF IInv, TypeOK
    <2>3. passed' \in [Stages -> Seq(1..packetCount)]
      BY <1>0, <1>2 DEF IInv, TypeOK
    <2>4. QED
      BY <1>0, <2>1, <2>2, <2>3 DEF IInv, TypeOK
  <1>4. Control'
    BY <1>0, Neighbours DEF IInv, TypeOK, Control
  <1>5. Source'
    BY <1>0, Neighbours DEF IInv, TypeOK, Source
  <1>6. Handover'
    BY <1>0, Neighbours DEF IInv, TypeOK, Handover
  <1>7. CascadingShutdown'
    BY <1>0, Neighbours DEF IInv, TypeOK, CascadingShutdown
  <1>8. NoLostWakeup'
    BY <1>0, Neighbours DEF IInv, TypeOK, NoLostWakeup
  <1>9. InOrder'
    <2> SUFFICES ASSUME NEW q \in Queues
                 PROVE  /\ passed'[q] = passed'[q+1] \o Held(q+1)' \o dataQueue'[q]
                        /\ pc'[q+1] = "done" => dataQueue'[q] = <<>>
      BY DEF InOrder
    <2>0. q \in Stages /\ q+1 \in Stages /\ q # LastStage
      BY Neighbours
    <2>1. CASE q + 1 = LastStage
      <3>1. /\ passed'[q] = passed[q] /\ passed'[q+1] = Append(passed[q+1], packet[q+1])
            /\ packet'[q+1] = 0 /\ dataQueue'[q] = dataQueue[q] /\ pc'[q+1] = "pop"
        BY <1>0, <2>0, <2>1 DEF IInv, TypeOK
      <3>2. QED
        BY <1>1, <2>1, <3>1, FinishingKeepsOrder
    <2>2. CASE q + 1 # LastStage
      <3>1. /\ passed'[q] = passed[q] /\ passed'[q+1] = passed[q+1] /\ packet'[q+1] = packet[q+1]
            /\ dataQueue'[q] = dataQueue[q] /\ pc'[q+1] = pc[q+1]
        BY <1>0, <2>0, <2>2 DEF IInv, TypeOK
      <3>2. QED
        BY <3>1, ElsewhereKeepsOrder DEF IInv
    <2>3. QED
      BY <2>1, <2>2
  <1>10. QED
    BY <1>3, <1>4, <1>5, <1>6, <1>7, <1>8, <1>9 DEF IInv

(* Every step of a stage preserves the inductive invariant, one case per action. *)
LEMMA StepInv == IInv /\ [Next]_vars => IInv'
  <1> SUFFICES ASSUME IInv, [Next]_vars PROVE IInv'
    OBVIOUS
  <1>1. ASSUME NEW s \in Stages, Push(s) PROVE IInv'
    BY <1>1, PushStep
  <1>2. ASSUME NEW s \in Stages, NotifyOne(s) PROVE IInv'
    <2>1. s \in Queues /\ GotoAndNotify(s, "notify", Loop(s))
      BY <1>2 DEF NotifyOne
    <2>2. QED
      BY <1>2, <2>1, NotifyStep DEF NotifyOne
  <1>3. ASSUME NEW s \in Stages, Shutdown(s) PROVE IInv'
    BY <1>3, ShutdownStep
  <1>4. ASSUME NEW s \in Stages, NotifyAll(s) PROVE IInv'
    <2>1. s \in Queues /\ GotoAndNotify(s, "notifyAll", "done")
      BY <1>4 DEF NotifyAll
    <2>2. QED
      BY <1>4, <2>1, NotifyStep DEF NotifyAll
  <1>5. ASSUME NEW s \in Stages, PopWaits(s) PROVE IInv'
    <2>0. PICK p \in Queues :
          /\ s = p+1 /\ dataQueue[p] = <<>> /\ ~isShutdownRequested[p]
          /\ pc[s] = "pop" /\ pc' = [pc EXCEPT ![s] = "waiting"]
          /\ UNCHANGED <<packet, dataQueue, isShutdownRequested, passed, spurious>>
      BY <1>5, Upstream DEF PopWaits, Goto
    <2>1. TypeOK'
      BY <2>0, PipelineAssumption DEF IInv, TypeOK
    <2>2. Source'
      BY <2>0, Neighbours, PipelineAssumption DEF IInv, TypeOK, Source
    <2>3. Control'
      BY <2>0, Neighbours DEF IInv, TypeOK, Control
    <2>4. Handover'
      BY <2>0, Neighbours, Apart DEF IInv, TypeOK, Handover
    <2>5. NoLostWakeup'
      BY <2>0, Neighbours, Apart DEF IInv, TypeOK, NoLostWakeup
    <2>6. CascadingShutdown'
      BY <2>0, Neighbours DEF IInv, CascadingShutdown
    <2>7. InOrder'
      <3>1. \A q \in Queues : pc'[q+1] = "done" => pc[q+1] = "done" \/ dataQueue[q] = <<>>
        BY <2>0, Neighbours, Apart DEF IInv, TypeOK
      <3>2. QED
        BY <2>0, <3>1, OrderUnchanged DEF IInv
    <2>8. QED
      BY <2>1, <2>2, <2>3, <2>4, <2>5, <2>6, <2>7 DEF IInv
  <1>6. ASSUME NEW s \in Stages, WakesSpuriously(s) PROVE IInv'
    <2>1. TypeOK'
      BY <1>6, PipelineAssumption DEF WakesSpuriously, Goto, IInv, TypeOK
    <2>2. Source'
      BY <1>6, Neighbours, PipelineAssumption DEF WakesSpuriously, Goto, IInv, TypeOK, Source
    <2>3. Control'
      BY <1>6, Neighbours DEF WakesSpuriously, Goto, IInv, TypeOK, Control
    <2>4. Handover'
      BY <1>6, Neighbours DEF WakesSpuriously, Goto, IInv, TypeOK, Handover
    <2>5. NoLostWakeup'
      BY <1>6, Neighbours DEF WakesSpuriously, Goto, IInv, TypeOK, NoLostWakeup
    <2>6. CascadingShutdown'
      BY <1>6, Neighbours DEF WakesSpuriously, Goto, IInv, CascadingShutdown
    <2>7. InOrder'
      <3>1. \A q \in Queues : pc'[q+1] = "done" => pc[q+1] = "done" \/ dataQueue[q] = <<>>
        BY <1>6, Neighbours DEF WakesSpuriously, Goto, IInv, TypeOK
      <3>2. QED
        BY <1>6, <3>1, OrderUnchanged DEF WakesSpuriously, IInv
    <2>8. QED
      BY <2>1, <2>2, <2>3, <2>4, <2>5, <2>6, <2>7 DEF IInv
  <1>7. ASSUME NEW s \in Stages, StageEnds(s) PROVE IInv'
    <2>0. PICK p \in Queues :
          /\ s = p+1 /\ dataQueue[p] = <<>> /\ isShutdownRequested[p]
          /\ pc[s] = "pop" /\ pc' = [pc EXCEPT ![s] = IF s = LastStage THEN "done" ELSE "shutdown"]
          /\ UNCHANGED <<packet, dataQueue, isShutdownRequested, passed, spurious>>
      BY <1>7, Upstream DEF StageEnds, PopFails, Goto
    <2>1. TypeOK'
      BY <2>0, PipelineAssumption DEF IInv, TypeOK
    <2>2. Source'
      BY <2>0, Neighbours, PipelineAssumption DEF IInv, TypeOK, Source
    <2>3. Control'
      BY <2>0, Neighbours DEF IInv, TypeOK, Control
    <2>4. Handover'
      BY <2>0, Neighbours, Apart DEF IInv, TypeOK, Handover
    <2>5. NoLostWakeup'
      BY <2>0, Neighbours, Apart DEF IInv, TypeOK, NoLostWakeup
    <2>6. CascadingShutdown'
      BY <2>0, Neighbours DEF IInv, CascadingShutdown
    <2>7. InOrder'
      <3>1. \A q \in Queues : pc'[q+1] = "done" => pc[q+1] = "done" \/ dataQueue[q] = <<>>
        BY <2>0, Neighbours, Apart DEF IInv, TypeOK
      <3>2. QED
        BY <2>0, <3>1, OrderUnchanged DEF IInv
    <2>8. QED
      BY <2>1, <2>2, <2>3, <2>4, <2>5, <2>6, <2>7 DEF IInv
  <1>8. ASSUME NEW s \in Stages, PopTakes(s) PROVE IInv'
    BY <1>8, TakeStep
  <1>9. CASE Fetch
    <2>0. /\ Len(passed[1]) \in Nat /\ Len(passed[1]) < packetCount /\ pc[1] = "fetch"
          /\ pc' = [pc EXCEPT ![1] = "work"] /\ packet' = [packet EXCEPT ![1] = Len(passed[1]) + 1]
          /\ UNCHANGED <<dataQueue, isShutdownRequested, passed, spurious>>
      BY <1>9, LenProperties, Neighbours DEF Fetch, Goto, Fetched, IInv, TypeOK
    <2>1. TypeOK'
      <3>1. Len(passed[1]) + 1 \in 0..packetCount
        BY <2>0, PipelineAssumption
      <3>2. QED
        BY <2>0, <3>1 DEF IInv, TypeOK
    <2>2. Source'
      BY <2>0, Neighbours DEF IInv, TypeOK, Source
    <2>3. Control'
      <3>1. packet'[1] # 0 /\ \A r \in Stages : r # 1 => packet'[r] = packet[r] /\ pc'[r] = pc[r]
        BY <2>0, Neighbours DEF IInv, TypeOK
      <3>2. pc'[1] = "work"
        BY <2>0, Neighbours DEF IInv, TypeOK
      <3>3. QED
        BY <3>1, <3>2, Neighbours DEF IInv, Control
    <2>4. Handover'
      BY <2>0, Neighbours DEF IInv, TypeOK, Handover
    <2>5. NoLostWakeup'
      BY <2>0, Neighbours DEF IInv, TypeOK, NoLostWakeup
    <2>6. CascadingShutdown'
      BY <2>0 DEF IInv, CascadingShutdown
    <2>7. InOrder'
      <3> SUFFICES ASSUME NEW q \in Queues
                   PROVE  /\ passed'[q] = passed'[q+1] \o Held(q+1)' \o dataQueue'[q]
                          /\ pc'[q+1] = "done" => dataQueue'[q] = <<>>
        BY DEF InOrder
      <3>1. packet'[q+1] = packet[q+1] /\ pc'[q+1] = pc[q+1]
        BY <2>0, Neighbours DEF IInv, TypeOK
      <3>2. QED
        BY <2>0, <3>1, ElsewhereKeepsOrder DEF IInv
    <2>8. QED
      BY <2>1, <2>2, <2>3, <2>4, <2>5, <2>6, <2>7 DEF IInv
  <1>10. CASE FetchEnds
    <2>1. TypeOK'
      BY <1>10, PipelineAssumption DEF FetchEnds, Goto, IInv, TypeOK
    <2>2. Source'
      BY <1>10, Neighbours, PipelineAssumption DEF FetchEnds, Goto, IInv, TypeOK, Source
    <2>3. Control'
      BY <1>10, Neighbours DEF FetchEnds, Goto, IInv, TypeOK, Control
    <2>4. Handover'
      BY <1>10, Neighbours DEF FetchEnds, Goto, IInv, TypeOK, Handover
    <2>5. NoLostWakeup'
      BY <1>10, Neighbours DEF FetchEnds, Goto, IInv, TypeOK, NoLostWakeup
    <2>6. CascadingShutdown'
      BY <1>10, Neighbours DEF FetchEnds, Goto, IInv, CascadingShutdown
    <2>7. InOrder'
      <3>1. \A q \in Queues : pc'[q+1] = "done" => pc[q+1] = "done" \/ dataQueue[q] = <<>>
        BY <1>10, Neighbours DEF FetchEnds, Goto, IInv, TypeOK
      <3>2. QED
        BY <1>10, <3>1, OrderUnchanged DEF FetchEnds, IInv
    <2>8. QED
      BY <2>1, <2>2, <2>3, <2>4, <2>5, <2>6, <2>7 DEF IInv
  <1>11. CASE Process
    BY <1>11, ProcessStep
  <1>12. CASE UNCHANGED vars
    BY <1>12 DEF vars, IInv, TypeOK, Control, Source, Handover, InOrder, Held, CascadingShutdown, NoLostWakeup
  <1>13. QED
    BY <1>1, <1>2, <1>3, <1>4, <1>5, <1>6, <1>7, <1>8, <1>9, <1>10, <1>11, <1>12 DEF Next, Stage, Ended

-----------------------------------------------------------------------------
(* The inductive invariant holds in every reachable state of the pipeline. *)
THEOREM Invariance == Spec => []IInv
  BY InitInv, StepInv, PTL DEF Spec

(* Types, each stage's own program counter among them by Control, are respected. *)
THEOREM TypeCorrect == Spec => []TypeOK
  <1>1. IInv => TypeOK
    BY DEF IInv
  <1>2. QED
    BY <1>1, Invariance, PTL

(* No packet is lost, duplicated or overtaken between a stage and the next. *)
THEOREM PacketsInOrder == Spec => []InOrder
  <1>1. IInv => InOrder
    BY DEF IInv
  <1>2. QED
    BY <1>1, Invariance, PTL

(* A queue is shut down only after all its packets went in and everything upstream is
   shut down and empty. *)
THEOREM ShutdownCascades == Spec => []CascadingShutdown
  <1>1. IInv => CascadingShutdown
    BY DEF IInv
  <1>2. QED
    BY <1>1, Invariance, PTL

(* push's notify_one and shutdown's notify_all reach a stage that sleeps. *)
THEOREM WakeupsReachStages == Spec => []NoLostWakeup
  <1>1. IInv => NoLostWakeup
    BY DEF IInv
  <1>2. QED
    BY <1>1, Invariance, PTL
=============================================================================
