------------------------------- MODULE Pipeline -------------------------------
(* pipeline_pattern: stages connected by blocking queues (ThreadSafeQueue), that shut
   down in cascade.  A critical section of a queue's mutex is one step (all that its
   wait predicate reads is written under the mutex); the notifications that push and
   shutdown make after it are steps apart. *)
EXTENDS Naturals, Sequences

CONSTANTS LastStage,     \* the stages are 1..LastStage: fetch, decode, process in main()
          packetCount,
          MaxSpurious    \* bound on the wakeups nobody asked for

Stages == 1..LastStage
Queues == 1..LastStage-1   \* queue q leads from stage q to stage q+1

ASSUME PipelineAssumption ==
  LastStage \in Nat /\ LastStage >= 2 /\ packetCount \in Nat /\ MaxSpurious \in Nat

VARIABLES pc,
          packet,                \* the id of what each stage holds, or 0
          dataQueue,
          isShutdownRequested,   \* of each queue
          passed,                \* history: what each stage finished, in order
          spurious

vars == <<pc, packet, dataQueue, isShutdownRequested, passed, spurious>>

Init == /\ pc = [s \in Stages |-> IF s = 1 THEN "fetch" ELSE "pop"]
        /\ packet = [s \in Stages |-> 0]
        /\ dataQueue = [q \in Queues |-> <<>>]
        /\ isShutdownRequested = [q \in Queues |-> FALSE]
        /\ passed = [s \in Stages |-> <<>>]
        /\ spurious = 0

-----------------------------------------------------------------------------
Goto(s, from, to) == pc[s] = from /\ pc' = [pc EXCEPT ![s] = to]

\* s goes on; the only thread that can wait on its output queue is the next stage.
GotoAndNotify(s, from, to) ==
  /\ pc[s] = from
  /\ pc' = [pc EXCEPT ![s] = to, ![s+1] = IF @ = "waiting" THEN "pop" ELSE @]

\* What a stage does when its packet is done with.
Loop(s) == IF s = 1 THEN "fetch" ELSE "pop"

-----------------------------------------------------------------------------
(* ThreadSafeQueue::push, shutdown and pop, called by the stage's loop *)

Push(s) ==
  /\ s \in Queues
  /\ Goto(s, "work", "notify")
  /\ dataQueue' = [dataQueue EXCEPT ![s] = Append(@, packet[s])]
  /\ passed' = [passed EXCEPT ![s] = Append(@, packet[s])]
  /\ packet' = [packet EXCEPT ![s] = 0]
  /\ UNCHANGED <<isShutdownRequested, spurious>>

NotifyOne(s) == /\ s \in Queues /\ GotoAndNotify(s, "notify", Loop(s))
                /\ UNCHANGED <<packet, dataQueue, isShutdownRequested, passed, spurious>>

Shutdown(s) == /\ s \in Queues /\ Goto(s, "shutdown", "notifyAll")
               /\ isShutdownRequested' = [isShutdownRequested EXCEPT ![s] = TRUE]
               /\ UNCHANGED <<packet, dataQueue, passed, spurious>>

NotifyAllBug(s) == /\ s \in Queues /\ Goto(s, "notifyAll", "done")   \* mutant: not notified
                   /\ UNCHANGED <<packet, dataQueue, isShutdownRequested, passed, spurious>>

NotifyAll(s) == /\ s \in Queues /\ GotoAndNotify(s, "notifyAll", "done")
                /\ UNCHANGED <<packet, dataQueue, isShutdownRequested, passed, spurious>>

PopWaits(s) == /\ s # 1 /\ dataQueue[s-1] = <<>> /\ ~isShutdownRequested[s-1]
               /\ Goto(s, "pop", "waiting")
               /\ UNCHANGED <<packet, dataQueue, isShutdownRequested, passed, spurious>>

WakesSpuriously(s) == /\ spurious < MaxSpurious /\ spurious' = spurious + 1
                      /\ Goto(s, "waiting", "pop")
                      /\ UNCHANGED <<packet, dataQueue, isShutdownRequested, passed>>

PopTakes(s) ==
  /\ s # 1 /\ dataQueue[s-1] # <<>>
  /\ Goto(s, "pop", "work")
  /\ packet' = [packet EXCEPT ![s] = Head(dataQueue[s-1])]
  /\ dataQueue' = [dataQueue EXCEPT ![s-1] = Tail(@)]
  /\ UNCHANGED <<isShutdownRequested, passed, spurious>>

PopFailsBug(s) == isShutdownRequested[s-1]   \* mutant: what is queued is not drained
PopFails(s) == isShutdownRequested[s-1] /\ dataQueue[s-1] = <<>>

\* pop returns false: the stage's loop ends, and the shutdown goes to the next queue.
StageEnds(s) ==
  /\ s # 1 /\ PopFails(s)
  /\ Goto(s, "pop", IF s = LastStage THEN "done" ELSE "shutdown")
  /\ UNCHANGED <<packet, dataQueue, isShutdownRequested, passed, spurious>>

-----------------------------------------------------------------------------
(* fetchStageWorker's loop and the last stage's *)

Fetched == Len(passed[1]) + 1

Fetch == /\ Len(passed[1]) < packetCount
         /\ Goto(1, "fetch", "work")
         /\ packet' = [packet EXCEPT ![1] = Fetched]
         /\ UNCHANGED <<dataQueue, isShutdownRequested, passed, spurious>>

FetchEnds == /\ Len(passed[1]) = packetCount
             /\ Goto(1, "fetch", "shutdown")
             /\ UNCHANGED <<packet, dataQueue, isShutdownRequested, passed, spurious>>

Process == /\ Goto(LastStage, "work", "pop")
           /\ passed' = [passed EXCEPT ![LastStage] = Append(@, packet[LastStage])]
           /\ packet' = [packet EXCEPT ![LastStage] = 0]
           /\ UNCHANGED <<dataQueue, isShutdownRequested, spurious>>

Ended == (\A s \in Stages : pc[s] = "done") /\ UNCHANGED vars

-----------------------------------------------------------------------------
Stage(s) == \/ Push(s) \/ NotifyOne(s) \/ Shutdown(s) \/ NotifyAll(s)
            \/ PopWaits(s) \/ PopTakes(s) \/ StageEnds(s)

Next == \/ \E s \in Stages : Stage(s) \/ WakesSpuriously(s)
        \/ Fetch \/ FetchEnds \/ Process
        \/ Ended

Spec == Init /\ [][Next]_vars

\* Stages run; spurious wakeups need not happen.
FairSpec == /\ Spec
            /\ \A s \in Stages : WF_vars(Stage(s))
            /\ WF_vars(Fetch \/ FetchEnds) /\ WF_vars(Process)

-----------------------------------------------------------------------------
(* Type invariant. *)
TypeOK == /\ pc \in [Stages -> {"fetch", "pop", "waiting", "work", "notify", "shutdown", "notifyAll", "done"}]
          /\ packet \in [Stages -> 0..packetCount]
          /\ dataQueue \in [Queues -> Seq(1..packetCount)]
          /\ isShutdownRequested \in [Queues -> BOOLEAN]
          /\ passed \in [Stages -> Seq(1..packetCount)]
          /\ spurious \in 0..MaxSpurious

Held(s) == IF packet[s] = 0 THEN <<>> ELSE <<packet[s]>>

\* No packet is lost, duplicated or overtaken between two stages, and none is left when
\* the later of them has ended.
InOrder == \A q \in Queues :
  /\ passed[q] = passed[q+1] \o Held(q+1) \o dataQueue[q]
  /\ pc[q+1] = "done" => dataQueue[q] = <<>>

\* "propagazione ordinata del segnale di arresto a cascata": a queue is shut down only
\* when everything upstream is empty and over, so nothing is pushed into it afterwards.
CascadingShutdown == \A q \in Queues : isShutdownRequested[q] =>
  /\ Len(passed[q]) = packetCount
  /\ \A s \in 1..q-1 : isShutdownRequested[s] /\ dataQueue[s] = <<>>

\* A stage sleeps only while it has nothing to do, or its notification is on the way.
NoLostWakeup == \A q \in Queues :
  pc[q+1] = "waiting" =>
    /\ dataQueue[q] # <<>> => pc[q] = "notify"
    /\ isShutdownRequested[q] => pc[q] = "notifyAll"

\* All stages end, and main() joins them.
Terminates == <>(\A s \in Stages : pc[s] = "done")
=============================================================================
