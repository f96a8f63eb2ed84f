------------------------------ MODULE SharedData ------------------------------
(* The exercises in which threads share one variable, without protection, behind a
   mutex, as an atomic or behind a shared_mutex: six with counters, three with maps (a
   map is the number of changes made to it), and one with the console (the number of
   pieces written to it).  main() starts a team of threads, joins it and may start
   another.  What a thread does is a list of steps, each indivisible. *)
EXTENDS Integers, Sequences, FiniteSetsExt

CONSTANTS TeamSize,     \* the number of threads of a team (3 to 8 in the code)
          Iterations,   \* the number of iterations of a loop (3 to 100000)
          Programs      \* what may run, of the programs below

\* The body of the loop and what follows it; what one iteration adds.
Code(body, tail, times, amount) == [body |-> body, tail |-> tail, times |-> times, amount |-> amount]

ReadModifyWrite == <<"load", "store">>
LockedBug == <<"lock", "load", "unlock", "store">>   \* mutant: unlocked too early
Locked == <<"lock", "load", "store", "unlock">>
ReadLockedBug == <<"lockShared", "load", "unlockShared", "use">>   \* mutant: iterator used after unlock
ReadLocked == <<"lockShared", "load", "use", "unlockShared">>

\* ++globalCounter without protection, as the compiler leaves it in the loop, or hoists it.
Unprotected(d) == Code(ReadModifyWrite, <<>>, Iterations, d)
Hoisted(d)     == Code(<<"local">>, ReadModifyWrite, Iterations, d)
HeavyLock(d)   == Code(Locked, <<>>, Iterations, d)
Optimized(d)   == Code(<<"local">>, Locked, Iterations, d)
Atomic(d)      == Code(<<"add">>, <<>>, Iterations, d)
Reader         == Code(ReadLocked, <<>>, 1, 0)
Writer         == Code(Locked, <<>>, 1, 1)

\* Each thread writes a line, in two pieces.
Line           == Code(<<"add", "rest">>, <<>>, 1, 1)
ProtectedLine  == Code(<<"lock", "add", "rest", "unlock">>, <<>>, 1, 1)

\* A phase of main(): the team it starts, and whether the counter is set to 0 before.
Phase(team, fresh) == [team |-> team, fresh |-> fresh]
Team(code) == [i \in 1..TeamSize |-> code]

CompetitiveCounter(race) ==
  << Phase(Team(race), TRUE), Phase(Team(HeavyLock(1)), TRUE), Phase(Team(Optimized(1)), TRUE) >>

IncrementWithAtomic == << Phase(Team(Code(ReadModifyWrite \o <<"add">>, <<>>, Iterations, 1)), TRUE) >>

MutexVsAtomic == << Phase(Team(HeavyLock(1)), TRUE), Phase(Team(Atomic(1)), FALSE) >>

SavingPotWithoutMutex == << Phase(<<Unprotected(1), Unprotected(-1)>>, TRUE) >>

SavingPotWithMutex == << Phase(<<HeavyLock(1), HeavyLock(-1)>>, TRUE) >>

UniqueLockUsage == << Phase(Team(HeavyLock(10)), TRUE) >>

SharedMutex1 == << Phase(<<Reader, Reader, Writer, Writer, Reader>>, TRUE) >>

SharedMutex2 == << Phase(<<Reader, Reader, Reader, Writer, Writer>>, TRUE) >>

\* In the end main() reads what the cache holds.
ThreadSafeCache == << Phase(<<Reader, Writer, Reader, Writer>>, TRUE), Phase(<<Reader>>, FALSE) >>

StdoutWithMutex == << Phase(Team(Line), TRUE), Phase(Team(ProtectedLine), FALSE) >>

\* The first of them also as an optimising compiler may build it.
AllPrograms == { CompetitiveCounter(Unprotected(1)), CompetitiveCounter(Hoisted(1)),
                 IncrementWithAtomic, MutexVsAtomic, SavingPotWithoutMutex,
                 SavingPotWithMutex, UniqueLockUsage,
                 SharedMutex1, SharedMutex2, ThreadSafeCache, StdoutWithMutex }

ASSUME SharedDataAssumption ==
  TeamSize \in Nat \ {0} /\ Iterations \in Nat \ {0, 1} /\ Programs \subseteq AllPrograms

-----------------------------------------------------------------------------
VARIABLES program, phase,       \* the exercise that runs, and how far its main() is
          iteration, step,      \* of each thread of the team
          counter,              \* the plain variable, or the number of changes of a map
          atomicCounter,        \* the atomic, or the number of pieces on the console
          owner, sharers,       \* who holds the mutex, exclusively (0: nobody) or shared
          loaded, local         \* what each thread loaded; its localCounter

control == <<program, phase>>
locks   == <<owner, sharers>>
data    == <<counter, atomicCounter>>
private == <<loaded, local>>
sharedVars == <<control, iteration, step, data, locks, private>>

Members == DOMAIN program[phase].team
CodeOf(t) == program[phase].team[t]

\* The same value for every thread of a phase's team.
Each(p, value) == [t \in DOMAIN p.team |-> value]

SharedInit ==
  /\ program \in Programs /\ phase = 1
  /\ iteration = Each(program[1], 0) /\ step = Each(program[1], 1)
  /\ loaded = Each(program[1], 0) /\ local = Each(program[1], 0)
  /\ counter = 0 /\ atomicCounter = 0
  /\ owner = 0 /\ sharers = {}

LoopsBug(t) == iteration[t] <= CodeOf(t).times   \* mutant: j <= 100000
Loops(t) == iteration[t] < CodeOf(t).times

Section(t) == IF Loops(t) THEN CodeOf(t).body ELSE CodeOf(t).tail

Finished(t) == step[t] > Len(Section(t))

\* t takes the next step of its code, which is s.
Takes(t, s) ==
  /\ ~Finished(t) /\ Section(t)[step[t]] = s
  /\ IF Loops(t) /\ step[t] = Len(CodeOf(t).body)
     THEN iteration' = [iteration EXCEPT ![t] = @ + 1] /\ step' = [step EXCEPT ![t] = 1]
     ELSE UNCHANGED iteration /\ step' = [step EXCEPT ![t] = @ + 1]
  /\ UNCHANGED control

-----------------------------------------------------------------------------
(* The mutex *)

Lock(t) == /\ Takes(t, "lock")
           /\ owner = 0 /\ sharers = {} /\ owner' = t
           /\ UNCHANGED <<sharers, data, private>>

LockShared(t) == /\ Takes(t, "lockShared")
                 /\ owner = 0 /\ sharers' = sharers \cup {t}
                 /\ UNCHANGED <<owner, data, private>>

Unlock(t) == Takes(t, "unlock") /\ owner' = 0 /\ UNCHANGED <<sharers, data, private>>

UnlockShared(t) == /\ Takes(t, "unlockShared") /\ sharers' = sharers \ {t}
                   /\ UNCHANGED <<owner, data, private>>

-----------------------------------------------------------------------------
(* The variable *)

\* What a store adds: in the loop the amount of one iteration, after it the local sum.
Addend(t) == IF Loops(t) THEN CodeOf(t).amount ELSE local[t]

LoadCounter(t) == /\ Takes(t, "load")
                  /\ loaded' = [loaded EXCEPT ![t] = counter]
                  /\ UNCHANGED <<data, locks, local>>

StoreCounter(t) == /\ Takes(t, "store")
                   /\ counter' = loaded[t] + Addend(t)
                   /\ UNCHANGED <<atomicCounter, locks, private>>

\* An atomic addition gives back the value; so does, in effect, an insertion in the stream.
FetchAdd(t) == /\ \E s \in {"add", "rest"} : Takes(t, s)
               /\ atomicCounter' = atomicCounter + CodeOf(t).amount
               /\ loaded' = [loaded EXCEPT ![t] = atomicCounter']
               /\ UNCHANGED <<counter, locks, local>>

Accumulate(t) == /\ Takes(t, "local")
                 /\ local' = [local EXCEPT ![t] = @ + CodeOf(t).amount]
                 /\ UNCHANGED <<data, locks, loaded>>

\* The reader copies the entry that its iterator points to.
Use(t) == Takes(t, "use") /\ UNCHANGED <<data, locks, private>>

-----------------------------------------------------------------------------
(* main(): joins the team, and starts the next one *)

AllJoined == \A t \in Members : Finished(t)

ResetBug(p) == FALSE   \* mutant: globalCounter = 0 is missing
Reset(p) == p.fresh

NextPhase ==
  /\ AllJoined /\ phase < Len(program)
  /\ phase' = phase + 1
  /\ LET p == program[phase + 1] IN
       /\ iteration' = Each(p, 0) /\ step' = Each(p, 1)
       /\ loaded' = Each(p, 0) /\ local' = Each(p, 0)
       /\ counter' = IF Reset(p) THEN 0 ELSE counter
  /\ UNCHANGED <<program, atomicCounter, locks>>

SharedEnded == AllJoined /\ phase = Len(program) /\ UNCHANGED sharedVars

Member(t) == \/ Lock(t) \/ LockShared(t) \/ Unlock(t) \/ UnlockShared(t)
             \/ LoadCounter(t) \/ StoreCounter(t) \/ FetchAdd(t) \/ Accumulate(t) \/ Use(t)

SharedNext == \/ \E t \in Members : Member(t)
              \/ NextPhase
              \/ SharedEnded

SharedSpec == SharedInit /\ [][SharedNext]_sharedVars

-----------------------------------------------------------------------------
Has(code, s) == s \in {code.body[i] : i \in DOMAIN code.body} \cup {code.tail[i] : i \in DOMAIN code.tail}

Sum(f) == MapThenSumSet(LAMBDA x : f[x], DOMAIN f)

\* What the threads of phase p that take step s add up to.
PhaseTotal(p, s) ==
  Sum([t \in DOMAIN program[p].team |->
         LET code == program[p].team[t] IN IF Has(code, s) THEN code.times * code.amount ELSE 0])

\* Phase p is over or under way, and what it stored has not been set to 0.
Counts(p, s) == p <= phase /\ \A q \in p+1..phase : s = "store" => ~program[q].fresh

Total(s) == Sum([p \in DOMAIN program |-> IF Counts(p, s) THEN PhaseTotal(p, s) ELSE 0])

Guarded == \A t \in Members : Has(CodeOf(t), "store") => Has(CodeOf(t), "lock")

\* "Expect exact 400000": with a lock around every change, or around the sum of a loop, no
\* change is lost, nor one of an atomic, nor does a previous phase leave anything behind.
ProtectedIsExact ==
  AllJoined => /\ Guarded => counter = Total("store")
               /\ atomicCounter = Total("add") + Total("rest")

\* Without protection updates are lost, but not all: with two loops or more of ++counter
\* at least 2 remain, at most all of them; deposits and withdrawals stay in their range.
LostUpdatesBounded ==
  AllJoined /\ ~Guarded =>
    /\ \A t \in Members : CodeOf(t).amount = -1 => counter \in -Iterations..Iterations
    /\ (\A t \in Members : CodeOf(t).amount = 1) => counter \in 2..TeamSize * Iterations

\* What was found under a lock holds until it is released, in however many readers at once:
\* a reader's iterator stays good until its last use, and between the two pieces of a line
\* that the mutex protects ("OUTPUT PROTETTO DA MUTEX") nobody writes another.
CriticalSectionsWhole ==
  \A t \in Members : ~Finished(t) =>
    /\ Section(t)[step[t]] = "use" => loaded[t] = counter
    /\ Section(t)[step[t]] = "rest" /\ Has(CodeOf(t), "lock") => loaded[t] = atomicCounter
=============================================================================
