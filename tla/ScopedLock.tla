------------------------------ MODULE ScopedLock ------------------------------
(* deadlock and dining_philosophers_problem: threads that need two mutexes at a time and
   take them with std::scoped_lock.  The standard leaves open how it locks both; modelled
   is what libstdc++ does: wait for one, try the other, and on failure release the first
   and start over with the one that was taken. *)
EXTENDS Integers, Sequences, FiniteSetsExt

CONSTANTS Exercises   \* what may run: [pair, rounds, balance, amount]

\* Threads and mutexes are numbered from 1; pair[t] is what thread t locks, in the order of
\* the arguments; mutex m protects balance[m], and t moves amount[t] from the first to the
\* second of its pair (philosophers move nothing).
ASSUME ScopedLockAssumption ==
  \A e \in Exercises :
    /\ e.balance \in Seq(Int) /\ e.amount \in Seq(Int)
    /\ e.pair \in Seq((DOMAIN e.balance) \X (DOMAIN e.balance))
    /\ \A t \in DOMAIN e.pair : e.pair[t][1] # e.pair[t][2] /\ t \in DOMAIN e.amount
    /\ e.rounds \in Nat \ {0}

\* acc1 and acc2, and the crossing transfers of 100 and 50.
DeadlockExercise ==
  [pair |-> << <<1, 2>>, <<2, 1>> >>, rounds |-> 1, balance |-> <<1000, 500>>, amount |-> <<100, 50>>]

\* n philosophers around a table, who eat rounds times (5 and 3 in the code).
Dinner(n, rounds) ==
  [pair    |-> [id \in 1..n |-> <<id, (id % n) + 1>>], rounds |-> rounds,
   balance |-> [m \in 1..n |-> 0], amount |-> [id \in 1..n |-> 0]]

VARIABLES exercise, pc,
          holder,     \* of each mutex, or 0
          first,      \* position in its pair of the mutex a thread locks first
          turn,       \* position of the account a transfer works on
          round,      \* how often each thread has done its work
          register,   \* the balance a thread has loaded
          balance     \* mBalance

vars == <<exercise, pc, holder, first, turn, round, register, balance>>

Threads == DOMAIN exercise.pair
Mutexes == DOMAIN exercise.balance

Init == /\ exercise \in Exercises
        /\ pc = [t \in Threads |-> "wait"]
        /\ holder = [m \in Mutexes |-> 0]
        /\ first = [t \in Threads |-> 1] /\ turn = [t \in Threads |-> 1]
        /\ round = [t \in Threads |-> 0]
        /\ register = [t \in Threads |-> 0]
        /\ balance = exercise.balance

-----------------------------------------------------------------------------
Goto(t, from, to) == pc[t] = from /\ pc' = [pc EXCEPT ![t] = to]

First(t) == exercise.pair[t][first[t]]
Other(t) == exercise.pair[t][3 - first[t]]
Account(t) == exercise.pair[t][turn[t]]

(* std::scoped_lock *)

LocksFirst(t) ==
  /\ Goto(t, "wait", "try")
  /\ holder[First(t)] = 0 /\ holder' = [holder EXCEPT ![First(t)] = t]
  /\ UNCHANGED <<exercise, first, turn, round, register, balance>>

Free(m) == holder[m] = 0

LocksOtherBug(t) ==   \* mutant: scoped_lock lock(from.mMtx), the other account is forgotten
  /\ Goto(t, "try", "load")
  /\ turn' = [turn EXCEPT ![t] = 1]
  /\ UNCHANGED <<exercise, holder, first, round, register, balance>>

\* try_lock of the other one succeeds.
LocksOther(t) ==
  /\ Goto(t, "try", "load")
  /\ Free(Other(t)) /\ holder' = [holder EXCEPT ![Other(t)] = t]
  /\ turn' = [turn EXCEPT ![t] = 1]
  /\ UNCHANGED <<exercise, first, round, register, balance>>

BacksOffBug(t) ==   \* mutant: waits for the second with the first in hand, as buggyTransfer
  /\ Goto(t, "try", "wait")
  /\ holder[Other(t)] # 0
  /\ first' = [first EXCEPT ![t] = 3 - first[t]]
  /\ UNCHANGED <<exercise, holder, turn, round, register, balance>>

BacksOff(t) ==
  /\ Goto(t, "try", "wait")
  /\ holder[Other(t)] # 0
  /\ holder' = [holder EXCEPT ![First(t)] = 0]
  /\ first' = [first EXCEPT ![t] = 3 - first[t]]
  /\ UNCHANGED <<exercise, turn, round, register, balance>>

-----------------------------------------------------------------------------
(* The critical section: from.mBalance -= amount; to.mBalance += amount *)

Load(t) ==
  /\ Goto(t, "load", "store")
  /\ register' = [register EXCEPT ![t] = balance[Account(t)]]
  /\ UNCHANGED <<exercise, holder, first, turn, round, balance>>

Sign(t) == IF turn[t] = 1 THEN -1 ELSE 1

Store(t) ==
  /\ Goto(t, "store", IF turn[t] = 1 THEN "load" ELSE "release")
  /\ balance' = [balance EXCEPT ![Account(t)] = register[t] + Sign(t) * exercise.amount[t]]
  /\ turn' = [turn EXCEPT ![t] = 3 - turn[t]]
  /\ UNCHANGED <<exercise, holder, first, round, register>>

\* The destructor of the scoped_lock, and the thread's loop.
Releases(t) ==
  /\ Goto(t, "release", IF round[t] + 1 = exercise.rounds THEN "done" ELSE "wait")
  /\ holder' = [m \in Mutexes |-> IF m \in {First(t), Other(t)} THEN 0 ELSE holder[m]]
  /\ round' = [round EXCEPT ![t] = @ + 1]
  /\ first' = [first EXCEPT ![t] = 1]
  /\ UNCHANGED <<exercise, turn, register, balance>>

AllDone == \A t \in Threads : pc[t] = "done"

Ended == AllDone /\ UNCHANGED vars

Thread(t) == \/ LocksFirst(t) \/ LocksOther(t) \/ BacksOff(t)
             \/ Load(t) \/ Store(t) \/ Releases(t)

Next == (\E t \in Threads : Thread(t)) \/ Ended

Spec == Init /\ [][Next]_vars

-----------------------------------------------------------------------------
\* "evitando il deadlock a livello di algoritmo": a thread that waits for a mutex waits
\* for one that does not, so that no circle of waiting threads or philosophers arises.
NoCircularWait ==
  \A t \in Threads : pc[t] = "wait" /\ holder[First(t)] # 0 =>
    pc[holder[First(t)]] \in {"try", "load", "store", "release"}

Change(t, m) == CASE exercise.pair[t][1] = m -> -exercise.amount[t]
                  [] exercise.pair[t][2] = m -> exercise.amount[t]
                  [] OTHER -> 0

\* An account that nobody has locked shows all transfers that are complete and nothing of
\* those that are not: no transfer is lost, half seen or made twice.
BalancesExact ==
  \A m \in Mutexes : holder[m] = 0 =>
    balance[m] = exercise.balance[m] + MapThenSumSet(LAMBDA t : round[t] * Change(t, m), Threads)
=============================================================================
