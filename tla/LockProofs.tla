------------------------------ MODULE LockProofs ------------------------------
(* Safety of what threads do under mutexes, for any number of them: of std::scoped_lock
   (ScopedLock), who waits, who holds what and what a transfer can rely on; of a shared
   variable (SharedData), what is lost without a lock and that nothing is lost with one.
   Both keep books: what has been changed is a sum over the threads. *)
EXTENDS ScopedLock, SharedData, SequenceTheorems, FiniteSetTheorems, TLAPS

-----------------------------------------------------------------------------
(* Sums over finite sets *)

\* it is the function by which the sum of f over S is computed.
Pick(s) == CHOOSE x \in s : TRUE
SumsUp(it, f, S) == it = [s \in SUBSET S |-> IF s = {} THEN 0 ELSE f[Pick(s)] + it[s \ {Pick(s)}]]

(* Induction over the natural numbers, for a property given as a set. *)
LEMMA Climbing ==
  ASSUME NEW G, G \subseteq Nat, 0 \in G, \A n \in G : n + 1 \in G
  PROVE  \A n \in Nat : n \in G
  <1> SUFFICES ASSUME Nat \ G # {} PROVE FALSE
    OBVIOUS
  <1>1. PICK n \in Nat \ G : \A k \in Nat \ G : ~(<<k, n>> \in OpToRel(<, Nat))
    BY WFMin, NatLessThanWellFounded
  <1>2. n \in Nat /\ n \notin G /\ n # 0 /\ n - 1 \in Nat /\ (n - 1) + 1 = n
    OBVIOUS
  <1>3. <<n - 1, n>> \in OpToRel(<, Nat)
    BY <1>2 DEF OpToRel
  <1>4. n - 1 \in G
    BY <1>1, <1>2, <1>3
  <1>5. QED
    BY <1>2, <1>4

(* A set without the element picked has one less. *)
LEMMA Picking ==
  ASSUME NEW S, IsFiniteSet(S), NEW s \in SUBSET S
  PROVE  /\ Cardinality(s) \in Nat /\ (Cardinality(s) = 0 <=> s = {})
         /\ s # {} => /\ Pick(s) \in s /\ s \ {Pick(s)} \in SUBSET S
                      /\ Cardinality(s \ {Pick(s)}) = Cardinality(s) - 1
  <1>1. IsFiniteSet(s)
    BY FS_Subset
  <1>2. Cardinality(s) \in Nat /\ (Cardinality(s) = 0 <=> s = {})
    BY <1>1, FS_CardinalityType, FS_EmptySet
  <1>3. s # {} => Pick(s) \in s
    BY DEF Pick
  <1>4. s # {} => Cardinality(s \ {Pick(s)}) = Cardinality(s) - 1
    BY <1>1, <1>3, FS_RemoveElement
  <1>5. QED
    BY <1>2, <1>3, <1>4

(* There is such a function. *)
LEMMA SumsExist ==
  ASSUME NEW S, IsFiniteSet(S), NEW f \in [S -> Int]
  PROVE  \E it : SumsUp(it, f, S)
  <1> DEFINE P == SUBSET S
             Upto(n) == {s \in P : Cardinality(s) <= n}
             Step(it, s) == IF s = {} THEN 0 ELSE f[Pick(s)] + it[s \ {Pick(s)}]
             G == {n \in Nat : \E it : it = [s \in Upto(n) |-> Step(it, s)]}
  <1>1. \A s \in P : s # {} => /\ s \ {Pick(s)} \in P
                               /\ Cardinality(s \ {Pick(s)}) = Cardinality(s) - 1
    BY Picking
  <1>2. \A s \in P : Cardinality(s) \in Nat /\ (Cardinality(s) = 0 <=> s = {})
    BY Picking
  <1> HIDE DEF P
  <1>3. 0 \in G
    <2>1. \A s \in Upto(0) : s = {}
      BY <1>2
    <2> DEFINE zero == [s \in Upto(0) |-> 0]
    <2>2. zero = [s \in Upto(0) |-> Step(zero, s)]
      BY <2>1
    <2>3. QED
      BY <2>2
  <1>4. ASSUME NEW n \in G PROVE n + 1 \in G
    <2>1. PICK it : it = [s \in Upto(n) |-> Step(it, s)]
      OBVIOUS
    <2> DEFINE jt == [s \in Upto(n + 1) |-> Step(it, s)]
    <2>2. n \in Nat /\ \A s \in Upto(n) : s \in Upto(n + 1)
      BY <1>2
    <2>3. ASSUME NEW s \in Upto(n + 1), s # {} PROVE s \ {Pick(s)} \in Upto(n)
      <3>1. s \ {Pick(s)} \in P /\ Cardinality(s \ {Pick(s)}) = Cardinality(s) - 1
        BY <1>1, <2>3
      <3>2. Cardinality(s) \in Nat /\ Cardinality(s) <= n + 1
        BY <1>2
      <3>3. QED
        BY <2>2, <3>1, <3>2
    <2> HIDE DEF Upto
    <2>4. \A s \in Upto(n) : it[s] = Step(it, s)
      BY <2>1
    <2>5. \A s \in Upto(n) : jt[s] = Step(it, s)
      BY <2>2
    <2>6. \A s \in Upto(n) : jt[s] = it[s]
      BY <2>4, <2>5
    <2> HIDE DEF jt
    <2>7. \A s \in Upto(n + 1) : Step(jt, s) = Step(it, s)
      BY <2>3, <2>6
    <2>8. jt = [s \in Upto(n + 1) |-> Step(jt, s)]
      BY <2>7 DEF jt
    <2>9. \E jjt : jjt = [s \in Upto(n + 1) |-> Step(jjt, s)]
      BY <2>8
    <2>10. QED
      BY <2>2, <2>9
  <1>5. Cardinality(S) \in Nat /\ \A s \in P : Cardinality(s) <= Cardinality(S)
    BY FS_CardinalityType, FS_Subset DEF P
  <1>6. Upto(Cardinality(S)) = P
    BY <1>5
  <1>7. Cardinality(S) \in G
    <2> HIDE DEF G
    <2>1. \A n \in Nat : n \in G
      BY <1>3, <1>4, Climbing DEF G
    <2>2. QED
      BY <1>5, <2>1
  <1>8. QED
    BY <1>6, <1>7 DEF SumsUp, P

(* How a sum depends on one of its terms. *)
LEMMA SumsDiffer ==
  ASSUME NEW S, IsFiniteSet(S), NEW f \in [S -> Int], NEW g \in [S -> Int], NEW t,
         \A x \in S : x # t => g[x] = f[x],
         NEW it, SumsUp(it, f, S), NEW jt, SumsUp(jt, g, S)
  PROVE  \A s \in SUBSET S : /\ it[s] \in Int /\ jt[s] \in Int
                             /\ jt[s] = it[s] + IF t \in s THEN g[t] - f[t] ELSE 0
  <1> DEFINE P == SUBSET S
             Good(s) == /\ it[s] \in Int /\ jt[s] \in Int
                        /\ jt[s] = it[s] + IF t \in s THEN g[t] - f[t] ELSE 0
             G == {n \in Nat : \A s \in P : Cardinality(s) = n => Good(s)}
  <1>1. \A s \in P :
          /\ it[s] = IF s = {} THEN 0 ELSE f[Pick(s)] + it[s \ {Pick(s)}]
          /\ jt[s] = IF s = {} THEN 0 ELSE g[Pick(s)] + jt[s \ {Pick(s)}]
    BY DEF SumsUp
  <1>2. {} \in P /\ \A s \in P : \A x \in s : x \in S
    OBVIOUS
  <1>3. \A s \in P : s # {} => /\ Pick(s) \in s /\ s \ {Pick(s)} \in P
                               /\ Cardinality(s \ {Pick(s)}) = Cardinality(s) - 1
    BY Picking
  <1>4. \A s \in P : Cardinality(s) \in Nat /\ (Cardinality(s) = 0 <=> s = {})
    BY Picking
  <1> HIDE DEF P
  <1>5. 0 \in G
    <2>1. it[{}] = 0 /\ jt[{}] = 0
      BY <1>1, <1>2
    <2>2. Good({})
      BY <2>1
    <2>3. \A s \in P : Cardinality(s) = 0 => s = {}
      BY <1>4
    <2> HIDE DEF Good
    <2>4. QED
      BY <2>2, <2>3
  <1>6. ASSUME NEW n \in G PROVE n + 1 \in G
    <2> SUFFICES ASSUME NEW s \in P, Cardinality(s) = n + 1 PROVE Good(s)
      OBVIOUS
    <2> DEFINE x == Pick(s) r == s \ {x}
    <2>1. n \in Nat /\ s # {}
      BY <1>4
    <2>2. x \in s /\ x \in S /\ r \in P /\ Cardinality(r) = n
      BY <1>3, <1>2, <2>1
    <2>3. Good(r)
      BY <2>2
    <2>4. it[s] = f[x] + it[r] /\ jt[s] = g[x] + jt[r]
      BY <1>1, <2>1
    <2>5. f[x] \in Int /\ g[x] \in Int
      BY <2>2
    <2> HIDE DEF x
    <2>6. CASE x = t
      <3>1. t \notin r /\ t \in s
        BY <2>2, <2>6
      <3>2. jt[r] = it[r] /\ jt[r] \in Int /\ it[r] \in Int
        BY <2>3, <3>1
      <3>3. QED
        BY <2>4, <2>5, <2>6, <3>1, <3>2
    <2>7. CASE x # t
      <3>1. t \in r <=> t \in s
        BY <2>7
      <3>2. g[x] = f[x]
        BY <2>2, <2>7
      <3>3. CASE t \in s
        <4>1. t \in S
          BY <1>2, <3>3
        <4>2. jt[r] = it[r] + (g[t] - f[t]) /\ jt[r] \in Int /\ it[r] \in Int /\ g[t] \in Int /\ f[t] \in Int
          BY <2>3, <3>1, <3>3, <4>1
        <4>3. QED
          BY <2>4, <2>5, <3>2, <3>3, <4>2
      <3>4. CASE t \notin s
        <4>1. jt[r] = it[r] /\ jt[r] \in Int /\ it[r] \in Int
          BY <2>3, <3>1, <3>4
        <4>2. QED
          BY <2>4, <2>5, <3>2, <3>4, <4>1
      <3>5. QED
        BY <3>3, <3>4
    <2>8. QED
      BY <2>6, <2>7
  <1>7. \A n \in Nat : n \in G
    <2> HIDE DEF G
    <2>1. G \subseteq Nat
      BY DEF G
    <2>2. QED
      BY <1>5, <1>6, <2>1, Climbing
  <1>8. QED
    BY <1>7, <1>4 DEF P

(* There is only one such function. *)
LEMMA SumsUnique ==
  ASSUME NEW S, IsFiniteSet(S), NEW f \in [S -> Int],
         NEW it, SumsUp(it, f, S), NEW jt, SumsUp(jt, f, S)
  PROVE  jt = it
  <1>1. \A s \in SUBSET S : /\ it[s] \in Int
                            /\ jt[s] = it[s] + IF 0 \in s THEN f[0] - f[0] ELSE 0
    BY SumsDiffer
  <1>2. \A s \in SUBSET S : 0 \in s => f[0] \in Int
    OBVIOUS
  <1>3. \A s \in SUBSET S : jt[s] = it[s]
    BY <1>1, <1>2
  <1>4. /\ it = [s \in SUBSET S |-> it[s]]
        /\ jt = [s \in SUBSET S |-> jt[s]]
    BY DEF SumsUp
  <1>5. QED
    BY <1>3, <1>4

(* The sum is what that function computes. *)
LEMMA SumIs ==
  ASSUME NEW S, IsFiniteSet(S), NEW f \in [S -> Int], NEW it, SumsUp(it, f, S)
  PROVE  Sum(f) = it[S]
  <1>1. \A jt : SumsUp(jt, f, S) => jt = it
    BY SumsUnique
  <1>2. DOMAIN f = S
    OBVIOUS
  <1>3. QED
    BY <1>1, <1>2 DEF Sum, MapThenSumSet, MapThenFoldSet, SumsUp, Pick

(* A sum grows by as much as one of its terms. *)
LEMMA SumChanges ==
  ASSUME NEW S, IsFiniteSet(S), NEW f \in [S -> Int], NEW g \in [S -> Int], NEW t \in S,
         \A x \in S : x # t => g[x] = f[x]
  PROVE  Sum(f) \in Int /\ Sum(g) \in Int /\ Sum(g) = Sum(f) + (g[t] - f[t])
  <1>1. PICK it : SumsUp(it, f, S)
    BY SumsExist
  <1>2. PICK jt : SumsUp(jt, g, S)
    BY SumsExist
  <1>3. it[S] \in Int /\ jt[S] \in Int /\ jt[S] = it[S] + (g[t] - f[t])
    BY <1>1, <1>2, SumsDiffer
  <1>4. QED
    BY <1>1, <1>2, <1>3, SumIs

(* A sum of equal terms is a product. *)
LEMMA SumOfEquals ==
  ASSUME NEW S, IsFiniteSet(S), NEW c \in Int
  PROVE  Sum([x \in S |-> c]) = Cardinality(S) * c
  <1> DEFINE f == [x \in S |-> c]
             it == [s \in SUBSET S |-> Cardinality(s) * c]
  <1>1. f \in [S -> Int]
    OBVIOUS
  <1>2. \A s \in SUBSET S : /\ Cardinality(s) \in Nat /\ (Cardinality(s) = 0 <=> s = {})
                            /\ s # {} => /\ Pick(s) \in S /\ s \ {Pick(s)} \in SUBSET S
                                         /\ Cardinality(s \ {Pick(s)}) = Cardinality(s) - 1
    BY Picking
  <1>3. \A s \in SUBSET S : s # {} => /\ f[Pick(s)] = c
                                      /\ it[s \ {Pick(s)}] = (Cardinality(s) - 1) * c
    BY <1>2
  <1>4. it = [s \in SUBSET S |-> Cardinality(s) * c] /\ it[S] = Cardinality(S) * c
    OBVIOUS
  <1> HIDE DEF f, it
  <1>5. \A n \in Nat : c + (n - 1) * c = n * c /\ 0 * c = 0
    OBVIOUS
  <1>6. ASSUME NEW s \in SUBSET S
        PROVE  (IF s = {} THEN 0 ELSE f[Pick(s)] + it[s \ {Pick(s)}]) = Cardinality(s) * c
    <2>1. CASE s = {}
      BY <1>2, <1>5, <2>1
    <2>2. CASE s # {}
      BY <1>2, <1>3, <1>5, <2>2
    <2>3. QED
      BY <2>1, <2>2
  <1>7. SumsUp(it, f, S)
    BY <1>4, <1>6 DEF SumsUp
  <1>8. Sum(f) = it[S]
    BY <1>1, <1>7, SumIs
  <1>9. QED
    BY <1>4, <1>8 DEF f

LEMMA SumOfZeros == ASSUME NEW S, IsFiniteSet(S) PROVE Sum([x \in S |-> 0]) = 0
  <1>1. 0 \in Int /\ Cardinality(S) * 0 = 0
    BY FS_CardinalityType
  <1>2. Sum([x \in S |-> 0]) = Cardinality(S) * 0
    BY <1>1, SumOfEquals, Zenon
  <1>3. QED
    BY <1>1, <1>2

-----------------------------------------------------------------------------
(* Part 1: std::scoped_lock *)

\* Types of everything that changes.
Types == /\ exercise \in Exercises
         /\ pc \in [Threads -> {"wait", "try", "load", "store", "release", "done"}]
         /\ holder \in [Mutexes -> Threads \cup {0}]
         /\ first \in [Threads -> {1, 2}] /\ turn \in [Threads -> {1, 2}]
         /\ round \in [Threads -> Nat]
         /\ register \in [Threads -> Int]
         /\ balance \in [Mutexes -> Int]

InSection(t) == pc[t] \in {"load", "store", "release"}

\* A thread holds both its mutexes in its critical section, its first one while it tries
\* the other, and none while it waits: holder says so for each mutex.
Ownership ==
  \A t \in Threads, m \in Mutexes :
    holder[m] = t <=> \/ m = First(t) /\ (pc[t] = "try" \/ InSection(t))
                      \/ m = Other(t) /\ InSection(t)

\* What a transfer has read of an account is still there when it writes: no other thread
\* changed it in between.
NoLostUpdate == \A t \in Threads : pc[t] = "store" => register[t] = balance[Account(t)]

\* How many transfers of t account m shows: those of its rounds, and the one under way once
\* t has written m.
Applied(t, m) ==
  round[t] + IF \/ m = exercise.pair[t][1] /\ (pc[t] = "release" \/ turn[t] = 2)
                \/ m = exercise.pair[t][2] /\ pc[t] = "release"
             THEN 1 ELSE 0

Terms(m) == [t \in Threads |-> Applied(t, m) * Change(t, m)]

\* Each account, locked or not, is what the transfers written to it make of it.
Ledger ==
  /\ \A t \in Threads : pc[t] \notin {"load", "store"} => turn[t] = 1
  /\ \A m \in Mutexes : balance[m] = exercise.balance[m] + Sum(Terms(m))

\* The inductive invariant.
IInv == Types /\ Ownership /\ NoLostUpdate

-----------------------------------------------------------------------------
(* The mutexes of a thread are two, and numbered like the accounts. *)
LEMMA PairsOfTwo ==
  ASSUME NEW e \in Exercises, NEW t \in DOMAIN e.pair
  PROVE  /\ t \in Nat /\ t # 0 /\ t \in DOMAIN e.amount /\ e.amount[t] \in Int
         /\ e.pair[t][1] \in DOMAIN e.balance /\ e.pair[t][2] \in DOMAIN e.balance
         /\ e.pair[t][1] # e.pair[t][2]
  <1>1. /\ e.pair \in Seq((DOMAIN e.balance) \X (DOMAIN e.balance)) /\ e.amount \in Seq(Int)
        /\ e.pair[t][1] # e.pair[t][2] /\ t \in DOMAIN e.amount
    BY ScopedLockAssumption
  <1>2. t \in 1..Len(e.pair) /\ Len(e.pair) \in Nat /\ Len(e.amount) \in Nat /\ t \in 1..Len(e.amount)
    BY <1>1, LenProperties
  <1>3. e.pair[t] \in (DOMAIN e.balance) \X (DOMAIN e.balance) /\ e.amount[t] \in Int
    BY <1>1, <1>2, ElementOfSeq
  <1>4. QED
    BY <1>1, <1>2, <1>3

(* First and Other are the two mutexes, in one order or the other; Account is one of them. *)
LEMMA FirstAndOther ==
  ASSUME Types, NEW t \in Threads
  PROVE  /\ First(t) \in Mutexes /\ Other(t) \in Mutexes /\ First(t) # Other(t)
         /\ Account(t) \in {First(t), Other(t)} /\ t # 0 /\ exercise.amount[t] \in Int
         /\ 3 - first[t] \in {1, 2} /\ 3 - turn[t] \in {1, 2}
  <1>1. /\ exercise.pair[t][1] \in Mutexes /\ exercise.pair[t][2] \in Mutexes
        /\ exercise.pair[t][1] # exercise.pair[t][2] /\ t # 0 /\ exercise.amount[t] \in Int
    BY PairsOfTwo DEF Types, Threads, Mutexes
  <1>2. first[t] \in {1, 2} /\ turn[t] \in {1, 2} /\ 3 - 1 = 2 /\ 3 - 2 = 1
    BY DEF Types
  <1>3. CASE first[t] = 1
    BY <1>1, <1>2, <1>3 DEF First, Other, Account
  <1>4. CASE first[t] = 2
    BY <1>1, <1>2, <1>4 DEF First, Other, Account
  <1>5. QED
    BY <1>2, <1>3, <1>4

(* Nobody but the owner of its account can be about to write it. *)
LEMMA OthersElsewhere ==
  ASSUME IInv, NEW t \in Threads, NEW u \in Threads, t # u, InSection(t), InSection(u)
  PROVE  Account(t) # Account(u)
  <1>1. holder[Account(t)] = t /\ holder[Account(u)] = u
    BY FirstAndOther DEF IInv, Ownership
  <1>2. QED
    BY <1>1

-----------------------------------------------------------------------------
(* Before the threads start the inductive invariant holds. *)
LEMMA InitInv == Init => IInv
  <1> SUFFICES ASSUME Init PROVE IInv
    OBVIOUS
  <1>1. balance \in [Mutexes -> Int]
    BY ScopedLockAssumption, ElementOfSeq, LenProperties DEF Init, Mutexes
  <1>2. Types
    BY <1>1 DEF Init, Types
  <1>3. \A t \in Threads : t # 0 /\ pc[t] = "wait"
    BY PairsOfTwo DEF Init, Threads
  <1>4. Ownership
    BY <1>3 DEF Init, Ownership, InSection
  <1>5. NoLostUpdate
    BY <1>3 DEF NoLostUpdate
  <1>6. QED
    BY <1>2, <1>4, <1>5 DEF IInv

(* Every step preserves the inductive invariant, one case per action. *)
LEMMA StepInv == IInv /\ [Next]_vars => IInv'
  <1> SUFFICES ASSUME IInv, [Next]_vars PROVE IInv'
    OBVIOUS
  <1>1. ASSUME NEW t \in Threads, LocksFirst(t) PROVE IInv'
    <2>1. /\ pc[t] = "wait" /\ pc' = [pc EXCEPT ![t] = "try"]
          /\ holder[First(t)] = 0 /\ holder' = [holder EXCEPT ![First(t)] = t]
          /\ UNCHANGED <<exercise, first, turn, round, register, balance>>
      BY <1>1 DEF LocksFirst, Goto
    <2>2. Threads' = Threads /\ Mutexes' = Mutexes /\ \A u \in Threads : First(u)' = First(u) /\ Other(u)' = Other(u) /\ Account(u)' = Account(u)
      BY <2>1 DEF Threads, Mutexes, First, Other, Account
    <2>3. \A u \in Threads : pc'[u] = IF u = t THEN "try" ELSE pc[u]
      BY <2>1 DEF IInv, Types
    <2>4. \A m \in Mutexes : holder'[m] = IF m = First(t) THEN t ELSE holder[m]
      BY <2>1 DEF IInv, Types
    <2>5. Types'
      BY <2>1, <2>2 DEF IInv, Types
    <2>6. Ownership'
      <3> SUFFICES ASSUME NEW u \in Threads, NEW m \in Mutexes
                   PROVE  holder'[m] = u <=> \/ m = First(u) /\ (pc'[u] = "try" \/ InSection(u)')
                                             \/ m = Other(u) /\ InSection(u)'
        BY <2>2 DEF Ownership
      <3>1. /\ holder[m] = u <=> \/ m = First(u) /\ (pc[u] = "try" \/ InSection(u))
                                 \/ m = Other(u) /\ InSection(u)
            /\ u # 0
        BY FirstAndOther DEF IInv, Ownership
      <3>2. QED
        BY <2>1, <2>3, <2>4, <3>1 DEF InSection
    <2>7. NoLostUpdate'
      BY <2>1, <2>2, <2>3 DEF IInv, NoLostUpdate
    <2>8. QED
      BY <2>5, <2>6, <2>7 DEF IInv
  <1>2. ASSUME NEW t \in Threads, LocksOther(t) PROVE IInv'
    <2>1. /\ pc[t] = "try" /\ pc' = [pc EXCEPT ![t] = "load"] /\ turn' = [turn EXCEPT ![t] = 1]
          /\ holder[Other(t)] = 0 /\ holder' = [holder EXCEPT ![Other(t)] = t]
          /\ UNCHANGED <<exercise, first, round, register, balance>>
      BY <1>2 DEF LocksOther, Goto, Free
    <2>2. /\ Threads' = Threads /\ Mutexes' = Mutexes
          /\ \A u \in Threads : First(u)' = First(u) /\ Other(u)' = Other(u)
          /\ \A u \in Threads : u # t => Account(u)' = Account(u)
      BY <2>1 DEF Threads, Mutexes, First, Other, Account, IInv, Types
    <2>3. \A u \in Threads : pc'[u] = IF u = t THEN "load" ELSE pc[u]
      BY <2>1 DEF IInv, Types
    <2>4. \A m \in Mutexes : holder'[m] = IF m = Other(t) THEN t ELSE holder[m]
      BY <2>1 DEF IInv, Types
    <2>5. Types'
      BY <2>1, <2>2 DEF IInv, Types
    <2>6. Ownership'
      <3> SUFFICES ASSUME NEW u \in Threads, NEW m \in Mutexes
                   PROVE  holder'[m] = u <=> \/ m = First(u) /\ (pc'[u] = "try" \/ InSection(u)')
                                             \/ m = Other(u) /\ InSection(u)'
        BY <2>2 DEF Ownership
      <3>1. /\ holder[m] = u <=> \/ m = First(u) /\ (pc[u] = "try" \/ InSection(u))
                                 \/ m = Other(u) /\ InSection(u)
            /\ u # 0
        BY FirstAndOther DEF IInv, Ownership
      <3>2. QED
        BY <2>1, <2>3, <2>4, <3>1 DEF InSection
    <2>7. NoLostUpdate'
      BY <2>1, <2>2, <2>3 DEF IInv, NoLostUpdate
    <2>8. QED
      BY <2>5, <2>6, <2>7 DEF IInv
  <1>3. ASSUME NEW t \in Threads, BacksOff(t) PROVE IInv'
    <2>1. /\ pc[t] = "try" /\ pc' = [pc EXCEPT ![t] = "wait"]
          /\ holder' = [holder EXCEPT ![First(t)] = 0] /\ first' = [first EXCEPT ![t] = 3 - first[t]]
          /\ UNCHANGED <<exercise, turn, round, register, balance>>
      BY <1>3 DEF BacksOff, Goto
    <2>2. /\ Threads' = Threads /\ Mutexes' = Mutexes
          /\ \A u \in Threads : Account(u)' = Account(u)
          /\ \A u \in Threads : u # t => First(u)' = First(u) /\ Other(u)' = Other(u)
      BY <2>1 DEF Threads, Mutexes, First, Other, Account, IInv, Types
    <2>3. \A u \in Threads : pc'[u] = IF u = t THEN "wait" ELSE pc[u]
      BY <2>1 DEF IInv, Types
    <2>4. \A m \in Mutexes : holder'[m] = IF m = First(t) THEN 0 ELSE holder[m]
      BY <2>1 DEF IInv, Types
    <2>5. Types'
      BY <2>1, <2>2, FirstAndOther DEF IInv, Types
    <2>6. Ownership'
      <3> SUFFICES ASSUME NEW u \in Threads, NEW m \in Mutexes
                   PROVE  holder'[m] = u <=> \/ m = First(u)' /\ (pc'[u] = "try" \/ InSection(u)')
                                             \/ m = Other(u)' /\ InSection(u)'
        BY <2>2 DEF Ownership
      <3>1. /\ holder[m] = u <=> \/ m = First(u) /\ (pc[u] = "try" \/ InSection(u))
                                 \/ m = Other(u) /\ InSection(u)
            /\ holder[First(t)] = t /\ First(t) \in Mutexes /\ u # 0
        BY <2>1, FirstAndOther DEF IInv, Ownership
      <3>2. QED
        BY <2>1, <2>2, <2>3, <2>4, <3>1 DEF InSection
    <2>7. NoLostUpdate'
      BY <2>1, <2>2, <2>3 DEF IInv, NoLostUpdate
    <2>8. QED
      BY <2>5, <2>6, <2>7 DEF IInv
  <1>4. ASSUME NEW t \in Threads, Load(t) PROVE IInv'
    <2>1. /\ pc[t] = "load" /\ pc' = [pc EXCEPT ![t] = "store"]
          /\ register' = [register EXCEPT ![t] = balance[Account(t)]]
          /\ UNCHANGED <<exercise, holder, first, turn, round, balance>>
      BY <1>4 DEF Load, Goto
    <2>2. Threads' = Threads /\ Mutexes' = Mutexes /\ \A u \in Threads : First(u)' = First(u) /\ Other(u)' = Other(u) /\ Account(u)' = Account(u)
      BY <2>1 DEF Threads, Mutexes, First, Other, Account
    <2>3. \A u \in Threads : pc'[u] = IF u = t THEN "store" ELSE pc[u]
      BY <2>1 DEF IInv, Types
    <2>4. \A u \in Threads : register'[u] = IF u = t THEN balance[Account(t)] ELSE register[u]
      BY <2>1 DEF IInv, Types
    <2>5. Types'
      <3>1. Account(t) \in Mutexes
        BY FirstAndOther DEF IInv
      <3>2. QED
        BY <2>1, <2>2, <3>1 DEF IInv, Types
    <2>6. Ownership'
      BY <2>1, <2>2, <2>3 DEF IInv, Ownership, InSection
    <2>7. NoLostUpdate'
      BY <2>1, <2>2, <2>3, <2>4 DEF IInv, NoLostUpdate
    <2>8. QED
      BY <2>5, <2>6, <2>7 DEF IInv
  <1>5. ASSUME NEW t \in Threads, Store(t) PROVE IInv'
    <2> DEFINE to == IF turn[t] = 1 THEN "load" ELSE "release"
               sum == register[t] + Sign(t) * exercise.amount[t]
    <2>1. /\ pc[t] = "store" /\ pc' = [pc EXCEPT ![t] = to]
          /\ balance' = [balance EXCEPT ![Account(t)] = sum] /\ turn' = [turn EXCEPT ![t] = 3 - turn[t]]
          /\ UNCHANGED <<exercise, holder, first, round, register>>
      BY <1>5 DEF Store, Goto
    <2>2. /\ Threads' = Threads /\ Mutexes' = Mutexes
          /\ \A u \in Threads : First(u)' = First(u) /\ Other(u)' = Other(u)
          /\ \A u \in Threads : u # t => Account(u)' = Account(u)
      BY <2>1 DEF Threads, Mutexes, First, Other, Account, IInv, Types
    <2>3. \A u \in Threads : pc'[u] = IF u = t THEN to ELSE pc[u]
      BY <2>1 DEF IInv, Types
    <2>4. sum \in Int
      BY FirstAndOther DEF Sign, IInv, Types
    <2>5. Types'
      <3>1. 3 - turn[t] \in {1, 2}
        BY FirstAndOther DEF IInv
      <3> HIDE DEF sum
      <3>2. QED
        BY <2>1, <2>2, <2>4, <3>1 DEF IInv, Types
    <2> HIDE DEF sum
    <2>6. Ownership'
      BY <2>1, <2>2, <2>3 DEF IInv, Ownership, InSection
    <2>7. NoLostUpdate'
      <3>1. ASSUME NEW u \in Threads, pc'[u] = "store" PROVE register'[u] = balance'[Account(u)']
        <4>1. u # t /\ pc[u] = "store" /\ Account(u)' = Account(u)
          BY <2>2, <2>3, <3>1
        <4>2. Account(u) # Account(t)
          BY <2>1, <4>1, OthersElsewhere DEF InSection
        <4>3. balance'[Account(u)] = balance[Account(u)]
          BY <2>1, <4>2 DEF IInv, Types
        <4>4. QED
          BY <2>1, <4>1, <4>3 DEF IInv, NoLostUpdate
      <3>2. QED
        BY <2>2, <3>1 DEF NoLostUpdate
    <2>8. QED
      BY <2>5, <2>6, <2>7 DEF IInv
  <1>6. ASSUME NEW t \in Threads, Releases(t) PROVE IInv'
    <2> DEFINE to == IF round[t] + 1 = exercise.rounds THEN "done" ELSE "wait"
    <2>1. /\ pc[t] = "release" /\ pc' = [pc EXCEPT ![t] = to]
          /\ holder' = [m \in Mutexes |-> IF m \in {First(t), Other(t)} THEN 0 ELSE holder[m]]
          /\ round' = [round EXCEPT ![t] = @ + 1] /\ first' = [first EXCEPT ![t] = 1]
          /\ UNCHANGED <<exercise, turn, register, balance>>
      BY <1>6 DEF Releases, Goto
    <2>2. /\ Threads' = Threads /\ Mutexes' = Mutexes
          /\ \A u \in Threads : Account(u)' = Account(u)
          /\ \A u \in Threads : u # t => First(u)' = First(u) /\ Other(u)' = Other(u)
      BY <2>1 DEF Threads, Mutexes, First, Other, Account, IInv, Types
    <2>3. \A u \in Threads : pc'[u] = IF u = t THEN to ELSE pc[u]
      BY <2>1 DEF IInv, Types
    <2>4. \A m \in Mutexes : holder'[m] = IF m \in {First(t), Other(t)} THEN 0 ELSE holder[m]
      BY <2>1
    <2>5. Types'
      BY <2>1, <2>2 DEF IInv, Types
    <2>6. Ownership'
      <3> SUFFICES ASSUME NEW u \in Threads, NEW m \in Mutexes
                   PROVE  holder'[m] = u <=> \/ m = First(u)' /\ (pc'[u] = "try" \/ InSection(u)')
                                             \/ m = Other(u)' /\ InSection(u)'
        BY <2>2 DEF Ownership
      <3>1. /\ holder[m] = u <=> \/ m = First(u) /\ (pc[u] = "try" \/ InSection(u))
                                 \/ m = Other(u) /\ InSection(u)
            /\ holder[First(t)] = t /\ holder[Other(t)] = t /\ u # 0
        BY <2>1, FirstAndOther DEF IInv, Ownership, InSection
      <3>2. QED
        BY <2>1, <2>2, <2>3, <2>4, <3>1 DEF InSection
    <2>7. NoLostUpdate'
      BY <2>1, <2>2, <2>3 DEF IInv, NoLostUpdate
    <2>8. QED
      BY <2>5, <2>6, <2>7 DEF IInv
  <1>7. CASE UNCHANGED vars
    BY <1>7 DEF vars, IInv, Types, Ownership, NoLostUpdate, InSection, First, Other, Account, Threads, Mutexes
  <1>8. QED
    BY <1>1, <1>2, <1>3, <1>4, <1>5, <1>6, <1>7 DEF Next, Thread, Ended

-----------------------------------------------------------------------------
(* The ledger *)

(* The threads are finitely many, and what a transfer changes is a number. *)
LEMMA TermsAreNumbers ==
  ASSUME IInv, NEW m \in Mutexes
  PROVE  /\ IsFiniteSet(Threads) /\ Terms(m) \in [Threads -> Int]
         /\ \A t \in Threads : Change(t, m) \in Int /\ Applied(t, m) \in Int /\ round[t] \in Int
  <1>1. IsFiniteSet(Threads)
    <2>1. exercise.pair \in Seq((DOMAIN exercise.balance) \X (DOMAIN exercise.balance))
      BY ScopedLockAssumption DEF IInv, Types
    <2>2. Len(exercise.pair) \in Nat /\ Threads = 1..Len(exercise.pair)
      BY <2>1, LenProperties DEF Threads
    <2>3. QED
      BY <2>2, FS_Interval
  <1>2. \A t \in Threads : Change(t, m) \in Int
    BY FirstAndOther DEF Change, IInv
  <1>3. \A t \in Threads : round[t] \in Int /\ Applied(t, m) \in Int
    BY DEF Applied, IInv, Types
  <1>4. \A t \in Threads : Applied(t, m) * Change(t, m) \in Int
    BY <1>2, <1>3
  <1>5. QED
    BY <1>1, <1>2, <1>3, <1>4 DEF Terms

(* Before the threads start the ledger is what the program starts with. *)
LEMMA InitLedger == Init => Ledger
  <1> SUFFICES ASSUME Init PROVE Ledger
    OBVIOUS
  <1>1. IInv
    BY InitInv
  <1>2. \A t \in Threads : turn[t] = 1 /\ round[t] = 0 /\ pc[t] = "wait"
    BY DEF Init
  <1>3. ASSUME NEW m \in Mutexes PROVE balance[m] = exercise.balance[m] + Sum(Terms(m))
    <2>1. \A t \in Threads : Applied(t, m) = 0
      BY <1>2 DEF Applied
    <2>2. \A t \in Threads : Applied(t, m) * Change(t, m) = 0
      BY <1>1, <2>1, TermsAreNumbers
    <2>3. Terms(m) = [t \in Threads |-> 0]
      BY <2>2 DEF Terms
    <2>4. Sum(Terms(m)) = 0
      BY <1>1, <2>3, TermsAreNumbers, SumOfZeros
    <2>5. balance[m] \in Int /\ balance[m] = exercise.balance[m]
      BY <1>1 DEF Init, IInv, Types
    <2>6. QED
      BY <2>4, <2>5
  <1>4. QED
    BY <1>2, <1>3 DEF Ledger

(* A step that writes no account changes nothing in the ledger. *)
LEMMA LedgerUnchanged ==
  ASSUME IInv, Ledger, UNCHANGED <<exercise, balance>>,
         \A t \in Threads : pc'[t] \notin {"load", "store"} => turn'[t] = 1,
         \A t \in Threads, m \in Mutexes :
           (Applied(t, m) * Change(t, m))' = Applied(t, m) * Change(t, m)
  PROVE  Ledger'
  <1>1. Threads' = Threads /\ Mutexes' = Mutexes
    BY DEF Threads, Mutexes
  <1>2. \A m \in Mutexes : Terms(m)' = Terms(m)
    BY <1>1 DEF Terms
  <1>3. \A m \in Mutexes : Sum(Terms(m))' = Sum(Terms(m))
    BY <1>2
  <1>4. QED
    BY <1>1, <1>3 DEF Ledger

(* Every step keeps the ledger. *)
LEMMA StepLedger == IInv /\ IInv' /\ Ledger /\ [Next]_vars => Ledger'
  <1> SUFFICES ASSUME IInv, IInv', Ledger, [Next]_vars PROVE Ledger'
    OBVIOUS
  <1>1. \A t \in Threads : /\ pc[t] \notin {"load", "store"} => turn[t] = 1
                           /\ round[t] \in Nat
    BY DEF Ledger, IInv, Types
  <1>2. exercise' = exercise => /\ Threads' = Threads
                                /\ \A t, m : Change(t, m)' = Change(t, m)
    BY DEF Threads, Change
  <1>3. ASSUME NEW t \in Threads, LocksFirst(t) PROVE Ledger'
    <2>1. /\ pc[t] = "wait" /\ \A u \in Threads : pc'[u] = IF u = t THEN "try" ELSE pc[u]
          /\ UNCHANGED <<exercise, turn, round, balance>>
      BY <1>3 DEF LocksFirst, Goto, IInv, Types
    <2>2. \A u \in Threads, m \in Mutexes : Applied(u, m)' = Applied(u, m)
      BY <1>1, <2>1 DEF Applied
    <2>3. QED
      BY <1>1, <1>2, <2>1, <2>2, LedgerUnchanged
  <1>4. ASSUME NEW t \in Threads, LocksOther(t) PROVE Ledger'
    <2>1. /\ pc[t] = "try" /\ \A u \in Threads : pc'[u] = IF u = t THEN "load" ELSE pc[u]
          /\ \A u \in Threads : turn'[u] = IF u = t THEN 1 ELSE turn[u]
          /\ UNCHANGED <<exercise, round, balance>>
      BY <1>4 DEF LocksOther, Goto, IInv, Types
    <2>2. \A u \in Threads : turn'[u] = turn[u]
      BY <1>1, <2>1
    <2>3. \A u \in Threads, m \in Mutexes : Applied(u, m)' = Applied(u, m)
      BY <1>1, <2>1, <2>2 DEF Applied
    <2>4. QED
      BY <1>1, <1>2, <2>1, <2>2, <2>3, LedgerUnchanged
  <1>5. ASSUME NEW t \in Threads, BacksOff(t) PROVE Ledger'
    <2>1. /\ pc[t] = "try" /\ \A u \in Threads : pc'[u] = IF u = t THEN "wait" ELSE pc[u]
          /\ UNCHANGED <<exercise, turn, round, balance>>
      BY <1>5 DEF BacksOff, Goto, IInv, Types
    <2>2. \A u \in Threads, m \in Mutexes : Applied(u, m)' = Applied(u, m)
      BY <1>1, <2>1 DEF Applied
    <2>3. QED
      BY <1>1, <1>2, <2>1, <2>2, LedgerUnchanged
  <1>6. ASSUME NEW t \in Threads, Load(t) PROVE Ledger'
    <2>1. /\ pc[t] = "load" /\ \A u \in Threads : pc'[u] = IF u = t THEN "store" ELSE pc[u]
          /\ UNCHANGED <<exercise, turn, round, balance>>
      BY <1>6 DEF Load, Goto, IInv, Types
    <2>2. \A u \in Threads, m \in Mutexes : Applied(u, m)' = Applied(u, m)
      BY <1>1, <2>1 DEF Applied
    <2>3. QED
      BY <1>1, <1>2, <2>1, <2>2, LedgerUnchanged
  <1>7. ASSUME NEW t \in Threads, Store(t) PROVE Ledger'
    <2>1. /\ pc[t] = "store" /\ turn[t] \in {1, 2}
          /\ \A u \in Threads : pc'[u] = IF u = t THEN (IF turn[t] = 1 THEN "load" ELSE "release") ELSE pc[u]
          /\ \A u \in Threads : turn'[u] = IF u = t THEN 3 - turn[t] ELSE turn[u]
          /\ UNCHANGED <<exercise, round>>
      BY <1>7 DEF Store, Goto, IInv, Types
    <2>2. /\ Threads' = Threads /\ Mutexes' = Mutexes /\ \A u, m : Change(u, m)' = Change(u, m)
      BY <2>1 DEF Threads, Mutexes, Change
    <2>3. \A u \in Threads : pc'[u] \notin {"load", "store"} => turn'[u] = 1
      BY <1>1, <2>1
    <2>4. PICK n \in Mutexes : n = Account(t)
      BY FirstAndOther DEF IInv
    <2>5. /\ Change(t, n) = Sign(t) * exercise.amount[t]
          /\ exercise.pair[t][1] # exercise.pair[t][2]
      <3>1. exercise.pair[t][1] # exercise.pair[t][2] /\ exercise.amount[t] \in Int
        BY PairsOfTwo DEF IInv, Types, Threads
      <3>2. QED
        BY <2>1, <2>4, <3>1 DEF Change, Sign, Account
    <2>6. /\ balance'[n] = balance[n] + Change(t, n)
          /\ \A m \in Mutexes : m # n => balance'[m] = balance[m]
      BY <1>7, <2>1, <2>4, <2>5 DEF Store, IInv, Types, NoLostUpdate
    <2>7. /\ Applied(t, n)' = Applied(t, n) + 1
          /\ \A m \in Mutexes : m # n => Applied(t, m)' = Applied(t, m)
          /\ \A u \in Threads, m \in Mutexes : u # t => Applied(u, m)' = Applied(u, m)
      BY <1>1, <2>1, <2>4, <2>5 DEF Applied, Account
    <2>8. ASSUME NEW m \in Mutexes, m # n
          PROVE  balance'[m] = exercise'.balance[m] + Sum(Terms(m))'
      <3>1. Terms(m)' = Terms(m)
        BY <2>2, <2>7, <2>8 DEF Terms
      <3>2. QED
        BY <2>1, <2>6, <2>8, <3>1 DEF Ledger
    <2>9. balance'[n] = exercise'.balance[n] + Sum(Terms(n))'
      <3>1. /\ IsFiniteSet(Threads) /\ Terms(n) \in [Threads -> Int]
            /\ Change(t, n) \in Int /\ Applied(t, n) \in Int
        BY TermsAreNumbers
      <3>2. Terms(n)' \in [Threads -> Int]
        <4>1. n \in Mutexes'
          BY <2>2
        <4>2. \A u \in Threads : (Applied(u, n) * Change(u, n))' \in Int
          BY <2>2, <2>7, TermsAreNumbers
        <4>3. QED
          BY <2>2, <4>2 DEF Terms
      <3>3. \A u \in Threads : u # t => Terms(n)'[u] = Terms(n)[u]
        BY <2>2, <2>7 DEF Terms
      <3>4. Terms(n)'[t] - Terms(n)[t] = Change(t, n)
        <4>1. \A a, c \in Int : (a + 1) * c - a * c = c
          OBVIOUS
        <4>2. Terms(n)[t] = Applied(t, n) * Change(t, n) /\ Terms(n)'[t] = (Applied(t, n) + 1) * Change(t, n)
          BY <2>2, <2>7 DEF Terms
        <4>3. QED
          BY <3>1, <4>1, <4>2
      <3>5. /\ Sum(Terms(n)) \in Int
            /\ Sum(Terms(n)') = Sum(Terms(n)) + (Terms(n)'[t] - Terms(n)[t])
        BY <3>1, <3>2, <3>3, SumChanges
      <3>6. balance[n] = exercise.balance[n] + Sum(Terms(n)) /\ exercise.balance[n] \in Int
        <4>1. exercise.balance \in Seq(Int)
          BY ScopedLockAssumption DEF IInv, Types
        <4>2. QED
          BY <4>1, ElementOfSeq, LenProperties DEF Ledger, Mutexes
      <3>7. Sum(Terms(n))' = Sum(Terms(n)')
        OBVIOUS
      <3>8. QED
        BY <2>1, <2>6, <3>1, <3>4, <3>5, <3>6, <3>7
    <2>10. QED
      BY <2>2, <2>3, <2>8, <2>9 DEF Ledger
  <1>8. ASSUME NEW t \in Threads, Releases(t) PROVE Ledger'
    <2> DEFINE to == IF round[t] + 1 = exercise.rounds THEN "done" ELSE "wait"
    <2>1. /\ pc[t] = "release" /\ \A u \in Threads : pc'[u] = IF u = t THEN to ELSE pc[u]
          /\ \A u \in Threads : round'[u] = IF u = t THEN round[u] + 1 ELSE round[u]
          /\ UNCHANGED <<exercise, turn, balance>>
      BY <1>8 DEF Releases, Goto, IInv, Types
    <2>2. \A u \in Threads : pc'[u] \notin {"load", "store"} => turn'[u] = 1
      BY <1>1, <2>1
    <2>3. \A u \in Threads, m \in Mutexes : Applied(u, m)' = Applied(u, m) \/ Change(u, m) = 0
      BY <1>1, <2>1 DEF Applied, Change
    <2>4. \A u \in Threads, m \in Mutexes :
            (Applied(u, m) * Change(u, m))' = Applied(u, m) * Change(u, m)
      <3> SUFFICES ASSUME NEW u \in Threads, NEW m \in Mutexes, Change(u, m) = 0
                   PROVE  Applied(u, m)' * Change(u, m) = Applied(u, m) * Change(u, m)
        BY <1>2, <2>1, <2>3
      <3>1. Applied(u, m) \in Int /\ Applied(u, m)' \in Int
        BY <2>1, TermsAreNumbers DEF Applied, IInv, Types
      <3>2. \A a \in Int : a * 0 = 0
        OBVIOUS
      <3>3. QED
        BY <3>1, <3>2
    <2>5. QED
      BY <2>1, <2>2, <2>4, LedgerUnchanged
  <1>9. CASE UNCHANGED vars
    <2>1. UNCHANGED <<exercise, pc, turn, round, balance>>
      BY <1>9 DEF vars
    <2>2. \A u \in Threads, m \in Mutexes : Applied(u, m)' = Applied(u, m)
      BY <2>1 DEF Applied
    <2>3. QED
      BY <1>1, <1>2, <2>1, <2>2, LedgerUnchanged
  <1>10. QED
    BY <1>3, <1>4, <1>5, <1>6, <1>7, <1>8, <1>9 DEF Next, Thread, Ended

(* The sum in BalancesExact is one of those above. *)
LEMMA RoundsAddUp ==
  ASSUME IInv, NEW m \in Mutexes
  PROVE  MapThenSumSet(LAMBDA t : round[t] * Change(t, m), Threads)
           = Sum([t \in Threads |-> round[t] * Change(t, m)])
  <1> DEFINE f == [t \in Threads |-> round[t] * Change(t, m)]
             S == Threads
  <1>1. IsFiniteSet(S) /\ f \in [S -> Int]
    BY TermsAreNumbers
  <1>2. \A s \in SUBSET S : s # {} => Pick(s) \in S
    BY <1>1, Picking
  <1>3. \A t \in S : f[t] = round[t] * Change(t, m)
    OBVIOUS
  <1> HIDE DEF f, S
  <1>4. PICK it : SumsUp(it, f, S)
    BY <1>1, SumsExist
  <1> DEFINE Step(jt, s) == IF s = {} THEN 0 ELSE round[Pick(s)] * Change(Pick(s), m) + jt[s \ {Pick(s)}]
  <1>5. \A jt : \A s \in SUBSET S :
          (IF s = {} THEN 0 ELSE f[Pick(s)] + jt[s \ {Pick(s)}]) = Step(jt, s)
    BY <1>2, <1>3
  <1>6. \A jt : SumsUp(jt, f, S) <=> jt = [s \in SUBSET S |-> Step(jt, s)]
    BY <1>5 DEF SumsUp
  <1>7. it = [s \in SUBSET S |-> Step(it, s)]
    BY <1>4, <1>6
  <1>8. \A jt : jt = [s \in SUBSET S |-> Step(jt, s)] => jt = it
    BY <1>1, <1>4, <1>6, SumsUnique
  <1>9. MapThenSumSet(LAMBDA t : round[t] * Change(t, m), S) = it[S]
    BY <1>7, <1>8 DEF MapThenSumSet, MapThenFoldSet, Pick
  <1>10. Sum(f) = it[S]
    BY <1>1, <1>4, SumIs
  <1>11. QED
    BY <1>9, <1>10 DEF f, S

(* An account nobody has locked shows no transfer that is under way. *)
LEMMA UnlockedIsExact == IInv /\ Ledger => BalancesExact
  <1> SUFFICES ASSUME IInv, Ledger, NEW m \in Mutexes, holder[m] = 0
               PROVE  balance[m] = exercise.balance[m]
                        + MapThenSumSet(LAMBDA t : round[t] * Change(t, m), Threads)
    BY DEF BalancesExact
  <1>1. ASSUME NEW t \in Threads PROVE Applied(t, m) * Change(t, m) = round[t] * Change(t, m)
    <2>1. CASE m \in {First(t), Other(t)}
      <3>1. ~InSection(t)
        BY <2>1, FirstAndOther DEF IInv, Ownership
      <3>2. Applied(t, m) = round[t]
        BY <3>1 DEF Applied, InSection, Ledger, IInv, Types
      <3>3. QED
        BY <3>2
    <2>2. CASE m \notin {First(t), Other(t)}
      <3>1. first[t] \in {1, 2} /\ 3 - 1 = 2 /\ 3 - 2 = 1
        BY DEF IInv, Types
      <3>2. m # exercise.pair[t][1] /\ m # exercise.pair[t][2]
        BY <2>2, <3>1 DEF First, Other
      <3>3. Applied(t, m) = round[t]
        BY <3>2 DEF Applied, IInv, Types
      <3>4. QED
        BY <3>3
    <2>3. QED
      BY <2>1, <2>2
  <1>2. Terms(m) = [t \in Threads |-> round[t] * Change(t, m)]
    BY <1>1 DEF Terms
  <1>3. QED
    BY <1>2, RoundsAddUp DEF Ledger

-----------------------------------------------------------------------------
(* The inductive invariant holds in every reachable state. *)
THEOREM Invariance == Spec => []IInv
  BY InitInv, StepInv, PTL DEF Spec

(* Whoever waits for a mutex waits for a thread that holds it, and does not wait itself:
   no circle of waiting threads can arise, whatever pairs they lock in whatever order. *)
THEOREM NobodyWaitsInACircle == Spec => []NoCircularWait
  <1>1. IInv => NoCircularWait
    <2> SUFFICES ASSUME IInv, NEW t \in Threads, holder[First(t)] # 0
                 PROVE  pc[holder[First(t)]] \in {"try", "load", "store", "release"}
      BY DEF NoCircularWait
    <2>1. PICK u \in Threads : u = holder[First(t)]
      BY FirstAndOther DEF IInv, Types
    <2>2. QED
      BY <2>1, FirstAndOther DEF IInv, Ownership, InSection
  <1>2. QED
    BY <1>1, Invariance, PTL

(* Between the reading and the writing of an account by a transfer nobody else writes it. *)
THEOREM TransfersLoseNothing == Spec => []NoLostUpdate
  <1>1. IInv => NoLostUpdate
    BY DEF IInv
  <1>2. QED
    BY <1>1, Invariance, PTL

(* An account that nobody has locked is its opening balance and the sum of all completed
   transfers, whoever made them and in whatever order: none is lost, half seen or made twice. *)
THEOREM TransfersAreExact == Spec => []BalancesExact
  <1>1. Init /\ [][Next]_vars /\ []IInv => []Ledger
    BY InitLedger, StepLedger, PTL
  <1>2. QED
    BY <1>1, UnlockedIsExact, Invariance, PTL DEF Spec

-----------------------------------------------------------------------------
(* Part 2: one variable for all threads *)

\* The sections of code of which the threads' codes are made.
WriteLine == <<"lock", "add", "rest", "unlock">>
CountTwice == <<"load", "store", "add">>
Sections == {<<>>, ReadModifyWrite, CountTwice, Locked, ReadLocked,
             <<"local">>, <<"add">>, <<"add", "rest">>, WriteLine}

\* The codes that change the variable without a lock, those that do it with one, and those
\* that leave it alone.
Racing == {Unprotected(1), Unprotected(-1), Hoisted(1), Code(CountTwice, <<>>, Iterations, 1)}
Locking == {HeavyLock(1), HeavyLock(-1), HeavyLock(10), Optimized(1), Reader, Writer}
Codes == Racing \cup Locking \cup {Atomic(1), Line, ProtectedLine}

Counting == Racing \ {Unprotected(-1)}
Pot == <<Unprotected(1), Unprotected(-1)>>

\* The threads of a team do the same kind of thing: count, or deposit and withdraw, without
\* a lock; change the variable under it; leave it alone; or write lines under the lock.
CountsFreely(p) == DOMAIN p.team = 1..TeamSize /\ \A t \in DOMAIN p.team : p.team[t] \in Counting
SavesFreely(p) == p.team = Pot
UsesLock(p) == \A t \in DOMAIN p.team : p.team[t] \in Locking
AddsOnly(p) == \A t \in DOMAIN p.team : p.team[t] \in {Atomic(1), Line}
WritesLines(p) == \A t \in DOMAIN p.team : p.team[t] = ProtectedLine
Races(p) == CountsFreely(p) \/ SavesFreely(p)

\* What the phases of all programs have in common.
IsPhase(p) == /\ \E n \in Nat \ {0} : DOMAIN p.team = 1..n
              /\ p.fresh \in BOOLEAN
              /\ (Races(p) /\ p.fresh) \/ UsesLock(p) \/ AddsOnly(p) \/ WritesLines(p)

\* Types of everything that changes.
SharedTypes ==
  /\ program \in Programs /\ phase \in 1..Len(program)
  /\ iteration \in [Members -> Nat] /\ step \in [Members -> Nat \ {0}]
  /\ \A t \in Members : /\ iteration[t] <= CodeOf(t).times
                        /\ step[t] <= IF Loops(t) THEN Len(CodeOf(t).body) ELSE Len(CodeOf(t).tail) + 1
  /\ loaded \in [Members -> Int] /\ local \in [Members -> Int]
  /\ counter \in Int /\ atomicCounter \in Int

\* Between a lock and the unlock that goes with it.
LocksIt(t) == Section(t) \in {Locked, WriteLine} /\ step[t] \in 2..4
SharesIt(t) == Section(t) = ReadLocked /\ step[t] \in 2..4

\* owner and sharers say who is there; a writer is there alone.
Exclusion ==
  /\ owner \in Members \cup {0} /\ sharers \subseteq Members
  /\ \A t \in Members : (owner = t <=> LocksIt(t)) /\ (t \in sharers <=> SharesIt(t))
  /\ owner # 0 => sharers = {}

\* What a thread read under the lock is still there, to be used or to be added to.
StillThere ==
  \A t \in Members : step[t] = 3 =>
    /\ Section(t) \in {Locked, ReadLocked} => loaded[t] = counter
    /\ Section(t) = WriteLine => loaded[t] = atomicCounter

\* s is one of the first k - 1 steps of section q.
Precedes(q, k, s) == \E i \in 1..k - 1 : i <= Len(q) /\ q[i] = s

\* How often a thread with code c has taken step s when it comes to step k of iteration i.
Taken(c, i, k, s) ==
  IF Precedes(c.body, Len(c.body) + 1, s)
  THEN i + IF i < c.times /\ Precedes(c.body, k, s) THEN 1 ELSE 0
  ELSE IF ~(i < c.times) /\ Precedes(c.tail, k, s) THEN 1 ELSE 0
Passed(t, s) == Taken(CodeOf(t), iteration[t], step[t], s)

\* How often it takes the step altogether, and what the step adds: in the loop the amount of an
\* iteration, after it that of all of them.
Needed(c, s) == IF Precedes(c.body, Len(c.body) + 1, s) THEN c.times
                ELSE IF Precedes(c.tail, Len(c.tail) + 1, s) THEN 1 ELSE 0
Worth(c, s) == IF Precedes(c.body, Len(c.body) + 1, s) THEN c.amount ELSE c.times * c.amount

\* What the threads of the team have added so far, and what those of the phases before it did.
Made(s) == Sum([t \in Members |-> Passed(t, s) * Worth(CodeOf(t), s)])
Before(s) == Sum([p \in DOMAIN program |-> IF p # phase /\ Counts(p, s) THEN PhaseTotal(p, s) ELSE 0])

\* The counters are what the steps taken make of them.
Books ==
  /\ \A t \in Members : local[t] = Passed(t, "local") * CodeOf(t).amount
  /\ ~Races(program[phase]) => counter = Before("store") + Made("store")
  /\ atomicCounter = (Before("add") + Made("add")) + (Before("rest") + Made("rest"))

\* t has loaded the value that its next step stores the successor of.
Storing(t) == /\ Section(t) \in {ReadModifyWrite, CountTwice} /\ step[t] = 2

\* Racing threads that only count: what is lost and what is not.
RaceUp ==
  CountsFreely(program[phase]) =>
    /\ 0 <= counter /\ counter <= Made("store")
    /\ \A t \in Members : Storing(t) => 0 <= loaded[t] /\ loaded[t] <= Made("store")
    /\ \A t \in Members : Passed(t, "store") > 0 => counter > 0
    /\ \A t \in Members : Storing(t) /\ Passed(t, "store") > 0 => loaded[t] > 0
    /\ counter >= 2 \/ \E t \in Members : Passed(t, "store") < Needed(CodeOf(t), "store")

\* One thread deposits while another one withdraws.
RaceBothWays ==
  SavesFreely(program[phase]) =>
    /\ counter \in -Passed(2, "store")..Passed(1, "store")
    /\ \A t \in 1..2 : Storing(t) => loaded[t] \in -Passed(2, "store")..Passed(1, "store")

\* The inductive invariant.
SharedInv == SharedTypes /\ Exclusion /\ StillThere /\ Books /\ RaceUp /\ RaceBothWays

-----------------------------------------------------------------------------
(* Each code is made of sections; what follows the loop, if anything, stores the sum of it. *)
LEMMA CodeParts ==
  ASSUME NEW c \in Codes
  PROVE  /\ c.times \in Nat \ {0} /\ c.amount \in Int
         /\ c.body \in Sections \ {<<>>} /\ c.tail \in {<<>>, ReadModifyWrite, Locked}
         /\ c.tail # <<>> => c.body = <<"local">>
  <1> USE SharedDataAssumption DEF Code
  <1>1. <<"local">> # <<>> /\ <<"add">> # <<>> /\ <<"add", "rest">> # <<>> /\ WriteLine # <<>>
        /\ ReadModifyWrite # <<>> /\ CountTwice # <<>> /\ Locked # <<>> /\ ReadLocked # <<>>
    BY DEF WriteLine, ReadModifyWrite, CountTwice, Locked, ReadLocked
  <1>2. CASE c \in Racing
    BY <1>1, <1>2 DEF Racing, Unprotected, Hoisted, Sections
  <1>3. CASE c \in Locking
    BY <1>1, <1>3 DEF Locking, HeavyLock, Optimized, Reader, Writer, Sections
  <1>4. CASE c \in {Atomic(1), Line, ProtectedLine}
    <2>1. CASE c = Atomic(1)
      BY <1>1, <2>1 DEF Atomic, Sections
    <2>2. CASE c = Line
      BY <1>1, <2>2 DEF Line, Sections
    <2>3. CASE c = ProtectedLine
      BY <1>1, <2>3 DEF ProtectedLine, Sections, WriteLine
    <2>4. QED
      BY <1>4, <2>1, <2>2, <2>3
  <1>5. QED
    BY <1>2, <1>3, <1>4 DEF Codes

(* No step occurs twice in a section. *)
LEMMA StepsDiffer ==
  ASSUME NEW q \in Sections
  PROVE  /\ Len(q) \in Nat /\ Len(q) <= 4 /\ DOMAIN q = 1..Len(q)
         /\ \A i, j \in 1..Len(q) : q[i] = q[j] => i = j
  <1> USE DEF ReadModifyWrite, CountTwice, Locked, ReadLocked, WriteLine
  <1>1. CASE q \in {<<>>, <<"local">>, <<"add">>}
    BY <1>1
  <1>2. CASE q = ReadModifyWrite
    BY <1>2
  <1>3. CASE q = <<"add", "rest">>
    BY <1>3
  <1>4. CASE q = CountTwice
    BY <1>4
  <1>5. CASE q = Locked
    BY <1>5
  <1>6. CASE q = ReadLocked
    BY <1>6
  <1>7. CASE q = WriteLine
    BY <1>7
  <1>8. QED
    BY <1>1, <1>2, <1>3, <1>4, <1>5, <1>6, <1>7 DEF Sections

(* Where each of the steps occurs. *)
LEMMA StepsOccur ==
  ASSUME NEW q \in Sections, NEW k \in 1..Len(q)
  PROVE  /\ q[k] = "lock" <=> q \in {Locked, WriteLine} /\ k = 1
         /\ q[k] = "unlock" <=> q \in {Locked, WriteLine} /\ k = 4
         /\ q[k] = "lockShared" <=> q = ReadLocked /\ k = 1
         /\ q[k] = "unlockShared" <=> q = ReadLocked /\ k = 4
         /\ q[k] = "use" <=> q = ReadLocked /\ k = 3
         /\ q[k] = "local" <=> q = <<"local">> /\ k = 1
         /\ q[k] = "load" <=> \/ q \in {ReadModifyWrite, CountTwice} /\ k = 1
                              \/ q \in {Locked, ReadLocked} /\ k = 2
         /\ q[k] = "store" <=> \/ q \in {ReadModifyWrite, CountTwice} /\ k = 2
                               \/ q = Locked /\ k = 3
         /\ q[k] = "add" <=> \/ q \in {<<"add">>, <<"add", "rest">>} /\ k = 1
                             \/ q = WriteLine /\ k = 2
                             \/ q = CountTwice /\ k = 3
         /\ q[k] = "rest" <=> \/ q = <<"add", "rest">> /\ k = 2
                              \/ q = WriteLine /\ k = 3
  <1>1. Len(q) \in 0..4 /\ k \in 1..4
    <2>1. Len(q) \in Nat /\ Len(q) <= 4
      BY StepsDiffer
    <2>2. \A n \in Nat : n <= 4 => n \in 0..4 /\ \A i \in 1..n : i \in 1..4
      OBVIOUS
    <2>3. QED
      BY <2>1, <2>2
  <1>2. CASE k = 1
    BY <1>1, <1>2 DEF Sections, ReadModifyWrite, CountTwice, Locked, ReadLocked, WriteLine
  <1>3. CASE k = 2
    BY <1>1, <1>3 DEF Sections, ReadModifyWrite, CountTwice, Locked, ReadLocked, WriteLine
  <1>4. CASE k = 3
    BY <1>1, <1>4 DEF Sections, ReadModifyWrite, CountTwice, Locked, ReadLocked, WriteLine
  <1>5. CASE k = 4
    BY <1>1, <1>5 DEF Sections, ReadModifyWrite, CountTwice, Locked, ReadLocked, WriteLine
  <1>6. QED
    BY <1>1, <1>2, <1>3, <1>4, <1>5

(* The phases of the programs. *)
LEMMA TeamsAre ==
  ASSUME NEW code \in Codes, NEW fresh \in BOOLEAN,
         \/ code \in Counting /\ fresh
         \/ code \in Locking \cup {Atomic(1), Line, ProtectedLine}
  PROVE  IsPhase(Phase(Team(code), fresh))
  <1> DEFINE p == Phase(Team(code), fresh)
  <1>1. /\ p.fresh = fresh /\ DOMAIN p.team = 1..TeamSize
        /\ \A t \in DOMAIN p.team : p.team[t] = code
    BY DEF Phase, Team
  <1>2. \E n \in Nat \ {0} : DOMAIN p.team = 1..n
    BY <1>1, SharedDataAssumption
  <1> HIDE DEF p
  <1>3. CASE code \in Counting /\ fresh
    <2>1. Races(p)
      BY <1>1, <1>3 DEF Races, CountsFreely
    <2>2. p.fresh
      BY <1>1, <1>3, Zenon
    <2>3. p.fresh \in BOOLEAN
      BY <1>1
    <2>4. QED
      BY <1>2, <2>1, <2>2, <2>3, Zenon DEF IsPhase, p
  <1>4. CASE code \in Locking \cup {Atomic(1), Line, ProtectedLine}
    <2>1. UsesLock(p) \/ AddsOnly(p) \/ WritesLines(p)
      BY <1>1, <1>4 DEF UsesLock, AddsOnly, WritesLines
    <2>2. p.fresh \in BOOLEAN
      BY <1>1
    <2>3. QED
      BY <1>2, <2>1, <2>2, Zenon DEF IsPhase, p
  <1>5. QED
    BY <1>3, <1>4

LEMMA PotIs == IsPhase(Phase(Pot, TRUE))
  <1> DEFINE p == Phase(Pot, TRUE)
  <1>1. p.team = Pot /\ p.fresh
    BY DEF Phase
  <1>2. Len(Pot) = 2 /\ Pot \in Seq({Unprotected(1), Unprotected(-1)})
    BY DEF Pot
  <1>3. DOMAIN p.team = 1..2
    BY <1>1, <1>2, LenProperties, Zenon
  <1>4. \E n \in Nat \ {0} : DOMAIN p.team = 1..n
    <2>1. 2 \in Nat \ {0}
      OBVIOUS
    <2>2. QED
      BY <1>3, <2>1, Zenon
  <1>5. p.fresh \in BOOLEAN
    BY DEF Phase
  <1> HIDE DEF p
  <1>6. QED
    BY <1>1, <1>4, <1>5, Zenon DEF IsPhase, Races, SavesFreely, p

(* A team of readers and writers, given one by one. *)
LEMMA LockersAre ==
  ASSUME NEW team, NEW n \in Nat \ {0}, DOMAIN team = 1..n, NEW fresh \in BOOLEAN,
         \A t \in 1..n : team[t] \in Locking
  PROVE  IsPhase(Phase(team, fresh))
  <1> DEFINE p == Phase(team, fresh)
  <1>1. p.team = team /\ p.fresh = fresh
    BY DEF Phase
  <1>2. \E m \in Nat \ {0} : DOMAIN p.team = 1..m
    BY <1>1
  <1> HIDE DEF p
  <1>3. QED
    BY <1>1, <1>2 DEF IsPhase, UsesLock, p

\* A program starts at 0 and sets the variable to 0 after a race.
IsProgram(q) == /\ Len(q) \in Nat \ {0} /\ DOMAIN q = 1..Len(q)
                /\ \A p \in 1..Len(q) : IsPhase(q[p])
                /\ q[1].fresh
                /\ \A p \in 1..Len(q) : p # 1 => q[p].fresh \/ ~Races(q[p - 1])

LEMMA OnePhase ==
  ASSUME NEW p, IsPhase(p), p.fresh
  PROVE  IsProgram(<<p>>)
  BY DEF IsProgram

LEMMA TwoPhases ==
  ASSUME NEW p, NEW q, IsPhase(p), IsPhase(q), p.fresh, ~Races(p)
  PROVE  IsProgram(<<p, q>>)
  BY DEF IsProgram

LEMMA ThreePhases ==
  ASSUME NEW p, NEW q, NEW r, IsPhase(p), IsPhase(q), IsPhase(r), p.fresh, q.fresh, r.fresh
  PROVE  IsProgram(<<p, q, r>>)
  BY DEF IsProgram

(* The steps a code has. *)
LEMMA HasSteps ==
  ASSUME NEW c \in Codes, NEW s
  PROVE  Has(c, s) <=> \/ \E k \in 1..Len(c.body) : c.body[k] = s
                       \/ \E k \in 1..Len(c.tail) : c.tail[k] = s
  <1>1. c.body \in Sections /\ c.tail \in Sections
    BY CodeParts DEF Sections
  <1>2. DOMAIN c.body = 1..Len(c.body) /\ DOMAIN c.tail = 1..Len(c.tail)
    BY <1>1, StepsDiffer
  <1>3. QED
    BY <1>2 DEF Has

(* Those that race are those that store without a lock. *)
LEMMA RacingIs ==
  ASSUME NEW c \in Codes
  PROVE  c \in Racing <=> Has(c, "store") /\ ~Has(c, "lock")
  <1> USE DEF Code
  <1>1. CASE c \in Racing
    <2>1. \/ c.body \in {ReadModifyWrite, CountTwice} /\ c.tail = <<>>
          \/ c.body = <<"local">> /\ c.tail = ReadModifyWrite
      BY <1>1 DEF Racing, Unprotected, Hoisted
    <2>2. Has(c, "store") /\ ~Has(c, "lock")
      BY <2>1, HasSteps DEF ReadModifyWrite, CountTwice
    <2>3. QED
      BY <1>1, <2>2
  <1>2. CASE c \in Locking
    <2>1. c.body = Locked \/ c.tail = Locked \/ (c.body = ReadLocked /\ c.tail = <<>>)
      BY <1>2 DEF Locking, HeavyLock, Optimized, Reader, Writer
    <2>2. Has(c, "lock") \/ ~Has(c, "store")
      BY <2>1, HasSteps DEF Locked, ReadLocked
    <2>3. QED
      BY <1>1, <2>2
  <1>3. CASE c \in {Atomic(1), Line, ProtectedLine}
    <2>1. c.body \in {<<"add">>, <<"add", "rest">>, WriteLine} /\ c.tail = <<>>
      BY <1>3 DEF Atomic, Line, ProtectedLine, WriteLine
    <2>2. ~Has(c, "store")
      BY <2>1, HasSteps DEF WriteLine
    <2>3. QED
      BY <1>1, <2>2
  <1>4. QED
    BY <1>1, <1>2, <1>3 DEF Codes

LEMMA KindsDiffer == \A c \in Locking \cup {Atomic(1), Line, ProtectedLine} : c \notin Racing
  <1> USE DEF Code
  <1> SUFFICES ASSUME NEW c \in Locking \cup {Atomic(1), Line, ProtectedLine}, c \in Racing PROVE FALSE
    OBVIOUS
  <1>1. /\ c.body \in {ReadModifyWrite, CountTwice, <<"local">>}
        /\ c.tail \in {<<>>, ReadModifyWrite}
    BY DEF Racing, Unprotected, Hoisted
  <1>2. \/ c.body \in {Locked, ReadLocked, <<"add">>, <<"add", "rest">>, WriteLine}
        \/ c.tail = Locked
    BY DEF Locking, HeavyLock, Optimized, Reader, Writer, Atomic, Line, ProtectedLine, WriteLine
  <1>3. QED
    BY <1>1, <1>2 DEF ReadModifyWrite, CountTwice, Locked, ReadLocked, WriteLine

(* A team that is not a race. *)
LEMMA NoRaceIn ==
  ASSUME NEW p, NEW n \in Nat \ {0}, DOMAIN p.team = 1..n,
         \A t \in 1..n : p.team[t] \in Locking \cup {Atomic(1), Line, ProtectedLine}
  PROVE  ~Races(p)
  <1>1. 1 \in DOMAIN p.team /\ p.team[1] \notin Racing
    BY KindsDiffer
  <1>2. ~CountsFreely(p)
    BY <1>1 DEF CountsFreely, Counting
  <1>3. Pot[1] \in Racing
    BY DEF Pot, Racing
  <1>4. QED
    BY <1>1, <1>2, <1>3 DEF Races, SavesFreely

(* A race starts with the variable at 0. *)
LEMMA RaceIsFresh ==
  ASSUME NEW p, IsPhase(p), Races(p)
  PROVE  p.fresh
  <1>1. PICK n \in Nat \ {0} : DOMAIN p.team = 1..n
    BY DEF IsPhase
  <1>2. ~(\A t \in 1..n : p.team[t] \in Locking \cup {Atomic(1), Line, ProtectedLine})
    BY <1>1, NoRaceIn
  <1>3. ~UsesLock(p) /\ ~AddsOnly(p) /\ ~WritesLines(p)
    BY <1>1, <1>2 DEF UsesLock, AddsOnly, WritesLines
  <1>4. QED
    BY <1>3 DEF IsPhase

(* What may run has the phases and the order of them that the proofs rely on. *)
LEMMA ProgramsAre ==
  ASSUME NEW q \in Programs
  PROVE  IsProgram(q)
  <1>1. CountTwice = ReadModifyWrite \o <<"add">>
    BY DEF CountTwice, ReadModifyWrite
  <1> DEFINE twice == Code(CountTwice, <<>>, Iterations, 1)
             line(c, f) == Phase(Team(c), f)
  <1>2. /\ {Unprotected(1), Hoisted(1), twice} \subseteq Codes
        /\ HeavyLock(1) \in Codes /\ HeavyLock(10) \in Codes /\ Optimized(1) \in Codes
        /\ Atomic(1) \in Codes /\ Line \in Codes /\ ProtectedLine \in Codes
    BY DEF Codes, Racing, Locking
  <1>3. {Unprotected(1), Hoisted(1), twice} \subseteq Counting
    <2>1. /\ Unprotected(1).amount = 1 /\ Hoisted(1).amount = 1 /\ twice.amount = 1
          /\ Unprotected(-1).amount = -1
      BY DEF Unprotected, Hoisted, Code
    <2>2. Unprotected(-1) \notin {Unprotected(1), Hoisted(1), twice}
      BY <2>1
    <2>3. QED
      BY <2>2 DEF Counting, Racing
  <1>4. /\ IsPhase(line(Unprotected(1), TRUE)) /\ IsPhase(line(Hoisted(1), TRUE))
        /\ IsPhase(line(twice, TRUE))
    BY <1>2, <1>3, TeamsAre
  <1>5. /\ HeavyLock(1) \in Locking /\ HeavyLock(-1) \in Locking /\ HeavyLock(10) \in Locking
        /\ Optimized(1) \in Locking /\ Reader \in Locking /\ Writer \in Locking
    BY DEF Locking
  <1>6. /\ IsPhase(line(HeavyLock(1), TRUE)) /\ IsPhase(line(HeavyLock(10), TRUE))
        /\ IsPhase(line(Optimized(1), TRUE))
    BY <1>2, <1>5, TeamsAre
  <1>7. /\ IsPhase(line(Atomic(1), FALSE)) /\ IsPhase(line(Line, TRUE))
        /\ IsPhase(line(ProtectedLine, FALSE))
    BY <1>2, TeamsAre
  <1>8. \A c, f : line(c, f).fresh = f /\ line(c, f).team = [i \in 1..TeamSize |-> c]
    BY DEF Phase, Team
  <1>9. ~Races(line(HeavyLock(1), TRUE)) /\ ~Races(line(Line, TRUE))
    <2> DEFINE K == Locking \cup {Atomic(1), Line, ProtectedLine}
    <2>1. ASSUME NEW c \in K PROVE ~Races(line(c, TRUE))
      <3>1. line(c, TRUE).team = [i \in 1..TeamSize |-> c]
        BY DEF Phase, Team
      <3>2. TeamSize \in Nat \ {0}
        BY SharedDataAssumption
      <3> HIDE DEF K, line
      <3>3. /\ DOMAIN line(c, TRUE).team = 1..TeamSize
            /\ \A t \in 1..TeamSize : line(c, TRUE).team[t] \in K
        BY <3>1
      <3>4. QED
        BY <3>2, <3>3, NoRaceIn DEF K
    <2>2. HeavyLock(1) \in K /\ Line \in K
      BY <1>5
    <2> HIDE DEF K
    <2>3. QED
      BY <2>1, <2>2
  <1> HIDE DEF line, twice
  <1>10. CASE \E c \in {Unprotected(1), Hoisted(1)} : q = CompetitiveCounter(c)
    BY <1>4, <1>6, <1>8, <1>10, ThreePhases DEF CompetitiveCounter, line
  <1>11. CASE q = IncrementWithAtomic
    BY <1>1, <1>4, <1>8, <1>11, OnePhase DEF IncrementWithAtomic, line, twice
  <1>12. CASE q = MutexVsAtomic
    BY <1>6, <1>7, <1>8, <1>9, <1>12, TwoPhases DEF MutexVsAtomic, line
  <1>13. CASE q = SavingPotWithoutMutex
    BY <1>13, PotIs, OnePhase DEF SavingPotWithoutMutex, Pot, Phase
  <1>14. CASE q = SavingPotWithMutex
    <2> DEFINE team == <<HeavyLock(1), HeavyLock(-1)>>
    <2>1. DOMAIN team = 1..2 /\ \A t \in 1..2 : team[t] \in Locking
      BY <1>5
    <2>2. Phase(team, TRUE).fresh /\ 2 \in Nat \ {0}
      BY DEF Phase
    <2> HIDE DEF team
    <2>3. IsPhase(Phase(team, TRUE))
      BY <2>1, <2>2, LockersAre
    <2>4. QED
      BY <1>14, <2>2, <2>3, OnePhase DEF SavingPotWithMutex, team
  <1>15. CASE q = UniqueLockUsage
    BY <1>6, <1>8, <1>15, OnePhase DEF UniqueLockUsage, line
  <1>16. CASE q \in {SharedMutex1, SharedMutex2}
    <2> DEFINE one == <<Reader, Reader, Writer, Writer, Reader>>
               two == <<Reader, Reader, Reader, Writer, Writer>>
    <2>1. DOMAIN one = 1..5 /\ \A t \in 1..5 : one[t] \in Locking
      BY <1>5
    <2>2. DOMAIN two = 1..5 /\ \A t \in 1..5 : two[t] \in Locking
      BY <1>5
    <2>3. Phase(one, TRUE).fresh /\ Phase(two, TRUE).fresh /\ 5 \in Nat \ {0}
      BY DEF Phase
    <2> HIDE DEF one, two
    <2>4. IsPhase(Phase(one, TRUE)) /\ IsPhase(Phase(two, TRUE))
      BY <2>1, <2>2, <2>3, LockersAre
    <2>5. QED
      BY <1>16, <2>3, <2>4, OnePhase DEF SharedMutex1, SharedMutex2, one, two
  <1>17. CASE q = ThreadSafeCache
    <2> DEFINE one == <<Reader, Writer, Reader, Writer>>
               two == <<Reader>>
    <2>1. DOMAIN one = 1..4 /\ \A t \in 1..4 : one[t] \in Locking
      BY <1>5
    <2>2. DOMAIN two = 1..1 /\ \A t \in 1..1 : two[t] \in Locking
      BY <1>5
    <2>3. Phase(one, TRUE).team = one /\ Phase(one, TRUE).fresh /\ 4 \in Nat \ {0} /\ 1 \in Nat \ {0}
      BY DEF Phase
    <2> HIDE DEF one, two
    <2>4. IsPhase(Phase(one, TRUE)) /\ IsPhase(Phase(two, FALSE))
      BY <2>1, <2>2, <2>3, LockersAre
    <2>5. ~Races(Phase(one, TRUE))
      BY <2>1, <2>3, NoRaceIn
    <2>6. QED
      BY <1>17, <2>3, <2>4, <2>5, TwoPhases DEF ThreadSafeCache, one, two
  <1>18. CASE q = StdoutWithMutex
    BY <1>7, <1>8, <1>9, <1>18, TwoPhases DEF StdoutWithMutex, line
  <1>19. q \in AllPrograms
    BY SharedDataAssumption
  <1>20. QED
    BY <1>10, <1>11, <1>12, <1>13, <1>14, <1>15, <1>16, <1>17, <1>18, <1>19 DEF AllPrograms

-----------------------------------------------------------------------------
(* How often a step has been taken *)

LEMMA PrecedesNext ==
  ASSUME NEW q \in Sections, NEW k \in 1..Len(q)
  PROVE  /\ \A r : Precedes(q, k + 1, r) <=> Precedes(q, k, r) \/ r = q[k]
         /\ ~Precedes(q, k, q[k])
  <1>1. Len(q) \in Nat /\ \A i, j \in 1..Len(q) : q[i] = q[j] => i = j
    BY StepsDiffer
  <1>2. k \in Nat /\ k <= Len(q) /\ (k + 1) - 1 = k /\ \A i \in 1..k : i = k \/ i \in 1..k - 1
    BY <1>1
  <1>3. \A i \in 1..k - 1 : i \in 1..k /\ i # k /\ i \in 1..Len(q)
    BY <1>1
  <1>4. ASSUME NEW r PROVE Precedes(q, k + 1, r) <=> Precedes(q, k, r) \/ r = q[k]
    <2>1. k \in 1..k
      BY <1>2
    <2>2. QED
      BY <1>2, <1>3, <2>1 DEF Precedes
  <1>5. ~Precedes(q, k, q[k])
    BY <1>1, <1>3 DEF Precedes
  <1>6. QED
    BY <1>4, <1>5

LEMMA PrecedesAll ==
  ASSUME NEW q \in Sections, NEW s
  PROVE  /\ ~Precedes(q, 1, s)
         /\ Precedes(q, Len(q) + 1, s) <=> \E i \in 1..Len(q) : q[i] = s
         /\ \A k \in Nat : Precedes(q, k, s) => Precedes(q, Len(q) + 1, s)
  <1>1. Len(q) \in Nat
    BY StepsDiffer
  <1>2. ~Precedes(q, 1, s)
    BY DEF Precedes
  <1>3. (Len(q) + 1) - 1 = Len(q) /\ \A i \in 1..Len(q) : i <= Len(q)
    BY <1>1
  <1>4. Precedes(q, Len(q) + 1, s) <=> \E i \in 1..Len(q) : q[i] = s
    BY <1>3 DEF Precedes
  <1>5. \A k \in Nat : \A i \in 1..k - 1 : i <= Len(q) => i \in 1..Len(q)
    BY <1>1
  <1>6. QED
    BY <1>2, <1>4, <1>5 DEF Precedes

(* What is done after the loop is not done in it. *)
LEMMA InOneSection ==
  ASSUME NEW c \in Codes, NEW i \in 1..Len(c.tail)
  PROVE  ~Precedes(c.body, Len(c.body) + 1, c.tail[i])
  <1>1. c.body \in Sections /\ c.tail \in {<<>>, ReadModifyWrite, Locked} /\ (c.tail # <<>> => c.body = <<"local">>)
    BY CodeParts
  <1>2. c.tail \in Sections /\ c.tail # <<"local">>
    BY <1>1 DEF Sections, ReadModifyWrite, Locked
  <1>3. c.tail[i] # "local"
    BY <1>2, StepsOccur
  <1>4. c.body = <<"local">>
    BY <1>1
  <1>5. \A j \in 1..Len(c.body) : c.body[j] = "local"
    BY <1>4
  <1>6. \A j \in 1..Len(c.body) : c.body[j] # c.tail[i]
    BY <1>3, <1>5
  <1>7. c.body \in Sections
    BY <1>1
  <1>8. QED
    BY <1>6, <1>7, PrecedesAll, Zenon

(* Each step of a thread is counted, and only that one. *)
LEMMA TakenGrows ==
  ASSUME NEW c \in Codes, NEW i \in Nat, i <= c.times, NEW k \in Nat \ {0},
         NEW q, q = IF i < c.times THEN c.body ELSE c.tail, k <= Len(q),
         NEW j, j = IF i < c.times /\ k = Len(c.body) THEN i + 1 ELSE i,
         NEW l, l = IF i < c.times /\ k = Len(c.body) THEN 1 ELSE k + 1
  PROVE  /\ Taken(c, i, k, q[k]) \in Nat
         /\ Taken(c, j, l, q[k]) = Taken(c, i, k, q[k]) + 1
         /\ \A r : r # q[k] => Taken(c, j, l, r) = Taken(c, i, k, r)
  <1> DEFINE B == Len(c.body)
             T == Len(c.tail)
  <1>1. /\ c.times \in Nat \ {0} /\ c.body \in Sections /\ c.tail \in Sections
    BY CodeParts DEF Sections
  <1>2. B \in Nat /\ T \in Nat
    BY <1>1, StepsDiffer
  <1>3. \A r : ~Precedes(c.body, 1, r) /\ ~Precedes(c.tail, 1, r)
    BY <1>1, PrecedesAll
  <1>4. CASE i < c.times
    <2>1. q = c.body /\ k \in 1..B
      BY <1>2, <1>4
    <2>2. /\ \A r : Precedes(c.body, k + 1, r) <=> Precedes(c.body, k, r) \/ r = q[k]
          /\ ~Precedes(c.body, k, q[k])
      BY <1>1, <2>1, PrecedesNext
    <2>3. Precedes(c.body, B + 1, q[k])
      BY <1>1, <2>1, PrecedesAll
    <2>4. \A r : Precedes(c.body, k + 1, r) => Precedes(c.body, B + 1, r)
      <3>1. k + 1 \in Nat
        OBVIOUS
      <3>2. QED
        BY <1>1, <3>1, PrecedesAll, Zenon
    <2>5. CASE k = B
      <3>1. j = i + 1 /\ l = 1 /\ j \in Nat
        BY <1>4, <2>5
      <3>2. \A r : Precedes(c.body, B + 1, r) <=> Precedes(c.body, k, r) \/ r = q[k]
        BY <2>2, <2>5
      <3> HIDE DEF B
      <3>3. /\ Taken(c, i, k, q[k]) = i /\ Taken(c, j, l, q[k]) = i + 1
        BY <1>3, <1>4, <2>2, <2>3, <3>1 DEF Taken, B
      <3>4. ASSUME NEW r, r # q[k] PROVE Taken(c, j, l, r) = Taken(c, i, k, r)
        <4>1. CASE Precedes(c.body, B + 1, r)
          BY <1>3, <1>4, <3>1, <3>2, <3>4, <4>1 DEF Taken, B
        <4>2. CASE ~Precedes(c.body, B + 1, r)
          BY <1>3, <1>4, <3>1, <4>2 DEF Taken, B
        <4>3. QED
          BY <4>1, <4>2
      <3>5. QED
        BY <3>3, <3>4
    <2>6. CASE k # B
      <3>1. j = i /\ l = k + 1
        BY <1>4, <2>6
      <3> HIDE DEF B
      <3>2. /\ Taken(c, i, k, q[k]) = i /\ Taken(c, j, l, q[k]) = i + 1
        BY <1>4, <2>2, <2>3, <3>1 DEF Taken, B
      <3>3. \A r : r # q[k] => Taken(c, j, l, r) = Taken(c, i, k, r)
        BY <1>4, <2>2, <3>1 DEF Taken
      <3>4. QED
        BY <3>2, <3>3
    <2>7. QED
      BY <2>5, <2>6
  <1>5. CASE ~(i < c.times)
    <2>1. q = c.tail /\ k \in 1..T /\ j = i /\ l = k + 1
      BY <1>2, <1>5
    <2>2. /\ \A r : Precedes(c.tail, k + 1, r) <=> Precedes(c.tail, k, r) \/ r = q[k]
          /\ ~Precedes(c.tail, k, q[k])
      BY <1>1, <2>1, PrecedesNext
    <2>3. ~Precedes(c.body, B + 1, q[k])
      BY <2>1, InOneSection
    <2>4. Taken(c, i, k, q[k]) = 0 /\ Taken(c, j, l, q[k]) = 1
      BY <1>5, <2>1, <2>2, <2>3 DEF Taken
    <2>5. \A r : r # q[k] => Taken(c, j, l, r) = Taken(c, i, k, r)
      BY <1>5, <2>1, <2>2 DEF Taken
    <2>6. QED
      BY <2>4, <2>5
  <1>6. QED
    BY <1>4, <1>5

(* What a step is worth, and how often it is needed. *)
LEMMA WorthIs ==
  ASSUME NEW c \in Codes, NEW s
  PROVE  Worth(c, s) \in Int /\ Needed(c, s) \in Nat
  <1>1. c.times \in Nat \ {0} /\ c.amount \in Int
    BY CodeParts
  <1>2. c.times * c.amount \in Int
    BY <1>1
  <1>3. QED
    BY <1>1, <1>2 DEF Worth, Needed

(* The number of times is at first 0, and in the end what is needed. *)
LEMMA TakenIs ==
  ASSUME NEW c \in Codes, NEW i \in Nat, i <= c.times, NEW k \in Nat \ {0}, NEW s
  PROVE  /\ Taken(c, i, k, s) \in Nat /\ Taken(c, 0, 1, s) = 0
         /\ i = c.times /\ k = Len(c.tail) + 1 => Taken(c, i, k, s) = Needed(c, s)
  <1>1. c.times \in Nat \ {0} /\ c.body \in Sections /\ c.tail \in Sections
    BY CodeParts DEF Sections
  <1>2. \A r : ~Precedes(c.body, 1, r) /\ ~Precedes(c.tail, 1, r)
    BY <1>1, PrecedesAll
  <1>3. Taken(c, i, k, s) \in Nat
    BY <1>1 DEF Taken
  <1>4. Taken(c, 0, 1, s) = 0
    BY <1>1, <1>2 DEF Taken
  <1>5. i = c.times /\ k = Len(c.tail) + 1 => Taken(c, i, k, s) = Needed(c, s)
    BY <1>1 DEF Taken, Needed
  <1>6. QED
    BY <1>3, <1>4, <1>5

-----------------------------------------------------------------------------
(* A step of a thread *)

(* The codes of a team. *)
LEMMA CodesOfPhase ==
  ASSUME NEW p, IsPhase(p), NEW t \in DOMAIN p.team
  PROVE  p.team[t] \in Codes
  <1>1. CASE CountsFreely(p)
    BY <1>1 DEF CountsFreely, Counting, Codes
  <1>2. CASE SavesFreely(p)
    <2>1. DOMAIN Pot = 1..2 /\ Pot[1] \in Racing /\ Pot[2] \in Racing
      BY DEF Pot, Racing
    <2>2. p.team = Pot /\ (t = 1 \/ t = 2)
      BY <1>2, <2>1 DEF SavesFreely
    <2>3. QED
      BY <2>1, <2>2 DEF Codes
  <1>3. CASE UsesLock(p)
    BY <1>3 DEF UsesLock, Codes
  <1>4. CASE AddsOnly(p) \/ WritesLines(p)
    BY <1>4 DEF AddsOnly, WritesLines, Codes
  <1>5. QED
    BY <1>1, <1>2, <1>3, <1>4 DEF IsPhase, Races

(* What a team is made of. *)
LEMMA TeamFacts ==
  ASSUME SharedTypes
  PROVE  /\ IsProgram(program) /\ IsPhase(program[phase]) /\ phase \in Nat \ {0} /\ phase \in DOMAIN program
         /\ IsFiniteSet(Members) /\ 0 \notin Members /\ 1 \in Members /\ Members \subseteq Nat
         /\ \A t \in Members : CodeOf(t) \in Codes /\ Section(t) \in Sections
  <1>1. IsProgram(program)
    BY ProgramsAre DEF SharedTypes
  <1>2. IsPhase(program[phase]) /\ phase \in Nat \ {0} /\ phase \in DOMAIN program
    BY <1>1 DEF IsProgram, SharedTypes
  <1>3. PICK n \in Nat \ {0} : Members = 1..n
    BY <1>2 DEF IsPhase, Members
  <1>4. /\ IsFiniteSet(Members) /\ 0 \notin Members /\ 1 \in Members /\ Members \subseteq Nat
    BY <1>3, FS_Interval
  <1>5. ASSUME NEW t \in Members PROVE CodeOf(t) \in Codes
    BY <1>2, <1>5, CodesOfPhase DEF CodeOf, Members
  <1>6. \A t \in Members : Section(t) \in Sections
    BY <1>5, CodeParts DEF Section, Sections
  <1>7. QED
    BY <1>1, <1>2, <1>4, <1>5, <1>6

(* How far a thread is before and after a step. *)
LEMMA StepFacts ==
  ASSUME SharedTypes, NEW t \in Members, NEW s, Takes(t, s)
  PROVE  /\ step[t] \in 1..Len(Section(t)) /\ Section(t)[step[t]] = s
         /\ program' = program /\ phase' = phase /\ Members' = Members
         /\ \A u : CodeOf(u)' = CodeOf(u)
         /\ iteration' \in [Members -> Nat] /\ step' \in [Members -> Nat \ {0}]
         /\ \A u \in Members : u # t => iteration'[u] = iteration[u] /\ step'[u] = step[u]
         /\ \/ iteration'[t] = iteration[t] /\ step'[t] = step[t] + 1
            \/ iteration'[t] = iteration[t] + 1 /\ step'[t] = 1 /\ step[t] = Len(Section(t)) /\ Loops(t)
         /\ Loops(t) => (step'[t] = 1 <=> step[t] = Len(CodeOf(t).body))
  <1>1. /\ program' = program /\ phase' = phase /\ Members' = Members /\ \A u : CodeOf(u)' = CodeOf(u)
    BY DEF Takes, control, Members, CodeOf
  <1>2. /\ Section(t) \in Sections /\ CodeOf(t) \in Codes
        /\ step \in [Members -> Nat \ {0}] /\ iteration \in [Members -> Nat]
    BY TeamFacts DEF SharedTypes
  <1>3. step[t] \in 1..Len(Section(t)) /\ Section(t)[step[t]] = s
    BY <1>2, StepsDiffer DEF Takes, Finished
  <1>4. CASE Loops(t) /\ step[t] = Len(CodeOf(t).body)
    <2>1. iteration' = [iteration EXCEPT ![t] = @ + 1] /\ step' = [step EXCEPT ![t] = 1]
      BY <1>4 DEF Takes
    <2>2. Section(t) = CodeOf(t).body
      BY <1>4 DEF Section
    <2>3. /\ iteration' \in [Members -> Nat] /\ step' \in [Members -> Nat \ {0}]
          /\ iteration'[t] = iteration[t] + 1 /\ step'[t] = 1
          /\ \A u \in Members : u # t => iteration'[u] = iteration[u] /\ step'[u] = step[u]
      BY <1>2, <2>1
    <2>4. QED
      BY <1>1, <1>3, <1>4, <2>2, <2>3
  <1>5. CASE ~(Loops(t) /\ step[t] = Len(CodeOf(t).body))
    <2>1. iteration' = iteration /\ step' = [step EXCEPT ![t] = @ + 1]
      BY <1>5 DEF Takes
    <2>2. /\ iteration' \in [Members -> Nat] /\ step' \in [Members -> Nat \ {0}]
          /\ iteration'[t] = iteration[t] /\ step'[t] = step[t] + 1 /\ step[t] + 1 # 1
          /\ \A u \in Members : u # t => iteration'[u] = iteration[u] /\ step'[u] = step[u]
      BY <1>2, <2>1
    <2>3. QED
      BY <1>1, <1>3, <1>5, <2>2
  <1>6. QED
    BY <1>4, <1>5

(* Where it is then. *)
LEMMA SectionFacts ==
  ASSUME SharedTypes, NEW t \in Members, NEW s, Takes(t, s)
  PROVE  /\ \A u \in Members : u # t => Section(u)' = Section(u) /\ (Loops(u)' <=> Loops(u))
         /\ \/ Section(t)' = Section(t) /\ step'[t] = step[t] + 1 /\ (Loops(t)' <=> Loops(t))
            \/ step'[t] = 1 /\ step[t] = Len(Section(t)) /\ Section(t)' \in Sections
         /\ \A u \in Members :
              /\ iteration'[u] <= CodeOf(u).times
              /\ step'[u] <= IF Loops(u)' THEN Len(CodeOf(u).body) ELSE Len(CodeOf(u).tail) + 1
  <1>1. \A u : CodeOf(u)' = CodeOf(u)
    BY StepFacts
  <1>2. ASSUME NEW u \in Members, u # t PROVE Section(u)' = Section(u) /\ (Loops(u)' <=> Loops(u))
    BY <1>1, <1>2, StepFacts DEF Section, Loops
  <1>3. /\ CodeOf(t).body \in Sections \ {<<>>} /\ CodeOf(t).tail \in Sections /\ CodeOf(t).times \in Nat \ {0}
    BY TeamFacts, CodeParts DEF Sections
  <1>4. Section(t)' \in Sections
    BY <1>1, <1>3 DEF Section
  <1>5. iteration'[t] = iteration[t] => Section(t)' = Section(t) /\ (Loops(t)' <=> Loops(t))
    BY <1>1 DEF Section, Loops
  <1>6. /\ Len(CodeOf(t).body) \in Nat /\ Len(CodeOf(t).tail) \in Nat
        /\ Len(CodeOf(t).body) >= 1
    BY <1>3, StepsDiffer DEF Sections, ReadModifyWrite, CountTwice, Locked, ReadLocked, WriteLine
  <1>7. /\ iteration[t] \in Nat /\ step[t] \in Nat \ {0} /\ iteration[t] <= CodeOf(t).times
        /\ step[t] <= IF Loops(t) THEN Len(CodeOf(t).body) ELSE Len(CodeOf(t).tail) + 1
    BY DEF SharedTypes
  <1>8. ASSUME NEW u \in Members
        PROVE  /\ iteration'[u] <= CodeOf(u).times
               /\ step'[u] <= IF Loops(u)' THEN Len(CodeOf(u).body) ELSE Len(CodeOf(u).tail) + 1
    <2>1. CASE u # t
      <3>1. /\ iteration'[u] = iteration[u] /\ step'[u] = step[u] /\ (Loops(u)' <=> Loops(u))
        BY <1>2, <2>1, StepFacts
      <3>2. /\ iteration[u] <= CodeOf(u).times
            /\ step[u] <= IF Loops(u) THEN Len(CodeOf(u).body) ELSE Len(CodeOf(u).tail) + 1
        BY DEF SharedTypes
      <3>3. QED
        BY <3>1, <3>2
    <2>2. CASE u = t
      <3>1. CASE iteration'[t] = iteration[t] /\ step'[t] = step[t] + 1
        <4>1. step[t] <= Len(Section(t)) /\ step'[t] # 1
          BY <1>7, <3>1, StepFacts
        <4>2. Loops(t) => step[t] # Len(CodeOf(t).body)
          BY <4>1, StepFacts
        <4>3. QED
          BY <1>5, <1>6, <1>7, <2>2, <3>1, <4>1, <4>2 DEF Section
      <3>2. CASE iteration'[t] = iteration[t] + 1 /\ step'[t] = 1 /\ Loops(t)
        BY <1>3, <1>6, <1>7, <2>2, <3>2 DEF Loops
      <3>3. QED
        BY <3>1, <3>2, StepFacts
    <2>3. QED
      BY <2>1, <2>2
  <1>9. QED
    BY <1>2, <1>4, <1>5, <1>8, StepFacts

(* What has been counted of it then. *)
LEMMA PassedGrows ==
  ASSUME SharedTypes, NEW t \in Members, NEW s, Takes(t, s)
  PROVE  \A u \in Members : \A r : /\ Passed(u, r) \in Nat
                                   /\ Passed(u, r)' = Passed(u, r) + IF u = t /\ r = s THEN 1 ELSE 0
  <1>1. ASSUME NEW u \in Members, NEW r PROVE Passed(u, r) \in Nat
    BY TeamFacts, TakenIs DEF Passed, SharedTypes
  <1>2. ASSUME NEW u \in Members, u # t, NEW r PROVE Passed(u, r)' = Passed(u, r)
    BY <1>2, StepFacts DEF Passed
  <1> DEFINE c == CodeOf(t)
             i == iteration[t]
             k == step[t]
             q == Section(t)
             j == IF i < c.times /\ k = Len(c.body) THEN i + 1 ELSE i
             l == IF i < c.times /\ k = Len(c.body) THEN 1 ELSE k + 1
  <1>3. /\ c \in Codes /\ i \in Nat /\ i <= c.times /\ k \in Nat \ {0} /\ q[k] = s
        /\ q = IF i < c.times THEN c.body ELSE c.tail
    BY TeamFacts, StepFacts DEF SharedTypes, Section, Loops
  <1>4. k <= Len(q)
    BY StepFacts, TeamFacts, StepsDiffer
  <1>5. iteration'[t] = j /\ step'[t] = l /\ CodeOf(t)' = c
    BY DEF Takes, Loops, SharedTypes, control, CodeOf
  <1>6. Passed(t, s) = Taken(c, i, k, s) /\ \A r : Passed(t, r) = Taken(c, i, k, r) /\ Passed(t, r)' = Taken(c, j, l, r)
    BY <1>5 DEF Passed
  <1> HIDE DEF c, i, k, q, j, l
  <1>7. /\ Taken(c, j, l, s) = Taken(c, i, k, s) + 1
        /\ \A r : r # s => Taken(c, j, l, r) = Taken(c, i, k, r)
    BY <1>3, <1>4, TakenGrows DEF j, l
  <1>8. QED
    BY <1>1, <1>2, <1>6, <1>7

-----------------------------------------------------------------------------
(* The start of a team *)

AtStart ==
  /\ program \in Programs /\ phase \in 1..Len(program)
  /\ iteration = Each(program[phase], 0) /\ step = Each(program[phase], 1)
  /\ loaded = Each(program[phase], 0) /\ local = Each(program[phase], 0)
  /\ counter \in Int /\ atomicCounter \in Int

LEMMA StartTypes == AtStart => SharedTypes
  <1> SUFFICES ASSUME AtStart PROVE SharedTypes
    OBVIOUS
  <1>1. /\ \A t \in Members : iteration[t] = 0 /\ step[t] = 1
        /\ iteration \in [Members -> Nat] /\ step \in [Members -> Nat \ {0}]
        /\ loaded \in [Members -> Int] /\ local \in [Members -> Int]
    BY DEF AtStart, Each, Members
  <1>2. IsPhase(program[phase])
    BY ProgramsAre DEF AtStart, IsProgram
  <1>3. ASSUME NEW t \in Members PROVE CodeOf(t) \in Codes
    BY <1>2, <1>3, CodesOfPhase DEF CodeOf, Members
  <1>4. ASSUME NEW t \in Members
        PROVE  iteration[t] <= CodeOf(t).times /\ Loops(t) /\ step[t] <= Len(CodeOf(t).body)
    <2>1. CodeOf(t).times \in Nat \ {0} /\ CodeOf(t).body \in Sections \ {<<>>}
      BY <1>3, CodeParts
    <2>2. Len(CodeOf(t).body) >= 1
      BY <2>1 DEF Sections, ReadModifyWrite, CountTwice, Locked, ReadLocked, WriteLine
    <2>3. QED
      BY <1>1, <2>1, <2>2 DEF Loops
  <1>5. QED
    BY <1>1, <1>4 DEF SharedTypes, AtStart

\* Nobody has taken a step yet.
Untouched == /\ \A t \in Members : /\ CodeOf(t) \in Codes /\ step[t] = 1 /\ local[t] = 0
                                   /\ \A s : Passed(t, s) = 0
             /\ \A s : Made(s) = 0

LEMMA StartFacts == AtStart => Untouched
  <1> SUFFICES ASSUME AtStart PROVE Untouched
    OBVIOUS
  <1>1. SharedTypes
    BY StartTypes
  <1>2. \A t \in Members : iteration[t] = 0 /\ step[t] = 1 /\ local[t] = 0
    BY DEF AtStart, Each, Members
  <1>3. ASSUME NEW t \in Members, NEW s PROVE Passed(t, s) = 0 /\ Worth(CodeOf(t), s) \in Int
    <2>1. CodeOf(t) \in Codes
      BY <1>1, TeamFacts
    <2>2. 0 \in Nat /\ 1 \in Nat \ {0} /\ 0 <= CodeOf(t).times
      BY <2>1, CodeParts
    <2>3. QED
      BY <1>2, <2>1, <2>2, TakenIs, WorthIs DEF Passed
  <1>4. ASSUME NEW s PROVE Made(s) = 0
    <2>1. \A t \in Members : Passed(t, s) * Worth(CodeOf(t), s) = 0
      <3>1. \A w \in Int : 0 * w = 0
        OBVIOUS
      <3>2. QED
        BY <1>3, <3>1
    <2>2. [t \in Members |-> Passed(t, s) * Worth(CodeOf(t), s)] = [t \in Members |-> 0]
      BY <2>1
    <2>3. Sum([t \in Members |-> 0]) = 0
      BY <1>1, TeamFacts, SumOfZeros
    <2>4. QED
      BY <2>2, <2>3 DEF Made
  <1>5. \A t \in Members : CodeOf(t) \in Codes
    BY <1>1, TeamFacts
  <1>6. QED
    BY <1>2, <1>3, <1>4, <1>5 DEF Untouched

(* The next team starts when nobody of the last one holds the mutex. *)
LEMMA NextStarts ==
  ASSUME SharedTypes, Exclusion, NextPhase
  PROVE  /\ owner = 0 /\ sharers = {} /\ owner' = 0 /\ sharers' = {}
         /\ AtStart'
         /\ program' = program /\ phase' = phase + 1 /\ atomicCounter' = atomicCounter
         /\ counter' = IF program[phase + 1].fresh THEN 0 ELSE counter
  <1>1. ASSUME NEW t \in Members PROVE ~LocksIt(t) /\ ~SharesIt(t)
    <2>1. step[t] > Len(Section(t)) /\ step[t] \in Nat
      BY DEF NextPhase, AllJoined, Finished, SharedTypes
    <2>2. Len(Locked) = 4 /\ Len(WriteLine) = 4 /\ Len(ReadLocked) = 4
      BY DEF Locked, WriteLine, ReadLocked
    <2>3. Section(t) \in {Locked, WriteLine, ReadLocked} => Len(Section(t)) = 4
      BY <2>2
    <2>4. Len(Section(t)) = 4 => step[t] \notin 2..4
      BY <2>1
    <2>5. QED
      BY <2>3, <2>4 DEF LocksIt, SharesIt
  <1>2. owner = 0 /\ sharers = {}
    BY <1>1 DEF Exclusion
  <1>3. /\ program' = program /\ phase' = phase + 1 /\ atomicCounter' = atomicCounter
        /\ owner' = owner /\ sharers' = sharers
        /\ counter' = IF program[phase + 1].fresh THEN 0 ELSE counter
        /\ iteration' = Each(program[phase + 1], 0) /\ step' = Each(program[phase + 1], 1)
        /\ loaded' = Each(program[phase + 1], 0) /\ local' = Each(program[phase + 1], 0)
    BY DEF NextPhase, locks, Reset
  <1>4. phase' \in 1..Len(program) /\ program' \in Programs
    <2>1. Len(program) \in Nat
      BY TeamFacts DEF IsProgram
    <2>2. QED
      BY <1>3, <2>1 DEF NextPhase, SharedTypes
  <1>5. counter' \in Int /\ atomicCounter' \in Int
    BY <1>3 DEF SharedTypes
  <1>6. /\ iteration' = Each(program[phase], 0)' /\ step' = Each(program[phase], 1)'
        /\ loaded' = Each(program[phase], 0)' /\ local' = Each(program[phase], 0)'
    BY <1>3 DEF Each
  <1>7. AtStart'
    BY <1>3, <1>4, <1>5, <1>6 DEF AtStart
  <1>8. QED
    BY <1>2, <1>3, <1>7

LEMMA InitStarts == SharedInit => AtStart /\ owner = 0 /\ sharers = {} /\ phase = 1 /\ counter = 0 /\ atomicCounter = 0
  <1> SUFFICES ASSUME SharedInit
               PROVE  AtStart /\ owner = 0 /\ sharers = {} /\ phase = 1 /\ counter = 0 /\ atomicCounter = 0
    OBVIOUS
  <1>1. 1 \in 1..Len(program)
    BY ProgramsAre DEF SharedInit, IsProgram
  <1>2. QED
    BY <1>1 DEF SharedInit, AtStart

(* At the start nobody is in a critical section. *)
LEMMA StartExcludes == AtStart /\ owner = 0 /\ sharers = {} => Exclusion /\ StillThere
  <1> SUFFICES ASSUME AtStart, owner = 0, sharers = {} PROVE Exclusion /\ StillThere
    OBVIOUS
  <1>1. \A t \in Members : step[t] = 1
    BY StartFacts DEF Untouched
  <1>2. \A t \in Members : ~LocksIt(t) /\ ~SharesIt(t) /\ t # 0
    BY <1>1, StartTypes, TeamFacts DEF LocksIt, SharesIt
  <1>3. QED
    BY <1>1, <1>2 DEF Exclusion, StillThere

-----------------------------------------------------------------------------
(* Mutual exclusion *)

(* A step leaves types as they are. *)
LEMMA MemberTypes ==
  ASSUME SharedTypes, NEW t \in Members, Member(t)
  PROVE  SharedTypes'
  <1>1. PICK s : Takes(t, s)
    BY DEF Member, Lock, LockShared, Unlock, UnlockShared, LoadCounter, StoreCounter, FetchAdd,
           Accumulate, Use
  <1>2. /\ program' = program /\ phase' = phase /\ Members' = Members
        /\ iteration' \in [Members -> Nat] /\ step' \in [Members -> Nat \ {0}]
        /\ \A u : CodeOf(u)' = CodeOf(u)
    BY <1>1, StepFacts
  <1>3. \A u \in Members :
          /\ iteration'[u] <= CodeOf(u).times
          /\ step'[u] <= IF Loops(u)' THEN Len(CodeOf(u).body) ELSE Len(CodeOf(u).tail) + 1
    BY <1>1, SectionFacts
  <1>4. CodeOf(t).amount \in Int
    BY TeamFacts, CodeParts
  <1>5. /\ loaded \in [Members -> Int] /\ local \in [Members -> Int]
        /\ counter \in Int /\ atomicCounter \in Int
    BY DEF SharedTypes
  <1>6. /\ loaded' \in [Members -> Int] /\ local' \in [Members -> Int]
        /\ counter' \in Int /\ atomicCounter' \in Int
    <2>1. CASE LoadCounter(t)
      BY <1>5, <2>1 DEF LoadCounter, data
    <2>2. CASE StoreCounter(t)
      BY <1>4, <1>5, <2>2 DEF StoreCounter, Addend, private
    <2>3. CASE FetchAdd(t)
      BY <1>4, <1>5, <2>3 DEF FetchAdd
    <2>4. CASE Accumulate(t)
      BY <1>4, <1>5, <2>4 DEF Accumulate, data
    <2>5. CASE Lock(t) \/ LockShared(t) \/ Unlock(t) \/ UnlockShared(t) \/ Use(t)
      BY <1>5, <2>5 DEF Lock, LockShared, Unlock, UnlockShared, Use, data, private
    <2>6. QED
      BY <2>1, <2>2, <2>3, <2>4, <2>5 DEF Member
  <1>7. program \in Programs /\ phase \in 1..Len(program)
    BY DEF SharedTypes
  <1>8. QED
    BY <1>2, <1>3, <1>6, <1>7 DEF SharedTypes

(* Which steps enter and leave a critical section, and what is done in one only. *)
LEMMA Positions ==
  ASSUME SharedTypes, NEW t \in Members, NEW s, Takes(t, s)
  PROVE  /\ LocksIt(t)' <=> s = "lock" \/ (LocksIt(t) /\ s # "unlock")
         /\ SharesIt(t)' <=> s = "lockShared" \/ (SharesIt(t) /\ s # "unlockShared")
         /\ s = "lock" => ~LocksIt(t) /\ ~SharesIt(t)
         /\ s = "lockShared" => ~LocksIt(t) /\ ~SharesIt(t)
         /\ s = "unlock" => LocksIt(t)
         /\ s = "unlockShared" => SharesIt(t)
         /\ \A u \in Members : u # t => (LocksIt(u)' <=> LocksIt(u)) /\ (SharesIt(u)' <=> SharesIt(u))
  <1> DEFINE q == Section(t)
             k == step[t]
  <1>1. q \in Sections /\ k \in 1..Len(q) /\ q[k] = s /\ Len(q) \in Nat
    BY StepFacts, TeamFacts, StepsDiffer
  <1>2. Len(Locked) = 4 /\ Len(WriteLine) = 4 /\ Len(ReadLocked) = 4
    BY DEF Locked, WriteLine, ReadLocked
  <1>3. LocksIt(t) <=> q \in {Locked, WriteLine} /\ k \in 2..4
    BY DEF LocksIt
  <1>4. SharesIt(t) <=> q = ReadLocked /\ k \in 2..4
    BY DEF SharesIt
  <1>5. /\ s = "lock" <=> q \in {Locked, WriteLine} /\ k = 1
        /\ s = "unlock" <=> q \in {Locked, WriteLine} /\ k = 4
        /\ s = "lockShared" <=> q = ReadLocked /\ k = 1
        /\ s = "unlockShared" <=> q = ReadLocked /\ k = 4
    BY <1>1, StepsOccur
  <1>6. Locked # ReadLocked /\ WriteLine # ReadLocked
    BY DEF Locked, WriteLine, ReadLocked
  <1>7. \A u \in Members : u # t => (LocksIt(u)' <=> LocksIt(u)) /\ (SharesIt(u)' <=> SharesIt(u))
    BY SectionFacts, StepFacts DEF LocksIt, SharesIt
  <1>8. CASE Section(t)' = q /\ step'[t] = k + 1
    <2>1. (LocksIt(t)' <=> q \in {Locked, WriteLine} /\ k + 1 \in 2..4) /\ (SharesIt(t)' <=> q = ReadLocked /\ k + 1 \in 2..4)
      BY <1>8 DEF LocksIt, SharesIt
    <2> HIDE DEF q, k
    <2>2. k \in Nat \ {0} /\ k <= Len(q)
      BY <1>1
    <2>3. q \in {Locked, WriteLine, ReadLocked} => k \in 1..4 /\ (k + 1 \in 2..4 <=> k # 4)
      BY <1>1, <1>2, <2>2
    <2>4. LocksIt(t)' <=> s = "lock" \/ (LocksIt(t) /\ s # "unlock")
      BY <1>3, <1>5, <2>1, <2>3
    <2>5. SharesIt(t)' <=> s = "lockShared" \/ (SharesIt(t) /\ s # "unlockShared")
      BY <1>4, <1>5, <2>1, <2>3
    <2>6. QED
      BY <1>3, <1>4, <1>5, <1>6, <1>7, <2>4, <2>5
  <1>9. CASE step'[t] = 1 /\ k = Len(q)
    <2>1. ~LocksIt(t)' /\ ~SharesIt(t)'
      BY <1>9 DEF LocksIt, SharesIt
    <2> HIDE DEF q, k
    <2>2. q \in {Locked, WriteLine, ReadLocked} => k = 4
      BY <1>2, <1>9
    <2>3. QED
      BY <1>3, <1>4, <1>5, <1>6, <1>7, <2>1, <2>2
  <1>10. QED
    BY <1>8, <1>9, SectionFacts

(* Every step of a thread preserves the exclusion. *)
LEMMA MemberExclusion ==
  ASSUME SharedTypes, Exclusion, NEW t \in Members, Member(t)
  PROVE  Exclusion'
  <1>1. t # 0 /\ t \in Nat
    BY TeamFacts
  <1>2. /\ owner \in Members \cup {0} /\ sharers \subseteq Members
        /\ \A u \in Members : (owner = u <=> LocksIt(u)) /\ (u \in sharers <=> SharesIt(u))
        /\ owner # 0 => sharers = {}
    BY DEF Exclusion
  <1>3. ASSUME NEW s, Takes(t, s)
        PROVE  /\ Members' = Members
               /\ LocksIt(t)' <=> s = "lock" \/ (LocksIt(t) /\ s # "unlock")
               /\ SharesIt(t)' <=> s = "lockShared" \/ (SharesIt(t) /\ s # "unlockShared")
               /\ s = "unlock" => LocksIt(t)
               /\ \A u \in Members : u # t => (LocksIt(u)' <=> LocksIt(u)) /\ (SharesIt(u)' <=> SharesIt(u))
    BY <1>3, Positions, StepFacts
  <1>4. CASE Lock(t)
    <2>1. Takes(t, "lock") /\ owner = 0 /\ sharers = {} /\ owner' = t /\ sharers' = sharers
      BY <1>4 DEF Lock
    <2>2. /\ Members' = Members /\ LocksIt(t)' /\ (SharesIt(t)' <=> SharesIt(t))
          /\ \A u \in Members : u # t => (LocksIt(u)' <=> LocksIt(u)) /\ (SharesIt(u)' <=> SharesIt(u))
      BY <1>3, <2>1
    <2>3. \A u \in Members : ~LocksIt(u) /\ ~SharesIt(u)
      BY <1>2, <2>1, TeamFacts
    <2>4. \A u \in Members : (owner' = u <=> LocksIt(u)') /\ (u \in sharers' <=> SharesIt(u)')
      BY <2>1, <2>2, <2>3
    <2>5. QED
      BY <2>1, <2>2, <2>4 DEF Exclusion
  <1>5. CASE LockShared(t)
    <2>1. Takes(t, "lockShared") /\ owner = 0 /\ owner' = owner /\ sharers' = sharers \cup {t}
      BY <1>5 DEF LockShared
    <2>2. QED
      BY <1>1, <1>2, <1>3, <2>1 DEF Exclusion
  <1>6. CASE Unlock(t)
    <2>1. Takes(t, "unlock") /\ owner' = 0 /\ sharers' = sharers
      BY <1>6 DEF Unlock
    <2>2. owner = t
      BY <1>2, <1>3, <2>1
    <2>3. \A u \in Members : u # 0
      BY TeamFacts
    <2>4. /\ Members' = Members /\ ~LocksIt(t)' /\ (SharesIt(t)' <=> SharesIt(t))
          /\ \A u \in Members : u # t => (LocksIt(u)' <=> LocksIt(u)) /\ (SharesIt(u)' <=> SharesIt(u))
      BY <1>3, <2>1
    <2>5. \A u \in Members : (owner' = u <=> LocksIt(u)') /\ (u \in sharers' <=> SharesIt(u)')
      BY <1>2, <2>1, <2>2, <2>3, <2>4
    <2>6. QED
      BY <1>2, <2>1, <2>4, <2>5 DEF Exclusion
  <1>7. CASE UnlockShared(t)
    <2>1. Takes(t, "unlockShared") /\ owner' = owner /\ sharers' = sharers \ {t}
      BY <1>7 DEF UnlockShared
    <2>2. /\ Members' = Members /\ (LocksIt(t)' <=> LocksIt(t)) /\ ~SharesIt(t)'
          /\ \A u \in Members : u # t => (LocksIt(u)' <=> LocksIt(u)) /\ (SharesIt(u)' <=> SharesIt(u))
      BY <1>3, <2>1
    <2>3. \A u \in Members : (owner' = u <=> LocksIt(u)') /\ (u \in sharers' <=> SharesIt(u)')
      BY <1>2, <2>1, <2>2
    <2>4. QED
      BY <1>2, <2>1, <2>2, <2>3 DEF Exclusion
  <1>8. CASE LoadCounter(t) \/ StoreCounter(t) \/ FetchAdd(t) \/ Accumulate(t) \/ Use(t)
    <2>1. /\ \E s \in {"load", "store", "add", "rest", "local", "use"} : Takes(t, s)
          /\ owner' = owner /\ sharers' = sharers
      BY <1>8 DEF LoadCounter, StoreCounter, FetchAdd, Accumulate, Use, locks
    <2>2. QED
      BY <1>2, <1>3, <2>1 DEF Exclusion
  <1>9. QED
    BY <1>4, <1>5, <1>6, <1>7, <1>8 DEF Member

(* Who races runs sections without locks, and who writes lines under the lock does it in a
   team in which all do. *)
LEMMA OneKind ==
  ASSUME SharedTypes, NEW t \in Members
  PROVE  /\ CodeOf(t) \in Racing <=> Races(program[phase])
         /\ Section(t) \in {ReadModifyWrite, CountTwice} => Races(program[phase])
         /\ Races(program[phase]) => Section(t) \in {ReadModifyWrite, CountTwice, <<"local">>, <<>>}
         /\ Section(t) = WriteLine => WritesLines(program[phase])
         /\ WritesLines(program[phase]) => Section(t) \in {WriteLine, <<>>}
  <1> USE DEF Code
  <1>1. IsPhase(program[phase]) /\ CodeOf(t) \in Codes
    BY TeamFacts
  <1>2. Section(t) = CodeOf(t).body \/ Section(t) = CodeOf(t).tail
    BY DEF Section
  <1>3. Races(program[phase]) => CodeOf(t) \in Racing
    <2>1. CASE CountsFreely(program[phase])
      BY <2>1 DEF CountsFreely, Counting, CodeOf, Members
    <2>2. CASE SavesFreely(program[phase])
      <3>1. DOMAIN Pot = 1..2 /\ Pot[1] \in Racing /\ Pot[2] \in Racing
        BY DEF Pot, Racing
      <3>2. CodeOf(t) = Pot[t] /\ (t = 1 \/ t = 2)
        BY <2>2, <3>1 DEF SavesFreely, CodeOf, Members
      <3>3. QED
        BY <3>1, <3>2
    <2>3. QED
      BY <2>1, <2>2 DEF Races
  <1>4. ~Races(program[phase]) => CodeOf(t) \in Locking \cup {Atomic(1), Line, ProtectedLine}
    BY <1>1 DEF IsPhase, UsesLock, AddsOnly, WritesLines, CodeOf, Members
  <1>5. CodeOf(t) \in Racing <=> Races(program[phase])
    BY <1>3, <1>4, KindsDiffer
  <1>6. CodeOf(t) \in Racing => Section(t) \in {ReadModifyWrite, CountTwice, <<"local">>, <<>>}
    BY <1>2 DEF Racing, Unprotected, Hoisted
  <1>7. CodeOf(t) \in Locking \cup {Atomic(1), Line, ProtectedLine} => Section(t) \notin {ReadModifyWrite, CountTwice}
    <2>1. CodeOf(t) \in Locking \cup {Atomic(1), Line, ProtectedLine} =>
            Section(t) \in {Locked, ReadLocked, <<"local">>, <<"add">>, <<"add", "rest">>, WriteLine, <<>>}
      BY <1>2 DEF Locking, HeavyLock, Optimized, Reader, Writer, Atomic, Line, ProtectedLine, WriteLine
    <2>2. QED
      BY <2>1 DEF ReadModifyWrite, CountTwice, Locked, ReadLocked, WriteLine
  <1>8. Section(t) = WriteLine => WritesLines(program[phase])
    <2>1. WriteLine \notin {ReadModifyWrite, CountTwice, Locked, ReadLocked, <<"local">>, <<"add">>, <<"add", "rest">>, <<>>}
      BY DEF ReadModifyWrite, CountTwice, Locked, ReadLocked, WriteLine
    <2>2. CodeOf(t) \in Locking \cup {Atomic(1), Line} =>
            Section(t) \in {Locked, ReadLocked, <<"local">>, <<"add">>, <<"add", "rest">>, <<>>}
      BY <1>2 DEF Locking, HeavyLock, Optimized, Reader, Writer, Atomic, Line
    <2>3. Section(t) = WriteLine => ~Races(program[phase]) /\ CodeOf(t) \notin Locking \cup {Atomic(1), Line}
      BY <1>3, <1>6, <2>1, <2>2
    <2>4. QED
      BY <1>1, <2>3 DEF IsPhase, UsesLock, AddsOnly, CodeOf, Members
  <1>9. WritesLines(program[phase]) => Section(t) \in {WriteLine, <<>>}
    <2>1. WritesLines(program[phase]) => CodeOf(t) = ProtectedLine
      BY DEF WritesLines, CodeOf, Members
    <2>2. ProtectedLine.body = WriteLine /\ ProtectedLine.tail = <<>>
      BY DEF ProtectedLine, WriteLine
    <2>3. QED
      BY <1>2, <2>1, <2>2
  <1>10. QED
    BY <1>4, <1>5, <1>6, <1>7, <1>8, <1>9

(* Every step of a thread leaves to the others what they read under the lock. *)
LEMMA MemberStillThere ==
  ASSUME SharedTypes, Exclusion, StillThere, NEW t \in Members, Member(t)
  PROVE  StillThere'
  <1>1. PICK s : Takes(t, s)
    BY DEF Member, Lock, LockShared, Unlock, UnlockShared, LoadCounter, StoreCounter, FetchAdd,
           Accumulate, Use
  <1>2. /\ Members' = Members /\ t # 0
        /\ \A u \in Members : u # t => step'[u] = step[u] /\ Section(u)' = Section(u)
        /\ Section(t) \in Sections /\ step[t] \in 1..Len(Section(t))
    BY <1>1, StepFacts, SectionFacts, TeamFacts
  <1>3. loaded \in [Members -> Int]
    BY DEF SharedTypes
  <1>4. /\ \A u \in Members : u # t => loaded'[u] = loaded[u]
        /\ StoreCounter(t) \/ counter' = counter
        /\ FetchAdd(t) \/ atomicCounter' = atomicCounter
    BY <1>3 DEF Member, Lock, LockShared, Unlock, UnlockShared, LoadCounter, StoreCounter, FetchAdd,
           Accumulate, Use, data, private
  <1>5. ASSUME NEW u \in Members, u # t, step[u] = 3
        PROVE  /\ Section(u) \in {Locked, ReadLocked} => loaded'[u] = counter'
               /\ Section(u) = WriteLine => loaded'[u] = atomicCounter'
    <2>1. /\ Section(u) \in {Locked, ReadLocked} => loaded[u] = counter
          /\ Section(u) = WriteLine => loaded[u] = atomicCounter
      BY <1>5 DEF StillThere
    <2>2. owner = t => Section(u) \notin {Locked, ReadLocked, WriteLine}
      BY <1>2, <1>5 DEF Exclusion, LocksIt, SharesIt
    <2>3. CASE StoreCounter(t)
      <3>1. \/ Section(t) \in {ReadModifyWrite, CountTwice}
            \/ Section(t) = Locked /\ step[t] = 3
        BY <1>2, <2>3, StepFacts, StepsOccur DEF StoreCounter
      <3>2. atomicCounter' = atomicCounter
        BY <2>3 DEF StoreCounter
      <3>3. CASE Section(t) \in {ReadModifyWrite, CountTwice}
        <4>1. Section(u) \in {ReadModifyWrite, CountTwice, <<"local">>, <<>>}
          BY <3>3, OneKind
        <4>2. Section(u) \notin {Locked, ReadLocked, WriteLine}
          BY <4>1 DEF ReadModifyWrite, CountTwice, Locked, ReadLocked, WriteLine
        <4>3. QED
          BY <4>2
      <3>4. CASE Section(t) = Locked /\ step[t] = 3
        <4>1. LocksIt(t)
          BY <3>4 DEF LocksIt
        <4>2. QED
          BY <2>2, <4>1 DEF Exclusion
      <3>5. QED
        BY <3>1, <3>3, <3>4
    <2>4. CASE FetchAdd(t)
      <3>1. counter' = counter
        BY <2>4 DEF FetchAdd
      <3>2. CASE Section(t) = WriteLine
        <4>1. step[t] \in {2, 3}
          <5>1. Section(t)[step[t]] \in {"add", "rest"}
            BY <2>4, StepFacts DEF FetchAdd
          <5>2. \A q : q = WriteLine => q \notin {<<"add">>, <<"add", "rest">>, CountTwice}
            BY DEF WriteLine, CountTwice
          <5>3. QED
            BY <1>2, <3>2, <5>1, <5>2, StepsOccur
        <4>2. LocksIt(t)
          BY <3>2, <4>1 DEF LocksIt
        <4>3. QED
          BY <2>2, <4>2 DEF Exclusion
      <3>3. CASE Section(t) # WriteLine
        <4>1. Section(t) # <<>>
          BY <1>2
        <4>2. Section(u) # WriteLine
          BY <3>3, <4>1, OneKind
        <4>3. QED
          BY <1>4, <1>5, <2>1, <3>1, <4>2
      <3>4. QED
        BY <3>2, <3>3
    <2>5. CASE ~StoreCounter(t) /\ ~FetchAdd(t)
      BY <1>4, <1>5, <2>1, <2>5
    <2>6. QED
      BY <2>3, <2>4, <2>5
  <1>6. ASSUME step'[t] = 3
        PROVE  /\ Section(t)' \in {Locked, ReadLocked} => loaded'[t] = counter'
               /\ Section(t)' = WriteLine => loaded'[t] = atomicCounter'
    <2>1. Section(t)' = Section(t) /\ step[t] = 2 /\ Section(t)[2] = s
      <3>1. step[t] \in Nat
        BY DEF SharedTypes
      <3>2. Section(t)' = Section(t) /\ step'[t] = step[t] + 1
        BY <1>1, <1>6, SectionFacts
      <3>3. step[t] = 2
        BY <1>6, <3>1, <3>2
      <3>4. QED
        BY <1>1, <3>2, <3>3, StepFacts
    <2>2. Section(t) \in {Locked, ReadLocked} => s = "load"
      BY <1>2, <2>1, StepsOccur
    <2>3. Section(t) = WriteLine => s = "add"
      BY <1>2, <2>1, StepsOccur
    <2>4. CASE s = "load"
      <3>1. LoadCounter(t)
        BY <1>1, <2>4 DEF Member, Lock, LockShared, Unlock, UnlockShared, StoreCounter, FetchAdd,
               Accumulate, Use, Takes
      <3>2. loaded'[t] = counter' /\ Section(t) # WriteLine
        BY <1>3, <2>3, <2>4, <3>1 DEF LoadCounter, data
      <3>3. QED
        BY <2>1, <3>2
    <2>5. CASE s = "add"
      <3>1. FetchAdd(t)
        BY <1>1, <2>5 DEF Member, Lock, LockShared, Unlock, UnlockShared, StoreCounter, LoadCounter,
               Accumulate, Use, Takes
      <3>2. loaded'[t] = atomicCounter' /\ Section(t) \notin {Locked, ReadLocked}
        BY <1>3, <2>2, <2>5, <3>1 DEF FetchAdd
      <3>3. QED
        BY <2>1, <3>2
    <2>6. QED
      BY <2>1, <2>2, <2>3, <2>4, <2>5
  <1>7. QED
    BY <1>2, <1>5, <1>6 DEF StillThere

-----------------------------------------------------------------------------
(* The books *)

(* What a step of a thread adds to a sum. *)
LEMMA MadeGrows ==
  ASSUME SharedTypes, NEW t \in Members, NEW s, Takes(t, s)
  PROVE  \A r : Made(r) \in Int /\ Made(r)' = Made(r) + IF r = s THEN Worth(CodeOf(t), s) ELSE 0
  <1> SUFFICES ASSUME NEW r
               PROVE  Made(r) \in Int /\ Made(r)' = Made(r) + IF r = s THEN Worth(CodeOf(t), s) ELSE 0
    OBVIOUS
  <1>1. \A u \in Members : /\ Passed(u, r) \in Nat /\ Worth(CodeOf(u), r) \in Int
                           /\ Passed(u, r)' = Passed(u, r) + IF u = t /\ r = s THEN 1 ELSE 0
    <2>1. \A u \in Members : CodeOf(u) \in Codes
      BY TeamFacts
    <2>2. QED
      BY <2>1, WorthIs, PassedGrows
  <1>2. Members' = Members /\ \A u : CodeOf(u)' = CodeOf(u)
    BY StepFacts
  <1>3. PICK f : f = [u \in Members |-> Passed(u, r) * Worth(CodeOf(u), r)]
    OBVIOUS
  <1>4. PICK g : g = [u \in Members |-> (Passed(u, r) + IF u = t /\ r = s THEN 1 ELSE 0) * Worth(CodeOf(u), r)]
    OBVIOUS
  <1>5. PICK S : S = Members
    OBVIOUS
  <1>6. ASSUME NEW u \in S PROVE Worth(CodeOf(u), r)' = Worth(CodeOf(u), r)
    BY <1>2 DEF Worth
  <1>7. Made(r) = Sum(f) /\ Made(r)' = Sum(g)
    <2>1. Made(r)' = Sum([u \in S |-> Passed(u, r)' * Worth(CodeOf(u), r)'])
      BY <1>2, <1>5 DEF Made
    <2>2. [u \in S |-> Passed(u, r)' * Worth(CodeOf(u), r)'] = g
      BY <1>1, <1>4, <1>5, <1>6
    <2>3. QED
      BY <1>3, <2>1, <2>2 DEF Made
  <1>8. /\ f \in [S -> Int] /\ g \in [S -> Int]
    BY <1>1, <1>3, <1>4, <1>5
  <1>9. IsFiniteSet(S) /\ t \in S
    BY <1>5, TeamFacts
  <1>10. \A u \in S : u # t => g[u] = f[u]
    BY <1>1, <1>3, <1>4, <1>5
  <1>11. g[t] - f[t] = IF r = s THEN Worth(CodeOf(t), s) ELSE 0
    <2>1. \A a, b \in Int : (a + 1) * b - a * b = b
      OBVIOUS
    <2>2. \A a, b \in Int : (a + 0) * b - a * b = 0
      OBVIOUS
    <2>3. Passed(t, r) \in Int /\ Worth(CodeOf(t), r) \in Int
      BY <1>1
    <2>4. /\ f[t] = Passed(t, r) * Worth(CodeOf(t), r)
          /\ g[t] = (Passed(t, r) + IF r = s THEN 1 ELSE 0) * Worth(CodeOf(t), r)
      BY <1>3, <1>4
    <2>5. CASE r = s
      BY <2>1, <2>3, <2>4, <2>5
    <2>6. CASE r # s
      BY <2>2, <2>3, <2>4, <2>6
    <2>7. QED
      BY <2>5, <2>6
  <1>12. QED
    BY <1>7, <1>8, <1>9, <1>10, <1>11, SumChanges

(* What is stored is what the step is worth. *)
LEMMA AddendIs ==
  ASSUME SharedTypes, Books, NEW t \in Members, Takes(t, "store")
  PROVE  Addend(t) = Worth(CodeOf(t), "store")
  <1> DEFINE c == CodeOf(t)
             k == step[t]
  <1>1. /\ c \in Codes /\ c.times \in Nat \ {0} /\ c.amount \in Int
        /\ c.body \in Sections /\ c.tail \in Sections /\ (c.tail # <<>> => c.body = <<"local">>)
    BY TeamFacts, CodeParts DEF Sections
  <1>2. k \in 1..Len(Section(t)) /\ Section(t)[k] = "store"
    BY StepFacts
  <1>3. CASE Loops(t)
    <2>1. Section(t) = c.body
      BY <1>3 DEF Section
    <2>2. Precedes(c.body, Len(c.body) + 1, "store")
      <3>1. k \in 1..Len(c.body) /\ c.body[k] = "store"
        BY <1>2, <2>1
      <3>2. QED
        BY <1>1, <3>1, PrecedesAll, Zenon
    <2>3. QED
      BY <1>3, <2>2 DEF Worth, Addend
  <1>4. CASE ~Loops(t)
    <2>1. Section(t) = c.tail
      BY <1>4 DEF Section
    <2>2. ~Precedes(c.body, Len(c.body) + 1, "store")
      BY <1>1, <1>2, <2>1, InOneSection
    <2>3. c.body = <<"local">>
      <3>1. Len(<<>>) = 0 /\ 1..0 = {}
        OBVIOUS
      <3>2. c.tail # <<>>
        BY <1>2, <2>1, <3>1
      <3>3. QED
        BY <1>1, <3>2
    <2>4. Precedes(c.body, Len(c.body) + 1, "local")
      <3>1. Len(c.body) = 1 /\ c.body[1] = "local"
        BY <2>3
      <3>2. 1 \in 1..Len(c.body)
        BY <3>1
      <3>3. QED
        BY <1>1, <3>1, <3>2, PrecedesAll, Zenon
    <2>5. iteration[t] = c.times
      <3>1. iteration[t] \in Nat /\ iteration[t] <= c.times /\ ~(iteration[t] < c.times)
        BY <1>4 DEF SharedTypes, Loops
      <3>2. QED
        BY <1>1, <3>1
    <2>6. Passed(t, "local") = c.times
      BY <1>1, <2>4, <2>5 DEF Passed, Taken
    <2>7. local[t] = c.times * c.amount
      BY <2>6 DEF Books
    <2>8. QED
      BY <1>4, <2>2, <2>7 DEF Worth, Addend
  <1>5. QED
    BY <1>3, <1>4

LEMMA AmountIs ==
  ASSUME SharedTypes, NEW t \in Members, NEW s \in {"add", "rest"}, Takes(t, s)
  PROVE  CodeOf(t).amount = Worth(CodeOf(t), s)
  <1> DEFINE c == CodeOf(t)
             k == step[t]
  <1>1. c.body \in Sections /\ c.tail \in {<<>>, ReadModifyWrite, Locked} /\ Section(t) \in Sections
    BY TeamFacts, CodeParts
  <1>2. k \in 1..Len(Section(t)) /\ Section(t)[k] = s
    BY StepFacts
  <1>3. Section(t) \in {<<"add">>, <<"add", "rest">>, WriteLine, CountTwice}
    BY <1>1, <1>2, StepsOccur
  <1>4. \A q \in {<<"add">>, <<"add", "rest">>, WriteLine, CountTwice} : q \notin {<<>>, ReadModifyWrite, Locked}
    <2>1. <<"add">> \notin {<<>>, ReadModifyWrite, Locked}
      BY DEF ReadModifyWrite, Locked
    <2>2. <<"add", "rest">> \notin {<<>>, ReadModifyWrite, Locked}
      BY DEF ReadModifyWrite, Locked
    <2>3. WriteLine \notin {<<>>, ReadModifyWrite, Locked}
      BY DEF WriteLine, ReadModifyWrite, Locked
    <2>4. CountTwice \notin {<<>>, ReadModifyWrite, Locked}
      BY DEF CountTwice, ReadModifyWrite, Locked
    <2>5. QED
      BY <2>1, <2>2, <2>3, <2>4
  <1>5. Section(t) = c.body
    BY <1>1, <1>3, <1>4 DEF Section
  <1>6. Precedes(c.body, Len(c.body) + 1, s)
    <2>1. k \in 1..Len(c.body) /\ c.body[k] = s
      BY <1>2, <1>5
    <2>2. QED
      BY <1>1, <2>1, PrecedesAll, Zenon
  <1>7. QED
    BY <1>6 DEF Worth

(* What the phases add up to. *)
LEMMA PhaseTotalIs ==
  ASSUME SharedTypes, NEW p \in DOMAIN program, NEW s
  PROVE  PhaseTotal(p, s) \in Int
  <1> DEFINE team == program[p].team
             f == [t \in DOMAIN team |-> IF Has(team[t], s) THEN team[t].times * team[t].amount ELSE 0]
  <1>1. IsPhase(program[p])
    BY TeamFacts DEF IsProgram
  <1>2. PICK n \in Nat \ {0} : DOMAIN team = 1..n
    BY <1>1 DEF IsPhase
  <1>3. IsFiniteSet(DOMAIN team) /\ 1 \in DOMAIN team
    BY <1>2, FS_Interval
  <1>4. ASSUME NEW t \in DOMAIN team PROVE team[t].times * team[t].amount \in Int
    <2>1. team[t] \in Codes
      BY <1>1, CodesOfPhase
    <2>2. team[t].times \in Int /\ team[t].amount \in Int
      BY <2>1, CodeParts
    <2>3. QED
      BY <2>2
  <1>5. f \in [DOMAIN team -> Int]
    BY <1>4
  <1>6. PhaseTotal(p, s) = Sum(f)
    BY DEF PhaseTotal
  <1> HIDE DEF f, team
  <1>7. QED
    BY <1>3, <1>5, <1>6, SumChanges

LEMMA TotalIs ==
  ASSUME SharedTypes, NEW s
  PROVE  /\ Before(s) \in Int /\ Total(s) = Before(s) + PhaseTotal(phase, s)
  <1> DEFINE S == DOMAIN program
             f == [p \in S |-> IF p # phase /\ Counts(p, s) THEN PhaseTotal(p, s) ELSE 0]
             g == [p \in S |-> IF Counts(p, s) THEN PhaseTotal(p, s) ELSE 0]
  <1>1. IsFiniteSet(S) /\ phase \in S /\ phase \in Nat
    <2>1. Len(program) \in Nat /\ S = 1..Len(program)
      BY TeamFacts DEF IsProgram
    <2>2. QED
      BY <2>1, TeamFacts, FS_Interval
  <1>2. Counts(phase, s)
    BY <1>1 DEF Counts
  <1>3. \A p \in S : PhaseTotal(p, s) \in Int
    BY PhaseTotalIs
  <1>4. f \in [S -> Int] /\ g \in [S -> Int]
    BY <1>3
  <1>5. f[phase] = 0 /\ g[phase] = PhaseTotal(phase, s) /\ \A p \in S : p # phase => g[p] = f[p]
    BY <1>1, <1>2
  <1>6. Before(s) = Sum(f) /\ Total(s) = Sum(g)
    BY DEF Before, Total
  <1> HIDE DEF S, f, g
  <1>7. /\ Sum(f) \in Int /\ Sum(g) = Sum(f) + (g[phase] - f[phase])
    BY <1>1, <1>4, <1>5, SumChanges
  <1>8. PhaseTotal(phase, s) \in Int
    BY <1>1, <1>3
  <1>9. QED
    BY <1>5, <1>6, <1>7, <1>8

(* Every step of a thread is booked. *)
LEMMA MemberBooks ==
  ASSUME SharedTypes, StillThere, Books, NEW t \in Members, Member(t)
  PROVE  Books'
  <1>1. PICK s : Takes(t, s)
    BY DEF Member, Lock, LockShared, Unlock, UnlockShared, LoadCounter, StoreCounter, FetchAdd,
           Accumulate, Use
  <1>2. /\ Members' = Members /\ program' = program /\ phase' = phase
        /\ \A u : CodeOf(u)' = CodeOf(u)
    BY <1>1, StepFacts
  <1>3. \A r : Before(r)' = Before(r)
    BY <1>2 DEF Before, Counts, PhaseTotal
  <1>4. local \in [Members -> Int] /\ counter \in Int /\ atomicCounter \in Int
    BY DEF SharedTypes
  <1>5. CodeOf(t) \in Codes /\ CodeOf(t).amount \in Int
    BY TeamFacts, CodeParts
  <1>6. \A r : /\ Before(r) \in Int /\ Made(r) \in Int
               /\ Made(r)' = Made(r) + IF r = s THEN Worth(CodeOf(t), s) ELSE 0
    BY <1>1, MadeGrows, TotalIs
  <1>7. \A u \in Members : \A r : /\ Passed(u, r) \in Nat
                                  /\ Passed(u, r)' = Passed(u, r) + IF u = t /\ r = s THEN 1 ELSE 0
    BY <1>1, PassedGrows
  <1>8. /\ \A u \in Members : local[u] = Passed(u, "local") * CodeOf(u).amount
        /\ ~Races(program[phase]) => counter = Before("store") + Made("store")
        /\ atomicCounter = (Before("add") + Made("add")) + (Before("rest") + Made("rest"))
    BY DEF Books
  <1>9. \A a, b \in Int : (a + 0) * b = a * b /\ (a + 1) * b = a * b + b
    OBVIOUS
  <1>10. \A u \in Members : local'[u] = Passed(u, "local")' * CodeOf(u).amount
    <2>1. ASSUME NEW u \in Members
          PROVE  local'[u] = local[u] + IF u = t /\ s = "local" THEN CodeOf(t).amount ELSE 0
      <3>1. CASE Accumulate(t)
        <4>1. s = "local" /\ local' = [local EXCEPT ![t] = @ + CodeOf(t).amount]
          BY <1>1, <3>1 DEF Accumulate, Takes
        <4>2. QED
          BY <1>4, <1>5, <4>1
      <3>2. CASE ~Accumulate(t)
        <4>1. s # "local" /\ local' = local
          BY <1>1, <3>2 DEF Member, Lock, LockShared, Unlock, UnlockShared, LoadCounter,
                 StoreCounter, FetchAdd, Use, Takes, private
        <4>2. QED
          BY <1>4, <4>1
      <3>3. QED
        BY <3>1, <3>2
    <2>2. ASSUME NEW u \in Members PROVE local'[u] = Passed(u, "local")' * CodeOf(u).amount
      <3>1. CodeOf(u).amount \in Int
        BY TeamFacts, CodeParts
      <3>2. /\ Passed(u, "local") \in Int
            /\ Passed(u, "local")' = Passed(u, "local") + IF u = t /\ s = "local" THEN 1 ELSE 0
        BY <1>7
      <3>3. local[u] = Passed(u, "local") * CodeOf(u).amount /\ local[u] \in Int
        BY <1>4, <1>8
      <3>4. CASE u = t /\ s = "local"
        <4>1. Passed(u, "local")' = Passed(u, "local") + 1 /\ local'[u] = local[u] + CodeOf(u).amount
          BY <2>1, <3>2, <3>4
        <4>2. QED
          <5>1. (Passed(u, "local") + 1) * CodeOf(u).amount = Passed(u, "local") * CodeOf(u).amount + CodeOf(u).amount
            BY <1>9, <3>1, <3>2
          <5>2. QED
            BY <3>3, <4>1, <5>1
      <3>5. CASE ~(u = t /\ s = "local")
        <4>1. Passed(u, "local")' = Passed(u, "local") /\ local'[u] = local[u]
          BY <2>1, <3>2, <3>3, <3>5
        <4>2. QED
          BY <3>3, <4>1
      <3>6. QED
        BY <3>4, <3>5
    <2>3. QED
      BY <2>2
  <1>11. ~Races(program[phase]) => counter' = Before("store")' + Made("store")'
    <2> SUFFICES ASSUME ~Races(program[phase]) PROVE counter' = Before("store") + Made("store")'
      BY <1>3
    <2>1. counter = Before("store") + Made("store") /\ Before("store") \in Int /\ Made("store") \in Int
      BY <1>6, <1>8
    <2>2. CASE StoreCounter(t)
      <3>1. s = "store" /\ Takes(t, "store") /\ counter' = loaded[t] + Addend(t)
        BY <1>1, <2>2 DEF StoreCounter, Takes
      <3>2. step[t] = 3 /\ Section(t) = Locked
        <4>1. step[t] \in 1..Len(Section(t)) /\ Section(t)[step[t]] = "store" /\ Section(t) \in Sections
          BY <3>1, StepFacts, TeamFacts
        <4>2. Section(t) \notin {ReadModifyWrite, CountTwice}
          BY OneKind
        <4>3. QED
          BY <4>1, <4>2, StepsOccur
      <3>3. loaded[t] = counter
        BY <3>2 DEF StillThere
      <3>4. Addend(t) = Worth(CodeOf(t), "store")
        BY <3>1, AddendIs
      <3>5. Made("store")' = Made("store") + Worth(CodeOf(t), "store")
        BY <1>6, <3>1
      <3>6. \A b, m, w \in Int : (b + m) + w = b + (m + w)
        OBVIOUS
      <3>7. Worth(CodeOf(t), "store") \in Int
        BY <1>5, WorthIs
      <3>8. QED
        BY <2>1, <3>1, <3>3, <3>4, <3>5, <3>6, <3>7
    <2>3. CASE ~StoreCounter(t)
      <3>1. s # "store" /\ counter' = counter
        BY <1>1, <2>3 DEF Member, Lock, LockShared, Unlock, UnlockShared, LoadCounter,
               FetchAdd, Accumulate, Use, Takes, data
      <3>2. Made("store")' = Made("store") + 0
        BY <1>6, <3>1
      <3>3. QED
        BY <2>1, <3>1, <3>2
    <2>4. QED
      BY <2>2, <2>3
  <1>12. atomicCounter' = (Before("add") + Made("add")') + (Before("rest") + Made("rest")')
    <2>1. /\ atomicCounter = (Before("add") + Made("add")) + (Before("rest") + Made("rest"))
          /\ Before("add") \in Int /\ Made("add") \in Int /\ Before("rest") \in Int /\ Made("rest") \in Int
      BY <1>6, <1>8
    <2>2. CASE FetchAdd(t)
      <3>1. s \in {"add", "rest"} /\ atomicCounter' = atomicCounter + CodeOf(t).amount
        BY <1>1, <2>2 DEF FetchAdd, Takes
      <3>2. CodeOf(t).amount = Worth(CodeOf(t), s)
        BY <1>1, <3>1, AmountIs
      <3>3. /\ Made("add")' = Made("add") + IF s = "add" THEN CodeOf(t).amount ELSE 0
            /\ Made("rest")' = Made("rest") + IF s = "rest" THEN CodeOf(t).amount ELSE 0
        BY <1>6, <3>2
      <3>4. \A a, b, c, d, w \in Int :
              /\ ((a + b) + (c + d)) + w = (a + (b + w)) + (c + (d + 0))
              /\ ((a + b) + (c + d)) + w = (a + (b + 0)) + (c + (d + w))
        OBVIOUS
      <3>5. CASE s = "add"
        BY <1>5, <2>1, <3>1, <3>3, <3>4, <3>5
      <3>6. CASE s = "rest"
        BY <1>5, <2>1, <3>1, <3>3, <3>4, <3>6
      <3>7. QED
        BY <3>1, <3>5, <3>6
    <2>3. CASE ~FetchAdd(t)
      <3>1. s \notin {"add", "rest"} /\ atomicCounter' = atomicCounter
        BY <1>1, <2>3 DEF Member, Lock, LockShared, Unlock, UnlockShared, LoadCounter,
               StoreCounter, Accumulate, Use, Takes, data
      <3>2. Made("add")' = Made("add") /\ Made("rest")' = Made("rest")
        BY <1>6, <3>1
      <3>3. QED
        BY <2>1, <3>1, <3>2
    <2>4. QED
      BY <2>2, <2>3
  <1>13. \A r : Before(r)' = Before(r)
    BY <1>3
  <1>14. QED
    <2>1. \A u \in Members' : local'[u] = Passed(u, "local")' * CodeOf(u)'.amount
      BY <1>2, <1>10
    <2>2. ~Races(program'[phase']) => counter' = Before("store")' + Made("store")'
      BY <1>2, <1>11
    <2>3. atomicCounter' = (Before("add")' + Made("add")') + (Before("rest")' + Made("rest")')
      BY <1>12, <1>13
    <2>4. QED
      BY <2>1, <2>2, <2>3 DEF Books

(* Who has been joined has taken each step as often as its code wants it. *)
LEMMA JoinedPassed ==
  ASSUME SharedTypes, NEW t \in Members, Finished(t), NEW s
  PROVE  Passed(t, s) = Needed(CodeOf(t), s)
  <1>1. /\ CodeOf(t) \in Codes /\ CodeOf(t).times \in Nat \ {0}
        /\ Len(CodeOf(t).body) \in Nat /\ Len(CodeOf(t).tail) \in Nat
    <2>1. CodeOf(t) \in Codes
      BY TeamFacts
    <2>2. CodeOf(t).times \in Nat \ {0} /\ CodeOf(t).body \in Sections /\ CodeOf(t).tail \in Sections
      BY <2>1, CodeParts DEF Sections
    <2>3. QED
      BY <2>1, <2>2, StepsDiffer
  <1>2. /\ iteration[t] \in Nat /\ step[t] \in Nat \ {0} /\ iteration[t] <= CodeOf(t).times
        /\ step[t] <= IF Loops(t) THEN Len(CodeOf(t).body) ELSE Len(CodeOf(t).tail) + 1
    BY DEF SharedTypes
  <1>3. step[t] > Len(Section(t))
    BY DEF Finished
  <1>4. ~Loops(t)
    BY <1>1, <1>2, <1>3 DEF Section
  <1>5. iteration[t] = CodeOf(t).times
    BY <1>1, <1>2, <1>4 DEF Loops
  <1>6. step[t] = Len(CodeOf(t).tail) + 1
    BY <1>1, <1>2, <1>3, <1>4 DEF Section
  <1>7. QED
    BY <1>1, <1>2, <1>5, <1>6, TakenIs DEF Passed

(* That is what it adds altogether. *)
LEMMA NeededIs ==
  ASSUME NEW c \in Codes, NEW s
  PROVE  Needed(c, s) * Worth(c, s) = IF Has(c, s) THEN c.times * c.amount ELSE 0
  <1>1. c.times \in Int /\ c.amount \in Int /\ c.times * c.amount \in Int /\ c.body \in Sections /\ c.tail \in Sections
    <2>1. c.times \in Int /\ c.amount \in Int /\ c.body \in Sections /\ c.tail \in Sections
      BY CodeParts DEF Sections
    <2>2. QED
      BY <2>1
  <1>2. Has(c, s) <=> Precedes(c.body, Len(c.body) + 1, s) \/ Precedes(c.tail, Len(c.tail) + 1, s)
    BY <1>1, HasSteps, PrecedesAll
  <1>3. \A w \in Int : 1 * w = w /\ 0 * w = 0
    OBVIOUS
  <1>4. CASE Precedes(c.body, Len(c.body) + 1, s)
    BY <1>2, <1>4 DEF Needed, Worth
  <1>5. CASE ~Precedes(c.body, Len(c.body) + 1, s)
    BY <1>1, <1>2, <1>3, <1>5 DEF Needed, Worth
  <1>6. QED
    BY <1>4, <1>5

LEMMA JoinedMade ==
  ASSUME SharedTypes, AllJoined, NEW s
  PROVE  Made(s) = PhaseTotal(phase, s)
  <1>1. ASSUME NEW t \in Members
        PROVE  Passed(t, s) * Worth(CodeOf(t), s)
                 = IF Has(CodeOf(t), s) THEN CodeOf(t).times * CodeOf(t).amount ELSE 0
    <2>1. CodeOf(t) \in Codes
      BY TeamFacts
    <2>2. Passed(t, s) = Needed(CodeOf(t), s)
      BY JoinedPassed DEF AllJoined
    <2>3. QED
      BY <2>1, <2>2, NeededIs
  <1>2. [t \in Members |-> Passed(t, s) * Worth(CodeOf(t), s)]
          = [t \in Members |-> IF Has(CodeOf(t), s) THEN CodeOf(t).times * CodeOf(t).amount ELSE 0]
    BY <1>1
  <1>3. PhaseTotal(phase, s)
          = Sum([t \in Members |-> IF Has(CodeOf(t), s) THEN CodeOf(t).times * CodeOf(t).amount ELSE 0])
    BY DEF PhaseTotal, Members, CodeOf
  <1>4. QED
    BY <1>2, <1>3 DEF Made

(* The books of a team that has been joined are those of the phases before the next one. *)
LEMMA BeforeNext ==
  ASSUME SharedTypes, Exclusion, NextPhase, NEW s
  PROVE  /\ s # "store" \/ ~program[phase + 1].fresh => Before(s)' = Total(s)
         /\ s = "store" /\ program[phase + 1].fresh => Before(s)' = 0
  <1> DEFINE S == DOMAIN program
             f == [p \in S |-> IF Counts(p, s) THEN PhaseTotal(p, s) ELSE 0]
             g == [p \in S |-> IF p # phase' /\ Counts(p, s)' THEN PhaseTotal(p, s)' ELSE 0]
  <1>1. program' = program /\ phase' = phase + 1 /\ phase \in Nat
    BY NextStarts, TeamFacts
  <1>2. S \subseteq Nat /\ IsFiniteSet(S)
    <2>1. Len(program) \in Nat /\ S = 1..Len(program)
      BY TeamFacts DEF IsProgram
    <2>2. QED
      BY <2>1, FS_Interval
  <1>3. \A p \in S : PhaseTotal(p, s)' = PhaseTotal(p, s)
    BY <1>1 DEF PhaseTotal
  <1>4. \A p \in S : Counts(p, s)' <=> p <= phase + 1 /\ \A q \in p+1..phase+1 : s = "store" => ~program[q].fresh
    BY <1>1 DEF Counts
  <1>5. Before(s)' = Sum(g)
    BY <1>1 DEF Before
  <1>6. Total(s) = Sum(f)
    BY DEF Total
  <1>7. ASSUME s # "store" \/ ~program[phase + 1].fresh PROVE Before(s)' = Total(s)
    <2>1. ASSUME NEW p \in S PROVE (p # phase' /\ Counts(p, s)') <=> Counts(p, s)
      <3>1. p \in Nat
        BY <1>2
      <3>2. p # phase + 1 /\ p <= phase + 1 <=> p <= phase
        BY <1>1, <3>1
      <3>3. CASE s # "store"
        BY <1>1, <1>4, <3>2, <3>3 DEF Counts
      <3>4. CASE s = "store" /\ ~program[phase + 1].fresh
        <4>1. \A q \in p+1..phase+1 : q \in p+1..phase \/ q = phase + 1
          BY <1>1, <3>1
        <4>2. \A q \in p+1..phase : q \in p+1..phase+1
          BY <1>1, <3>1
        <4>3. (\A q \in p+1..phase+1 : ~program[q].fresh) <=> (\A q \in p+1..phase : ~program[q].fresh)
          BY <3>4, <4>1, <4>2
        <4>4. QED
          BY <1>1, <1>4, <3>2, <3>4, <4>3 DEF Counts
      <3>5. QED
        BY <1>7, <3>3, <3>4
    <2>2. g = f
      BY <1>3, <2>1
    <2> HIDE DEF f, g
    <2>3. QED
      BY <1>5, <1>6, <2>2
  <1>8. ASSUME s = "store", program[phase + 1].fresh PROVE Before(s)' = 0
    <2>1. ASSUME NEW p \in S PROVE ~(p # phase' /\ Counts(p, s)')
      <3>1. p \in Nat
        BY <1>2
      <3>2. p # phase + 1 /\ p <= phase + 1 => phase + 1 \in p+1..phase+1
        BY <1>1, <3>1
      <3>3. QED
        BY <1>1, <1>4, <1>8, <3>2
    <2>2. g = [p \in S |-> 0]
      BY <2>1
    <2>3. Sum([p \in S |-> 0]) = 0
      BY <1>2, SumOfZeros
    <2> HIDE DEF g
    <2>4. QED
      BY <1>5, <2>2, <2>3
  <1>9. QED
    BY <1>7, <1>8

(* The next team starts with balanced books. *)
LEMMA NextBooks ==
  ASSUME SharedTypes, Exclusion, Books, NextPhase
  PROVE  Books'
  <1>1. /\ AtStart' /\ program' = program /\ phase' = phase + 1 /\ atomicCounter' = atomicCounter
        /\ counter' = IF program[phase + 1].fresh THEN 0 ELSE counter
    BY NextStarts
  <1>2. Untouched'
    BY <1>1, StartFacts, PTL
  <1>3. \A t \in Members' : local'[t] = 0 /\ Passed(t, "local")' = 0 /\ CodeOf(t)' \in Codes
    BY <1>2 DEF Untouched
  <1>4. /\ \A t \in Members' : CodeOf(t)'.amount \in Int
        /\ \A s : Made(s)' = 0
    BY <1>2, <1>3, CodeParts DEF Untouched
  <1>5. \A s : Total(s) = Before(s) + Made(s)
    BY TotalIs, JoinedMade DEF NextPhase
  <1>6. /\ ~Races(program[phase]) => counter = Total("store")
        /\ atomicCounter = Total("add") + Total("rest")
    BY <1>5 DEF Books
  <1>7. \A t \in Members' : local'[t] = Passed(t, "local")' * CodeOf(t)'.amount
    BY <1>3, <1>4
  <1>8. atomicCounter' = (Before("add")' + Made("add")') + (Before("rest")' + Made("rest")')
    <2>1. Before("add")' = Total("add") /\ Before("rest")' = Total("rest")
      BY BeforeNext
    <2>2. Total("add") \in Int /\ Total("rest") \in Int
      BY TotalIs, PhaseTotalIs, TeamFacts
    <2>3. QED
      BY <1>1, <1>4, <1>6, <2>1, <2>2
  <1>9. ~Races(program[phase + 1]) => counter' = Before("store")' + Made("store")'
    <2>1. Made("store")' = 0
      BY <1>4
    <2>2. CASE program[phase + 1].fresh
      <3>1. Before("store")' = 0 /\ counter' = 0
        BY <1>1, <2>2, BeforeNext
      <3>2. QED
        BY <2>1, <3>1
    <2>3. CASE ~program[phase + 1].fresh
      <3>1. ~Races(program[phase])
        <4>1. IsProgram(program) /\ phase \in Nat \ {0} /\ phase < Len(program)
          BY TeamFacts DEF NextPhase
        <4>2. phase + 1 \in 1..Len(program) /\ phase + 1 # 1 /\ (phase + 1) - 1 = phase
          BY <4>1 DEF IsProgram
        <4>3. QED
          BY <2>3, <4>1, <4>2 DEF IsProgram
      <3>2. Before("store")' = Total("store") /\ counter' = counter
        BY <1>1, <2>3, BeforeNext
      <3>3. counter \in Int
        BY DEF SharedTypes
      <3>4. QED
        BY <1>6, <2>1, <3>1, <3>2, <3>3
    <2>4. QED
      BY <2>2, <2>3
  <1>10. QED
    BY <1>1, <1>7, <1>8, <1>9 DEF Books

LEMMA InitBooks == SharedInit => Books
  <1> SUFFICES ASSUME SharedInit PROVE Books
    OBVIOUS
  <1>1. AtStart /\ phase = 1 /\ counter = 0 /\ atomicCounter = 0
    BY InitStarts
  <1>2. SharedTypes /\ Untouched
    BY <1>1, StartTypes, StartFacts
  <1>3. ASSUME NEW s PROVE Before(s) = 0
    <2>1. Len(program) \in Nat /\ DOMAIN program = 1..Len(program)
      BY <1>2, TeamFacts DEF IsProgram
    <2>2. \A p \in DOMAIN program : ~(p # phase /\ Counts(p, s))
      BY <1>1, <2>1 DEF Counts
    <2>3. [p \in DOMAIN program |-> IF p # phase /\ Counts(p, s) THEN PhaseTotal(p, s) ELSE 0]
            = [p \in DOMAIN program |-> 0]
      BY <2>2
    <2>4. IsFiniteSet(DOMAIN program)
      BY <2>1, FS_Interval
    <2>5. Sum([p \in DOMAIN program |-> 0]) = 0
      BY <2>4, SumOfZeros
    <2>6. QED
      BY <2>3, <2>5 DEF Before
  <1>4. \A t \in Members : local[t] = 0 /\ Passed(t, "local") = 0 /\ CodeOf(t).amount \in Int
    BY <1>2, CodeParts DEF Untouched
  <1>5. \A s : Made(s) = 0
    BY <1>2 DEF Untouched
  <1>6. \A t \in Members : local[t] = Passed(t, "local") * CodeOf(t).amount
    BY <1>4
  <1>7. QED
    BY <1>1, <1>3, <1>5, <1>6 DEF Books

-----------------------------------------------------------------------------
(* The races *)

(* What a counting thread adds in one step, and how often: a single step adds two or more. *)
LEMMA CountingAdds ==
  ASSUME NEW c \in Counting
  PROVE  /\ c \in Codes /\ c.amount = 1 /\ c.times = Iterations /\ Has(c, "store")
         /\ Worth(c, "store") \in Nat \ {0} /\ Needed(c, "store") \in Nat \ {0}
         /\ Needed(c, "store") = 1 => Worth(c, "store") >= 2
  <1> USE DEF Code
  <1>1. c \in Codes /\ c \in Racing
    BY DEF Counting, Codes
  <1>2. c.amount = 1 /\ c.times = Iterations
    <2>1. c \in {Unprotected(1), Hoisted(1), Code(CountTwice, <<>>, Iterations, 1)}
      BY DEF Counting, Racing
    <2>2. QED
      BY <2>1 DEF Unprotected, Hoisted
  <1>3. Has(c, "store")
    BY <1>1, RacingIs
  <1>4. Iterations \in Nat /\ Iterations >= 2
    BY SharedDataAssumption
  <1>5. c.body \in Sections /\ c.tail \in Sections
    BY <1>1, CodeParts DEF Sections
  <1>6. Precedes(c.body, Len(c.body) + 1, "store") \/ Precedes(c.tail, Len(c.tail) + 1, "store")
    BY <1>1, <1>3, <1>5, HasSteps, PrecedesAll
  <1>7. CASE Precedes(c.body, Len(c.body) + 1, "store")
    <2>1. Worth(c, "store") = 1 /\ Needed(c, "store") = Iterations
      BY <1>2, <1>7 DEF Worth, Needed
    <2>2. QED
      BY <1>1, <1>2, <1>3, <1>4, <2>1
  <1>8. CASE ~Precedes(c.body, Len(c.body) + 1, "store")
    <2>1. Worth(c, "store") = Iterations * 1 /\ Needed(c, "store") = 1
      BY <1>2, <1>6, <1>8 DEF Worth, Needed
    <2>2. QED
      BY <1>1, <1>2, <1>3, <1>4, <2>1
  <1>9. QED
    BY <1>7, <1>8

(* Who is about to store: threads get there by loading the counter. *)
LEMMA StoringIs ==
  ASSUME SharedTypes, Races(program[phase]), NEW t \in Members, Member(t), NEW s, Takes(t, s)
  PROVE  /\ s = "store" <=> StoreCounter(t)
         /\ s = "store" => Storing(t)
         /\ s = "store" => ~Storing(t)'
         /\ Storing(t)' => LoadCounter(t)
         /\ ~StoreCounter(t) => counter' = counter
         /\ \A u \in Members : u # t => (Storing(u)' <=> Storing(u)) /\ loaded'[u] = loaded[u]
  <1>1. Section(t) \in Sections /\ step[t] \in 1..Len(Section(t)) /\ Section(t)[step[t]] = s
    BY StepFacts, TeamFacts
  <1>2. Section(t) \in {ReadModifyWrite, CountTwice, <<"local">>, <<>>}
    BY OneKind
  <1>3. Section(t) \notin {Locked, ReadLocked}
    BY <1>2 DEF ReadModifyWrite, CountTwice, Locked, ReadLocked
  <1>4. s = "store" <=> StoreCounter(t)
    BY DEF Member, Lock, LockShared, Unlock, UnlockShared, LoadCounter, StoreCounter, FetchAdd,
           Accumulate, Use, Takes
  <1>5. s = "load" <=> LoadCounter(t)
    BY DEF Member, Lock, LockShared, Unlock, UnlockShared, LoadCounter, StoreCounter, FetchAdd,
           Accumulate, Use, Takes
  <1>6. s = "store" => Storing(t)
    BY <1>1, <1>3, StepsOccur DEF Storing
  <1>7. s = "store" => ~Storing(t)'
    BY <1>6, SectionFacts, StepFacts DEF Storing
  <1>8. ASSUME Storing(t)' PROVE LoadCounter(t)
    <2>1. step[t] = 1 /\ Section(t) \in {ReadModifyWrite, CountTwice}
      <3>1. step[t] \in Nat /\ step'[t] = 2
        BY <1>8 DEF SharedTypes, Storing
      <3>2. step'[t] = step[t] + 1 /\ Section(t)' = Section(t)
        BY <3>1, SectionFacts
      <3>3. QED
        BY <1>8, <3>1, <3>2 DEF Storing
    <2>2. s = "load"
      BY <1>1, <2>1, StepsOccur
    <2>3. QED
      BY <1>5, <2>2
  <1>9. ~StoreCounter(t) => counter' = counter
    BY DEF Member, Lock, LockShared, Unlock, UnlockShared, LoadCounter, FetchAdd, Accumulate, Use, data
  <1>10. \A u \in Members : u # t => (Storing(u)' <=> Storing(u)) /\ loaded'[u] = loaded[u]
    <2>1. \A u \in Members : u # t => (Storing(u)' <=> Storing(u))
      BY StepFacts, SectionFacts DEF Storing
    <2>2. loaded \in [Members -> Int]
      BY DEF SharedTypes
    <2>3. \A u \in Members : u # t => loaded'[u] = loaded[u]
      BY <2>2 DEF Member, Lock, LockShared, Unlock, UnlockShared, LoadCounter, StoreCounter, FetchAdd,
             Accumulate, Use, private
    <2>4. QED
      BY <2>1, <2>3
  <1>11. QED
    BY <1>4, <1>6, <1>7, <1>8, <1>9, <1>10

(* Every step of a thread that counts leaves the bounds as they are. *)
LEMMA MemberRaceUp ==
  ASSUME SharedTypes, Books, RaceUp, NEW t \in Members, Member(t)
  PROVE  RaceUp'
  <1> SUFFICES ASSUME CountsFreely(program[phase])' PROVE RaceUp'
    BY DEF RaceUp
  <1>1. PICK s : Takes(t, s)
    BY DEF Member, Lock, LockShared, Unlock, UnlockShared, LoadCounter, StoreCounter, FetchAdd,
           Accumulate, Use
  <1>2. Members' = Members /\ program' = program /\ phase' = phase /\ \A u : CodeOf(u)' = CodeOf(u)
    BY <1>1, StepFacts
  <1>3. CountsFreely(program[phase]) /\ Races(program[phase])
    BY <1>2 DEF Races
  <1>4. \A u \in Members : CodeOf(u) \in Counting
    BY <1>3 DEF CountsFreely, Members, CodeOf
  <1> DEFINE W(u) == Worth(CodeOf(u), "store")
             N(u) == Needed(CodeOf(u), "store")
             P(u) == Passed(u, "store")
             M == Made("store")
  <1>5. \A u \in Members : W(u) \in Nat \ {0} /\ N(u) \in Nat \ {0} /\ (N(u) = 1 => W(u) >= 2)
    BY <1>4, CountingAdds
  <1>6. \A u \in Members : P(u) \in Nat /\ P(u)' = P(u) + IF u = t /\ s = "store" THEN 1 ELSE 0
    BY <1>1, PassedGrows
  <1>7. M \in Int /\ M' = M + IF s = "store" THEN W(t) ELSE 0
    BY <1>1, MadeGrows
  <1>8. /\ 0 <= counter /\ counter <= M
        /\ \A u \in Members : Storing(u) => 0 <= loaded[u] /\ loaded[u] <= M
        /\ \A u \in Members : P(u) > 0 => counter > 0
        /\ \A u \in Members : Storing(u) /\ P(u) > 0 => loaded[u] > 0
        /\ counter >= 2 \/ \E u \in Members : P(u) < N(u)
    BY <1>3 DEF RaceUp
  <1>9. counter \in Int /\ \A u \in Members : loaded[u] \in Int
    BY DEF SharedTypes
  <1>10. /\ s = "store" <=> StoreCounter(t)
         /\ s = "store" => Storing(t) /\ ~Storing(t)'
         /\ Storing(t)' => LoadCounter(t)
         /\ s # "store" => counter' = counter
         /\ \A u \in Members : u # t => (Storing(u)' <=> Storing(u)) /\ loaded'[u] = loaded[u]
    BY <1>1, <1>3, StoringIs
  <1>11. \A u \in Members : N(u)' = N(u)
    <2>1. ASSUME NEW u \in Members PROVE Needed(CodeOf(u), "store")' = Needed(CodeOf(u), "store")
      BY <1>2 DEF Needed
    <2>2. QED
      BY <2>1
  <1> HIDE DEF W, N, P, M
  <1>12. CASE s = "store"
    <2>1. counter' = loaded[t] + W(t)
      BY <1>1, <1>10, <1>12, AddendIs DEF StoreCounter, W
    <2>2. M' = M + W(t) /\ W(t) \in Nat /\ W(t) >= 1 /\ 0 <= loaded[t] /\ loaded[t] <= M /\ loaded[t] \in Int
      BY <1>5, <1>7, <1>8, <1>9, <1>10, <1>12
    <2>3. /\ 0 <= counter' /\ counter' <= M' /\ counter' > 0 /\ M <= M'
      BY <1>7, <2>1, <2>2
    <2>4. \A u \in Members : Storing(u)' => Storing(u) /\ loaded'[u] = loaded[u] /\ P(u)' = P(u)
      BY <1>6, <1>10, <1>12
    <2>5. \A u \in Members : Storing(u)' => 0 <= loaded'[u] /\ loaded'[u] <= M'
      <3>1. \A x \in Int : x <= M => x <= M'
        BY <1>7, <2>2
      <3>2. QED
        BY <1>8, <1>9, <2>4, <3>1
    <2>6. \A u \in Members : Storing(u)' /\ P(u)' > 0 => loaded'[u] > 0
      BY <1>8, <2>4
    <2>7. counter' >= 2 \/ P(t)' < N(t)'
      <3>1. CASE P(t) > 0
        <4>1. loaded[t] >= 1
          BY <1>8, <1>10, <1>12, <2>2, <3>1
        <4>2. QED
          BY <2>1, <2>2, <4>1
      <3>2. CASE ~(P(t) > 0)
        <4>1. P(t)' = 1 /\ N(t)' = N(t)
          BY <1>6, <1>11, <1>12, <3>2
        <4>2. CASE N(t) = 1
          BY <1>5, <2>1, <2>2, <4>2
        <4>3. CASE N(t) # 1
          BY <1>5, <4>1, <4>3
        <4>4. QED
          BY <4>2, <4>3
      <3>3. QED
        BY <3>1, <3>2
    <2>8. QED
      BY <1>2, <2>3, <2>5, <2>6, <2>7 DEF RaceUp, P, N, M
  <1>13. CASE s # "store"
    <2>1. counter' = counter /\ M' = M /\ \A u \in Members : P(u)' = P(u)
      BY <1>6, <1>7, <1>10, <1>13
    <2>2. \A u \in Members : Storing(u)' => (Storing(u) /\ loaded'[u] = loaded[u]) \/ loaded'[u] = counter
      <3>1. Storing(t)' => loaded'[t] = counter
        <4>1. loaded \in [Members -> Int]
          BY DEF SharedTypes
        <4>2. QED
          BY <1>10, <4>1 DEF LoadCounter
      <3>2. QED
        BY <1>10, <3>1
    <2>3. \A u \in Members : Storing(u)' => 0 <= loaded'[u] /\ loaded'[u] <= M'
      BY <1>8, <2>1, <2>2
    <2>4. \A u \in Members : Storing(u)' /\ P(u)' > 0 => loaded'[u] > 0
      BY <1>8, <2>1, <2>2
    <2>5. counter' >= 2 \/ \E u \in Members : P(u)' < N(u)'
      BY <1>8, <1>11, <2>1
    <2>6. QED
      BY <1>2, <1>8, <2>1, <2>3, <2>4, <2>5 DEF RaceUp, P, N, M
  <1>14. QED
    BY <1>12, <1>13

(* Every step of a thread that deposits or withdraws leaves the range as it is. *)
LEMMA PotAdds ==
  ASSUME SharedTypes, SavesFreely(program[phase])
  PROVE  /\ Members = 1..2 /\ Races(program[phase])
         /\ CodeOf(1) = Unprotected(1) /\ CodeOf(2) = Unprotected(-1)
         /\ \A t \in Members : /\ Worth(CodeOf(t), "store") = IF t = 1 THEN 1 ELSE -1
                               /\ Needed(CodeOf(t), "store") = Iterations
                               /\ CodeOf(t).amount = IF t = 1 THEN 1 ELSE -1
  <1>1. /\ Members = 1..2 /\ CodeOf(1) = Unprotected(1) /\ CodeOf(2) = Unprotected(-1)
    BY DEF SavesFreely, Pot, Members, CodeOf
  <1>2. Races(program[phase])
    BY DEF Races
  <1>3. ASSUME NEW d \in {1, -1}
        PROVE  /\ Worth(Unprotected(d), "store") = d /\ Needed(Unprotected(d), "store") = Iterations
               /\ Unprotected(d).amount = d
    <2>1. /\ Unprotected(d).body = ReadModifyWrite /\ Unprotected(d).amount = d
          /\ Unprotected(d).times = Iterations
      BY DEF Unprotected, Code
    <2>2. Precedes(ReadModifyWrite, Len(ReadModifyWrite) + 1, "store")
      <3>1. ReadModifyWrite[2] = "store" /\ 2 \in 1..Len(ReadModifyWrite)
        BY DEF ReadModifyWrite
      <3>2. ReadModifyWrite \in Sections
        BY DEF Sections
      <3>3. QED
        BY <3>1, <3>2, PrecedesAll, Zenon
    <2>3. QED
      BY <2>1, <2>2 DEF Worth, Needed
  <1>4. ASSUME NEW t \in Members
        PROVE  /\ Worth(CodeOf(t), "store") = IF t = 1 THEN 1 ELSE -1
               /\ Needed(CodeOf(t), "store") = Iterations
               /\ CodeOf(t).amount = IF t = 1 THEN 1 ELSE -1
    <2>1. CASE t = 1
      BY <1>1, <1>3, <2>1
    <2>2. CASE t = 2
      BY <1>1, <1>3, <2>2
    <2>3. QED
      BY <1>1, <2>1, <2>2
  <1>5. QED
    BY <1>1, <1>2, <1>4

LEMMA MemberRaceBothWays ==
  ASSUME SharedTypes, Books, RaceBothWays, NEW t \in Members, Member(t)
  PROVE  RaceBothWays'
  <1> SUFFICES ASSUME SavesFreely(program[phase])' PROVE RaceBothWays'
    BY DEF RaceBothWays
  <1>1. PICK s : Takes(t, s)
    BY DEF Member, Lock, LockShared, Unlock, UnlockShared, LoadCounter, StoreCounter, FetchAdd,
           Accumulate, Use
  <1>2. Members' = Members /\ program' = program /\ phase' = phase
    BY <1>1, StepFacts
  <1>3. /\ SavesFreely(program[phase]) /\ Races(program[phase]) /\ Members = 1..2
        /\ Worth(CodeOf(t), "store") = IF t = 1 THEN 1 ELSE -1
    BY <1>2, PotAdds
  <1> DEFINE P(u) == Passed(u, "store")
  <1>4. \A u \in Members : P(u) \in Nat /\ P(u)' = P(u) + IF u = t /\ s = "store" THEN 1 ELSE 0
    BY <1>1, PassedGrows
  <1>5. /\ counter \in -P(2)..P(1)
        /\ \A u \in 1..2 : Storing(u) => loaded[u] \in -P(2)..P(1)
    BY <1>3 DEF RaceBothWays
  <1>6. /\ s = "store" <=> StoreCounter(t)
        /\ s = "store" => Storing(t) /\ ~Storing(t)'
        /\ Storing(t)' => LoadCounter(t)
        /\ s # "store" => counter' = counter
        /\ \A u \in Members : u # t => (Storing(u)' <=> Storing(u)) /\ loaded'[u] = loaded[u]
    BY <1>1, <1>3, StoringIs
  <1>7. P(1) \in Nat /\ P(2) \in Nat
    BY <1>3, <1>4
  <1> HIDE DEF P
  <1>8. CASE s = "store"
    <2>1. counter' = loaded[t] + IF t = 1 THEN 1 ELSE -1
      BY <1>1, <1>3, <1>6, <1>8, AddendIs DEF StoreCounter
    <2>2. loaded[t] \in -P(2)..P(1) /\ t \in 1..2
      BY <1>3, <1>5, <1>6, <1>8
    <2>3. \/ t = 1 /\ P(1)' = P(1) + 1 /\ P(2)' = P(2)
          \/ t = 2 /\ P(1)' = P(1) /\ P(2)' = P(2) + 1
      BY <1>3, <1>4, <1>7, <1>8, <2>2
    <2>4. counter' \in -P(2)'..P(1)'
      BY <1>7, <2>1, <2>2, <2>3
    <2>5. \A x \in -P(2)..P(1) : x \in -P(2)'..P(1)'
      BY <1>7, <2>3
    <2>6. \A u \in 1..2 : Storing(u)' => loaded'[u] \in -P(2)'..P(1)'
      BY <1>3, <1>5, <1>6, <1>8, <2>5
    <2>7. QED
      BY <2>4, <2>6 DEF RaceBothWays, P
  <1>9. CASE s # "store"
    <2>1. counter' = counter /\ P(1)' = P(1) /\ P(2)' = P(2)
      BY <1>3, <1>4, <1>6, <1>7, <1>9
    <2>2. Storing(t)' => loaded'[t] = counter
      <3>1. loaded \in [Members -> Int]
        BY DEF SharedTypes
      <3>2. QED
        BY <1>6, <3>1 DEF LoadCounter
    <2>3. \A u \in 1..2 : Storing(u)' => loaded'[u] \in -P(2)..P(1)
      BY <1>3, <1>5, <1>6, <2>2
    <2>4. QED
      BY <1>5, <2>1, <2>3 DEF RaceBothWays, P
  <1>10. QED
    BY <1>8, <1>9

(* A race starts at 0. *)
LEMMA StartRaces == AtStart /\ counter = 0 => RaceUp /\ RaceBothWays
  <1> SUFFICES ASSUME AtStart, counter = 0 PROVE RaceUp /\ RaceBothWays
    OBVIOUS
  <1>1. SharedTypes /\ Untouched
    BY StartTypes, StartFacts
  <1>2. /\ \A t \in Members : ~Storing(t) /\ Passed(t, "store") = 0
        /\ Made("store") = 0 /\ 1 \in Members
    BY <1>1, TeamFacts DEF Untouched, Storing
  <1>3. RaceUp
    <2> SUFFICES ASSUME CountsFreely(program[phase]) PROVE RaceUp
      BY DEF RaceUp
    <2>1. CodeOf(1) \in Counting
      BY <1>2 DEF CountsFreely, CodeOf, Members
    <2>2. Passed(1, "store") < Needed(CodeOf(1), "store")
      BY <1>2, <2>1, CountingAdds
    <2>3. QED
      BY <1>2, <2>2 DEF RaceUp
  <1>4. RaceBothWays
    <2> SUFFICES ASSUME SavesFreely(program[phase]) PROVE RaceBothWays
      BY DEF RaceBothWays
    <2>1. Members = 1..2
      BY <1>1, PotAdds
    <2>2. Passed(1, "store") = 0 /\ Passed(2, "store") = 0
      BY <1>2, <2>1
    <2>3. QED
      BY <1>2, <2>1, <2>2 DEF RaceBothWays
  <1>5. QED
    BY <1>3, <1>4

-----------------------------------------------------------------------------
(* The inductive invariant holds in every reachable state. *)
THEOREM SharedInvariance == SharedSpec => []SharedInv
  <1>1. SharedInit => SharedInv
    BY InitStarts, StartTypes, StartExcludes, InitBooks, StartRaces DEF SharedInv
  <1>2. SharedInv /\ [SharedNext]_sharedVars => SharedInv'
    <2> SUFFICES ASSUME SharedInv, [SharedNext]_sharedVars PROVE SharedInv'
      OBVIOUS
    <2>1. SharedTypes /\ Exclusion /\ StillThere /\ Books /\ RaceUp /\ RaceBothWays
      BY DEF SharedInv
    <2>2. ASSUME NEW t \in Members, Member(t) PROVE SharedInv'
      BY <2>1, <2>2, MemberTypes, MemberExclusion, MemberStillThere, MemberBooks, MemberRaceUp,
         MemberRaceBothWays DEF SharedInv
    <2>3. CASE NextPhase
      <3>1. /\ AtStart' /\ owner' = 0 /\ sharers' = {} /\ program' = program /\ phase' = phase + 1
            /\ counter' = IF program[phase + 1].fresh THEN 0 ELSE counter
        BY <2>1, <2>3, NextStarts
      <3>2. SharedTypes'
        BY <3>1, StartTypes, PTL
      <3>3. Exclusion' /\ StillThere'
        <4>1. (AtStart /\ owner = 0 /\ sharers = {})'
          BY <3>1
        <4>2. QED
          BY <4>1, StartExcludes, PTL
      <3>4. Books'
        BY <2>1, <2>3, NextBooks
      <3>5. RaceUp' /\ RaceBothWays'
        <4>1. CASE Races(program[phase + 1])
          <5>1. IsPhase(program[phase + 1]) /\ phase + 1 \in 1..Len(program)
            <6>1. phase + 1 \in 1..Len(program)
              BY <2>1, <2>3, TeamFacts DEF NextPhase, IsProgram
            <6>2. QED
              BY <2>1, <6>1, TeamFacts DEF IsProgram
          <5>2. program[phase + 1].fresh
            BY <4>1, <5>1, RaceIsFresh
          <5>3. (AtStart /\ counter = 0)'
            BY <3>1, <5>2
          <5>4. QED
            BY <5>3, StartRaces, PTL
        <4>2. CASE ~Races(program[phase + 1])
          BY <3>1, <4>2 DEF RaceUp, RaceBothWays, Races
        <4>3. QED
          BY <4>1, <4>2
      <3>6. QED
        BY <3>2, <3>3, <3>4, <3>5 DEF SharedInv
    <2>4. CASE UNCHANGED sharedVars
      <3>1. UNCHANGED <<program, phase, iteration, step, counter, atomicCounter, owner, sharers, loaded, local>>
        BY <2>4 DEF sharedVars, control, data, locks, private
      <3> USE DEF Members, CodeOf, Loops, Section
      <3>2. SharedTypes'
        BY <2>1, <3>1 DEF SharedTypes
      <3>3. Exclusion' /\ StillThere'
        BY <2>1, <3>1 DEF Exclusion, StillThere, LocksIt, SharesIt
      <3>4. \A t, s : Passed(t, s)' = Passed(t, s)
        BY <3>1 DEF Passed
      <3>5. \A s : Made(s)' = Made(s) /\ Before(s)' = Before(s)
        BY <3>1, <3>4 DEF Made, Before, Counts, PhaseTotal
      <3>6. Books'
        BY <2>1, <3>1, <3>4, <3>5 DEF Books
      <3>7. \A t : Storing(t)' <=> Storing(t)
        BY <3>1 DEF Storing
      <3>8. RaceUp' /\ RaceBothWays'
        BY <2>1, <3>1, <3>4, <3>5, <3>7 DEF RaceUp, RaceBothWays
      <3>9. QED
        BY <3>2, <3>3, <3>6, <3>8 DEF SharedInv
    <2>5. QED
      BY <2>2, <2>3, <2>4 DEF SharedNext, SharedEnded
  <1>3. QED
    BY <1>1, <1>2, PTL DEF SharedSpec

(* A reader's iterator is good until its last use, and the two pieces of a protected line
   come out together: what was found under a lock holds until it is released. *)
THEOREM SectionsAreWhole == SharedSpec => []CriticalSectionsWhole
  <1>1. SharedInv => CriticalSectionsWhole
    <2> SUFFICES ASSUME SharedInv, NEW t \in Members, ~Finished(t)
                 PROVE  /\ Section(t)[step[t]] = "use" => loaded[t] = counter
                        /\ Section(t)[step[t]] = "rest" /\ Has(CodeOf(t), "lock") => loaded[t] = atomicCounter
      BY DEF CriticalSectionsWhole
    <2>1. SharedTypes /\ StillThere
      BY DEF SharedInv
    <2>2. Section(t) \in Sections /\ step[t] \in 1..Len(Section(t)) /\ CodeOf(t) \in Codes
      <3>1. Section(t) \in Sections /\ CodeOf(t) \in Codes
        BY <2>1, TeamFacts
      <3>2. Len(Section(t)) \in Nat /\ step[t] \in Nat \ {0}
        BY <2>1, <3>1, StepsDiffer DEF SharedTypes
      <3>3. QED
        BY <3>1, <3>2 DEF Finished
    <2>3. CASE Section(t)[step[t]] = "use"
      <3>1. Section(t) = ReadLocked /\ step[t] = 3
        BY <2>2, <2>3, StepsOccur
      <3>2. QED
        BY <2>1, <2>3, <3>1 DEF StillThere
    <2>4. CASE Section(t)[step[t]] = "rest" /\ Has(CodeOf(t), "lock")
      <3>1. (Section(t) = <<"add", "rest">> /\ step[t] = 2) \/ (Section(t) = WriteLine /\ step[t] = 3)
        BY <2>2, <2>4, StepsOccur
      <3>2. Section(t) # <<"add", "rest">>
        <4>1. \/ Section(t) = CodeOf(t).body
              \/ Section(t) = CodeOf(t).tail /\ CodeOf(t).tail \in {<<>>, ReadModifyWrite, Locked}
          BY <2>2, CodeParts DEF Section
        <4>2. <<"add", "rest">> \notin {<<>>, ReadModifyWrite, Locked}
          BY DEF ReadModifyWrite, Locked
        <4>3. CodeOf(t).body = <<"add", "rest">> => ~Has(CodeOf(t), "lock")
          <5> SUFFICES ASSUME CodeOf(t).body = <<"add", "rest">> PROVE ~Has(CodeOf(t), "lock")
            OBVIOUS
          <5>1. \A k \in 1..Len(CodeOf(t).body) : CodeOf(t).body[k] # "lock"
            OBVIOUS
          <5>2. CodeOf(t).tail = <<>>
            <6>1. <<"add", "rest">> # <<"local">>
              OBVIOUS
            <6>2. QED
              BY <2>2, <6>1, CodeParts
          <5>3. Len(<<>>) = 0 /\ 1..0 = {}
            OBVIOUS
          <5>4. QED
            BY <2>2, <5>1, <5>2, <5>3, HasSteps
        <4>4. QED
          BY <2>4, <4>1, <4>2, <4>3
      <3>3. QED
        BY <2>1, <2>4, <3>1, <3>2 DEF StillThere
    <2>5. QED
      BY <2>3, <2>4
  <1>2. QED
    BY <1>1, SharedInvariance, PTL

(* What the threads change under a lock, or with an atomic, adds up: with all threads joined
   the counters are what the teams that count have added, and no change is lost. *)
THEOREM NothingIsLost == SharedSpec => []ProtectedIsExact
  <1>1. SharedInv => ProtectedIsExact
    <2> SUFFICES ASSUME SharedInv, AllJoined
                 PROVE  /\ Guarded => counter = Total("store")
                        /\ atomicCounter = Total("add") + Total("rest")
      BY DEF ProtectedIsExact
    <2>1. SharedTypes /\ Books
      BY DEF SharedInv
    <2>2. \A s : Total(s) = Before(s) + Made(s)
      BY <2>1, TotalIs, JoinedMade
    <2>3. Guarded => ~Races(program[phase])
      <3>1. 1 \in Members /\ CodeOf(1) \in Codes
        BY <2>1, TeamFacts
      <3>2. QED
        BY <2>1, <3>1, OneKind, RacingIs DEF Guarded
    <2>4. QED
      BY <2>1, <2>2, <2>3 DEF Books
  <1>2. QED
    BY <1>1, SharedInvariance, PTL

(* Without a lock changes are lost, but not more than this: of any number of threads that
   count, with two rounds or more each, two changes remain; and deposits and withdrawals
   leave the pot in their range. *)
THEOREM LossIsBounded == SharedSpec => []LostUpdatesBounded
  <1>1. SharedInv => LostUpdatesBounded
    <2> SUFFICES ASSUME SharedInv, AllJoined, ~Guarded
                 PROVE  /\ \A t \in Members : CodeOf(t).amount = -1 => counter \in -Iterations..Iterations
                        /\ (\A t \in Members : CodeOf(t).amount = 1) => counter \in 2..TeamSize * Iterations
      BY DEF LostUpdatesBounded
    <2>1. SharedTypes /\ RaceUp /\ RaceBothWays
      BY DEF SharedInv
    <2>2. Races(program[phase])
      <3>1. PICK t \in Members : Has(CodeOf(t), "store") /\ ~Has(CodeOf(t), "lock")
        BY DEF Guarded
      <3>2. QED
        BY <2>1, <3>1, TeamFacts, OneKind, RacingIs
    <2>3. \A t \in Members : Passed(t, "store") = Needed(CodeOf(t), "store")
      BY <2>1, JoinedPassed DEF AllJoined
    <2>4. CASE SavesFreely(program[phase])
      <3>1. Members = 1..2 /\ CodeOf(2).amount = -1
        BY <2>1, <2>4, PotAdds
      <3>2. Passed(1, "store") = Iterations /\ Passed(2, "store") = Iterations
        BY <2>1, <2>3, <2>4, <3>1, PotAdds
      <3>3. counter \in -Iterations..Iterations
        BY <2>1, <2>4, <3>2 DEF RaceBothWays
      <3>4. QED
        BY <3>1, <3>3
    <2>5. CASE CountsFreely(program[phase])
      <3>1. \A t \in Members : CodeOf(t) \in Counting
        BY <2>5 DEF CountsFreely, CodeOf, Members
      <3>2. \A t \in Members : CodeOf(t).amount = 1 /\ CodeOf(t).times = Iterations /\ Has(CodeOf(t), "store")
        BY <3>1, CountingAdds
      <3>3. Made("store") = TeamSize * Iterations
        <4>1. Made("store") = PhaseTotal(phase, "store")
          BY <2>1, JoinedMade
        <4>2. PhaseTotal(phase, "store")
                = Sum([t \in Members |-> IF Has(CodeOf(t), "store") THEN CodeOf(t).times * CodeOf(t).amount ELSE 0])
          BY DEF PhaseTotal, Members, CodeOf
        <4>3. Iterations \in Int /\ Iterations * 1 = Iterations /\ TeamSize \in Nat
          BY SharedDataAssumption
        <4>4. [t \in Members |-> IF Has(CodeOf(t), "store") THEN CodeOf(t).times * CodeOf(t).amount ELSE 0]
                = [t \in Members |-> Iterations]
          BY <3>2, <4>3
        <4>5. Members = 1..TeamSize
          BY <2>5 DEF CountsFreely, Members
        <4>6. IsFiniteSet(Members) /\ Cardinality(Members) = TeamSize
          BY <4>3, <4>5, FS_Interval
        <4>7. Sum([t \in Members |-> Iterations]) = Cardinality(Members) * Iterations
          BY <4>3, <4>6, SumOfEquals
        <4>8. QED
          BY <4>1, <4>2, <4>4, <4>6, <4>7
      <3>4. counter <= TeamSize * Iterations /\ counter >= 2
        <4>1. \A t \in Members : ~(Passed(t, "store") < Needed(CodeOf(t), "store"))
          BY <2>3, <3>1, CountingAdds
        <4>2. QED
          BY <2>1, <2>5, <3>3, <4>1 DEF RaceUp
      <3>5. counter \in 2..TeamSize * Iterations
        <4>1. counter \in Int /\ TeamSize * Iterations \in Int
          BY <2>1, SharedDataAssumption DEF SharedTypes
        <4>2. QED
          BY <3>4, <4>1
      <3>6. \A t \in Members : CodeOf(t).amount # -1
        BY <3>2
      <3>7. QED
        BY <3>5, <3>6
    <2>6. QED
      BY <2>2, <2>4, <2>5 DEF Races
  <1>2. QED
    BY <1>1, SharedInvariance, PTL
=============================================================================
