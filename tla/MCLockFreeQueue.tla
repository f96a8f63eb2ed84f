--------------------------- MODULE MCLockFreeQueue ---------------------------
(* One producer and one consumer on memory that is reused; two of each on memory that
   is not (a late thread reads of a deleted node what it held), with spurious failures. *)
EXTENDS LockFreeQueue

OneByOne == [pairs |-> 1, items |-> 3, reuse |-> TRUE, failures |-> 0]
TwoByTwo == [pairs |-> 2, items |-> 1, reuse |-> FALSE, failures |-> 1]

MCScenarios == {OneByOne, TwoByTwo}
MCTwoByTwo == {TwoByTwo}
=============================================================================
