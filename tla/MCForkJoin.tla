------------------------------ MODULE MCForkJoin ------------------------------
(* Fixed ranges of up to seven elements for one to three threads; the primes below 12,
   27 and 52 with chunks of 10: one, three and six reservations, squares of 5 and 7.
   Next to them the merge sort, of the 16 numbers of main() with the limits of the code, and
   of up to six numbers with limits so small that both end the recursion.  The two programs
   do not touch each other: whenever one has a choice to make the other has next to none. *)
EXTENDS ForkJoin, MergeSort

Fixed == {"parallel_sum", "fake_image_processing", "parallel_image_filter",
          "parallel_matrix_multiplication"}

MCExercises ==
  [name : Fixed, size : 1..7, threads : 1..3]
    \cup [name : {"multiple_async_tasks"}, size : {3}, threads : {3}]
    \cup [name : {"parallel_prime_number_finder"}, size : {12, 27, 52}, threads : 1..2]

Least == [name |-> "parallel_sum", size |-> 1, threads |-> 1]

Input(s, threshold, depth) ==
  [unorderedData |-> s, minThreshold |-> threshold, maxDepth |-> depth]

LeastInput == Input(<<1>>, 1, 0)

MCInputs ==
  {Input(<<38, 27, 43, 3, 9, 82, 10, 19, 50, 12, 7, 64, 25, 31, 88, 5>>, 4, 4)}
    \cup {LeastInput} \cup {Input(s, 1, 0) : s \in [1..5 -> 1..3]}
    \cup {Input(s, 1, 1) : s \in [1..6 -> 1..2]}

EachInit == ForkInit /\ SortInit /\ (exercise = Least \/ input = LeastInput)
EachNext == \/ ForkNext /\ UNCHANGED sortVars
            \/ SortNext /\ UNCHANGED forkVars
EachSpec == EachInit /\ [][EachNext]_<<forkVars, sortVars>>
=============================================================================
