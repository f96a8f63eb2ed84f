------------------------------- MODULE ForkJoin -------------------------------
(* The exercises that split a range of elements among threads, join them and put the
   results together: parallel_sum, fake_image_processing, parallel_image_filter,
   parallel_matrix_multiplication and multiple_async_tasks hand out fixed ranges,
   parallel_prime_number_finder lets its threads reserve chunks from an atomic index.
   What a thread computes for an element depends on the element alone: Value is a function. *)
EXTENDS Integers, Sequences, FiniteSets, SequencesExt

CONSTANTS Exercises,   \* what may run: [name, size, threads]
          chunkSize    \* of parallel_prime_number_finder

ASSUME ForkJoinAssumption ==
  /\ chunkSize \in Nat \ {0}
  /\ \A e \in Exercises :
       /\ e.name \in {"parallel_sum", "fake_image_processing", "parallel_image_filter",
                      "parallel_matrix_multiplication", "multiple_async_tasks",
                      "parallel_prime_number_finder"}
       /\ e.size \in Nat /\ e.threads \in Nat \ {0}
       /\ e.name = "multiple_async_tasks" => e.threads = e.size   \* a task for each element

VARIABLES exercise,
          launched,       \* loop variable of the launching loop
          startRow,       \* where the next range of a matrix starts
          currentIndex,   \* atomic: where the next chunk starts
          stage, next, end,  \* of each thread: the elements next..end-1 are still to do
          done,           \* the elements each thread has dealt with, in order
          result          \* what was put together

range == <<next, end>>
forkVars == <<exercise, launched, startRow, currentIndex, stage, range, done, result>>

ForkedThreads == 0..exercise.threads - 1
last(i) == i = exercise.threads - 1

ForkInit == /\ exercise \in Exercises
            /\ launched = 0 /\ startRow = 0 /\ currentIndex = 1
            /\ stage = [i \in ForkedThreads |-> "unborn"]
            /\ next = [i \in ForkedThreads |-> 0] /\ end = [i \in ForkedThreads |-> 0]
            /\ done = [i \in ForkedThreads |-> <<>>]
            /\ result = <<>>

-----------------------------------------------------------------------------
(* The range of thread i, the end excluded *)

Slice(start, stop) == [start |-> start, stop |-> stop]

elementsPerThread == exercise.size \div exercise.threads

ParallelSumBug(i) ==   \* mutant: the remainder of the division is nobody's
  Slice(i * elementsPerThread, (i + 1) * elementsPerThread)

ParallelSum(i) ==
  Slice(i * elementsPerThread, IF last(i) THEN exercise.size ELSE (i + 1) * elementsPerThread)

FakeImages(i) ==
  Slice(i * elementsPerThread, IF last(i) THEN exercise.size ELSE (i + 1) * elementsPerThread)

\* size is usableHeight: the first and the last row have no neighbours on one side.
BlurRows(i) ==
  Slice(1 + i * elementsPerThread,
        IF last(i) THEN exercise.size + 1 ELSE 1 + (i + 1) * elementsPerThread)

remainingRows == exercise.size % exercise.threads

MatrixRowsBug(i) ==   \* mutant: i <= remainingRows
  Slice(startRow, startRow + elementsPerThread + IF i <= remainingRows THEN 1 ELSE 0)

MatrixRows(i) ==
  Slice(startRow, startRow + elementsPerThread + IF i < remainingRows THEN 1 ELSE 0)

\* One task for each element.
AsyncTask(i) == Slice(i + 1, i + 2)

FixedRange(i) == CASE exercise.name = "parallel_sum"                   -> ParallelSum(i)
                   [] exercise.name = "fake_image_processing"          -> FakeImages(i)
                   [] exercise.name = "parallel_image_filter"          -> BlurRows(i)
                   [] exercise.name = "parallel_matrix_multiplication" -> MatrixRows(i)
                   [] exercise.name = "multiple_async_tasks"           -> AsyncTask(i)

Dynamic == exercise.name = "parallel_prime_number_finder"

\* The primality test of parallel_prime_number_finder: divisors 2, 3, 6k-1 and 6k+1.
isPrime(number) ==
  /\ number > 1
  /\ number > 3 => /\ number % 2 # 0 /\ number % 3 # 0
                   /\ \A i \in 5..number : i % 6 = 5 /\ i * i <= number
                                             => number % i # 0 /\ number % (i + 2) # 0

-----------------------------------------------------------------------------
(* What is computed for an element: a row of the blurred image, in one colour, a row of the
   product of the two matrices of main(), whose rows are repeated if there are more. *)

width == 4   \* 4000 in the code, of an image that is random there

Pixel(i) == (31 * i * i + 7) % 256

neighborIdx(y, x, d) == (y + d[1]) * width + x + d[2]

Blurred(y) == [x \in 1..width - 2 |->
  SumFunction([d \in (-1..1) \X (-1..1) |-> Pixel(neighborIdx(y, x, d))]) \div 9]

matrixA == << <<1, 2, 3, 4>>, <<5, 6, 7, 8>>, <<9, 1, 2, 3>>, <<4, 5, 6, 7>> >>
matrixB == << <<1, 0, 2, 0>>, <<0, 3, 0, 4>>, <<5, 0, 6, 0>>, <<0, 7, 0, 8>> >>

ProductRow(i) == [j \in 1..4 |->
  SumFunction([k \in 1..4 |-> matrixA[(i % 4) + 1][k] * matrixB[k][j]])]

Value(k) == CASE exercise.name = "parallel_image_filter"          -> Blurred(k)
              [] exercise.name = "parallel_matrix_multiplication" -> ProductRow(k)
              [] exercise.name = "multiple_async_tasks"           -> k * 10
              [] OTHER                                            -> k

-----------------------------------------------------------------------------
(* The launching loop *)

LaunchesFixed ==
  /\ ~Dynamic /\ launched < exercise.threads
  /\ LET r == FixedRange(launched) IN
       /\ next' = [next EXCEPT ![launched] = r.start] /\ end' = [end EXCEPT ![launched] = r.stop]
       /\ startRow' = r.stop
       \* the matrix has no thread for an empty range
       /\ stage' = [stage EXCEPT ![launched] =
                   IF exercise.name = "parallel_matrix_multiplication" /\ r.start >= r.stop
                   THEN "joined" ELSE "work"]
  /\ launched' = launched + 1
  /\ UNCHANGED <<exercise, currentIndex, done, result>>

LaunchesDynamic ==
  /\ Dynamic /\ launched < exercise.threads
  /\ stage' = [stage EXCEPT ![launched] = "reserve"]
  /\ launched' = launched + 1
  /\ UNCHANGED <<exercise, startRow, currentIndex, range, done, result>>

-----------------------------------------------------------------------------
(* The threads *)

\* size is maxLimit.
ReservedEnd(start) == IF start + chunkSize < exercise.size THEN start + chunkSize ELSE exercise.size

AddedBug == chunkSize - 1   \* mutant: the next chunk overlaps
Added == chunkSize

\* fetch_add, and min(start + chunkSize, maxLimit).
Reserves(i) ==
  /\ stage[i] = "reserve"
  /\ currentIndex' = currentIndex + Added
  /\ IF currentIndex >= exercise.size
     THEN stage' = [stage EXCEPT ![i] = "merge"] /\ UNCHANGED range
     ELSE /\ stage' = [stage EXCEPT ![i] = "work"]
          /\ next' = [next EXCEPT ![i] = currentIndex]
          /\ end' = [end EXCEPT ![i] = ReservedEnd(currentIndex)]
  /\ UNCHANGED <<exercise, launched, startRow, done, result>>

Works(i) ==
  /\ stage[i] = "work" /\ next[i] < end[i]
  /\ done' = [done EXCEPT ![i] = IF ~Dynamic \/ isPrime(next[i]) THEN Append(@, next[i]) ELSE @]
  /\ next' = [next EXCEPT ![i] = @ + 1]
  /\ UNCHANGED <<exercise, launched, startRow, currentIndex, stage, end, result>>

EndsRange(i) ==
  /\ stage[i] = "work" /\ next[i] >= end[i]
  /\ stage' = [stage EXCEPT ![i] = IF Dynamic THEN "reserve" ELSE "finished"]
  /\ UNCHANGED <<exercise, launched, startRow, currentIndex, range, done, result>>

\* Under resultMutex.
Merges(i) ==
  /\ stage[i] = "merge" /\ stage' = [stage EXCEPT ![i] = "joined"]
  /\ result' = result \o done[i]
  /\ UNCHANGED <<exercise, launched, startRow, currentIndex, range, done>>

\* main() joins the threads, or gets the futures, in the order in which they were started,
\* and takes their results in that order.
Joins(i) ==
  /\ stage[i] = "finished" /\ launched = exercise.threads
  /\ \A j \in 0..i-1 : stage[j] = "joined"
  /\ stage' = [stage EXCEPT ![i] = "joined"]
  /\ result' = result \o [n \in DOMAIN done[i] |-> Value(done[i][n])]
  /\ UNCHANGED <<exercise, launched, startRow, currentIndex, range, done>>

Collected == launched = exercise.threads /\ \A i \in ForkedThreads : stage[i] = "joined"

ForkEnded == Collected /\ UNCHANGED forkVars

Thread(i) == Reserves(i) \/ Works(i) \/ EndsRange(i) \/ Merges(i) \/ Joins(i)

ForkNext == \/ LaunchesFixed \/ LaunchesDynamic
            \/ \E i \in ForkedThreads : Thread(i)
            \/ ForkEnded

ForkSpec == ForkInit /\ [][ForkNext]_forkVars

-----------------------------------------------------------------------------
\* What thread i has done or still has to do.
Share(i) == ToSet(done[i]) \cup next[i]..end[i]-1

\* "porzioni disgiunte ... evitando la necessita di sincronizzazione": no element is, at any
\* time, in the hands of two threads, and so nothing is written twice.
SharesDisjoint ==
  \A i, j \in ForkedThreads : i # j => Share(i) \cap Share(j) = {}

\* The mean of the pixels that are at most one row and one column away.
Around(y, x) == {i \in 0..width * (exercise.size + 2) - 1 :
                   i \div width \in y-1..y+1 /\ i % width \in x-1..x+1}
Mean(y, x) == SumFunction([i \in Around(y, x) |-> Pixel(i)]) \div 9

Product == << <<16, 34, 20, 40>>, <<40, 74, 52, 88>>, <<19, 24, 30, 28>>, <<34, 64, 44, 76>> >>

\* The results in the order in which one thread alone would produce them.
Elements ==
  CASE exercise.name \in {"parallel_sum", "fake_image_processing"}
         -> [k \in 1..exercise.size |-> k - 1]
    [] exercise.name = "parallel_matrix_multiplication"
         -> [k \in 1..exercise.size |-> Product[((k - 1) % 4) + 1]]
    [] exercise.name = "parallel_image_filter"
         -> [k \in 1..exercise.size |-> [x \in 1..width - 2 |-> Mean(k, x)]]
    [] exercise.name = "multiple_async_tasks" -> [k \in 1..exercise.size |-> 10 * k]

Primes == {k \in 2..exercise.size - 1 : \A d \in 2..k-1 : k % d # 0}

\* The result is that of the sequential program, whatever the number of threads, divisor
\* of the size or not, larger than it or not; of the primes only the order may differ.
ResultIsSequential ==
  Collected => IF Dynamic THEN ToSet(result) = Primes /\ Len(result) = Cardinality(Primes)
               ELSE result = Elements
=============================================================================
