------------------------------- MODULE MergeSort -------------------------------
(* multithreaded_merge_sort: a call forks a thread for the left half, sorts the right half
   itself, joins and merges.  The calls form a binary tree: a call is the path that leads to
   it from main()'s, "left" on a new thread, "right" on its caller's.  Sorting and merging a
   range take time: they have a beginning and an end, so that two of them may overlap. *)
EXTENDS Integers, SequencesExt

CONSTANTS Inputs   \* what main() may sort: [unorderedData, minThreshold, maxDepth]

ASSUME MergeSortAssumption ==
  \A i \in Inputs : /\ i.unorderedData \in Seq(Int)
                    /\ i.minThreshold \in Nat \ {0} /\ i.maxDepth \in Nat

VARIABLES input,
          data,    \* the vector, sorted in place
          call     \* of each node: [at, begin, end, currentDepth], the end excluded

sortVars == <<input, data, call>>

Root     == <<>>
Left(k)  == Append(k, "left")
Right(k) == Append(k, "right")

\* The calls that may come about.
Nodes == UNION {[1..n -> {"left", "right"}] : n \in 0..input.maxDepth + 1}

NoCall == [at |-> "none", begin |-> 0, end |-> 0, currentDepth |-> 0]
Call(begin, end, depth) == [at |-> "called", begin |-> begin, end |-> end, currentDepth |-> depth]

SortInit == /\ input \in Inputs
            /\ data = input.unorderedData
            /\ call = [k \in Nodes |-> IF k = Root THEN Call(1, Len(data) + 1, 0) ELSE NoCall]

-----------------------------------------------------------------------------
elementCount(k) == call[k].end - call[k].begin

middle(k) == call[k].begin + elementCount(k) \div 2

Part(begin, end) == SubSeq(data, begin, end - 1)

\* data, with s written from begin on.
Written(begin, s) == [i \in DOMAIN data |-> IF i - begin + 1 \in DOMAIN s THEN s[i - begin + 1] ELSE data[i]]

\* What std::inplace_merge makes of two sequences: the smaller of their heads comes first,
\* that of the left one if they are equal, whether they are sorted or not.
Merged(a, b) ==
  LET m[left \in (0..Len(a)) \X (0..Len(b))] ==   \* how many of a and of b are left
        LET i == left[1]  j == left[2] IN
        IF i = 0 THEN SubSeq(b, Len(b) - j + 1, Len(b))
        ELSE IF j = 0 THEN SubSeq(a, Len(a) - i + 1, Len(a))
        ELSE LET x == a[Len(a) - i + 1]  y == b[Len(b) - j + 1] IN
             IF y < x THEN <<y>> \o m[<<i, j - 1>>] ELSE <<x>> \o m[<<i - 1, j>>]
  IN  m[<<Len(a), Len(b)>>]

Ascending(s) == \A i, j \in DOMAIN s : i < j => s[i] <= s[j]

Occurrences(s, x) == Cardinality({i \in DOMAIN s : s[i] = x})

SameElements(s, t) == \A x \in ToSet(s) \cup ToSet(t) : Occurrences(s, x) = Occurrences(t, x)

-----------------------------------------------------------------------------
Moves(k, from, to) == call[k].at = from /\ call' = [call EXCEPT ![k].at = to]

Stops(k) == elementCount(k) <= input.minThreshold \/ call[k].currentDepth > input.maxDepth

\* std::sort, of what is not divided any further; mutant: short ranges only are sorted.
Arranged(s) == CHOOSE t \in [DOMAIN s -> ToSet(s)] : Ascending(t) /\ SameElements(t, s)
SortedBug(s) == IF Len(s) <= input.minThreshold THEN Arranged(s) ELSE s
Sorted(s) == Arranged(s)

BeginsSort(k) == Stops(k) /\ Moves(k, "called", "sorting") /\ UNCHANGED <<input, data>>

EndsSort(k) == /\ Moves(k, "sorting", "done")
               /\ data' = Written(call[k].begin, Sorted(Part(call[k].begin, call[k].end)))
               /\ UNCHANGED input

\* The thread for the left half, and the call for the right one.
Forks(k) ==
  /\ call[k].at = "called" /\ ~Stops(k)
  /\ LET depth == call[k].currentDepth + 1 IN
     call' = [call EXCEPT ![k].at = "waits",
                          ![Left(k)]  = Call(call[k].begin, middle(k), depth),
                          ![Right(k)] = Call(middle(k), call[k].end, depth)]
  /\ UNCHANGED <<input, data>>

JoinedBug(k) == call[Right(k)].at = "done"   \* mutant: the left thread is not joined
Joined(k) == call[Left(k)].at = "done" /\ call[Right(k)].at = "done"

BeginsMerge(k) == Moves(k, "waits", "merging") /\ Joined(k) /\ UNCHANGED <<input, data>>

EndsMerge(k) ==
  /\ Moves(k, "merging", "done")
  /\ data' = Written(call[k].begin,
                     Merged(Part(call[k].begin, middle(k)), Part(middle(k), call[k].end)))
  /\ UNCHANGED input

SortEnded == call[Root].at = "done" /\ UNCHANGED sortVars

Node(k) == BeginsSort(k) \/ EndsSort(k) \/ Forks(k) \/ BeginsMerge(k) \/ EndsMerge(k)

SortNext == (\E k \in Nodes : Node(k)) \/ SortEnded

SortSpec == SortInit /\ [][SortNext]_sortVars

-----------------------------------------------------------------------------
Working == {k \in Nodes : call[k].at \in {"sorting", "merging"}}

\* No two threads work on one element at a time: what is sorted or merged in place is in
\* nobody else's hands, neither a sibling's nor a child's that was not joined.
NoRace == \A j, k \in Working : j # k => call[j].end <= call[k].begin \/ call[k].end <= call[j].begin

\* "ricombinare le due meta ordinate": when main()'s call returns the vector is sorted, and
\* holds what it held, whatever the depth at which threads were no longer forked.
SortedAtTheEnd ==
  call[Root].at = "done" => Ascending(data) /\ SameElements(data, input.unorderedData)
=============================================================================
