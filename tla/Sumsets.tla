------------------------------ MODULE Sumsets ------------------------------
(***************************************************************************)
(* The data of the hypothesis verification task (Year2/Concurrent          *)
(* Programming/Task2, common/): multisets of numbers up to MAX_D, the      *)
(* sumsets that represent them, and how a solution is read back from two   *)
(* sumsets.  A multiset maps each number to its multiplicity; a sumset     *)
(* carries the set of its bits, and the elements its prev pointers lead to.*)
(***************************************************************************)
EXTENDS Integers, FiniteSets, FiniteSetsExt, Functions

CONSTANTS
  D,      \* input_data.d: greatest element that may be added
  MAX_D   \* size of the arrays: greatest element there is room for

ASSUME DAssumption == D \in Nat /\ MAX_D \in Nat /\ 3 <= D /\ D <= MAX_D

Element == 1..MAX_D

Empty == [i \in Element |-> 0]
Plus(m, x) == [m EXCEPT ![x] = @ + 1]
Union(m, k) == [i \in Element |-> m[i] + k[i]]
Weight(m) == SumFunction([i \in Element |-> i * m[i]])
Included(m, k) == \A i \in Element : m[i] <= k[i]

\* The values of the sub-multisets of m.
SubsetSums(m) ==
  FoldSet(LAMBDA i, sums : {s + i * k : s \in sums, k \in 0..m[i]}, {0}, Element)

\* read_multiset: a sumset with last = 1 and no prev.
StartSumset(m) ==
  [last |-> 1, sum |-> Weight(m), sums |-> SubsetSums(m), added |-> Empty,
   start |-> SubsetSums(m)]

\* Mutant of SumsetAdd: the sums with the new element are not added.
SumsetStale(s, x) ==
  [s EXCEPT !.last = x, !.sum = @ + x, !.added = Plus(@, x)]

\* Mutant of SumsetAdd: the shifted bits replace the old ones.
SumsetShift(s, x) ==
  [s EXCEPT !.last = x, !.sum = @ + x, !.sums = {v + x : v \in @} \cup {0},
            !.added = Plus(@, x)]

SumsetAdd(s, x) ==
  [s EXCEPT !.last = x, !.sum = @ + x, !.sums = @ \cup {v + x : v \in @},
            !.added = Plus(@, x)]

IsTrivial(a, b) == a.sums \cap b.sums = {0}

IntersectionSize(a, b) == Cardinality(a.sums \cap b.sums)

\* The branch that records a solution: {0, sum} is all the two have in common.
IsSolution(a, b) == a.sum = b.sum /\ IntersectionSize(a, b) = 2

NoSolution == [sum |-> 0, a |-> Empty, b |-> Empty]

\* multiset_init leaves the last element of the array as it was.
Recover(old, s) ==
  [i \in Element |-> s.added[i] + (IF i = MAX_D THEN old[i] ELSE 0)]

\* solution_build: whichever of the two started from A_0 becomes A.
SolutionBuild(old, input, a, b) ==
  LET first == Recover(old.a, a)
      second == Recover(old.b, b)
  IN  IF a.start = SubsetSums(input.a)
      THEN [sum |-> a.sum, a |-> Union(first, input.a), b |-> Union(second, input.b)]
      ELSE [sum |-> a.sum, a |-> Union(second, input.a), b |-> Union(first, input.b)]

=============================================================================
