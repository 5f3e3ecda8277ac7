------------------------- MODULE NonrecursiveSearch -------------------------
(***************************************************************************)
(* The solver of nonrecursive/main.c of the hypothesis verification task   *)
(* (Year2/Concurrent Programming/Task2): its explicit stack as a machine   *)
(* whose step is one turn of the while loop, started on every input of at  *)
(* most MaxInput elements in each of A_0 and B_0.                          *)
(***************************************************************************)
EXTENDS Sumsets, Sequences

CONSTANT MaxInput   \* bound on the size of the input multisets

VARIABLES
  input,  \* the multisets A_0 and B_0
  stack,  \* frames, the current one last
  best    \* best_solution

vars == <<input, stack, best>>

Inputs ==
  {m \in [Element -> 0..MaxInput] :
     SumFunction(m) <= MaxInput /\ \A i \in Element : m[i] > 0 => i <= D}

Frame(a, b, last) ==
  [a |-> a, b |-> b, last |-> last, intersect |-> IsTrivial(a, b)]

Init ==
  /\ \E m, k \in Inputs : input = [a |-> m, b |-> k]
  /\ stack = <<Frame(StartSumset(input.a), StartSumset(input.b), 1)>>
  /\ best = NoSolution

current == stack[Len(stack)]

\* The two sumsets of the current frame, the one of smaller sum first.
Swapped == current.a.sum > current.b.sum
Smaller == IF Swapped THEN current.b ELSE current.a
Greater == IF Swapped THEN current.a ELSE current.b

\* Elements the loop of the current frame has still to try.
ToTry == {i \in current.last..D : i \notin Greater.sums}

\* Mutant of FirstElement: a child always goes on from the element added.
SameElement(i) == i

\* The first element a child will try: that of its smaller sumset.
FirstElement(i) == IF Smaller.sum + i <= Greater.sum THEN i ELSE Greater.last

\* A child is pushed for the next element.
Extend ==
  /\ stack # <<>>
  /\ current.intersect /\ ToTry # {}
  /\ LET i == Min(ToTry)
     IN  stack' = [stack EXCEPT ![Len(stack)].last = i + 1]
           \o <<Frame(SumsetAdd(Smaller, i), Greater, FirstElement(i))>>
  /\ UNCHANGED <<input, best>>

Pop == stack' = SubSeq(stack, 1, Len(stack) - 1)

\* No element is left to try.
Backtrack ==
  /\ stack # <<>>
  /\ current.intersect /\ ToTry = {}
  /\ Pop
  /\ UNCHANGED <<input, best>>

\* The two sumsets have more than 0 in common.
Leaf ==
  /\ stack # <<>>
  /\ ~current.intersect
  /\ best' = IF IsSolution(Smaller, Greater) /\ Greater.sum > best.sum
             THEN SolutionBuild(best, input, Smaller, Greater)
             ELSE best
  /\ Pop
  /\ UNCHANGED input

Next == Extend \/ Backtrack \/ Leaf

Spec == Init /\ [][Next]_vars

-----------------------------------------------------------------------------
(* Properties.                                                             *)

Done == stack = <<>>

\* MAX_STACK_SIZE frames are enough for every input.
StackFits == Len(stack) <= MAX_D * MAX_D + 1

\* Multisets of numbers up to D, of a weight no solution exceeds.
Bounded ==
  LET Limit == D * (D - 1)
      With(m, i) ==
        {[m EXCEPT ![i] = c] : c \in 0..(Limit - Weight(m)) \div i}
  IN FoldSet(LAMBDA i, ms : UNION {With(m, i) : m \in ms}, {Empty}, 1..D)

\* Uncontestable pairs by definition: equal sums, and no other equal sums of
\* sub-multisets than the empty and the full ones.
Uncontestable ==
  {p \in Bounded \X Bounded :
     /\ Weight(p[1]) = Weight(p[2])
     /\ SubsetSums(p[1]) \cap SubsetSums(p[2]) = {0, Weight(p[1])}}

Supersets ==
  {p \in Uncontestable : Included(input.a, p[1]) /\ Included(input.b, p[2])}

\* A pair whose last missing element is a whole multiset: the other multiset,
\* already complete, holds its value among its sums and the loop skips it.
CompletedByOne(p) ==
  \/ input.a = Empty /\ input.b = p[2] /\ SumFunction(p[1]) = 1
  \/ input.b = Empty /\ input.a = p[1] /\ SumFunction(p[2]) = 1

Greatest(S) == Max({Weight(p[1]) : p \in S} \cup {0})

\* Of the pairs that are not completed by a single element, a greatest one is
\* found, and it is an uncontestable superset of the input.
FindsGreatest ==
  Done =>
    /\ best.sum = Greatest({p \in Supersets : ~CompletedByOne(p)})
    /\ best.sum > 0 => <<best.a, best.b>> \in Supersets

=============================================================================
