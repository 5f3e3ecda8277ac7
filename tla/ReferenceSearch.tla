-------------------------- MODULE ReferenceSearch --------------------------
(***************************************************************************)
(* The recursion of reference/main.c of the hypothesis verification task,  *)
(* which the other two programs split up or unroll.                        *)
(***************************************************************************)
EXTENDS Sumsets

RECURSIVE Solve(_, _, _, _), SolveFrom(_, _, _, _, _)

\* solve(a, b): the best solution so far is passed on.
Solve(best, input, a, b) ==
  IF a.sum > b.sum THEN Solve(best, input, b, a)
  ELSE IF IsTrivial(a, b) THEN SolveFrom(best, input, a, b, a.last)
  ELSE IF IsSolution(a, b) /\ b.sum > best.sum
       THEN SolutionBuild(best, input, a, b)
       ELSE best

\* Its loop, from element i on.
SolveFrom(best, input, a, b, i) ==
  IF i > D THEN best
  ELSE SolveFrom(IF i \in b.sums THEN best
                 ELSE Solve(best, input, SumsetAdd(a, i), b),
                 input, a, b, i + 1)

Reference(input) ==
  Solve(NoSolution, input, StartSumset(input.a), StartSumset(input.b))

=============================================================================
