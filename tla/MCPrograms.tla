----------------------------- MODULE MCPrograms -----------------------------
(* The instance of Programs for TLC.                                       *)
EXTENDS Programs

Recursion == INSTANCE ReferenceSearch

\* Gates of two inputs or none, of two, and of one.
Arities == <<{0, 2}, {2}, {1}>>

\* Knights <<gold, weapon, armour>>, as operands of every kind of fight.
Entrants ==
  {[gold |-> k[1], weapon |-> k[2], armour |-> k[3]] :
     k \in {<<1, 2, 0>>, <<2, 0, 2>>, <<3, 1, 2>>, <<1, 3, 1>>, <<2, 2, 2>>}}

\* The explicit stack finds the solution the recursion finds: the same
\* multisets in the same order, not only the same sum.
AgreesWithReference ==
  program = "search" /\ Search!Done => best = Recursion!Reference(input)

=============================================================================
