-------------------------- MODULE MCParallelSearch --------------------------
(* Instances of ParallelSearch for TLC.                                    *)
EXTENDS ParallelSearch, TLC

\* A tree of six calls: 1 calls 2 and 3, 2 calls 4 and 5, 3 calls 6; the
\* leaves 5 and 6 find solutions.
SixCalls == 1..6
SixChildren ==
  (1 :> {2, 3}) @@ (2 :> {4, 5}) @@ (3 :> {6}) @@ [x \in 4..6 |-> {}]
SixValues == (5 :> 7) @@ (6 :> 9) @@ [x \in 1..4 |-> 0]

=============================================================================
