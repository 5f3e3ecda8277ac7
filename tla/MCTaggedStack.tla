--------------------------- MODULE MCTaggedStack ---------------------------
(* Instances of TaggedStack for TLC.                                       *)
EXTENDS TaggedStack, TLC

CONSTANTS t1, t2, t3, d1, d2, d3, a1, a2, a3

ThreeThreads == {t1, t2, t3}
ThreeItems == {d1, d2, d3}
ThreeAddrs == {a1, a2, a3}

\* Threads, payloads and addresses are interchangeable.
Symmetry ==
  Permutations(ThreeThreads) \cup Permutations(ThreeItems)
    \cup Permutations(ThreeAddrs)
=============================================================================
