----------------------------- MODULE MCPeerSync -----------------------------
(* Instances of PeerSync for TLC.                                          *)
EXTENDS PeerSync, TLC

CONSTANTS a, b, c

Two == {a, b}
Three == {a, b, c}

TwoSkew == (a :> 0) @@ (b :> 2)
ThreeSkew == (a :> 0) @@ (b :> 2) @@ (c :> 1)

OnlyA == {a}

\* Moments at which an operator sends LEADER.
AtStart == {0}
Twice == {0, 4}

Complete == [n \in Node |-> Node \ {n}]
\* a - b - c: the outer nodes only know the middle one.
Line == (a :> {b}) @@ (b :> {a, c}) @@ (c :> {b})
=============================================================================
