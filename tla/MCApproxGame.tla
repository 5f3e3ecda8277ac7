---------------------------- MODULE MCApproxGame ----------------------------
(* An automatic player and one of another kind, two points, two PUTs.      *)
EXTENDS ApproxGame

CONSTANTS auto, other

TwoPolynomials == <<[j \in 0..1 |-> j + 1], [j \in 0..1 |-> 6 - 5 * j]>>
ModeOf == (auto :> {"AUTOMATIC"}) @@ (other :> {"MANUAL", "OTHER"})
OnePut == {build_put(0, 1)}
LowercaseOf == (auto :> 1) @@ (other :> 0)

=============================================================================
