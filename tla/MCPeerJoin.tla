----------------------------- MODULE MCPeerJoin -----------------------------
(* Three nodes in all that may happen to them, or four that start once,    *)
(* lose nothing but what is not delivered, and have any contacts, so that  *)
(* lists get longer and two nodes may come to wait on each other.  Each    *)
(* node is one of this program or one whose lists its reader accepts.      *)
EXTENDS PeerJoin

CONSTANT fourth

MCContacts ==
  {f \in [Node -> Node \cup {NoNode}] :
     /\ \A n \in Node : f[n] # n
     /\ f[fourth] = NoNode => \A n \in Node : f[n] # fourth}
MixedSizes == [Node -> {ReadSize, WrittenSize}]

Bound ==
  IF contact[fourth] = NoNode THEN starts[fourth] = 0
  ELSE ~failed /\ \A n \in Node : starts[n] = 0 \/ FirstLife(n)

Symmetry == Permutations(Node \ {fourth})

=============================================================================
