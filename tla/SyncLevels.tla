----------------------------- MODULE SyncLevels -----------------------------
(***************************************************************************)
(* What the synchronisation levels of peer-time-sync promise, whatever the *)
(* messages and timers behind them: a node that does not lead either       *)
(* follows a node or is unsynchronised, and its level only rises by        *)
(* becoming unsynchronised first.                                          *)
(***************************************************************************)
EXTENDS Integers

CONSTANTS Node, None

VARIABLES
  hops,    \* distance from a leader each node claims; 255: unsynchronised
  source   \* node each node follows

Init ==
  /\ hops = [n \in Node |-> 255]
  /\ source = [n \in Node |-> None]

\* An operator makes n a leader.
Lead(n) ==
  /\ hops[n] # 0
  /\ hops' = [hops EXCEPT ![n] = 0]
  /\ source' = [source EXCEPT ![n] = None]

\* n stops leading, or gives up the node it follows.
Orphan(n) ==
  /\ hops[n] # 255
  /\ hops' = [hops EXCEPT ![n] = 255]
  /\ source' = [source EXCEPT ![n] = None]

\* n follows p: strictly closer to a leader than before, or no further when p
\* is the node n follows already.
Follow(n, p) ==
  /\ p # n
  /\ hops'[n] \in 1..254
  /\ hops'[n] < hops[n] \/ (p = source[n] /\ hops'[n] = hops[n])
  /\ hops' = [hops EXCEPT ![n] = hops'[n]]
  /\ source' = [source EXCEPT ![n] = p]

Next ==
  \E n \in Node :
    \/ Lead(n)
    \/ Orphan(n)
    \/ \E p \in Node : Follow(n, p)

Spec == Init /\ [][Next]_<<hops, source>>
=============================================================================
