--------------------------- MODULE ApproxProtocol ---------------------------
(***************************************************************************)
(* The great approximator (Year2/Computer Networks/Task2): what a server   *)
(* and its players say to each other, and the TCP connections they say it  *)
(* on.  A line is a record; protocol.cpp splits the byte streams back into *)
(* the lines that were written, so a stream is a sequence of lines.        *)
(***************************************************************************)
EXTENDS Integers, Sequences, FiniteSets

CONSTANTS
  Player,  \* the client programs; each of them connects once
  NoOne,   \* the empty player id; also "no connection" behind a descriptor
  k,       \* config.k: the points are 0..k
  Poly     \* lines of the COEFF file: the values of a polynomial at 0..k

ASSUME ProtocolAssumption ==
  /\ IsFiniteSet(Player) /\ NoOne \notin Player
  /\ k \in Nat /\ Poly \in Seq([0..k -> Int])

VARIABLE conn   \* conn[p]: the connection of player p

Points == 0..k

\* poly_val(coeffs, x), for the polynomial on the given line of the file, 0
\* for no coefficients; what it is beyond the points does not matter.
poly_val(line, x) == IF line > 0 /\ x \in Points THEN Poly[line][x] ELSE 0

-----------------------------------------------------------------------------
(* Lines.  Arguments that do not match the pattern of the type are         *)
(* represented by the flag ok.                                             *)

Line(type, ok) == [type |-> type, ok |-> ok]

build_hello(p) == [type |-> "HELLO", ok |-> TRUE, id |-> p]
build_put(point, value) ==
  [type |-> "PUT", ok |-> TRUE, point |-> point, value |-> value]
CoeffLine(line) == [type |-> "COEFF", ok |-> TRUE, line |-> line]

\* STATE carries k + 1 values; only how many is read by the players.
build_state == [type |-> "STATE", ok |-> TRUE, size |-> k + 1]

\* BAD_PUT and PENALTY repeat the arguments of the PUT they answer.
Refusal(type, put) == Line(type, put.ok)

\* The pattern ^SCORING ([a-zA-Z0-9]+ \d+(\.\d{0,7})?)+$ has no separator
\* between players, and an empty id does not match.
validate_scoring(scoring) == Len(scoring) = 1 /\ scoring[1].id # NoOne
build_scoring(scoring) ==
  [type |-> "SCORING", ok |-> validate_scoring(scoring), scoring |-> scoring]

-----------------------------------------------------------------------------
(* Connections.  up and down are the lines on their way to the server and  *)
(* to the player; server and client are the states of the two ends.  A     *)
(* line that meets a closed end resets the connection.                     *)

Unconnected ==
  [up |-> <<>>, down |-> <<>>, server |-> "none", client |-> "idle",
   reset |-> FALSE]

\* Players whose connections the server has yet to accept.
Backlog == {p \in Player : conn[p].server = "queued"}

\* The ends after a side closes; lines nobody will read are dropped.
CloseServer(c) ==
  IF c.client = "open" THEN [c EXCEPT !.server = "closed"]
  ELSE [Unconnected EXCEPT !.server = "closed", !.client = c.client]
CloseClient(c) ==
  IF c.server # "closed" THEN [c EXCEPT !.client = "closed"]
  ELSE [Unconnected EXCEPT !.server = "closed", !.client = "closed"]

Reset(p) ==
  /\ ~conn[p].reset
  /\ \/ conn[p].server = "closed" /\ conn[p].up # <<>>
     \/ conn[p].client = "closed" /\ conn[p].down # <<>>
  /\ conn' = [conn EXCEPT ![p].reset = TRUE]

=============================================================================
