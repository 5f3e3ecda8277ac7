----------------------------- MODULE ApproxGame -----------------------------
(***************************************************************************)
(* The server, its players, the connections between them and time.         *)
(***************************************************************************)
EXTENDS ApproxServer, ApproxClient

CONSTANTS
  Mode,    \* Mode[p]: the modes player p may run in
  Steady   \* players that neither quit nor are killed

ASSUME GameAssumption ==
  /\ Mode \in [Player -> SUBSET {"AUTOMATIC", "MANUAL", "OTHER"}]
  /\ Steady \subseteq Player

vars == <<serverVars, conn, cl>>

Init ==
  /\ Init_server
  /\ conn = [p \in Player |-> Unconnected]
  /\ Init_client({mode \in [Player -> UNION {Mode[p] : p \in Player}] :
                    \A p \in Player : mode[p] \in Mode[p]})

PlayerStep(p) == Connect(p) \/ Turn(p) \/ HungUp(p)

Next ==
  \/ (ServerStep \/ Stop) /\ UNCHANGED cl
  \/ Tick /\ UNCHANGED cl
  \/ \E p \in Player :
       \/ PlayerStep(p) /\ UNCHANGED serverVars
       \/ Say(p) /\ UNCHANGED serverVars
       \/ p \notin Steady /\ Quit(p) /\ UNCHANGED serverVars
       \/ Reset(p) /\ UNCHANGED <<serverVars, cl>>

\* The server and the steady players keep running and time passes; a reset
\* need not arrive.
Fairness ==
  /\ WF_vars(ServerStep /\ UNCHANGED cl)
  /\ WF_vars(Tick /\ UNCHANGED cl)
  /\ \A p \in Steady : WF_vars(PlayerStep(p) /\ UNCHANGED serverVars)

Spec == Init /\ [][Next]_vars /\ Fairness

-----------------------------------------------------------------------------
(* Properties                                                              *)

\* The count that ends the game is the count of the valid PUTs of the players
\* still connected (received_puts and sent_puts, approx-server.cpp:154-163):
\* no disconnection, failed send or reused descriptor makes them differ.
PutsCounted ==
  received_puts = Sum([fd \in DOMAIN client_map |-> client_map[fd].sent_puts])

\* Everything on its way to or from player p.
Records(p) ==
  {client_map[fd] : fd \in {f \in DOMAIN client_map :
                              client_map[f].player_id = p}}
LinesOf(s) == {s[i] : i \in DOMAIN s}
Waiting(c) == [i \in DOMAIN c.retarded_responses |->
                 c.retarded_responses[i].line]
ToPlayer(p) ==
  LinesOf(conn[p].down) \cup LinesOf(cl[p].read_buffer)
  \cup UNION {LinesOf(c.write_buffer) \cup LinesOf(Waiting(c)) :
                c \in Records(p)}

\* An automatic player waits for the answer to each PUT (approx-client.cpp:
\* 345,372-389), so the server never finds one of its PUTs out of order
\* (approx-server.cpp:411-425), however late the answers are.
AutomaticNeverPenalised ==
  \A p \in Player : Automatic(cl[p]) =>
    \A line \in ToPlayer(p) : line.type # "PENALTY"

\* The PUTs of p that the server has not handled.
Unhandled(p) ==
  LET Puts(s) == Cardinality({i \in DOMAIN s : s[i].type = "PUT"})
  IN Puts(cl[p].write_buffer) + Puts(conn[p].up)
     + Sum([c \in Records(p) |-> Puts(c.read_buffer)])

\* The approximation the server keeps for an automatic player is its
\* polynomial at exactly the points it has put so far within the bounds, once
\* each: no PUT is lost, repeated or applied to another client's state.
AutomaticStateExact ==
  \A p \in Player : Automatic(cl[p]) =>
    \A c \in Records(p), j \in Points :
      c.state[j] = IF /\ j < cl[p].sent - Unhandled(p)
                      /\ poly_val(c.coeffs, j) \in -5..5
                   THEN poly_val(c.coeffs, j) ELSE 0

\* When the server ends a game it owes nobody an answer: what handle_put
\* promised has been sent and not only queued (approx-server.cpp:568-596).
NothingOwedAtTheEnd ==
  [][GameOver /\ slot' = 0 /\ running' =>
       \A fd \in DOMAIN client_map :
         client_map[fd].write_buffer = <<>>
         /\ client_map[fd].retarded_responses = <<>>]_vars

\* A steady automatic player gets an answer to every PUT or its connection
\* ends; it never waits for ever.
AutomaticAnswered ==
  \A p \in Steady : cl[p].sent > 0 /\ ~cl[p].put_eligible
                      ~> cl[p].put_eligible \/ ~cl[p].running

\* README.md:40 of Task2 shows "SCORING alice 12.34 bob 45.67": a player of this
\* code accepts the SCORING lines that the server sends it.
ScoringAccepted ==
  \A p \in Player : \A line \in ToPlayer(p) : line.type = "SCORING" => line.ok

=============================================================================
