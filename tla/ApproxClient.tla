---------------------------- MODULE ApproxClient ----------------------------
(***************************************************************************)
(* approx-client.cpp, for every player.  A turn of run_client is one step: *)
(* what happens elsewhere during it can as well happen before or after.    *)
(* Players of mode OTHER are programs that send lines as they please.      *)
(***************************************************************************)
EXTENDS ApproxProtocol, SequencesExt

CONSTANTS
  MaxLines,  \* bound on the lines a person types or an OTHER player sends
  Typed      \* the PUTs among them

ASSUME ClientAssumption ==
  /\ MaxLines \in Nat
  /\ \A put \in Typed : /\ put = build_put(put.point, put.value)
                       /\ put.point \in Nat /\ put.value \in Int

VARIABLE cl   \* cl[p]: ClientState, mode and "running" of player p

StartK == 1000

NewPlayer(mode, p) ==
  [running |-> TRUE, mode |-> mode, write_buffer |-> <<build_hello(p)>>,
   read_buffer |-> <<>>, coeff_buffer |-> <<>>, received_coeff |-> FALSE,
   coeffs |-> 0, put_eligible |-> FALSE, sent |-> 0, K |-> StartK,
   lines |-> 0]

Init_client(Modes) ==
  \E mode \in Modes : cl = [p \in Player |-> NewPlayer(mode[p], p)]

\* main connects before anything else; without a server it gives up.
Connect(p) ==
  /\ cl[p].running /\ conn[p].client = "idle"
  /\ IF conn[p].server = "closed"
     THEN cl' = [cl EXCEPT ![p].running = FALSE] /\ UNCHANGED conn
     ELSE /\ conn' = [conn EXCEPT ![p].client = "open",
                                  ![p].server = "queued"]
          /\ UNCHANGED cl

-----------------------------------------------------------------------------
(* handle_message: an invalid line is only reported.                       *)

Automatic(c) == c.mode = "AUTOMATIC"

handle_coeff(c, line) ==
  IF ~line.ok \/ c.received_coeff THEN c
  ELSE LET c1 == [c EXCEPT !.coeffs = line.line, !.received_coeff = TRUE]
       IN IF Automatic(c) THEN [c1 EXCEPT !.put_eligible = TRUE]
          ELSE [c1 EXCEPT !.write_buffer = @ \o c.coeff_buffer,
                          !.coeff_buffer = <<>>]

Understood(c, line) == line.ok /\ c.received_coeff

handle_scoring(c, line) ==
  IF Understood(c, line) THEN [c EXCEPT !.running = FALSE] ELSE c

\* A mutant: a refused PUT is not taken for an answer.
handle_refusal_ignored(c, line) == c

\* BAD_PUT and PENALTY.
handle_refusal(c, line) ==
  IF Understood(c, line) /\ Automatic(c)
  THEN [c EXCEPT !.put_eligible = TRUE] ELSE c

handle_state(c, line) ==
  IF Understood(c, line) /\ Automatic(c)
  THEN [c EXCEPT !.put_eligible = TRUE, !.K = line.size] ELSE c

handle_message(c, line) ==
  CASE line.type = "COEFF"                -> handle_coeff(c, line)
    [] line.type = "SCORING"              -> handle_scoring(c, line)
    [] line.type \in {"BAD_PUT", "PENALTY"} -> handle_refusal(c, line)
    [] line.type = "STATE"                -> handle_state(c, line)
    [] OTHER                              -> c

-----------------------------------------------------------------------------
(* One turn                                                                *)

\* A mutant: the next PUT does not wait for an answer.
automatic_put_hasty(c) ==
  [c EXCEPT !.write_buffer = Append(@, build_put(c.sent,
                                                 poly_val(c.coeffs, c.sent))),
            !.sent = @ + 1]

automatic_put(c) ==
  [c EXCEPT !.write_buffer = Append(@, build_put(c.sent,
                                                 poly_val(c.coeffs, c.sent))),
            !.sent = @ + 1, !.put_eligible = FALSE]

\* A typed line waits for the COEFF.
read_stdin(c, put) ==
  IF c.received_coeff
  THEN [c EXCEPT !.write_buffer = Append(@, put), !.lines = @ + 1]
  ELSE [c EXCEPT !.coeff_buffer = Append(@, put), !.lines = @ + 1]

\* What a player may be after the mode's own part of the turn.
Moves(c) ==
  IF Automatic(c)
  THEN {IF c.put_eligible /\ c.sent <= c.K THEN automatic_put(c) ELSE c}
  ELSE {c} \cup (IF c.lines < MaxLines
                 THEN {read_stdin(c, put) : put \in Typed} ELSE {})

Open(p) == cl[p].running /\ conn[p].client = "open"
Leave(p) ==
  /\ cl' = [cl EXCEPT ![p].running = FALSE]
  /\ conn' = [conn EXCEPT ![p] = CloseClient(@)]

\* wait_on_poll reports POLLHUP before what is still to be read.
HungUp(p) == Open(p) /\ conn[p].reset /\ Leave(p)

\* recv asks for sizeof(char *) bytes, so a turn completes at most one line.
received(p, c) ==
  IF conn[p].down # <<>>
  THEN [c EXCEPT !.read_buffer = Append(@, Head(conn[p].down))]
  ELSE IF conn[p].server = "closed" THEN [c EXCEPT !.running = FALSE]
  ELSE c

\* send, parse_loop, the mode's own part, recv.
Turn(p) ==
  /\ Open(p) /\ ~conn[p].reset /\ cl[p].mode # "OTHER"
  /\ LET idle == [cl[p] EXCEPT !.write_buffer = <<>>, !.read_buffer = <<>>]
         parsed == FoldLeft(handle_message, idle, cl[p].read_buffer)
     IN \E moved \in Moves(parsed) :
          LET c == received(p, moved)
          IN /\ cl' = [cl EXCEPT ![p] = c]
             /\ LET after == [conn[p] EXCEPT
                                !.up = @ \o cl[p].write_buffer,
                                !.down = IF @ = <<>> THEN @ ELSE Tail(@)]
                IN conn' = [conn EXCEPT ![p] = IF c.running THEN after
                                               ELSE CloseClient(after)]

\* SIGINT, or the end of the process.
Quit(p) == Open(p) /\ Leave(p)

\* Some other program: any line, read or not.
OtherLines(p) ==
  Typed \cup {build_hello(p), Line("PUT", FALSE), Line("STATE", FALSE)}
Say(p) ==
  /\ Open(p) /\ ~conn[p].reset /\ cl[p].mode = "OTHER"
  /\ cl[p].lines < MaxLines
  /\ \E line \in OtherLines(p) :
       conn' = [conn EXCEPT ![p].up = Append(@, line), ![p].down = <<>>]
  /\ cl' = [cl EXCEPT ![p].lines = @ + 1]

=============================================================================
