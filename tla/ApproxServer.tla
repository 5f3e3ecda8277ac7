---------------------------- MODULE ApproxServer ----------------------------
(***************************************************************************)
(* approx-server.cpp: one thread that polls its descriptors, accepts at    *)
(* most one player and then serves slot after slot.  A step is the part of *)
(* a turn between two looks at the clock or at a connection, so players    *)
(* and time move in between.  Times are relative to the present, in        *)
(* seconds: a response is due in so many, -1 when its time has passed.     *)
(***************************************************************************)
EXTENDS ApproxProtocol, FiniteSetsExt, Functions, SequencesExt

CONSTANTS
  m,          \* config.m: valid PUTs in a game
  Lowercase,  \* Lowercase[p]: lowercase letters of p's id
  DISCONNECT_TIMEOUT

ASSUME ServerAssumption ==
  m \in Nat /\ Lowercase \in [Player -> Nat] /\ DISCONNECT_TIMEOUT \in Nat

BAD_PUT_DELAY == 1

VARIABLES
  running,        \* FALSE when the process has ended, whatever the reason
  fds,            \* descriptors of the slots, -1 for a free one
  revents,        \* what poll reported for each slot
  client_map,     \* Client records by descriptor
  received_puts,
  next_line,      \* first unread line of the COEFF file
  slot,           \* slot being served, 0 in poll
  parsing,        \* the slot is past recv
  sock            \* sock[fd]: the player behind an open descriptor

table == <<fds, client_map, received_puts, sock>>
serverVars == <<running, table, revents, next_line, slot, parsing>>

FD == 1..Cardinality(Player)

\* A Client{}; operator[] of the map inserts one under a missing key.  Its
\* connect_time of 0 is long ago, unless the process is young (KeepMadeUp).
DefaultClient ==
  [coeffs |-> 0, state |-> <<>>, retarded_responses |-> <<>>,
   write_buffer |-> <<>>, read_buffer |-> <<>>, player_id |-> NoOne,
   age |-> DISCONNECT_TIMEOUT + 1, received_hello |-> FALSE,
   sent_puts |-> 0, score |-> 0]
ClientAt(fd) ==
  IF fd \in DOMAIN client_map THEN client_map[fd] ELSE DefaultClient
Without(fd) == Restrict(client_map, DOMAIN client_map \ {fd})

\* clients[fd] = c
Assign(clients, fd, c) ==
  [f \in DOMAIN clients \cup {fd} |-> IF f = fd THEN c ELSE clients[f]]

Init_server ==
  /\ running = TRUE
  /\ fds = <<>> /\ revents = <<>> /\ client_map = <<>>
  /\ received_puts = 0 /\ next_line = 1
  /\ slot = 0 /\ parsing = FALSE
  /\ sock = [fd \in FD |-> NoOne]

-----------------------------------------------------------------------------
(* Responses that wait in the multimap retarded_responses.                 *)

insert(waiting, due, line) ==
  LET n == Cardinality({i \in DOMAIN waiting : waiting[i].due <= due})
  IN InsertAt(waiting, n + 1, [due |-> due, line |-> line])

\* The multimap is sorted, so what is ready comes first.
process_retarded_messages(c) ==
  LET waiting == c.retarded_responses
      ready == Cardinality({i \in DOMAIN waiting : waiting[i].due <= 0})
  IN [c EXCEPT
        !.write_buffer = @ \o [i \in 1..ready |-> waiting[i].line],
        !.retarded_responses = SubSeq(waiting, ready + 1, Len(waiting))]

\* lower_bound(now) is begin() although something waits.
AnswerPending(c) ==
  c.retarded_responses # <<>> /\ c.retarded_responses[1].due >= 0

\* A second passes.  The age matters only until the HELLO.
Sooner(response) ==
  [response EXCEPT !.due = IF @ < 0 THEN @ ELSE @ - 1]
Older(c) ==
  [c EXCEPT
     !.retarded_responses = [i \in DOMAIN @ |-> Sooner(@[i])],
     !.age = IF @ > DISCONNECT_TIMEOUT \/ c.received_hello THEN @ ELSE @ + 1]
Tick ==
  /\ client_map' = [fd \in DOMAIN client_map |-> Older(client_map[fd])]
  /\ UNCHANGED <<running, fds, revents, received_puts, next_line, slot,
                 parsing, sock, conn>>

-----------------------------------------------------------------------------
(* Connections as the server sees them                                     *)

Close(fd) ==
  /\ sock' = [sock EXCEPT ![fd] = NoOne]
  /\ conn' = IF sock[fd] = NoOne THEN conn
             ELSE [conn EXCEPT ![sock[fd]] = CloseServer(@)]

\* A mutant: the PUTs of a client that leaves still count.
ForgetKeepsPuts(fd) == UNCHANGED received_puts /\ Close(fd)

\* Everything disconnect_client does but clearing the slot.
Forget(fd) ==
  /\ received_puts' = received_puts - ClientAt(fd).sent_puts
  /\ Close(fd)
disconnect_client(fd) ==
  /\ Forget(fd)
  /\ fds' = [fds EXCEPT ![slot] = -1]

\* The process ends; the kernel closes what it had open.
Exit ==
  /\ running' = FALSE
  /\ conn' = [p \in Player |-> CloseServer(conn[p])]
  /\ fds' = <<>> /\ revents' = <<>> /\ client_map' = <<>>
  /\ received_puts' = 0 /\ slot' = 0 /\ parsing' = FALSE
  /\ sock' = [fd \in FD |-> NoOne]
  /\ UNCHANGED next_line

\* The events of a descriptor.  A closed one gives POLLNVAL; the lines are
\* short enough for a connection always to have room for them.
Events(fd) ==
  IF sock[fd] = NoOne \/ conn[sock[fd]].reset THEN {"HUP"}
  ELSE LET c == conn[sock[fd]]
       IN {"OUT"} \cup {e \in {"IN"} : c.up # <<>> \/ c.client = "closed"}

\* accept: the lowest free descriptor, in the first free slot.
accept_connection(p) ==
  LET fd == Min({f \in FD : sock[f] = NoOne})
      free == {i \in DOMAIN fds : fds[i] < 0}
  IN /\ fds' = IF free = {} THEN Append(fds, fd)
               ELSE [fds EXCEPT ![Min(free)] = fd]
     /\ client_map' =
          Assign(client_map, fd,
                 [DefaultClient EXCEPT !.state = [j \in Points |-> 0],
                                       !.age = 0])
     /\ sock' = [sock EXCEPT ![fd] = p]
     /\ conn' = [conn EXCEPT ![p].server = "open"]
     /\ UNCHANGED received_puts

\* The loop over the slots skips free ones.
SlotAfter(i, slots) ==
  Min({Len(slots) + 1} \cup {j \in DOMAIN slots : j > i /\ slots[j] >= 0})

Poll ==
  /\ running /\ slot = 0
  /\ IF received_puts < m /\ Backlog # {}
     THEN \E p \in Backlog : accept_connection(p)
     ELSE UNCHANGED <<table, conn>>
  /\ revents' = [i \in DOMAIN fds' |->
       IF i \in DOMAIN fds /\ fds[i] >= 0 THEN Events(fds[i]) ELSE {}]
  /\ slot' = SlotAfter(0, fds')
  /\ UNCHANGED <<running, next_line, parsing>>

-----------------------------------------------------------------------------
(* Messages.  A handler returns the new record of the client, whether the  *)
(* message was valid, and how many valid PUTs it was.                      *)

Handled(c, valid, puts) == [client |-> c, valid |-> valid, puts |-> puts]

ReadsCoeff(line, c) ==
  line.type = "HELLO" /\ line.ok /\ ~c.received_hello

handle_hello(line, c) ==
  IF ~ReadsCoeff(line, c) THEN Handled(c, FALSE, 0)
  ELSE Handled([c EXCEPT
                  !.player_id = line.id, !.received_hello = TRUE, !.age = 0,
                  !.write_buffer = Append(@, CoeffLine(next_line)),
                  !.coeffs = next_line], TRUE, 0)

\* A mutant: only the point is checked.
InBoundsAnyValue(line) == line.point \in Points
InBounds(line) == line.point \in Points /\ line.value \in -5..5

Penalise(line, c) ==
  [c EXCEPT
     !.retarded_responses = insert(@, 0, Refusal("PENALTY", line)),
     !.score = @ + 20]

Reject(line, c) ==
  [c EXCEPT
     !.retarded_responses = insert(@, BAD_PUT_DELAY,
                                   Refusal("BAD_PUT", line)),
     !.score = @ + 10]

Count(line, c) ==
  [c EXCEPT
     !.sent_puts = @ + 1,
     !.state[line.point] = @ + line.value,
     !.retarded_responses = insert(@, Lowercase[c.player_id], build_state)]

handle_put(line, c) ==
  LET early == ~c.received_hello \/ AnswerPending(c)
      c1 == IF early THEN Penalise(line, c) ELSE c
  IN IF ~(line.ok /\ InBounds(line)) THEN Handled(Reject(line, c1), FALSE, 0)
     ELSE IF early THEN Handled(c1, FALSE, 0)
     ELSE Handled(Count(line, c1), TRUE, 1)

Handle(line, c) ==
  CASE line.type = "HELLO" -> handle_hello(line, c)
    [] line.type = "PUT"   -> handle_put(line, c)
    [] OTHER               -> Handled(c, FALSE, 0)

-----------------------------------------------------------------------------
(* One slot of a turn                                                      *)

Serving == running /\ slot \in DOMAIN fds
NextSlot == slot' = SlotAfter(slot, fds) /\ parsing' = FALSE
MayRead == received_puts < m /\ "IN" \in revents[slot]
Rest == <<running, revents, next_line>>

HangUp ==
  /\ Serving /\ ~parsing
  /\ "HUP" \in revents[slot]
  /\ disconnect_client(fds[slot])
  /\ client_map' = Without(fds[slot])
  /\ NextSlot
  /\ UNCHANGED Rest

Reading == Serving /\ ~parsing /\ MayRead /\ "HUP" \notin revents[slot]
HasData(fd) == LET p == sock[fd] IN ~conn[p].reset /\ conn[p].up # <<>>

\* receive_messages succeeds; the caller takes that for a failure and goes
\* on to the next slot.
receive_messages ==
  /\ Reading /\ HasData(fds[slot])
  /\ LET fd == fds[slot]
         p == sock[fd]
     IN /\ client_map' =
             Assign(client_map, fd,
                    [ClientAt(fd) EXCEPT !.read_buffer = @ \o conn[p].up])
        /\ conn' = [conn EXCEPT ![p].up = <<>>]
  /\ NextSlot
  /\ UNCHANGED <<fds, received_puts, sock, Rest>>

\* End of file or an error; the caller goes on with descriptor -1, for which
\* the map makes up a client.
ReceiveFails ==
  /\ Reading /\ ~HasData(fds[slot])
  /\ disconnect_client(fds[slot])
  /\ client_map' = Assign(Without(fds[slot]), -1, ClientAt(-1))
  /\ NextSlot
  /\ UNCHANGED Rest

current == ClientAt(fds[slot])
Handling ==
  Serving /\ (parsing \/ (~MayRead /\ "HUP" \notin revents[slot]))
HasLine == received_puts < m /\ current.read_buffer # <<>>
FileExhausted ==
  ReadsCoeff(Head(current.read_buffer), current) /\ next_line > Len(Poly)

\* A PUT the pattern refuses may be the bare word, which ends before the
\* arguments that substr(PUT_SIZE) takes for the answer.
PutRefused ==
  LET line == Head(current.read_buffer) IN line.type = "PUT" /\ ~line.ok

\* A turn of parse_loop.  Without a line for the player parse_coeff throws,
\* and for a bare PUT handle_put does; nobody catches either.
parse_loop ==
  /\ Handling /\ HasLine
  /\ LET fd == fds[slot]
         line == Head(current.read_buffer)
         r == Handle(line, [current EXCEPT !.read_buffer = Tail(@)])
     IN \/ (FileExhausted \/ PutRefused) /\ Exit
        \/ /\ ~FileExhausted /\ ~r.valid /\ ~r.client.received_hello
           /\ disconnect_client(fd)
           /\ client_map' = Without(fd)
           /\ NextSlot
           /\ UNCHANGED Rest
        \/ /\ ~FileExhausted /\ (r.valid \/ r.client.received_hello)
           /\ client_map' = Assign(client_map, fd, r.client)
           /\ received_puts' = received_puts + r.puts
           /\ next_line' = IF ReadsCoeff(line, current)
                           THEN next_line + 1 ELSE next_line
           /\ parsing' = TRUE
           /\ UNCHANGED <<running, fds, revents, slot, sock, conn>>

Serve == Handling /\ ~HasLine
served == process_retarded_messages(current)
HelloTooLate == served.age > DISCONNECT_TIMEOUT /\ ~served.received_hello
Sends == ~HelloTooLate /\ served.write_buffer # <<>> /\ "OUT" \in revents[slot]
CanSend == ~conn[sock[fds[slot]]].reset

DropSilent ==
  /\ Serve /\ HelloTooLate
  /\ disconnect_client(fds[slot])
  /\ client_map' = Without(fds[slot])
  /\ NextSlot
  /\ UNCHANGED Rest

KeepWaiting ==
  /\ Serve /\ ~HelloTooLate /\ ~Sends
  /\ client_map' = Assign(client_map, fds[slot], served)
  /\ NextSlot
  /\ UNCHANGED <<fds, received_puts, sock, Rest, conn>>

\* Another slot has closed the descriptor of this one.  The client the map
\* makes up is not too late while the process is young.  It is the same each
\* time it is made up, is gone when the slot hangs up in the next turn, and
\* ends the process in end_game as if it were not there; the model therefore
\* does not enter it.
KeepMadeUp ==
  /\ Serve /\ fds[slot] \notin DOMAIN client_map
  /\ NextSlot
  /\ UNCHANGED <<table, Rest, conn>>

send_messages ==
  /\ Serve /\ Sends /\ CanSend
  /\ client_map' = Assign(client_map, fds[slot],
                          [served EXCEPT !.write_buffer = <<>>])
  /\ conn' = [conn EXCEPT ![sock[fds[slot]]].down = @ \o served.write_buffer]
  /\ NextSlot
  /\ UNCHANGED <<fds, received_puts, sock, Rest>>

\* send fails: disconnect_client clears the slot of a copy of fds.  With
\* EPIPE the signal SIGPIPE, which nobody catches, ends the process.
SendFails ==
  /\ Serve /\ Sends /\ ~CanSend
  /\ \/ /\ Forget(fds[slot])
        /\ client_map' = Without(fds[slot])
        /\ NextSlot
        /\ UNCHANGED <<fds, Rest>>
     \/ Exit

-----------------------------------------------------------------------------
(* The end of a turn and of a game                                         *)

TurnOver == running /\ slot > Len(fds) /\ slot > 0
\* A mutant: the game ends with the last valid PUT.
AllAnsweredIgnored == TRUE
AllAnswered ==
  \A fd \in DOMAIN client_map : client_map[fd].retarded_responses = <<>>
GameOver == TurnOver /\ received_puts = m /\ AllAnswered

NextTurn ==
  /\ TurnOver /\ ~GameOver
  /\ slot' = 0
  /\ UNCHANGED <<table, Rest, parsing, conn>>

Taken == {fds[i] : i \in DOMAIN fds} \ {-1}
Square(x) == x * x
Sum(f) == FoldFunction(+, 0, f)
Deviation(c) ==
  Sum([j \in Points |-> Square(poly_val(c.coeffs, j) - c.state[j])])

\* Every client of the map is in the scoring, in some order.
Scoring ==
  LET All == SetToSeq(DOMAIN client_map)
  IN [i \in DOMAIN All |->
        LET c == client_map[All[i]]
        IN [id |-> c.player_id,
            score |-> IF All[i] \in Taken THEN c.score + Deviation(c)
                      ELSE c.score]]

\* A slot whose client is gone has an empty state, read past its end.
\* SIGPIPE is the other way to end here.
end_game ==
  /\ GameOver
  /\ \/ /\ \/ \E fd \in Taken : ClientAt(fd).state = <<>>
           \/ \E fd \in Taken : sock[fd] # NoOne /\ conn[sock[fd]].reset
        /\ Exit
     \/ /\ \A fd \in Taken : ClientAt(fd).state # <<>>
        /\ conn' = [p \in Player |->
             IF \E fd \in Taken : sock[fd] = p
             THEN CloseServer([conn[p] EXCEPT
                                 !.down = Append(@, build_scoring(Scoring))])
             ELSE conn[p]]
        /\ received_puts' = received_puts
             - Sum([fd \in Taken |-> client_map[fd].sent_puts])
        /\ client_map' = Restrict(client_map, DOMAIN client_map \ Taken)
        /\ fds' = [i \in DOMAIN fds |-> -1]
        /\ sock' = [fd \in FD |-> IF fd \in Taken THEN NoOne ELSE sock[fd]]
        /\ slot' = 0
        /\ UNCHANGED <<Rest, parsing>>

\* SIGINT, seen at the head of the loop.
Stop == running /\ slot = 0 /\ Exit

ServerStep ==
  \/ Poll
  \/ HangUp \/ receive_messages \/ ReceiveFails
  \/ parse_loop
  \/ DropSilent \/ KeepWaiting \/ KeepMadeUp \/ send_messages \/ SendFails
  \/ NextTurn \/ end_game

=============================================================================
