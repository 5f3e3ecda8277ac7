------------------------------ MODULE PeerJoin ------------------------------
(***************************************************************************)
(* How nodes of peer-time-sync come to know each other: HELLO at the start *)
(* to one known peer, HELLO_REPLY with the peers it knows, CONNECT to each *)
(* of them and ACK_CONNECT back, over UDP.  A datagram once sent may be    *)
(* delivered at any time, any number of times, or never.  A node that is   *)
(* restarted keeps its address and forgets the rest.                       *)
(***************************************************************************)
EXTENDS FiniteSets, Integers, Sequences, SequencesExt

CONSTANTS
  Node,
  NoNode,
  Contacts,    \* peer_address of each node, the combinations to be checked
  EntrySizes,  \* bytes a node writes per entry of a list, combinations
  MaxStarts    \* bound on the lives of a node

ASSUME NodeAssumption ==
  IsFiniteSet(Node) /\ Contacts \subseteq [Node -> Node \cup {NoNode}]

HELLO_REPLY_SIZE == 3
MAX_PACKET_SIZE == 65507

\* What hello_handler writes and what hello_reply_handler expects.  Every
\* node of this program writes lists of WrittenSize; one of ReadSize runs
\* another program, whose lists hello_reply_handler reads.
WrittenSize == 8
ReadSize == 7

VARIABLES
  contact,  \* config.peer_address
  entry,    \* bytes per entry of the lists a node sends
  starts,   \* lives of a node so far
  up,       \* whether it runs
  peers,
  pending,  \* pending_peers
  net,      \* datagrams sent
  failed    \* whether a sendto has failed

vars == <<contact, entry, starts, up, peers, pending, net, failed>>
config == <<contact, entry>>
node == <<starts, up>>

Datagram(type, from, to) == [type |-> type, from |-> from, to |-> to]
Reply(from, to, list, size) ==
  [type |-> "HELLO_REPLY", from |-> from, to |-> to, list |-> list,
   len |-> HELLO_REPLY_SIZE + size * Len(list)]

Init ==
  /\ contact \in Contacts /\ entry \in EntrySizes
  /\ starts = [n \in Node |-> 0]
  /\ up = [n \in Node |-> FALSE]
  /\ peers = [n \in Node |-> {}]
  /\ pending = [n \in Node |-> {}]
  /\ net = {}
  /\ failed = FALSE

\* sendto, for some of the datagrams it may fail.
Send(out) ==
  \E sent \in SUBSET out :
    /\ net' = net \cup sent
    /\ failed' = (failed \/ sent # out)

\* The HELLO is sent once; nothing repeats it.
Start(n) ==
  /\ ~up[n] /\ starts[n] < MaxStarts
  /\ up' = [up EXCEPT ![n] = TRUE]
  /\ starts' = [starts EXCEPT ![n] = @ + 1]
  /\ Send({Datagram("HELLO", n, c) : c \in {contact[n]} \ {NoNode}})
  /\ UNCHANGED <<config, peers, pending>>

Crash(n) ==
  /\ up[n]
  /\ up' = [up EXCEPT ![n] = FALSE]
  /\ peers' = [peers EXCEPT ![n] = {}]
  /\ pending' = [pending EXCEPT ![n] = {}]
  /\ UNCHANGED <<config, starts, net, failed>>

-----------------------------------------------------------------------------
(* Handlers of node n                                                      *)

Refuse == UNCHANGED <<peers, pending, net, failed>>

\* As hello_handler, without the test for a known peer.
hello_handler_again(n, from) ==
  \/ /\ \E list \in SetToSeqs(peers[n]) :
          net' = net \cup {Reply(n, from, list, entry[n])}
     /\ peers' = [peers EXCEPT ![n] = @ \cup {from}]
     /\ UNCHANGED <<pending, failed>>
  \/ failed' = TRUE /\ UNCHANGED <<peers, pending, net>>


\* The newcomer becomes a peer when the reply has been sent; a failed sendto
\* leaves everything as it was.
hello_handler(n, from) ==
  IF \/ from \in peers[n]
     \/ HELLO_REPLY_SIZE + ReadSize * Cardinality(peers[n]) > MAX_PACKET_SIZE
  THEN Refuse
  ELSE \/ /\ \E list \in SetToSeqs(peers[n]) :
               net' = net \cup {Reply(n, from, list, entry[n])}
          /\ peers' = [peers EXCEPT ![n] = @ \cup {from}]
          /\ UNCHANGED <<pending, failed>>
       \/ failed' = TRUE /\ UNCHANGED <<peers, pending, net>>

\* As hello_reply_handler, the addresses forgotten once CONNECT was sent.
hello_reply_handler_forget(n, from, list, len) ==
  IF from # contact[n] \/ len # HELLO_REPLY_SIZE + ReadSize * Len(list)
     \/ Len(list) > 1
  THEN Refuse
  ELSE /\ pending' = [pending EXCEPT ![n] = {}]
       /\ peers' = [peers EXCEPT ![n] = @ \cup {from}]
       /\ Send({Datagram("CONNECT", n, m) : m \in pending[n] \cup ToSet(list)})

\* The reader does not step over the port of an entry: it takes its first
\* byte for the length of the next address and gives up after the first
\* entry.  (Ports 1024 to 1279, which begin with that length, are left out.)
hello_reply_handler(n, from, list, len) ==
  IF from # contact[n] \/ len # HELLO_REPLY_SIZE + ReadSize * Len(list)
  THEN Refuse
  ELSE IF list # <<>> /\ Head(list) \in {n, from}
  THEN /\ pending' = [pending EXCEPT ![n] = {}]
       /\ UNCHANGED <<peers, net, failed>>
  ELSE /\ pending' = [pending EXCEPT ![n] =
                        @ \cup {list[i] : i \in DOMAIN list \cap {1}}]
       /\ IF Len(list) > 1 THEN UNCHANGED <<peers, net, failed>>
          ELSE /\ peers' = [peers EXCEPT ![n] = @ \cup {from}]
               /\ Send({Datagram("CONNECT", n, m) : m \in pending'[n]})

connect_handler(n, from) ==
  IF from \in pending[n] THEN Refuse
  ELSE /\ peers' = [peers EXCEPT ![n] = @ \cup {from}]
       /\ Send({Datagram("ACK_CONNECT", n, from)})
       /\ UNCHANGED pending

ack_connect_handler(n, from) ==
  IF from \notin pending[n] THEN Refuse
  ELSE /\ pending' = [pending EXCEPT ![n] = @ \ {from}]
       /\ peers' = [peers EXCEPT ![n] = @ \cup {from}]
       /\ UNCHANGED <<net, failed>>

Handle(d) ==
  \/ d.type = "HELLO" /\ hello_handler(d.to, d.from)
  \/ d.type = "HELLO_REPLY" /\ hello_reply_handler(d.to, d.from, d.list, d.len)
  \/ d.type = "CONNECT" /\ connect_handler(d.to, d.from)
  \/ d.type = "ACK_CONNECT" /\ ack_connect_handler(d.to, d.from)

\* A node drops what seems to come from itself.
Receive ==
  /\ \E d \in net : up[d.to] /\ d.from # d.to /\ Handle(d)
  /\ UNCHANGED <<config, node>>

Next == (\E n \in Node : Start(n) \/ Crash(n)) \/ Receive

Spec == Init /\ [][Next]_vars

-----------------------------------------------------------------------------
(* Properties                                                              *)

FirstLife(n) == up[n] /\ starts[n] = 1

\* While nobody has been restarted, a node knows another one that does not
\* know it only for a reason that the other can still see: it is the
\* other's contact, or an address the other waits on (lines 214, 294, 309,
\* 331-333), however datagrams were lost, repeated or overtaken.
AsymmetryExplained ==
  \A n, m \in Node :
    (FirstLife(n) /\ FirstLife(m) /\ m \in peers[n] /\ n \notin peers[m])
      => (n = contact[m] \/ n \in pending[m])

\* Nothing is left to be received that would have an effect.
Quiet == ~ENABLED <<Receive>>_<<peers, pending, net>>

\* No sendto failed and nobody has been restarted.
Lossless == ~failed /\ \A n \in Node : FirstLife(n)

\* The lists of m that n takes for well formed and reads to their end: the
\* empty one and, if they come from another program, lists of one entry.
ListsRead(n, m) ==
  {d.list : d \in {r \in net :
     /\ r.type = "HELLO_REPLY" /\ r.from = m /\ r.to = n
     /\ r.len = HELLO_REPLY_SIZE + ReadSize * Len(r.list)
     /\ Len(r.list) <= 1}}
Named(n, m) ==
  \E from \in Node : \E list \in ListsRead(n, from) : m \in ToSet(list)


\* No list sent holds the address of its reader or of its sender, restarts
\* and stale datagrams included: a HELLO from a known peer is refused (line
\* 179), so that lines 276-281, which would also drop every address that
\* still waits, never have to act between nodes that follow the protocol.
ListsAreNews ==
  \A d \in net : d.type = "HELLO_REPLY"
    => ToSet(d.list) \cap {d.from, d.to} = {}

=============================================================================
