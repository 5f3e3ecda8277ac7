--------------------------- MODULE PeerJoinProofs ---------------------------
(* Proofs about PeerJoin: who knows whom and what the lists of peers hold, *)
(* for every finite set of nodes, every choice of contacts, any number of  *)
(* restarts and whatever the network does.                                 *)
EXTENDS PeerJoin, FiniteSetTheorems, TLAPS

TypeOK ==
  /\ contact \in [Node -> Node \cup {NoNode}]
  /\ starts \in [Node -> Nat]
  /\ up \in [Node -> BOOLEAN]
  /\ peers \in [Node -> SUBSET Node]
  /\ pending \in [Node -> SUBSET Node]
  /\ \A d \in net :
       /\ d.from \in Node /\ d.to \in Node
       /\ d.type = "HELLO_REPLY" => d.list \in Seq(Node)

\* Whoever runs, is known, or has sent something, has been started; a node
\* that is down knows nobody, and no node knows itself.
Started ==
  /\ \A d \in net : starts[d.from] > 0
  /\ \A n \in Node :
       /\ n \notin peers[n]
       /\ IF up[n] THEN starts[n] > 0 ELSE peers[n] = {}
  /\ \A n \in Node : \A m \in peers[n] : starts[m] > 0

\* What a datagram tells its receiver about a sender in its first life.
Told ==
  \A d \in net :
    /\ d.type = "HELLO" => d.to = contact[d.from]
    /\ FirstLife(d.from) =>
         /\ d.type \in {"HELLO_REPLY", "ACK_CONNECT"} => d.to \in peers[d.from]
         /\ d.type = "CONNECT" => d.to \in peers[d.from] \cup pending[d.from]

\* What is known of a receiver follows from the datagrams it has sent, and
\* these from what it knew then and has not forgotten: pending addresses are
\* only dropped for a list that names its reader, which ListsAreNews excludes.
IInv == TypeOK /\ Started /\ Told /\ ListsAreNews /\ AsymmetryExplained

-----------------------------------------------------------------------------
(* What the handling of a datagram from node from may do to node n, and    *)
(* what n may send then.                                                   *)

\* A datagram d that n may send with the knowledge it has after the step.
Truthful(n, d) ==
  /\ d.from = n /\ d.to \in Node /\ d.type # "HELLO"
  /\ d.type = "HELLO_REPLY" =>
       /\ d.list \in Seq(Node) /\ ToSet(d.list) \cap {d.from, d.to} = {}
       /\ d.to \in peers'[n]
  /\ d.type = "ACK_CONNECT" => d.to \in peers'[n]
  /\ d.type = "CONNECT" => d.to \in pending'[n]

Learns(n, from) ==
  /\ peers' \in [Node -> SUBSET Node] /\ pending' \in [Node -> SUBSET Node]
  /\ \A m \in Node \ {n} : peers'[m] = peers[m] /\ pending'[m] = pending[m]
  /\ peers[n] \subseteq peers'[n] /\ peers'[n] \subseteq peers[n] \cup {from}
  /\ pending[n] \subseteq pending'[n] \cup peers'[n]
  /\ \A d \in net' : d \in net \/ Truthful(n, d)

\* A list of the peers of a node is a sequence of them.
LEMMA ListOfPeers ==
  ASSUME NEW S \in SUBSET Node, NEW list \in SetToSeqs(S)
  PROVE  list \in Seq(Node) /\ ToSet(list) \subseteq S
<1>1. Cardinality(S) \in Nat
  BY NodeAssumption, FS_Subset, FS_CardinalityType
<1>2. list \in [1..Cardinality(S) -> S]
  BY DEF SetToSeqs
<1>3. list \in Seq(Node)
  BY <1>1, <1>2
<1>4. ToSet(list) \subseteq S
  BY <1>2 DEF ToSet
<1> QED
  BY <1>3, <1>4

\* A handler that returns early changes nothing.
LEMMA Refusing ==
  ASSUME TypeOK, Refuse, NEW n \in Node, NEW from \in Node
  PROVE  Learns(n, from)
  BY DEF TypeOK, Refuse, Learns

\* HELLO: the sender becomes a peer once it has been sent the others.
LEMMA HelloLearns ==
  ASSUME TypeOK, Started, NEW n \in Node, NEW from \in Node, n # from,
         hello_handler(n, from)
  PROVE  Learns(n, from)
<1>1. CASE Refuse
  BY <1>1, Refusing
<1>2. CASE failed' = TRUE /\ UNCHANGED <<peers, pending, net>>
  BY <1>2 DEF TypeOK, Learns
<1>3. ASSUME from \notin peers[n], NEW list \in SetToSeqs(peers[n]),
             net' = net \cup {Reply(n, from, list, entry[n])},
             peers' = [peers EXCEPT ![n] = @ \cup {from}],
             UNCHANGED pending
      PROVE  Learns(n, from)
  <2>1. list \in Seq(Node) /\ ToSet(list) \subseteq peers[n]
    BY ListOfPeers DEF TypeOK
  <2>2. ToSet(list) \cap {n, from} = {}
    BY <1>3, <2>1 DEF Started
  <2>3. peers'[n] = peers[n] \cup {from}
    BY <1>3 DEF TypeOK
  <2>4. Truthful(n, Reply(n, from, list, entry[n]))
    BY <2>1, <2>2, <2>3 DEF Truthful, Reply
  <2> QED
    BY <1>3, <2>3, <2>4 DEF Learns, TypeOK
<1> QED
  BY <1>1, <1>2, <1>3 DEF hello_handler

\* HELLO_REPLY: the addresses of the list wait until they answer.
LEMMA HelloReplyLearns ==
  ASSUME TypeOK, ListsAreNews, NEW d \in net, d.type = "HELLO_REPLY",
         hello_reply_handler(d.to, d.from, d.list, d.len)
  PROVE  Learns(d.to, d.from)
<1> DEFINE n == d.to
           from == d.from
           list == d.list
<1>1. n \in Node /\ from \in Node /\ list \in Seq(Node)
  BY DEF TypeOK
<1>2. list # <<>> => Head(list) \notin {n, from}
  <2>1. list # <<>> => 1 \in DOMAIN list /\ Head(list) = list[1]
    BY <1>1
  <2> QED
    BY <2>1 DEF ListsAreNews, ToSet
<1>3. CASE Refuse
  BY <1>1, <1>3, Refusing
<1>4. ASSUME pending' = [pending EXCEPT ![n] =
                           @ \cup {list[i] : i \in DOMAIN list \cap {1}}],
             \/ UNCHANGED <<peers, net, failed>>
             \/ /\ peers' = [peers EXCEPT ![n] = @ \cup {from}]
                /\ Send({Datagram("CONNECT", n, m) : m \in pending'[n]})
      PROVE  Learns(n, from)
  <2>1. {list[i] : i \in DOMAIN list \cap {1}} \subseteq Node
    BY <1>1
  <2>2. /\ pending' \in [Node -> SUBSET Node]
        /\ pending[n] \subseteq pending'[n]
        /\ \A m \in Node \ {n} : pending'[m] = pending[m]
    BY <1>1, <1>4, <2>1 DEF TypeOK
  <2>3. CASE UNCHANGED <<peers, net, failed>>
    BY <1>1, <2>2, <2>3 DEF Learns, TypeOK
  <2>4. CASE /\ peers' = [peers EXCEPT ![n] = @ \cup {from}]
             /\ Send({Datagram("CONNECT", n, m) : m \in pending'[n]})
    <3>1. \A e \in net' :
            e \in net \/ \E m \in pending'[n] : e = Datagram("CONNECT", n, m)
      BY <2>4 DEF Send
    <3>2. \A m \in pending'[n] : Truthful(n, Datagram("CONNECT", n, m))
      BY <1>1, <2>2 DEF Truthful, Datagram
    <3> QED
      BY <1>1, <2>2, <2>4, <3>1, <3>2 DEF Learns, TypeOK
  <2> QED
    BY <1>4, <2>3, <2>4
<1> QED
  BY <1>2, <1>3, <1>4 DEF hello_reply_handler

\* CONNECT: the sender becomes a peer and is told so.
LEMMA ConnectLearns ==
  ASSUME TypeOK, NEW n \in Node, NEW from \in Node, connect_handler(n, from)
  PROVE  Learns(n, from)
<1>1. CASE Refuse
  BY <1>1, Refusing
<1>2. CASE /\ peers' = [peers EXCEPT ![n] = @ \cup {from}]
           /\ Send({Datagram("ACK_CONNECT", n, from)})
           /\ UNCHANGED pending
  <2>1. peers'[n] = peers[n] \cup {from}
    BY <1>2 DEF TypeOK
  <2>2. Truthful(n, Datagram("ACK_CONNECT", n, from))
    BY <2>1 DEF Truthful, Datagram
  <2> QED
    BY <1>2, <2>1, <2>2 DEF Learns, TypeOK, Send
<1> QED
  BY <1>1, <1>2 DEF connect_handler

\* ACK_CONNECT: an address that waited becomes a peer.
LEMMA AckConnectLearns ==
  ASSUME TypeOK, NEW n \in Node, NEW from \in Node,
         ack_connect_handler(n, from)
  PROVE  Learns(n, from)
<1>1. CASE Refuse
  BY <1>1, Refusing
<1>2. CASE /\ pending' = [pending EXCEPT ![n] = @ \ {from}]
           /\ peers' = [peers EXCEPT ![n] = @ \cup {from}]
           /\ UNCHANGED <<net, failed>>
  BY <1>2 DEF Learns, TypeOK
<1> QED
  BY <1>1, <1>2 DEF ack_connect_handler

\* Every handler learns, if anything, the sender.
LEMMA HandleLearns ==
  ASSUME IInv, NEW d \in net, d.from # d.to, Handle(d)
  PROVE  Learns(d.to, d.from)
<1>1. d.from \in Node /\ d.to \in Node
  BY DEF IInv, TypeOK
<1> QED
  BY <1>1, HelloLearns, HelloReplyLearns, ConnectLearns, AckConnectLearns
     DEF Handle, IInv

-----------------------------------------------------------------------------
(* The invariant is inductive.                                             *)

LEMMA IInvInit == Init => IInv
  BY NodeAssumption DEF Init, IInv, TypeOK, Started, Told, ListsAreNews,
     AsymmetryExplained, FirstLife

\* A datagram teaches its receiver nothing false.
LEMMA IInvReceive ==
  ASSUME IInv, Receive
  PROVE  IInv'
<1>1. PICK d \in net : up[d.to] /\ d.from # d.to /\ Handle(d)
  BY DEF Receive
<1> DEFINE n == d.to
           from == d.from
<1>2. Learns(n, from)
  BY <1>1, HandleLearns
<1>3. UNCHANGED <<contact, starts, up>>
  BY DEF Receive, config, node
<1>4. n \in Node /\ from \in Node /\ n # from
  BY <1>1 DEF IInv, TypeOK
<1>5. d.type \in {"HELLO", "HELLO_REPLY", "CONNECT", "ACK_CONNECT"}
  BY <1>1 DEF Handle
<1>6. \A m \in Node : FirstLife(m)' = FirstLife(m)
  BY <1>3 DEF FirstLife
<1>7. \A m \in Node : /\ peers[m] \subseteq peers'[m]
                      /\ pending[m] \subseteq pending'[m] \cup peers'[m]
  BY <1>2 DEF Learns, IInv, TypeOK
<1>8. TypeOK'
  BY <1>2, <1>3, <1>4 DEF Learns, Truthful, IInv, TypeOK
<1>9. Started'
  <2>1. \A e \in net' : starts'[e.from] > 0
    BY <1>1, <1>2, <1>3, <1>4 DEF Learns, Truthful, IInv, Started
  <2>2. \A m \in Node \ {n} : peers'[m] = peers[m]
    BY <1>2 DEF Learns
  <2>3. peers'[n] \subseteq peers[n] \cup {from} /\ up[n] /\ starts[from] > 0
    BY <1>1, <1>2 DEF Learns, IInv, Started
  <2>4. \A m \in Node : /\ m \notin peers'[m]
                         /\ IF up[m] THEN starts[m] > 0 ELSE peers'[m] = {}
    BY <1>4, <2>2, <2>3 DEF IInv, Started
  <2>5. \A m \in Node : \A o \in peers'[m] : starts[o] > 0
    BY <1>4, <2>2, <2>3 DEF IInv, Started
  <2> QED
    BY <1>3, <2>1, <2>4, <2>5 DEF Started
<1>10. Told'
  <2> SUFFICES ASSUME NEW e \in net'
               PROVE  /\ e.type = "HELLO" => e.to = contact[e.from]
                      /\ FirstLife(e.from) =>
                           /\ e.type \in {"HELLO_REPLY", "ACK_CONNECT"}
                                => e.to \in peers'[e.from]
                           /\ e.type = "CONNECT" =>
                                e.to \in peers'[e.from] \cup pending'[e.from]
    BY <1>3, <1>6, <1>8 DEF Told, TypeOK
  <2>1. CASE e \in net
    BY <1>7, <2>1 DEF IInv, Told, TypeOK
  <2>2. CASE Truthful(n, e)
    BY <2>2 DEF Truthful
  <2> QED
    BY <1>2, <2>1, <2>2 DEF Learns
<1>11. ListsAreNews'
  BY <1>2 DEF Learns, Truthful, IInv, ListsAreNews
<1>12. AsymmetryExplained'
  <2> SUFFICES ASSUME NEW x \in Node, NEW y \in Node,
                      FirstLife(x), FirstLife(y),
                      y \in peers'[x], x \notin peers'[y]
               PROVE  x = contact[y] \/ x \in pending'[y]
    BY <1>3, <1>6 DEF AsymmetryExplained
  <2>1. x \notin peers[y]
    BY <1>7
  <2>2. CASE y \in peers[x]
    BY <1>7, <2>1, <2>2 DEF IInv, AsymmetryExplained
  <2>3. CASE y \notin peers[x]
    <3>1. x = n /\ y = from
      BY <1>2, <1>4, <2>3 DEF Learns
    <3>2. x = contact[y] \/ x \in pending[y]
      BY <1>5, <2>1, <3>1 DEF IInv, Told
    <3> QED
      BY <1>7, <3>2
  <2> QED
    BY <2>2, <2>3
<1> QED
  BY <1>8, <1>9, <1>10, <1>11, <1>12 DEF IInv

\* A start says nothing but HELLO, and nobody knows who was never started.
LEMMA IInvStart ==
  ASSUME IInv, NEW n \in Node, Start(n)
  PROVE  IInv'
<1>1. /\ up' = [up EXCEPT ![n] = TRUE]
      /\ starts' = [starts EXCEPT ![n] = @ + 1]
      /\ UNCHANGED <<contact, peers, pending>> /\ ~up[n]
  BY DEF Start, config
<1>2. \A d \in net' :
        \/ d \in net
        \/ d.type = "HELLO" /\ d.from = n /\ d.to = contact[n] /\ d.to \in Node
  BY DEF Start, Send, Datagram, IInv, TypeOK
<1>3. \A m \in Node : starts[m] > 0 => starts'[m] > 0
  BY <1>1 DEF IInv, TypeOK
<1>4. starts'[n] > 0 /\ up'[n]
  BY <1>1 DEF IInv, TypeOK
<1>5. \A m \in Node : m # n => FirstLife(m)' = FirstLife(m)
  BY <1>1 DEF FirstLife, IInv, TypeOK
<1>6. FirstLife(n)' => starts[n] = 0
  BY <1>1 DEF FirstLife, IInv, TypeOK
<1>7. TypeOK'
  BY <1>1, <1>2 DEF IInv, TypeOK
<1>8. Started'
  BY <1>1, <1>2, <1>3, <1>4 DEF IInv, TypeOK, Started
<1>9. Told'
  <2> SUFFICES ASSUME NEW d \in net'
               PROVE  /\ d.type = "HELLO" => d.to = contact[d.from]
                      /\ FirstLife(d.from)' =>
                           /\ d.type \in {"HELLO_REPLY", "ACK_CONNECT"}
                                => d.to \in peers[d.from]
                           /\ d.type = "CONNECT"
                                => d.to \in peers[d.from] \cup pending[d.from]
    BY <1>1 DEF Told
  <2>1. CASE d \in net /\ d.from # n
    BY <1>5, <2>1 DEF IInv, Told, TypeOK
  <2>2. CASE d \in net /\ d.from = n
    BY <1>6, <2>2 DEF IInv, Told, Started
  <2>3. CASE d \notin net
    BY <1>2, <2>3
  <2> QED
    BY <2>1, <2>2, <2>3
<1>10. ListsAreNews'
  BY <1>2 DEF IInv, ListsAreNews
<1>11. AsymmetryExplained'
  <2> SUFFICES ASSUME NEW x \in Node, NEW y \in Node,
                      FirstLife(x)', FirstLife(y)',
                      y \in peers[x], x \notin peers[y]
               PROVE  x = contact[y] \/ x \in pending[y]
    BY <1>1 DEF AsymmetryExplained
  <2>1. x # n
    BY <1>1 DEF IInv, Started
  <2>2. y # n
    BY <1>6 DEF IInv, Started
  <2> QED
    BY <1>5, <2>1, <2>2 DEF IInv, AsymmetryExplained
<1> QED
  BY <1>7, <1>8, <1>9, <1>10, <1>11 DEF IInv

\* A crash ends the node's life, whatever it had told.
LEMMA IInvCrash ==
  ASSUME IInv, NEW n \in Node, Crash(n)
  PROVE  IInv'
<1>1. /\ up' = [up EXCEPT ![n] = FALSE]
      /\ peers' = [peers EXCEPT ![n] = {}]
      /\ pending' = [pending EXCEPT ![n] = {}]
      /\ UNCHANGED <<contact, starts, net>>
  BY DEF Crash, config
<1>2. \A m \in Node \ {n} : /\ FirstLife(m)' = FirstLife(m)
                             /\ peers'[m] = peers[m]
                             /\ pending'[m] = pending[m]
  BY <1>1 DEF FirstLife, IInv, TypeOK
<1>3. ~FirstLife(n)' /\ peers'[n] = {} /\ ~up'[n]
  BY <1>1 DEF FirstLife, IInv, TypeOK
<1>4. TypeOK'
  BY <1>1 DEF IInv, TypeOK
<1>5. Started'
  BY <1>1, <1>2, <1>3 DEF IInv, TypeOK, Started
<1>6. Told'
  BY <1>1, <1>2, <1>3 DEF IInv, TypeOK, Told
<1>7. ListsAreNews'
  BY <1>1 DEF IInv, ListsAreNews
<1>8. AsymmetryExplained'
  BY <1>1, <1>2, <1>3 DEF IInv, AsymmetryExplained
<1> QED
  BY <1>4, <1>5, <1>6, <1>7, <1>8 DEF IInv

LEMMA IInvStep == IInv /\ [Next]_vars => IInv'
<1> SUFFICES ASSUME IInv, [Next]_vars PROVE IInv'
  OBVIOUS
<1>1. CASE Next
  BY <1>1, IInvStart, IInvCrash, IInvReceive DEF Next
<1>2. CASE UNCHANGED vars
  BY <1>2 DEF vars, config, IInv, TypeOK, Started, Told, ListsAreNews,
     AsymmetryExplained, FirstLife
<1> QED
  BY <1>1, <1>2

LEMMA IInvAlways == Spec => []IInv
  BY IInvInit, IInvStep, PTL DEF Spec

-----------------------------------------------------------------------------
(* Theorems                                                                *)

\* While two nodes are in their first lives, a node that does not know one
\* that knows it has it for its contact or waits for its answer.
THEOREM Asymmetry == Spec => []AsymmetryExplained
<1>1. IInv => AsymmetryExplained
  BY DEF IInv
<1> QED
  BY <1>1, IInvAlways, PTL

\* No list of peers holds the address of its reader or of its sender.
THEOREM News == Spec => []ListsAreNews
<1>1. IInv => ListsAreNews
  BY DEF IInv
<1> QED
  BY <1>1, IInvAlways, PTL

=============================================================================
