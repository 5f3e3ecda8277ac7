-------------------------- MODULE ApproxGameProofs --------------------------
(***************************************************************************)
(* Proofs about ApproxGame, for any players, points, PUTs and delays: the  *)
(* counts of the server agree, a game ends when nobody is owed an answer,  *)
(* and an automatic player is never penalised and knows its function as    *)
(* the server does.  ServerInv is the invariant of the server, PlayersInv  *)
(* that of the automatic players.                                          *)
(***************************************************************************)
EXTENDS ApproxGame, FiniteSetTheorems, SequenceTheorems, TLAPS

-----------------------------------------------------------------------------
(* Sums                                                                    *)

\* A finite set of sets has a least one, which stands for induction.
LEMMA LeastSet ==
  ASSUME NEW S, IsFiniteSet(S), NEW B \in SUBSET SUBSET S, B # {}
  PROVE  \E T \in B : \A U \in B : U \subseteq T => U = T
<1>1. IsWellFoundedOn(StrictSubsetOrdering(S), SUBSET S)
  BY FS_FiniteSubsetsOfFinite, FS_StrictSubsetOrderingWellFounded
<1>2. PICK T \in B : \A U \in B : ~(<<U, T>> \in StrictSubsetOrdering(S))
  BY <1>1, WFMin
<1>3. ASSUME NEW U \in B, U \subseteq T
      PROVE  U = T
  <2>1. U \in SUBSET S /\ T \in SUBSET S
    OBVIOUS
  <2>2. U # T => <<U, T>> \in StrictSubsetOrdering(S)
    BY <1>3, <2>1 DEF StrictSubsetOrdering
  <2> QED
    BY <1>2, <2>2
<1> QED
  BY <1>3

First(S) == CHOOSE x \in S : TRUE

\* g[U] is the sum of f over U, for all subsets U of S.
Partial(g, f, S) ==
  g = [U \in SUBSET S |->
         IF U = {} THEN 0 ELSE f[First(U)] + g[U \ {First(U)}]]
Total(f, S) == (CHOOSE g : Partial(g, f, S))[S]

LEMMA SumIsTotal ==
  ASSUME NEW f
  PROVE  Sum(f) = Total(f, DOMAIN f)
BY DEF Sum, FoldFunction, FoldFunctionOnSet, MapThenFoldSet, Total, Partial,
   First

LEMMA PartialAt ==
  ASSUME NEW S, NEW f, NEW g, Partial(g, f, S), NEW U \in SUBSET S
  PROVE  /\ U = {} => g[U] = 0
         /\ U # {} => /\ First(U) \in U
                      /\ U \ {First(U)} \in SUBSET S
                      /\ U \ {First(U)} # U
                      /\ g[U] = f[First(U)] + g[U \ {First(U)}]
<1>1. U # {} => First(U) \in U
  BY DEF First
<1>2. g[U] = IF U = {} THEN 0 ELSE f[First(U)] + g[U \ {First(U)}]
  BY DEF Partial
<1> QED
  BY <1>1, <1>2

LEMMA PartialUnique ==
  ASSUME NEW S, IsFiniteSet(S), NEW f, NEW g, NEW h,
         Partial(g, f, S), Partial(h, f, S)
  PROVE  g = h
<1> DEFINE B == {U \in SUBSET S : g[U] # h[U]}
<1>1. CASE B = {}
  <2>1. /\ g = [U \in SUBSET S |-> g[U]]
        /\ h = [U \in SUBSET S |-> h[U]]
    BY DEF Partial
  <2> QED
    BY <1>1, <2>1
<1>2. CASE B # {}
  <2>1. PICK T \in B : \A U \in B : U \subseteq T => U = T
    <3>1. B \in SUBSET SUBSET S
      OBVIOUS
    <3> HIDE DEF B
    <3> QED
      BY <1>2, <3>1, LeastSet
  <2>2. T \in SUBSET S /\ g[T] # h[T]
    OBVIOUS
  <2>3. T # {}
    <3>1. T = {} => g[T] = 0 /\ h[T] = 0
      <4> HIDE DEF B
      <4> QED
        BY <2>2, PartialAt
    <3> QED
      BY <2>2, <3>1
  <2>4. /\ First(T) \in T /\ T \ {First(T)} \in SUBSET S
        /\ T \ {First(T)} # T
        /\ g[T] = f[First(T)] + g[T \ {First(T)}]
        /\ h[T] = f[First(T)] + h[T \ {First(T)}]
    BY <2>2, <2>3, PartialAt
  <2>5. T \ {First(T)} \notin B
    BY <2>1, <2>4
  <2> QED
    BY <2>2, <2>4, <2>5
<1> QED
  BY <1>1, <1>2

LEMMA PartialSubset ==
  ASSUME NEW S, NEW f, NEW g, Partial(g, f, S), NEW D \in SUBSET S
  PROVE  Partial([U \in SUBSET D |-> g[U]], f, D)
<1> DEFINE h == [U \in SUBSET D |-> g[U]]
<1>1. ASSUME NEW U \in SUBSET D
      PROVE  h[U] = IF U = {} THEN 0 ELSE f[First(U)] + h[U \ {First(U)}]
  <2>1. U \in SUBSET S /\ U \ {First(U)} \in SUBSET D
    OBVIOUS
  <2> QED
    BY <2>1, PartialAt
<1>2. h = [U \in SUBSET D |->
             IF U = {} THEN 0 ELSE f[First(U)] + h[U \ {First(U)}]]
  BY <1>1
<1> QED
  BY <1>2 DEF Partial

LEMMA PartialExists ==
  ASSUME NEW S, IsFiniteSet(S), NEW f
  PROVE  \E g : Partial(g, f, S)
<1> DEFINE Has(U) == \E g : Partial(g, f, U)
           B == {U \in SUBSET S : ~Has(U)}
           G(U) == CHOOSE g : Partial(g, f, U)
<1>1. CASE B = {}
  BY <1>1
<1>2. CASE B # {}
  <2>1. PICK T \in B : \A U \in B : U \subseteq T => U = T
    <3>1. B \in SUBSET SUBSET S
      OBVIOUS
    <3> HIDE DEF B
    <3> QED
      BY <1>2, <3>1, LeastSet
  <2>2. T \in SUBSET S /\ ~Has(T)
    OBVIOUS
  <2>3. \A U \in SUBSET T : U # T => Has(U)
    BY <2>1, <2>2
  <2> HIDE DEF Has, B
  <2>4. ASSUME NEW U \in SUBSET T, U # T
        PROVE  /\ Partial(G(U), f, U) /\ IsFiniteSet(U)
    BY <2>2, <2>3, <2>4, FS_Subset DEF Has
  <2> DEFINE e(U) == IF U = {} THEN 0
                     ELSE f[First(U)] + G(U \ {First(U)})[U \ {First(U)}]
             h == [U \in SUBSET T |-> e(U)]
  <2>5. \A U \in SUBSET T :
          U # {} => First(U) \in U /\ U \ {First(U)} \in SUBSET T
                    /\ U \ {First(U)} # T
    BY DEF First
  <2>6. ASSUME NEW U \in SUBSET T, U # T
        PROVE  h[U] = G(U)[U]
    <3> DEFINE V == U \ {First(U)}
    <3>1. /\ Partial(G(U), f, U) /\ U \in SUBSET U
      BY <2>4, <2>6
    <3> HIDE DEF G
    <3>2. /\ U = {} => G(U)[U] = 0
          /\ U # {} => G(U)[U] = f[First(U)] + G(U)[V]
      BY <3>1, PartialAt
    <3>3. U # {} => G(U)[V] = G(V)[V]
      <4> SUFFICES ASSUME U # {} PROVE G(U)[V] = G(V)[V]
        OBVIOUS
      <4>1. V \in SUBSET T /\ V # T /\ V \in SUBSET U
        BY <2>5
      <4>2. Partial(G(V), f, V) /\ IsFiniteSet(V)
        BY <2>4, <4>1
      <4>3. Partial([W \in SUBSET V |-> G(U)[W]], f, V)
        BY <3>1, <4>1, PartialSubset
      <4> HIDE DEF V
      <4>4. G(V) = [W \in SUBSET V |-> G(U)[W]]
        BY <4>2, <4>3, PartialUnique
      <4>5. [W \in SUBSET V |-> G(U)[W]][V] = G(U)[V]
        OBVIOUS
      <4> QED
        BY <4>4, <4>5
    <3> QED
      BY <3>2, <3>3
  <2>7. ASSUME NEW U \in SUBSET T
        PROVE  h[U] = IF U = {} THEN 0
                      ELSE f[First(U)] + h[U \ {First(U)}]
    <3>1. h[U] = e(U)
      OBVIOUS
    <3>2. U # {} => h[U \ {First(U)}]
                      = G(U \ {First(U)})[U \ {First(U)}]
      <4> HIDE DEF h, G
      <4> QED
        BY <2>5, <2>6
    <3> HIDE DEF h, G
    <3> QED
      BY <3>1, <3>2
  <2>8. Partial(h, f, T)
    <3>1. h = [U \in SUBSET T |-> h[U]]
      OBVIOUS
    <3> HIDE DEF h
    <3> QED
      BY <2>7, <3>1 DEF Partial
  <2> QED
    BY <2>2, <2>8 DEF Has
<1> QED
  BY <1>1, <1>2

\* The sum over a subset, in a partial sum.
LEMMA TotalIs ==
  ASSUME NEW S, IsFiniteSet(S), NEW f, NEW g, Partial(g, f, S),
         NEW U \in SUBSET S
  PROVE  Total(f, U) = g[U]
<1> DEFINE h == CHOOSE p : Partial(p, f, U)
           r == [W \in SUBSET U |-> g[W]]
<1>1. IsFiniteSet(U)
  BY FS_Subset
<1>2. Partial(h, f, U)
  BY <1>1, PartialExists
<1>3. Partial(r, f, U)
  BY PartialSubset
<1>4. Total(f, U) = h[U]
  BY DEF Total
<1>5. r[U] = g[U]
  OBVIOUS
<1> HIDE DEF h, r
<1>6. h = r
  BY <1>1, <1>2, <1>3, PartialUnique
<1> QED
  BY <1>4, <1>5, <1>6

LEMMA TotalFirst ==
  ASSUME NEW S, IsFiniteSet(S), NEW f
  PROVE  /\ S = {} => Total(f, S) = 0
         /\ S # {} => /\ First(S) \in S
                      /\ Total(f, S) = f[First(S)] + Total(f, S \ {First(S)})
<1>1. PICK g : Partial(g, f, S)
  BY PartialExists
<1>2. S \in SUBSET S /\ S \ {First(S)} \in SUBSET S
  OBVIOUS
<1>3. Total(f, S) = g[S] /\ Total(f, S \ {First(S)}) = g[S \ {First(S)}]
  BY <1>1, <1>2, TotalIs
<1> QED
  BY <1>1, <1>2, <1>3, PartialAt

LEMMA TotalType ==
  ASSUME NEW S, IsFiniteSet(S), NEW f, \A x \in S : f[x] \in Int
  PROVE  Total(f, S) \in Int
<1> DEFINE B == {U \in SUBSET S : Total(f, U) \notin Int}
<1>1. CASE B = {}
  BY <1>1
<1>2. CASE B # {}
  <2>1. PICK T \in B : \A U \in B : U \subseteq T => U = T
    <3>1. B \in SUBSET SUBSET S
      OBVIOUS
    <3> HIDE DEF B
    <3> QED
      BY <1>2, <3>1, LeastSet
  <2>2. T \in SUBSET S /\ Total(f, T) \notin Int /\ IsFiniteSet(T)
    BY FS_Subset
  <2>3. T # {}
    BY <2>2, TotalFirst
  <2>4. First(T) \in T /\ Total(f, T) = f[First(T)] + Total(f, T \ {First(T)})
    BY <2>2, <2>3, TotalFirst
  <2>5. Total(f, T \ {First(T)}) \in Int
    BY <2>1, <2>2, <2>4
  <2> QED
    BY <2>2, <2>4, <2>5
<1> QED
  BY <1>1, <1>2

LEMMA TotalSame ==
  ASSUME NEW S, IsFiniteSet(S), NEW f, NEW h, \A x \in S : f[x] = h[x]
  PROVE  Total(f, S) = Total(h, S)
<1> DEFINE B == {U \in SUBSET S : Total(f, U) # Total(h, U)}
<1>1. CASE B = {}
  BY <1>1
<1>2. CASE B # {}
  <2>1. PICK T \in B : \A U \in B : U \subseteq T => U = T
    <3>1. B \in SUBSET SUBSET S
      OBVIOUS
    <3> HIDE DEF B
    <3> QED
      BY <1>2, <3>1, LeastSet
  <2>2. T \in SUBSET S /\ Total(f, T) # Total(h, T) /\ IsFiniteSet(T)
    BY FS_Subset
  <2>3. T # {}
    BY <2>2, TotalFirst
  <2>4. /\ First(T) \in T
        /\ Total(f, T) = f[First(T)] + Total(f, T \ {First(T)})
        /\ Total(h, T) = h[First(T)] + Total(h, T \ {First(T)})
    BY <2>2, <2>3, TotalFirst
  <2>5. Total(f, T \ {First(T)}) = Total(h, T \ {First(T)})
    BY <2>1, <2>2, <2>4
  <2> QED
    BY <2>2, <2>4, <2>5
<1> QED
  BY <1>1, <1>2

\* The order of the summands does not matter.
LEMMA TotalRemove ==
  ASSUME NEW S, IsFiniteSet(S), NEW f, \A x \in S : f[x] \in Int, NEW y \in S
  PROVE  Total(f, S) = f[y] + Total(f, S \ {y})
<1> DEFINE Bad(U) == \E x \in U : Total(f, U) # f[x] + Total(f, U \ {x})
           B == {U \in SUBSET S : Bad(U)}
<1>1. CASE B = {}
  BY <1>1
<1>2. CASE B # {}
  <2>1. PICK T \in B : \A U \in B : U \subseteq T => U = T
    <3>1. B \in SUBSET SUBSET S
      OBVIOUS
    <3> HIDE DEF B
    <3> QED
      BY <1>2, <3>1, LeastSet
  <2>2. T \in SUBSET S /\ Bad(T) /\ IsFiniteSet(T)
    BY FS_Subset
  <2>3. PICK x \in T : Total(f, T) # f[x] + Total(f, T \ {x})
    BY <2>2
  <2>4. \A U \in SUBSET T : U # T => ~Bad(U)
    BY <2>1, <2>2
  <2> DEFINE z == First(T)
  <2>5. z \in T /\ Total(f, T) = f[z] + Total(f, T \ {z})
    BY <2>2, <2>3, TotalFirst
  <2> HIDE DEF z
  <2>6. x # z
    BY <2>3, <2>5
  <2>7. /\ Total(f, T \ {z}) = f[x] + Total(f, (T \ {z}) \ {x})
        /\ Total(f, T \ {x}) = f[z] + Total(f, (T \ {x}) \ {z})
    BY <2>4, <2>5, <2>6
  <2>8. (T \ {z}) \ {x} = (T \ {x}) \ {z}
    OBVIOUS
  <2> DEFINE R == (T \ {x}) \ {z}
             t == Total(f, R)
  <2>9. t \in Int /\ f[x] \in Int /\ f[z] \in Int
    <3>1. IsFiniteSet(R) /\ \A w \in R : f[w] \in Int
      BY <2>2, FS_Subset
    <3> QED
      BY <2>2, <2>5, <3>1, TotalType
  <2> HIDE DEF t
  <2>10. Total(f, T) = f[z] + (f[x] + t) /\ Total(f, T \ {x}) = f[z] + t
    BY <2>5, <2>7, <2>8 DEF t
  <2> QED
    BY <2>3, <2>9, <2>10
<1> QED
  BY <1>1, <1>2

LEMMA TotalSplit ==
  ASSUME NEW S, IsFiniteSet(S), NEW f, \A x \in S : f[x] \in Int,
         NEW D \in SUBSET S
  PROVE  Total(f, S) = Total(f, D) + Total(f, S \ D)
<1> DEFINE Bad(U) == Total(f, S) # Total(f, U) + Total(f, S \ U)
           B == {U \in SUBSET S : Bad(U)}
<1>1. CASE B = {}
  BY <1>1
<1>2. CASE B # {}
  <2>1. PICK T \in B : \A U \in B : U \subseteq T => U = T
    <3>1. B \in SUBSET SUBSET S
      OBVIOUS
    <3> HIDE DEF B
    <3> QED
      BY <1>2, <3>1, LeastSet
  <2>2. T \in SUBSET S /\ Bad(T) /\ IsFiniteSet(T)
    BY FS_Subset
  <2>3. \A U \in SUBSET S : Total(f, U) \in Int
    BY FS_Subset, TotalType
  <2>4. T # {}
    <3>1. Total(f, {}) = 0
      BY FS_EmptySet, TotalFirst
    <3>2. S \ {} = S /\ Total(f, S) \in Int
      BY <2>3
    <3> DEFINE a == Total(f, S)
    <3>3. T = {} => a # 0 + a
      BY <2>2, <3>1, <3>2
    <3>4. a = 0 + a
      <4>1. a \in Int
        BY <3>2
      <4> HIDE DEF a
      <4> QED
        BY <4>1
    <3> QED
      BY <3>3, <3>4
  <2>5. PICK z \in T : TRUE
    BY <2>4
  <2> DEFINE V == T \ {z}
  <2>6. ~Bad(V) /\ V \in SUBSET S /\ S \ T \in SUBSET S
    BY <2>1, <2>2, <2>5
  <2>7. Total(f, T) = f[z] + Total(f, V)
    BY <2>2, <2>5, TotalRemove
  <2>8. Total(f, S \ V) = f[z] + Total(f, S \ T)
    <3>1. z \in S \ V /\ (S \ V) \ {z} = S \ T
      BY <2>2, <2>5
    <3>2. IsFiniteSet(S \ V) /\ \A x \in S \ V : f[x] \in Int
      BY FS_Subset
    <3> HIDE DEF V
    <3> QED
      BY <3>1, <3>2, TotalRemove
  <2> HIDE DEF V
  <2> QED
    BY <2>2, <2>3, <2>6, <2>7, <2>8
<1> QED
  BY <1>1, <1>2

-----------------------------------------------------------------------------
(* Types                                                                   *)

Lines == 1..Len(Poly)

ToServer ==
  [type : {"HELLO"}, ok : {TRUE}, id : Player]
    \cup [type : {"PUT"}, ok : {TRUE}, point : Nat, value : Int]
    \cup [type : {"PUT", "STATE"}, ok : {FALSE}]

\* What the server answers; the lines for its players are these and SCORING.
Reply ==
  [type : {"COEFF"}, ok : {TRUE}, line : Lines]
    \cup [type : {"STATE"}, ok : {TRUE}, size : Nat]
    \cup [type : {"BAD_PUT", "PENALTY"}, ok : BOOLEAN]
Result == [id : Player \cup {NoOne}, score : Int]
FromServer ==
  Reply \cup [type : {"SCORING"}, ok : BOOLEAN, scoring : Seq(Result)]

Delayed == [due : Int, line : Reply]

\* A client has an id once it has said HELLO.
ClientRecord ==
  [coeffs : {0} \cup Lines, state : {<<>>} \cup [Points -> Int],
   retarded_responses : Seq(Delayed),
   write_buffer : Seq(Reply), read_buffer : Seq(ToServer),
   player_id : Player \cup {NoOne}, age : Int, received_hello : BOOLEAN,
   sent_puts : Int, score : Int]
Client == {c \in ClientRecord : c.received_hello <=> c.player_id # NoOne}

Connection ==
  [up : Seq(ToServer), down : Seq(FromServer),
   server : {"none", "queued", "open", "closed"},
   client : {"idle", "open", "closed"}, reset : BOOLEAN]

ClientState ==
  [running : BOOLEAN, mode : {"AUTOMATIC", "MANUAL", "OTHER"},
   write_buffer : Seq(ToServer), read_buffer : Seq(FromServer),
   coeff_buffer : Seq(ToServer), received_coeff : BOOLEAN,
   coeffs : {0} \cup Lines, put_eligible : BOOLEAN, sent : Nat, K : Int,
   lines : Int]

Reported == {{}, {"HUP"}, {"OUT"}, {"OUT", "IN"}}

TypeOK ==
  /\ running \in BOOLEAN
  /\ fds \in Seq(FD \cup {-1})
  /\ revents \in Seq(Reported)
  /\ DOMAIN client_map \subseteq FD \cup {-1}
  /\ client_map \in [DOMAIN client_map -> Client]
  /\ received_puts \in Int
  /\ next_line \in Nat /\ next_line > 0
  /\ slot \in Nat /\ parsing \in BOOLEAN
  /\ sock \in [FD -> Player \cup {NoOne}]
  /\ conn \in [Player -> Connection]
  /\ cl \in [Player -> ClientState]
  /\ \A p \in Player : Len(cl[p].read_buffer) <= 1

-----------------------------------------------------------------------------
(* The server                                                              *)

Used(i) == fds[i] \in FD
IsOpen(fd) == sock[fd] # NoOne

\* Where the loop over the slots is.
AtSlot ==
  /\ slot > 0 => running /\ Len(revents) = Len(fds) /\ slot <= Len(fds) + 1
  /\ slot \in DOMAIN fds => Used(slot)
  /\ parsing => /\ slot \in DOMAIN fds
                /\ "HUP" \notin revents[slot] /\ "OUT" \in revents[slot]

\* A descriptor is open for one player, whose connection is, and exactly the
\* open ones have a client, but for the one of descriptor -1.
Sockets ==
  /\ \A fd, f \in FD : sock[fd] = sock[f] /\ IsOpen(fd) => fd = f
  /\ \A fd \in FD : IsOpen(fd) => conn[sock[fd]].server = "open"
  /\ \A fd \in FD : fd \in DOMAIN client_map <=> IsOpen(fd)
  /\ -1 \in DOMAIN client_map => client_map[-1] = DefaultClient
  /\ \A p \in Player :
       conn[p].client = "idle" => conn[p].server \in {"none", "closed"}

\* Two slots have one descriptor when send_messages left it in a slot and
\* accept used it again; the old slot has yet to be served, and hangs up.
Doubled(i, j) ==
  slot > 0 /\ \/ i >= slot /\ "HUP" \in revents[i] /\ revents[j] = {}
              \/ j >= slot /\ "HUP" \in revents[j] /\ revents[i] = {}

Blank(c) ==
  c.retarded_responses = <<>> /\ c.write_buffer = <<>> /\ c.read_buffer = <<>>

\* A slot yet to be served: a connection just accepted has said nothing.
ToServe(i) ==
  \/ "HUP" \in revents[i]
  \/ "OUT" \in revents[i] /\ IsOpen(fds[i])
  \/ revents[i] = {} /\ (fds[i] \in DOMAIN client_map =>
                           Blank(client_map[fds[i]]))

Slots ==
  /\ \A i, j \in DOMAIN fds :
       i # j /\ fds[i] = fds[j] /\ Used(i) => Doubled(i, j)
  /\ slot > 0 =>
       \A i \in DOMAIN fds : i >= slot /\ Used(i) => ToServe(i)

\* Only the client being served has lines to be sent.
Written ==
  \A fd \in DOMAIN client_map :
    client_map[fd].write_buffer # <<>> => parsing /\ fd = fds[slot]

ServerInv == AtSlot /\ Sockets /\ Slots /\ Written /\ PutsCounted

-----------------------------------------------------------------------------
(* The operators of the server                                             *)

LEMMA Descriptors ==
  /\ FD \subseteq Nat /\ IsFiniteSet(FD) /\ -1 \notin FD /\ 0 \notin FD
  /\ Cardinality(FD) = Cardinality(Player) /\ Cardinality(Player) \in Nat
  /\ \A fd \in FD : fd >= 0 /\ fd > 0
<1>1. Cardinality(Player) \in Nat
  BY ProtocolAssumption, FS_CardinalityType
<1>2. IsFiniteSet(FD) /\ Cardinality(FD) = Cardinality(Player)
  BY <1>1, FS_Interval DEF FD
<1> QED
  BY <1>1, <1>2 DEF FD

LEMMA SeqIs ==
  ASSUME NEW S, NEW n \in Nat, NEW f \in [1..n -> S]
  PROVE  f \in Seq(S) /\ Len(f) = n
OBVIOUS

LEMMA SeqElements ==
  ASSUME NEW S, NEW s \in Seq(S)
  PROVE  /\ Len(s) \in Nat /\ DOMAIN s = 1..Len(s)
         /\ \A i \in DOMAIN s : s[i] \in S
BY ElementOfSeq

LEMMA Lengths ==
  ASSUME NEW l \in Nat, NEW n \in Nat, n <= l
  PROVE  /\ (IF n + 1 <= l THEN l - (n + 1) + 1 ELSE 0) = l - n
         /\ (IF 1 <= n THEN n - 1 + 1 ELSE 0) = n
         /\ n + 1 + (l - n) = l + 1
         /\ l - n \in Nat
         /\ \A j \in Nat : (j + n) + (l - n) = j + l
         /\ l - (n + 1) + 1 = l - n
         /\ \A i \in 1..(l - n) : n + 1 + i - 1 \in 1..l
OBVIOUS

\* The fields of a client.
LEMMA ClientFields ==
  ASSUME NEW c \in Client
  PROVE  /\ c.coeffs \in {0} \cup Lines
         /\ c.state \in {<<>>} \cup [Points -> Int]
         /\ c.retarded_responses \in Seq(Delayed)
         /\ c.write_buffer \in Seq(Reply) /\ c.read_buffer \in Seq(ToServer)
         /\ c.player_id \in Player \cup {NoOne} /\ c.age \in Int
         /\ c.received_hello \in BOOLEAN
         /\ c.sent_puts \in Int /\ c.score \in Int
         /\ c.received_hello <=> c.player_id # NoOne
BY DEF Client, ClientRecord

LEMMA DefaultIsClient ==
  /\ DefaultClient \in Client /\ DefaultClient.sent_puts = 0
  /\ Blank(DefaultClient) /\ DefaultClient.state = <<>>
  /\ DefaultClient.player_id = NoOne /\ ~DefaultClient.received_hello
<1>1. DISCONNECT_TIMEOUT + 1 \in Int
  BY ServerAssumption
<1>2. <<>> \in Seq(Delayed) /\ <<>> \in Seq(Reply)
      /\ <<>> \in Seq(ToServer)
  OBVIOUS
<1> QED
  BY <1>1, <1>2 DEF DefaultClient, Client, ClientRecord, Blank

LEMMA insertType ==
  ASSUME NEW w \in Seq(Delayed), NEW due \in Int,
         NEW line \in Reply
  PROVE  /\ insert(w, due, line) \in Seq(Delayed)
         /\ Len(insert(w, due, line)) = Len(w) + 1
         /\ w = <<>> => insert(w, due, line) = <<[due |-> due, line |-> line]>>
<1> DEFINE W == Delayed
           n == Cardinality({i \in DOMAIN w : w[i].due <= due})
           e == [due |-> due, line |-> line]
           a == SubSeq(w, 1, n)
           b == SubSeq(w, n + 1, Len(w))
<1>1. Len(w) \in Nat /\ DOMAIN w = 1..Len(w) /\ \A i \in DOMAIN w : w[i] \in W
  BY SeqElements
<1>2. n \in Nat /\ n <= Len(w)
  <2>1. IsFiniteSet(1..Len(w)) /\ Cardinality(1..Len(w)) = Len(w)
    BY <1>1, FS_Interval
  <2>2. {i \in DOMAIN w : w[i].due <= due} \subseteq 1..Len(w)
    BY <1>1
  <2> QED
    BY <2>1, <2>2, FS_Subset, FS_CardinalityType
<1>3. e \in W /\ <<e>> \in Seq(W) /\ Len(<<e>>) = 1
  BY DEF Delayed
<1>4. insert(w, due, line) = SubSeq(w, 1, (n + 1) - 1) \o <<e>>
                               \o SubSeq(w, n + 1, Len(w))
  BY DEF insert, InsertAt
<1> HIDE DEF n, e, W
<1>5. (n + 1) - 1 = n
  BY <1>2
<1>6. /\ a \in Seq(W) /\ Len(a) = n
      /\ b \in Seq(W) /\ Len(b) = Len(w) - n
  <2>1. \A i \in 1..n : w[i] \in W
    BY <1>1, <1>2
  <2>2. a \in Seq(W) /\ Len(a) = IF 1 <= n THEN n - 1 + 1 ELSE 0
    BY <1>2, <2>1, SubSeqProperties
  <2>3. \A i \in (n + 1)..Len(w) : w[i] \in W
    BY <1>1, <1>2
  <2>4. /\ b \in Seq(W)
        /\ Len(b) = IF n + 1 <= Len(w) THEN Len(w) - (n + 1) + 1 ELSE 0
    BY <1>1, <1>2, <2>3, SubSeqProperties
  <2> QED
    BY <1>1, <1>2, <2>2, <2>4, Lengths
<1> HIDE DEF a, b
<1>7. /\ a \o <<e>> \o b \in Seq(W)
      /\ Len(a \o <<e>> \o b) = n + 1 + (Len(w) - n)
  <2> DEFINE ae == a \o <<e>>
  <2>1. ae \in Seq(W) /\ Len(ae) = n + 1
    BY <1>3, <1>6, ConcatProperties
  <2> HIDE DEF ae
  <2>2. ae \o b \in Seq(W) /\ Len(ae \o b) = Len(ae) + Len(b)
    BY <1>6, <2>1, ConcatProperties
  <2> QED
    BY <1>6, <2>1, <2>2 DEF ae
<1>8. w = <<>> => a \o <<e>> \o b = <<e>>
  <2> SUFFICES ASSUME w = <<>> PROVE a \o <<e>> \o b = <<e>>
    OBVIOUS
  <2>1. Len(w) = 0 /\ n = 0
    BY <1>1, <1>2
  <2>2. a = <<>> /\ b = <<>>
    BY <1>6, <2>1
  <2> QED
    BY <1>3, <2>2, ConcatEmptySeq
<1>9. insert(w, due, line) = a \o <<e>> \o b
  BY <1>4, <1>5 DEF a, b
<1>10. n + 1 + (Len(w) - n) = Len(w) + 1
  BY <1>1, <1>2, Lengths
<1> QED
  BY <1>7, <1>8, <1>9, <1>10 DEF W, e

\* What is ready moves to the buffer, the rest stays.
LEMMA RetardedMoves ==
  ASSUME NEW c \in Client
  PROVE  LET d == process_retarded_messages(c)
         IN  /\ d \in Client
             /\ d.read_buffer = c.read_buffer /\ d.sent_puts = c.sent_puts
             /\ d.state = c.state /\ d.coeffs = c.coeffs
             /\ d.player_id = c.player_id /\ d.age = c.age
             /\ d.received_hello = c.received_hello
             /\ Len(d.write_buffer) + Len(d.retarded_responses)
                  = Len(c.write_buffer) + Len(c.retarded_responses)
             /\ \A x \in LinesOf(d.write_buffer) \cup LinesOf(Waiting(d)) :
                  x \in LinesOf(c.write_buffer) \cup LinesOf(Waiting(c))
             /\ Blank(c) => Blank(d)
<1> DEFINE W == Delayed
           w == c.retarded_responses
           s == c.write_buffer
           r == Cardinality({i \in DOMAIN w : w[i].due <= 0})
           a == [i \in 1..r |-> w[i].line]
           b == SubSeq(w, r + 1, Len(w))
           d == process_retarded_messages(c)
<1>1. d = [c EXCEPT !.write_buffer = s \o a, !.retarded_responses = b]
  BY DEF process_retarded_messages
<1>2. w \in Seq(W) /\ Len(w) \in Nat /\ DOMAIN w = 1..Len(w)
      /\ \A i \in DOMAIN w : w[i] \in W
  <2>1. w \in Seq(W)
    BY ClientFields
  <2> HIDE DEF w, W
  <2> QED
    BY <2>1, SeqElements
<1>3. s \in Seq(Reply) /\ Len(s) \in Nat
  BY ClientFields
<1>4. r \in Nat /\ r <= Len(w)
  <2>1. IsFiniteSet(1..Len(w)) /\ Cardinality(1..Len(w)) = Len(w)
    BY <1>2, FS_Interval
  <2>2. {i \in DOMAIN w : w[i].due <= 0} \subseteq 1..Len(w)
    BY <1>2
  <2> QED
    BY <2>1, <2>2, FS_Subset, FS_CardinalityType
<1> HIDE DEF r
<1>5. a \in Seq(Reply) /\ Len(a) = r /\ \A i \in DOMAIN a : a[i] = w[i].line
  <2>1. a \in [1..r -> Reply]
    BY <1>2, <1>4 DEF Delayed
  <2> QED
    BY <1>4, <2>1, SeqIs
<1>6. /\ b \in Seq(W) /\ Len(b) = Len(w) - r
      /\ \A i \in 1..Len(b) : /\ b[i] = w[r + 1 + i - 1]
                              /\ r + 1 + i - 1 \in DOMAIN w
  <2>1. \A i \in (r + 1)..Len(w) : w[i] \in W
    BY <1>2, <1>4
  <2>2. /\ b \in Seq(W)
        /\ Len(b) = IF r + 1 <= Len(w) THEN Len(w) - (r + 1) + 1 ELSE 0
        /\ \A i \in 1..(Len(w) - (r + 1) + 1) : b[i] = w[r + 1 + i - 1]
    BY <1>2, <1>4, <2>1, SubSeqProperties
  <2>3. /\ Len(b) = Len(w) - r /\ Len(w) - (r + 1) + 1 = Len(w) - r
        /\ \A i \in 1..(Len(w) - r) : r + 1 + i - 1 \in DOMAIN w
    BY <1>2, <1>4, <2>2, Lengths
  <2> QED
    BY <2>2, <2>3
<1>7. /\ s \o a \in Seq(Reply) /\ Len(s \o a) = Len(s) + r
      /\ \A i \in 1..Len(s \o a) :
           (s \o a)[i] = IF i <= Len(s) THEN s[i] ELSE a[i - Len(s)]
  BY <1>3, <1>4, <1>5, ConcatProperties
<1> HIDE DEF a, b, d
<1>8. /\ d \in Client /\ d.write_buffer = s \o a /\ d.retarded_responses = b
      /\ d.read_buffer = c.read_buffer /\ d.sent_puts = c.sent_puts
      /\ d.state = c.state /\ d.coeffs = c.coeffs
      /\ d.player_id = c.player_id /\ d.age = c.age
      /\ d.received_hello = c.received_hello
  BY <1>1, <1>6, <1>7 DEF Client, ClientRecord
<1>9. Len(s \o a) + Len(b) = Len(s) + Len(w)
  <2>1. \A j \in Nat : (j + r) + (Len(w) - r) = j + Len(w)
    BY <1>2, <1>4, Lengths
  <2> QED
    BY <1>3, <1>6, <1>7, <2>1
<1>10. LinesOf(s \o a) \cup LinesOf(Waiting(d))
         \subseteq LinesOf(s) \cup LinesOf(Waiting(c))
  <2>1. LinesOf(Waiting(c)) = {w[i].line : i \in DOMAIN w}
    BY DEF LinesOf, Waiting
  <2>2. LinesOf(Waiting(d)) = {b[i].line : i \in DOMAIN b}
    BY <1>8 DEF LinesOf, Waiting
  <2>3. \A i \in DOMAIN b : \E j \in DOMAIN w : b[i] = w[j]
    BY <1>6
  <2>4. LinesOf(Waiting(d)) \subseteq LinesOf(Waiting(c))
    BY <2>1, <2>2, <2>3
  <2>5. ASSUME NEW i \in DOMAIN (s \o a)
        PROVE  (s \o a)[i] \in LinesOf(s) \cup LinesOf(Waiting(c))
    <3>1. i \in 1..(Len(s) + r)
      BY <1>7
    <3>2. CASE i <= Len(s)
      <4>1. i \in DOMAIN s /\ (s \o a)[i] = s[i]
        BY <1>3, <1>7, <3>1, <3>2
      <4> QED
        BY <4>1 DEF LinesOf
    <3>3. CASE ~(i <= Len(s))
      <4>1. i - Len(s) \in 1..r
        BY <1>3, <1>4, <3>1, <3>3
      <4>2. (s \o a)[i] = w[i - Len(s)].line /\ i - Len(s) \in DOMAIN w
        BY <1>2, <1>4, <1>5, <1>7, <3>1, <3>3, <4>1
      <4> QED
        BY <2>1, <4>2
    <3> QED
      BY <3>2, <3>3
  <2> QED
    BY <2>4, <2>5 DEF LinesOf
<1>11. Blank(c) => Blank(d)
  <2> SUFFICES ASSUME s = <<>>, w = <<>>
               PROVE  s \o a = <<>> /\ b = <<>>
    BY <1>8 DEF Blank
  <2>1. Len(s) = 0 /\ Len(w) = 0
    OBVIOUS
  <2>2. Len(s \o a) = 0 /\ Len(b) = 0
    BY <1>4, <1>6, <1>7, <2>1
  <2> QED
    BY <1>6, <1>7, <2>2
<1> QED
  BY <1>8, <1>9, <1>10, <1>11 DEF d

LEMMA LineFields ==
  ASSUME NEW line \in ToServer
  PROVE  /\ line.type \in {"HELLO", "PUT", "STATE"} /\ line.ok \in BOOLEAN
         /\ line.type = "HELLO" => line.id \in Player
         /\ line.type = "PUT" /\ line.ok =>
              line.point \in Nat /\ line.value \in Int
BY DEF ToServer

LEMMA RefusalType ==
  ASSUME NEW line \in ToServer, NEW type \in {"BAD_PUT", "PENALTY"}
  PROVE  Refusal(type, line) \in Reply
BY LineFields DEF Refusal, Line, Reply

LEMMA RejectType ==
  ASSUME NEW line \in ToServer, NEW c \in Client
  PROVE  /\ Reject(line, c) \in Client
         /\ Reject(line, c).sent_puts = c.sent_puts
         /\ Reject(line, c).read_buffer = c.read_buffer
         /\ Reject(line, c).received_hello = c.received_hello
<1> DEFINE w == insert(c.retarded_responses, BAD_PUT_DELAY,
                       Refusal("BAD_PUT", line))
<1>1. w \in Seq(Delayed) /\ c.score + 10 \in Int
  <2> DEFINE x == Refusal("BAD_PUT", line)
  <2>1. x \in Reply /\ BAD_PUT_DELAY \in Int
    BY RefusalType DEF BAD_PUT_DELAY
  <2>2. c.retarded_responses \in Seq(Delayed) /\ c.score \in Int
    BY ClientFields
  <2> HIDE DEF x
  <2>3. insert(c.retarded_responses, BAD_PUT_DELAY, x) \in Seq(Delayed)
    BY <2>1, <2>2, insertType
  <2> QED
    BY <2>2, <2>3 DEF x
<1>2. Reject(line, c)
        = [c EXCEPT !.retarded_responses = w, !.score = c.score + 10]
  BY DEF Reject
<1> HIDE DEF w
<1> QED
  BY <1>1, <1>2 DEF Client, ClientRecord

LEMMA PenaliseType ==
  ASSUME NEW line \in ToServer, NEW c \in Client
  PROVE  /\ Penalise(line, c) \in Client
         /\ Penalise(line, c).sent_puts = c.sent_puts
         /\ Penalise(line, c).read_buffer = c.read_buffer
         /\ Penalise(line, c).received_hello = c.received_hello
<1> DEFINE w == insert(c.retarded_responses, 0, Refusal("PENALTY", line))
<1>1. w \in Seq(Delayed) /\ c.score + 20 \in Int
  <2> DEFINE x == Refusal("PENALTY", line)
  <2>1. x \in Reply /\ 0 \in Int
    BY RefusalType
  <2>2. c.retarded_responses \in Seq(Delayed) /\ c.score \in Int
    BY ClientFields
  <2> HIDE DEF x
  <2>3. insert(c.retarded_responses, 0, x) \in Seq(Delayed)
    BY <2>1, <2>2, insertType
  <2> QED
    BY <2>2, <2>3 DEF x
<1>2. Penalise(line, c)
        = [c EXCEPT !.retarded_responses = w, !.score = c.score + 20]
  BY DEF Penalise
<1> HIDE DEF w
<1> QED
  BY <1>1, <1>2 DEF Client, ClientRecord

LEMMA CountType ==
  ASSUME NEW line \in ToServer, NEW c \in Client, c.received_hello,
         line.type = "PUT", line.ok, InBounds(line)
  PROVE  /\ Count(line, c) \in Client
         /\ Count(line, c).sent_puts = c.sent_puts + 1
         /\ Count(line, c).read_buffer = c.read_buffer
         /\ Count(line, c).received_hello = c.received_hello
<1> DEFINE w == insert(c.retarded_responses, Lowercase[c.player_id],
                       build_state)
           st == [c.state EXCEPT ![line.point] = @ + line.value]
<1>1. w \in Seq(Delayed) /\ c.sent_puts + 1 \in Int
  <2>1. c.player_id \in Player
    BY ClientFields
  <2>2. Lowercase[c.player_id] \in Int
    BY <2>1, ServerAssumption
  <2>3. build_state \in Reply
    BY ProtocolAssumption DEF build_state, Reply
  <2> QED
    BY <2>2, <2>3, ClientFields, insertType
<1>2. Count(line, c)
        = [c EXCEPT !.sent_puts = c.sent_puts + 1, !.state = st,
                    !.retarded_responses = w]
  BY DEF Count
<1>3. st \in {<<>>} \cup [Points -> Int]
  <2>1. line.point \in Points /\ line.value \in Int
    BY LineFields DEF InBounds
  <2>2. CASE c.state = <<>>
    <3>1. st = <<>>
      BY <2>2
    <3> QED
      BY <3>1
  <2>3. CASE c.state \in [Points -> Int]
    BY <2>1, <2>3
  <2> QED
    BY <2>2, <2>3, ClientFields
<1> HIDE DEF w, st
<1> QED
  BY <1>1, <1>2, <1>3 DEF Client, ClientRecord

LEMMA handle_putType ==
  ASSUME NEW line \in ToServer, NEW c \in Client, line.type = "PUT"
  PROVE  LET r == handle_put(line, c)
         IN  /\ r.client \in Client /\ r.valid \in BOOLEAN
             /\ r.puts \in {0, 1}
             /\ r.client.sent_puts = c.sent_puts + r.puts
             /\ r.client.read_buffer = c.read_buffer
             /\ r.client.received_hello = c.received_hello
             /\ ~r.valid => r.puts = 0
<1> DEFINE early == ~c.received_hello \/ AnswerPending(c)
           c1 == IF early THEN Penalise(line, c) ELSE c
           r == handle_put(line, c)
<1>1. /\ c1 \in Client /\ c1.sent_puts = c.sent_puts
      /\ c1.read_buffer = c.read_buffer
      /\ c1.received_hello = c.received_hello
  BY PenaliseType
<1>2. r = IF ~(line.ok /\ InBounds(line))
          THEN Handled(Reject(line, c1), FALSE, 0)
          ELSE IF early THEN Handled(c1, FALSE, 0)
          ELSE Handled(Count(line, c1), TRUE, 1)
  BY DEF handle_put
<1>3. c.sent_puts = c.sent_puts + 0
  BY ClientFields
<1>4. CASE ~(line.ok /\ InBounds(line))
  <2>1. r = Handled(Reject(line, c1), FALSE, 0)
    BY <1>2, <1>4
  <2> HIDE DEF r, c1
  <2> QED
    BY <1>1, <1>3, <2>1, RejectType DEF Handled, r
<1>5. CASE line.ok /\ InBounds(line) /\ early
  <2>1. r = Handled(c1, FALSE, 0)
    BY <1>2, <1>5
  <2> HIDE DEF r, c1
  <2> QED
    BY <1>1, <1>3, <2>1 DEF Handled, r
<1>6. CASE line.ok /\ InBounds(line) /\ ~early
  <2>1. r = Handled(Count(line, c), TRUE, 1)
    BY <1>2, <1>6
  <2>2. c.received_hello
    BY <1>6, ClientFields
  <2> DEFINE d == Count(line, c)
  <2>3. /\ d \in Client /\ d.sent_puts = c.sent_puts + 1
        /\ d.read_buffer = c.read_buffer
        /\ d.received_hello = c.received_hello
    BY <1>6, <2>2, CountType
  <2> HIDE DEF r, c1, d
  <2>4. r = Handled(d, TRUE, 1)
    BY <2>1 DEF d
  <2> QED
    BY <2>3, <2>4 DEF Handled, r
<1> QED
  BY <1>4, <1>5, <1>6

LEMMA handle_helloType ==
  ASSUME NEW line \in ToServer, NEW c \in Client, line.type = "HELLO",
         ReadsCoeff(line, c) => next_line \in Lines
  PROVE  LET r == handle_hello(line, c)
         IN  /\ r.client \in Client /\ r.valid \in BOOLEAN
             /\ r.puts \in {0, 1}
             /\ r.client.sent_puts = c.sent_puts + r.puts
             /\ r.client.read_buffer = c.read_buffer
             /\ ~r.valid => r.puts = 0 /\ r.client = c
<1>1. c.sent_puts = c.sent_puts + 0
  BY ClientFields
<1>2. CASE ~ReadsCoeff(line, c)
  BY <1>1, <1>2 DEF handle_hello, Handled
<1>3. CASE ReadsCoeff(line, c)
  <2> DEFINE s == Append(c.write_buffer, CoeffLine(next_line))
             d == [c EXCEPT !.player_id = line.id, !.received_hello = TRUE,
                            !.age = 0, !.write_buffer = s,
                            !.coeffs = next_line]
  <2>1. s \in Seq(Reply)
    <3>1. CoeffLine(next_line) \in Reply
      BY <1>3 DEF CoeffLine, Reply
    <3> QED
      BY <3>1, ClientFields
  <2>2. handle_hello(line, c) = Handled(d, TRUE, 0)
    BY <1>3 DEF handle_hello
  <2>3. line.id \in Player /\ line.id # NoOne
    BY LineFields, ProtocolAssumption
  <2> HIDE DEF s
  <2>4. d \in Client
    <3>1. c \in ClientRecord /\ next_line \in {0} \cup Lines /\ 0 \in Int
      BY <1>3 DEF Client
    <3>2. d \in ClientRecord
      BY <2>1, <2>3, <3>1 DEF ClientRecord
    <3>3. d.received_hello = TRUE /\ d.player_id = line.id
      BY <3>1 DEF ClientRecord
    <3> QED
      BY <2>3, <3>2, <3>3 DEF Client
  <2>5. d.sent_puts = c.sent_puts /\ d.read_buffer = c.read_buffer
    BY DEF Client, ClientRecord
  <2> HIDE DEF d
  <2> QED
    BY <1>1, <2>2, <2>4, <2>5 DEF Handled
<1> QED
  BY <1>2, <1>3

LEMMA HandleType ==
  ASSUME NEW line \in ToServer, NEW c \in Client,
         ReadsCoeff(line, c) => next_line \in Lines
  PROVE  LET r == Handle(line, c)
         IN  /\ r.client \in Client /\ r.valid \in BOOLEAN
             /\ r.puts \in {0, 1}
             /\ r.client.sent_puts = c.sent_puts + r.puts
             /\ r.client.read_buffer = c.read_buffer
             /\ ~r.valid => r.puts = 0
<1>1. CASE line.type = "HELLO"
  BY <1>1, handle_helloType DEF Handle
<1>2. CASE line.type = "PUT"
  BY <1>2, handle_putType DEF Handle
<1>3. CASE line.type = "STATE"
  <2>1. Handle(line, c) = Handled(c, FALSE, 0)
    BY <1>3 DEF Handle
  <2>2. c.sent_puts = c.sent_puts + 0
    BY ClientFields
  <2> QED
    BY <2>1, <2>2 DEF Handled
<1> QED
  BY <1>1, <1>2, <1>3, LineFields

LEMMA ConnectionFields ==
  ASSUME NEW c \in Connection
  PROVE  /\ c.up \in Seq(ToServer) /\ c.down \in Seq(FromServer)
         /\ c.server \in {"none", "queued", "open", "closed"}
         /\ c.client \in {"idle", "open", "closed"} /\ c.reset \in BOOLEAN
BY DEF Connection

LEMMA CloseTypes ==
  /\ Unconnected \in Connection
  /\ \A c \in Connection :
       /\ CloseServer(c) \in Connection
       /\ CloseServer(c).server = "closed"
       /\ CloseServer(c).client = c.client
       /\ CloseClient(c) \in Connection
       /\ CloseClient(c).server = c.server
       /\ CloseClient(c).client = "closed"
<1>1. <<>> \in Seq(ToServer) /\ <<>> \in Seq(FromServer)
  OBVIOUS
<1> QED
  BY <1>1 DEF Unconnected, CloseServer, CloseClient, Connection

\* A nonempty set of naturals has a least element.
LEMMA Least ==
  ASSUME NEW S \in SUBSET Nat, S # {}
  PROVE  Min(S) \in S /\ \A x \in S : Min(S) <= x
<1>1. PICK q \in S : TRUE
  OBVIOUS
<1> DEFINE B == {0..n : n \in {j \in S : j <= q}}
<1>2. B \in SUBSET SUBSET (0..q) /\ 0..q \in B
  BY <1>1
<1>3. IsFiniteSet(0..q)
  BY <1>1, FS_Interval
<1>4. PICK T \in B : \A U \in B : U \subseteq T => U = T
  <2> DEFINE Q == 0..q
  <2>1. IsFiniteSet(Q) /\ B \in SUBSET SUBSET Q /\ B # {}
    BY <1>2, <1>3
  <2> HIDE DEF B, Q
  <2> QED
    BY <2>1, LeastSet
<1> HIDE DEF B
<1>5. PICK n \in S : n <= q /\ T = 0..n
  BY <1>4 DEF B
<1>6. \A j \in S : ~(j < n)
  <2> SUFFICES ASSUME NEW j \in S, j < n PROVE FALSE
    OBVIOUS
  <2>1. 0..j \in B
    BY <1>1, <1>5 DEF B
  <2>2. 0..j \subseteq T /\ n \in T /\ n \notin 0..j
    BY <1>5
  <2> QED
    BY <1>4, <2>1, <2>2
<1>7. \A x \in S : n <= x
  BY <1>6
<1> QED
  BY <1>7 DEF Min

\* The loop goes on to the next slot that is not free.
LEMMA SlotAfterIs ==
  ASSUME NEW s \in Seq(FD \cup {-1}), NEW i \in Nat, i <= Len(s)
  PROVE  LET n == SlotAfter(i, s)
         IN  /\ n \in Nat /\ n > i /\ n <= Len(s) + 1
             /\ n \in DOMAIN s => s[n] \in FD
             /\ \A j \in DOMAIN s : j > i /\ s[j] \in FD => j >= n
<1> DEFINE S == {Len(s) + 1} \cup {j \in DOMAIN s : j > i /\ s[j] >= 0}
<1>1. Len(s) \in Nat /\ DOMAIN s = 1..Len(s)
      /\ \A j \in DOMAIN s : s[j] \in FD \cup {-1}
  BY SeqElements
<1>2. S \in SUBSET Nat /\ S # {} /\ Len(s) + 1 \in S
      /\ \A j \in S : j > i
  <2>1. Len(s) + 1 \in Nat /\ Len(s) + 1 > i
    BY <1>1
  <2> QED
    BY <1>1, <2>1
<1> DEFINE n == Min(S)
<1>3. SlotAfter(i, s) = n
  BY DEF SlotAfter
<1>4. n \in S /\ \A j \in S : n <= j
  <2> HIDE DEF S
  <2> QED
    BY <1>2, Least
<1>5. \A j \in DOMAIN s : s[j] >= 0 <=> s[j] \in FD
  <2>1. \A x \in FD \cup {-1} : x >= 0 <=> x \in FD
    BY Descriptors
  <2> QED
    BY <1>1, <2>1
<1> HIDE DEF n
<1>6. n \in Nat /\ n > i /\ n <= Len(s) + 1
  BY <1>1, <1>2, <1>4
<1>7. n \in DOMAIN s => s[n] \in FD
  BY <1>1, <1>4, <1>5
<1>8. \A j \in DOMAIN s : j > i /\ s[j] \in FD => j >= n
  BY <1>1, <1>4, <1>5, <1>6
<1> QED
  BY <1>3, <1>6, <1>7, <1>8

-----------------------------------------------------------------------------
(* The PUTs of a map of clients                                            *)

IsMap(M) == DOMAIN M \subseteq FD \cup {-1} /\ M \in [DOMAIN M -> Client]
PutsIn(M) == [fd \in DOMAIN M |-> M[fd].sent_puts]
PutsOf(M) == Sum(PutsIn(M))

LEMMA MapFinite ==
  ASSUME NEW M, IsMap(M)
  PROVE  /\ IsFiniteSet(DOMAIN M)
         /\ \A fd \in DOMAIN M : M[fd] \in Client /\ M[fd].sent_puts \in Int
<1>1. IsFiniteSet(FD \cup {-1})
  BY Descriptors, FS_AddElement
<1>2. IsFiniteSet(DOMAIN M)
  BY <1>1, FS_Subset DEF IsMap
<1>3. \A fd \in DOMAIN M : M[fd] \in Client
  BY DEF IsMap
<1> QED
  BY <1>2, <1>3, ClientFields

LEMMA PutsTotal ==
  ASSUME NEW M, IsMap(M)
  PROVE  /\ PutsOf(M) = Total(PutsIn(M), DOMAIN M) /\ PutsOf(M) \in Int
         /\ \A D \in SUBSET DOMAIN M :
              Total(PutsIn(M), D) \in Int /\ IsFiniteSet(D)
         /\ \A fd \in DOMAIN M : PutsIn(M)[fd] = M[fd].sent_puts
<1> DEFINE f == PutsIn(M)
<1>1. DOMAIN f = DOMAIN M /\ \A fd \in DOMAIN M : f[fd] = M[fd].sent_puts
  BY DEF PutsIn
<1>2. PutsOf(M) = Total(f, DOMAIN M)
  BY <1>1, SumIsTotal DEF PutsOf
<1>3. \A D \in SUBSET DOMAIN M : IsFiniteSet(D) /\ Total(f, D) \in Int
  <2> SUFFICES ASSUME NEW D \in SUBSET DOMAIN M
               PROVE  IsFiniteSet(D) /\ Total(f, D) \in Int
    OBVIOUS
  <2>1. IsFiniteSet(D) /\ \A x \in D : f[x] \in Int
    BY <1>1, MapFinite, FS_Subset
  <2> QED
    BY <2>1, TotalType
<1> QED
  BY <1>1, <1>2, <1>3

\* Maps that agree on the PUTs of D.
LEMMA PutsSame ==
  ASSUME NEW M, IsMap(M), NEW N, IsMap(N), NEW D \in SUBSET DOMAIN M,
         D \subseteq DOMAIN N, \A fd \in D : M[fd].sent_puts = N[fd].sent_puts
  PROVE  Total(PutsIn(M), D) = Total(PutsIn(N), D)
<1> DEFINE f == PutsIn(M)
           h == PutsIn(N)
<1>1. IsFiniteSet(D) /\ \A x \in D : f[x] = h[x]
  BY PutsTotal
<1> HIDE DEF f, h
<1>2. Total(f, D) = Total(h, D)
  BY <1>1, TotalSame
<1> QED
  BY <1>2 DEF f, h

LEMMA PutsRemove ==
  ASSUME NEW M, IsMap(M), NEW fd \in DOMAIN M
  PROVE  PutsOf(M) = M[fd].sent_puts + Total(PutsIn(M), DOMAIN M \ {fd})
<1> DEFINE f == PutsIn(M)
<1>1. /\ IsFiniteSet(DOMAIN M) /\ \A x \in DOMAIN M : f[x] \in Int
      /\ f[fd] = M[fd].sent_puts /\ PutsOf(M) = Total(f, DOMAIN M)
  BY PutsTotal, MapFinite
<1> HIDE DEF f
<1>2. Total(f, DOMAIN M) = f[fd] + Total(f, DOMAIN M \ {fd})
  BY <1>1, TotalRemove
<1> QED
  BY <1>1, <1>2 DEF f

LEMMA AssignMap ==
  ASSUME NEW M, IsMap(M), NEW fd \in FD \cup {-1}, NEW c \in Client
  PROVE  LET N == Assign(M, fd, c)
         IN  /\ IsMap(N) /\ DOMAIN N = DOMAIN M \cup {fd} /\ N[fd] = c
             /\ \A f \in DOMAIN M : f # fd => N[f] = M[f]
BY DEF IsMap, Assign

LEMMA PutsAssign ==
  ASSUME NEW M, IsMap(M), NEW fd \in FD \cup {-1}, NEW c \in Client
  PROVE  PutsOf(Assign(M, fd, c)) = PutsOf(M) + c.sent_puts
           - (IF fd \in DOMAIN M THEN M[fd].sent_puts ELSE 0)
<1> DEFINE N == Assign(M, fd, c)
           D == DOMAIN M \ {fd}
           t == Total(PutsIn(M), D)
<1>1. /\ IsMap(N) /\ DOMAIN N = DOMAIN M \cup {fd} /\ N[fd] = c
      /\ \A f \in DOMAIN M : f # fd => N[f] = M[f]
  BY AssignMap
<1>2. DOMAIN N \ {fd} = D /\ fd \in DOMAIN N
  BY <1>1
<1> HIDE DEF N
<1>3. PutsOf(N) = c.sent_puts + Total(PutsIn(N), D)
  BY <1>1, <1>2, PutsRemove
<1>4. Total(PutsIn(N), D) = t
  BY <1>1, PutsSame
<1>5. t \in Int /\ c.sent_puts \in Int
  BY PutsTotal, ClientFields
<1>6. CASE fd \in DOMAIN M
  <2>1. PutsOf(M) = M[fd].sent_puts + t /\ M[fd].sent_puts \in Int
    BY <1>6, PutsRemove, MapFinite
  <2> HIDE DEF t
  <2> QED
    BY <1>3, <1>4, <1>5, <1>6, <2>1 DEF N
<1>7. CASE fd \notin DOMAIN M
  <2>1. D = DOMAIN M
    BY <1>7
  <2>2. PutsOf(M) = t
    BY <2>1, PutsTotal
  <2> HIDE DEF t
  <2> QED
    BY <1>3, <1>4, <1>5, <1>7, <2>2 DEF N
<1> QED
  BY <1>6, <1>7

LEMMA RestrictMap ==
  ASSUME NEW M, IsMap(M), NEW D \in SUBSET DOMAIN M
  PROVE  /\ IsMap(Restrict(M, D)) /\ DOMAIN Restrict(M, D) = D
         /\ \A f \in D : Restrict(M, D)[f] = M[f]
BY DEF IsMap, Restrict

LEMMA PutsRestrict ==
  ASSUME NEW M, IsMap(M), NEW D \in SUBSET DOMAIN M
  PROVE  PutsOf(Restrict(M, D)) = Total(PutsIn(M), D)
<1> DEFINE N == Restrict(M, D)
<1>1. IsMap(N) /\ DOMAIN N = D /\ \A f \in D : N[f] = M[f]
  BY RestrictMap
<1> HIDE DEF N
<1>2. PutsOf(N) = Total(PutsIn(N), D)
  BY <1>1, PutsTotal
<1>3. Total(PutsIn(M), D) = Total(PutsIn(N), D)
  BY <1>1, PutsSame
<1> QED
  BY <1>2, <1>3 DEF N

LEMMA PutsWithout ==
  ASSUME NEW M, IsMap(M), NEW fd
  PROVE  PutsOf(Restrict(M, DOMAIN M \ {fd}))
           = PutsOf(M) - (IF fd \in DOMAIN M THEN M[fd].sent_puts ELSE 0)
<1> DEFINE D == DOMAIN M \ {fd}
           t == Total(PutsIn(M), D)
<1>1. PutsOf(Restrict(M, D)) = t /\ t \in Int
  BY PutsRestrict, PutsTotal
<1>2. CASE fd \in DOMAIN M
  <2>1. PutsOf(M) = M[fd].sent_puts + t /\ M[fd].sent_puts \in Int
    BY <1>2, PutsRemove, MapFinite
  <2> HIDE DEF t, D
  <2>2. PutsOf(Restrict(M, D)) = PutsOf(M) - M[fd].sent_puts
    BY <1>1, <2>1
  <2> QED
    BY <1>2, <2>2 DEF D
<1>3. CASE fd \notin DOMAIN M
  <2>1. D = DOMAIN M
    BY <1>3
  <2>2. PutsOf(M) = t
    BY <2>1, PutsTotal
  <2> HIDE DEF t, D
  <2>3. PutsOf(Restrict(M, D)) = PutsOf(M) - 0
    BY <1>1, <2>2
  <2> QED
    BY <1>3, <2>3 DEF D
<1> QED
  BY <1>2, <1>3

\* All clients of D leave at once.
LEMMA PutsLeave ==
  ASSUME NEW M, IsMap(M), NEW D \in SUBSET DOMAIN M
  PROVE  PutsOf(Restrict(M, DOMAIN M \ D))
           = PutsOf(M) - Sum([fd \in D |-> M[fd].sent_puts])
<1> DEFINE f == PutsIn(M)
           h == [fd \in D |-> M[fd].sent_puts]
           E == DOMAIN M \ D
<1>1. PutsOf(Restrict(M, E)) = Total(f, E) /\ Total(f, E) \in Int
  BY PutsRestrict, PutsTotal
<1>2. /\ IsFiniteSet(DOMAIN M) /\ \A x \in DOMAIN M : f[x] \in Int
      /\ PutsOf(M) = Total(f, DOMAIN M)
      /\ IsFiniteSet(D) /\ \A x \in D : f[x] = h[x]
      /\ Total(f, D) \in Int
  BY PutsTotal, MapFinite
<1>3. Sum(h) = Total(h, D)
  BY SumIsTotal
<1> HIDE DEF f, h
<1>4. Total(f, DOMAIN M) = Total(f, D) + Total(f, E)
  BY <1>2, TotalSplit
<1>5. Total(f, D) = Total(h, D)
  BY <1>2, TotalSame
<1> DEFINE a == Total(f, D)
           b == Total(f, E)
           l == PutsOf(Restrict(M, E))
<1>6. l = b /\ a \in Int /\ b \in Int /\ PutsOf(M) = a + b /\ Sum(h) = a
  BY <1>1, <1>2, <1>3, <1>4, <1>5
<1> HIDE DEF a, b, l
<1>7. l = PutsOf(M) - Sum(h)
  BY <1>6
<1> QED
  BY <1>7 DEF l, h

-----------------------------------------------------------------------------
(* One slot of a turn                                                      *)

LEMMA ServingFacts ==
  ASSUME TypeOK, ServerInv, Serving
  PROVE  LET fd == fds[slot]
         IN  /\ fd \in FD /\ fd # -1 /\ slot \in Nat /\ slot > 0
             /\ Len(fds) \in Nat /\ slot <= Len(fds)
             /\ DOMAIN fds = 1..Len(fds) /\ DOMAIN revents = DOMAIN fds
             /\ \A i \in DOMAIN fds : fds[i] \in FD \cup {-1}
             /\ \A i \in DOMAIN fds : revents[i] \in Reported
             /\ ToServe(slot)
             /\ IsMap(client_map) /\ ClientAt(fd) \in Client
<1>1. /\ Len(fds) \in Nat /\ DOMAIN fds = 1..Len(fds)
      /\ \A i \in DOMAIN fds : fds[i] \in FD \cup {-1}
  BY SeqElements DEF TypeOK
<1>2. slot \in DOMAIN fds /\ slot \in Nat /\ slot > 0 /\ slot <= Len(fds)
  BY <1>1 DEF Serving, TypeOK
<1>3. fds[slot] \in FD /\ Len(revents) = Len(fds)
  BY <1>2 DEF ServerInv, AtSlot, Used
<1>4. /\ DOMAIN revents = DOMAIN fds
      /\ \A i \in DOMAIN fds : revents[i] \in Reported
  BY <1>1, <1>3, SeqElements DEF TypeOK
<1>5. ToServe(slot)
  BY <1>2, <1>3 DEF ServerInv, Slots, Used
<1>6. IsMap(client_map)
  BY DEF IsMap, TypeOK
<1>7. ClientAt(fds[slot]) \in Client
  BY <1>6, DefaultIsClient DEF ClientAt, IsMap
<1>8. fds[slot] # -1
  BY <1>3, Descriptors
<1> QED
  BY <1>1, <1>2, <1>3, <1>4, <1>5, <1>6, <1>7, <1>8

\* What the slots still to be served rely on is not about the slot served.
LEMMA SlotServed ==
  ASSUME TypeOK, ServerInv, Serving, NextSlot,
         running' = running, revents' = revents,
         \/ fds' = [fds EXCEPT ![slot] = -1]
         \/ fds' = fds /\ "HUP" \notin revents[slot],
         \A f \in FD : f # fds[slot] => sock'[f] = sock[f],
         \A f \in DOMAIN client_map' : f \in FD /\ f # fds[slot] =>
           f \in DOMAIN client_map /\ client_map'[f] = client_map[f],
         "HUP" \in revents[slot] => fds[slot] \notin DOMAIN client_map'
  PROVE  /\ AtSlot' /\ Slots'
         /\ slot' \in Nat /\ parsing' = FALSE /\ fds' \in Seq(FD \cup {-1})
<1> DEFINE fd == fds[slot]
<1>1. /\ fd \in FD /\ fd # -1 /\ slot \in Nat /\ slot > 0
      /\ Len(fds) \in Nat /\ slot <= Len(fds)
      /\ DOMAIN fds = 1..Len(fds) /\ DOMAIN revents = DOMAIN fds
      /\ \A i \in DOMAIN fds : revents[i] \in Reported
  BY ServingFacts
<1>2. /\ slot' \in Nat /\ slot' > slot /\ slot' <= Len(fds) + 1
      /\ slot' \in DOMAIN fds => fds[slot'] \in FD
      /\ \A j \in DOMAIN fds : j > slot /\ fds[j] \in FD => j >= slot'
  <2>1. fds \in Seq(FD \cup {-1}) /\ slot' = SlotAfter(slot, fds)
    BY DEF TypeOK, NextSlot
  <2> QED
    BY <1>1, <2>1, SlotAfterIs
<1>3. /\ fds' \in Seq(FD \cup {-1}) /\ Len(fds') = Len(fds)
      /\ DOMAIN fds' = DOMAIN fds
      /\ \A i \in DOMAIN fds : i # slot => fds'[i] = fds[i]
      /\ fds'[slot] = fds[slot] => "HUP" \notin revents[slot]
      /\ fds'[slot] = fds[slot] \/ fds'[slot] = -1
  <2>1. fds \in Seq(FD \cup {-1}) /\ slot \in 1..Len(fds)
    BY <1>1 DEF TypeOK
  <2>2. CASE fds' = [fds EXCEPT ![slot] = -1]
    BY <1>1, <2>1, <2>2, ExceptSeq
  <2>3. CASE fds' = fds /\ "HUP" \notin revents[slot]
    BY <1>1, <2>1, <2>3
  <2> QED
    BY <2>2, <2>3
<1>4. AtSlot'
  <2>1. running' /\ Len(revents') = Len(fds') /\ slot' <= Len(fds') + 1
    BY <1>2, <1>3 DEF Serving, ServerInv, AtSlot
  <2>2. slot' \in DOMAIN fds' => fds'[slot'] \in FD
    BY <1>1, <1>2, <1>3
  <2> QED
    BY <2>1, <2>2 DEF AtSlot, Used, NextSlot
<1>5. \A i \in DOMAIN fds : fds'[i] \in FD => fds[i] \in FD
                                              /\ fds'[i] = fds[i]
  BY <1>1, <1>3, Descriptors
\* A slot yet to be served with the descriptor of this one.
<1>6. ASSUME NEW i \in DOMAIN fds, i > slot, fds[i] = fd
      PROVE  \/ "HUP" \in revents[i] /\ revents[slot] = {}
             \/ "HUP" \in revents[slot] /\ revents[i] = {}
  <2>1. Doubled(i, slot)
    BY <1>1, <1>6 DEF ServerInv, Slots, Used
  <2> QED
    BY <2>1 DEF Doubled
<1>7. ASSUME NEW i \in DOMAIN fds', NEW j \in DOMAIN fds', i # j,
             fds'[i] = fds'[j], fds'[i] \in FD
      PROVE  Doubled(i, j)'
  <2>1. Doubled(i, j)
    BY <1>3, <1>5, <1>7 DEF ServerInv, Slots, Used
  <2>2. ASSUME NEW a \in DOMAIN fds, fds'[a] \in FD, a >= slot,
               "HUP" \in revents[a]
        PROVE  a >= slot'
    <3>1. a # slot
      BY <1>3, <1>5, <2>2
    <3> QED
      BY <1>1, <1>2, <1>5, <2>2, <3>1
  <2>3. i \in DOMAIN fds /\ j \in DOMAIN fds /\ slot' > 0
    BY <1>1, <1>2, <1>3
  <2> QED
    BY <1>7, <2>1, <2>2, <2>3 DEF Doubled
<1>8. ASSUME NEW i \in DOMAIN fds', i >= slot', fds'[i] \in FD
      PROVE  ToServe(i)'
  <2>1. /\ i \in DOMAIN fds /\ i > slot /\ fds[i] \in FD
        /\ fds'[i] = fds[i]
    BY <1>1, <1>2, <1>3, <1>5, <1>8
  <2>2. ToServe(i)
    BY <1>1, <2>1 DEF ServerInv, Slots, Used
  <2>3. CASE "HUP" \in revents[i]
    BY <2>3 DEF ToServe
  <2>4. CASE "OUT" \in revents[i] /\ IsOpen(fds[i]) /\ "HUP" \notin revents[i]
    <3>1. fds[i] # fd
      BY <1>6, <2>1, <2>4
    <3> QED
      BY <2>1, <2>4, <3>1 DEF ToServe, IsOpen
  <2>5. CASE revents[i] = {} /\ (fds[i] \in DOMAIN client_map =>
                                   Blank(client_map[fds[i]]))
    <3>1. fds[i] = fd => fd \notin DOMAIN client_map'
      BY <1>6, <2>1, <2>5
    <3>2. fds[i] \in DOMAIN client_map' => Blank(client_map'[fds[i]])
      BY <2>1, <2>5, <3>1
    <3> QED
      BY <2>1, <2>5, <3>2 DEF ToServe, Blank
  <2> QED
    BY <2>2, <2>3, <2>4, <2>5 DEF ToServe
<1>9. Slots'
  BY <1>7, <1>8 DEF Slots, Used
<1> QED
  BY <1>2, <1>3, <1>4, <1>9 DEF NextSlot

\* The server closes a descriptor that has a client or none.
LEMMA Closed ==
  ASSUME TypeOK, ServerInv, NEW fd \in FD, Close(fd),
         DOMAIN client_map' \cap FD = (DOMAIN client_map \cap FD) \ {fd},
         -1 \in DOMAIN client_map' => client_map'[-1] = DefaultClient
  PROVE  /\ Sockets' /\ sock' \in [FD -> Player \cup {NoOne}]
         /\ conn' \in [Player -> Connection]
         /\ \A f \in FD : f # fd => sock'[f] = sock[f]
<1>1. sock \in [FD -> Player \cup {NoOne}] /\ conn \in [Player -> Connection]
  BY DEF TypeOK
<1>2. /\ sock' \in [FD -> Player \cup {NoOne}]
      /\ \A f \in FD : f # fd => sock'[f] = sock[f]
      /\ sock'[fd] = NoOne
  BY <1>1 DEF Close
<1>3. /\ conn' \in [Player -> Connection]
      /\ \A p \in Player :
           /\ p # sock[fd] => conn'[p] = conn[p]
           /\ conn'[p].client = conn[p].client
           /\ conn'[p].server \in {conn[p].server, "closed"}
  <2>1. CASE sock[fd] = NoOne
    BY <1>1, <2>1 DEF Close
  <2>2. CASE sock[fd] \in Player /\ sock[fd] # NoOne
    <3>1. conn' = [conn EXCEPT ![sock[fd]] = CloseServer(conn[sock[fd]])]
      BY <2>2 DEF Close
    <3>2. /\ conn[sock[fd]] \in Connection
          /\ CloseServer(conn[sock[fd]]) \in Connection
          /\ CloseServer(conn[sock[fd]]).server = "closed"
          /\ CloseServer(conn[sock[fd]]).client = conn[sock[fd]].client
      BY <1>1, <2>2, CloseTypes
    <3> QED
      BY <1>1, <2>2, <3>1, <3>2
  <2> QED
    BY <1>1, <2>1, <2>2
<1>4. ASSUME NEW f \in FD, NEW g \in FD, sock'[f] = sock'[g], IsOpen(f)'
      PROVE  f = g
  BY <1>2, <1>4 DEF ServerInv, Sockets, IsOpen
<1>5. ASSUME NEW f \in FD, IsOpen(f)'
      PROVE  conn'[sock'[f]].server = "open"
  <2>1. f # fd /\ IsOpen(f) /\ sock'[f] = sock[f]
    BY <1>2, <1>5 DEF IsOpen
  <2>2. /\ sock[f] \in Player /\ sock[f] # sock[fd]
        /\ conn[sock[f]].server = "open"
    BY <1>1, <2>1 DEF ServerInv, Sockets, IsOpen
  <2> QED
    BY <1>3, <2>1, <2>2
<1>6. ASSUME NEW f \in FD
      PROVE  f \in DOMAIN client_map' <=> IsOpen(f)'
  BY <1>2 DEF ServerInv, Sockets, IsOpen
<1>7. ASSUME NEW p \in Player, conn'[p].client = "idle"
      PROVE  conn'[p].server \in {"none", "closed"}
  BY <1>3, <1>7 DEF ServerInv, Sockets
<1> QED
  BY <1>2, <1>3, <1>4, <1>5, <1>6, <1>7 DEF Sockets

\* The client that the map makes up for descriptor -1.
LEMMA MadeUp ==
  ASSUME NEW M, IsMap(M), -1 \in DOMAIN M => M[-1] = DefaultClient
  PROVE  LET N == Assign(M, -1, DefaultClient)
         IN  /\ IsMap(N) /\ PutsOf(N) = PutsOf(M)
             /\ DOMAIN N = DOMAIN M \cup {-1} /\ N[-1] = DefaultClient
             /\ \A f \in DOMAIN M : f # -1 => N[f] = M[f]
<1> DEFINE d == -1
           N == Assign(M, d, DefaultClient)
<1>1. d \in FD \cup {-1} /\ DefaultClient \in Client
  BY DefaultIsClient
<1>2. d \in DOMAIN M => M[d].sent_puts = 0
  BY DefaultIsClient
<1> HIDE DEF d
<1>3. /\ IsMap(N) /\ DOMAIN N = DOMAIN M \cup {d} /\ N[d] = DefaultClient
      /\ \A f \in DOMAIN M : f # d => N[f] = M[f]
  BY <1>1, AssignMap
<1>4. PutsOf(N) = PutsOf(M) + DefaultClient.sent_puts
        - (IF d \in DOMAIN M THEN M[d].sent_puts ELSE 0)
  BY <1>1, PutsAssign
<1>5. PutsOf(N) = PutsOf(M) + 0 - 0
  BY <1>2, <1>4, DefaultIsClient
<1>6. PutsOf(M) + 0 - 0 = PutsOf(M)
  BY PutsTotal
<1> QED
  BY <1>3, <1>5, <1>6 DEF d

\* A client leaves the one slot or other, whatever the reason.
LEMMA Disconnected ==
  ASSUME TypeOK, ServerInv, Serving, Forget(fds[slot]), NextSlot,
         UNCHANGED Rest, UNCHANGED cl,
         \/ fds' = [fds EXCEPT ![slot] = -1]
         \/ fds' = fds /\ "HUP" \notin revents[slot],
         \/ client_map' = Without(fds[slot])
         \/ client_map' = Assign(Without(fds[slot]), -1, ClientAt(-1))
  PROVE  TypeOK' /\ ServerInv'
<1> DEFINE fd == fds[slot]
           Left == Without(fd)
<1>1. /\ fd \in FD /\ fd # -1 /\ IsMap(client_map)
      /\ ClientAt(fd) \in Client
  BY ServingFacts
<1>2. /\ IsMap(Left) /\ DOMAIN Left = DOMAIN client_map \ {fd}
      /\ \A f \in DOMAIN Left : Left[f] = client_map[f]
      /\ PutsOf(Left) = PutsOf(client_map) - ClientAt(fd).sent_puts
  <2>1. /\ IsMap(Left) /\ DOMAIN Left = DOMAIN client_map \ {fd}
        /\ \A f \in DOMAIN Left : Left[f] = client_map[f]
    BY <1>1, RestrictMap DEF Without
  <2>2. ClientAt(fd).sent_puts = IF fd \in DOMAIN client_map
                                 THEN client_map[fd].sent_puts ELSE 0
    BY DefaultIsClient DEF ClientAt
  <2>3. PutsOf(Left) = PutsOf(client_map)
              - (IF fd \in DOMAIN client_map
                 THEN client_map[fd].sent_puts ELSE 0)
    BY <1>1, PutsWithout DEF Without
  <2> QED
    BY <2>1, <2>2, <2>3
<1>3. /\ ClientAt(-1) = DefaultClient
      /\ -1 \in DOMAIN client_map => client_map[-1] = DefaultClient
  BY DEF ServerInv, Sockets, ClientAt
<1> HIDE DEF Left
<1>4. /\ IsMap(client_map') /\ PutsOf(client_map') = PutsOf(Left)
      /\ DOMAIN Left \subseteq DOMAIN client_map'
      /\ DOMAIN client_map' \subseteq DOMAIN Left \cup {-1}
      /\ \A f \in DOMAIN client_map' : f \in FD => client_map'[f] = Left[f]
      /\ -1 \in DOMAIN client_map' => client_map'[-1] = DefaultClient
  <2>1. CASE client_map' = Left
    BY <1>2, <1>3, <2>1
  <2>2. CASE client_map' = Assign(Left, -1, DefaultClient)
    <3> DEFINE N == Assign(Left, -1, DefaultClient)
    <3>1. /\ IsMap(N) /\ PutsOf(N) = PutsOf(Left)
          /\ DOMAIN N = DOMAIN Left \cup {-1} /\ N[-1] = DefaultClient
          /\ \A f \in DOMAIN Left : f # -1 => N[f] = Left[f]
      BY <1>2, <1>3, MadeUp
    <3>2. client_map' = N
      BY <2>2
    <3> HIDE DEF N
    <3>3. \A f \in FD : f # -1
      BY Descriptors
    <3> QED
      BY <3>1, <3>2, <3>3
  <2> QED
    BY <1>3, <2>1, <2>2 DEF Left
<1>5. DOMAIN client_map' \cap FD = (DOMAIN client_map \cap FD) \ {fd}
  BY <1>2, <1>4, Descriptors
<1>6. /\ Sockets' /\ sock' \in [FD -> Player \cup {NoOne}]
      /\ conn' \in [Player -> Connection]
      /\ \A f \in FD : f # fd => sock'[f] = sock[f]
  BY <1>1, <1>4, <1>5, Closed DEF Forget
<1>7. /\ AtSlot' /\ Slots'
      /\ slot' \in Nat /\ parsing' = FALSE /\ fds' \in Seq(FD \cup {-1})
  <2>1. \A f \in DOMAIN client_map' : f \in FD /\ f # fd =>
          f \in DOMAIN client_map /\ client_map'[f] = client_map[f]
    BY <1>2, <1>4, <1>5
  <2>2. fd \notin DOMAIN client_map'
    BY <1>1, <1>5
  <2>3. running' = running /\ revents' = revents
    BY DEF Rest
  <2> QED
    BY <1>6, <2>1, <2>2, <2>3, SlotServed
<1>8. PutsCounted'
  <2>1. received_puts' = received_puts - ClientAt(fd).sent_puts
    BY DEF Forget
  <2>2. received_puts = PutsOf(client_map)
    BY DEF ServerInv, PutsCounted, PutsOf, PutsIn
  <2>3. received_puts' = PutsOf(client_map')
    BY <1>2, <1>4, <2>1, <2>2
  <2> QED
    BY <2>3 DEF PutsCounted, PutsOf, PutsIn
<1>9. Written'
  <2> SUFFICES ASSUME NEW f \in DOMAIN client_map'
               PROVE  client_map'[f].write_buffer = <<>>
    BY DEF Written
  <2>1. CASE f = -1
    BY <1>4, <2>1, DefaultIsClient DEF Blank
  <2>2. CASE f # -1
    <3>1. f \in DOMAIN client_map /\ f # fd /\ client_map'[f] = client_map[f]
      BY <1>2, <1>4, <1>5, <2>2 DEF IsMap
    <3> QED
      BY <3>1 DEF ServerInv, Written
  <2> QED
    BY <2>1, <2>2
<1>10. TypeOK'
  <2>1. received_puts' \in Int
    BY <1>1, ClientFields DEF TypeOK, Forget
  <2>2. running' = running /\ revents' = revents /\ next_line' = next_line
    BY DEF Rest
  <2>3. /\ DOMAIN client_map' \subseteq FD \cup {-1}
        /\ client_map' \in [DOMAIN client_map' -> Client]
    BY <1>4 DEF IsMap
  <2> QED
    BY <1>6, <1>7, <2>1, <2>2, <2>3 DEF TypeOK
<1> QED
  BY <1>6, <1>7, <1>8, <1>9, <1>10 DEF ServerInv

\* The client of the slot has been served and stays.
LEMMA Kept ==
  ASSUME TypeOK, ServerInv, Serving, NextSlot, "HUP" \notin revents[slot],
         UNCHANGED <<fds, received_puts, sock, Rest>>, UNCHANGED cl,
         fds[slot] \in DOMAIN client_map, NEW c \in Client,
         client_map' = Assign(client_map, fds[slot], c),
         c.sent_puts = client_map[fds[slot]].sent_puts,
         c.write_buffer = <<>>,
         conn' \in [Player -> Connection],
         \A p \in Player : /\ conn'[p].server = conn[p].server
                           /\ conn'[p].client = conn[p].client
  PROVE  TypeOK' /\ ServerInv'
<1> DEFINE fd == fds[slot]
           N == Assign(client_map, fd, c)
<1>1. fd \in FD /\ fd # -1 /\ IsMap(client_map)
  BY ServingFacts
<1>2. /\ IsMap(N) /\ DOMAIN N = DOMAIN client_map /\ N[fd] = c
      /\ \A f \in DOMAIN client_map : f # fd => N[f] = client_map[f]
      /\ PutsOf(N) = PutsOf(client_map)
  <2>1. /\ IsMap(N) /\ DOMAIN N = DOMAIN client_map \cup {fd} /\ N[fd] = c
        /\ \A f \in DOMAIN client_map : f # fd => N[f] = client_map[f]
    <3>1. fd \in FD \cup {-1}
      BY <1>1
    <3> HIDE DEF fd
    <3> QED
      BY <1>1, <3>1 DEF IsMap, Assign
  <2>2. PutsOf(N) = PutsOf(client_map) + c.sent_puts
                      - client_map[fd].sent_puts
    BY <1>1, PutsAssign
  <2> DEFINE a == PutsOf(client_map)
             b == c.sent_puts
  <2>3. a \in Int /\ b \in Int
    BY <1>1, PutsTotal, ClientFields
  <2>4. PutsOf(N) = a + b - b
    BY <2>2
  <2> HIDE DEF a, b
  <2>5. a + b - b = a
    BY <2>3
  <2> QED
    BY <2>1, <2>4, <2>5 DEF a
<1>3. client_map' = N
  OBVIOUS
<1> HIDE DEF N
<1>4. /\ AtSlot' /\ Slots'
      /\ slot' \in Nat /\ parsing' = FALSE /\ fds' \in Seq(FD \cup {-1})
  <2>1. \A f \in DOMAIN client_map' : f \in FD /\ f # fd =>
          f \in DOMAIN client_map /\ client_map'[f] = client_map[f]
    BY <1>2, <1>3
  <2>2. running' = running /\ revents' = revents
    BY DEF Rest
  <2> QED
    BY <2>1, <2>2, SlotServed
<1>5. Sockets'
  <2>1. \A f \in FD : IsOpen(f)' <=> IsOpen(f)
    BY DEF IsOpen
  <2>2. -1 \in DOMAIN client_map' => client_map'[-1] = DefaultClient
    BY <1>1, <1>2, <1>3 DEF ServerInv, Sockets
  <2>3. ASSUME NEW f \in FD, IsOpen(f)'
        PROVE  conn'[sock'[f]].server = "open"
    <3>1. sock'[f] \in Player /\ IsOpen(f) /\ sock'[f] = sock[f]
      BY <2>1, <2>3 DEF TypeOK, IsOpen
    <3> QED
      BY <3>1 DEF ServerInv, Sockets
  <2> QED
    BY <1>2, <1>3, <2>1, <2>2, <2>3 DEF ServerInv, Sockets
<1>6. PutsCounted'
  <2>1. received_puts = PutsOf(client_map)
    BY DEF ServerInv, PutsCounted, PutsOf, PutsIn
  <2>2. received_puts' = PutsOf(client_map')
    BY <1>2, <1>3, <2>1
  <2> QED
    BY <2>2 DEF PutsCounted, PutsOf, PutsIn
<1>7. Written'
  <2> SUFFICES ASSUME NEW f \in DOMAIN client_map'
               PROVE  client_map'[f].write_buffer = <<>>
    BY DEF Written
  <2> QED
    BY <1>2, <1>3 DEF ServerInv, Written
<1>8. TypeOK'
  <2>1. /\ running' = running /\ revents' = revents
        /\ next_line' = next_line /\ sock' = sock
        /\ received_puts' = received_puts
    BY DEF Rest
  <2>2. /\ DOMAIN client_map' \subseteq FD \cup {-1}
        /\ client_map' \in [DOMAIN client_map' -> Client]
    BY <1>2, <1>3 DEF IsMap
  <2> QED
    BY <1>4, <2>1, <2>2 DEF TypeOK
<1> QED
  BY <1>4, <1>5, <1>6, <1>7, <1>8 DEF ServerInv

\* What the client of the slot is when nothing has hung up.
LEMMA Current ==
  ASSUME TypeOK, ServerInv, Serving, "HUP" \notin revents[slot]
  PROVE  LET fd == fds[slot]
         IN  /\ current \in Client
             /\ fd \in DOMAIN client_map <=> IsOpen(fd)
             /\ IsOpen(fd) =>
                  /\ current = client_map[fd]
                  /\ sock[fd] \in Player /\ conn[sock[fd]].server = "open"
             /\ ~IsOpen(fd) => current = DefaultClient /\ revents[slot] = {}
             /\ revents[slot] = {} => Blank(current)
             /\ revents[slot] # {} => IsOpen(fd)
<1> DEFINE fd == fds[slot]
<1>1. /\ fd \in FD /\ IsMap(client_map) /\ ClientAt(fd) \in Client
      /\ ToServe(slot) /\ revents[slot] \in Reported
  BY ServingFacts
<1>2. fd \in DOMAIN client_map <=> IsOpen(fd)
  BY <1>1 DEF ServerInv, Sockets
<1>3. IsOpen(fd) =>
        /\ sock[fd] \in Player /\ conn[sock[fd]].server = "open"
        /\ current = client_map[fd]
  BY <1>1, <1>2 DEF ServerInv, Sockets, IsOpen, TypeOK, current, ClientAt
<1>4. ~IsOpen(fd) => current = DefaultClient
  BY <1>2 DEF current, ClientAt
<1>5. revents[slot] # {} => "OUT" \in revents[slot]
  BY <1>1 DEF Reported
<1>6. revents[slot] # {} => IsOpen(fd)
  BY <1>1, <1>5 DEF ToServe
<1>7. revents[slot] = {} => Blank(current)
  BY <1>1, <1>2, <1>3, <1>4, DefaultIsClient DEF ToServe
<1> QED
  BY <1>1, <1>2, <1>3, <1>4, <1>6, <1>7 DEF current

LEMMA HangUpKeeps ==
  ASSUME TypeOK, ServerInv, HangUp, UNCHANGED cl
  PROVE  TypeOK' /\ ServerInv'
BY Disconnected DEF HangUp, disconnect_client

LEMMA ReceiveFailsKeeps ==
  ASSUME TypeOK, ServerInv, ReceiveFails, UNCHANGED cl
  PROVE  TypeOK' /\ ServerInv'
BY Disconnected DEF ReceiveFails, Reading, disconnect_client

LEMMA DropSilentKeeps ==
  ASSUME TypeOK, ServerInv, DropSilent, UNCHANGED cl
  PROVE  TypeOK' /\ ServerInv'
BY Disconnected DEF DropSilent, Serve, Handling, disconnect_client

LEMMA ExitKeeps ==
  ASSUME TypeOK, ServerInv, Exit, UNCHANGED cl
  PROVE  TypeOK' /\ ServerInv'
<1>1. /\ running' = FALSE /\ fds' = <<>> /\ revents' = <<>>
      /\ client_map' = <<>> /\ received_puts' = 0 /\ slot' = 0
      /\ parsing' = FALSE /\ sock' = [fd \in FD |-> NoOne]
      /\ next_line' = next_line
      /\ conn' = [p \in Player |-> CloseServer(conn[p])]
  BY DEF Exit
<1>2. DOMAIN client_map' = {}
  BY <1>1
<1>3. IsMap(client_map')
  BY <1>2 DEF IsMap
<1>4. /\ conn' \in [Player -> Connection]
      /\ \A p \in Player : conn'[p].server = "closed"
  BY <1>1, CloseTypes DEF TypeOK
<1>5. TypeOK'
  <2>1. fds' \in Seq(FD \cup {-1}) /\ revents' \in Seq(Reported)
    BY <1>1
  <2>2. sock' \in [FD -> Player \cup {NoOne}]
    BY <1>1
  <2> QED
    <3>1. /\ DOMAIN client_map' \subseteq FD \cup {-1}
          /\ client_map' \in [DOMAIN client_map' -> Client]
      BY <1>3 DEF IsMap
    <3>2. /\ received_puts' \in Int /\ slot' \in Nat
          /\ running' \in BOOLEAN /\ parsing' \in BOOLEAN
      <4>1. received_puts' \in Int /\ slot' \in Nat
        BY <1>1
      <4>2. running' \in BOOLEAN
        BY <1>1
      <4>3. parsing' \in BOOLEAN
        BY <1>1
      <4> QED
        BY <4>1, <4>2, <4>3
    <3>3. next_line' \in Nat /\ next_line' > 0
      <4>1. next_line' = next_line
        BY <1>1
      <4>2. next_line \in Nat /\ next_line > 0
        BY DEF TypeOK
      <4> QED
        BY <4>1, <4>2
    <3>4. /\ cl' \in [Player -> ClientState]
          /\ \A p \in Player : Len(cl'[p].read_buffer) <= 1
      BY DEF TypeOK
    <3> QED
      BY <1>4, <2>1, <2>2, <3>1, <3>2, <3>3, <3>4 DEF TypeOK
<1>6. PutsCounted'
  <2>1. PutsOf(client_map') = Total(PutsIn(client_map'), {})
    BY <1>2, <1>3, PutsTotal
  <2>2. PutsOf(client_map') = 0
    BY <2>1, TotalFirst, FS_EmptySet
  <2> QED
    BY <1>1, <2>2 DEF PutsCounted, PutsOf, PutsIn
<1>7. AtSlot' /\ Slots' /\ Written'
  BY <1>1, <1>2 DEF AtSlot, Slots, Written
<1>8. Sockets'
  <2>1. -1 \notin DOMAIN client_map'
    BY <1>2
  <2> QED
    BY <1>1, <1>2, <1>4, <2>1 DEF Sockets, IsOpen
<1> QED
  BY <1>5, <1>6, <1>7, <1>8 DEF ServerInv

LEMMA receive_messagesKeeps ==
  ASSUME TypeOK, ServerInv, receive_messages, UNCHANGED cl
  PROVE  TypeOK' /\ ServerInv'
<1> DEFINE fd == fds[slot]
           p == sock[fd]
           s == current.read_buffer \o conn[p].up
           c == [current EXCEPT !.read_buffer = s]
<1>1. /\ Serving /\ ~parsing /\ "IN" \in revents[slot]
      /\ "HUP" \notin revents[slot]
  BY DEF receive_messages, Reading, MayRead
<1>2. /\ current \in Client /\ p \in Player /\ fd \in DOMAIN client_map
      /\ current = client_map[fd]
  BY <1>1, Current
<1>3. s \in Seq(ToServer)
  <2>1. conn[p].up \in Seq(ToServer)
    BY <1>2, ConnectionFields DEF TypeOK
  <2> QED
    BY <1>2, <2>1, ClientFields, ConcatProperties
<1>4. current.write_buffer = <<>>
  BY <1>1, <1>2 DEF ServerInv, Written
<1>5. /\ client_map' = Assign(client_map, fd, c)
      /\ conn' = [conn EXCEPT ![p].up = <<>>]
  BY DEF receive_messages, current
<1>6. /\ c \in Client /\ c.sent_puts = current.sent_puts
      /\ c.write_buffer = <<>>
  <2> HIDE DEF s
  <2> QED
    BY <1>2, <1>3, <1>4 DEF Client, ClientRecord
<1>7. /\ conn' \in [Player -> Connection]
      /\ \A q \in Player : /\ conn'[q].server = conn[q].server
                           /\ conn'[q].client = conn[q].client
  <2>1. conn \in [Player -> Connection] /\ <<>> \in Seq(ToServer)
    BY DEF TypeOK
  <2> HIDE DEF p
  <2> QED
    BY <1>2, <1>5, <2>1 DEF Connection
<1> HIDE DEF c, p
<1>8. NextSlot /\ UNCHANGED <<fds, received_puts, sock, Rest>>
  BY DEF receive_messages
<1> QED
  BY <1>1, <1>2, <1>5, <1>6, <1>7, <1>8, Kept

LEMMA KeepWaitingKeeps ==
  ASSUME TypeOK, ServerInv, KeepWaiting, UNCHANGED cl
  PROVE  TypeOK' /\ ServerInv'
<1> DEFINE fd == fds[slot]
           c == served
<1>1. /\ Serving /\ "HUP" \notin revents[slot]
      /\ ~HelloTooLate /\ ~Sends
  BY DEF KeepWaiting, Serve, Handling, ServerInv, AtSlot
<1>2. /\ c \in Client /\ c.sent_puts = current.sent_puts
      /\ c.age = current.age /\ c.received_hello = current.received_hello
      /\ Blank(current) => Blank(c)
      /\ current \in Client
  BY <1>1, Current, RetardedMoves DEF served
<1>3. IsOpen(fd)
  <2> SUFFICES ASSUME ~IsOpen(fd) PROVE FALSE
    OBVIOUS
  <2>1. current = DefaultClient
    BY <1>1, Current
  <2>2. current.age = DISCONNECT_TIMEOUT + 1 /\ ~current.received_hello
    BY <2>1 DEF DefaultClient
  <2>3. c.age > DISCONNECT_TIMEOUT
    BY <1>2, <2>2, ServerAssumption
  <2> QED
    BY <1>1, <1>2, <2>2, <2>3 DEF HelloTooLate
<1>4. fd \in DOMAIN client_map /\ current = client_map[fd]
  BY <1>1, <1>3, Current
<1>5. c.write_buffer = <<>>
  <2>1. CASE "OUT" \in revents[slot]
    BY <1>1, <2>1 DEF Sends
  <2>2. CASE "OUT" \notin revents[slot]
    <3>1. revents[slot] = {}
      BY <1>1, <2>2, ServingFacts DEF Reported
    <3> QED
      BY <1>1, <1>2, <3>1, Current DEF Blank
  <2> QED
    BY <2>1, <2>2
<1>6. /\ client_map' = Assign(client_map, fd, c) /\ NextSlot
      /\ UNCHANGED <<fds, received_puts, sock, Rest>> /\ conn' = conn
  BY DEF KeepWaiting
<1> HIDE DEF c
<1> QED
  BY <1>1, <1>2, <1>4, <1>5, <1>6, Kept DEF TypeOK

LEMMA KeepMadeUpKeeps ==
  ASSUME TypeOK, ServerInv, KeepMadeUp, UNCHANGED cl
  PROVE  TypeOK' /\ ServerInv'
<1>1. /\ Serving /\ "HUP" \notin revents[slot] /\ NextSlot
      /\ UNCHANGED <<table, Rest, conn>>
  BY DEF KeepMadeUp, Serve, Handling, ServerInv, AtSlot
<1>2. /\ fds' = fds /\ client_map' = client_map /\ sock' = sock
      /\ received_puts' = received_puts /\ conn' = conn
      /\ running' = running /\ revents' = revents /\ next_line' = next_line
  BY <1>1 DEF table, Rest
<1>3. /\ AtSlot' /\ Slots'
      /\ slot' \in Nat /\ parsing' = FALSE /\ fds' \in Seq(FD \cup {-1})
  BY <1>1, <1>2, SlotServed
<1>4. Sockets'
  BY <1>2 DEF ServerInv, Sockets, IsOpen
<1>5. ~parsing
  <2>1. fds[slot] \notin DOMAIN client_map /\ ~IsOpen(fds[slot])
    BY <1>1, Current DEF KeepMadeUp
  <2>2. revents[slot] = {}
    BY <1>1, <2>1, Current
  <2> QED
    BY <2>2 DEF ServerInv, AtSlot
<1>6. Written' /\ PutsCounted'
  BY <1>2, <1>5 DEF ServerInv, Written, PutsCounted
<1>7. TypeOK'
  BY <1>2, <1>3 DEF TypeOK
<1> QED
  BY <1>3, <1>4, <1>6, <1>7 DEF ServerInv

LEMMA send_messagesKeeps ==
  ASSUME TypeOK, ServerInv, send_messages, UNCHANGED cl
  PROVE  TypeOK' /\ ServerInv'
<1> DEFINE fd == fds[slot]
           p == sock[fd]
           c == [served EXCEPT !.write_buffer = <<>>]
           s == conn[p].down \o served.write_buffer
<1>1. Serving /\ "HUP" \notin revents[slot] /\ "OUT" \in revents[slot]
  BY DEF send_messages, Serve, Handling, Sends, ServerInv, AtSlot
<1>2. /\ current \in Client /\ p \in Player /\ fd \in DOMAIN client_map
      /\ current = client_map[fd]
  BY <1>1, Current
<1>3. served \in Client /\ served.sent_puts = current.sent_puts
  BY <1>2, RetardedMoves DEF served
<1>4. /\ c \in Client /\ c.sent_puts = current.sent_puts
      /\ c.write_buffer = <<>>
  <2>1. <<>> \in Seq(Reply)
    OBVIOUS
  <2> QED
    BY <1>3, <2>1 DEF Client, ClientRecord
<1>5. /\ client_map' = Assign(client_map, fd, c) /\ NextSlot
      /\ UNCHANGED <<fds, received_puts, sock, Rest>>
      /\ conn' = [conn EXCEPT ![p].down = s]
  BY DEF send_messages
<1>6. s \in Seq(FromServer)
  <2>1. conn[p].down \in Seq(FromServer)
    BY <1>2, ConnectionFields DEF TypeOK
  <2>2. served.write_buffer \in Seq(Reply)
    BY <1>3, ClientFields
  <2>3. served.write_buffer \in Seq(FromServer)
    BY <2>2, SeqMonotonic DEF FromServer
  <2> QED
    BY <2>1, <2>3, ConcatProperties
<1>7. /\ conn' \in [Player -> Connection]
      /\ \A q \in Player : /\ conn'[q].server = conn[q].server
                           /\ conn'[q].client = conn[q].client
  <2>1. conn \in [Player -> Connection]
    BY DEF TypeOK
  <2> HIDE DEF p, s
  <2> QED
    BY <1>2, <1>5, <1>6, <2>1 DEF Connection
<1> HIDE DEF c, p, s
<1> QED
  BY <1>1, <1>2, <1>4, <1>5, <1>7, Kept

LEMMA SendFailsKeeps ==
  ASSUME TypeOK, ServerInv, SendFails, UNCHANGED cl
  PROVE  TypeOK' /\ ServerInv'
<1>1. CASE Exit
  BY <1>1, ExitKeeps
<1>2. CASE /\ Forget(fds[slot]) /\ client_map' = Without(fds[slot])
           /\ NextSlot /\ UNCHANGED <<fds, Rest>>
  <2>1. Serving /\ "HUP" \notin revents[slot]
    BY DEF SendFails, Serve, Handling, ServerInv, AtSlot
  <2> QED
    BY <1>2, <2>1, Disconnected
<1> QED
  BY <1>1, <1>2 DEF SendFails

\* The line that parse_loop takes.
LEMMA LineTaken ==
  ASSUME TypeOK, ServerInv, Handling, HasLine
  PROVE  LET line == Head(current.read_buffer)
             c == [current EXCEPT !.read_buffer = Tail(@)]
         IN  /\ Serving /\ "HUP" \notin revents[slot]
             /\ "OUT" \in revents[slot]
             /\ IsOpen(fds[slot]) /\ fds[slot] \in DOMAIN client_map
             /\ current = client_map[fds[slot]]
             /\ line \in ToServer /\ c \in Client
             /\ c.sent_puts = current.sent_puts
             /\ c.read_buffer = Tail(current.read_buffer)
             /\ ReadsCoeff(line, c) <=> ReadsCoeff(line, current)
             /\ ~FileExhausted => (ReadsCoeff(line, c) => next_line \in Lines)
<1> DEFINE line == Head(current.read_buffer)
           c == [current EXCEPT !.read_buffer = Tail(@)]
<1>1. Serving /\ "HUP" \notin revents[slot]
  BY DEF Handling, ServerInv, AtSlot
<1>2. current \in Client /\ current.read_buffer # <<>>
  BY <1>1, Current DEF HasLine
<1>3. revents[slot] # {}
  BY <1>1, <1>2, Current DEF Blank
<1>4. /\ IsOpen(fds[slot]) /\ fds[slot] \in DOMAIN client_map
      /\ current = client_map[fds[slot]]
  BY <1>1, <1>3, Current
<1>5. "OUT" \in revents[slot]
  BY <1>1, <1>3, ServingFacts DEF Reported
<1>6. line \in ToServer /\ Tail(current.read_buffer) \in Seq(ToServer)
  <2>1. current.read_buffer \in Seq(ToServer)
    BY <1>2, ClientFields
  <2> QED
    BY <1>2, <2>1, HeadTailProperties
<1>7. /\ c \in Client /\ c.sent_puts = current.sent_puts
      /\ c.read_buffer = Tail(current.read_buffer)
      /\ c.received_hello = current.received_hello
  BY <1>2, <1>6 DEF Client, ClientRecord
<1> HIDE DEF c, line
<1>8. ReadsCoeff(line, c) <=> ReadsCoeff(line, current)
  BY <1>7 DEF ReadsCoeff
<1>9. ~FileExhausted => (ReadsCoeff(line, c) => next_line \in Lines)
  <2>1. Len(Poly) \in Nat
    BY ProtocolAssumption
  <2>2. next_line \in Nat /\ next_line > 0
    BY DEF TypeOK
  <2>3. ~FileExhausted => (ReadsCoeff(line, c) => ~(next_line > Len(Poly)))
    BY <1>8 DEF FileExhausted, line
  <2>4. ~(next_line > Len(Poly)) => next_line \in Lines
    BY <2>1, <2>2 DEF Lines
  <2> QED
    BY <2>3, <2>4
<1> QED
  BY <1>1, <1>4, <1>5, <1>6, <1>7, <1>8, <1>9 DEF c, line

\* parse_loop goes on with the next line of the client.
LEMMA Continued ==
  ASSUME TypeOK, ServerInv, Serving, UNCHANGED cl,
         "HUP" \notin revents[slot], "OUT" \in revents[slot],
         fds[slot] \in DOMAIN client_map, NEW c \in Client,
         client_map' = Assign(client_map, fds[slot], c), NEW n \in {0, 1},
         c.sent_puts = client_map[fds[slot]].sent_puts + n,
         received_puts' = received_puts + n, parsing' = TRUE,
         next_line' \in {next_line, next_line + 1},
         UNCHANGED <<running, fds, revents, slot, sock, conn>>
  PROVE  TypeOK' /\ ServerInv'
<1> DEFINE fd == fds[slot]
           N == Assign(client_map, fd, c)
<1>1. fd \in FD /\ fd # -1 /\ IsMap(client_map)
  BY ServingFacts
<1>2. /\ IsMap(N) /\ DOMAIN N = DOMAIN client_map /\ N[fd] = c
      /\ \A f \in DOMAIN client_map : f # fd => N[f] = client_map[f]
      /\ PutsOf(N) = PutsOf(client_map) + n /\ PutsOf(client_map) \in Int
  <2>1. /\ IsMap(N) /\ DOMAIN N = DOMAIN client_map \cup {fd} /\ N[fd] = c
        /\ \A f \in DOMAIN client_map : f # fd => N[f] = client_map[f]
    <3>1. fd \in FD \cup {-1}
      BY <1>1
    <3> HIDE DEF fd
    <3> QED
      BY <1>1, <3>1, AssignMap
  <2>2. PutsOf(N) = PutsOf(client_map) + c.sent_puts
                      - client_map[fd].sent_puts
    BY <1>1, PutsAssign
  <2> DEFINE a == PutsOf(client_map)
             b == client_map[fd].sent_puts
  <2>3. a \in Int /\ b \in Int
    BY <1>1, PutsTotal, MapFinite
  <2>4. PutsOf(N) = a + (b + n) - b
    BY <2>2
  <2> HIDE DEF a, b
  <2>5. a + (b + n) - b = a + n
    BY <2>3
  <2> QED
    BY <2>1, <2>3, <2>4, <2>5 DEF a
<1>3. client_map' = N
  OBVIOUS
<1> HIDE DEF N
<1>4. AtSlot'
  BY DEF ServerInv, AtSlot, Serving, Used
<1>5. Sockets'
  <2>1. \A f \in FD : IsOpen(f)' <=> IsOpen(f)
    BY DEF IsOpen
  <2>2. -1 \in DOMAIN client_map' => client_map'[-1] = DefaultClient
    BY <1>1, <1>2, <1>3 DEF ServerInv, Sockets
  <2> QED
    BY <1>2, <1>3, <2>1, <2>2 DEF ServerInv, Sockets
<1>6. Slots'
  <2>1. \A i, j \in DOMAIN fds : Doubled(i, j)' <=> Doubled(i, j)
    BY DEF Doubled
  <2>2. \A i \in DOMAIN fds : Used(i)' <=> Used(i)
    BY DEF Used
  <2>3. ASSUME NEW i \in DOMAIN fds, slot > 0, i >= slot, Used(i)
        PROVE  ToServe(i)'
    <3>1. ToServe(i)
      BY <2>3 DEF ServerInv, Slots
    <3>2. revents[i] = {} => fds[i] # fd
      <4>1. slot \in DOMAIN fds /\ Used(slot)
        BY <1>1 DEF Serving, Used
      <4>2. fds[i] = fd /\ i # slot => Doubled(i, slot)
        BY <2>3, <4>1 DEF ServerInv, Slots
      <4> QED
        BY <4>2 DEF Doubled
    <3>3. revents[i] = {} /\ fds[i] \in DOMAIN client_map'
            => fds[i] \in DOMAIN client_map
               /\ client_map'[fds[i]] = client_map[fds[i]]
      BY <1>2, <1>3, <3>2
    <3> QED
      BY <3>1, <3>3 DEF ToServe, IsOpen, Blank
  <2> QED
    BY <2>1, <2>2, <2>3 DEF ServerInv, Slots
<1>7. PutsCounted'
  <2>1. received_puts = PutsOf(client_map)
    BY DEF ServerInv, PutsCounted, PutsOf, PutsIn
  <2>2. received_puts' = PutsOf(client_map')
    BY <1>2, <1>3, <2>1
  <2> QED
    BY <2>2 DEF PutsCounted, PutsOf, PutsIn
<1>8. Written'
  <2> SUFFICES ASSUME NEW f \in DOMAIN client_map', f # fd
               PROVE  client_map'[f].write_buffer = <<>>
    BY DEF Written
  <2> QED
    BY <1>2, <1>3 DEF ServerInv, Written
<1>9. TypeOK'
  <2>1. /\ DOMAIN client_map' \subseteq FD \cup {-1}
        /\ client_map' \in [DOMAIN client_map' -> Client]
    BY <1>2, <1>3 DEF IsMap
  <2>2. received_puts' \in Int /\ next_line' \in Nat /\ next_line' > 0
    <3>1. received_puts \in Int /\ next_line \in Nat /\ next_line > 0
      BY DEF TypeOK
    <3> QED
      BY <3>1
  <2>3. parsing' \in BOOLEAN
    OBVIOUS
  <2> QED
    BY <2>1, <2>2, <2>3 DEF TypeOK
<1> QED
  BY <1>4, <1>5, <1>6, <1>7, <1>8, <1>9 DEF ServerInv

LEMMA parse_loopKeeps ==
  ASSUME TypeOK, ServerInv, parse_loop, UNCHANGED cl
  PROVE  TypeOK' /\ ServerInv'
<1> DEFINE fd == fds[slot]
           line == Head(current.read_buffer)
           c == [current EXCEPT !.read_buffer = Tail(@)]
           r == Handle(line, c)
<1>1. CASE Exit
  BY <1>1, ExitKeeps
<1>2. CASE ~Exit /\ ~FileExhausted
  <2>1. /\ Serving /\ "HUP" \notin revents[slot] /\ "OUT" \in revents[slot]
        /\ fd \in DOMAIN client_map /\ current = client_map[fd]
        /\ line \in ToServer /\ c \in Client
        /\ c.sent_puts = current.sent_puts
        /\ ReadsCoeff(line, c) => next_line \in Lines
    BY <1>2, LineTaken DEF parse_loop
  <2> HIDE DEF line, c
  <2>2. /\ r.client \in Client /\ r.puts \in {0, 1}
        /\ r.client.sent_puts = c.sent_puts + r.puts
    BY <2>1, HandleType
  <2> HIDE DEF r
  <2>3. CASE ~r.valid /\ ~r.client.received_hello
    <3>1. /\ disconnect_client(fd) /\ client_map' = Without(fd)
          /\ NextSlot /\ UNCHANGED Rest
      BY <1>2, <2>3 DEF parse_loop, r, c, line
    <3> QED
      BY <2>1, <3>1, Disconnected DEF disconnect_client
  <2>4. CASE ~(~r.valid /\ ~r.client.received_hello)
    <3>1. /\ client_map' = Assign(client_map, fd, r.client)
          /\ received_puts' = received_puts + r.puts
          /\ next_line' \in {next_line, next_line + 1}
          /\ parsing' = TRUE
          /\ UNCHANGED <<running, fds, revents, slot, sock, conn>>
      BY <1>2, <2>4 DEF parse_loop, r, c, line
    <3>2. r.client.sent_puts = client_map[fd].sent_puts + r.puts
      BY <2>1, <2>2
    <3> HIDE DEF fd
    <3> QED
      BY <2>1, <2>2, <3>1, <3>2, Continued DEF fd
  <2> QED
    BY <2>3, <2>4
<1> QED
  BY <1>1, <1>2 DEF parse_loop

LEMMA NextTurnKeeps ==
  ASSUME TypeOK, ServerInv, NextTurn, UNCHANGED cl
  PROVE  TypeOK' /\ ServerInv'
<1>1. /\ running /\ slot > Len(fds) /\ slot' = 0
      /\ fds' = fds /\ client_map' = client_map
      /\ received_puts' = received_puts /\ sock' = sock
      /\ running' = running /\ revents' = revents
      /\ next_line' = next_line /\ parsing' = parsing /\ conn' = conn
  BY DEF NextTurn, TurnOver, table, Rest
<1>2. Len(fds) \in Nat /\ DOMAIN fds = 1..Len(fds) /\ slot \in Nat
  BY SeqElements DEF TypeOK
<1>3. ~parsing
  BY <1>1, <1>2 DEF ServerInv, AtSlot
<1>4. \A i \in DOMAIN fds : ~(i >= slot)
  BY <1>1, <1>2
<1>5. AtSlot'
  BY <1>1, <1>2, <1>3 DEF AtSlot
<1>6. Slots'
  <2>1. \A i, j \in DOMAIN fds : ~Doubled(i, j)
    BY <1>4 DEF Doubled
  <2>2. \A i, j \in DOMAIN fds :
          ~(i # j /\ fds[i] = fds[j] /\ fds[i] \in FD)
    BY <2>1 DEF ServerInv, Slots, Used
  <2> QED
    BY <1>1, <2>2 DEF Slots, Used
<1>7. Sockets'
  BY <1>1 DEF ServerInv, Sockets, IsOpen
<1>8. Written' /\ PutsCounted'
  BY <1>1, <1>3 DEF ServerInv, Written, PutsCounted
<1>9. TypeOK'
  <2>1. slot' \in Nat
    BY <1>1
  <2> QED
    BY <1>1, <2>1 DEF TypeOK
<1> QED
  BY <1>5, <1>6, <1>7, <1>8, <1>9 DEF ServerInv

-----------------------------------------------------------------------------
(* poll and accept                                                         *)

LEMMA EventsReported ==
  ASSUME TypeOK, ServerInv, NEW fd \in FD
  PROVE  /\ Events(fd) \in Reported
         /\ "HUP" \in Events(fd) \/ ("OUT" \in Events(fd) /\ IsOpen(fd))
         /\ ~IsOpen(fd) => Events(fd) = {"HUP"}
<1>1. CASE sock[fd] = NoOne \/ conn[sock[fd]].reset
  BY <1>1 DEF Events, Reported, IsOpen
<1>2. CASE ~(sock[fd] = NoOne \/ conn[sock[fd]].reset)
  <2> DEFINE c == conn[sock[fd]]
             more == {e \in {"IN"} : c.up # <<>> \/ c.client = "closed"}
  <2>1. Events(fd) = {"OUT"} \cup more
    BY <1>2 DEF Events
  <2>2. more = {} \/ more = {"IN"}
    OBVIOUS
  <2> HIDE DEF more
  <2>3. Events(fd) = {"OUT"} \/ Events(fd) = {"OUT", "IN"}
    BY <2>1, <2>2
  <2> QED
    BY <1>2, <2>3 DEF Reported, IsOpen
<1> QED
  BY <1>1, <1>2

\* After poll a slot with a connection just accepted is the only one that
\* poll did not look at; another slot with its descriptor hangs up.
LEMMA Polled ==
  ASSUME TypeOK, ServerInv, running, slot = 0,
         running' = running, parsing' = parsing,
         fds' \in Seq(FD \cup {-1}),
         revents' = [i \in DOMAIN fds' |->
           IF i \in DOMAIN fds /\ fds[i] >= 0 THEN Events(fds[i]) ELSE {}],
         slot' = SlotAfter(0, fds'),
         NEW n, NEW g,
         \A i \in DOMAIN fds' :
           i # n => i \in DOMAIN fds /\ fds'[i] = fds[i],
         n \in DOMAIN fds' =>
           /\ fds'[n] = g /\ g \in FD /\ ~IsOpen(g)
           /\ ~(n \in DOMAIN fds /\ fds[n] >= 0)
           /\ g \in DOMAIN client_map' => Blank(client_map'[g]),
         \A f \in FD : f # g => sock'[f] = sock[f],
         g \in FD => IsOpen(g)'
  PROVE  /\ AtSlot' /\ Slots' /\ slot' \in Nat
         /\ revents' \in Seq(Reported) /\ parsing' = FALSE
<1>1. /\ Len(fds) \in Nat /\ DOMAIN fds = 1..Len(fds)
      /\ \A i \in DOMAIN fds : fds[i] \in FD \cup {-1}
  BY SeqElements DEF TypeOK
<1>2. /\ Len(fds') \in Nat /\ DOMAIN fds' = 1..Len(fds')
      /\ \A i \in DOMAIN fds' : fds'[i] \in FD \cup {-1}
  BY SeqElements
<1>3. /\ slot' \in Nat /\ slot' > 0 /\ slot' <= Len(fds') + 1
      /\ slot' \in DOMAIN fds' => fds'[slot'] \in FD
      /\ \A j \in DOMAIN fds' : fds'[j] \in FD => j >= slot'
  <2>1. 0 \in Nat /\ 0 <= Len(fds')
    BY <1>2
  <2>2. /\ slot' \in Nat /\ slot' > 0 /\ slot' <= Len(fds') + 1
        /\ slot' \in DOMAIN fds' => fds'[slot'] \in FD
        /\ \A j \in DOMAIN fds' : j > 0 /\ fds'[j] \in FD => j >= slot'
    BY <2>1, SlotAfterIs
  <2>3. \A j \in DOMAIN fds' : j > 0
    BY <1>2
  <2> QED
    BY <2>2, <2>3
<1>4. \A x \in FD \cup {-1} : x >= 0 <=> x \in FD
  BY Descriptors
<1>5. ASSUME NEW i \in DOMAIN fds'
      PROVE  /\ revents'[i] \in Reported
             /\ i \in DOMAIN fds /\ fds[i] \in FD =>
                  revents'[i] = Events(fds[i])
             /\ ~(i \in DOMAIN fds /\ fds[i] \in FD) => revents'[i] = {}
  <2>1. CASE i \in DOMAIN fds /\ fds[i] \in FD
    <3>1. fds[i] >= 0
      BY <1>4, <2>1
    <3>2. revents'[i] = Events(fds[i])
      BY <2>1, <3>1
    <3> QED
      BY <2>1, <3>2, EventsReported
  <2>2. CASE ~(i \in DOMAIN fds /\ fds[i] \in FD)
    <3>1. ~(i \in DOMAIN fds /\ fds[i] >= 0)
      BY <1>1, <1>4, <2>2
    <3>2. revents'[i] = {}
      BY <3>1
    <3> QED
      BY <2>2, <3>2 DEF Reported
  <2> QED
    BY <2>1, <2>2
<1>6. revents' \in Seq(Reported) /\ Len(revents') = Len(fds')
  <2>1. revents' \in [1..Len(fds') -> Reported]
    BY <1>2, <1>5
  <2> QED
    BY <1>2, <2>1, SeqIs
<1>7. parsing' = FALSE
  <2>1. slot \notin DOMAIN fds
    BY <1>1
  <2> QED
    BY <2>1 DEF ServerInv, AtSlot, TypeOK
<1>8. AtSlot'
  BY <1>3, <1>6, <1>7 DEF AtSlot, Used
<1>9. ASSUME NEW i \in DOMAIN fds, NEW j \in DOMAIN fds, i # j,
             fds[i] = fds[j], fds[i] \in FD
      PROVE  FALSE
  <2>1. Doubled(i, j)
    BY <1>9 DEF ServerInv, Slots, Used
  <2> QED
    BY <2>1 DEF Doubled
<1>10. ASSUME NEW j \in DOMAIN fds', n \in DOMAIN fds', j # n, fds'[j] = g
       PROVE  "HUP" \in revents'[j] /\ revents'[n] = {} /\ j >= slot'
  <2>1. fds[j] = g /\ j \in DOMAIN fds /\ g \in FD /\ ~IsOpen(g)
    BY <1>10
  <2>2. revents'[j] = {"HUP"}
    BY <1>5, <2>1, EventsReported
  <2>3. revents'[n] = {}
    BY <1>1, <1>4, <1>5, <1>10
  <2> QED
    BY <1>3, <1>10, <2>1, <2>2, <2>3
<1>11. ASSUME NEW i \in DOMAIN fds', NEW j \in DOMAIN fds', i # j,
              fds'[i] = fds'[j], fds'[i] \in FD
       PROVE  Doubled(i, j)'
  <2>1. i = n \/ j = n
    BY <1>9, <1>11
  <2> QED
    BY <1>3, <1>10, <1>11, <2>1 DEF Doubled
<1>12. ASSUME NEW i \in DOMAIN fds', fds'[i] \in FD
       PROVE  ToServe(i)'
  <2>1. CASE i = n
    <3>1. revents'[n] = {}
      BY <1>1, <1>4, <1>5, <2>1
    <3> QED
      BY <2>1, <3>1 DEF ToServe, Blank
  <2>2. CASE i # n
    <3>1. i \in DOMAIN fds /\ fds[i] = fds'[i]
          /\ revents'[i] = Events(fds[i])
      BY <1>5, <1>12, <2>2
    <3>2. IsOpen(fds[i]) => IsOpen(fds[i])'
      BY <1>12, <3>1 DEF IsOpen
    <3> QED
      BY <1>12, <3>1, <3>2, EventsReported DEF ToServe, IsOpen
  <2> QED
    BY <2>1, <2>2
<1>13. Slots'
  BY <1>11, <1>12 DEF Slots, Used
<1> QED
  BY <1>3, <1>6, <1>7, <1>8, <1>13

\* There is a descriptor for every player.
LEMMA FreeDescriptor ==
  ASSUME TypeOK, Sockets, NEW p \in Backlog
  PROVE  LET fd == Min({f \in FD : sock[f] = NoOne})
         IN  fd \in FD /\ sock[fd] = NoOne
<1> DEFINE S == {f \in FD : sock[f] = NoOne}
<1>1. S # {}
  <2> SUFFICES ASSUME S = {} PROVE FALSE
    OBVIOUS
  <2>1. \A f \in FD : IsOpen(f) /\ sock[f] \in Player
    BY DEF IsOpen, TypeOK
  <2>2. p \in Player /\ \A f \in FD : sock[f] # p
    BY <2>1 DEF Sockets, Backlog
  <2> DEFINE T == Player \ {p}
  <2>3. sock \in [FD -> T]
    BY <2>1, <2>2 DEF TypeOK
  <2>4. sock \in Injection(FD, T)
    BY <2>1, <2>3 DEF Sockets, Injection, IsInjective
  <2>5. IsFiniteSet(T) /\ Cardinality(T) = Cardinality(Player) - 1
    BY <2>2, ProtocolAssumption, FS_RemoveElement
  <2> HIDE DEF T
  <2>6. Cardinality(FD) <= Cardinality(T)
    BY <2>4, <2>5, FS_Injection
  <2> QED
    BY <2>5, <2>6, Descriptors
<1>2. S \in SUBSET Nat
  BY Descriptors
<1>3. Min(S) \in S
  <2> HIDE DEF S
  <2> QED
    BY <1>1, <1>2, Least
<1> QED
  BY <1>3

LEMMA NobodyAccepted ==
  ASSUME TypeOK, ServerInv, Poll, UNCHANGED <<table, conn>>, UNCHANGED cl
  PROVE  TypeOK' /\ ServerInv'
<1>1. /\ running /\ slot = 0 /\ fds' = fds /\ client_map' = client_map
      /\ received_puts' = received_puts /\ sock' = sock /\ conn' = conn
      /\ slot' = SlotAfter(0, fds')
      /\ running' = running /\ next_line' = next_line /\ parsing' = parsing
      /\ revents' = [i \in DOMAIN fds' |->
           IF i \in DOMAIN fds /\ fds[i] >= 0 THEN Events(fds[i]) ELSE {}]
      /\ fds' \in Seq(FD \cup {-1})
  BY DEF Poll, table, TypeOK
<1>2. /\ AtSlot' /\ Slots' /\ slot' \in Nat
      /\ revents' \in Seq(Reported) /\ parsing' = FALSE
  <2> DEFINE n == 0
  <2>1. n \notin DOMAIN fds' /\ n \notin FD
    <3>1. DOMAIN fds' = 1..Len(fds') /\ Len(fds') \in Nat
      BY <1>1, SeqElements
    <3> QED
      BY <3>1, Descriptors
  <2>2. \A i \in DOMAIN fds' : i # n => i \in DOMAIN fds /\ fds'[i] = fds[i]
    BY <1>1
  <2>3. \A f \in FD : f # n => sock'[f] = sock[f]
    BY <1>1
  <2> HIDE DEF n
  <2> QED
    BY <1>1, <2>1, <2>2, <2>3, Polled
<1>3. Sockets'
  BY <1>1 DEF ServerInv, Sockets, IsOpen
<1>4. Written' /\ PutsCounted'
  <2>1. ~parsing
    BY <1>1, <1>2
  <2> QED
    BY <1>1, <2>1 DEF ServerInv, Written, PutsCounted
<1>5. TypeOK'
  BY <1>1, <1>2 DEF TypeOK
<1> QED
  BY <1>2, <1>3, <1>4, <1>5 DEF ServerInv

LEMMA FreeSlot ==
  ASSUME fds \in Seq(FD \cup {-1}), NEW fd \in FD,
         fds' = IF {i \in DOMAIN fds : fds[i] < 0} = {}
                THEN Append(fds, fd)
                ELSE [fds EXCEPT ![Min({i \in DOMAIN fds : fds[i] < 0})] = fd]
  PROVE  /\ fds' \in Seq(FD \cup {-1})
         /\ \E n \in DOMAIN fds' :
              /\ fds'[n] = fd /\ ~(n \in DOMAIN fds /\ fds[n] >= 0)
              /\ \A i \in DOMAIN fds' :
                   i # n => i \in DOMAIN fds /\ fds'[i] = fds[i]
<1> DEFINE free == {i \in DOMAIN fds : fds[i] < 0}
<1>1. /\ Len(fds) \in Nat /\ DOMAIN fds = 1..Len(fds)
      /\ \A i \in DOMAIN fds : fds[i] \in FD \cup {-1}
  BY SeqElements
<1>2. \A x \in FD \cup {-1} : x < 0 => ~(x >= 0)
  BY Descriptors
<1>3. CASE free = {}
  <2>1. fds' = Append(fds, fd)
    BY <1>3
  <2>2. /\ fds' \in Seq(FD \cup {-1}) /\ Len(fds') = Len(fds) + 1
        /\ DOMAIN fds' = 1..(Len(fds) + 1) /\ fds'[Len(fds) + 1] = fd
        /\ \A i \in 1..Len(fds) : fds'[i] = fds[i]
    <3>1. fd \in FD \cup {-1}
      OBVIOUS
    <3> DEFINE A == FD \cup {-1}
    <3> HIDE DEF A
    <3>2. fds \in Seq(A) /\ fd \in A
      BY <3>1 DEF A
    <3>3. /\ Append(fds, fd) \in Seq(A) /\ Len(Append(fds, fd)) = Len(fds) + 1
          /\ \A i \in 1..Len(fds) : Append(fds, fd)[i] = fds[i]
          /\ Append(fds, fd)[Len(fds) + 1] = fd
      BY <3>2
    <3>4. DOMAIN Append(fds, fd) = 1..(Len(fds) + 1)
      BY <3>3, SeqElements
    <3> QED
      BY <2>1, <3>3, <3>4 DEF A
  <2> DEFINE n == Len(fds) + 1
  <2>3. n \in DOMAIN fds' /\ n \notin DOMAIN fds
    BY <1>1, <2>2
  <2>4. \A i \in DOMAIN fds' : i # n => i \in DOMAIN fds /\ fds'[i] = fds[i]
    BY <1>1, <2>2
  <2> HIDE DEF n
  <2> QED
    BY <2>2, <2>3, <2>4 DEF n
<1>4. CASE free # {}
  <2> DEFINE n == Min(free)
  <2>1. n \in DOMAIN fds /\ fds[n] < 0
    <3>1. free \in SUBSET Nat
      BY <1>1
    <3>2. n \in free
      <4> HIDE DEF free
      <4> QED
        BY <1>4, <3>1, Least
    <3> QED
      BY <3>2
  <2>2. fds' = [fds EXCEPT ![n] = fd]
    BY <1>4
  <2> HIDE DEF n
  <2>3. /\ fds' \in Seq(FD \cup {-1}) /\ DOMAIN fds' = DOMAIN fds
        /\ fds'[n] = fd /\ \A i \in DOMAIN fds : i # n => fds'[i] = fds[i]
    <3> DEFINE A == FD \cup {-1}
    <3>1. fds \in Seq(A) /\ fd \in A /\ n \in 1..Len(fds)
      BY <1>1, <2>1
    <3> HIDE DEF A
    <3>2. /\ fds' \in Seq(A) /\ Len(fds') = Len(fds)
          /\ \A j \in 1..Len(fds) : fds'[j] = IF j = n THEN fd ELSE fds[j]
      <4> DEFINE e == [fds EXCEPT ![n] = fd]
      <4>1. /\ e \in Seq(A) /\ Len(e) = Len(fds)
            /\ \A j \in 1..Len(fds) : e[j] = IF j = n THEN fd ELSE fds[j]
        BY <3>1, ExceptSeq
      <4> HIDE DEF e
      <4>2. fds' = e
        BY <2>2 DEF e
      <4> QED
        BY <4>1, <4>2
    <3>3. DOMAIN fds' = 1..Len(fds')
      BY <3>2, SeqElements
    <3> QED
      BY <1>1, <2>1, <3>2, <3>3 DEF A
  <2>4. ~(fds[n] >= 0)
    BY <1>1, <1>2, <2>1
  <2> QED
    BY <2>1, <2>3, <2>4
<1> QED
  BY <1>3, <1>4

LEMMA Accepted ==
  ASSUME TypeOK, ServerInv, Poll, UNCHANGED cl,
         NEW p \in Backlog, accept_connection(p)
  PROVE  TypeOK' /\ ServerInv'
<1>1. PICK fd \in FD : /\ fd = Min({f \in FD : sock[f] = NoOne})
                       /\ sock[fd] = NoOne
  BY FreeDescriptor DEF ServerInv
<1> DEFINE c == [DefaultClient EXCEPT !.state = [j \in Points |-> 0],
                                      !.age = 0]
           N == Assign(client_map, fd, c)
<1>2. /\ fds' = (IF {i \in DOMAIN fds : fds[i] < 0} = {}
                 THEN Append(fds, fd)
                 ELSE [fds EXCEPT
                         ![Min({i \in DOMAIN fds : fds[i] < 0})] = fd])
      /\ client_map' = N /\ sock' = [sock EXCEPT ![fd] = p]
      /\ conn' = [conn EXCEPT ![p].server = "open"]
      /\ received_puts' = received_puts
  BY <1>1 DEF accept_connection
<1>3. p \in Player /\ p # NoOne /\ conn[p].server = "queued"
  BY ProtocolAssumption DEF Backlog
<1>4. c \in Client /\ c.sent_puts = 0 /\ Blank(c)
  <2>1. [j \in Points |-> 0] \in [Points -> Int]
    OBVIOUS
  <2>2. DefaultClient \in Client
    BY DefaultIsClient
  <2>3. c \in Client /\ c.sent_puts = DefaultClient.sent_puts
        /\ c.retarded_responses = DefaultClient.retarded_responses
        /\ c.write_buffer = DefaultClient.write_buffer
        /\ c.read_buffer = DefaultClient.read_buffer
    <3> DEFINE z == [j \in Points |-> 0]
    <3>1. z \in {<<>>} \cup [Points -> Int] /\ 0 \in Int
      BY <2>1
    <3> HIDE DEF z
    <3>2. /\ c.sent_puts = DefaultClient.sent_puts
          /\ c.retarded_responses = DefaultClient.retarded_responses
          /\ c.write_buffer = DefaultClient.write_buffer
          /\ c.read_buffer = DefaultClient.read_buffer
          /\ c.received_hello = DefaultClient.received_hello
          /\ c.player_id = DefaultClient.player_id
      BY <2>2 DEF Client, ClientRecord
    <3>3. c \in ClientRecord
      BY <2>2, <3>1 DEF Client, ClientRecord, z
    <3> QED
      BY <2>2, <3>2, <3>3 DEF Client
  <2> HIDE DEF c
  <2> QED
    BY <2>3, DefaultIsClient DEF Blank
<1>5. IsMap(client_map) /\ fd \notin DOMAIN client_map
  BY <1>1 DEF IsMap, TypeOK, ServerInv, Sockets, IsOpen
<1> HIDE DEF c
<1>6. /\ IsMap(N) /\ DOMAIN N = DOMAIN client_map \cup {fd} /\ N[fd] = c
      /\ \A f \in DOMAIN client_map : N[f] = client_map[f]
      /\ PutsOf(N) = PutsOf(client_map)
  <2>1. fd \in FD \cup {-1}
    BY <1>1
  <2>2. /\ IsMap(N) /\ DOMAIN N = DOMAIN client_map \cup {fd} /\ N[fd] = c
        /\ \A f \in DOMAIN client_map : f # fd => N[f] = client_map[f]
    BY <1>4, <1>5, <2>1, AssignMap
  <2>3. PutsOf(N) = PutsOf(client_map) + c.sent_puts
          - (IF fd \in DOMAIN client_map
             THEN client_map[fd].sent_puts ELSE 0)
    BY <1>4, <1>5, <2>1, PutsAssign
  <2>4. PutsOf(N) = PutsOf(client_map) + 0 - 0
    BY <1>4, <1>5, <2>3
  <2>5. PutsOf(client_map) + 0 - 0 = PutsOf(client_map)
    BY <1>5, PutsTotal
  <2> QED
    BY <1>5, <2>2, <2>4, <2>5
<1> HIDE DEF N
<1>7. /\ running /\ slot = 0 /\ slot' = SlotAfter(0, fds')
      /\ running' = running /\ next_line' = next_line /\ parsing' = parsing
      /\ revents' = [i \in DOMAIN fds' |->
           IF i \in DOMAIN fds /\ fds[i] >= 0 THEN Events(fds[i]) ELSE {}]
  BY DEF Poll
<1>8. fds' \in Seq(FD \cup {-1})
  BY <1>1, <1>2, FreeSlot DEF TypeOK
<1>9. PICK n \in DOMAIN fds' :
        /\ fds'[n] = fd /\ ~(n \in DOMAIN fds /\ fds[n] >= 0)
        /\ \A i \in DOMAIN fds' :
             i # n => i \in DOMAIN fds /\ fds'[i] = fds[i]
  BY <1>1, <1>2, FreeSlot DEF TypeOK
<1>10. /\ sock' \in [FD -> Player \cup {NoOne}] /\ sock'[fd] = p
       /\ \A f \in FD : f # fd => sock'[f] = sock[f]
  BY <1>1, <1>2, <1>3 DEF TypeOK
<1>11. /\ AtSlot' /\ Slots' /\ slot' \in Nat
       /\ revents' \in Seq(Reported) /\ parsing' = FALSE
  <2>1. ~IsOpen(fd) /\ IsOpen(fd)'
    BY <1>1, <1>3, <1>10 DEF IsOpen
  <2>2. Blank(client_map'[fd])
    BY <1>2, <1>4, <1>6
  <2> QED
    BY <1>1, <1>7, <1>8, <1>9, <1>10, <2>1, <2>2, Polled
<1>12. /\ conn' \in [Player -> Connection] /\ conn'[p].server = "open"
       /\ \A q \in Player : /\ conn'[q].client = conn[q].client
                            /\ q # p => conn'[q] = conn[q]
  <2>1. conn \in [Player -> Connection]
    BY DEF TypeOK
  <2> QED
    BY <1>2, <1>3, <2>1 DEF Connection
<1>13. Sockets'
  <2>1. ASSUME NEW f \in FD, IsOpen(f)
        PROVE  f # fd /\ sock[f] # p /\ sock[f] \in Player
               /\ conn[sock[f]].server = "open"
    BY <1>1, <1>3, <2>1 DEF ServerInv, Sockets, IsOpen, TypeOK
  <2>2. ASSUME NEW f \in FD, NEW g \in FD, sock'[f] = sock'[g], IsOpen(f)'
        PROVE  f = g
    <3>1. IsOpen(g)'
      BY <2>2 DEF IsOpen
    <3>2. CASE f = fd \/ g = fd
      BY <1>10, <2>1, <2>2, <3>1, <3>2 DEF IsOpen
    <3>3. CASE f # fd /\ g # fd
      BY <1>10, <2>2, <3>3 DEF IsOpen, ServerInv, Sockets
    <3> QED
      BY <3>2, <3>3
  <2>3. ASSUME NEW f \in FD, IsOpen(f)'
        PROVE  conn'[sock'[f]].server = "open"
    <3>1. CASE f = fd
      BY <1>10, <1>12, <3>1
    <3>2. CASE f # fd
      <4>1. IsOpen(f) /\ sock'[f] = sock[f]
        BY <1>10, <2>3, <3>2 DEF IsOpen
      <4> QED
        BY <1>12, <2>1, <4>1
    <3> QED
      BY <3>1, <3>2
  <2>4. ASSUME NEW f \in FD
        PROVE  f \in DOMAIN client_map' <=> IsOpen(f)'
    <3>1. CASE f = fd
      BY <1>2, <1>3, <1>6, <1>10, <3>1 DEF IsOpen
    <3>2. CASE f # fd
      BY <1>2, <1>6, <1>10, <3>2 DEF IsOpen, ServerInv, Sockets
    <3> QED
      BY <3>1, <3>2
  <2>5. -1 \in DOMAIN client_map' => client_map'[-1] = DefaultClient
    <3>1. fd # -1
      BY <1>1, Descriptors
    <3> QED
      BY <1>2, <1>6, <3>1 DEF ServerInv, Sockets
  <2>6. ASSUME NEW q \in Player, conn'[q].client = "idle"
        PROVE  conn'[q].server \in {"none", "closed"}
    <3>1. q # p
      BY <1>3, <1>12, <2>6 DEF ServerInv, Sockets
    <3> QED
      BY <1>12, <2>6, <3>1 DEF ServerInv, Sockets
  <2> QED
    BY <2>2, <2>3, <2>4, <2>5, <2>6 DEF Sockets
<1>14. PutsCounted'
  <2>1. received_puts = PutsOf(client_map)
    BY DEF ServerInv, PutsCounted, PutsOf, PutsIn
  <2>2. received_puts' = PutsOf(client_map')
    BY <1>2, <1>6, <2>1
  <2> QED
    BY <2>2 DEF PutsCounted, PutsOf, PutsIn
<1>15. Written'
  <2> SUFFICES ASSUME NEW f \in DOMAIN client_map'
               PROVE  client_map'[f].write_buffer = <<>>
    BY DEF Written
  <2>1. ~parsing
    BY <1>7, <1>11
  <2>2. f # fd => f \in DOMAIN client_map /\ client_map'[f] = client_map[f]
    BY <1>2, <1>6
  <2>3. f = fd => Blank(client_map'[f])
    BY <1>2, <1>4, <1>6
  <2> QED
    BY <2>1, <2>2, <2>3 DEF ServerInv, Written, Blank
<1>16. TypeOK'
  <2>1. /\ DOMAIN client_map' \subseteq FD \cup {-1}
        /\ client_map' \in [DOMAIN client_map' -> Client]
    BY <1>2, <1>6 DEF IsMap
  <2> QED
    BY <1>2, <1>7, <1>8, <1>10, <1>11, <1>12, <2>1 DEF TypeOK
<1> QED
  BY <1>11, <1>13, <1>14, <1>15, <1>16 DEF ServerInv

LEMMA PollKeeps ==
  ASSUME TypeOK, ServerInv, Poll, UNCHANGED cl
  PROVE  TypeOK' /\ ServerInv'
BY NobodyAccepted, Accepted DEF Poll

-----------------------------------------------------------------------------
(* The end of a game                                                       *)

LEMMA poly_valType ==
  ASSUME NEW line \in {0} \cup Lines, NEW x
  PROVE  poly_val(line, x) \in Int
<1>1. CASE line > 0 /\ x \in Points
  <2>1. line \in 1..Len(Poly)
    BY <1>1 DEF Lines
  <2>2. Poly[line] \in [0..k -> Int]
    BY <2>1, ProtocolAssumption, ElementOfSeq
  <2> QED
    BY <1>1, <2>2 DEF poly_val, Points
<1>2. CASE ~(line > 0 /\ x \in Points)
  BY <1>2 DEF poly_val
<1> QED
  BY <1>1, <1>2

LEMMA DeviationType ==
  ASSUME NEW c \in Client, c.state # <<>>
  PROVE  Deviation(c) \in Int
<1> DEFINE f == [j \in Points |-> Square(poly_val(c.coeffs, j) - c.state[j])]
<1>1. IsFiniteSet(Points) /\ DOMAIN f = Points
  BY ProtocolAssumption, FS_Interval DEF Points
<1>2. ASSUME NEW j \in Points
      PROVE  f[j] \in Int
  <2> DEFINE a == poly_val(c.coeffs, j)
             b == c.state[j]
  <2>1. a \in Int
    BY poly_valType, ClientFields
  <2>2. b \in Int
    BY ClientFields
  <2>3. f[j] = Square(a - b)
    OBVIOUS
  <2> HIDE DEF a, b, f
  <2> QED
    BY <2>1, <2>2, <2>3 DEF Square
<1>3. Deviation(c) = Sum(f)
  BY DEF Deviation
<1> HIDE DEF f
<1>4. Sum(f) = Total(f, Points)
  BY <1>1, SumIsTotal
<1> QED
  BY <1>1, <1>2, <1>3, <1>4, TotalType

LEMMA SetToSeqType ==
  ASSUME NEW S, IsFiniteSet(S)
  PROVE  SetToSeq(S) \in [1..Cardinality(S) -> S] /\ Cardinality(S) \in Nat
<1>1. Cardinality(S) \in Nat /\ ExistsBijection(1..Cardinality(S), S)
  BY FS_CardinalityType
<1>2. PICK f \in [1..Cardinality(S) -> S] : IsInjective(f)
  BY <1>1 DEF ExistsBijection, Bijection, Injection, IsInjective
<1> QED
  BY <1>1, <1>2 DEF SetToSeq

LEMMA ScoringType ==
  ASSUME TypeOK, \A fd \in Taken : ClientAt(fd).state # <<>>
  PROVE  build_scoring(Scoring) \in FromServer
<1> DEFINE All == SetToSeq(DOMAIN client_map)
           n == Cardinality(DOMAIN client_map)
           result(fd) == [id |-> client_map[fd].player_id,
                          score |-> IF fd \in Taken
                                    THEN client_map[fd].score
                                           + Deviation(client_map[fd])
                                    ELSE client_map[fd].score]
<1>1. IsMap(client_map)
  BY DEF IsMap, TypeOK
<1>2. All \in [1..n -> DOMAIN client_map] /\ n \in Nat
  BY <1>1, MapFinite, SetToSeqType
<1>3. ASSUME NEW fd \in DOMAIN client_map
      PROVE  result(fd) \in Result
  <2> DEFINE c == client_map[fd]
  <2>1. c \in Client /\ c.score \in Int /\ c.player_id \in Player \cup {NoOne}
    BY <1>1, MapFinite, ClientFields
  <2>2. fd \in Taken => c.state # <<>>
    BY DEF ClientAt
  <2>3. fd \in Taken => Deviation(c) \in Int
    BY <2>1, <2>2, DeviationType
  <2>4. fd \in Taken => c.score + Deviation(c) \in Int
    BY <2>1, <2>3
  <2> HIDE DEF c
  <2>5. (IF fd \in Taken THEN c.score + Deviation(c) ELSE c.score) \in Int
    BY <2>1, <2>4
  <2> QED
    BY <2>1, <2>5 DEF Result, c
<1> HIDE DEF All, n
<1>4. Scoring = [i \in 1..n |-> result(All[i])]
  <2>1. DOMAIN All = 1..n
    BY <1>2
  <2> QED
    BY <2>1 DEF Scoring, All
<1> HIDE DEF result
<1>5. Scoring \in [1..n -> Result]
  BY <1>2, <1>3, <1>4
<1>6. Scoring \in Seq(Result)
  BY <1>2, <1>5, SeqIs
<1>7. validate_scoring(Scoring) \in BOOLEAN
  BY DEF validate_scoring
<1> QED
  BY <1>6, <1>7 DEF build_scoring, FromServer

LEMMA end_gameKeeps ==
  ASSUME TypeOK, ServerInv, end_game, UNCHANGED cl
  PROVE  TypeOK' /\ ServerInv'
<1>1. CASE Exit
  BY <1>1, ExitKeeps
<1>2. CASE ~Exit
  <2>1. \A fd \in Taken : ClientAt(fd).state # <<>>
    BY <1>2 DEF end_game
  <2>2. conn' = [p \in Player |->
             IF \E fd \in Taken : sock[fd] = p
             THEN CloseServer([conn[p] EXCEPT
                                 !.down = Append(@, build_scoring(Scoring))])
             ELSE conn[p]]
    BY <1>2 DEF end_game
  <2>3. /\ received_puts' = received_puts
             - Sum([fd \in Taken |-> client_map[fd].sent_puts])
        /\ client_map' = Restrict(client_map, DOMAIN client_map \ Taken)
        /\ fds' = [i \in DOMAIN fds |-> -1]
        /\ sock' = [fd \in FD |-> IF fd \in Taken THEN NoOne ELSE sock[fd]]
        /\ slot' = 0 /\ slot > Len(fds)
        /\ running' = running /\ revents' = revents
        /\ next_line' = next_line /\ parsing' = parsing
    BY <1>2 DEF end_game, Rest, GameOver, TurnOver
  <2>4. /\ Len(fds) \in Nat /\ DOMAIN fds = 1..Len(fds) /\ slot \in Nat
        /\ \A i \in DOMAIN fds : fds[i] \in FD \cup {-1}
    BY SeqElements DEF TypeOK
  <2>5. Taken \in SUBSET DOMAIN client_map /\ Taken \subseteq FD
    <3>1. Taken \subseteq FD
      BY <2>4 DEF Taken
    <3>2. \A fd \in Taken : fd \in DOMAIN client_map
      BY <2>1, DefaultIsClient DEF ClientAt
    <3> QED
      BY <3>1, <3>2
  <2>6. ~parsing
    BY <2>3, <2>4 DEF ServerInv, AtSlot
  <2>7. IsMap(client_map)
    BY DEF IsMap, TypeOK
  <2>8. /\ IsMap(client_map') /\ DOMAIN client_map' = DOMAIN client_map \ Taken
        /\ \A f \in DOMAIN client_map' : client_map'[f] = client_map[f]
    <3> DEFINE D == DOMAIN client_map \ Taken
    <3>1. /\ D \in SUBSET DOMAIN client_map
          /\ client_map' = Restrict(client_map, D)
      BY <2>3
    <3> HIDE DEF D
    <3>2. IsMap(Restrict(client_map, D)) /\ DOMAIN Restrict(client_map, D) = D
          /\ \A f \in D : Restrict(client_map, D)[f] = client_map[f]
      BY <2>7, <3>1, RestrictMap
    <3> QED
      BY <3>1, <3>2 DEF D
  <2>9. PutsCounted'
    <3> DEFINE s == Sum([fd \in Taken |-> client_map[fd].sent_puts])
               N == Restrict(client_map, DOMAIN client_map \ Taken)
    <3>1. received_puts = PutsOf(client_map)
      BY DEF ServerInv, PutsCounted, PutsOf, PutsIn
    <3>2. PutsOf(N) = PutsOf(client_map) - s
      BY <2>5, <2>7, PutsLeave
    <3>3. client_map' = N /\ received_puts' = received_puts - s
      BY <2>3
    <3> HIDE DEF N, s
    <3>4. received_puts' = PutsOf(client_map')
      BY <3>1, <3>2, <3>3
    <3> QED
      BY <3>4 DEF PutsCounted, PutsOf, PutsIn
  <2>10. Written'
    BY <2>3, <2>6, <2>8 DEF ServerInv, Written
  <2>11. fds' \in Seq(FD \cup {-1}) /\ \A i \in DOMAIN fds' : fds'[i] = -1
    <3>1. fds' \in [1..Len(fds) -> FD \cup {-1}]
      BY <2>3, <2>4
    <3> QED
      BY <2>3, <2>4, <3>1, SeqIs
  <2>12. AtSlot' /\ Slots'
    <3>1. \A i \in DOMAIN fds' : ~(fds'[i] \in FD)
      BY <2>11, Descriptors
    <3>2. 0 \notin DOMAIN fds'
      BY <2>3, <2>4
    <3> QED
      BY <2>3, <2>6, <3>1, <3>2 DEF AtSlot, Slots, Used
  <2>13. ASSUME NEW p \in Player
         PROVE  /\ conn'[p] \in Connection
                /\ (\A fd \in Taken : sock[fd] # p) => conn'[p] = conn[p]
                /\ conn'[p].client = conn[p].client
                /\ conn'[p].server \in {conn[p].server, "closed"}
    <3>1. conn[p] \in Connection
      BY DEF TypeOK
    <3>2. CASE \A fd \in Taken : sock[fd] # p
      BY <2>2, <3>1, <3>2
    <3>3. CASE ~(\A fd \in Taken : sock[fd] # p)
      <4> DEFINE s == Append(conn[p].down, build_scoring(Scoring))
                 c == [conn[p] EXCEPT !.down = s]
      <4>1. conn'[p] = CloseServer(c)
        BY <2>2, <3>3
      <4>2. s \in Seq(FromServer)
        <5> DEFINE x == build_scoring(Scoring)
        <5>1. x \in FromServer
          BY <2>1, ScoringType
        <5>2. conn[p].down \in Seq(FromServer)
          BY <3>1, ConnectionFields
        <5>3. s = Append(conn[p].down, x)
          OBVIOUS
        <5> HIDE DEF x, s
        <5> QED
          BY <5>1, <5>2, <5>3
      <4> HIDE DEF s
      <4>3. c \in Connection /\ c.client = conn[p].client
        BY <3>1, <4>2 DEF Connection
      <4> HIDE DEF c
      <4> QED
        BY <3>3, <4>1, <4>3, CloseTypes
    <3> QED
      BY <3>2, <3>3
  <2>14. conn' \in [Player -> Connection]
    BY <2>2, <2>13
  <2>15. Sockets'
    <3>1. ASSUME NEW f \in FD, IsOpen(f)'
          PROVE  /\ f \notin Taken /\ IsOpen(f) /\ sock'[f] = sock[f]
                 /\ sock[f] \in Player
                 /\ conn'[sock[f]] = conn[sock[f]]
      <4>1. f \notin Taken /\ IsOpen(f) /\ sock'[f] = sock[f]
        BY <2>3, <3>1 DEF IsOpen
      <4>2. sock[f] \in Player
        BY <4>1 DEF IsOpen, TypeOK
      <4>3. \A fd \in Taken : sock[fd] # sock[f]
        BY <2>5, <4>1 DEF ServerInv, Sockets, IsOpen
      <4> QED
        BY <2>13, <4>1, <4>2, <4>3
    <3>2. \A f, g \in FD : sock'[f] = sock'[g] /\ IsOpen(f)' => f = g
      <4> SUFFICES ASSUME NEW f \in FD, NEW g \in FD, sock'[f] = sock'[g],
                          IsOpen(f)'
                   PROVE  f = g
        OBVIOUS
      <4>1. IsOpen(g)'
        BY DEF IsOpen
      <4> QED
        BY <3>1, <4>1 DEF ServerInv, Sockets
    <3>3. \A f \in FD : IsOpen(f)' => conn'[sock'[f]].server = "open"
      BY <3>1 DEF ServerInv, Sockets
    <3>4. \A f \in FD : f \in DOMAIN client_map' <=> IsOpen(f)'
      BY <2>3, <2>8 DEF ServerInv, Sockets, IsOpen
    <3>5. -1 \in DOMAIN client_map' => client_map'[-1] = DefaultClient
      BY <2>8 DEF ServerInv, Sockets
    <3>6. \A p \in Player :
            conn'[p].client = "idle" => conn'[p].server \in {"none", "closed"}
      BY <2>13 DEF ServerInv, Sockets
    <3> QED
      BY <3>2, <3>3, <3>4, <3>5, <3>6 DEF Sockets
  <2>16. TypeOK'
    <3>1. /\ DOMAIN client_map' \subseteq FD \cup {-1}
          /\ client_map' \in [DOMAIN client_map' -> Client]
      BY <2>8 DEF IsMap
    <3>2. sock' \in [FD -> Player \cup {NoOne}]
      BY <2>3 DEF TypeOK
    <3>3. received_puts' \in Int
      <4>1. received_puts' = PutsOf(client_map')
        BY <2>9 DEF PutsCounted, PutsOf, PutsIn
      <4> QED
        BY <2>8, <4>1, PutsTotal
    <3>4. slot' \in Nat
      BY <2>3
    <3> QED
      <4>1. /\ running' = running /\ revents' = revents
            /\ next_line' = next_line /\ parsing' = parsing
        BY <2>3
      <4> QED
        BY <2>11, <2>14, <3>1, <3>2, <3>3, <3>4, <4>1 DEF TypeOK
  <2> QED
    BY <2>9, <2>10, <2>12, <2>15, <2>16 DEF ServerInv
<1> QED
  BY <1>1, <1>2

-----------------------------------------------------------------------------
(* Time and the players                                                    *)

LEMMA OlderType ==
  ASSUME NEW c \in Client
  PROVE  /\ Older(c) \in Client /\ Older(c).sent_puts = c.sent_puts
         /\ Older(c).write_buffer = c.write_buffer
         /\ Older(c).read_buffer = c.read_buffer
         /\ Older(c).state = c.state /\ Older(c).coeffs = c.coeffs
         /\ Older(c).player_id = c.player_id
         /\ Older(c).received_hello = c.received_hello
         /\ Len(Older(c).retarded_responses) = Len(c.retarded_responses)
         /\ Waiting(Older(c)) = Waiting(c)
         /\ Blank(c) => Blank(Older(c))
<1> DEFINE w == c.retarded_responses
           due == [i \in DOMAIN w |-> Sooner(w[i])]
           age == IF c.age > DISCONNECT_TIMEOUT \/ c.received_hello
                  THEN c.age ELSE c.age + 1
<1>1. Older(c) = [c EXCEPT !.retarded_responses = due, !.age = age]
  BY DEF Older
<1>2. w \in Seq(Delayed)
  BY ClientFields
<1>3. Len(w) \in Nat /\ DOMAIN w = 1..Len(w)
      /\ \A i \in DOMAIN w : w[i] \in Delayed
  <2> HIDE DEF w
  <2> QED
    BY <1>2, SeqElements
<1>4. due \in Seq(Delayed) /\ Len(due) = Len(w) /\ DOMAIN due = DOMAIN w
      /\ \A i \in DOMAIN w : due[i].line = w[i].line
  <2>1. due \in [1..Len(w) -> Delayed]
    BY <1>3 DEF Delayed, Sooner
  <2>2. \A i \in DOMAIN w : due[i].line = w[i].line
    BY <1>3 DEF Delayed, Sooner
  <2> QED
    BY <1>3, <2>1, <2>2, SeqIs
<1>5. age \in Int
  BY ClientFields
<1>6. w = <<>> => due = <<>>
  BY <1>3, <1>4
<1> HIDE DEF due, age
<1>7. /\ Older(c).sent_puts = c.sent_puts
      /\ Older(c).write_buffer = c.write_buffer
      /\ Older(c).read_buffer = c.read_buffer
      /\ Older(c).state = c.state /\ Older(c).coeffs = c.coeffs
      /\ Older(c).player_id = c.player_id
      /\ Older(c).received_hello = c.received_hello
      /\ Older(c).retarded_responses = due
      /\ Older(c) \in Client
  BY <1>1, <1>4, <1>5 DEF Client, ClientRecord
<1>8. Waiting(Older(c)) = Waiting(c)
  BY <1>4, <1>7 DEF Waiting
<1> QED
  BY <1>4, <1>6, <1>7, <1>8 DEF Blank

LEMMA OlderDefault ==
  Older(DefaultClient) = DefaultClient
<1> DEFINE d == DefaultClient
           w == d.retarded_responses
           due == [i \in DOMAIN w |-> Sooner(w[i])]
           age == IF d.age > DISCONNECT_TIMEOUT \/ d.received_hello
                  THEN d.age ELSE d.age + 1
<1>1. Older(d) = [d EXCEPT !.retarded_responses = due, !.age = age]
  BY DEF Older
<1>2. d.age = DISCONNECT_TIMEOUT + 1 /\ w = <<>>
  BY DEF DefaultClient
<1>3. d.age > DISCONNECT_TIMEOUT
  BY <1>2, ServerAssumption
<1>4. due = w /\ age = d.age
  BY <1>2, <1>3
<1> HIDE DEF due, age
<1> QED
  BY <1>1, <1>4 DEF DefaultClient

LEMMA TickKeeps ==
  ASSUME TypeOK, ServerInv, Tick, UNCHANGED cl
  PROVE  TypeOK' /\ ServerInv'
<1>1. /\ client_map' = [fd \in DOMAIN client_map |-> Older(client_map[fd])]
      /\ running' = running /\ fds' = fds /\ revents' = revents
      /\ received_puts' = received_puts /\ next_line' = next_line
      /\ slot' = slot /\ parsing' = parsing /\ sock' = sock /\ conn' = conn
  BY DEF Tick
<1>2. \A c \in Client :
        /\ Older(c) \in Client /\ Older(c).sent_puts = c.sent_puts
        /\ Older(c).write_buffer = c.write_buffer
        /\ Blank(c) => Blank(Older(c))
  BY OlderType
<1>3. Older(DefaultClient) = DefaultClient
  BY OlderDefault
<1>4. /\ IsMap(client_map) /\ IsMap(client_map')
      /\ DOMAIN client_map' = DOMAIN client_map
      /\ \A fd \in DOMAIN client_map :
           /\ client_map[fd] \in Client
           /\ client_map'[fd] = Older(client_map[fd])
  BY <1>1, <1>2 DEF IsMap, TypeOK
<1>5. AtSlot'
  BY <1>1 DEF ServerInv, AtSlot, Used
<1>6. Sockets'
  BY <1>1, <1>3, <1>4 DEF ServerInv, Sockets, IsOpen
<1>7. Slots'
  <2>1. \A i, j \in DOMAIN fds : Doubled(i, j)' <=> Doubled(i, j)
    BY <1>1 DEF Doubled
  <2>2. \A i \in DOMAIN fds : Used(i)' <=> Used(i)
    BY <1>1 DEF Used
  <2>3. ASSUME NEW i \in DOMAIN fds, ToServe(i)
        PROVE  ToServe(i)'
    <3>1. fds[i] \in DOMAIN client_map /\ Blank(client_map[fds[i]])
            => Blank(client_map'[fds[i]])
      BY <1>2, <1>4
    <3> QED
      BY <1>1, <1>4, <2>3, <3>1 DEF ToServe, IsOpen, Blank
  <2> QED
    BY <1>1, <2>1, <2>2, <2>3 DEF ServerInv, Slots
<1>8. Written'
  BY <1>1, <1>2, <1>4 DEF ServerInv, Written
<1>9. PutsCounted'
  <2>1. PutsIn(client_map') = PutsIn(client_map)
    BY <1>2, <1>4 DEF PutsIn
  <2> QED
    BY <1>1, <2>1 DEF ServerInv, PutsCounted, PutsIn
<1>10. TypeOK'
  BY <1>1, <1>4 DEF TypeOK, IsMap
<1> QED
  BY <1>5, <1>6, <1>7, <1>8, <1>9, <1>10 DEF ServerInv

\* What players do leaves the ends of the server alone.
LEMMA PlayersKeep ==
  ASSUME TypeOK, ServerInv, UNCHANGED serverVars,
         conn' \in [Player -> Connection], cl' \in [Player -> ClientState],
         \A p \in Player : Len(cl'[p].read_buffer) <= 1,
         \A p \in Player :
           /\ conn[p].server = "open" => conn'[p].server = "open"
           /\ conn'[p].client = "idle" => conn'[p].server = conn[p].server
                                          /\ conn[p].client = "idle"
  PROVE  TypeOK' /\ ServerInv'
<1>1. /\ running' = running /\ fds' = fds /\ revents' = revents
      /\ client_map' = client_map /\ received_puts' = received_puts
      /\ next_line' = next_line /\ slot' = slot /\ parsing' = parsing
      /\ sock' = sock
  BY DEF serverVars, table
<1>2. AtSlot' /\ Slots' /\ Written' /\ PutsCounted'
  BY <1>1 DEF ServerInv, AtSlot, Slots, Written, PutsCounted, Used, Doubled,
     ToServe, IsOpen, Blank
<1>3. Sockets'
  <2>1. \A fd \in FD : IsOpen(fd) => sock[fd] \in Player
    BY DEF IsOpen, TypeOK
  <2> QED
    BY <1>1, <2>1 DEF ServerInv, Sockets, IsOpen
<1>4. TypeOK'
  BY <1>1 DEF TypeOK
<1> QED
  BY <1>2, <1>3, <1>4 DEF ServerInv

LEMMA PlayerFields ==
  ASSUME NEW c \in ClientState
  PROVE  /\ c.running \in BOOLEAN
         /\ c.mode \in {"AUTOMATIC", "MANUAL", "OTHER"}
         /\ c.write_buffer \in Seq(ToServer)
         /\ c.read_buffer \in Seq(FromServer)
         /\ c.coeff_buffer \in Seq(ToServer) /\ c.received_coeff \in BOOLEAN
         /\ c.coeffs \in {0} \cup Lines /\ c.put_eligible \in BOOLEAN
         /\ c.sent \in Nat /\ c.K \in Int /\ c.lines \in Int
BY DEF ClientState

LEMMA AnswerFields ==
  ASSUME NEW line \in FromServer
  PROVE  /\ line.type \in {"COEFF", "STATE", "BAD_PUT", "PENALTY", "SCORING"}
         /\ line.ok \in BOOLEAN
         /\ line.type = "COEFF" => line.line \in Lines /\ line.ok
         /\ line.type = "STATE" => line.size \in Nat /\ line.ok
BY DEF FromServer, Reply

LEMMA handle_messageType ==
  ASSUME NEW c \in ClientState, NEW line \in FromServer
  PROVE  /\ handle_message(c, line) \in ClientState
         /\ handle_message(c, line).mode = c.mode
         /\ handle_message(c, line).read_buffer = c.read_buffer
<1>1. CASE line.type = "COEFF"
  <2>1. handle_message(c, line) = handle_coeff(c, line) /\ line.line \in Lines
    BY <1>1, AnswerFields DEF handle_message
  <2>2. CASE ~line.ok \/ c.received_coeff
    BY <2>1, <2>2 DEF handle_coeff
  <2>3. CASE ~(~line.ok \/ c.received_coeff) /\ Automatic(c)
    <3> DEFINE d == [c EXCEPT !.coeffs = line.line, !.received_coeff = TRUE]
    <3>1. handle_coeff(c, line) = [d EXCEPT !.put_eligible = TRUE]
      BY <2>3 DEF handle_coeff, Automatic, ClientState
    <3>2. d \in ClientState /\ d.mode = c.mode
          /\ d.read_buffer = c.read_buffer
      BY <2>1 DEF ClientState
    <3> HIDE DEF d
    <3> QED
      BY <2>1, <3>1, <3>2 DEF ClientState
  <2>4. CASE ~(~line.ok \/ c.received_coeff) /\ ~Automatic(c)
    <3> DEFINE d == [c EXCEPT !.coeffs = line.line, !.received_coeff = TRUE]
               s == c.write_buffer \o c.coeff_buffer
    <3>1. handle_coeff(c, line)
            = [d EXCEPT !.write_buffer = s, !.coeff_buffer = <<>>]
      BY <2>4 DEF handle_coeff, Automatic, ClientState
    <3>2. s \in Seq(ToServer) /\ <<>> \in Seq(ToServer)
      BY PlayerFields, ConcatProperties
    <3>3. d \in ClientState /\ d.mode = c.mode
          /\ d.read_buffer = c.read_buffer
      BY <2>1 DEF ClientState
    <3> DEFINE z == <<>>
    <3>4. handle_message(c, line)
            = [d EXCEPT !.write_buffer = s, !.coeff_buffer = z]
      BY <2>1, <3>1
    <3>5. z \in Seq(ToServer)
      BY <3>2
    <3> HIDE DEF d, s, z
    <3> QED
      BY <3>2, <3>3, <3>4, <3>5 DEF ClientState
  <2> QED
    BY <2>2, <2>3, <2>4
<1>2. CASE line.type = "SCORING"
  BY <1>2 DEF handle_message, handle_scoring, ClientState
<1>3. CASE line.type \in {"BAD_PUT", "PENALTY"}
  BY <1>3 DEF handle_message, handle_refusal, ClientState
<1>4. CASE line.type = "STATE"
  <2>1. line.size \in Int
    BY <1>4, AnswerFields
  <2> QED
    BY <1>4, <2>1 DEF handle_message, handle_state, ClientState
<1> QED
  BY <1>1, <1>2, <1>3, <1>4, AnswerFields

\* handle_message folded over at most one line.
Folded(f, c, s) ==
  f = [U \in SUBSET DOMAIN s |->
         IF U = {} THEN c
         ELSE handle_message(f[U \ {Max(U)}], s[Max(U)])]

LEMMA FoldedOnce ==
  ASSUME NEW c, NEW s \in Seq(FromServer), Len(s) <= 1
  PROVE  /\ s = <<>> => FoldLeft(handle_message, c, s) = c
         /\ s # <<>> => /\ Len(s) = 1 /\ s[1] \in FromServer
                        /\ FoldLeft(handle_message, c, s)
                             = handle_message(c, s[1])
<1>1. FoldLeft(handle_message, c, s) = (CHOOSE f : Folded(f, c, s))[DOMAIN s]
  BY DEF FoldLeft, MapThenFoldSet, Folded
<1>2. Len(s) \in Nat /\ DOMAIN s = 1..Len(s)
      /\ \A i \in DOMAIN s : s[i] \in FromServer
  BY SeqElements
<1>3. CASE s = <<>>
  <2>1. DOMAIN s = {}
    BY <1>3
  <2>2. Folded([U \in SUBSET DOMAIN s |-> c], c, s)
    BY <2>1 DEF Folded
  <2>3. PICK f : f = (CHOOSE g : Folded(g, c, s)) /\ Folded(f, c, s)
    BY <2>2
  <2>4. f[DOMAIN s] = c
    BY <2>1, <2>3 DEF Folded
  <2> QED
    BY <1>1, <1>3, <2>3, <2>4
<1>4. CASE s # <<>>
  <2>1. Len(s) = 1 /\ DOMAIN s = {1}
    BY <1>2, <1>4
  <2>2. Max({1}) = 1
    BY DEF Max
  <2> DEFINE h == [U \in SUBSET {1} |->
                     IF U = {} THEN c ELSE handle_message(c, s[1])]
  <2>3. {1} \ {1} = {} /\ {1} # {} /\ \A U \in SUBSET {1} : U = {} \/ U = {1}
    OBVIOUS
  <2>4. Folded(h, c, s)
    <3>1. h[{}] = c
      OBVIOUS
    <3> DEFINE g == [U \in SUBSET {1} |->
                       IF U = {} THEN c
                       ELSE handle_message(h[U \ {Max(U)}], s[Max(U)])]
    <3>2. \A U \in SUBSET {1} : h[U] = g[U]
      <4>1. h[{}] = g[{}]
        OBVIOUS
      <4>2. h[{1}] = handle_message(c, s[1])
        BY <2>3
      <4>3. g[{1}] = handle_message(h[{1} \ {Max({1})}], s[Max({1})])
        BY <2>3
      <4>4. {1} \ {Max({1})} = {} /\ s[Max({1})] = s[1]
        BY <2>2, <2>3
      <4>5. g[{1}] = handle_message(c, s[1])
        BY <3>1, <4>3, <4>4
      <4> HIDE DEF h, g
      <4> QED
        BY <2>3, <4>1, <4>2, <4>5
    <3>3. h = g
      BY <3>2
    <3> HIDE DEF h
    <3> QED
      BY <2>1, <3>3 DEF Folded
  <2>5. PICK f : f = (CHOOSE g : Folded(g, c, s)) /\ Folded(f, c, s)
    BY <2>4
  <2>6. f[{}] = c
    BY <2>5 DEF Folded
  <2>7. f[{1}] = handle_message(f[{1} \ {Max({1})}], s[Max({1})])
    <3>1. f = [U \in SUBSET {1} |->
                 IF U = {} THEN c
                 ELSE handle_message(f[U \ {Max(U)}], s[Max(U)])]
      BY <2>1, <2>5 DEF Folded
    <3> DEFINE F(U) == IF U = {} THEN c
                       ELSE handle_message(f[U \ {Max(U)}], s[Max(U)])
    <3>2. f = [U \in SUBSET {1} |-> F(U)] /\ {1} \in SUBSET {1}
      BY <3>1
    <3> HIDE DEF F
    <3>3. f[{1}] = F({1})
      BY <3>2
    <3> QED
      BY <2>3, <3>3 DEF F
  <2>8. f[{1}] = handle_message(c, s[1])
    <3>1. {1} \ {Max({1})} = {} /\ s[Max({1})] = s[1]
      BY <2>2, <2>3
    <3> QED
      BY <2>6, <2>7, <3>1
  <2> QED
    BY <1>1, <1>2, <1>4, <2>1, <2>5, <2>8
<1> QED
  BY <1>3, <1>4

LEMMA TypedLines ==
  /\ \A put \in Typed : put \in ToServer /\ put.type = "PUT"
  /\ \A p \in Player : build_hello(p) \in ToServer
  /\ Line("PUT", FALSE) \in ToServer /\ Line("STATE", FALSE) \in ToServer
  /\ \A i \in Nat : \A v \in Int : build_put(i, v) \in ToServer
<1>1. \A i \in Nat : \A v \in Int :
        build_put(i, v) \in ToServer /\ build_put(i, v).type = "PUT"
  <2> SUFFICES ASSUME NEW i \in Nat, NEW v \in Int
               PROVE  /\ build_put(i, v) \in ToServer
                      /\ build_put(i, v).type = "PUT"
    OBVIOUS
  <2>1. build_put(i, v)
          \in [type : {"PUT"}, ok : {TRUE}, point : Nat, value : Int]
    BY DEF build_put
  <2> QED
    BY <2>1 DEF ToServer, build_put
<1>2. ASSUME NEW put \in Typed
      PROVE  put \in ToServer /\ put.type = "PUT"
  <2>1. /\ put = build_put(put.point, put.value)
        /\ put.point \in Nat /\ put.value \in Int
    BY ClientAssumption
  <2> DEFINE i == put.point
             v == put.value
  <2>2. build_put(i, v) \in ToServer /\ build_put(i, v).type = "PUT"
    BY <1>1, <2>1
  <2> QED
    BY <2>1, <2>2
<1>3. \A p \in Player : build_hello(p) \in ToServer
  BY DEF build_hello, ToServer
<1>4. Line("PUT", FALSE) \in ToServer /\ Line("STATE", FALSE) \in ToServer
  BY DEF Line, ToServer
<1> QED
  BY <1>1, <1>2, <1>3, <1>4

LEMMA MovesType ==
  ASSUME NEW c \in ClientState, NEW d \in Moves(c)
  PROVE  d \in ClientState /\ d.read_buffer = c.read_buffer /\ d.mode = c.mode
<1>1. CASE d = c
  BY <1>1
<1>2. CASE Automatic(c) /\ d # c
  <2> DEFINE s == Append(c.write_buffer,
                         build_put(c.sent, poly_val(c.coeffs, c.sent)))
  <2>1. d = automatic_put(c)
    BY <1>2 DEF Moves
  <2>2. s \in Seq(ToServer) /\ c.sent + 1 \in Nat
    <3> DEFINE x == build_put(c.sent, poly_val(c.coeffs, c.sent))
    <3>1. x \in ToServer /\ c.write_buffer \in Seq(ToServer) /\ c.sent \in Nat
      BY TypedLines, PlayerFields, poly_valType
    <3> HIDE DEF x
    <3>2. Append(c.write_buffer, x) \in Seq(ToServer)
      BY <3>1
    <3> QED
      BY <3>1, <3>2 DEF x
  <2>3. d = [c EXCEPT !.write_buffer = s, !.sent = c.sent + 1,
                      !.put_eligible = FALSE]
    BY <2>1 DEF automatic_put
  <2> HIDE DEF s
  <2> QED
    BY <2>2, <2>3 DEF ClientState
<1>3. CASE ~Automatic(c) /\ d # c
  <2>1. PICK put \in Typed : d = read_stdin(c, put)
    BY <1>3 DEF Moves
  <2>2. put \in ToServer
    BY TypedLines
  <2>3. /\ Append(c.write_buffer, put) \in Seq(ToServer)
        /\ Append(c.coeff_buffer, put) \in Seq(ToServer)
        /\ c.lines + 1 \in Int
    BY <2>2, PlayerFields
  <2> QED
    BY <2>1, <2>3 DEF read_stdin, ClientState
<1> QED
  BY <1>1, <1>2, <1>3

LEMMA receivedType ==
  ASSUME TypeOK, NEW p \in Player, NEW c \in ClientState, c.read_buffer = <<>>
  PROVE  /\ received(p, c) \in ClientState
         /\ Len(received(p, c).read_buffer) <= 1
         /\ received(p, c).mode = c.mode
<1>1. conn[p].down \in Seq(FromServer)
  BY ConnectionFields DEF TypeOK
<1>2. CASE conn[p].down # <<>>
  <2> DEFINE s == Append(c.read_buffer, Head(conn[p].down))
  <2>1. s \in Seq(FromServer) /\ Len(s) = 1
    <3> DEFINE x == Head(conn[p].down)
    <3>1. x \in FromServer
      BY <1>1, <1>2, HeadTailProperties
    <3>2. s = Append(<<>>, x)
      OBVIOUS
    <3> HIDE DEF x
    <3>3. Append(<<>>, x) \in Seq(FromServer) /\ Len(Append(<<>>, x)) = 1
      BY <3>1
    <3> QED
      BY <3>2, <3>3
  <2>2. received(p, c) = [c EXCEPT !.read_buffer = s]
    BY <1>2 DEF received
  <2> HIDE DEF s
  <2>3. received(p, c) \in ClientState
    BY <2>1, <2>2 DEF ClientState
  <2>4. received(p, c).read_buffer = s /\ received(p, c).mode = c.mode
    BY <2>2 DEF ClientState
  <2> QED
    <3>1. Len(s) <= 1
      BY <2>1
    <3> QED
      BY <2>3, <2>4, <3>1
<1>3. CASE conn[p].down = <<>> /\ conn[p].server = "closed"
  <2>1. received(p, c) = [c EXCEPT !.running = FALSE]
    BY <1>3 DEF received
  <2>2. received(p, c) \in ClientState /\ received(p, c).read_buffer = <<>>
        /\ received(p, c).mode = c.mode
    BY <2>1 DEF ClientState
  <2> QED
    BY <2>2
<1>4. CASE conn[p].down = <<>> /\ conn[p].server # "closed"
  BY <1>4 DEF received
<1> QED
  BY <1>2, <1>3, <1>4

\* What a turn of player p makes of its state.
Idle(p) == [cl[p] EXCEPT !.write_buffer = <<>>, !.read_buffer = <<>>]
Parsed(p) == FoldLeft(handle_message, Idle(p), cl[p].read_buffer)
After(p) == [conn[p] EXCEPT !.up = @ \o cl[p].write_buffer,
                            !.down = IF @ = <<>> THEN @ ELSE Tail(@)]

LEMMA ParsedType ==
  ASSUME TypeOK, NEW p \in Player
  PROVE  /\ Idle(p) \in ClientState /\ Parsed(p) \in ClientState
         /\ Parsed(p).read_buffer = <<>> /\ Parsed(p).mode = cl[p].mode
         /\ cl[p].read_buffer = <<>> => Parsed(p) = Idle(p)
         /\ cl[p].read_buffer # <<>> =>
              /\ Len(cl[p].read_buffer) = 1
              /\ cl[p].read_buffer[1] \in FromServer
              /\ Parsed(p) = handle_message(Idle(p), cl[p].read_buffer[1])
<1> DEFINE s == cl[p].read_buffer
           c == Idle(p)
<1>1. cl[p] \in ClientState /\ s \in Seq(FromServer) /\ Len(s) <= 1
  BY PlayerFields DEF TypeOK
<1>2. c \in ClientState /\ c.read_buffer = <<>> /\ c.mode = cl[p].mode
  <2>1. <<>> \in Seq(ToServer) /\ <<>> \in Seq(FromServer)
    OBVIOUS
  <2> QED
    BY <1>1, <2>1 DEF Idle, ClientState
<1> HIDE DEF c, s
<1>3. Parsed(p) = FoldLeft(handle_message, c, s)
  BY DEF Parsed, c, s
<1>4. CASE s = <<>>
  <2>1. Parsed(p) = c
    BY <1>1, <1>3, <1>4, FoldedOnce
  <2> QED
    BY <1>2, <1>4, <2>1 DEF c, s
<1>5. CASE s # <<>>
  <2>1. /\ Len(s) = 1 /\ s[1] \in FromServer
        /\ Parsed(p) = handle_message(c, s[1])
    BY <1>1, <1>3, <1>5, FoldedOnce
  <2>2. /\ handle_message(c, s[1]) \in ClientState
        /\ handle_message(c, s[1]).mode = c.mode
        /\ handle_message(c, s[1]).read_buffer = c.read_buffer
    BY <1>2, <2>1, handle_messageType
  <2> QED
    BY <1>2, <1>5, <2>1, <2>2 DEF c, s
<1> QED
  BY <1>4, <1>5

LEMMA AfterType ==
  ASSUME TypeOK, NEW p \in Player
  PROVE  /\ After(p) \in Connection
         /\ After(p).server = conn[p].server
         /\ After(p).client = conn[p].client
         /\ After(p).reset = conn[p].reset
         /\ After(p).up = conn[p].up \o cl[p].write_buffer
         /\ After(p).down = IF conn[p].down = <<>> THEN conn[p].down
                            ELSE Tail(conn[p].down)
<1> DEFINE u == conn[p].up \o cl[p].write_buffer
           d == IF conn[p].down = <<>> THEN conn[p].down
                ELSE Tail(conn[p].down)
<1>1. conn[p] \in Connection /\ cl[p] \in ClientState
  BY DEF TypeOK
<1>2. u \in Seq(ToServer)
  BY <1>1, ConnectionFields, PlayerFields, ConcatProperties
<1>3. d \in Seq(FromServer)
  <2>1. conn[p].down \in Seq(FromServer)
    BY <1>1, ConnectionFields
  <2> QED
    BY <2>1, HeadTailProperties
<1>4. After(p) = [conn[p] EXCEPT !.up = u, !.down = d]
  BY DEF After
<1> HIDE DEF u, d
<1>5. /\ After(p) \in Connection
      /\ After(p).server = conn[p].server
      /\ After(p).client = conn[p].client
      /\ After(p).reset = conn[p].reset
      /\ After(p).up = u /\ After(p).down = d
  BY <1>1, <1>2, <1>3, <1>4 DEF Connection
<1> QED
  BY <1>5 DEF u, d

\* A turn, in the terms of the lemmas above.
LEMMA TurnIs ==
  ASSUME TypeOK, NEW p \in Player, Turn(p)
  PROVE  \E moved \in Moves(Parsed(p)) :
           LET c == received(p, moved)
           IN  /\ cl' = [cl EXCEPT ![p] = c]
               /\ conn' = [conn EXCEPT ![p] = IF c.running THEN After(p)
                                             ELSE CloseClient(After(p))]
BY DEF Turn, Parsed, Idle, After

LEMMA TurnKeeps ==
  ASSUME TypeOK, ServerInv, NEW p \in Player, Turn(p), UNCHANGED serverVars
  PROVE  TypeOK' /\ ServerInv'
<1>1. PICK moved \in Moves(Parsed(p)) :
        /\ cl' = [cl EXCEPT ![p] = received(p, moved)]
        /\ conn' = [conn EXCEPT ![p] = IF received(p, moved).running
                                      THEN After(p)
                                      ELSE CloseClient(After(p))]
  BY TurnIs
<1> DEFINE c == received(p, moved)
           d == IF c.running THEN After(p) ELSE CloseClient(After(p))
<1>2. moved \in ClientState /\ moved.read_buffer = <<>>
  BY ParsedType, MovesType
<1>3. c \in ClientState /\ Len(c.read_buffer) <= 1
  BY <1>2, receivedType
<1>4. d \in Connection /\ d.server = conn[p].server
      /\ d.client \in {conn[p].client, "closed"}
  BY AfterType, CloseTypes
<1>5. conn[p].client = "open"
  BY DEF Turn, Open
<1>6. cl' = [cl EXCEPT ![p] = c] /\ conn' = [conn EXCEPT ![p] = d]
  BY <1>1
<1> HIDE DEF c, d
<1>7. /\ conn' \in [Player -> Connection] /\ cl' \in [Player -> ClientState]
      /\ \A q \in Player : Len(cl'[q].read_buffer) <= 1
  BY <1>3, <1>4, <1>6 DEF TypeOK
<1>8. \A q \in Player :
        /\ conn[q].server = "open" => conn'[q].server = "open"
        /\ conn'[q].client = "idle" => conn'[q].server = conn[q].server
                                       /\ conn[q].client = "idle"
  BY <1>4, <1>5, <1>6 DEF TypeOK
<1> QED
  BY <1>7, <1>8, PlayersKeep

LEMMA ConnectKeeps ==
  ASSUME TypeOK, ServerInv, NEW p \in Player, Connect(p),
         UNCHANGED serverVars
  PROVE  TypeOK' /\ ServerInv'
<1>1. /\ cl \in [Player -> ClientState] /\ conn \in [Player -> Connection]
      /\ \A q \in Player : Len(cl[q].read_buffer) <= 1
      /\ conn[p].client = "idle" /\ conn[p].server \in {"none", "closed"}
  BY DEF TypeOK, Connect, ServerInv, Sockets
<1>2. CASE conn[p].server = "closed"
  <2>1. cl' = [cl EXCEPT ![p].running = FALSE] /\ conn' = conn
    BY <1>2 DEF Connect
  <2>2. cl' = [cl EXCEPT ![p] = [cl[p] EXCEPT !.running = FALSE]]
    BY <2>1
  <2>3. [cl[p] EXCEPT !.running = FALSE] \in ClientState
        /\ [cl[p] EXCEPT !.running = FALSE].read_buffer = cl[p].read_buffer
    BY <1>1 DEF ClientState
  <2>4. /\ cl' \in [Player -> ClientState]
        /\ \A q \in Player : Len(cl'[q].read_buffer) <= 1
    BY <1>1, <2>2, <2>3
  <2> QED
    BY <1>1, <2>1, <2>4, PlayersKeep
<1>3. CASE conn[p].server # "closed"
  <2>1. /\ conn' = [conn EXCEPT ![p].client = "open", ![p].server = "queued"]
        /\ cl' = cl
    BY <1>3 DEF Connect
  <2>2. /\ conn' \in [Player -> Connection] /\ conn'[p].client = "open"
        /\ \A q \in Player : q # p => conn'[q] = conn[q]
    BY <1>1, <2>1 DEF Connection
  <2>3. \A q \in Player :
          /\ conn[q].server = "open" => conn'[q].server = "open"
          /\ conn'[q].client = "idle" => conn'[q].server = conn[q].server
                                         /\ conn[q].client = "idle"
    BY <1>1, <2>2
  <2> QED
    BY <1>1, <2>1, <2>2, <2>3, PlayersKeep
<1> QED
  BY <1>2, <1>3

LEMMA LeaveKeeps ==
  ASSUME TypeOK, ServerInv, NEW p \in Player, Open(p), Leave(p),
         UNCHANGED serverVars
  PROVE  TypeOK' /\ ServerInv'
<1> DEFINE c == [cl[p] EXCEPT !.running = FALSE]
           d == CloseClient(conn[p])
<1>1. /\ cl \in [Player -> ClientState] /\ conn \in [Player -> Connection]
      /\ \A q \in Player : Len(cl[q].read_buffer) <= 1
      /\ conn[p].client = "open"
  BY DEF TypeOK, Open
<1>2. cl' = [cl EXCEPT ![p] = c] /\ conn' = [conn EXCEPT ![p] = d]
  BY DEF Leave
<1>3. c \in ClientState /\ c.read_buffer = cl[p].read_buffer
  BY <1>1 DEF ClientState
<1>4. d \in Connection /\ d.server = conn[p].server /\ d.client = "closed"
  BY <1>1, CloseTypes
<1> HIDE DEF c, d
<1>5. /\ conn' \in [Player -> Connection] /\ cl' \in [Player -> ClientState]
      /\ \A q \in Player : Len(cl'[q].read_buffer) <= 1
  BY <1>1, <1>2, <1>3, <1>4
<1>6. \A q \in Player :
        /\ conn[q].server = "open" => conn'[q].server = "open"
        /\ conn'[q].client = "idle" => conn'[q].server = conn[q].server
                                       /\ conn[q].client = "idle"
  BY <1>1, <1>2, <1>4
<1> QED
  BY <1>5, <1>6, PlayersKeep

LEMMA SayKeeps ==
  ASSUME TypeOK, ServerInv, NEW p \in Player, Say(p), UNCHANGED serverVars
  PROVE  TypeOK' /\ ServerInv'
<1>1. PICK line \in OtherLines(p) :
        conn' = [conn EXCEPT ![p].up = Append(@, line), ![p].down = <<>>]
  BY DEF Say
<1> DEFINE c == [cl[p] EXCEPT !.lines = @ + 1]
           u == Append(conn[p].up, line)
           d == [conn[p] EXCEPT !.up = u, !.down = <<>>]
<1>2. /\ cl \in [Player -> ClientState] /\ conn \in [Player -> Connection]
      /\ \A q \in Player : Len(cl[q].read_buffer) <= 1
      /\ conn[p].client = "open"
  BY DEF TypeOK, Say, Open
<1>3. cl' = [cl EXCEPT ![p] = c] /\ conn' = [conn EXCEPT ![p] = d]
  BY <1>1 DEF Say
<1>4. c \in ClientState /\ c.read_buffer = cl[p].read_buffer
  <2>1. cl[p].lines + 1 \in Int
    BY <1>2, PlayerFields
  <2> QED
    BY <1>2, <2>1 DEF ClientState
<1>5. u \in Seq(ToServer) /\ <<>> \in Seq(FromServer)
  <2>1. line \in ToServer
    BY TypedLines DEF OtherLines
  <2>2. conn[p].up \in Seq(ToServer)
    BY <1>2, ConnectionFields
  <2> QED
    BY <2>1, <2>2
<1> HIDE DEF u
<1>6. d \in Connection /\ d.server = conn[p].server
      /\ d.client = conn[p].client
  BY <1>2, <1>5 DEF Connection
<1> HIDE DEF c, d
<1>7. /\ conn' \in [Player -> Connection] /\ cl' \in [Player -> ClientState]
      /\ \A q \in Player : Len(cl'[q].read_buffer) <= 1
  BY <1>2, <1>3, <1>4, <1>6
<1>8. \A q \in Player :
        /\ conn[q].server = "open" => conn'[q].server = "open"
        /\ conn'[q].client = "idle" => conn'[q].server = conn[q].server
                                       /\ conn[q].client = "idle"
  BY <1>2, <1>3, <1>6
<1> QED
  BY <1>7, <1>8, PlayersKeep

LEMMA ResetKeeps ==
  ASSUME TypeOK, ServerInv, NEW p \in Player, Reset(p),
         UNCHANGED <<serverVars, cl>>
  PROVE  TypeOK' /\ ServerInv'
<1>1. /\ cl \in [Player -> ClientState] /\ conn \in [Player -> Connection]
      /\ \A q \in Player : Len(cl[q].read_buffer) <= 1
  BY DEF TypeOK
<1>2. conn' = [conn EXCEPT ![p].reset = TRUE]
  BY DEF Reset
<1>3. /\ conn' \in [Player -> Connection]
      /\ \A q \in Player : /\ conn'[q].server = conn[q].server
                           /\ conn'[q].client = conn[q].client
  BY <1>1, <1>2 DEF Connection
<1> QED
  BY <1>1, <1>3, PlayersKeep

-----------------------------------------------------------------------------
(* The behaviour of the whole                                              *)

LEMMA InitInv ==
  ASSUME Init
  PROVE  TypeOK /\ ServerInv
<1>1. /\ running = TRUE /\ fds = <<>> /\ revents = <<>> /\ client_map = <<>>
      /\ received_puts = 0 /\ next_line = 1 /\ slot = 0 /\ parsing = FALSE
      /\ sock = [fd \in FD |-> NoOne]
      /\ conn = [p \in Player |-> Unconnected]
  BY DEF Init, Init_server
<1>2. PICK mode : /\ \A p \in Player : mode[p] \in Mode[p]
                  /\ cl = [p \in Player |-> NewPlayer(mode[p], p)]
  BY DEF Init, Init_client
<1>3. ASSUME NEW p \in Player
      PROVE  /\ NewPlayer(mode[p], p) \in ClientState
             /\ Len(NewPlayer(mode[p], p).read_buffer) <= 1
  <2> DEFINE s == <<build_hello(p)>>
             w == <<>>
  <2>1. mode[p] \in {"AUTOMATIC", "MANUAL", "OTHER"}
    BY <1>2, GameAssumption
  <2>2. s \in Seq(ToServer)
    <3>1. build_hello(p) \in ToServer
      BY TypedLines
    <3> QED
      BY <3>1
  <2>3. w \in Seq(FromServer) /\ w \in Seq(ToServer) /\ Len(w) <= 1
    OBVIOUS
  <2>4. StartK \in Int /\ 0 \in Nat
    BY DEF StartK
  <2>5. NewPlayer(mode[p], p) =
          [running |-> TRUE, mode |-> mode[p], write_buffer |-> s,
           read_buffer |-> w, coeff_buffer |-> w, received_coeff |-> FALSE,
           coeffs |-> 0, put_eligible |-> FALSE, sent |-> 0, K |-> StartK,
           lines |-> 0]
    BY DEF NewPlayer
  <2> HIDE DEF s, w
  <2>6. NewPlayer(mode[p], p) \in ClientState
        /\ NewPlayer(mode[p], p).read_buffer = w
    BY <2>1, <2>2, <2>3, <2>4, <2>5 DEF ClientState
  <2> QED
    BY <2>3, <2>6
<1>4. /\ cl \in [Player -> ClientState]
      /\ \A p \in Player : Len(cl[p].read_buffer) <= 1
  BY <1>2, <1>3
<1>5. /\ conn \in [Player -> Connection]
      /\ \A p \in Player : conn[p].server = "none"
  <2>1. Unconnected \in Connection /\ Unconnected.server = "none"
    <3> DEFINE w == <<>>
    <3>1. w \in Seq(FromServer) /\ w \in Seq(ToServer)
      OBVIOUS
    <3>2. Unconnected = [up |-> w, down |-> w, server |-> "none",
                         client |-> "idle", reset |-> FALSE]
      BY DEF Unconnected
    <3> HIDE DEF w
    <3> QED
      BY <3>1, <3>2 DEF Connection
  <2> QED
    BY <1>1, <2>1
<1>6. /\ DOMAIN client_map = {} /\ DOMAIN fds = {} /\ Len(fds) = 0
      /\ -1 \notin FD
  BY <1>1 DEF FD
<1>7. TypeOK
  <2>1. /\ fds \in Seq(FD \cup {-1}) /\ revents \in Seq(Reported)
    BY <1>1
  <2>2. client_map \in [DOMAIN client_map -> Client]
    BY <1>1, <1>6
  <2>3. sock \in [FD -> Player \cup {NoOne}]
    BY <1>1
  <2>4. running \in BOOLEAN /\ parsing \in BOOLEAN
    BY <1>1
  <2>5. /\ received_puts \in Int /\ slot \in Nat
        /\ next_line \in Nat /\ next_line > 0
    BY <1>1
  <2>6. DOMAIN client_map \subseteq FD \cup {-1}
    BY <1>6
  <2> QED
    BY <1>4, <1>5, <2>1, <2>2, <2>3, <2>4, <2>5, <2>6 DEF TypeOK
<1>8. AtSlot /\ Slots /\ Written
  BY <1>1, <1>6 DEF AtSlot, Slots, Written
<1>9. Sockets
  BY <1>1, <1>5, <1>6 DEF Sockets, IsOpen
<1>10. PutsCounted
  <2> DEFINE f == [fd \in DOMAIN client_map |-> client_map[fd].sent_puts]
  <2>1. DOMAIN f = {}
    BY <1>6
  <2>2. Sum(f) = 0
    <3> HIDE DEF f
    <3> QED
      BY <2>1, FS_EmptySet, SumIsTotal, TotalFirst
  <2> QED
    BY <1>1, <2>2 DEF PutsCounted
<1> QED
  BY <1>7, <1>8, <1>9, <1>10 DEF ServerInv

LEMMA StepKeeps ==
  ASSUME TypeOK, ServerInv, [Next]_vars
  PROVE  TypeOK' /\ ServerInv'
<1>1. ASSUME ServerStep, UNCHANGED cl
      PROVE  TypeOK' /\ ServerInv'
  <2>1. CASE Poll
    BY <1>1, <2>1, PollKeeps
  <2>2. CASE HangUp
    BY <1>1, <2>2, HangUpKeeps
  <2>3. CASE receive_messages
    BY <1>1, <2>3, receive_messagesKeeps
  <2>4. CASE ReceiveFails
    BY <1>1, <2>4, ReceiveFailsKeeps
  <2>5. CASE parse_loop
    BY <1>1, <2>5, parse_loopKeeps
  <2>6. CASE DropSilent
    BY <1>1, <2>6, DropSilentKeeps
  <2>7. CASE KeepWaiting
    BY <1>1, <2>7, KeepWaitingKeeps
  <2>8. CASE send_messages
    BY <1>1, <2>8, send_messagesKeeps
  <2>9. CASE SendFails
    BY <1>1, <2>9, SendFailsKeeps
  <2>10. CASE NextTurn
    BY <1>1, <2>10, NextTurnKeeps
  <2>11. CASE end_game
    BY <1>1, <2>11, end_gameKeeps
  <2>12. CASE KeepMadeUp
    BY <1>1, <2>12, KeepMadeUpKeeps
  <2> QED
    BY <1>1, <2>1, <2>2, <2>3, <2>4, <2>5, <2>6, <2>7, <2>8, <2>9, <2>10,
       <2>11, <2>12 DEF ServerStep
<1>2. ASSUME Stop, UNCHANGED cl
      PROVE  TypeOK' /\ ServerInv'
  BY <1>2, ExitKeeps DEF Stop
<1>3. ASSUME Tick, UNCHANGED cl
      PROVE  TypeOK' /\ ServerInv'
  BY <1>3, TickKeeps
<1>4. ASSUME NEW p \in Player, PlayerStep(p), UNCHANGED serverVars
      PROVE  TypeOK' /\ ServerInv'
  <2>1. CASE Connect(p)
    BY <1>4, <2>1, ConnectKeeps
  <2>2. CASE Turn(p)
    BY <1>4, <2>2, TurnKeeps
  <2>3. CASE HungUp(p)
    BY <1>4, <2>3, LeaveKeeps DEF HungUp
  <2> QED
    BY <1>4, <2>1, <2>2, <2>3 DEF PlayerStep
<1>5. ASSUME NEW p \in Player, Say(p), UNCHANGED serverVars
      PROVE  TypeOK' /\ ServerInv'
  BY <1>5, SayKeeps
<1>6. ASSUME NEW p \in Player, Quit(p), UNCHANGED serverVars
      PROVE  TypeOK' /\ ServerInv'
  BY <1>6, LeaveKeeps DEF Quit
<1>7. ASSUME NEW p \in Player, Reset(p), UNCHANGED <<serverVars, cl>>
      PROVE  TypeOK' /\ ServerInv'
  BY <1>7, ResetKeeps
<1>8. ASSUME UNCHANGED vars
      PROVE  TypeOK' /\ ServerInv'
  <2>1. /\ UNCHANGED serverVars /\ conn' = conn /\ cl' = cl
    BY <1>8 DEF vars
  <2> QED
    BY <2>1, PlayersKeep DEF TypeOK
<1> QED
  BY <1>1, <1>2, <1>3, <1>4, <1>5, <1>6, <1>7, <1>8 DEF Next

LEMMA ServerInvariant == Spec => [](TypeOK /\ ServerInv)
<1>1. Init => TypeOK /\ ServerInv
  BY InitInv
<1>2. TypeOK /\ ServerInv /\ [Next]_vars => (TypeOK /\ ServerInv)'
  BY StepKeeps
<1> QED
  BY <1>1, <1>2, PTL DEF Spec

\* received_puts, which ends the game, is at every moment the sum of the
\* sent_puts of the clients in the map, whatever the connections do:
\* disconnect_client and send_messages with a failed send, descriptors used
\* again, slots left behind and the end of a game included.
THEOREM PutsAlwaysCounted == Spec => []PutsCounted
<1>1. TypeOK /\ ServerInv => PutsCounted
  BY DEF ServerInv
<1> QED
  BY <1>1, ServerInvariant, PTL

\* When the server ends a game nobody is owed an answer: no response waits
\* for its time (approx-server.cpp:568-596) and no line is left unsent, for
\* the lines of a client are sent in the step that ends its slot.
THEOREM GameEndsPaid == Spec => NothingOwedAtTheEnd
<1>1. ASSUME TypeOK, ServerInv, GameOver
      PROVE  \A fd \in DOMAIN client_map :
               client_map[fd].write_buffer = <<>>
               /\ client_map[fd].retarded_responses = <<>>
  <2>1. ~parsing
    <3>1. slot > Len(fds) /\ fds \in Seq(FD \cup {-1}) /\ slot \in Nat
      BY <1>1 DEF GameOver, TurnOver, TypeOK
    <3>2. slot \notin DOMAIN fds
      BY <3>1
    <3> QED
      BY <1>1, <3>2 DEF ServerInv, AtSlot
  <2> QED
    BY <1>1, <2>1 DEF ServerInv, Written, GameOver, AllAnswered
<1>2. TypeOK /\ ServerInv =>
        [GameOver /\ slot' = 0 /\ running' =>
           \A fd \in DOMAIN client_map :
             client_map[fd].write_buffer = <<>>
             /\ client_map[fd].retarded_responses = <<>>]_vars
  BY <1>1
<1> QED
  BY <1>2, ServerInvariant, PTL DEF NothingOwedAtTheEnd

-----------------------------------------------------------------------------
(* Automatic players                                                       *)

\* For a player p in state l on the connection c, with the record r if the
\* server serves it (o), DefaultClient otherwise.

\* Answers of s; SCORING is the last line of a connection.
Answers(s) ==
  IF s # <<>> /\ s[Len(s)].type = "SCORING" THEN Len(s) - 1 ELSE Len(s)
Token(l) == IF l.put_eligible THEN 1 ELSE 0

\* The PUTs, or the HELLO, that the server has not handled.
UnderWay(l, c, r) ==
  Len(l.write_buffer) + Len(c.up) + Len(r.read_buffer)

\* The turn passes between an automatic player and the server: one line is
\* under way, or an answer waits for its time, or the player may put.
Turns(l, c, r) ==
  UnderWay(l, c, r) + Len(r.retarded_responses) + Len(r.write_buffer)
  + Answers(c.down) + Answers(l.read_buffer) + Token(l)

Upstream(l, c, r) ==
  LinesOf(l.write_buffer) \cup LinesOf(c.up) \cup LinesOf(r.read_buffer)
Downstream(l, c, r) ==
  LinesOf(c.down) \cup LinesOf(l.read_buffer)
  \cup LinesOf(r.write_buffer) \cup LinesOf(Waiting(r))

\* Until the COEFF arrives an automatic player says HELLO only; after it
\* the only line it has said and the server has not handled is its last PUT.
LastPut(l) == build_put(l.sent - 1, poly_val(l.coeffs, l.sent - 1))
Said(p, l, line) ==
  IF l.received_coeff THEN l.sent > 0 /\ line = LastPut(l)
  ELSE line = build_hello(p)

\* The COEFF that is on its way is the one of the record.
Told(l, r, o, line) ==
  /\ line.type # "PENALTY"
  /\ line.type = "COEFF" =>
       /\ ~l.received_coeff
       /\ o => r.received_hello /\ r.coeffs = line.line

Exact(l, c, r, j) ==
  IF j < l.sent - UnderWay(l, c, r) /\ poly_val(r.coeffs, j) \in -5..5
  THEN poly_val(r.coeffs, j) ELSE 0
StateExact(l, c, r) ==
  /\ r.state \in [Points -> Int]
  /\ \A j \in Points : r.state[j] = Exact(l, c, r, j)

Courteous(p, l, c, r, o) ==
  /\ Turns(l, c, r) <= 1
  /\ ~l.received_coeff => l.sent = 0 /\ ~l.put_eligible
  /\ \A line \in Upstream(l, c, r) : Said(p, l, line)
  /\ \A line \in Downstream(l, c, r) : Told(l, r, o, line)
  /\ o /\ l.received_coeff => r.received_hello /\ r.coeffs = l.coeffs
  /\ c.server \in {"none", "queued"} =>
       ~l.received_coeff /\ c.down = <<>> /\ l.read_buffer = <<>>
  /\ c.server # "closed" => \A line \in LinesOf(c.down) :
                              line.type # "SCORING"
  /\ o => StateExact(l, c, r)

\* Every player says its own name, and its record bears it.
Honest(p, l, c, r) ==
  /\ \A line \in Upstream(l, c, r) \cup LinesOf(l.coeff_buffer) :
       line.type = "HELLO" => line.id = p
  /\ r.player_id \in {NoOne, p}

Decent(p, l, c, r, o) ==
  Honest(p, l, c, r) /\ (Automatic(l) => Courteous(p, l, c, r, o))

\* The same of player p, whose descriptor is fd if it has one.
Played(p) ==
  /\ (\A fd \in FD : sock[fd] # p) =>
       Decent(p, cl[p], conn[p], DefaultClient, FALSE)
  /\ \A fd \in FD :
       sock[fd] = p => Decent(p, cl[p], conn[p], client_map[fd], TRUE)
PlayersInv == \A p \in Player : Played(p)

LEMMA LinesOfEmpty ==
  LinesOf(<<>>) = {}
BY DEF LinesOf

LEMMA LinesOfConcat ==
  ASSUME NEW S, NEW s \in Seq(S), NEW t \in Seq(S)
  PROVE  /\ s \o t \in Seq(S) /\ Len(s \o t) = Len(s) + Len(t)
         /\ LinesOf(s \o t) = LinesOf(s) \cup LinesOf(t)
<1>1. /\ s \o t \in Seq(S) /\ Len(s \o t) = Len(s) + Len(t)
      /\ Len(s) \in Nat /\ Len(t) \in Nat
      /\ \A i \in 1..(Len(s) + Len(t)) :
           (s \o t)[i] = IF i <= Len(s) THEN s[i] ELSE t[i - Len(s)]
  BY ConcatProperties
<1>2. /\ DOMAIN s = 1..Len(s) /\ DOMAIN t = 1..Len(t)
      /\ DOMAIN (s \o t) = 1..(Len(s) + Len(t))
  BY <1>1
<1>3. LinesOf(s \o t) \subseteq LinesOf(s) \cup LinesOf(t)
  <2> SUFFICES ASSUME NEW i \in 1..(Len(s) + Len(t))
               PROVE  (s \o t)[i] \in LinesOf(s) \cup LinesOf(t)
    BY <1>2 DEF LinesOf
  <2>1. CASE i <= Len(s)
    BY <1>1, <1>2, <2>1 DEF LinesOf
  <2>2. CASE ~(i <= Len(s))
    <3>1. i - Len(s) \in 1..Len(t)
      BY <1>1, <2>2
    <3> QED
      BY <1>1, <1>2, <2>2, <3>1 DEF LinesOf
  <2> QED
    BY <2>1, <2>2
<1>4. LinesOf(s) \subseteq LinesOf(s \o t)
  <2> SUFFICES ASSUME NEW i \in 1..Len(s)
               PROVE  s[i] \in LinesOf(s \o t)
    BY <1>2 DEF LinesOf
  <2>1. i \in 1..(Len(s) + Len(t)) /\ i <= Len(s)
    BY <1>1
  <2> QED
    BY <1>1, <1>2, <2>1 DEF LinesOf
<1>5. LinesOf(t) \subseteq LinesOf(s \o t)
  <2> SUFFICES ASSUME NEW i \in 1..Len(t)
               PROVE  t[i] \in LinesOf(s \o t)
    BY <1>2 DEF LinesOf
  <2>1. /\ i + Len(s) \in 1..(Len(s) + Len(t)) /\ ~(i + Len(s) <= Len(s))
        /\ (i + Len(s)) - Len(s) = i
    BY <1>1
  <2>2. (s \o t)[i + Len(s)] = t[i]
    BY <1>1, <2>1
  <2> QED
    BY <1>2, <2>1, <2>2 DEF LinesOf
<1> QED
  BY <1>1, <1>3, <1>4, <1>5

LEMMA LinesOfAppend ==
  ASSUME NEW S, NEW s \in Seq(S), NEW x \in S
  PROVE  /\ Append(s, x) \in Seq(S) /\ Len(Append(s, x)) = Len(s) + 1
         /\ LinesOf(Append(s, x)) = LinesOf(s) \cup {x}
<1> DEFINE t == <<x>>
<1>1. t \in Seq(S) /\ Append(s, x) = s \o t /\ Len(t) = 1
  OBVIOUS
<1>2. LinesOf(t) = {x}
  BY DEF LinesOf
<1> HIDE DEF t
<1> QED
  BY <1>1, <1>2, LinesOfConcat

LEMMA LinesOfTail ==
  ASSUME NEW S, NEW s \in Seq(S), s # <<>>
  PROVE  /\ Head(s) \in LinesOf(s) /\ Head(s) \in S /\ Head(s) = s[1]
         /\ Tail(s) \in Seq(S) /\ Len(Tail(s)) = Len(s) - 1
         /\ Len(s) \in Nat /\ Len(s) >= 1
         /\ LinesOf(Tail(s)) \subseteq LinesOf(s)
         /\ \A i \in 1..Len(Tail(s)) : Tail(s)[i] = s[i + 1]
<1>1. /\ Head(s) = s[1] /\ Len(s) \in Nat /\ Len(s) >= 1
      /\ DOMAIN s = 1..Len(s)
  BY EmptySeq
<1>2. /\ Tail(s) \in Seq(S) /\ Len(Tail(s)) = Len(s) - 1
      /\ \A i \in 1..Len(Tail(s)) : Tail(s)[i] = s[i + 1]
  BY HeadTailProperties
<1>3. s[1] \in LinesOf(s) /\ s[1] \in S
  BY <1>1 DEF LinesOf
<1>4. LinesOf(Tail(s)) \subseteq LinesOf(s)
  <2> SUFFICES ASSUME NEW i \in 1..(Len(s) - 1)
               PROVE  Tail(s)[i] \in LinesOf(s)
    BY <1>2 DEF LinesOf
  <2>1. i + 1 \in 1..Len(s)
    BY <1>1
  <2> QED
    BY <1>1, <1>2, <2>1 DEF LinesOf
<1> QED
  BY <1>1, <1>2, <1>3, <1>4

LEMMA AnswersCount ==
  ASSUME NEW s \in Seq(FromServer)
  PROVE  /\ Answers(s) \in Nat /\ Len(s) \in Nat
         /\ Answers(s) <= Len(s) /\ Len(s) <= Answers(s) + 1
         /\ s = <<>> => Answers(s) = 0
         /\ (\A line \in LinesOf(s) : line.type # "SCORING") =>
              Answers(s) = Len(s)
         /\ Answers(s) = 0 => \A line \in LinesOf(s) : line.type = "SCORING"
<1>1. /\ Len(s) \in Nat /\ DOMAIN s = 1..Len(s) /\ s = <<>> <=> Len(s) = 0
  BY EmptySeq
<1>2. s # <<>> => s[Len(s)] \in LinesOf(s)
  BY <1>1 DEF LinesOf
<1>3. Answers(s) = 0 => \A i \in 1..Len(s) : s[i].type = "SCORING"
  <2> SUFFICES ASSUME Answers(s) = 0, NEW i \in 1..Len(s)
               PROVE  s[i].type = "SCORING"
    OBVIOUS
  <2>1. Len(s) = 1 /\ s[Len(s)].type = "SCORING"
    BY <1>1 DEF Answers
  <2>2. i = Len(s)
    BY <2>1
  <2> QED
    BY <2>1, <2>2
<1> QED
  BY <1>1, <1>2, <1>3 DEF Answers, LinesOf

\* One answer fewer after the first line, unless that is SCORING.
LEMMA AnswersTaken ==
  ASSUME NEW s \in Seq(FromServer), s # <<>>
  PROVE  /\ Answers(<<Head(s)>>) + Answers(Tail(s)) <= Answers(s)
         /\ Answers(<<Head(s)>>) \in Nat /\ Answers(Tail(s)) \in Nat
<1> DEFINE t == Tail(s)
           h == <<Head(s)>>
<1>1. /\ Head(s) \in FromServer /\ Head(s) = s[1] /\ t \in Seq(FromServer)
      /\ Len(t) = Len(s) - 1 /\ Len(s) \in Nat /\ Len(s) >= 1
      /\ \A i \in 1..Len(t) : t[i] = s[i + 1]
  BY LinesOfTail
<1>2. /\ h \in Seq(FromServer) /\ Len(h) = 1 /\ h[1] = s[1]
      /\ h # <<>>
  BY <1>1
<1>3. Answers(h) = IF s[1].type = "SCORING" THEN 0 ELSE 1
  BY <1>2 DEF Answers
<1> HIDE DEF h
<1>4. CASE t = <<>>
  <2>1. Len(s) = 1 /\ Answers(t) = 0
    BY <1>1, <1>4 DEF Answers
  <2>2. Answers(s) = Answers(h)
    BY <1>3, <2>1 DEF Answers
  <2> QED
    BY <1>3, <2>1, <2>2 DEF h
<1>5. CASE t # <<>>
  <2>1. Len(t) >= 1
    BY <1>1, <1>5, EmptySeq
  <2>2. t[Len(t)] = s[Len(s)]
    <3>1. Len(t) \in 1..Len(t) /\ Len(t) + 1 = Len(s)
      BY <1>1, <2>1
    <3> QED
      BY <1>1, <3>1
  <2> HIDE DEF t
  <2>3. Answers(s) = Answers(t) + 1 /\ Answers(t) \in Nat
    BY <1>1, <1>5, <2>1, <2>2 DEF Answers
  <2> QED
    BY <1>3, <2>3 DEF h, t
<1> QED
  BY <1>4, <1>5

LEMMA Counts ==
  ASSUME NEW l \in ClientState, NEW c \in Connection, NEW r \in Client
  PROVE  /\ Len(l.write_buffer) \in Nat /\ Len(c.up) \in Nat
         /\ Len(r.read_buffer) \in Nat
         /\ UnderWay(l, c, r) \in Nat
         /\ Len(r.retarded_responses) \in Nat /\ Len(r.write_buffer) \in Nat
         /\ Answers(c.down) \in Nat /\ Answers(l.read_buffer) \in Nat
         /\ Token(l) \in {0, 1} /\ l.sent \in Nat
         /\ Turns(l, c, r) \in Nat
<1>1. /\ Len(l.write_buffer) \in Nat /\ Len(c.up) \in Nat
      /\ Len(r.read_buffer) \in Nat
      /\ Len(r.retarded_responses) \in Nat /\ Len(r.write_buffer) \in Nat
      /\ l.sent \in Nat
  <2>1. l.write_buffer \in Seq(ToServer) /\ l.sent \in Nat
    BY PlayerFields
  <2>2. c.up \in Seq(ToServer)
    BY ConnectionFields
  <2>3. /\ r.read_buffer \in Seq(ToServer) /\ r.write_buffer \in Seq(Reply)
        /\ r.retarded_responses \in Seq(Delayed)
    BY ClientFields
  <2> QED
    BY <2>1, <2>2, <2>3, LenProperties
<1>2. Answers(c.down) \in Nat /\ Answers(l.read_buffer) \in Nat
  BY PlayerFields, ConnectionFields, AnswersCount
<1>3. Token(l) \in {0, 1}
  BY DEF Token
<1>4. UnderWay(l, c, r) \in Nat
  <2> DEFINE a == Len(l.write_buffer)
             b == Len(c.up)
             d == Len(r.read_buffer)
  <2>1. a \in Nat /\ b \in Nat /\ d \in Nat
    BY <1>1
  <2>2. UnderWay(l, c, r) = a + b + d
    BY DEF UnderWay
  <2> HIDE DEF a, b, d
  <2> QED
    BY <2>1, <2>2
<1>5. Turns(l, c, r) \in Nat
  <2> DEFINE a == Len(r.retarded_responses)
             b == Len(r.write_buffer)
             u == UnderWay(l, c, r)
  <2>1. a \in Nat /\ b \in Nat /\ u \in Nat
    BY <1>1, <1>4
  <2>2. Turns(l, c, r) = u + a + b + Answers(c.down) + Answers(l.read_buffer)
                           + Token(l)
    BY DEF Turns
  <2> HIDE DEF a, b, u
  <2> QED
    BY <1>2, <1>3, <2>1, <2>2
<1> QED
  BY <1>1, <1>2, <1>3, <1>4, <1>5

\* Where the turn is, it is nowhere else.
LEMMA OneTurn ==
  ASSUME NEW l \in ClientState, NEW c \in Connection, NEW r \in Client,
         Turns(l, c, r) <= 1
  PROVE  LET u == UnderWay(l, c, r)
             w == Len(r.retarded_responses)
             b == Len(r.write_buffer)
             d == Answers(c.down)
             a == Answers(l.read_buffer)
         IN  /\ u > 0 =>
                  u = 1 /\ w = 0 /\ b = 0 /\ d = 0 /\ a = 0 /\ Token(l) = 0
             /\ a > 0 => u = 0 /\ w = 0 /\ b = 0 /\ d = 0 /\ Token(l) = 0
             /\ Token(l) = 1 => u = 0 /\ w = 0 /\ b = 0 /\ d = 0 /\ a = 0
             /\ u = 0 => /\ Len(l.write_buffer) = 0 /\ Len(c.up) = 0
                        /\ Len(r.read_buffer) = 0
             /\ Len(r.read_buffer) > 0 =>
                  /\ u = 1 /\ Len(l.write_buffer) = 0 /\ Len(c.up) = 0
                  /\ Len(r.read_buffer) = 1
<1> DEFINE u == UnderWay(l, c, r)
           w == Len(r.retarded_responses)
           b == Len(r.write_buffer)
           d == Answers(c.down)
           a == Answers(l.read_buffer)
           t == Token(l)
           x == Len(l.write_buffer)
           y == Len(c.up)
           z == Len(r.read_buffer)
<1>1. /\ u \in Nat /\ w \in Nat /\ b \in Nat /\ d \in Nat /\ a \in Nat
      /\ t \in {0, 1} /\ x \in Nat /\ y \in Nat /\ z \in Nat
  BY Counts
<1>2. u = x + y + z
  BY DEF UnderWay
<1>3. u + w + b + d + a + t <= 1
  BY DEF Turns
<1> HIDE DEF u, w, b, d, a, t, x, y, z
<1>4. /\ u > 0 => u = 1 /\ w = 0 /\ b = 0 /\ d = 0 /\ a = 0 /\ t = 0
      /\ a > 0 => u = 0 /\ w = 0 /\ b = 0 /\ d = 0 /\ t = 0
      /\ t = 1 => u = 0 /\ w = 0 /\ b = 0 /\ d = 0 /\ a = 0
      /\ u = 0 => x = 0 /\ y = 0 /\ z = 0
      /\ z > 0 => u = 1 /\ x = 0 /\ y = 0 /\ z = 1
  BY <1>1, <1>2, <1>3
<1> QED
  BY <1>4 DEF u, w, b, d, a, t, x, y, z

\* Lines pass on, or are lost, and nothing new is said or told.
Follows(l, c, r, o, l2, c2, r2, o2) ==
  /\ Turns(l2, c2, r2) <= Turns(l, c, r)
  /\ Upstream(l2, c2, r2) \subseteq Upstream(l, c, r)
  /\ Downstream(l2, c2, r2) \subseteq Downstream(l, c, r)
  /\ c2.server \in {"none", "queued"} =>
       /\ c.server \in {"none", "queued"}
       /\ c2.down = c.down /\ l2.read_buffer = l.read_buffer
  /\ c2.server # "closed" =>
       /\ c.server # "closed"
       /\ \A line \in LinesOf(c2.down) :
            line \in LinesOf(c.down) \/ line.type # "SCORING"
  /\ o2 => /\ o /\ UnderWay(l2, c2, r2) = UnderWay(l, c, r)
           /\ r2.received_hello = r.received_hello
           /\ r2.coeffs = r.coeffs /\ r2.state = r.state

LEMMA Passed ==
  ASSUME NEW p, NEW l, NEW c, NEW r, NEW o \in BOOLEAN,
         NEW l2, NEW c2, NEW r2, NEW o2 \in BOOLEAN,
         Decent(p, l, c, r, o),
         l \in ClientState, c \in Connection, r \in Client,
         l2 \in ClientState, c2 \in Connection, r2 \in Client,
         l2.mode = l.mode, l2.received_coeff = l.received_coeff,
         l2.coeffs = l.coeffs, l2.sent = l.sent,
         l2.put_eligible => l.put_eligible \/ l.received_coeff,
         Upstream(l2, c2, r2) \cup LinesOf(l2.coeff_buffer)
           \subseteq Upstream(l, c, r) \cup LinesOf(l.coeff_buffer),
         r2.player_id \in {r.player_id, NoOne},
         Automatic(l) => Follows(l, c, r, o, l2, c2, r2, o2)
  PROVE  Decent(p, l2, c2, r2, o2)
<1>1. Honest(p, l2, c2, r2)
  BY DEF Decent, Honest
<1>2. ASSUME Automatic(l2)
      PROVE  Courteous(p, l2, c2, r2, o2)
  <2>1. Automatic(l) /\ Courteous(p, l, c, r, o)
    BY <1>2 DEF Decent, Automatic
  <2>2. Turns(l2, c2, r2) <= 1
    BY <2>1, Counts DEF Courteous, Follows
  <2>3. ~l2.received_coeff => l2.sent = 0 /\ ~l2.put_eligible
    BY <2>1 DEF Courteous, Follows
  <2>4. \A line \in Upstream(l2, c2, r2) : Said(p, l2, line)
    BY <2>1 DEF Courteous, Said, LastPut, Follows
  <2>5. \A line \in Downstream(l2, c2, r2) : Told(l2, r2, o2, line)
    BY <2>1 DEF Courteous, Told, Follows
  <2>6. o2 /\ l2.received_coeff => r2.received_hello /\ r2.coeffs = l2.coeffs
    BY <2>1 DEF Courteous, Follows
  <2>7. /\ c2.server \in {"none", "queued"} =>
             ~l2.received_coeff /\ c2.down = <<>> /\ l2.read_buffer = <<>>
        /\ c2.server # "closed" => \A line \in LinesOf(c2.down) :
                                     line.type # "SCORING"
    BY <2>1 DEF Courteous, Follows
  <2>8. o2 => StateExact(l2, c2, r2)
    BY <2>1 DEF Courteous, StateExact, Exact, Follows
  <2> QED
    BY <2>2, <2>3, <2>4, <2>5, <2>6, <2>7, <2>8 DEF Courteous, Follows
<1> QED
  BY <1>1, <1>2 DEF Decent
-----------------------------------------------------------------------------
(* What an automatic player does in a turn                                 *)

LEMMA SendsOn ==
  ASSUME NEW p, NEW l \in ClientState, NEW c \in Connection,
         NEW r \in Client, NEW o \in BOOLEAN, Decent(p, l, c, r, o),
         NEW l2 \in ClientState, NEW c2 \in Connection,
         l2.write_buffer = <<>>, l2.mode = l.mode,
         l2.received_coeff = l.received_coeff, l2.coeffs = l.coeffs,
         l2.sent = l.sent, l2.put_eligible = l.put_eligible,
         l2.coeff_buffer = l.coeff_buffer, l2.read_buffer = l.read_buffer,
         c2.up = c.up \o l.write_buffer, c2.down = c.down,
         c2.server = c.server
  PROVE  Decent(p, l2, c2, r, o)
<1> DEFINE u == c.up \o l.write_buffer
<1>1. c.up \in Seq(ToServer) /\ l.write_buffer \in Seq(ToServer)
  BY PlayerFields, ConnectionFields
<1>2. /\ Len(u) = Len(c.up) + Len(l.write_buffer)
      /\ LinesOf(u) = LinesOf(c.up) \cup LinesOf(l.write_buffer)
  BY <1>1, LinesOfConcat
<1>3. c2.up = u
  OBVIOUS
<1> HIDE DEF u
<1>4. Len(l2.write_buffer) = 0 /\ LinesOf(l2.write_buffer) = {}
  BY LinesOfEmpty
<1>5. UnderWay(l2, c2, r) = UnderWay(l, c, r)
  <2> DEFINE a == Len(l.write_buffer)
             b == Len(c.up)
             d == Len(r.read_buffer)
  <2>1. a \in Nat /\ b \in Nat /\ d \in Nat
    BY Counts
  <2>2. UnderWay(l, c, r) = a + b + d /\ UnderWay(l2, c2, r) = 0 + (b + a) + d
    BY <1>2, <1>3, <1>4 DEF UnderWay
  <2> HIDE DEF a, b, d
  <2> QED
    BY <2>1, <2>2
<1>6. Turns(l2, c2, r) = Turns(l, c, r)
  BY <1>5 DEF Turns, Token
<1>7. /\ Upstream(l2, c2, r) = Upstream(l, c, r)
      /\ Downstream(l2, c2, r) = Downstream(l, c, r)
  BY <1>2, <1>3, <1>4 DEF Upstream, Downstream
<1>8. Turns(l2, c2, r) <= Turns(l, c, r)
  BY <1>6, Counts
<1> QED
  BY <1>5, <1>7, <1>8, Passed DEF Follows

\* A message is handled: it is an answer, so that the turn is the player's.
LEMMA Hears ==
  ASSUME NEW p, NEW l \in ClientState, NEW c \in Connection,
         NEW r \in Client, NEW o \in BOOLEAN, Decent(p, l, c, r, o),
         Len(l.read_buffer) = 1
  PROVE  Decent(p, handle_message([l EXCEPT !.read_buffer = <<>>],
                                  l.read_buffer[1]), c, r, o)
<1> DEFINE i == [l EXCEPT !.read_buffer = <<>>]
           x == l.read_buffer[1]
           h == handle_message(i, x)
<1> SUFFICES Decent(p, h, c, r, o)
  OBVIOUS
<1>1. /\ i \in ClientState /\ i.read_buffer = <<>> /\ i.mode = l.mode
      /\ i.received_coeff = l.received_coeff /\ i.coeffs = l.coeffs
      /\ i.sent = l.sent /\ i.put_eligible = l.put_eligible
      /\ i.coeff_buffer = l.coeff_buffer
      /\ i.write_buffer = l.write_buffer
  <2>1. <<>> \in Seq(FromServer)
    OBVIOUS
  <2> QED
    BY <2>1 DEF ClientState
<1>2. l.read_buffer \in Seq(FromServer)
  BY PlayerFields
<1>3. /\ x \in FromServer /\ x \in LinesOf(l.read_buffer)
      /\ Answers(l.read_buffer) = IF x.type = "SCORING" THEN 0 ELSE 1
      /\ Answers(i.read_buffer) = 0 /\ LinesOf(i.read_buffer) = {}
  <2>1. DOMAIN l.read_buffer = 1..1 /\ l.read_buffer # <<>>
    BY <1>2, LenProperties
  <2>2. x \in FromServer /\ x \in LinesOf(l.read_buffer)
    BY <1>2, <2>1 DEF LinesOf
  <2>3. Answers(l.read_buffer) = IF x.type = "SCORING" THEN 0 ELSE 1
    BY <2>1 DEF Answers
  <2>4. Answers(i.read_buffer) = 0
    BY <1>1 DEF Answers
  <2> QED
    BY <1>1, <2>2, <2>3, <2>4, LinesOfEmpty
<1> HIDE DEF i, x
<1>4. /\ x.type \in {"COEFF", "STATE", "BAD_PUT", "PENALTY", "SCORING"}
      /\ x.ok \in BOOLEAN
      /\ x.type = "COEFF" => x.line \in Lines /\ x.ok
  BY <1>3, AnswerFields
<1>5. h \in ClientState /\ h.mode = l.mode /\ h.read_buffer = <<>>
  BY <1>1, <1>3, handle_messageType
<1> HIDE DEF h
\* Handlers that at most give the turn to the player.
<1>6. ASSUME h.received_coeff = l.received_coeff, h.coeffs = l.coeffs,
             h.sent = l.sent, h.coeff_buffer = l.coeff_buffer,
             h.write_buffer = l.write_buffer,
             \/ h.put_eligible = l.put_eligible
             \/ x.type # "SCORING" /\ l.received_coeff
      PROVE  Decent(p, h, c, r, o)
  <2>1. UnderWay(h, c, r) = UnderWay(l, c, r)
    BY <1>6 DEF UnderWay
  <2>2. Upstream(h, c, r) = Upstream(l, c, r)
    BY <1>6 DEF Upstream
  <2>3. Downstream(h, c, r) \subseteq Downstream(l, c, r)
    BY <1>1, <1>3, <1>5 DEF Downstream
  <2>4. Token(h) \in {0, 1} /\ Answers(h.read_buffer) = 0
    BY <1>1, <1>3, <1>5 DEF Token
  <2>5. Token(h) <= Token(l) + Answers(l.read_buffer)
    <3>1. CASE h.put_eligible = l.put_eligible
      BY <1>3, <3>1, Counts DEF Token
    <3>2. CASE x.type # "SCORING"
      BY <1>3, <2>4, <3>2, Counts
    <3> QED
      BY <1>6, <3>1, <3>2
  <2>6. Turns(h, c, r) <= Turns(l, c, r)
    BY <2>1, <2>4, <2>5, Counts DEF Turns
  <2>7. /\ h.put_eligible => l.put_eligible \/ l.received_coeff
        /\ LinesOf(h.coeff_buffer) = LinesOf(l.coeff_buffer)
    BY <1>6
  <2>8. Automatic(l) /\ c.server \in {"none", "queued"} =>
          h.read_buffer = l.read_buffer
    BY <1>5 DEF Decent, Courteous
  <2> QED
    BY <1>5, <1>6, <2>1, <2>2, <2>3, <2>6, <2>7, <2>8, Passed DEF Follows
<1>7. CASE x.type = "COEFF"
  <2>1. h = handle_coeff(i, x)
    BY <1>7 DEF handle_message, h
  <2>2. CASE l.received_coeff
    <3>1. h = i
      BY <1>1, <2>1, <2>2 DEF handle_coeff
    <3> QED
      BY <1>1, <1>6, <3>1
  <2>3. CASE ~l.received_coeff /\ Automatic(l)
    <3>1. /\ h.received_coeff /\ h.coeffs = x.line /\ h.sent = l.sent
          /\ h.put_eligible /\ h.coeff_buffer = l.coeff_buffer
          /\ h.write_buffer = l.write_buffer
      BY <1>1, <1>4, <1>7, <2>1, <2>3 DEF handle_coeff, Automatic, ClientState
    <3>2. Courteous(p, l, c, r, o)
      BY <2>3 DEF Decent
    <3>3. Told(l, r, o, x)
      BY <1>3, <3>2 DEF Courteous, Downstream
    <3>4. /\ UnderWay(l, c, r) = 0 /\ Len(r.retarded_responses) = 0
          /\ Len(r.write_buffer) = 0 /\ Answers(c.down) = 0
      <4>1. Turns(l, c, r) <= 1
        BY <3>2 DEF Courteous
      <4>2. Answers(l.read_buffer) > 0
        BY <1>3, <1>7
      <4> QED
        BY <4>1, <4>2, OneTurn
    <3>5. /\ l.write_buffer = <<>> /\ c.up = <<>> /\ r.read_buffer = <<>>
          /\ r.write_buffer = <<>> /\ r.retarded_responses = <<>>
      <4>1. /\ Len(l.write_buffer) = 0 /\ Len(c.up) = 0
            /\ Len(r.read_buffer) = 0
        BY <3>2, <3>4, OneTurn DEF Courteous
      <4>2. /\ l.write_buffer \in Seq(ToServer) /\ c.up \in Seq(ToServer)
            /\ r.read_buffer \in Seq(ToServer)
            /\ r.write_buffer \in Seq(Reply)
            /\ r.retarded_responses \in Seq(Delayed)
        BY PlayerFields, ConnectionFields, ClientFields
      <4> QED
        BY <3>4, <4>1, <4>2, EmptySeq
    <3>6. Upstream(h, c, r) = {} /\ Upstream(l, c, r) = {}
      BY <3>1, <3>5, LinesOfEmpty DEF Upstream
    <3>7. \A line \in Downstream(h, c, r) : line.type = "SCORING"
      <4>1. LinesOf(Waiting(r)) = {} /\ LinesOf(r.write_buffer) = {}
        BY <3>5 DEF LinesOf, Waiting
      <4>2. LinesOf(h.read_buffer) = {}
        BY <1>5, LinesOfEmpty
      <4>3. \A line \in LinesOf(c.down) : line.type = "SCORING"
        BY <3>4, ConnectionFields, AnswersCount
      <4> QED
        BY <4>1, <4>2, <4>3 DEF Downstream
    <3>8. Turns(h, c, r) <= 1
      <4>1. UnderWay(h, c, r) = UnderWay(l, c, r)
        BY <3>1 DEF UnderWay
      <4>2. Answers(h.read_buffer) = 0
        BY <1>1, <1>3, <1>5
      <4>3. Token(h) = 1
        BY <3>1 DEF Token
      <4> QED
        BY <3>4, <4>1, <4>2, <4>3 DEF Turns
    <3>9. Honest(p, h, c, r)
      BY <3>1, <3>6 DEF Decent, Honest
    <3>10. \A line \in Downstream(h, c, r) : Told(h, r, o, line)
      BY <3>7 DEF Told
    <3>11. o => r.received_hello /\ r.coeffs = h.coeffs
      BY <1>7, <3>1, <3>3 DEF Told
    <3>12. ~(c.server \in {"none", "queued"})
      <4>1. l.read_buffer # <<>>
        OBVIOUS
      <4> QED
        BY <3>2, <4>1 DEF Courteous
    <3>13. o => StateExact(h, c, r)
      <4>1. UnderWay(h, c, r) = UnderWay(l, c, r)
        BY <3>1 DEF UnderWay
      <4> QED
        BY <3>1, <3>2, <4>1 DEF Courteous, StateExact, Exact
    <3>14. Courteous(p, h, c, r, o)
      BY <3>1, <3>2, <3>6, <3>8, <3>10, <3>11, <3>12, <3>13 DEF Courteous
    <3> QED
      BY <3>9, <3>14 DEF Decent
  <2>4. CASE ~l.received_coeff /\ ~Automatic(l)
    <3>1. /\ h.coeff_buffer = <<>>
          /\ h.write_buffer = l.write_buffer \o l.coeff_buffer
      BY <1>1, <1>4, <1>7, <2>1, <2>4 DEF handle_coeff, Automatic, ClientState
    <3>2. LinesOf(h.write_buffer)
            = LinesOf(l.write_buffer) \cup LinesOf(l.coeff_buffer)
      BY <3>1, PlayerFields, LinesOfConcat
    <3>3. Upstream(h, c, r) \cup LinesOf(h.coeff_buffer)
            = Upstream(l, c, r) \cup LinesOf(l.coeff_buffer)
      BY <3>1, <3>2, LinesOfEmpty DEF Upstream
    <3> QED
      BY <1>5, <2>4, <3>3 DEF Decent, Honest, Automatic
  <2> QED
    BY <2>2, <2>3, <2>4
<1>8. CASE x.type = "SCORING"
  <2>1. h = handle_scoring(i, x)
    BY <1>8 DEF handle_message, h
  <2> QED
    BY <1>1, <1>6, <2>1 DEF handle_scoring, ClientState
<1>9. CASE x.type \in {"BAD_PUT", "PENALTY"}
  <2>1. h = handle_refusal(i, x)
    BY <1>9 DEF handle_message, h
  <2> QED
    BY <1>1, <1>6, <1>9, <2>1 DEF handle_refusal, ClientState, Understood
<1>10. CASE x.type = "STATE"
  <2>1. h = handle_state(i, x)
    BY <1>10 DEF handle_message, h
  <2> QED
    BY <1>1, <1>6, <1>10, <2>1 DEF handle_state, ClientState, Understood
<1> QED
  BY <1>4, <1>7, <1>8, <1>9, <1>10

\* An automatic player that has the turn puts at the next point.
LEMMA MovesOn ==
  ASSUME NEW p, NEW l \in ClientState, NEW c \in Connection,
         NEW r \in Client, NEW o \in BOOLEAN, Decent(p, l, c, r, o),
         NEW d \in Moves(l)
  PROVE  Decent(p, d, c, r, o)
<1>1. d \in ClientState /\ d.mode = l.mode /\ d.read_buffer = l.read_buffer
  BY MovesType
<1>2. CASE d = l
  BY <1>2
<1>3. CASE Automatic(l) /\ d # l
  <2>1. l.put_eligible /\ d = automatic_put(l)
    BY <1>3 DEF Moves
  <2> DEFINE put == build_put(l.sent, poly_val(l.coeffs, l.sent))
  <2>2. Courteous(p, l, c, r, o) /\ l.received_coeff
    BY <1>3, <2>1 DEF Decent, Courteous
  <2>3. /\ UnderWay(l, c, r) = 0 /\ Len(r.retarded_responses) = 0
        /\ Len(r.write_buffer) = 0 /\ Answers(c.down) = 0
        /\ Answers(l.read_buffer) = 0
        /\ Len(l.write_buffer) = 0 /\ Len(c.up) = 0 /\ Len(r.read_buffer) = 0
    <3>1. Token(l) = 1
      BY <2>1 DEF Token
    <3> QED
      BY <2>2, <3>1, OneTurn DEF Courteous
  <2>4. /\ l.write_buffer = <<>> /\ c.up = <<>> /\ r.read_buffer = <<>>
    <3>1. /\ l.write_buffer \in Seq(ToServer) /\ c.up \in Seq(ToServer)
          /\ r.read_buffer \in Seq(ToServer)
      BY PlayerFields, ConnectionFields, ClientFields
    <3> QED
      BY <2>3, <3>1, EmptySeq
  <2>5. l.sent \in Nat
    BY PlayerFields
  <2>6. /\ d.write_buffer = Append(l.write_buffer, put)
        /\ d.sent = l.sent + 1 /\ ~d.put_eligible
        /\ d.received_coeff /\ d.coeffs = l.coeffs
        /\ d.coeff_buffer = l.coeff_buffer
    BY <2>1, <2>2 DEF automatic_put, ClientState
  <2> HIDE DEF put
  <2>7. d.write_buffer = <<put>>
    BY <2>4, <2>6
  <2>8. /\ LinesOf(d.write_buffer) = {put} /\ Len(d.write_buffer) = 1
    BY <2>7 DEF LinesOf
  <2>9. UnderWay(d, c, r) = 1
    BY <2>3, <2>8 DEF UnderWay
  <2>10. Upstream(d, c, r) = {put} /\ Upstream(l, c, r) = {}
    BY <2>4, <2>8, LinesOfEmpty DEF Upstream
  <2>11. Downstream(d, c, r) = Downstream(l, c, r)
    BY <1>1 DEF Downstream
  <2>12. put = LastPut(d) /\ d.sent > 0
    <3>1. d.sent - 1 = l.sent
      BY <2>5, <2>6
    <3> QED
      BY <2>5, <2>6, <3>1 DEF put, LastPut
  <2>13. Turns(d, c, r) <= 1
    <3>1. Token(d) = 0
      BY <2>6 DEF Token
    <3> QED
      BY <1>1, <2>3, <2>9, <3>1 DEF Turns
  <2>14. o => StateExact(d, c, r)
    <3> SUFFICES ASSUME o PROVE StateExact(d, c, r)
      OBVIOUS
    <3>1. StateExact(l, c, r)
      BY <2>2 DEF Courteous
    <3>2. d.sent - UnderWay(d, c, r) = l.sent - UnderWay(l, c, r)
      BY <2>3, <2>5, <2>6, <2>9
    <3> QED
      BY <3>1, <3>2 DEF StateExact, Exact
  <2>15. Courteous(p, d, c, r, o)
    <3>1. \A line \in Upstream(d, c, r) : Said(p, d, line)
      BY <2>6, <2>10, <2>12 DEF Said
    <3>2. \A line \in Downstream(d, c, r) : Told(d, r, o, line)
      BY <2>2, <2>6, <2>11 DEF Courteous, Told
    <3> QED
      BY <1>1, <2>2, <2>6, <2>13, <2>14, <3>1, <3>2 DEF Courteous
  <2>16. Honest(p, d, c, r)
    <3>1. put.type = "PUT"
      BY DEF put, build_put
    <3> QED
      BY <2>6, <2>10, <3>1 DEF Decent, Honest
  <2> QED
    BY <2>15, <2>16 DEF Decent
<1>4. CASE ~Automatic(l) /\ d # l
  <2>1. PICK put \in Typed : d = read_stdin(l, put)
    BY <1>4 DEF Moves
  <2>2. put \in ToServer /\ put.type = "PUT"
    BY TypedLines
  <2>3. l.write_buffer \in Seq(ToServer) /\ l.coeff_buffer \in Seq(ToServer)
    BY PlayerFields
  <2>4. Upstream(d, c, r) \cup LinesOf(d.coeff_buffer)
          \subseteq Upstream(l, c, r) \cup LinesOf(l.coeff_buffer) \cup {put}
    <3>1. CASE l.received_coeff
      <4>1. /\ d.write_buffer = Append(l.write_buffer, put)
            /\ d.coeff_buffer = l.coeff_buffer
        BY <2>1, <3>1 DEF read_stdin, ClientState
      <4>2. LinesOf(d.write_buffer) = LinesOf(l.write_buffer) \cup {put}
        BY <2>2, <2>3, <4>1, LinesOfAppend
      <4> QED
        BY <4>1, <4>2 DEF Upstream
    <3>2. CASE ~l.received_coeff
      <4>1. /\ d.coeff_buffer = Append(l.coeff_buffer, put)
            /\ d.write_buffer = l.write_buffer
        BY <2>1, <3>2 DEF read_stdin, ClientState
      <4>2. LinesOf(d.coeff_buffer) = LinesOf(l.coeff_buffer) \cup {put}
        BY <2>2, <2>3, <4>1, LinesOfAppend
      <4> QED
        BY <4>1, <4>2 DEF Upstream
    <3> QED
      BY <3>1, <3>2
  <2> QED
    BY <1>1, <1>4, <2>2, <2>4 DEF Decent, Honest, Automatic
<1> QED
  BY <1>2, <1>3, <1>4

\* recv completes at most one line.
LEMMA Receives ==
  ASSUME NEW p, NEW l \in ClientState, NEW c \in Connection,
         NEW r \in Client, NEW o \in BOOLEAN, Decent(p, l, c, r, o),
         l.read_buffer = <<>>, c.down # <<>>,
         NEW l2 \in ClientState, NEW c2 \in Connection,
         l2.read_buffer = <<Head(c.down)>>, l2.mode = l.mode,
         l2.received_coeff = l.received_coeff, l2.coeffs = l.coeffs,
         l2.sent = l.sent, l2.put_eligible = l.put_eligible,
         l2.coeff_buffer = l.coeff_buffer, l2.write_buffer = l.write_buffer,
         c2.down = Tail(c.down), c2.up = c.up, c2.server = c.server
  PROVE  Decent(p, l2, c2, r, o)
<1> DEFINE h == <<Head(c.down)>>
           t == Tail(c.down)
<1>1. c.down \in Seq(FromServer)
  BY ConnectionFields
<1>2. /\ Head(c.down) \in LinesOf(c.down) /\ t \in Seq(FromServer)
      /\ LinesOf(t) \subseteq LinesOf(c.down) /\ h \in Seq(FromServer)
      /\ LinesOf(h) = {Head(c.down)}
  <2>1. /\ Head(c.down) \in LinesOf(c.down) /\ Head(c.down) \in FromServer
        /\ t \in Seq(FromServer) /\ LinesOf(t) \subseteq LinesOf(c.down)
    BY <1>1, LinesOfTail
  <2>2. h \in Seq(FromServer)
    BY <2>1
  <2>3. LinesOf(h) = {Head(c.down)}
    BY DEF LinesOf
  <2> QED
    BY <2>1, <2>2, <2>3
<1>3. /\ Answers(h) + Answers(t) <= Answers(c.down)
      /\ Answers(h) \in Nat /\ Answers(t) \in Nat
  BY <1>1, AnswersTaken
<1>4. l2.read_buffer = h /\ c2.down = t
  OBVIOUS
<1> HIDE DEF h, t
<1>6. UnderWay(l2, c2, r) = UnderWay(l, c, r)
  BY DEF UnderWay
<1>7. Turns(l2, c2, r) <= Turns(l, c, r)
  <2> DEFINE u == UnderWay(l, c, r)
             w == Len(r.retarded_responses)
             y == Len(r.write_buffer)
             d == Answers(c.down)
             e == Answers(t)
             a == Answers(h)
             f == Token(l)
  <2>1. /\ u \in Nat /\ w \in Nat /\ y \in Nat /\ d \in Nat
    BY Counts
  <2>2. /\ e \in Nat /\ a \in Nat /\ f \in Nat /\ a + e <= d
    BY <1>3 DEF Token
  <2>3. /\ Turns(l2, c2, r) = u + w + y + e + a + f
        /\ Turns(l, c, r) = u + w + y + d + 0 + f
    <3>1. Answers(l.read_buffer) = 0
      BY DEF Answers
    <3> QED
      BY <1>4, <1>6, <3>1 DEF Turns, Token
  <2> HIDE DEF u, w, y, d, e, a, f
  <2> QED
    BY <2>1, <2>2, <2>3
<1>8. /\ Upstream(l2, c2, r) = Upstream(l, c, r)
      /\ Downstream(l2, c2, r) \subseteq Downstream(l, c, r)
  BY <1>2, <1>4 DEF Upstream, Downstream
<1>9. Automatic(l) => ~(c.server \in {"none", "queued"})
  BY DEF Decent, Courteous
<1>10. \A line \in LinesOf(c2.down) : line \in LinesOf(c.down)
  BY <1>2, <1>4
<1> QED
  BY <1>4, <1>6, <1>7, <1>8, <1>9, <1>10, Passed DEF Follows

\* The connection or the record loses lines; a record that stays misses none.
LEMMA Loses ==
  ASSUME NEW p, NEW l \in ClientState, NEW c \in Connection,
         NEW r \in Client, NEW o \in BOOLEAN, Decent(p, l, c, r, o),
         NEW l2 \in ClientState, NEW c2 \in Connection,
         NEW r2 \in Client, NEW o2 \in BOOLEAN,
         l2.mode = l.mode, l2.write_buffer = l.write_buffer,
         l2.read_buffer = l.read_buffer, l2.coeff_buffer = l.coeff_buffer,
         l2.received_coeff = l.received_coeff, l2.coeffs = l.coeffs,
         l2.put_eligible = l.put_eligible, l2.sent = l.sent,
         c2.up \in {c.up, <<>>}, c2.down \in {c.down, <<>>},
         c2.server \in {"none", "queued"} =>
           c.server \in {"none", "queued"} /\ c2.down = c.down,
         c2.server # "closed" => c.server # "closed",
         \/ r2 = r /\ o2 = o /\ (o => c2.up = c.up)
         \/ r2 = DefaultClient /\ o2 = FALSE
  PROVE  Decent(p, l2, c2, r2, o2)
<1>1. /\ Len(c2.up) \in Nat /\ Len(c2.up) <= Len(c.up)
      /\ LinesOf(c2.up) \subseteq LinesOf(c.up)
  <2>1. Len(<<>>) = 0 /\ LinesOf(<<>>) = {} /\ Len(c.up) \in Nat
    BY LinesOfEmpty, Counts
  <2>2. CASE c2.up = c.up
    BY <2>1, <2>2
  <2>3. CASE c2.up = <<>>
    BY <2>1, <2>3
  <2> QED
    BY <2>2, <2>3
<1>2. /\ Answers(c2.down) \in Nat /\ Answers(c2.down) <= Answers(c.down)
      /\ LinesOf(c2.down) \subseteq LinesOf(c.down)
  <2>1. Answers(<<>>) = 0 /\ LinesOf(<<>>) = {}
    BY LinesOfEmpty DEF Answers
  <2>2. Answers(c.down) \in Nat
    BY Counts
  <2>3. CASE c2.down = c.down
    BY <2>2, <2>3
  <2>4. CASE c2.down = <<>>
    BY <2>1, <2>2, <2>4
  <2> QED
    BY <2>3, <2>4
<1>3. /\ Len(r2.read_buffer) \in Nat /\ Len(r2.write_buffer) \in Nat
      /\ Len(r2.retarded_responses) \in Nat
      /\ Len(r2.read_buffer) <= Len(r.read_buffer)
      /\ Len(r2.write_buffer) <= Len(r.write_buffer)
      /\ Len(r2.retarded_responses) <= Len(r.retarded_responses)
      /\ LinesOf(r2.read_buffer) \subseteq LinesOf(r.read_buffer)
      /\ LinesOf(r2.write_buffer) \subseteq LinesOf(r.write_buffer)
      /\ LinesOf(Waiting(r2)) \subseteq LinesOf(Waiting(r))
      /\ r2.player_id \in {r.player_id, NoOne}
  <2>1. CASE r2 = r
    BY <2>1, Counts
  <2>2. CASE r2 = DefaultClient
    <3>1. /\ r2.read_buffer = <<>> /\ r2.write_buffer = <<>>
          /\ r2.retarded_responses = <<>> /\ r2.player_id = NoOne
      BY <2>2, DefaultIsClient DEF Blank
    <3>2. Len(<<>>) = 0 /\ LinesOf(<<>>) = {}
      BY LinesOfEmpty
    <3>3. LinesOf(Waiting(r2)) = {}
      BY <3>1 DEF LinesOf, Waiting
    <3>4. /\ Len(r.read_buffer) \in Nat /\ Len(r.write_buffer) \in Nat
          /\ Len(r.retarded_responses) \in Nat
      BY Counts
    <3> QED
      BY <3>1, <3>2, <3>3, <3>4
  <2> QED
    BY <2>1, <2>2
<1>4. /\ UnderWay(l2, c2, r2) \in Nat
      /\ UnderWay(l2, c2, r2) <= UnderWay(l, c, r)
  <2> DEFINE a == Len(l.write_buffer)
             b == Len(c.up)
             d == Len(r.read_buffer)
             e == Len(c2.up)
             f == Len(r2.read_buffer)
  <2>1. /\ a \in Nat /\ b \in Nat /\ d \in Nat /\ e \in Nat /\ f \in Nat
        /\ e <= b /\ f <= d
    BY <1>1, <1>3, Counts
  <2>2. UnderWay(l2, c2, r2) = a + e + f /\ UnderWay(l, c, r) = a + b + d
    BY DEF UnderWay
  <2> HIDE DEF a, b, d, e, f
  <2> QED
    BY <2>1, <2>2
<1>5. o2 => UnderWay(l2, c2, r2) = UnderWay(l, c, r)
  BY DEF UnderWay
<1>6. Turns(l2, c2, r2) <= Turns(l, c, r)
  <2> DEFINE u == UnderWay(l, c, r)
             v == UnderWay(l2, c2, r2)
             w == Len(r.retarded_responses)
             x == Len(r2.retarded_responses)
             y == Len(r.write_buffer)
             z == Len(r2.write_buffer)
             d == Answers(c.down)
             e == Answers(c2.down)
             a == Answers(l.read_buffer)
             t == Token(l)
  <2>1. /\ u \in Nat /\ v \in Nat /\ w \in Nat /\ x \in Nat /\ y \in Nat
        /\ z \in Nat /\ d \in Nat /\ e \in Nat /\ a \in Nat /\ t \in Nat
        /\ v <= u /\ x <= w /\ z <= y /\ e <= d
    <3>1. /\ u \in Nat /\ w \in Nat /\ y \in Nat /\ d \in Nat /\ a \in Nat
      BY Counts
    <3>2. t \in Nat
      BY DEF Token
    <3> QED
      BY <1>2, <1>3, <1>4, <3>1, <3>2
  <2>2. /\ Turns(l, c, r) = u + w + y + d + a + t
        /\ Turns(l2, c2, r2) = v + x + z + e + a + t
    BY DEF Turns, Token
  <2> HIDE DEF u, v, w, x, y, z, d, e, a, t
  <2> QED
    BY <2>1, <2>2
<1>7. /\ Upstream(l2, c2, r2) \subseteq Upstream(l, c, r)
      /\ Downstream(l2, c2, r2) \subseteq Downstream(l, c, r)
  BY <1>1, <1>2, <1>3 DEF Upstream, Downstream
<1>8. \A line \in LinesOf(c2.down) : line \in LinesOf(c.down)
  BY <1>2
<1>9. o2 => o /\ r2 = r
  OBVIOUS
<1> QED
  BY <1>3, <1>5, <1>6, <1>7, <1>8, <1>9, Passed DEF Follows
-----------------------------------------------------------------------------
(* What the server does for an automatic player                            *)

LEMMA IsRead ==
  ASSUME NEW p, NEW l \in ClientState, NEW c \in Connection,
         NEW r \in Client, NEW o \in BOOLEAN, Decent(p, l, c, r, o),
         NEW c2 \in Connection, NEW r2 \in Client,
         c2.up = <<>>, c2.down = c.down, c2.server = c.server,
         r2.read_buffer = r.read_buffer \o c.up,
         r2.retarded_responses = r.retarded_responses,
         r2.write_buffer = r.write_buffer, r2.player_id = r.player_id,
         r2.received_hello = r.received_hello, r2.coeffs = r.coeffs,
         r2.state = r.state
  PROVE  Decent(p, l, c2, r2, o)
<1> DEFINE b == r.read_buffer \o c.up
<1>1. r.read_buffer \in Seq(ToServer) /\ c.up \in Seq(ToServer)
  BY ConnectionFields, ClientFields
<1>2. /\ Len(b) = Len(r.read_buffer) + Len(c.up)
      /\ LinesOf(b) = LinesOf(r.read_buffer) \cup LinesOf(c.up)
  BY <1>1, LinesOfConcat
<1>3. r2.read_buffer = b
  OBVIOUS
<1> HIDE DEF b
<1>5. UnderWay(l, c2, r2) = UnderWay(l, c, r)
  <2> DEFINE x == Len(l.write_buffer)
             y == Len(c.up)
             z == Len(r.read_buffer)
  <2>1. x \in Nat /\ y \in Nat /\ z \in Nat
    BY Counts
  <2>2. UnderWay(l, c, r) = x + y + z /\ UnderWay(l, c2, r2) = x + 0 + (z + y)
    BY <1>2, <1>3 DEF UnderWay
  <2> HIDE DEF x, y, z
  <2> QED
    BY <2>1, <2>2
<1>6. Turns(l, c2, r2) = Turns(l, c, r)
  BY <1>5 DEF Turns
<1>7. Turns(l, c2, r2) <= Turns(l, c, r)
  BY <1>6, Counts
<1>8. Waiting(r2) = Waiting(r)
  BY DEF Waiting
<1>9. /\ Upstream(l, c2, r2) = Upstream(l, c, r)
      /\ Downstream(l, c2, r2) = Downstream(l, c, r)
  BY <1>2, <1>3, <1>8, LinesOfEmpty DEF Upstream, Downstream
<1> QED
  BY <1>5, <1>7, <1>9, Passed DEF Follows

\* Answers get ready, or grow older.
LEMMA Readies ==
  ASSUME NEW p, NEW l \in ClientState, NEW c \in Connection,
         NEW r \in Client, NEW o \in BOOLEAN, Decent(p, l, c, r, o),
         NEW r2 \in Client, r2.read_buffer = r.read_buffer,
         Len(r2.write_buffer) + Len(r2.retarded_responses)
           = Len(r.write_buffer) + Len(r.retarded_responses),
         \A x \in LinesOf(r2.write_buffer) \cup LinesOf(Waiting(r2)) :
           x \in LinesOf(r.write_buffer) \cup LinesOf(Waiting(r)),
         r2.player_id = r.player_id, r2.state = r.state,
         r2.received_hello = r.received_hello, r2.coeffs = r.coeffs
  PROVE  Decent(p, l, c, r2, o)
<1>1. UnderWay(l, c, r2) = UnderWay(l, c, r)
  BY DEF UnderWay
<1>2. Turns(l, c, r2) <= Turns(l, c, r)
  <2> DEFINE u == UnderWay(l, c, r)
             w == Len(r.retarded_responses)
             x == Len(r2.retarded_responses)
             y == Len(r.write_buffer)
             z == Len(r2.write_buffer)
             d == Answers(c.down)
             a == Answers(l.read_buffer)
             t == Token(l)
  <2>1. /\ u \in Nat /\ w \in Nat /\ x \in Nat /\ y \in Nat
        /\ z \in Nat /\ d \in Nat /\ a \in Nat
    BY Counts
  <2>2. t \in Nat
    BY DEF Token
  <2>3. /\ Turns(l, c, r) = u + w + y + d + a + t
        /\ Turns(l, c, r2) = u + x + z + d + a + t
        /\ z + x = y + w
    BY <1>1 DEF Turns
  <2> HIDE DEF u, w, x, y, z, d, a, t
  <2> QED
    BY <2>1, <2>2, <2>3
<1>3. /\ Upstream(l, c, r2) = Upstream(l, c, r)
      /\ Downstream(l, c, r2) \subseteq Downstream(l, c, r)
  BY DEF Upstream, Downstream
<1> QED
  BY <1>1, <1>2, <1>3, Passed DEF Follows

LEMMA ReplyLine ==
  ASSUME NEW x \in Reply
  PROVE  x.type # "SCORING" /\ x \in FromServer
BY DEF Reply, FromServer

LEMMA IsSent ==
  ASSUME NEW p, NEW l \in ClientState, NEW c \in Connection,
         NEW r \in Client, NEW o \in BOOLEAN, Decent(p, l, c, r, o),
         c.server = "open", NEW c2 \in Connection, NEW r2 \in Client,
         c2.up = c.up, c2.down = c.down \o r.write_buffer,
         c2.server = c.server, r2.read_buffer = r.read_buffer,
         r2.write_buffer = <<>>,
         r2.retarded_responses = r.retarded_responses,
         r2.player_id = r.player_id,
         r2.received_hello = r.received_hello, r2.coeffs = r.coeffs,
         r2.state = r.state
  PROVE  Decent(p, l, c2, r2, o)
<1> DEFINE s == c.down \o r.write_buffer
<1>1. /\ c.down \in Seq(FromServer) /\ r.write_buffer \in Seq(Reply)
      /\ r.write_buffer \in Seq(FromServer)
  <2>1. c.down \in Seq(FromServer) /\ r.write_buffer \in Seq(Reply)
    BY ConnectionFields, ClientFields
  <2>2. Reply \subseteq FromServer
    BY DEF FromServer
  <2> QED
    BY <2>1, <2>2, SeqMonotonic
<1>2. /\ s \in Seq(FromServer)
      /\ Len(s) = Len(c.down) + Len(r.write_buffer)
      /\ LinesOf(s) = LinesOf(c.down) \cup LinesOf(r.write_buffer)
  BY <1>1, LinesOfConcat
<1>3. \A line \in LinesOf(r.write_buffer) : line.type # "SCORING"
  <2>1. \A line \in LinesOf(r.write_buffer) : line \in Reply
    BY <1>1, SeqElements DEF LinesOf
  <2> QED
    BY <2>1, ReplyLine
<1>4. c2.down = s
  OBVIOUS
<1> HIDE DEF s
<1>6. UnderWay(l, c2, r2) = UnderWay(l, c, r)
  BY DEF UnderWay
<1>7. Automatic(l) => Turns(l, c2, r2) <= Turns(l, c, r)
  <2> SUFFICES ASSUME Automatic(l) PROVE Turns(l, c2, r2) <= Turns(l, c, r)
    OBVIOUS
  <2>1. \A line \in LinesOf(c.down) : line.type # "SCORING"
    BY DEF Decent, Courteous
  <2>2. Answers(c.down) = Len(c.down)
    BY <1>1, <2>1, AnswersCount
  <2>3. Answers(s) = Len(s)
    BY <1>2, <1>3, <2>1, AnswersCount
  <2> DEFINE u == UnderWay(l, c, r)
             w == Len(r.retarded_responses)
             y == Len(r.write_buffer)
             d == Answers(c.down)
             a == Answers(l.read_buffer)
             t == Token(l)
  <2>4. /\ u \in Nat /\ w \in Nat /\ y \in Nat /\ d \in Nat /\ a \in Nat
    BY Counts
  <2>5. t \in Nat
    BY DEF Token
  <2>6. /\ Turns(l, c, r) = u + w + y + d + a + t
        /\ Turns(l, c2, r2) = u + w + 0 + (d + y) + a + t
    <3>1. Len(r2.write_buffer) = 0 /\ Answers(c2.down) = d + y
      BY <1>2, <1>4, <2>2, <2>3
    <3> QED
      BY <1>6, <3>1 DEF Turns
  <2> HIDE DEF u, w, y, d, a, t
  <2> QED
    BY <2>4, <2>5, <2>6
<1>8. Waiting(r2) = Waiting(r)
  BY DEF Waiting
<1>9. /\ Upstream(l, c2, r2) = Upstream(l, c, r)
      /\ Downstream(l, c2, r2) = Downstream(l, c, r)
  BY <1>2, <1>4, <1>8, LinesOfEmpty DEF Upstream, Downstream
<1>10. \A line \in LinesOf(c2.down) :
         line \in LinesOf(c.down) \/ line.type # "SCORING"
  BY <1>2, <1>3, <1>4
<1>11. ~(c2.server \in {"none", "queued"}) /\ c.server # "closed"
  OBVIOUS
<1>12. /\ l.put_eligible => l.put_eligible \/ l.received_coeff
       /\ r2.player_id \in {r.player_id, NoOne}
  OBVIOUS
<1>13. /\ Upstream(l, c2, r2) \cup LinesOf(l.coeff_buffer)
            \subseteq Upstream(l, c, r) \cup LinesOf(l.coeff_buffer)
       /\ Upstream(l, c2, r2) \subseteq Upstream(l, c, r)
       /\ Downstream(l, c2, r2) \subseteq Downstream(l, c, r)
  BY <1>9
<1>14. Automatic(l) => Follows(l, c, r, o, l, c2, r2, o)
  BY <1>6, <1>7, <1>10, <1>11, <1>13 DEF Follows
<1> QED
  BY <1>12, <1>13, <1>14, Passed

\* A connection that is accepted has a record without lines.
LEMMA IsAccepted ==
  ASSUME NEW p, NEW l \in ClientState, NEW c \in Connection,
         Decent(p, l, c, DefaultClient, FALSE), c.server = "queued",
         NEW c2 \in Connection, NEW r2 \in Client,
         c2 = [c EXCEPT !.server = "open"],
         r2 = [DefaultClient EXCEPT !.state = [j \in Points |-> 0], !.age = 0]
  PROVE  Decent(p, l, c2, r2, TRUE)
<1> DEFINE r == DefaultClient
<1>1. /\ r \in Client /\ r2.read_buffer = r.read_buffer
      /\ r2.write_buffer = r.write_buffer
      /\ r2.retarded_responses = r.retarded_responses
      /\ r2.player_id = r.player_id
      /\ r2.state = [j \in Points |-> 0]
  BY DefaultIsClient DEF DefaultClient
<1>2. c2.up = c.up /\ c2.down = c.down /\ c2.server = "open"
  BY DEF Connection
<1> HIDE DEF r
<1>3. /\ UnderWay(l, c2, r2) = UnderWay(l, c, r)
      /\ UnderWay(l, c2, r2) \in Nat
  BY <1>1, <1>2, Counts DEF UnderWay
<1>4. Turns(l, c2, r2) = Turns(l, c, r)
  BY <1>1, <1>2, <1>3 DEF Turns
<1>5. Waiting(r2) = Waiting(r)
  BY <1>1 DEF Waiting
<1>6. /\ Upstream(l, c2, r2) = Upstream(l, c, r)
      /\ Downstream(l, c2, r2) = Downstream(l, c, r)
  BY <1>1, <1>2, <1>5 DEF Upstream, Downstream
<1>7. Honest(p, l, c2, r2)
  BY <1>1, <1>6 DEF Decent, Honest, r
<1>8. ASSUME Automatic(l)
      PROVE  Courteous(p, l, c2, r2, TRUE)
  <2>1. /\ Courteous(p, l, c, r, FALSE) /\ ~l.received_coeff
        /\ c.down = <<>> /\ l.read_buffer = <<>> /\ l.sent = 0
    BY <1>8 DEF Decent, Courteous, r
  <2>2. LinesOf(Waiting(r)) = {} /\ r.write_buffer = <<>>
    <3>1. r.retarded_responses = <<>> /\ r.write_buffer = <<>>
      BY DefaultIsClient DEF Blank, r
    <3> QED
      BY <3>1 DEF LinesOf, Waiting
  <2>3. Downstream(l, c, r) = {}
    BY <2>1, <2>2, LinesOfEmpty DEF Downstream
  <2>4. StateExact(l, c2, r2)
    <3>1. r2.state \in [Points -> Int]
      BY <1>1
    <3>2. ASSUME NEW j \in Points
          PROVE  r2.state[j] = Exact(l, c2, r2, j)
      <4>1. j \in Nat
        BY ProtocolAssumption DEF Points
      <4>2. ~(j < l.sent - UnderWay(l, c2, r2))
        BY <1>3, <2>1, <4>1
      <4>3. Exact(l, c2, r2, j) = 0
        BY <4>2 DEF Exact
      <4> QED
        BY <1>1, <4>3
    <3> QED
      BY <3>1, <3>2 DEF StateExact
  <2>5. \A line \in Upstream(l, c2, r2) : Said(p, l, line)
    BY <1>6, <2>1 DEF Courteous
  <2>6. \A line \in LinesOf(c2.down) : line.type # "SCORING"
    BY <1>2, <2>1, LinesOfEmpty
  <2> QED
    BY <1>2, <1>4, <1>6, <2>1, <2>3, <2>4, <2>5, <2>6 DEF Courteous
<1> QED
  BY <1>7, <1>8 DEF Decent

\* The end of a game: SCORING is the last line, and the record is gone.
LEMMA IsScored ==
  ASSUME NEW p, NEW l \in ClientState, NEW c \in Connection,
         NEW r \in Client, NEW o \in BOOLEAN, Decent(p, l, c, r, o),
         c.server = "open", NEW x \in FromServer, x.type = "SCORING",
         NEW c2 \in Connection,
         c2 = CloseServer([c EXCEPT !.down = Append(@, x)])
  PROVE  Decent(p, l, c2, DefaultClient, FALSE)
<1> DEFINE s == Append(c.down, x)
           d == [c EXCEPT !.down = s]
<1>1. /\ c.down \in Seq(FromServer) /\ s \in Seq(FromServer)
      /\ Len(s) = Len(c.down) + 1 /\ LinesOf(s) = LinesOf(c.down) \cup {x}
  BY ConnectionFields, LinesOfAppend
<1>2. Answers(s) = Len(c.down)
  <2>1. s[Len(s)] = x /\ s # <<>> /\ Len(c.down) \in Nat
    BY <1>1, AppendProperties, LenProperties, EmptySeq
  <2> HIDE DEF s
  <2> QED
    BY <1>1, <2>1 DEF Answers
<1> HIDE DEF s
<1>3. /\ c2 = CloseServer(d) /\ d \in Connection /\ d.up = c.up
      /\ d.down = s /\ d.server = "open"
  BY <1>1 DEF Connection, s
<1> HIDE DEF d
<1>4. /\ c2.server = "closed" /\ c2.up \in {c.up, <<>>}
      /\ c2.down \in {s, <<>>}
  BY <1>3 DEF CloseServer, Unconnected, Connection
<1> DEFINE e == [c EXCEPT !.up = c2.up, !.down = c2.down, !.server = "closed"]
<1>5. Honest(p, l, c2, DefaultClient)
  <2>1. LinesOf(c2.up) \subseteq LinesOf(c.up)
    BY <1>4, LinesOfEmpty
  <2>2. LinesOf(DefaultClient.read_buffer) = {}
    BY DefaultIsClient, LinesOfEmpty DEF Blank
  <2> QED
    BY <2>1, <2>2, DefaultIsClient DEF Decent, Honest, Upstream
<1>6. ASSUME Automatic(l)
      PROVE  Courteous(p, l, c2, DefaultClient, FALSE)
  <2>1. Courteous(p, l, c, r, o)
    BY <1>6 DEF Decent
  <2>2. Answers(c.down) = Len(c.down)
    BY <1>1, <2>1, AnswersCount DEF Courteous
  <2>3. /\ Answers(c2.down) \in Nat /\ Answers(c2.down) <= Answers(c.down)
    <3>1. Answers(<<>>) = 0 /\ Answers(c.down) \in Nat
      BY Counts DEF Answers
    <3>2. CASE c2.down = s
      BY <1>2, <2>2, <3>1, <3>2
    <3>3. CASE c2.down = <<>>
      BY <3>1, <3>3
    <3> QED
      BY <1>4, <3>2, <3>3
  <2>4. Len(c2.up) \in Nat /\ Len(c2.up) <= Len(c.up)
    <3>1. Len(<<>>) = 0 /\ Len(c.up) \in Nat
      BY Counts
    <3>2. CASE c2.up = c.up
      BY <3>1, <3>2
    <3>3. CASE c2.up = <<>>
      BY <3>1, <3>3
    <3> QED
      BY <1>4, <3>2, <3>3
  <2>5. /\ DefaultClient.read_buffer = <<>>
        /\ DefaultClient.write_buffer = <<>>
        /\ DefaultClient.retarded_responses = <<>>
    BY DefaultIsClient DEF Blank
  <2>6. Turns(l, c2, DefaultClient) <= 1
    <3> DEFINE w == Len(l.write_buffer)
               y == Len(c.up)
               z == Len(c2.up)
               b == Len(r.read_buffer)
               f == Len(r.retarded_responses)
               g == Len(r.write_buffer)
               h == Answers(c.down)
               i == Answers(c2.down)
               a == Answers(l.read_buffer)
               t == Token(l)
    <3>1. /\ w \in Nat /\ y \in Nat /\ z \in Nat /\ b \in Nat /\ f \in Nat
          /\ g \in Nat /\ h \in Nat /\ i \in Nat /\ a \in Nat
          /\ z <= y /\ i <= h
      BY <2>3, <2>4, Counts
    <3>2. t \in Nat
      BY DEF Token
    <3>3. (w + y + b) + f + g + h + a + t <= 1
      BY <2>1 DEF Courteous, Turns, UnderWay
    <3>4. Turns(l, c2, DefaultClient) = (w + z + 0) + 0 + 0 + i + a + t
      <4>1. Len(<<>>) = 0
        OBVIOUS
      <4> QED
        BY <2>5, <4>1 DEF Turns, UnderWay
    <3> HIDE DEF w, y, z, b, f, g, h, i, a, t
    <3> QED
      BY <3>1, <3>2, <3>3, <3>4
  <2>7. \A line \in Upstream(l, c2, DefaultClient) : Said(p, l, line)
    <3>1. LinesOf(c2.up) \subseteq LinesOf(c.up)
      BY <1>4, LinesOfEmpty
    <3> QED
      BY <2>1, <2>5, <3>1, LinesOfEmpty DEF Courteous, Upstream
  <2>8. \A line \in Downstream(l, c2, DefaultClient) :
          Told(l, DefaultClient, FALSE, line)
    <3>1. LinesOf(c2.down) \subseteq LinesOf(c.down) \cup {x}
      BY <1>1, <1>4, LinesOfEmpty
    <3>2. LinesOf(Waiting(DefaultClient)) = {}
      BY <2>5 DEF LinesOf, Waiting
    <3> QED
      BY <2>1, <2>5, <3>1, <3>2, LinesOfEmpty DEF Courteous, Downstream, Told
  <2> QED
    BY <1>4, <2>1, <2>6, <2>7, <2>8 DEF Courteous
<1> QED
  BY <1>5, <1>6 DEF Decent

-----------------------------------------------------------------------------
(* What parse_loop does with a line of a player                            *)

\* The line is taken; the turn is the server's.
Took(p, l, c, r, s, line) ==
  /\ Honest(p, l, c, s) /\ line \in ToServer
  /\ line.type = "HELLO" => line.id = p
  /\ Automatic(l) =>
       /\ Said(p, l, line)
       /\ UnderWay(l, c, r) = 1 /\ UnderWay(l, c, s) = 0
       /\ Upstream(l, c, s) = {}
       /\ Downstream(l, c, s) = Downstream(l, c, r)
       /\ s.retarded_responses = <<>> /\ s.write_buffer = <<>>
       /\ Answers(c.down) = 0 /\ Answers(l.read_buffer) = 0
       /\ Token(l) = 0

LEMMA LineGone ==
  ASSUME NEW p, NEW l \in ClientState, NEW c \in Connection,
         NEW r \in Client, Decent(p, l, c, r, TRUE), r.read_buffer # <<>>,
         NEW s \in Client, s.read_buffer = Tail(r.read_buffer),
         s.retarded_responses = r.retarded_responses,
         s.write_buffer = r.write_buffer, s.player_id = r.player_id
  PROVE  Took(p, l, c, r, s, Head(r.read_buffer))
<1> DEFINE line == Head(r.read_buffer)
<1>1. /\ line \in LinesOf(r.read_buffer) /\ line \in ToServer
      /\ LinesOf(s.read_buffer) \subseteq LinesOf(r.read_buffer)
      /\ Len(s.read_buffer) = Len(r.read_buffer) - 1
      /\ Len(r.read_buffer) \in Nat /\ Len(r.read_buffer) >= 1
  BY ClientFields, LinesOfTail
<1> HIDE DEF line
<1>2. line \in Upstream(l, c, r)
  BY <1>1 DEF Upstream
<1>3. Honest(p, l, c, s) /\ (line.type = "HELLO" => line.id = p)
  BY <1>1, <1>2 DEF Decent, Honest, Upstream
<1>4. ASSUME Automatic(l)
      PROVE  /\ Said(p, l, line)
             /\ UnderWay(l, c, r) = 1 /\ UnderWay(l, c, s) = 0
             /\ Upstream(l, c, s) = {}
             /\ Downstream(l, c, s) = Downstream(l, c, r)
             /\ s.retarded_responses = <<>> /\ s.write_buffer = <<>>
             /\ Answers(c.down) = 0 /\ Answers(l.read_buffer) = 0
             /\ Token(l) = 0
  <2>1. Courteous(p, l, c, r, TRUE)
    BY <1>4 DEF Decent
  <2>2. /\ UnderWay(l, c, r) = 1 /\ Len(l.write_buffer) = 0
        /\ Len(c.up) = 0 /\ Len(r.read_buffer) = 1
        /\ Len(r.retarded_responses) = 0 /\ Len(r.write_buffer) = 0
        /\ Answers(c.down) = 0 /\ Answers(l.read_buffer) = 0
        /\ Token(l) = 0
    BY <1>1, <2>1, OneTurn DEF Courteous
  <2>3. Len(s.read_buffer) = 0
    BY <1>1, <2>2
  <2>4. /\ l.write_buffer = <<>> /\ c.up = <<>> /\ s.read_buffer = <<>>
        /\ r.retarded_responses = <<>> /\ r.write_buffer = <<>>
    <3>1. /\ l.write_buffer \in Seq(ToServer) /\ c.up \in Seq(ToServer)
          /\ s.read_buffer \in Seq(ToServer) /\ r.write_buffer \in Seq(Reply)
          /\ r.retarded_responses \in Seq(Delayed)
      BY PlayerFields, ConnectionFields, ClientFields
    <3> QED
      BY <2>2, <2>3, <3>1, EmptySeq
  <2>5. UnderWay(l, c, s) = 0
    BY <2>2, <2>3 DEF UnderWay
  <2>6. Upstream(l, c, s) = {}
    BY <2>4, LinesOfEmpty DEF Upstream
  <2>7. Downstream(l, c, s) = Downstream(l, c, r)
    BY DEF Downstream, Waiting
  <2>8. Said(p, l, line)
    BY <1>2, <2>1 DEF Courteous
  <2> QED
    BY <2>2, <2>4, <2>5, <2>6, <2>7, <2>8
<1> QED
  BY <1>1, <1>3, <1>4 DEF Took, line

\* The HELLO of an automatic player is answered once.
LEMMA HelloTaken ==
  ASSUME NEW p \in Player, NEW l \in ClientState, NEW c \in Connection,
         NEW r \in Client, Decent(p, l, c, r, TRUE), c.server = "open",
         r.read_buffer # <<>>,
         NEW s \in Client, s.read_buffer = Tail(r.read_buffer),
         s.retarded_responses = r.retarded_responses,
         s.write_buffer = r.write_buffer, s.player_id = r.player_id,
         s.received_hello = r.received_hello, s.coeffs = r.coeffs,
         s.state = r.state,
         Head(r.read_buffer).type = "HELLO",
         ReadsCoeff(Head(r.read_buffer), s) => next_line \in Lines
  PROVE  Decent(p, l, c, handle_hello(Head(r.read_buffer), s).client, TRUE)
<1> DEFINE line == Head(r.read_buffer)
           h == handle_hello(line, s).client
<1> SUFFICES Decent(p, l, c, h, TRUE)
  OBVIOUS
<1>1. /\ Honest(p, l, c, s) /\ line \in ToServer /\ line.id = p
      /\ Automatic(l) =>
           /\ Said(p, l, line)
           /\ UnderWay(l, c, r) = 1 /\ UnderWay(l, c, s) = 0
           /\ Upstream(l, c, s) = {}
           /\ Downstream(l, c, s) = Downstream(l, c, r)
           /\ s.retarded_responses = <<>> /\ s.write_buffer = <<>>
           /\ Answers(c.down) = 0 /\ Answers(l.read_buffer) = 0
           /\ Token(l) = 0
  <2>1. Took(p, l, c, r, s, line)
    BY LineGone
  <2> QED
    BY <2>1 DEF Took
<1>2. h \in Client /\ h.read_buffer = s.read_buffer
  BY <1>1, handle_helloType
<1>3. line.type = "HELLO" /\ (ReadsCoeff(line, s) => next_line \in Lines)
  OBVIOUS
<1> HIDE DEF line
<1>4. ASSUME Automatic(l)
      PROVE  /\ Courteous(p, l, c, r, TRUE) /\ ~l.received_coeff
             /\ l.sent = 0
  <2>1. Courteous(p, l, c, r, TRUE)
    BY <1>4 DEF Decent
  <2>2. ~l.received_coeff
    BY <1>1, <1>3, <1>4 DEF Said, LastPut, build_put
  <2> QED
    BY <2>1, <2>2 DEF Courteous
\* Until the COEFF arrives the player has put nothing.
<1>5. ASSUME Automatic(l), NEW t \in Client, t.state = r.state,
             UnderWay(l, c, t) = 0
      PROVE  StateExact(l, c, t)
  <2>1. StateExact(l, c, r)
    BY <1>4, <1>5 DEF Courteous
  <2>2. ASSUME NEW j \in Points
        PROVE  Exact(l, c, t, j) = 0 /\ Exact(l, c, r, j) = 0
    <3>1. j \in Nat
      BY ProtocolAssumption DEF Points
    <3>2. ~(j < 0 - 0) /\ ~(j < 0 - 1)
      BY <3>1
    <3> QED
      BY <1>1, <1>4, <1>5, <3>2 DEF Exact
  <2> QED
    BY <1>5, <2>1, <2>2 DEF StateExact
<1>6. CASE ~ReadsCoeff(line, s)
  <2>1. h = s
    BY <1>6 DEF handle_hello, Handled
  <2>2. ASSUME Automatic(l)
        PROVE  Courteous(p, l, c, s, TRUE)
    <3>1. Turns(l, c, s) <= 1
      <4>1. Len(s.retarded_responses) = 0 /\ Len(s.write_buffer) = 0
        BY <1>1, <2>2
      <4> QED
        BY <1>1, <2>2, <4>1 DEF Turns
    <3>2. \A x \in Downstream(l, c, s) : Told(l, s, TRUE, x)
      BY <1>1, <1>4, <2>2 DEF Courteous, Told
    <3>3. StateExact(l, c, s)
      BY <1>1, <1>5, <2>2
    <3> QED
      BY <1>1, <1>4, <2>2, <3>1, <3>2, <3>3 DEF Courteous
  <2> QED
    BY <1>1, <2>1, <2>2 DEF Decent
<1>7. CASE ReadsCoeff(line, s)
  <2> DEFINE w == Append(s.write_buffer, CoeffLine(next_line))
  <2>1. /\ h.player_id = p /\ h.received_hello /\ h.coeffs = next_line
        /\ h.write_buffer = w /\ h.state = s.state
        /\ h.retarded_responses = s.retarded_responses
    BY <1>1, <1>7 DEF handle_hello, Handled, Client, ClientRecord
  <2> HIDE DEF h
  <2>2. Upstream(l, c, h) = Upstream(l, c, s)
    BY <1>2 DEF Upstream
  <2>3. Honest(p, l, c, h)
    BY <1>1, <2>1, <2>2 DEF Honest
  <2>4. ASSUME Automatic(l)
        PROVE  Courteous(p, l, c, h, TRUE)
    <3>1. w = <<CoeffLine(next_line)>>
      <4>1. s.write_buffer = <<>>
        BY <1>1, <2>4
      <4> QED
        BY <4>1
    <3>2. Len(w) = 1 /\ LinesOf(w) = {CoeffLine(next_line)}
      BY <3>1 DEF LinesOf
    <3> HIDE DEF w
    <3>3. UnderWay(l, c, h) = 0
      BY <1>1, <1>2, <2>4 DEF UnderWay
    <3>4. Turns(l, c, h) <= 1
      <4>1. Len(<<>>) = 0
        OBVIOUS
      <4> QED
        BY <1>1, <2>1, <2>4, <3>2, <3>3, <4>1 DEF Turns
    <3>5. Downstream(l, c, h)
            \subseteq Downstream(l, c, r) \cup {CoeffLine(next_line)}
      BY <1>1, <2>1, <2>4, <3>2 DEF Downstream, Waiting
    <3>6. ~r.received_hello
      BY <1>7 DEF ReadsCoeff
    <3>7. \A x \in Downstream(l, c, h) : Told(l, h, TRUE, x)
      <4>1. \A x \in Downstream(l, c, r) :
              x.type # "PENALTY" /\ x.type # "COEFF"
        BY <1>4, <2>4, <3>6 DEF Courteous, Told
      <4>2. /\ CoeffLine(next_line).type = "COEFF"
            /\ CoeffLine(next_line).line = next_line
        BY DEF CoeffLine
      <4> QED
        BY <1>4, <2>1, <2>4, <3>5, <4>1, <4>2 DEF Told
    <3>8. StateExact(l, c, h)
      BY <1>2, <1>5, <2>1, <2>4, <3>3
    <3> QED
      BY <1>1, <1>4, <2>1, <2>2, <2>4, <3>4, <3>7, <3>8 DEF Courteous
  <2> QED
    BY <2>3, <2>4 DEF Decent
<1> QED
  BY <1>6, <1>7

LEMMA PutKeepsId ==
  ASSUME NEW line \in ToServer, NEW s \in Client, line.type = "PUT"
  PROVE  handle_put(line, s).client.player_id = s.player_id
<1> DEFINE early == ~s.received_hello \/ AnswerPending(s)
           s1 == IF early THEN Penalise(line, s) ELSE s
<1>1. s1 \in Client /\ s1.player_id = s.player_id
  <2>1. Penalise(line, s).player_id = s.player_id
    BY DEF Penalise, Client, ClientRecord
  <2> QED
    BY <2>1, PenaliseType
<1>2. handle_put(line, s)
        = IF ~(line.ok /\ InBounds(line))
          THEN Handled(Reject(line, s1), FALSE, 0)
          ELSE IF early THEN Handled(s1, FALSE, 0)
          ELSE Handled(Count(line, s1), TRUE, 1)
  BY DEF handle_put
<1> HIDE DEF s1
<1>3. /\ Reject(line, s1).player_id = s1.player_id
      /\ Count(line, s1).player_id = s1.player_id
  BY <1>1 DEF Reject, Count, Client, ClientRecord
<1> QED
  BY <1>1, <1>2, <1>3 DEF Handled

\* A PUT of an automatic player is never early: nothing waits for it.
LEMMA PutTaken ==
  ASSUME NEW p \in Player, NEW l \in ClientState, NEW c \in Connection,
         NEW r \in Client, Decent(p, l, c, r, TRUE), c.server = "open",
         r.read_buffer # <<>>,
         NEW s \in Client, s.read_buffer = Tail(r.read_buffer),
         s.retarded_responses = r.retarded_responses,
         s.write_buffer = r.write_buffer, s.player_id = r.player_id,
         s.received_hello = r.received_hello, s.coeffs = r.coeffs,
         s.state = r.state,
         Head(r.read_buffer).type = "PUT"
  PROVE  Decent(p, l, c, handle_put(Head(r.read_buffer), s).client, TRUE)
<1> DEFINE line == Head(r.read_buffer)
           h == handle_put(line, s).client
<1> SUFFICES Decent(p, l, c, h, TRUE)
  OBVIOUS
<1>1. Took(p, l, c, r, s, line)
  BY LineGone
<1>2. line.type = "PUT"
  OBVIOUS
<1> HIDE DEF line
<1>3. /\ h \in Client /\ h.read_buffer = s.read_buffer
      /\ h.received_hello = s.received_hello /\ h.player_id = s.player_id
  BY <1>1, <1>2, handle_putType, PutKeepsId DEF Took
<1>4. Honest(p, l, c, h)
  BY <1>1, <1>3 DEF Took, Honest, Upstream
<1>5. ASSUME Automatic(l)
      PROVE  Courteous(p, l, c, h, TRUE)
  <2> DEFINE i == l.sent - 1
             v == poly_val(l.coeffs, i)
  <2>1. Courteous(p, l, c, r, TRUE) /\ Said(p, l, line)
    BY <1>1, <1>5 DEF Decent, Took
  <2>2. /\ l.received_coeff /\ l.sent > 0 /\ line = LastPut(l)
        /\ r.received_hello /\ r.coeffs = l.coeffs
    BY <1>2, <2>1 DEF Said, build_hello, Courteous
  <2>3. /\ line.ok /\ line.point = i /\ line.value = v
    BY <2>2 DEF LastPut, build_put
  <2>4. /\ i \in Nat /\ v \in Int /\ l.sent \in Nat /\ l.sent - 0 = i + 1
        /\ l.sent - 1 = i
    <3>1. l.sent \in Nat /\ l.coeffs \in {0} \cup Lines
      BY PlayerFields
    <3>2. v \in Int
      BY <3>1, poly_valType
    <3> QED
      BY <2>2, <3>1, <3>2
  <2> HIDE DEF i, v
  <2>5. /\ s.retarded_responses = <<>> /\ s.write_buffer = <<>>
        /\ ~AnswerPending(s)
    BY <1>1, <1>5 DEF Took, AnswerPending
  <2>6. h = IF InBounds(line) THEN Count(line, s) ELSE Reject(line, s)
    BY <2>2, <2>3, <2>5 DEF handle_put, Handled
  <2> DEFINE due == IF InBounds(line) THEN Lowercase[s.player_id]
                    ELSE BAD_PUT_DELAY
             x == IF InBounds(line) THEN build_state
                  ELSE Refusal("BAD_PUT", line)
             w == insert(s.retarded_responses, due, x)
             st == [s.state EXCEPT ![line.point] = @ + line.value]
  <2>7. /\ h.retarded_responses = w /\ h.write_buffer = <<>>
        /\ h.coeffs = l.coeffs
        /\ h.state = IF InBounds(line) THEN st ELSE s.state
    BY <2>2, <2>5, <2>6 DEF Count, Reject, Client, ClientRecord
  <2>8. w = <<[due |-> due, line |-> x]>>
    <3>1. due \in Int
      BY <2>2, ClientFields, ServerAssumption DEF BAD_PUT_DELAY
    <3>2. x \in Reply
      <4>1. build_state \in Reply
        BY ProtocolAssumption DEF build_state, Reply
      <4> QED
        BY <1>1, <4>1, RefusalType DEF Took
    <3> HIDE DEF due, x
    <3> QED
      BY <2>5, <3>1, <3>2, ClientFields, insertType
  <2>9. x.type \notin {"PENALTY", "COEFF"}
    BY DEF build_state, Refusal, Line
  <2> HIDE DEF due, x, w, h
  <2>10. Len(h.retarded_responses) = 1 /\ Waiting(h) = <<x>>
    BY <2>7, <2>8 DEF Waiting
  <2>11. Len(h.write_buffer) = 0
    BY <2>7
  <2>12. UnderWay(l, c, h) = 0 /\ Upstream(l, c, h) = {}
    BY <1>1, <1>3, <1>5 DEF Took, UnderWay, Upstream
  <2>13. Turns(l, c, h) <= 1
    BY <1>1, <1>5, <2>10, <2>11, <2>12 DEF Turns, Took
  <2>14. Downstream(l, c, h) \subseteq Downstream(l, c, r) \cup {x}
    <3>1. LinesOf(Waiting(h)) = {x}
      BY <2>10 DEF LinesOf
    <3>2. LinesOf(h.write_buffer) = {}
      BY <2>7, LinesOfEmpty
    <3> QED
      BY <3>1, <3>2 DEF Downstream
  <2>15. \A y \in Downstream(l, c, h) : Told(l, h, TRUE, y)
    BY <2>1, <2>2, <2>9, <2>14 DEF Courteous, Told
  <2>16. StateExact(l, c, h)
    <3>1. StateExact(l, c, r) /\ s.state \in [Points -> Int]
      BY <2>1 DEF Courteous, StateExact
    <3>2. UnderWay(l, c, r) = 1
      BY <1>1, <1>5 DEF Took
    <3>3. ASSUME NEW j \in Points
          PROVE  /\ s.state[j] = IF j < i /\ poly_val(l.coeffs, j) \in -5..5
                                THEN poly_val(l.coeffs, j) ELSE 0
                 /\ Exact(l, c, h, j)
                      = IF j < i + 1 /\ poly_val(l.coeffs, j) \in -5..5
                        THEN poly_val(l.coeffs, j) ELSE 0
      BY <2>2, <2>4, <2>7, <2>12, <3>1, <3>2 DEF StateExact, Exact
    <3>4. InBounds(line) <=> i \in Points /\ v \in -5..5
      BY <2>3 DEF InBounds
    <3>5. h.state \in [Points -> Int]
      <4>1. CASE InBounds(line)
        <5>1. h.state = st /\ line.value \in Int /\ line.point \in Points
          BY <2>3, <2>4, <2>7, <4>1 DEF InBounds
        <5>2. st \in [Points -> Int]
          BY <3>1, <5>1
        <5> QED
          BY <5>1, <5>2
      <4>2. CASE ~InBounds(line)
        BY <2>7, <3>1, <4>2
      <4> QED
        BY <4>1, <4>2
    <3>6. ASSUME NEW j \in Points
          PROVE  h.state[j] = Exact(l, c, h, j)
      <4>1. j \in Nat
        BY ProtocolAssumption DEF Points
      <4>2. CASE j = i
        <5>1. v = poly_val(l.coeffs, j)
          BY <4>2 DEF v, i
        <5>2. /\ s.state[j] = 0
              /\ Exact(l, c, h, j) = IF v \in -5..5 THEN v ELSE 0
          BY <2>4, <3>3, <4>2, <5>1
        <5>3. h.state[j] = IF v \in -5..5 THEN s.state[j] + v ELSE s.state[j]
          BY <2>3, <2>7, <3>1, <3>4, <4>2
        <5> QED
          BY <2>4, <5>2, <5>3
      <4>3. CASE j # i
        <5>1. h.state[j] = s.state[j]
          BY <2>3, <2>7, <3>1, <4>3
        <5>2. j < i <=> j < i + 1
          BY <2>4, <4>1, <4>3
        <5> QED
          BY <3>3, <5>1, <5>2
      <4> QED
        BY <4>2, <4>3
    <3> QED
      BY <3>5, <3>6 DEF StateExact
  <2> QED
    BY <1>3, <2>1, <2>2, <2>7, <2>12, <2>13, <2>15, <2>16 DEF Courteous
<1> QED
  BY <1>4, <1>5 DEF Decent

LEMMA LineHandled ==
  ASSUME NEW p \in Player, NEW l \in ClientState, NEW c \in Connection,
         NEW r \in Client, Decent(p, l, c, r, TRUE), c.server = "open",
         r.read_buffer # <<>>,
         NEW s \in Client, s.read_buffer = Tail(r.read_buffer),
         s.retarded_responses = r.retarded_responses,
         s.write_buffer = r.write_buffer, s.player_id = r.player_id,
         s.received_hello = r.received_hello, s.coeffs = r.coeffs,
         s.state = r.state,
         ReadsCoeff(Head(r.read_buffer), s) => next_line \in Lines
  PROVE  Decent(p, l, c, Handle(Head(r.read_buffer), s).client, TRUE)
<1> DEFINE line == Head(r.read_buffer)
<1>1. Took(p, l, c, r, s, line)
  BY LineGone
<1>2. CASE line.type = "HELLO"
  BY <1>2, HelloTaken DEF Handle
<1>3. CASE line.type = "PUT"
  BY <1>3, PutTaken DEF Handle
<1>4. CASE line.type = "STATE"
  <2>1. Handle(line, s).client = s
    BY <1>4 DEF Handle, Handled
  <2>2. ~Automatic(l)
    BY <1>1, <1>4 DEF Took, Said, LastPut, build_put, build_hello
  <2> QED
    BY <1>1, <2>1, <2>2 DEF Took, Decent
<1> QED
  BY <1>1, <1>2, <1>3, <1>4, LineFields DEF Took

-----------------------------------------------------------------------------
(* The steps of the server keep the players                                *)

LEMMA Elsewhere ==
  ASSUME NEW p, Played(p), conn'[p] = conn[p], cl'[p] = cl[p],
         \A fd \in FD : sock'[fd] = p <=> sock[fd] = p,
         \A fd \in FD : sock[fd] = p => client_map'[fd] = client_map[fd]
  PROVE  Played(p)'
BY DEF Played

LEMMA Owned ==
  ASSUME TypeOK, ServerInv, PlayersInv, NEW fd \in FD, IsOpen(fd)
  PROVE  LET p == sock[fd]
         IN  /\ p \in Player /\ p # NoOne /\ conn[p].server = "open"
             /\ fd \in DOMAIN client_map
             /\ client_map[fd] \in Client /\ cl[p] \in ClientState
             /\ conn[p] \in Connection
             /\ Decent(p, cl[p], conn[p], client_map[fd], TRUE)
             /\ \A f \in FD : sock[f] = p => f = fd
BY ProtocolAssumption
   DEF TypeOK, ServerInv, Sockets, IsOpen, PlayersInv, Played

\* The connection is closed, and the record of the player is gone.
LEMMA LosesServer ==
  ASSUME NEW p, NEW l \in ClientState, NEW c \in Connection,
         NEW r \in Client, NEW o \in BOOLEAN, Decent(p, l, c, r, o)
  PROVE  Decent(p, l, CloseServer(c), DefaultClient, FALSE)
<1> DEFINE c2 == CloseServer(c)
<1>1. c2 \in Connection /\ c2.server = "closed"
  BY CloseTypes
<1>2. c2.up \in {c.up, <<>>} /\ c2.down \in {c.down, <<>>}
  BY DEF CloseServer, Unconnected, Connection
<1> HIDE DEF c2
<1>3. DefaultClient \in Client
  BY DefaultIsClient
<1>4. Decent(p, l, c2, DefaultClient, FALSE)
  BY <1>1, <1>2, <1>3, Loses
<1> QED
  BY <1>4 DEF c2

LEMMA Leaves ==
  ASSUME TypeOK, ServerInv, PlayersInv, NEW fd \in FD, Close(fd),
         UNCHANGED cl,
         \A f \in FD : f # fd /\ IsOpen(f) => client_map'[f] = client_map[f]
  PROVE  PlayersInv'
<1> SUFFICES ASSUME NEW p \in Player PROVE Played(p)'
  BY DEF PlayersInv
<1>1. /\ sock' = [sock EXCEPT ![fd] = NoOne]
      /\ sock \in [FD -> Player \cup {NoOne}]
  BY DEF Close, TypeOK
<1>2. CASE sock[fd] = p
  <2>1. /\ p # NoOne /\ IsOpen(fd)
    BY <1>2, ProtocolAssumption DEF IsOpen
  <2>2. /\ cl[p] \in ClientState /\ conn[p] \in Connection
        /\ client_map[fd] \in Client
        /\ Decent(p, cl[p], conn[p], client_map[fd], TRUE)
        /\ \A f \in FD : sock[f] = p => f = fd
    BY <1>2, <2>1, Owned
  <2>3. conn'[p] = CloseServer(conn[p]) /\ cl'[p] = cl[p]
    BY <1>2, <2>1 DEF Close, IsOpen, TypeOK
  <2>4. \A f \in FD : sock'[f] # p
    BY <1>1, <2>1, <2>2
  <2>5. Decent(p, cl[p], CloseServer(conn[p]), DefaultClient, FALSE)
    BY <2>2, LosesServer
  <2> QED
    BY <2>3, <2>4, <2>5 DEF Played
<1>3. CASE sock[fd] # p
  <2>1. p # NoOne
    BY ProtocolAssumption
  <2>2. \A f \in FD : sock'[f] = p <=> sock[f] = p
    BY <1>1, <1>3, <2>1
  <2>3. \A f \in FD : sock[f] = p => client_map'[f] = client_map[f]
    BY <1>3, <2>1 DEF IsOpen
  <2>4. conn'[p] = conn[p] /\ cl'[p] = cl[p]
    BY <1>3 DEF Close, TypeOK
  <2> QED
    BY <2>2, <2>3, <2>4, Elsewhere DEF PlayersInv
<1> QED
  BY <1>2, <1>3

LEMMA DisconnectedPlayed ==
  ASSUME TypeOK, ServerInv, PlayersInv, Serving, Close(fds[slot]),
         UNCHANGED cl,
         \/ client_map' = Without(fds[slot])
         \/ client_map' = Assign(Without(fds[slot]), -1, ClientAt(-1))
  PROVE  PlayersInv'
<1> DEFINE fd == fds[slot]
           Left == Without(fd)
<1>1. fd \in FD
  BY ServingFacts
<1>2. ASSUME NEW f \in FD, f # fd, IsOpen(f)
      PROVE  client_map'[f] = client_map[f]
  <2>1. f \in DOMAIN client_map \ {fd} /\ f # -1
    BY <1>2, Descriptors DEF ServerInv, Sockets
  <2>2. f \in DOMAIN Left /\ Left[f] = client_map[f]
    BY <2>1 DEF Without, Restrict
  <2> HIDE DEF Left
  <2>3. Assign(Left, -1, ClientAt(-1))[f] = Left[f]
    BY <2>1, <2>2 DEF Assign
  <2>4. client_map' \in {Left, Assign(Left, -1, ClientAt(-1))}
    BY DEF Left
  <2> QED
    BY <2>2, <2>3, <2>4
<1> QED
  BY <1>1, <1>2, Leaves

LEMMA ExitPlayed ==
  ASSUME TypeOK, ServerInv, PlayersInv, Exit, UNCHANGED cl
  PROVE  PlayersInv'
<1> SUFFICES ASSUME NEW p \in Player PROVE Played(p)'
  BY DEF PlayersInv
<1>1. /\ conn'[p] = CloseServer(conn[p]) /\ cl'[p] = cl[p]
      /\ \A fd \in FD : sock'[fd] # p
  BY ProtocolAssumption DEF Exit
<1>2. cl[p] \in ClientState /\ conn[p] \in Connection
  BY DEF TypeOK
<1>3. Decent(p, cl[p], CloseServer(conn[p]), DefaultClient, FALSE)
  <2>1. CASE \A fd \in FD : sock[fd] # p
    <3>1. Decent(p, cl[p], conn[p], DefaultClient, FALSE)
      BY <2>1 DEF PlayersInv, Played
    <3> QED
      BY <1>2, <3>1, DefaultIsClient, LosesServer
  <2>2. CASE \E fd \in FD : sock[fd] = p
    <3>1. PICK fd \in FD : sock[fd] = p
      BY <2>2
    <3>2. IsOpen(fd)
      BY <3>1, ProtocolAssumption DEF IsOpen
    <3>3. /\ client_map[fd] \in Client
          /\ Decent(p, cl[p], conn[p], client_map[fd], TRUE)
      BY <3>1, <3>2, Owned
    <3> QED
      BY <1>2, <3>3, LosesServer
  <2> QED
    BY <2>1, <2>2
<1> QED
  BY <1>1, <1>3 DEF Played

\* The record and the connection of the player behind fd change.
LEMMA Recorded ==
  ASSUME TypeOK, ServerInv, PlayersInv, NEW fd \in FD, IsOpen(fd),
         UNCHANGED <<sock, cl>>,
         NEW c, client_map' = Assign(client_map, fd, c),
         \A q \in Player : q # sock[fd] => conn'[q] = conn[q],
         Decent(sock[fd], cl[sock[fd]], conn'[sock[fd]], c, TRUE)
  PROVE  PlayersInv'
<1> SUFFICES ASSUME NEW p \in Player PROVE Played(p)'
  BY DEF PlayersInv
<1>1. /\ \A f \in FD : sock[f] = sock[fd] => f = fd
      /\ fd \in DOMAIN client_map /\ sock[fd] \in Player
  BY Owned
<1>2. /\ client_map'[fd] = c
      /\ \A f \in DOMAIN client_map : f # fd => client_map'[f] = client_map[f]
  BY DEF Assign
<1>3. CASE sock[fd] = p
  BY <1>1, <1>2, <1>3 DEF Played
<1>4. CASE sock[fd] # p
  <2>1. p # NoOne
    BY ProtocolAssumption
  <2>2. \A f \in FD : sock[f] = p => f \in DOMAIN client_map /\ f # fd
    BY <1>4, <2>1 DEF ServerInv, Sockets, IsOpen
  <2>3. conn'[p] = conn[p] /\ cl'[p] = cl[p]
    BY <1>4
  <2> QED
    BY <1>2, <2>2, <2>3, Elsewhere DEF PlayersInv
<1> QED
  BY <1>3, <1>4

LEMMA receive_messagesPlayed ==
  ASSUME TypeOK, ServerInv, PlayersInv, receive_messages, UNCHANGED cl
  PROVE  PlayersInv'
<1> DEFINE fd == fds[slot]
           p == sock[fd]
           s == current.read_buffer \o conn[p].up
           c == [current EXCEPT !.read_buffer = s]
           e == [conn[p] EXCEPT !.up = <<>>]
<1>1. /\ Serving /\ ~parsing /\ "IN" \in revents[slot]
      /\ "HUP" \notin revents[slot]
  BY DEF receive_messages, Reading, MayRead
<1>2. /\ current \in Client /\ current = client_map[fd]
      /\ IsOpen(fd) /\ fd \in FD
  BY <1>1, Current, ServingFacts
<1>3. /\ p \in Player /\ cl[p] \in ClientState /\ conn[p] \in Connection
      /\ Decent(p, cl[p], conn[p], client_map[fd], TRUE)
  BY <1>2, Owned
<1>4. /\ client_map' = Assign(client_map, fd, c) /\ UNCHANGED sock
      /\ conn' = [conn EXCEPT ![p] = e]
  BY DEF receive_messages, current
<1>5. s \in Seq(ToServer)
  BY <1>2, <1>3, ConnectionFields, ClientFields, ConcatProperties
<1>6. /\ c \in Client /\ c.read_buffer = s
      /\ c.retarded_responses = current.retarded_responses
      /\ c.write_buffer = current.write_buffer
      /\ c.player_id = current.player_id
      /\ c.received_hello = current.received_hello
      /\ c.coeffs = current.coeffs /\ c.state = current.state
  <2> HIDE DEF s
  <2> QED
    BY <1>2, <1>5 DEF Client, ClientRecord
<1>7. /\ e \in Connection /\ e.up = <<>> /\ e.down = conn[p].down
      /\ e.server = conn[p].server
  <2>1. <<>> \in Seq(ToServer)
    OBVIOUS
  <2> QED
    BY <1>3, <2>1 DEF Connection
<1>8. conn'[p] = e /\ \A q \in Player : q # p => conn'[q] = conn[q]
  BY <1>3, <1>4 DEF TypeOK
<1> HIDE DEF c, e
<1>9. Decent(p, cl[p], e, c, TRUE)
  BY <1>2, <1>3, <1>6, <1>7, IsRead
<1> HIDE DEF fd, p
<1> QED
  BY <1>2, <1>4, <1>8, <1>9, Recorded DEF p

LEMMA ServedDecent ==
  ASSUME TypeOK, ServerInv, PlayersInv, Serving, "HUP" \notin revents[slot],
         IsOpen(fds[slot])
  PROVE  LET fd == fds[slot]
             p == sock[fd]
         IN  /\ served \in Client
             /\ Decent(p, cl[p], conn[p], served, TRUE)
<1> DEFINE fd == fds[slot]
           p == sock[fd]
<1>1. /\ current \in Client /\ current = client_map[fd] /\ fd \in FD
  BY Current, ServingFacts
<1>2. /\ cl[p] \in ClientState /\ conn[p] \in Connection
      /\ Decent(p, cl[p], conn[p], current, TRUE)
  BY <1>1, Owned
<1>3. /\ served \in Client /\ served.read_buffer = current.read_buffer
      /\ Len(served.write_buffer) + Len(served.retarded_responses)
           = Len(current.write_buffer) + Len(current.retarded_responses)
      /\ \A x \in LinesOf(served.write_buffer) \cup LinesOf(Waiting(served)) :
           x \in LinesOf(current.write_buffer) \cup LinesOf(Waiting(current))
      /\ served.player_id = current.player_id
      /\ served.state = current.state
      /\ served.received_hello = current.received_hello
      /\ served.coeffs = current.coeffs
  BY <1>1, RetardedMoves DEF served
<1> QED
  BY <1>1, <1>2, <1>3, Readies

LEMMA KeepWaitingPlayed ==
  ASSUME TypeOK, ServerInv, PlayersInv, KeepWaiting, UNCHANGED cl
  PROVE  PlayersInv'
<1> DEFINE fd == fds[slot]
<1>1. /\ Serving /\ "HUP" \notin revents[slot] /\ ~HelloTooLate
  BY DEF KeepWaiting, Serve, Handling, ServerInv, AtSlot
<1>2. /\ served.age = current.age
      /\ served.received_hello = current.received_hello
      /\ fd \in FD
  BY <1>1, Current, RetardedMoves, ServingFacts DEF served
<1>3. IsOpen(fd)
  <2> SUFFICES ASSUME ~IsOpen(fd) PROVE FALSE
    OBVIOUS
  <2>1. current = DefaultClient
    BY <1>1, Current
  <2>2. current.age = DISCONNECT_TIMEOUT + 1 /\ ~current.received_hello
    BY <2>1 DEF DefaultClient
  <2>3. served.age > DISCONNECT_TIMEOUT
    BY <1>2, <2>2, ServerAssumption
  <2> QED
    BY <1>1, <1>2, <2>2, <2>3 DEF HelloTooLate
<1>4. Decent(sock[fd], cl[sock[fd]], conn[sock[fd]], served, TRUE)
  BY <1>1, <1>3, ServedDecent
<1>5. /\ client_map' = Assign(client_map, fd, served) /\ conn' = conn
      /\ sock' = sock
  BY DEF KeepWaiting
<1> QED
  BY <1>2, <1>3, <1>4, <1>5, Recorded

LEMMA send_messagesPlayed ==
  ASSUME TypeOK, ServerInv, PlayersInv, send_messages, UNCHANGED cl
  PROVE  PlayersInv'
<1> DEFINE fd == fds[slot]
           p == sock[fd]
           c == [served EXCEPT !.write_buffer = <<>>]
           s == conn[p].down \o served.write_buffer
           e == [conn[p] EXCEPT !.down = s]
<1>1. Serving /\ "HUP" \notin revents[slot] /\ "OUT" \in revents[slot]
  BY DEF send_messages, Serve, Handling, Sends, ServerInv, AtSlot
<1>2. IsOpen(fd) /\ fd \in FD
  BY <1>1, Current, ServingFacts
<1>3. /\ p \in Player /\ cl[p] \in ClientState /\ conn[p] \in Connection
      /\ conn[p].server = "open"
  BY <1>2, Owned
<1>4. served \in Client /\ Decent(p, cl[p], conn[p], served, TRUE)
  BY <1>1, <1>2, ServedDecent
<1>5. /\ client_map' = Assign(client_map, fd, c) /\ sock' = sock
      /\ conn' = [conn EXCEPT ![p] = e]
  BY DEF send_messages
<1>6. /\ c \in Client /\ c.write_buffer = <<>>
      /\ c.read_buffer = served.read_buffer
      /\ c.retarded_responses = served.retarded_responses
      /\ c.player_id = served.player_id
      /\ c.received_hello = served.received_hello
      /\ c.coeffs = served.coeffs /\ c.state = served.state
  <2>1. <<>> \in Seq(Reply)
    OBVIOUS
  <2> QED
    BY <1>4, <2>1 DEF Client, ClientRecord
<1>7. s \in Seq(FromServer)
  <2>1. conn[p].down \in Seq(FromServer)
    BY <1>3, ConnectionFields
  <2>2. served.write_buffer \in Seq(Reply)
    BY <1>4, ClientFields
  <2>3. served.write_buffer \in Seq(FromServer)
    BY <2>2, SeqMonotonic DEF FromServer
  <2> QED
    BY <2>1, <2>3, ConcatProperties
<1>8. /\ e \in Connection /\ e.up = conn[p].up /\ e.down = s
      /\ e.server = conn[p].server
  <2> HIDE DEF s
  <2> QED
    BY <1>3, <1>7 DEF Connection
<1>9. conn'[p] = e /\ \A q \in Player : q # p => conn'[q] = conn[q]
  BY <1>3, <1>5 DEF TypeOK
<1> HIDE DEF c, e
<1>10. Decent(p, cl[p], e, c, TRUE)
  BY <1>3, <1>4, <1>6, <1>8, IsSent
<1> HIDE DEF fd, p
<1> QED
  BY <1>2, <1>5, <1>9, <1>10, Recorded DEF p

LEMMA parse_loopPlayed ==
  ASSUME TypeOK, ServerInv, PlayersInv, parse_loop, UNCHANGED cl
  PROVE  PlayersInv'
<1> DEFINE fd == fds[slot]
           p == sock[fd]
           line == Head(current.read_buffer)
           c == [current EXCEPT !.read_buffer = Tail(@)]
           r == Handle(line, c)
<1>1. CASE Exit
  BY <1>1, ExitPlayed
<1>2. CASE ~Exit /\ ~FileExhausted
  <2>1. /\ Serving /\ IsOpen(fd) /\ fd \in FD
        /\ current = client_map[fd] /\ current.read_buffer # <<>>
        /\ c \in Client
        /\ ReadsCoeff(line, c) => next_line \in Lines
    BY <1>2, LineTaken, ServingFacts DEF parse_loop, HasLine
  <2>2. CASE ~r.valid /\ ~r.client.received_hello
    <3>1. disconnect_client(fd) /\ client_map' = Without(fd)
      BY <1>2, <2>2 DEF parse_loop
    <3> QED
      BY <2>1, <3>1, DisconnectedPlayed DEF disconnect_client, Forget
  <2>3. CASE ~(~r.valid /\ ~r.client.received_hello)
    <3>1. /\ client_map' = Assign(client_map, fd, r.client)
          /\ UNCHANGED <<sock, conn>>
      BY <1>2, <2>3 DEF parse_loop
    <3>2. /\ p \in Player /\ cl[p] \in ClientState /\ conn[p] \in Connection
          /\ conn[p].server = "open" /\ current \in Client
          /\ Decent(p, cl[p], conn[p], current, TRUE)
      BY <2>1, Owned
    <3>3. /\ c.read_buffer = Tail(current.read_buffer)
          /\ c.retarded_responses = current.retarded_responses
          /\ c.write_buffer = current.write_buffer
          /\ c.player_id = current.player_id
          /\ c.received_hello = current.received_hello
          /\ c.coeffs = current.coeffs /\ c.state = current.state
      BY <3>2 DEF Client, ClientRecord
    <3> HIDE DEF c
    <3>4. Decent(p, cl[p], conn[p], r.client, TRUE)
      BY <2>1, <3>2, <3>3, LineHandled
    <3> HIDE DEF r, fd, p
    <3> QED
      BY <2>1, <3>1, <3>4, Recorded DEF p
  <2> QED
    BY <2>2, <2>3
<1> QED
  BY <1>1, <1>2 DEF parse_loop

LEMMA NobodyTouched ==
  ASSUME PlayersInv, UNCHANGED <<sock, client_map, conn, cl>>
  PROVE  PlayersInv'
<1> SUFFICES ASSUME NEW p \in Player PROVE Played(p)'
  BY DEF PlayersInv
<1> QED
  BY Elsewhere DEF PlayersInv

LEMMA AcceptedPlayed ==
  ASSUME TypeOK, ServerInv, PlayersInv, UNCHANGED cl,
         NEW q \in Backlog, accept_connection(q)
  PROVE  PlayersInv'
<1> SUFFICES ASSUME NEW p \in Player PROVE Played(p)'
  BY DEF PlayersInv
<1> DEFINE z == [j \in Points |-> 0]
           c == [DefaultClient EXCEPT !.state = [j \in Points |-> 0],
                                      !.age = 0]
           e == [conn[q] EXCEPT !.server = "open"]
<1>1. PICK fd \in FD : /\ fd = Min({f \in FD : sock[f] = NoOne})
                       /\ sock[fd] = NoOne
  BY FreeDescriptor DEF ServerInv
<1>2. /\ client_map' = Assign(client_map, fd, c)
      /\ sock' = [sock EXCEPT ![fd] = q]
      /\ conn' = [conn EXCEPT ![q] = e]
  BY <1>1 DEF accept_connection
<1>3. /\ q \in Player /\ conn[q].server = "queued" /\ conn[q] \in Connection
      /\ cl[q] \in ClientState /\ sock \in [FD -> Player \cup {NoOne}]
      /\ conn \in [Player -> Connection]
  BY DEF Backlog, TypeOK
\* Nobody who waits to be accepted has a descriptor.
<1>4. \A f \in FD : sock[f] # q
  BY <1>3, ProtocolAssumption DEF ServerInv, Sockets, IsOpen
<1>5. CASE p = q
  <2>1. Decent(q, cl[q], conn[q], DefaultClient, FALSE)
    BY <1>3, <1>4 DEF PlayersInv, Played
  <2>2. c \in Client
    <3>1. z \in {<<>>} \cup [Points -> Int] /\ 0 \in Int
      OBVIOUS
    <3>2. c = [DefaultClient EXCEPT !.state = z, !.age = 0]
      OBVIOUS
    <3> HIDE DEF z, c
    <3> QED
      BY <3>1, <3>2, DefaultIsClient DEF Client, ClientRecord
  <2>3. e \in Connection
    BY <1>3 DEF Connection
  <2>4. Decent(q, cl[q], e, c, TRUE)
    BY <1>3, <2>1, <2>2, <2>3, IsAccepted
  <2> HIDE DEF c, e
  <2>5. client_map'[fd] = c /\ conn'[q] = e
    BY <1>2, <1>3 DEF Assign
  <2>6. \A f \in FD : sock'[f] = q <=> f = fd
    BY <1>1, <1>2, <1>3, <1>4
  <2> QED
    BY <1>1, <1>5, <2>4, <2>5, <2>6 DEF Played
<1>6. CASE p # q
  <2>1. p # NoOne
    BY ProtocolAssumption
  <2>2. \A f \in FD : sock'[f] = p <=> sock[f] = p
    BY <1>1, <1>2, <1>3, <1>6, <2>1
  <2>3. conn'[p] = conn[p] /\ cl'[p] = cl[p]
    BY <1>2, <1>3, <1>6
  <2>4. ASSUME NEW f \in FD, sock[f] = p
        PROVE  client_map'[f] = client_map[f]
    <3>1. f \in DOMAIN client_map /\ f # fd
      BY <1>1, <2>1, <2>4 DEF ServerInv, Sockets, IsOpen
    <3> HIDE DEF c
    <3> QED
      BY <1>2, <3>1 DEF Assign
  <2> HIDE DEF c, e
  <2> QED
    BY <2>2, <2>3, <2>4, Elsewhere DEF PlayersInv
<1> QED
  BY <1>5, <1>6

LEMMA PollPlayed ==
  ASSUME TypeOK, ServerInv, PlayersInv, Poll, UNCHANGED cl
  PROVE  PlayersInv'
BY AcceptedPlayed, NobodyTouched DEF Poll, table

LEMMA end_gamePlayed ==
  ASSUME TypeOK, ServerInv, PlayersInv, end_game, UNCHANGED cl
  PROVE  PlayersInv'
<1>1. CASE Exit
  BY <1>1, ExitPlayed
<1>2. CASE ~Exit
  <2> DEFINE x == build_scoring(Scoring)
  <2>1. /\ \A fd \in Taken : ClientAt(fd).state # <<>>
        /\ conn' = [p \in Player |->
             IF \E fd \in Taken : sock[fd] = p
             THEN CloseServer([conn[p] EXCEPT !.down = Append(@, x)])
             ELSE conn[p]]
        /\ client_map' = Restrict(client_map, DOMAIN client_map \ Taken)
        /\ sock' = [fd \in FD |-> IF fd \in Taken THEN NoOne ELSE sock[fd]]
    BY <1>2 DEF end_game
  <2>2. x \in FromServer /\ x.type = "SCORING"
    BY <2>1, ScoringType DEF build_scoring
  <2>3. Taken \subseteq FD
    BY SeqElements DEF TypeOK, Taken
  <2> HIDE DEF x
  <2> SUFFICES ASSUME NEW p \in Player PROVE Played(p)'
    BY DEF PlayersInv
  <2>4. p # NoOne /\ cl'[p] = cl[p]
    BY ProtocolAssumption
  <2>5. CASE \E fd \in Taken : sock[fd] = p
    <3>1. PICK fd \in Taken : sock[fd] = p
      BY <2>5
    <3>2. fd \in FD /\ IsOpen(fd)
      BY <2>3, <2>4, <3>1 DEF IsOpen
    <3>3. /\ conn[p].server = "open" /\ client_map[fd] \in Client
          /\ cl[p] \in ClientState /\ conn[p] \in Connection
          /\ Decent(p, cl[p], conn[p], client_map[fd], TRUE)
          /\ \A f \in FD : sock[f] = p => f = fd
      BY <3>1, <3>2, Owned
    <3> DEFINE c2 == CloseServer([conn[p] EXCEPT !.down = Append(@, x)])
    <3>4. conn'[p] = c2 /\ c2 \in Connection
      <4>1. Append(conn[p].down, x) \in Seq(FromServer)
        BY <2>2, <3>3, ConnectionFields, LinesOfAppend
      <4>2. [conn[p] EXCEPT !.down = Append(@, x)] \in Connection
        BY <3>3, <4>1 DEF Connection
      <4> QED
        BY <2>1, <2>5, <4>2, CloseTypes
    <3>5. Decent(p, cl[p], c2, DefaultClient, FALSE)
      BY <2>2, <3>3, <3>4, IsScored
    <3>6. \A f \in FD : sock'[f] # p
      BY <2>1, <2>4, <3>1, <3>3
    <3> HIDE DEF c2
    <3> QED
      BY <2>4, <3>4, <3>5, <3>6 DEF Played
  <2>6. CASE \A fd \in Taken : sock[fd] # p
    <3>1. conn'[p] = conn[p]
      BY <2>1, <2>6
    <3>2. \A f \in FD : sock'[f] = p <=> sock[f] = p
      BY <2>1, <2>4, <2>6
    <3>3. ASSUME NEW f \in FD, sock[f] = p
          PROVE  client_map'[f] = client_map[f]
      <4>1. f \in DOMAIN client_map \ Taken
        BY <2>4, <2>6, <3>3 DEF ServerInv, Sockets, IsOpen
      <4> QED
        BY <2>1, <4>1 DEF Restrict
    <3> QED
      BY <2>4, <3>1, <3>2, <3>3, Elsewhere DEF PlayersInv
  <2> QED
    BY <2>5, <2>6
<1> QED
  BY <1>1, <1>2

LEMMA TickPlayed ==
  ASSUME TypeOK, ServerInv, PlayersInv, Tick, UNCHANGED cl
  PROVE  PlayersInv'
<1> SUFFICES ASSUME NEW p \in Player PROVE Played(p)'
  BY DEF PlayersInv
<1>1. /\ client_map' = [fd \in DOMAIN client_map |-> Older(client_map[fd])]
      /\ UNCHANGED <<sock, conn>>
  BY DEF Tick
<1>2. ASSUME NEW fd \in FD, sock[fd] = p
      PROVE  Decent(p, cl[p], conn[p], client_map'[fd], TRUE)
  <2> DEFINE c == client_map[fd]
             d == Older(c)
  <2>1. IsOpen(fd)
    BY <1>2, ProtocolAssumption DEF IsOpen
  <2>2. /\ c \in Client /\ cl[p] \in ClientState /\ conn[p] \in Connection
        /\ fd \in DOMAIN client_map
        /\ Decent(p, cl[p], conn[p], c, TRUE)
    BY <1>2, <2>1, Owned
  <2>3. client_map'[fd] = d
    BY <1>1, <2>2
  <2> HIDE DEF c
  <2>4. /\ d \in Client /\ d.write_buffer = c.write_buffer
        /\ d.read_buffer = c.read_buffer
        /\ d.state = c.state /\ d.coeffs = c.coeffs
        /\ d.player_id = c.player_id
        /\ d.received_hello = c.received_hello
        /\ Len(d.retarded_responses) = Len(c.retarded_responses)
        /\ Waiting(d) = Waiting(c)
    BY <2>2, OlderType
  <2> HIDE DEF d
  <2>5. /\ Len(d.write_buffer) + Len(d.retarded_responses)
             = Len(c.write_buffer) + Len(c.retarded_responses)
        /\ \A x \in LinesOf(d.write_buffer) \cup LinesOf(Waiting(d)) :
             x \in LinesOf(c.write_buffer) \cup LinesOf(Waiting(c))
    BY <2>4
  <2>6. Decent(p, cl[p], conn[p], d, TRUE)
    BY <2>2, <2>4, <2>5, Readies
  <2> QED
    BY <2>3, <2>6
<1> QED
  BY <1>1, <1>2 DEF Played, PlayersInv

LEMMA ServerPlayed ==
  ASSUME TypeOK, ServerInv, PlayersInv, ServerStep, UNCHANGED cl
  PROVE  PlayersInv'
<1>1. CASE Poll
  BY <1>1, PollPlayed
<1>2. CASE HangUp
  BY <1>2, DisconnectedPlayed DEF HangUp, disconnect_client, Forget
<1>3. CASE receive_messages
  BY <1>3, receive_messagesPlayed
<1>4. CASE ReceiveFails
  BY <1>4, DisconnectedPlayed
     DEF ReceiveFails, Reading, disconnect_client, Forget
<1>5. CASE parse_loop
  BY <1>5, parse_loopPlayed
<1>6. CASE DropSilent
  BY <1>6, DisconnectedPlayed
     DEF DropSilent, Serve, Handling, disconnect_client, Forget
<1>7. CASE KeepWaiting
  BY <1>7, KeepWaitingPlayed
<1>8. CASE send_messages
  BY <1>8, send_messagesPlayed
<1>9. CASE SendFails
  <2>1. CASE Exit
    BY <2>1, ExitPlayed
  <2>2. CASE ~Exit
    BY <1>9, <2>2, DisconnectedPlayed DEF SendFails, Serve, Handling, Forget
  <2> QED
    BY <2>1, <2>2
<1>10. CASE NextTurn
  BY <1>10, NobodyTouched DEF NextTurn, table
<1>11. CASE end_game
  BY <1>11, end_gamePlayed
<1>12. CASE KeepMadeUp
  BY <1>12, NobodyTouched DEF KeepMadeUp, table
<1> QED
  BY <1>1, <1>2, <1>3, <1>4, <1>5, <1>6, <1>7, <1>8, <1>9, <1>10, <1>11,
     <1>12 DEF ServerStep

-----------------------------------------------------------------------------
(* The steps of the players keep the players                               *)

\* The state of player p becomes l and its connection c.
LEMMA PlayerPlayed ==
  ASSUME TypeOK, ServerInv, PlayersInv, UNCHANGED serverVars,
         NEW p \in Player, NEW l, NEW c,
         cl'[p] = l, conn'[p] = c,
         \A q \in Player : q # p => cl'[q] = cl[q] /\ conn'[q] = conn[q],
         \A r \in Client : \A o \in BOOLEAN :
           Decent(p, cl[p], conn[p], r, o) /\ (o => conn[p].server = "open")
             => Decent(p, l, c, r, o)
  PROVE  PlayersInv'
<1> SUFFICES ASSUME NEW q \in Player PROVE Played(q)'
  BY DEF PlayersInv
<1>1. sock' = sock /\ client_map' = client_map
  BY DEF serverVars, table
<1>2. CASE q = p
  <2>2. (\A fd \in FD : sock[fd] # p) => Decent(p, l, c, DefaultClient, FALSE)
    BY DefaultIsClient DEF PlayersInv, Played
  <2>3. ASSUME NEW fd \in FD, sock[fd] = p
        PROVE  Decent(p, l, c, client_map[fd], TRUE)
    <3>1. IsOpen(fd)
      BY <2>3, ProtocolAssumption DEF IsOpen
    <3>2. /\ conn[p].server = "open" /\ client_map[fd] \in Client
          /\ Decent(p, cl[p], conn[p], client_map[fd], TRUE)
      BY <2>3, <3>1, Owned
    <3> QED
      BY <3>2
  <2> QED
    BY <1>1, <1>2, <2>2, <2>3 DEF Played
<1>3. CASE q # p
  <2>1. cl'[q] = cl[q] /\ conn'[q] = conn[q]
    BY <1>3
  <2> QED
    BY <1>1, <2>1, Elsewhere DEF PlayersInv
<1> QED
  BY <1>2, <1>3

\* The player closes its end, and the lines for it are lost.
LEMMA LosesClient ==
  ASSUME NEW p, NEW l \in ClientState, NEW c \in Connection,
         NEW r \in Client, NEW o \in BOOLEAN, Decent(p, l, c, r, o),
         o => c.server = "open"
  PROVE  Decent(p, l, CloseClient(c), r, o)
<1> DEFINE c2 == CloseClient(c)
<1>1. c2 \in Connection /\ c2.server = c.server
  BY CloseTypes
<1>2. /\ c2.up \in {c.up, <<>>} /\ c2.down \in {c.down, <<>>}
      /\ c.server # "closed" => c2.up = c.up /\ c2.down = c.down
  BY DEF CloseClient, Unconnected, Connection
<1> HIDE DEF c2
<1>3. Decent(p, l, c2, r, o)
  <2>1. o => c2.up = c.up
    BY <1>2
  <2>2. c2.server \in {"none", "queued"} =>
          c.server \in {"none", "queued"} /\ c2.down = c.down
    BY <1>1, <1>2
  <2> QED
    BY <1>1, <1>2, <2>1, <2>2, Loses
<1> QED
  BY <1>3 DEF c2

\* A player that ends is still a decent one.
LEMMA StopsRunning ==
  ASSUME NEW p, NEW l \in ClientState, NEW c \in Connection,
         NEW r \in Client, NEW o \in BOOLEAN, Decent(p, l, c, r, o)
  PROVE  LET l2 == [l EXCEPT !.running = FALSE]
         IN  l2 \in ClientState /\ Decent(p, l2, c, r, o)
<1> DEFINE l2 == [l EXCEPT !.running = FALSE]
<1>1. /\ l2 \in ClientState
      /\ l2.mode = l.mode /\ l2.write_buffer = l.write_buffer
      /\ l2.read_buffer = l.read_buffer /\ l2.coeff_buffer = l.coeff_buffer
      /\ l2.received_coeff = l.received_coeff /\ l2.coeffs = l.coeffs
      /\ l2.put_eligible = l.put_eligible /\ l2.sent = l.sent
  BY DEF ClientState
<1> HIDE DEF l2
<1>2. Decent(p, l2, c, r, o)
  BY <1>1, Loses
<1> QED
  BY <1>1, <1>2 DEF l2

LEMMA LeavePlayed ==
  ASSUME TypeOK, ServerInv, PlayersInv, UNCHANGED serverVars,
         NEW p \in Player, Leave(p)
  PROVE  PlayersInv'
<1> DEFINE l == [cl[p] EXCEPT !.running = FALSE]
           c == CloseClient(conn[p])
<1>1. /\ cl'[p] = l /\ conn'[p] = c
      /\ \A q \in Player : q # p => cl'[q] = cl[q] /\ conn'[q] = conn[q]
  BY DEF Leave, TypeOK
<1>2. cl[p] \in ClientState /\ conn[p] \in Connection
  BY DEF TypeOK
<1>3. ASSUME NEW r \in Client, NEW o \in BOOLEAN,
             Decent(p, cl[p], conn[p], r, o), o => conn[p].server = "open"
      PROVE  Decent(p, l, c, r, o)
  <2>1. l \in ClientState /\ Decent(p, l, conn[p], r, o)
    BY <1>2, <1>3, StopsRunning
  <2> HIDE DEF l
  <2> QED
    BY <1>2, <1>3, <2>1, LosesClient
<1> HIDE DEF l, c
<1> QED
  BY <1>1, <1>3, PlayerPlayed

LEMMA ConnectPlayed ==
  ASSUME TypeOK, ServerInv, PlayersInv, UNCHANGED serverVars,
         NEW p \in Player, Connect(p)
  PROVE  PlayersInv'
<1>1. cl[p] \in ClientState /\ conn[p] \in Connection
  BY DEF TypeOK
<1>2. CASE conn[p].server = "closed"
  <2> DEFINE l == [cl[p] EXCEPT !.running = FALSE]
  <2>1. /\ cl'[p] = l /\ conn'[p] = conn[p]
        /\ \A q \in Player : q # p => cl'[q] = cl[q] /\ conn'[q] = conn[q]
    BY <1>2 DEF Connect, TypeOK
  <2>2. ASSUME NEW r \in Client, NEW o \in BOOLEAN,
               Decent(p, cl[p], conn[p], r, o)
        PROVE  Decent(p, l, conn[p], r, o)
    BY <1>1, <2>2, StopsRunning
  <2> HIDE DEF l
  <2> QED
    BY <2>1, <2>2, PlayerPlayed
<1>3. CASE conn[p].server # "closed"
  <2> DEFINE c == [conn[p] EXCEPT !.client = "open", !.server = "queued"]
  <2>1. /\ cl'[p] = cl[p] /\ conn'[p] = c
        /\ \A q \in Player : q # p => cl'[q] = cl[q] /\ conn'[q] = conn[q]
    BY <1>3 DEF Connect, TypeOK
  <2>2. conn[p].server = "none"
    BY <1>3 DEF Connect, ServerInv, Sockets
  <2>3. /\ c \in Connection /\ c.up = conn[p].up /\ c.down = conn[p].down
        /\ c.server = "queued"
    BY <1>1 DEF Connection
  <2> HIDE DEF c
  <2>4. ASSUME NEW r \in Client, NEW o \in BOOLEAN,
               Decent(p, cl[p], conn[p], r, o)
        PROVE  Decent(p, cl[p], c, r, o)
    BY <1>1, <2>2, <2>3, <2>4, Loses
  <2> QED
    BY <2>1, <2>4, PlayerPlayed
<1> QED
  BY <1>2, <1>3

LEMMA SayPlayed ==
  ASSUME TypeOK, ServerInv, PlayersInv, UNCHANGED serverVars,
         NEW p \in Player, Say(p)
  PROVE  PlayersInv'
<1>1. PICK line \in OtherLines(p) :
        conn' = [conn EXCEPT ![p].up = Append(@, line), ![p].down = <<>>]
  BY DEF Say
<1> DEFINE l == [cl[p] EXCEPT !.lines = @ + 1]
           u == Append(conn[p].up, line)
           c == [conn[p] EXCEPT !.up = u, !.down = <<>>]
<1>2. /\ cl'[p] = l /\ conn'[p] = c
      /\ \A q \in Player : q # p => cl'[q] = cl[q] /\ conn'[q] = conn[q]
  BY <1>1 DEF Say, TypeOK
<1>3. cl[p] \in ClientState /\ conn[p] \in Connection
  BY DEF TypeOK
<1>4. line \in ToServer /\ (line.type = "HELLO" => line.id = p)
  <2>1. CASE line \in Typed
    BY <2>1, TypedLines
  <2>2. CASE line = build_hello(p)
    BY <2>2, TypedLines DEF build_hello
  <2>3. /\ Line("PUT", FALSE).type # "HELLO"
        /\ Line("STATE", FALSE).type # "HELLO"
    BY DEF Line
  <2> QED
    BY <2>1, <2>2, <2>3, TypedLines DEF OtherLines
<1>5. LinesOf(u) = LinesOf(conn[p].up) \cup {line}
  BY <1>3, <1>4, ConnectionFields, LinesOfAppend
<1> HIDE DEF u
<1>6. /\ c.up = u /\ l.mode = "OTHER"
      /\ l.write_buffer = cl[p].write_buffer
      /\ l.coeff_buffer = cl[p].coeff_buffer
  BY <1>3 DEF Say, Connection, ClientState
<1> HIDE DEF l, c
<1>7. ASSUME NEW r \in Client, NEW o \in BOOLEAN,
             Decent(p, cl[p], conn[p], r, o)
      PROVE  Decent(p, l, c, r, o)
  BY <1>4, <1>5, <1>6, <1>7 DEF Decent, Honest, Upstream, Automatic
<1> QED
  BY <1>2, <1>7, PlayerPlayed

LEMMA ResetPlayed ==
  ASSUME TypeOK, ServerInv, PlayersInv, UNCHANGED <<serverVars, cl>>,
         NEW p \in Player, Reset(p)
  PROVE  PlayersInv'
<1> DEFINE c == [conn[p] EXCEPT !.reset = TRUE]
<1>1. /\ cl'[p] = cl[p] /\ conn'[p] = c
      /\ \A q \in Player : q # p => cl'[q] = cl[q] /\ conn'[q] = conn[q]
  BY DEF Reset, TypeOK
<1>2. cl[p] \in ClientState /\ conn[p] \in Connection
  BY DEF TypeOK
<1>3. /\ c \in Connection /\ c.up = conn[p].up /\ c.down = conn[p].down
      /\ c.server = conn[p].server
  BY <1>2 DEF Connection
<1> HIDE DEF c
<1>4. ASSUME NEW r \in Client, NEW o \in BOOLEAN,
             Decent(p, cl[p], conn[p], r, o)
      PROVE  Decent(p, cl[p], c, r, o)
  BY <1>2, <1>3, <1>4, Loses
<1> QED
  BY <1>1, <1>4, PlayerPlayed

\* A turn: send, parse_loop, the mode's own part, recv.
LEMMA TurnDecent ==
  ASSUME TypeOK, NEW p \in Player, NEW moved \in Moves(Parsed(p)),
         NEW r \in Client, NEW o \in BOOLEAN,
         Decent(p, cl[p], conn[p], r, o)
  PROVE  Decent(p, received(p, moved), After(p), r, o)
<1> DEFINE l1 == [cl[p] EXCEPT !.write_buffer = <<>>]
           c1 == [conn[p] EXCEPT !.up = @ \o cl[p].write_buffer]
<1>1. cl[p] \in ClientState /\ conn[p] \in Connection
  BY DEF TypeOK
<1>2. l1 \in ClientState /\ c1 \in Connection /\ Decent(p, l1, c1, r, o)
  <2> DEFINE u == conn[p].up \o cl[p].write_buffer
  <2>1. u \in Seq(ToServer) /\ <<>> \in Seq(ToServer)
    BY <1>1, ConnectionFields, PlayerFields, ConcatProperties
  <2>2. c1 = [conn[p] EXCEPT !.up = u]
    OBVIOUS
  <2> HIDE DEF u, c1
  <2>3. /\ l1 \in ClientState /\ l1.write_buffer = <<>>
        /\ l1.mode = cl[p].mode /\ l1.coeffs = cl[p].coeffs
        /\ l1.received_coeff = cl[p].received_coeff
        /\ l1.sent = cl[p].sent /\ l1.put_eligible = cl[p].put_eligible
        /\ l1.coeff_buffer = cl[p].coeff_buffer
        /\ l1.read_buffer = cl[p].read_buffer
    BY <1>1, <2>1 DEF ClientState
  <2>4. /\ c1 \in Connection /\ c1.up = u /\ c1.down = conn[p].down
        /\ c1.server = conn[p].server
    BY <1>1, <2>1, <2>2 DEF Connection
  <2> HIDE DEF l1
  <2>5. c1.up = conn[p].up \o cl[p].write_buffer
    BY <2>4 DEF u
  <2> QED
    BY <1>1, <2>3, <2>4, <2>5, SendsOn
<1>3. l1.read_buffer = cl[p].read_buffer
  BY <1>1 DEF ClientState
<1>4. Idle(p) = [l1 EXCEPT !.read_buffer = <<>>]
  BY <1>1 DEF Idle, ClientState
<1>5. /\ c1.up = conn[p].up \o cl[p].write_buffer /\ c1.down = conn[p].down
      /\ c1.server = conn[p].server
  BY <1>1 DEF Connection
<1> HIDE DEF l1, c1
<1>6. Decent(p, Parsed(p), c1, r, o)
  <2>1. CASE cl[p].read_buffer = <<>>
    <3>1. Parsed(p) = Idle(p)
      BY <2>1, ParsedType
    <3>2. Idle(p) = l1
      BY <1>2, <1>3, <1>4, <2>1 DEF ClientState
    <3> QED
      BY <1>2, <3>1, <3>2
  <2>2. CASE cl[p].read_buffer # <<>>
    <3>1. /\ Len(cl[p].read_buffer) = 1
          /\ Parsed(p) = handle_message(Idle(p), cl[p].read_buffer[1])
      BY <2>2, ParsedType
    <3> QED
      BY <1>2, <1>3, <1>4, <3>1, Hears
  <2> QED
    BY <2>1, <2>2
<1>7. /\ moved \in ClientState /\ moved.read_buffer = <<>>
      /\ Decent(p, moved, c1, r, o)
  BY <1>2, <1>6, ParsedType, MovesType, MovesOn
<1>8. CASE conn[p].down # <<>>
  <2> DEFINE x == Head(conn[p].down)
             l2 == received(p, moved)
  <2>1. x \in FromServer
    BY <1>1, <1>8, ConnectionFields, LinesOfTail
  <2>2. l2 = [moved EXCEPT !.read_buffer = <<x>>]
    <3>1. Append(moved.read_buffer, x) = <<x>>
      BY <1>7
    <3> QED
      BY <1>8, <3>1 DEF received
  <2> HIDE DEF l2, x
  <2>3. /\ l2 \in ClientState /\ l2.read_buffer = <<x>>
        /\ l2.mode = moved.mode /\ l2.coeffs = moved.coeffs
        /\ l2.received_coeff = moved.received_coeff
        /\ l2.sent = moved.sent /\ l2.put_eligible = moved.put_eligible
        /\ l2.coeff_buffer = moved.coeff_buffer
        /\ l2.write_buffer = moved.write_buffer
    <3>1. <<x>> \in Seq(FromServer)
      BY <2>1
    <3> QED
      BY <1>7, <2>2, <3>1 DEF ClientState
  <2>4. /\ After(p) \in Connection /\ After(p).down = Tail(c1.down)
        /\ After(p).up = c1.up /\ After(p).server = c1.server
    BY <1>5, <1>8, AfterType
  <2>5. c1.down # <<>> /\ x = Head(c1.down)
    BY <1>5, <1>8 DEF x
  <2>6. Decent(p, l2, After(p), r, o)
    BY <1>2, <1>7, <2>3, <2>4, <2>5, Receives
  <2> QED
    BY <2>6 DEF l2
<1>9. CASE conn[p].down = <<>>
  <2>1. /\ After(p) \in Connection /\ After(p).up = c1.up
        /\ After(p).down = c1.down /\ After(p).server = c1.server
    BY <1>5, <1>9, AfterType
  <2>2. Decent(p, moved, After(p), r, o)
    BY <1>2, <1>7, <2>1, Loses
  <2>3. received(p, moved) \in {moved, [moved EXCEPT !.running = FALSE]}
    BY <1>9 DEF received
  <2>4. Decent(p, [moved EXCEPT !.running = FALSE], After(p), r, o)
    BY <1>7, <2>1, <2>2, StopsRunning
  <2> QED
    BY <2>2, <2>3, <2>4
<1> QED
  BY <1>8, <1>9

LEMMA TurnPlayed ==
  ASSUME TypeOK, ServerInv, PlayersInv, UNCHANGED serverVars,
         NEW p \in Player, Turn(p)
  PROVE  PlayersInv'
<1>1. PICK moved \in Moves(Parsed(p)) :
        /\ cl' = [cl EXCEPT ![p] = received(p, moved)]
        /\ conn' = [conn EXCEPT ![p] = IF received(p, moved).running
                                      THEN After(p)
                                      ELSE CloseClient(After(p))]
  BY TurnIs
<1> DEFINE l == received(p, moved)
           c == IF l.running THEN After(p) ELSE CloseClient(After(p))
<1>2. l \in ClientState
  BY ParsedType, MovesType, receivedType
<1>3. /\ After(p) \in Connection /\ After(p).server = conn[p].server
  BY AfterType
<1>4. ASSUME NEW r \in Client, NEW o \in BOOLEAN,
             Decent(p, cl[p], conn[p], r, o), o => conn[p].server = "open"
      PROVE  Decent(p, l, c, r, o)
  <2>1. Decent(p, l, After(p), r, o)
    BY <1>4, TurnDecent
  <2> HIDE DEF l
  <2>2. Decent(p, l, CloseClient(After(p)), r, o)
    BY <1>2, <1>3, <1>4, <2>1, LosesClient
  <2> QED
    BY <2>1, <2>2
<1>5. /\ cl'[p] = l /\ conn'[p] = c
      /\ \A q \in Player : q # p => cl'[q] = cl[q] /\ conn'[q] = conn[q]
  BY <1>1 DEF TypeOK
<1> HIDE DEF l, c
<1> QED
  BY <1>4, <1>5, PlayerPlayed

-----------------------------------------------------------------------------
(* The invariant of the players, and what it says                          *)

LEMMA InitPlayed ==
  ASSUME Init
  PROVE  PlayersInv
<1> SUFFICES ASSUME NEW p \in Player PROVE Played(p)
  BY DEF PlayersInv
<1> DEFINE l == cl[p]
           c == conn[p]
           r == DefaultClient
<1>1. /\ c = Unconnected /\ \A fd \in FD : sock[fd] # p
  BY ProtocolAssumption DEF Init, Init_server
<1>2. /\ l.write_buffer = <<build_hello(p)>> /\ l.read_buffer = <<>>
      /\ l.coeff_buffer = <<>> /\ ~l.received_coeff /\ ~l.put_eligible
      /\ l.sent = 0
  BY DEF Init, Init_client, NewPlayer
<1>3. c.up = <<>> /\ c.down = <<>> /\ c.server = "none"
  BY <1>1 DEF Unconnected
<1>4. /\ r.read_buffer = <<>> /\ r.write_buffer = <<>>
      /\ r.retarded_responses = <<>> /\ r.player_id = NoOne
  BY DefaultIsClient DEF Blank
<1> HIDE DEF l, c, r
<1>5. Len(<<>>) = 0 /\ LinesOf(<<>>) = {} /\ Answers(<<>>) = 0
  BY LinesOfEmpty DEF Answers
<1>6. Len(l.write_buffer) = 1 /\ LinesOf(l.write_buffer) = {build_hello(p)}
  BY <1>2 DEF LinesOf
<1>7. Upstream(l, c, r) = {build_hello(p)} /\ LinesOf(l.coeff_buffer) = {}
  BY <1>2, <1>3, <1>4, <1>5, <1>6 DEF Upstream
<1>8. LinesOf(Waiting(r)) = {}
  BY <1>4 DEF Waiting, LinesOf
<1>9. Downstream(l, c, r) = {}
  BY <1>2, <1>3, <1>4, <1>5, <1>8 DEF Downstream
<1>10. Turns(l, c, r) = 1
  <2>1. UnderWay(l, c, r) = 1
    BY <1>3, <1>4, <1>5, <1>6 DEF UnderWay
  <2>2. Token(l) = 0
    BY <1>2 DEF Token
  <2> QED
    BY <1>2, <1>3, <1>4, <1>5, <2>1, <2>2 DEF Turns
<1>11. Honest(p, l, c, r)
  BY <1>4, <1>7 DEF Honest, build_hello
<1>12. Courteous(p, l, c, r, FALSE)
  BY <1>2, <1>3, <1>5, <1>7, <1>9, <1>10 DEF Courteous, Said
<1>13. Decent(p, l, c, r, FALSE)
  BY <1>11, <1>12 DEF Decent
<1> QED
  BY <1>1, <1>13 DEF Played, l, c, r

LEMMA StepPlayed ==
  ASSUME TypeOK, ServerInv, PlayersInv, [Next]_vars
  PROVE  PlayersInv'
<1>1. ASSUME ServerStep, UNCHANGED cl
      PROVE  PlayersInv'
  BY <1>1, ServerPlayed
<1>2. ASSUME Stop, UNCHANGED cl
      PROVE  PlayersInv'
  BY <1>2, ExitPlayed DEF Stop
<1>3. ASSUME Tick, UNCHANGED cl
      PROVE  PlayersInv'
  BY <1>3, TickPlayed
<1>4. ASSUME NEW p \in Player, PlayerStep(p), UNCHANGED serverVars
      PROVE  PlayersInv'
  BY <1>4, ConnectPlayed, TurnPlayed, LeavePlayed DEF PlayerStep, HungUp
<1>5. ASSUME NEW p \in Player, Say(p), UNCHANGED serverVars
      PROVE  PlayersInv'
  BY <1>5, SayPlayed
<1>6. ASSUME NEW p \in Player, Quit(p), UNCHANGED serverVars
      PROVE  PlayersInv'
  BY <1>6, LeavePlayed DEF Quit
<1>7. ASSUME NEW p \in Player, Reset(p), UNCHANGED <<serverVars, cl>>
      PROVE  PlayersInv'
  BY <1>7, ResetPlayed
<1>8. ASSUME UNCHANGED vars
      PROVE  PlayersInv'
  BY <1>8, NobodyTouched DEF vars, serverVars, table
<1> QED
  BY <1>1, <1>2, <1>3, <1>4, <1>5, <1>6, <1>7, <1>8 DEF Next

LEMMA PlayersInvariant == Spec => [](TypeOK /\ ServerInv /\ PlayersInv)
<1>1. Init => TypeOK /\ ServerInv /\ PlayersInv
  BY InitInv, InitPlayed
<1>2. TypeOK /\ ServerInv /\ PlayersInv /\ [Next]_vars
        => (TypeOK /\ ServerInv /\ PlayersInv)'
  BY StepKeeps, StepPlayed
<1> QED
  BY <1>1, <1>2, PTL DEF Spec

\* A player has one record, the one behind its descriptor.
LEMMA RecordOf ==
  ASSUME TypeOK, ServerInv, PlayersInv, NEW p \in Player, NEW c \in Records(p)
  PROVE  /\ c \in Client /\ cl[p] \in ClientState /\ conn[p] \in Connection
         /\ Decent(p, cl[p], conn[p], c, TRUE) /\ Records(p) = {c}
<1>1. p # NoOne
  BY ProtocolAssumption
<1>2. ASSUME NEW f \in DOMAIN client_map, client_map[f].player_id = p
      PROVE  f \in FD /\ sock[f] = p /\ IsOpen(f)
  <2>1. f \in FD
    BY <1>1, <1>2, DefaultIsClient DEF TypeOK, ServerInv, Sockets
  <2>2. IsOpen(f)
    BY <2>1 DEF ServerInv, Sockets
  <2>3. Decent(sock[f], cl[sock[f]], conn[sock[f]], client_map[f], TRUE)
    BY <2>1, <2>2, Owned
  <2> QED
    BY <1>1, <1>2, <2>1, <2>2, <2>3 DEF Decent, Honest
<1>3. PICK fd \in DOMAIN client_map :
        client_map[fd].player_id = p /\ c = client_map[fd]
  BY DEF Records
<1>4. fd \in FD /\ sock[fd] = p /\ IsOpen(fd)
  BY <1>2, <1>3
<1>5. /\ c \in Client /\ cl[p] \in ClientState /\ conn[p] \in Connection
      /\ Decent(p, cl[p], conn[p], c, TRUE)
      /\ \A f \in FD : sock[f] = p => f = fd
  BY <1>3, <1>4, Owned
<1>6. Records(p) = {c}
  BY <1>2, <1>3, <1>5 DEF Records
<1> QED
  BY <1>5, <1>6

\* A player is decent with its record, or else without one.
LEMMA PlayerDecent ==
  ASSUME TypeOK, ServerInv, PlayersInv, NEW p \in Player
  PROVE  \E r \in Client : \E o \in BOOLEAN :
           Decent(p, cl[p], conn[p], r, o)
<1>1. CASE \A fd \in FD : sock[fd] # p
  BY <1>1, DefaultIsClient DEF PlayersInv, Played
<1>2. CASE \E fd \in FD : sock[fd] = p
  <2>1. PICK fd \in FD : sock[fd] = p
    BY <1>2
  <2>2. IsOpen(fd)
    BY <2>1, ProtocolAssumption DEF IsOpen
  <2> QED
    BY <2>1, <2>2, Owned
<1> QED
  BY <1>1, <1>2

\* An automatic player waits for the answer to each of its PUTs, so none of
\* them is early (approx-server.cpp:411-425) and no PENALTY is ever on its
\* way to it, whatever resets, disconnections and other players do and
\* however late the answers are.
THEOREM AutomaticsWait == Spec => []AutomaticNeverPenalised
<1>1. TypeOK /\ ServerInv /\ PlayersInv => AutomaticNeverPenalised
  <2> SUFFICES ASSUME TypeOK, ServerInv, PlayersInv, NEW p \in Player,
                      Automatic(cl[p]), NEW line \in ToPlayer(p)
               PROVE  line.type # "PENALTY"
    BY DEF AutomaticNeverPenalised
  <2>1. CASE line \in LinesOf(conn[p].down) \cup LinesOf(cl[p].read_buffer)
    <3>1. PICK r \in Client, o \in BOOLEAN :
            Decent(p, cl[p], conn[p], r, o)
      BY PlayerDecent
    <3> QED
      BY <2>1, <3>1 DEF Decent, Courteous, Downstream, Told
  <2>2. ASSUME NEW c \in Records(p),
               line \in LinesOf(c.write_buffer) \cup LinesOf(Waiting(c))
        PROVE  line.type # "PENALTY"
    <3>1. Decent(p, cl[p], conn[p], c, TRUE)
      BY RecordOf
    <3> QED
      BY <2>2, <3>1 DEF Decent, Courteous, Downstream, Told
  <2> QED
    BY <2>1, <2>2 DEF ToPlayer
<1> QED
  BY <1>1, PlayersInvariant, PTL

LEMMA PutsAmong ==
  ASSUME NEW s \in Seq(ToServer)
  PROVE  LET n == Cardinality({i \in DOMAIN s : s[i].type = "PUT"})
         IN  /\ n \in Nat
             /\ (\A line \in LinesOf(s) : line.type = "PUT") => n = Len(s)
<1> DEFINE D == {i \in DOMAIN s : s[i].type = "PUT"}
<1>1. DOMAIN s = 1..Len(s) /\ Len(s) \in Nat
  BY SeqElements
<1>2. IsFiniteSet(1..Len(s)) /\ Cardinality(1..Len(s)) = Len(s)
  BY <1>1, FS_Interval
<1>3. Cardinality(D) \in Nat
  <2>1. D \subseteq 1..Len(s)
    BY <1>1
  <2> HIDE DEF D
  <2> QED
    BY <1>2, <2>1, FS_Subset, FS_CardinalityType
<1>4. (\A line \in LinesOf(s) : line.type = "PUT") => D = 1..Len(s)
  BY <1>1 DEF LinesOf
<1> QED
  BY <1>2, <1>3, <1>4

\* The state that the server keeps for an automatic player is the sum of
\* exactly the PUTs the player has sent and the server handled: each point up
\* to there once, if it is in bounds, and no other.  handle_put
\* (approx-server.cpp:400-441) applies no PUT twice, drops none and never
\* takes that of another player.
THEOREM AutomaticStatesExact == Spec => []AutomaticStateExact
<1>1. TypeOK /\ ServerInv /\ PlayersInv => AutomaticStateExact
  <2> SUFFICES ASSUME TypeOK, ServerInv, PlayersInv, NEW p \in Player,
                      Automatic(cl[p]), NEW c \in Records(p), NEW j \in Points
               PROVE  c.state[j] =
                        IF /\ j < cl[p].sent - Unhandled(p)
                           /\ poly_val(c.coeffs, j) \in -5..5
                        THEN poly_val(c.coeffs, j) ELSE 0
    BY DEF AutomaticStateExact
  <2> DEFINE l == cl[p]
             a == l.write_buffer
             b == conn[p].up
             d == c.read_buffer
             Puts(s) == Cardinality({i \in DOMAIN s : s[i].type = "PUT"})
             f == [x \in Records(p) |-> Puts(x.read_buffer)]
  <2>1. /\ c \in Client /\ l \in ClientState /\ conn[p] \in Connection
        /\ Decent(p, l, conn[p], c, TRUE) /\ Records(p) = {c}
    BY RecordOf
  <2>2. Courteous(p, l, conn[p], c, TRUE) /\ StateExact(l, conn[p], c)
    BY <2>1 DEF Decent, Courteous
  <2>3. a \in Seq(ToServer) /\ b \in Seq(ToServer) /\ d \in Seq(ToServer)
    BY <2>1, PlayerFields, ConnectionFields, ClientFields
  <2>4. Puts(a) \in Nat /\ Puts(b) \in Nat /\ Puts(d) \in Nat
    BY <2>3, PutsAmong
  <2>5. Sum(f) = Puts(d)
    <3>1. DOMAIN f = {c} /\ f[c] = Puts(d)
      BY <2>1
    <3> HIDE DEF f
    <3>2. IsFiniteSet({c}) /\ IsFiniteSet({})
      BY FS_Singleton, FS_EmptySet
    <3>3. Total(f, {}) = 0
      BY <3>2, TotalFirst
    <3>4. First({c}) = c /\ Total(f, {c}) = f[c] + Total(f, {c} \ {c})
      BY <3>2, TotalFirst
    <3>5. {c} \ {c} = {}
      OBVIOUS
    <3> HIDE DEF Puts
    <3> QED
      BY <2>4, <3>1, <3>3, <3>4, <3>5, SumIsTotal
  <2>6. Unhandled(p) = Puts(a) + Puts(b) + Puts(d)
    BY <2>5 DEF Unhandled
  <2>7. l.sent \in Nat /\ j \in Nat /\ UnderWay(l, conn[p], c) \in Nat
    BY <2>1, PlayerFields, Counts, ProtocolAssumption DEF Points
  <2>8. j < l.sent - Unhandled(p) <=> j < l.sent - UnderWay(l, conn[p], c)
    <3>1. CASE l.received_coeff
      <4>1. \A line \in Upstream(l, conn[p], c) : line.type = "PUT"
        BY <2>2, <3>1 DEF Courteous, Said, LastPut, build_put
      <4>2. Puts(a) = Len(a) /\ Puts(b) = Len(b) /\ Puts(d) = Len(d)
        BY <2>3, <4>1, PutsAmong DEF Upstream
      <4>3. Unhandled(p) = UnderWay(l, conn[p], c)
        BY <2>6, <4>2 DEF UnderWay
      <4> QED
        BY <4>3
    <3>2. CASE ~l.received_coeff
      <4>1. l.sent = 0
        BY <2>2, <3>2 DEF Courteous
      <4> HIDE DEF Puts, a, b, d
      <4>2. Unhandled(p) \in Nat
        BY <2>4, <2>6
      <4> HIDE DEF l
      <4> QED
        BY <2>7, <4>1, <4>2
    <3> QED
      BY <3>1, <3>2
  <2>9. c.state[j] = Exact(l, conn[p], c, j)
    BY <2>2 DEF StateExact
  <2> QED
    BY <2>8, <2>9 DEF Exact
<1> QED
  BY <1>1, PlayersInvariant, PTL

=============================================================================
