-------------------------- MODULE TaggedStackProofs --------------------------
(* Proofs about TaggedStack, for any number of threads, payloads, addresses *)
(* and tags: the nodes are accounted for, and the stack is a LifoStack.     *)
EXTENDS TaggedStack, FiniteSetTheorems, SequenceTheorems, TLAPS

Top == [tag : Nat, head : Addr \cup {Null}]
Struct == [data : Data \cup {Garbage}, next : Addr \cup {Null, Garbage}]

TypeOK ==
  /\ stack \in Top
  /\ heap \in [Addr -> Struct]
  /\ live \in SUBSET Addr
  /\ pc \in [Thread -> {"idle", "push_load", "push_link", "push_cas",
                         "pop_next", "pop_cas", "pop_take"}]
  /\ node \in [Thread -> Addr \cup {Null}]
  /\ prev \in [Thread -> Top]
  /\ next \in [Thread -> Addr \cup {Null}]
  /\ popped \in [Thread -> Data \cup {Null, Garbage}]
  /\ pushed \in SUBSET Data

\* s is a list without a cycle that ends with NULL.
Chain(h, a, s) ==
  /\ s \in Seq(Addr)
  /\ \A i, j \in DOMAIN s : i # j => s[i] # s[j]
  /\ Met(h, a, s)
  /\ Beyond(h, a, s) = Null

Pushing == {t \in Thread : node[t] # Null}

\* What a thread holds between the steps of push and pop.  A pop whose prev
\* is out of date has an older tag; one whose prev is not has read the next
\* node of the list.
HoldsRight(t) ==
  /\ node[t] # Null <=> pc[t] \in {"push_load", "push_link", "push_cas"}
  /\ pc[t] = "push_cas" => heap[node[t]].next = prev[t].head
  /\ pc[t] \in {"pop_next", "pop_cas", "pop_take"} => prev[t].head # Null
  /\ pc[t] \in {"pop_next", "pop_cas"} => prev[t].tag <= stack.tag
  /\ pc[t] = "pop_cas" /\ prev[t] = stack => next[t] = heap[stack.head].next

HoldsWhatItRead == \A t \in Thread : HoldsRight(t)

LiveData == \A a \in live : heap[a].data \in Data

\* Every successful compare-and-swap advances the tag, so that it counts the
\* nodes pushed and those popped.
TagCounts ==
  stack.tag + Len(List) + 2 * Cardinality(Pushing) = 2 * Cardinality(pushed)

IInv ==
  /\ TypeOK
  /\ Chain(heap, stack.head, List)
  /\ NodesAccountedFor
  /\ HoldsWhatItRead
  /\ LiveData
  /\ TagCounts

-----------------------------------------------------------------------------
(* Lists                                                                   *)

\* Every set of naturals has a least one, which stands for induction.
LEMMA LeastNat ==
  ASSUME NEW S \in SUBSET Nat, NEW m \in S
  PROVE  \E n \in S : \A k \in S : n <= k
<1> DEFINE T == {0..n : n \in {k \in S : k <= m}}
<1>1. T \subseteq SUBSET (0..m) /\ 0..m \in T
  OBVIOUS
<1>2. IsFiniteSet(0..m)
  BY FS_Interval
<1>3. IsWellFoundedOn(StrictSubsetOrdering(0..m), SUBSET (0..m))
  BY <1>2, FS_FiniteSubsetsOfFinite, FS_StrictSubsetOrderingWellFounded
<1> HIDE DEF T
<1>4. PICK x \in T : \A y \in T : ~(<<y, x>> \in StrictSubsetOrdering(0..m))
  BY <1>1, <1>3, WFMin
<1>5. PICK n \in S : n <= m /\ x = 0..n
  BY DEF T
<1>6. \A k \in S : k < n => 0..k \in T
  BY <1>5 DEF T
<1>7. \A k \in S : k < n => <<0..k, x>> \in StrictSubsetOrdering(0..m)
  BY <1>5 DEF StrictSubsetOrdering
<1>8. \A k \in S : ~(k < n)
  BY <1>4, <1>6, <1>7, Zenon
<1> QED
  BY <1>8

\* There is one list at an address.
LEMMA ListIs ==
  ASSUME NEW h \in [Addr -> Struct], NEW a, NEW s, Chain(h, a, s)
  PROVE  ListAt(h, a) = s
<1> DEFINE N == Cardinality(Addr)
           Whole(r) == /\ Met(h, a, r)
                       /\ Len(r) = N \/ Beyond(h, a, r) \notin Addr
<1>1. s \in Seq(Addr) /\ Len(s) \in Nat /\ DOMAIN s = 1..Len(s) /\ N \in Nat
  BY FiniteAssumption, FS_CardinalityType DEF Chain
<1>2. Len(s) <= N
  <2>1. s \in Injection(1..Len(s), Addr)
    BY <1>1 DEF Chain, Injection, IsInjective
  <2> QED
    BY <1>1, <2>1, FiniteAssumption, FS_Injection, FS_Interval
<1>3. s \in SeqOf(Addr, N) /\ Whole(s)
  BY <1>1, <1>2, NullAssumption DEF Chain, SeqOf
<1>4. ASSUME NEW r \in SeqOf(Addr, N), Whole(r)
      PROVE  r = s
  <2>1. r \in Seq(Addr) /\ Len(r) \in Nat /\ DOMAIN r = 1..Len(r)
        /\ Len(r) <= N
    BY <1>1, <1>4 DEF SeqOf
  <2>2. \A i \in DOMAIN r \cap DOMAIN s : r[i] = s[i]
    <3> DEFINE D == {i \in DOMAIN r \cap DOMAIN s : r[i] # s[i]}
    <3> SUFFICES ASSUME NEW j \in D PROVE FALSE
      OBVIOUS
    <3>1. D \in SUBSET Nat
      BY <1>1
    <3>2. PICK i \in D : \A k \in D : i <= k
      BY <3>1, LeastNat
    <3>3. i = 1 \/ (i - 1 \in DOMAIN r \cap DOMAIN s /\ i - 1 \notin D)
      BY <1>1, <2>1, <3>1, <3>2
    <3>4. r[i] = IF i = 1 THEN a ELSE h[r[i - 1]].next
      BY <1>4, <3>2 DEF Met
    <3>5. s[i] = IF i = 1 THEN a ELSE h[s[i - 1]].next
      BY <3>2 DEF Met, Chain
    <3> QED
      BY <3>2, <3>3, <3>4, <3>5
  <2>3. ~(Len(r) > Len(s))
    <3> SUFFICES ASSUME Len(r) > Len(s) PROVE FALSE
      OBVIOUS
    <3> DEFINE j == Len(s) + 1
    <3>1. j \in DOMAIN r /\ r[j] \in Addr
      BY <1>1, <2>1
    <3>2. r[j] = IF j = 1 THEN a ELSE h[r[j - 1]].next
      <4> HIDE DEF j
      <4> QED
        BY <1>4, <3>1 DEF Met, Chain
    <3>3. r[Len(s) + 1] = IF Len(s) = 0 THEN a ELSE h[r[Len(s)]].next
      BY <1>1, <2>1, <3>2
    <3>4. Len(s) # 0 => r[Len(s)] = s[Len(s)]
      BY <1>1, <2>1, <2>2, <3>1
    <3>5. Len(s) = 0 <=> s = <<>>
      BY <1>1
    <3>6. r[Len(s) + 1] = Beyond(h, a, s)
      BY <3>3, <3>4, <3>5 DEF Beyond
    <3> QED
      BY <3>1, <3>6, NullAssumption DEF Chain
  <2>4. ~(Len(s) > Len(r))
    <3> SUFFICES ASSUME Len(s) > Len(r) PROVE FALSE
      OBVIOUS
    <3> DEFINE j == Len(r) + 1
    <3>1. j \in DOMAIN s /\ s[j] \in Addr
      BY <1>1, <2>1
    <3>2. s[j] = IF j = 1 THEN a ELSE h[s[j - 1]].next
      <4> HIDE DEF j
      <4> QED
        BY <1>4, <3>1 DEF Met, Chain
    <3>3. s[Len(r) + 1] = IF Len(r) = 0 THEN a ELSE h[s[Len(r)]].next
      BY <1>1, <2>1, <3>2
    <3>4. Len(r) # 0 => r[Len(r)] = s[Len(r)]
      BY <1>1, <2>1, <2>2, <3>1
    <3>5. Len(r) = 0 <=> r = <<>>
      BY <2>1
    <3>6. s[Len(r) + 1] = Beyond(h, a, r)
      BY <3>3, <3>4, <3>5 DEF Beyond
    <3> QED
      BY <1>1, <1>2, <1>4, <2>1, <3>1, <3>6
  <2> QED
    BY <1>1, <2>1, <2>2, <2>3, <2>4, SeqEqual
<1> QED
  BY <1>3, <1>4 DEF ListAt

\* Nodes outside the list may change.
LEMMA ChainElsewhere ==
  ASSUME NEW h \in [Addr -> Struct], NEW g \in [Addr -> Struct],
         NEW a, NEW s, Chain(h, a, s),
         \A x \in ToSet(s) : g[x].next = h[x].next
  PROVE  Chain(g, a, s)
<1>1. s \in Seq(Addr) /\ Len(s) \in Nat /\ DOMAIN s = 1..Len(s)
  BY DEF Chain
<1>2. \A i \in DOMAIN s : g[s[i]].next = h[s[i]].next
  BY DEF ToSet
<1>3. Met(g, a, s)
  <2> SUFFICES ASSUME NEW i \in DOMAIN s
               PROVE  s[i] = IF i = 1 THEN a ELSE g[s[i - 1]].next
    BY DEF Met
  <2>1. s[i] = IF i = 1 THEN a ELSE h[s[i - 1]].next
    BY DEF Chain, Met
  <2>2. i = 1 \/ i - 1 \in DOMAIN s
    BY <1>1
  <2> QED
    BY <1>2, <2>1, <2>2
<1>4. Beyond(g, a, s) = Null
  <2>1. s = <<>> \/ Len(s) \in DOMAIN s
    BY <1>1
  <2> QED
    BY <1>2, <2>1 DEF Chain, Beyond
<1> QED
  BY <1>3, <1>4 DEF Chain

\* A node in front of the list.
LEMMA ChainLonger ==
  ASSUME NEW h \in [Addr -> Struct], NEW a, NEW s, Chain(h, a, s),
         NEW n \in Addr, n \notin ToSet(s), h[n].next = a
  PROVE  /\ Chain(h, n, <<n>> \o s)
         /\ Len(<<n>> \o s) = Len(s) + 1
         /\ ToSet(<<n>> \o s) = ToSet(s) \cup {n}
<1> DEFINE r == <<n>> \o s
<1>1. s \in Seq(Addr) /\ Len(s) \in Nat /\ DOMAIN s = 1..Len(s)
  BY DEF Chain
<1>2. /\ r \in Seq(Addr) /\ Len(r) = Len(s) + 1
      /\ DOMAIN r = 1..(Len(s) + 1)
  BY <1>1
<1>3. r[1] = n /\ \A i \in DOMAIN s : r[i + 1] = s[i]
  BY <1>1
<1>4. \A i \in DOMAIN r : i = 1 \/ i - 1 \in DOMAIN s
  BY <1>1, <1>2
<1> HIDE DEF r
<1>5. \A i \in DOMAIN r : i # 1 => r[i] = s[i - 1]
  BY <1>1, <1>2, <1>3, <1>4
<1>6. \A i \in DOMAIN s : s[i] # n
  BY DEF ToSet
<1>7. \A i, j \in DOMAIN r : i # j => r[i] # r[j]
  <2> SUFFICES ASSUME NEW i \in DOMAIN r, NEW j \in DOMAIN r, i # j,
                      r[i] = r[j]
               PROVE  FALSE
    OBVIOUS
  <2>1. i # 1 /\ j # 1
    BY <1>3, <1>4, <1>5, <1>6
  <2>2. i - 1 \in DOMAIN s /\ j - 1 \in DOMAIN s /\ i - 1 # j - 1
    BY <1>2, <1>4, <2>1
  <2> QED
    BY <1>5, <2>1, <2>2 DEF Chain
<1>8. Met(h, n, r)
  <2> SUFFICES ASSUME NEW i \in DOMAIN r, i # 1
               PROVE  r[i] = h[r[i - 1]].next
    BY <1>3 DEF Met
  <2> DEFINE k == i - 1
  <2>1. k \in DOMAIN s /\ r[i] = s[k]
    BY <1>4, <1>5
  <2>2. s[k] = IF k = 1 THEN a ELSE h[s[k - 1]].next
    BY <2>1 DEF Chain, Met
  <2>3. k = 1 \/ (k \in DOMAIN r /\ k # 1)
    BY <1>1, <1>2, <2>1
  <2>4. k = 1 => r[k] = n
    BY <1>3
  <2>5. k # 1 => r[k] = s[k - 1]
    BY <1>5, <2>3
  <2> QED
    BY <2>1, <2>2, <2>4, <2>5
<1>9. Beyond(h, n, r) = Null
  <2>1. r # <<>> /\ Beyond(h, n, r) = h[r[Len(r)]].next
    BY <1>2, <1>1 DEF Beyond
  <2>2. CASE s = <<>>
    BY <1>2, <1>3, <2>1, <2>2 DEF Chain, Beyond
  <2>3. CASE s # <<>>
    <3>1. Len(r) \in DOMAIN r /\ Len(r) # 1 /\ Len(r) - 1 = Len(s)
      BY <1>1, <1>2, <2>3
    <3> QED
      BY <1>5, <2>1, <2>3, <3>1 DEF Chain, Beyond
  <2> QED
    BY <2>2, <2>3
<1>10. ToSet(r) = ToSet(s) \cup {n}
  <2>1. \A x \in ToSet(r) : x = n \/ x \in ToSet(s)
    BY <1>3, <1>4, <1>5 DEF ToSet
  <2>2. n \in ToSet(r)
    BY <1>1, <1>2, <1>3 DEF ToSet
  <2>3. \A i \in DOMAIN s : i + 1 \in DOMAIN r /\ r[i + 1] = s[i]
    BY <1>1, <1>2, <1>3
  <2>4. \A x \in ToSet(s) : x \in ToSet(r)
    BY <2>3 DEF ToSet
  <2> QED
    BY <2>1, <2>2, <2>4
<1> QED
  BY <1>2, <1>7, <1>8, <1>9, <1>10 DEF Chain, r

\* The list without its first node.
LEMMA ChainShorter ==
  ASSUME NEW h \in [Addr -> Struct], NEW a, NEW s, Chain(h, a, s), a # Null
  PROVE  /\ s # <<>> /\ s[1] = a /\ a \in ToSet(s)
         /\ Chain(h, h[a].next, Tail(s))
         /\ Len(Tail(s)) = Len(s) - 1
         /\ ToSet(Tail(s)) = ToSet(s) \ {a}
<1> DEFINE r == Tail(s)
<1>1. s \in Seq(Addr) /\ Len(s) \in Nat /\ DOMAIN s = 1..Len(s)
  BY DEF Chain
<1>2. s # <<>>
  BY DEF Chain, Beyond
<1>3. 1 \in DOMAIN s /\ s[1] = a
  <2>1. 1 \in DOMAIN s
    BY <1>1, <1>2
  <2> QED
    BY <2>1 DEF Chain, Met
<1>4. /\ r \in Seq(Addr) /\ Len(r) = Len(s) - 1
      /\ DOMAIN r = 1..(Len(s) - 1)
      /\ \A i \in DOMAIN r : r[i] = s[i + 1]
  BY <1>1, <1>2, HeadTailProperties
<1> HIDE DEF r
<1>5. \A i \in DOMAIN r : i + 1 \in DOMAIN s /\ i + 1 # 1
  BY <1>1, <1>4
<1>6. \A i, j \in DOMAIN r : i # j => r[i] # r[j]
  <2> SUFFICES ASSUME NEW i \in DOMAIN r, NEW j \in DOMAIN r, i # j
               PROVE  r[i] # r[j]
    OBVIOUS
  <2>1. i + 1 # j + 1
    BY <1>4
  <2> QED
    BY <1>4, <1>5, <2>1 DEF Chain
<1>7. Met(h, h[a].next, r)
  <2> SUFFICES ASSUME NEW i \in DOMAIN r
               PROVE  r[i] = IF i = 1 THEN h[a].next ELSE h[r[i - 1]].next
    BY DEF Met
  <2> DEFINE k == i + 1
  <2>1. k \in DOMAIN s /\ k # 1 /\ r[i] = s[k] /\ k - 1 = i
    BY <1>4, <1>5
  <2>2. s[k] = h[s[k - 1]].next
    <3> HIDE DEF k
    <3> QED
      BY <2>1 DEF Chain, Met
  <2>3. i = 1 \/ (i - 1 \in DOMAIN r /\ r[i - 1] = s[i])
    <3>1. i = 1 \/ (i - 1 \in DOMAIN r /\ (i - 1) + 1 = i)
      BY <1>4
    <3> QED
      BY <1>4, <3>1
  <2> QED
    BY <1>3, <2>1, <2>2, <2>3
<1>8. Beyond(h, h[a].next, r) = Null
  <2>1. h[s[Len(s)]].next = Null
    BY <1>2 DEF Chain, Beyond
  <2>2. CASE r = <<>>
    <3>1. Len(s) = 1
      <4>1. Len(r) = 0
        BY <2>2
      <4>2. Len(s) \in Nat
        BY <1>1
      <4> QED
        BY <1>4, <4>1, <4>2
    <3> QED
      BY <1>3, <2>1, <2>2, <3>1 DEF Beyond
  <2>3. CASE r # <<>>
    <3>1. Len(r) \in DOMAIN r /\ Len(r) + 1 = Len(s)
      BY <1>1, <1>4, <2>3
    <3> QED
      BY <1>4, <2>1, <2>3, <3>1 DEF Beyond
  <2> QED
    BY <2>2, <2>3
<1>9. ToSet(r) = ToSet(s) \ {a}
  <2>1. \A x \in ToSet(r) : x \in ToSet(s) /\ x # a
    BY <1>3, <1>4, <1>5 DEF ToSet, Chain
  <2>2. ASSUME NEW x \in ToSet(s), x # a
        PROVE  x \in ToSet(r)
    <3>1. PICK i \in DOMAIN s : x = s[i]
      BY DEF ToSet
    <3>2. i - 1 \in DOMAIN r /\ (i - 1) + 1 = i
      BY <1>1, <1>3, <1>4, <2>2, <3>1
    <3>3. r[i - 1] = x
      BY <1>4, <3>1, <3>2
    <3> QED
      BY <3>2, <3>3 DEF ToSet
  <2> QED
    BY <2>1, <2>2
<1> QED
  BY <1>2, <1>3, <1>4, <1>6, <1>7, <1>8, <1>9 DEF Chain, ToSet, r

-----------------------------------------------------------------------------
(* Who has which node                                                      *)

Holding == [t \in Thread |-> Owned(t)]

\* The nodes L are those of the list s and those that f gives the threads,
\* each in one place.
Parted(s, L, f) ==
  /\ \A t, u \in Thread : t # u => f[t] \cap f[u] = {}
  /\ \A t \in Thread : f[t] \cap ToSet(s) = {}
  /\ \A a : a \in L <=> a \in ToSet(s) \/ \E t \in Thread : a \in f[t]

LEMMA AccountsPart ==
  ASSUME NodesAccountedFor
  PROVE  Parted(List, live, Holding)
<1> HIDE DEF List
<1> QED
  BY DEF NodesAccountedFor, Parted, Holding

LEMMA PartAccounts ==
  ASSUME TypeOK', Chain(heap', stack.head', List'),
         Parted(List', live', Holding')
  PROVE  NodesAccountedFor'
<1> HIDE DEF List
<1> QED
  BY DEF NodesAccountedFor, Parted, Holding, Chain

\* A list starts with a node, unless it is empty.
LEMMA ChainStart ==
  ASSUME NEW h, NEW a, NEW s, Chain(h, a, s)
  PROVE  a \in Addr \cup {Null}
<1>1. CASE s = <<>>
  BY <1>1 DEF Chain, Beyond
<1>2. CASE s # <<>>
  <2>1. s \in Seq(Addr) /\ 1 \in DOMAIN s
    BY <1>2 DEF Chain
  <2>2. s[1] = a
    BY <2>1 DEF Chain, Met
  <2> QED
    BY <2>1, <2>2
<1> QED
  BY <1>1, <1>2

\* The nodes of the list and of the threads are live and apart.
LEMMA NodesApart ==
  ASSUME IInv
  PROVE  /\ ToSet(List) \subseteq live
         /\ stack.head # Null =>
              /\ stack.head \in ToSet(List)
              /\ heap[stack.head].next \in Addr \cup {Null}
         /\ \A t \in Thread :
              node[t] # Null => node[t] \in live \ ToSet(List)
         /\ \A t \in Thread :
              pc[t] = "pop_take" => prev[t].head \in live \ ToSet(List)
         /\ \A t, u \in Thread :
              /\ t # u /\ node[t] # Null => node[t] # node[u]
              /\ node[t] # Null /\ pc[u] = "pop_take"
                   => node[t] # prev[u].head
              /\ t # u /\ pc[t] = "pop_take" /\ pc[u] = "pop_take"
                   => prev[t].head # prev[u].head
<1>1. Parted(List, live, Holding)
  BY AccountsPart DEF IInv
<1>2. Chain(heap, stack.head, List) /\ heap \in [Addr -> Struct]
  BY DEF IInv, TypeOK
<1>3. stack.head # Null => /\ stack.head \in ToSet(List)
                           /\ heap[stack.head].next \in Addr \cup {Null}
  <2> SUFFICES ASSUME stack.head # Null
               PROVE  /\ stack.head \in ToSet(List)
                      /\ heap[stack.head].next \in Addr \cup {Null}
    OBVIOUS
  <2>1. /\ stack.head \in ToSet(List)
        /\ Chain(heap, heap[stack.head].next, Tail(List))
    BY <1>2, ChainShorter
  <2> QED
    BY <2>1, ChainStart
<1>4. \A t \in Thread : /\ node[t] # Null => node[t] \in Holding[t]
                        /\ pc[t] = "pop_take" => prev[t].head \in Holding[t]
  BY DEF Holding, Owned
<1>5. \A t \in Thread : ~(node[t] # Null /\ pc[t] = "pop_take")
  BY DEF IInv, HoldsWhatItRead, HoldsRight
<1> HIDE DEF List
<1> QED
  BY <1>1, <1>3, <1>4, <1>5 DEF Parted

-----------------------------------------------------------------------------
(* Each step keeps the invariant                                           *)

\* What a step needs of the list it leads to.
LEMMA Lists ==
  ASSUME heap' \in [Addr -> Struct], NEW s, Chain(heap', stack'.head, s)
  PROVE  List' = s /\ Chain(heap', stack'.head, List')
<1>1. ListAt(heap', stack'.head) = s
  BY ListIs
<1> QED
  BY <1>1 DEF List

\* A step that leaves the stack alone and the nodes of its list.
LEMMA SameList ==
  ASSUME IInv, heap' \in [Addr -> Struct], stack' = stack,
         \A a \in ToSet(List) : heap'[a].next = heap[a].next
  PROVE  List' = List /\ Chain(heap', stack'.head, List')
<1>1. heap \in [Addr -> Struct] /\ Chain(heap, stack.head, List)
  BY DEF IInv, TypeOK
<1>2. Chain(heap', stack'.head, List)
  <2> HIDE DEF List
  <2> QED
    BY <1>1, ChainElsewhere
<1> QED
  BY <1>2, Lists

\* A step that changes no node and nothing that a thread owns.
LEMMA Reading ==
  ASSUME IInv, TypeOK', NEW t \in Thread,
         UNCHANGED <<stack, heap, live, node, pushed>>,
         \A u \in Thread : u # t => pc'[u] = pc[u] /\ prev'[u] = prev[u],
         pc[t] # "pop_take", pc'[t] # "pop_take"
  PROVE  /\ Chain(heap', stack'.head, List')
         /\ NodesAccountedFor'
         /\ LiveData'
         /\ TagCounts'
<1>1. List' = List /\ Chain(heap', stack'.head, List')
  BY SameList DEF TypeOK
<1>2. Holding' = Holding
  BY DEF Holding, Owned
<1>3. NodesAccountedFor'
  <2> HIDE DEF List
  <2> QED
    BY <1>1, <1>2, AccountsPart, PartAccounts DEF IInv
<1>4. LiveData' /\ TagCounts'
  BY <1>1 DEF IInv, LiveData, TagCounts, Pushing
<1> QED
  BY <1>1, <1>3, <1>4

LEMMA Balance ==
  ASSUME NEW m \in Int, NEW n \in Int, NEW p \in Int, NEW u \in Int,
         NEW i \in Int, NEW j \in Int, NEW k \in Int, NEW l \in Int,
         m + n + 2 * p = 2 * u, i + j + 2 * k = 2 * l
  PROVE  (m + i) + (n + j) + 2 * (p + k) = 2 * (u + l)
OBVIOUS

\* TagCounts again, after a step that changes the counts as given.
LEMMA Sums ==
  ASSUME IInv, NEW i \in Int, NEW j \in Int, NEW k \in Int, NEW l \in Int,
         stack'.tag = stack.tag + i,
         Len(List') = Len(List) + j,
         Cardinality(Pushing') = Cardinality(Pushing) + k,
         Cardinality(pushed') = Cardinality(pushed) + l,
         i + j + 2 * k = 2 * l
  PROVE  TagCounts'
<1>1. IsFiniteSet(Pushing) /\ IsFiniteSet(pushed)
  BY FiniteAssumption, FS_Subset DEF Pushing, IInv, TypeOK
<1>2. /\ Cardinality(Pushing) \in Nat /\ Cardinality(pushed) \in Nat
      /\ Len(List) \in Nat /\ stack.tag \in Nat
  BY <1>1, FS_CardinalityType DEF IInv, Chain, TypeOK, Top
<1>3. stack.tag + Len(List) + 2 * Cardinality(Pushing)
        = 2 * Cardinality(pushed)
  BY DEF IInv, TagCounts
<1>4. stack'.tag + Len(List)' + 2 * Cardinality(Pushing)'
        = 2 * Cardinality(pushed)'
  <2> DEFINE p == Cardinality(Pushing) u == Cardinality(pushed)
             n == Len(List) m == stack.tag
  <2>1. (m + i) + (n + j) + 2 * (p + k) = 2 * (u + l)
    <3>1. m \in Int /\ n \in Int /\ p \in Int /\ u \in Int
      BY <1>2
    <3>2. m + n + 2 * p = 2 * u
      BY <1>3
    <3> HIDE DEF m, n, p, u
    <3> QED
      BY <3>1, <3>2, Balance
  <2> QED
    BY <2>1
<1> QED
  BY <1>4 DEF TagCounts

LEMMA MallocStep ==
  ASSUME IInv, NEW t \in Thread, Malloc(t)
  PROVE  IInv'
<1>1. PICK a \in Addr \ live, v \in Data \ pushed :
        /\ live' = live \cup {a}
        /\ heap' = [heap EXCEPT ![a] = [data |-> v, next |-> Garbage]]
        /\ node' = [node EXCEPT ![t] = a]
        /\ pushed' = pushed \cup {v}
  BY DEF Malloc
<1>2. /\ UNCHANGED <<stack, prev, next, popped>>
      /\ pc[t] = "idle" /\ pc' = [pc EXCEPT ![t] = "push_load"]
  BY DEF Malloc, GoTo
<1>3. TypeOK /\ HoldsWhatItRead
  BY DEF IInv
<1>4. TypeOK'
  BY <1>1, <1>2, <1>3 DEF TypeOK, Struct
<1>5. a # Null /\ node[t] = Null
  BY <1>2, <1>3, NullAssumption DEF HoldsWhatItRead, HoldsRight
<1>6. List' = List /\ Chain(heap', stack'.head, List')
  <2>1. \A x \in ToSet(List) : x # a
    BY NodesApart
  <2>2. \A x \in ToSet(List) : heap'[x].next = heap[x].next
    BY <1>1, <1>3, <2>1 DEF TypeOK
  <2> QED
    BY <1>2, <1>4, <2>2, SameList DEF TypeOK
<1>7. NodesAccountedFor'
  <2>1. /\ Holding[t] = {}
        /\ Holding' = [Holding EXCEPT ![t] = {a}]
    BY <1>1, <1>2, <1>3, <1>5 DEF Holding, Owned, TypeOK
  <2>2. Parted(List, live, Holding)
    BY AccountsPart DEF IInv
  <2>3. /\ Holding'[t] = {a}
        /\ \A u \in Thread : u # t => Holding'[u] = Holding[u]
    BY <2>1 DEF Holding
  <2>4. Parted(List, live \cup {a}, Holding')
    <3> HIDE DEF List, Holding
    <3> QED
      BY <2>1, <2>2, <2>3 DEF Parted
  <2> QED
    BY <1>1, <1>4, <1>6, <2>4, PartAccounts
<1>8. HoldsWhatItRead'
  <2> SUFFICES ASSUME NEW u \in Thread PROVE HoldsRight(u)'
    BY DEF HoldsWhatItRead
  <2>1. u # t => pc'[u] = pc[u] /\ node'[u] = node[u]
    BY <1>1, <1>2, <1>3 DEF TypeOK
  <2>2. pc'[t] = "push_load" /\ node'[t] = a
    BY <1>1, <1>2, <1>3 DEF TypeOK
  <2>3. \A x \in live : heap'[x] = heap[x]
    BY <1>1, <1>3 DEF TypeOK
  <2>4. /\ node[u] # Null => node[u] \in live
        /\ stack.head # Null => stack.head \in live
    BY NodesApart
  <2> QED
    BY <1>2, <1>3, <1>5, <2>1, <2>2, <2>3, <2>4 DEF HoldsWhatItRead, HoldsRight
<1>9. LiveData'
  BY <1>1, <1>3 DEF IInv, LiveData, TypeOK
<1>10. TagCounts'
  <2>1. Pushing' = Pushing \cup {t} /\ t \notin Pushing
    BY <1>1, <1>3, <1>5 DEF Pushing, TypeOK
  <2>2. IsFiniteSet(Pushing) /\ IsFiniteSet(pushed)
    BY <1>3, FiniteAssumption, FS_Subset DEF Pushing, TypeOK
  <2>3. /\ Cardinality(Pushing') = Cardinality(Pushing) + 1
        /\ Cardinality(pushed') = Cardinality(pushed) + 1
    BY <1>1, <2>1, <2>2, FS_AddElement
  <2>4. Len(List') = Len(List) + 0 /\ stack'.tag = stack.tag + 0
    BY <1>2, <1>3, <1>6 DEF IInv, Chain, TypeOK, Top
  <2> QED
    BY <2>3, <2>4, Sums
<1> QED
  BY <1>4, <1>6, <1>7, <1>8, <1>9, <1>10 DEF IInv

LEMMA PushLoadStep ==
  ASSUME IInv, NEW t \in Thread, PushLoad(t)
  PROVE  IInv'
<1>1. TypeOK /\ HoldsWhatItRead
  BY DEF IInv
<1>2. TypeOK'
  BY <1>1 DEF PushLoad, TypeOK
<1>3. /\ Chain(heap', stack'.head, List') /\ NodesAccountedFor'
      /\ LiveData' /\ TagCounts'
  <2>1. /\ UNCHANGED <<stack, heap, live, node, pushed>>
        /\ \A u \in Thread : u # t => pc'[u] = pc[u] /\ prev'[u] = prev[u]
        /\ pc[t] # "pop_take" /\ pc'[t] # "pop_take"
    BY <1>1 DEF PushLoad, TypeOK
  <2> QED
    BY <1>2, <2>1, Reading
<1>4. HoldsWhatItRead'
  <2> SUFFICES ASSUME NEW u \in Thread PROVE HoldsRight(u)'
    BY DEF HoldsWhatItRead
  <2> QED
    BY <1>1 DEF HoldsWhatItRead, HoldsRight, PushLoad, TypeOK
<1> QED
  BY <1>2, <1>3, <1>4 DEF IInv

LEMMA PushLinkStep ==
  ASSUME IInv, NEW t \in Thread, PushLink(t)
  PROVE  IInv'
<1>1. TypeOK /\ HoldsWhatItRead
  BY DEF IInv
<1>2. /\ UNCHANGED <<stack, live, node, prev, next, popped, pushed>>
      /\ pc[t] = "push_link" /\ pc' = [pc EXCEPT ![t] = "push_cas"]
      /\ heap' = [heap EXCEPT ![node[t]].next = prev[t].head]
  BY DEF PushLink, GoTo
<1>3. node[t] # Null /\ node[t] \in live \ ToSet(List)
  BY <1>1, <1>2, NodesApart DEF HoldsWhatItRead, HoldsRight
<1>4. node[t] \in Addr
  BY <1>1, <1>3 DEF TypeOK
<1>5. TypeOK'
  BY <1>1, <1>2, <1>4 DEF TypeOK, Struct, Top
<1>6. \A x \in Addr : x # node[t] => heap'[x] = heap[x]
  BY <1>1, <1>2 DEF TypeOK
<1>7. List' = List /\ Chain(heap', stack'.head, List')
  <2>1. \A x \in ToSet(List) : heap'[x].next = heap[x].next
    <3>1. ToSet(List) \subseteq Addr
      BY <1>1, NodesApart DEF TypeOK
    <3> QED
      BY <1>3, <1>6, <3>1
  <2> QED
    BY <1>2, <1>5, <2>1, SameList DEF TypeOK
<1>8. NodesAccountedFor'
  <2>1. Holding' = Holding
    BY <1>1, <1>2 DEF Holding, Owned, TypeOK
  <2> HIDE DEF List
  <2> QED
    BY <1>2, <1>5, <1>7, <2>1, AccountsPart, PartAccounts DEF IInv
<1>9. HoldsWhatItRead'
  <2> SUFFICES ASSUME NEW u \in Thread PROVE HoldsRight(u)'
    BY DEF HoldsWhatItRead
  <2>1. u # t => pc'[u] = pc[u] /\ (node[u] # Null => node[u] # node[t])
    BY <1>1, <1>2, NodesApart DEF TypeOK
  <2>2. pc'[t] = "push_cas" /\ heap'[node'[t]].next = prev'[t].head
    BY <1>1, <1>2, <1>4 DEF TypeOK, Struct
  <2>3. node[u] # Null => node[u] \in Addr
    BY <1>1 DEF TypeOK
  <2>4. stack.head # Null => stack.head \in Addr /\ stack.head # node[t]
    BY <1>1, <1>3, NodesApart DEF TypeOK
  <2>5. \A a : a \in Addr /\ a # node[t] => heap'[a].next = heap[a].next
    BY <1>6
  <2> QED
    BY <1>1, <1>2, <1>3, <2>1, <2>2, <2>3, <2>4, <2>5
    DEF HoldsWhatItRead, HoldsRight
<1>10. LiveData'
  BY <1>1, <1>2, <1>4 DEF IInv, LiveData, TypeOK, Struct
<1>11. TagCounts'
  BY <1>2, <1>7 DEF IInv, TagCounts, Pushing
<1> QED
  BY <1>5, <1>7, <1>8, <1>9, <1>10, <1>11 DEF IInv

LEMMA PopLoadStep ==
  ASSUME IInv, NEW t \in Thread, PopLoad(t)
  PROVE  IInv'
<1>1. TypeOK /\ HoldsWhatItRead
  BY DEF IInv
<1>2. TypeOK'
  BY <1>1 DEF PopLoad, TypeOK
<1>3. /\ Chain(heap', stack'.head, List') /\ NodesAccountedFor'
      /\ LiveData' /\ TagCounts'
  <2>1. /\ UNCHANGED <<stack, heap, live, node, pushed>>
        /\ \A u \in Thread : u # t => pc'[u] = pc[u] /\ prev'[u] = prev[u]
        /\ pc[t] # "pop_take" /\ pc'[t] # "pop_take"
    BY <1>1 DEF PopLoad, TypeOK
  <2> QED
    BY <1>2, <2>1, Reading
<1>4. HoldsWhatItRead'
  <2> SUFFICES ASSUME NEW u \in Thread PROVE HoldsRight(u)'
    BY DEF HoldsWhatItRead
  <2>1. stack.tag <= stack.tag
    BY <1>1 DEF TypeOK, Top
  <2> QED
    BY <1>1, <2>1 DEF HoldsWhatItRead, HoldsRight, PopLoad, TypeOK
<1> QED
  BY <1>2, <1>3, <1>4 DEF IInv

LEMMA PopNullStep ==
  ASSUME IInv, NEW t \in Thread, PopNull(t)
  PROVE  IInv'
<1>1. TypeOK /\ HoldsWhatItRead
  BY DEF IInv
<1>2. TypeOK'
  BY <1>1 DEF PopNull, TypeOK
<1>3. /\ Chain(heap', stack'.head, List') /\ NodesAccountedFor'
      /\ LiveData' /\ TagCounts'
  <2>1. /\ UNCHANGED <<stack, heap, live, node, pushed>>
        /\ \A u \in Thread : u # t => pc'[u] = pc[u] /\ prev'[u] = prev[u]
        /\ pc[t] # "pop_take" /\ pc'[t] # "pop_take"
    BY <1>1 DEF PopNull, TypeOK
  <2> QED
    BY <1>2, <2>1, Reading
<1>4. HoldsWhatItRead'
  <2> SUFFICES ASSUME NEW u \in Thread PROVE HoldsRight(u)'
    BY DEF HoldsWhatItRead
  <2> QED
    BY <1>1 DEF HoldsWhatItRead, HoldsRight, PopNull, TypeOK
<1> QED
  BY <1>2, <1>3, <1>4 DEF IInv

LEMMA PopNextStep ==
  ASSUME IInv, NEW t \in Thread, PopNext(t)
  PROVE  IInv'
<1>1. TypeOK /\ HoldsWhatItRead
  BY DEF IInv
<1>2. PICK x \in IF prev[t].head \in live /\ heap[prev[t].head].next # Garbage
                 THEN {heap[prev[t].head].next} ELSE Addr \cup {Null} :
        next' = [next EXCEPT ![t] = x]
  BY DEF PopNext
<1>3. /\ UNCHANGED <<stack, heap, live, node, prev, popped, pushed>>
      /\ pc[t] = "pop_next" /\ pc' = [pc EXCEPT ![t] = "pop_cas"]
  BY DEF PopNext, GoTo
<1>4. x \in Addr \cup {Null}
  BY <1>1 DEF TypeOK, Struct
<1>5. TypeOK'
  BY <1>1, <1>2, <1>3, <1>4 DEF TypeOK
<1>6. /\ Chain(heap', stack'.head, List') /\ NodesAccountedFor'
      /\ LiveData' /\ TagCounts'
  <2>1. /\ UNCHANGED <<stack, heap, live, node, pushed>>
        /\ \A u \in Thread : u # t => pc'[u] = pc[u] /\ prev'[u] = prev[u]
        /\ pc[t] # "pop_take" /\ pc'[t] # "pop_take"
    BY <1>1, <1>3 DEF TypeOK
  <2> QED
    BY <1>5, <2>1, Reading
<1>7. HoldsWhatItRead'
  <2> SUFFICES ASSUME NEW u \in Thread PROVE HoldsRight(u)'
    BY DEF HoldsWhatItRead
  <2>1. u # t => pc'[u] = pc[u] /\ next'[u] = next[u]
    BY <1>1, <1>2, <1>3 DEF TypeOK
  <2>2. pc'[t] = "pop_cas" /\ next'[t] = x
    BY <1>1, <1>2, <1>3 DEF TypeOK
  <2>3. prev[t] = stack => x = heap[stack.head].next
    <3> SUFFICES ASSUME prev[t] = stack PROVE x = heap[stack.head].next
      OBVIOUS
    <3>1. stack.head # Null
      BY <1>1, <1>3 DEF HoldsWhatItRead, HoldsRight
    <3>2. stack.head \in live /\ heap[stack.head].next # Garbage
      BY <3>1, NodesApart, NullAssumption
    <3> QED
      BY <1>2, <3>2
  <2> QED
    BY <1>1, <1>3, <2>1, <2>2, <2>3 DEF HoldsWhatItRead, HoldsRight
<1> QED
  BY <1>5, <1>6, <1>7 DEF IInv

\* While there is a node to push or to pop the tag has not gone round.
LEMMA TagRoom ==
  ASSUME IInv, stack.head # Null \/ Pushing # {}
  PROVE  stack.tag \in Nat /\ NextTag(stack) = stack.tag + 1
<1> DEFINE n == Len(List) p == Cardinality(Pushing) u == Cardinality(pushed)
           d == Cardinality(Data)
<1>1. IsFiniteSet(Pushing) /\ pushed \subseteq Data /\ IsFiniteSet(pushed)
  BY FiniteAssumption, FS_Subset DEF Pushing, IInv, TypeOK
<1>2. p \in Nat /\ u \in Nat /\ n \in Nat /\ stack.tag \in Nat
  BY <1>1, FS_CardinalityType DEF IInv, Chain, TypeOK, Top
<1>3. d \in Nat /\ u <= d
  BY <1>1, FiniteAssumption, FS_CardinalityType, FS_Subset
<1>4. n # 0 \/ p # 0
  <2>1. CASE stack.head # Null
    <3>1. stack.head \in ToSet(List)
      BY <2>1, NodesApart
    <3>2. \E i \in DOMAIN List : TRUE
      <4> HIDE DEF List
      <4> QED
        BY <3>1 DEF ToSet
    <3>3. List \in Seq(Addr)
      BY DEF IInv, Chain
    <3> HIDE DEF List
    <3> QED
      BY <3>2, <3>3
  <2>2. CASE Pushing # {}
    BY <1>1, <2>2, FS_EmptySet
  <2> QED
    BY <2>1, <2>2
<1>5. stack.tag + n + 2 * p = 2 * u
  BY DEF IInv, TagCounts
<1> DEFINE m == stack.tag
<1>6. m + 1 < Tags
  <2>1. m \in Nat /\ m + n + 2 * p = 2 * u
    BY <1>2, <1>5
  <2> HIDE DEF m, n, p, u, d
  <2>2. m + 1 <= 2 * u /\ 2 * u <= 2 * d
    BY <1>2, <1>3, <1>4, <2>1
  <2>3. Tags \in Nat /\ Tags > 2 * d
    BY TagAssumption DEF d
  <2> QED
    BY <1>2, <1>3, <2>1, <2>2, <2>3
<1>7. m \in Nat
  BY <1>2
<1>8. (m + 1) % Tags = m + 1
  <2> HIDE DEF m
  <2> QED
    BY <1>6, <1>7, TagAssumption
<1> QED
  BY <1>7, <1>8 DEF NextTag

LEMMA PushCasStep ==
  ASSUME IInv, NEW t \in Thread, PushCas(t)
  PROVE  /\ IInv'
         /\ List' = <<node[t]>> \o List /\ heap[node[t]].data \in Data
<1> DEFINE n == node[t]
<1>1. TypeOK /\ HoldsWhatItRead /\ Chain(heap, stack.head, List)
  BY DEF IInv
<1>2. /\ UNCHANGED <<heap, live, prev, next, popped, pushed>>
      /\ pc[t] = "push_cas" /\ pc' = [pc EXCEPT ![t] = "idle"]
      /\ node' = [node EXCEPT ![t] = Null]
      /\ stack = prev[t]
  BY DEF PushCas, GoTo
<1>3. n # Null /\ n \in live \ ToSet(List) /\ n \in Addr
  BY <1>1, <1>2, NodesApart DEF HoldsWhatItRead, HoldsRight, TypeOK
<1>4. stack' = [tag |-> stack.tag + 1, head |-> n] /\ stack.tag \in Nat
  <2>1. Pushing # {}
    BY <1>3 DEF Pushing
  <2> QED
    BY <1>2, <2>1, TagRoom DEF PushCas
<1>5. TypeOK'
  BY <1>1, <1>2, <1>3, <1>4 DEF TypeOK, Top
<1>6. /\ Chain(heap, n, <<n>> \o List)
      /\ Len(<<n>> \o List) = Len(List) + 1
      /\ ToSet(<<n>> \o List) = ToSet(List) \cup {n}
  <2>1. heap[n].next = stack.head
    BY <1>1, <1>2 DEF HoldsWhatItRead, HoldsRight
  <2> HIDE DEF List, n
  <2> QED
    BY <1>1, <1>3, <2>1, ChainLonger DEF TypeOK
<1>7. List' = <<n>> \o List /\ Chain(heap', stack'.head, List')
  BY <1>2, <1>4, <1>5, <1>6, Lists DEF TypeOK
<1>8. NodesAccountedFor'
  <2>1. /\ Holding[t] = {n} /\ Holding'[t] = {}
        /\ \A u \in Thread : u # t => Holding'[u] = Holding[u]
    BY <1>1, <1>2, <1>3 DEF Holding, Owned, TypeOK
  <2>2. Parted(List, live, Holding)
    BY AccountsPart DEF IInv
  <2>3. Parted(List', live, Holding')
    <3> HIDE DEF List, Holding, n
    <3> QED
      BY <1>6, <1>7, <2>1, <2>2 DEF Parted
  <2> QED
    BY <1>2, <1>5, <1>7, <2>3, PartAccounts
<1>9. HoldsWhatItRead'
  <2> SUFFICES ASSUME NEW u \in Thread PROVE HoldsRight(u)'
    BY DEF HoldsWhatItRead
  <2>1. u # t => pc'[u] = pc[u] /\ node'[u] = node[u]
    BY <1>1, <1>2 DEF TypeOK
  <2>2. pc'[t] = "idle" /\ node'[t] = Null
    BY <1>1, <1>2 DEF TypeOK
  <2>3. prev[u].tag \in Nat /\ stack'.tag = stack.tag + 1
    BY <1>1, <1>4 DEF TypeOK, Top
  <2>4. prev[u].tag <= stack.tag =>
          prev[u] # stack' /\ prev[u].tag <= stack'.tag
    BY <1>4, <2>3
  <2> HIDE DEF n
  <2> QED
    BY <1>1, <1>2, <2>1, <2>2, <2>4 DEF HoldsWhatItRead, HoldsRight
<1>10. LiveData' /\ heap[n].data \in Data
  BY <1>2, <1>3 DEF IInv, LiveData
<1>11. TagCounts'
  <2>1. Pushing' = Pushing \ {t} /\ t \in Pushing
    BY <1>1, <1>2, <1>3 DEF Pushing, TypeOK
  <2>2. IsFiniteSet(Pushing) /\ IsFiniteSet(pushed)
    BY <1>1, FiniteAssumption, FS_Subset DEF Pushing, TypeOK
  <2>3. /\ Cardinality(Pushing') = Cardinality(Pushing) - 1
        /\ Cardinality(pushed') = Cardinality(pushed) + 0
        /\ Cardinality(Pushing) \in Nat
    BY <1>2, <2>1, <2>2, FS_RemoveElement, FS_CardinalityType
  <2>4. Cardinality(Pushing') = Cardinality(Pushing) + (-1)
    <3> HIDE DEF Pushing
    <3> QED
      BY <2>3
  <2>5. Len(List') = Len(List) + 1 /\ stack'.tag = stack.tag + 1
    BY <1>4, <1>6, <1>7
  <2> QED
    BY <2>3, <2>4, <2>5, Sums
<1> QED
  BY <1>5, <1>7, <1>8, <1>9, <1>10, <1>11 DEF IInv

LEMMA PopCasStep ==
  ASSUME IInv, NEW t \in Thread, PopCas(t)
  PROVE  /\ IInv'
         /\ List # <<>> /\ Head(List) = prev[t].head /\ List' = Tail(List)
         /\ heap[prev[t].head].data \in Data
<1> DEFINE a == stack.head
<1>1. TypeOK /\ HoldsWhatItRead /\ Chain(heap, a, List)
  BY DEF IInv
<1>2. /\ UNCHANGED <<heap, live, node, prev, next, popped, pushed>>
      /\ pc[t] = "pop_cas" /\ pc' = [pc EXCEPT ![t] = "pop_take"]
      /\ stack = prev[t]
  BY DEF PopCas, GoTo
<1>3. a # Null /\ next[t] = heap[a].next
  BY <1>1, <1>2 DEF HoldsWhatItRead, HoldsRight
<1>4. stack' = [tag |-> stack.tag + 1, head |-> heap[a].next]
      /\ stack.tag \in Nat
  BY <1>2, <1>3, TagRoom DEF PopCas
<1>5. TypeOK'
  <2>1. heap[a].next \in Addr \cup {Null}
    BY <1>1, <1>3 DEF TypeOK
  <2> QED
    BY <1>1, <1>2, <1>4, <2>1 DEF TypeOK, Top
<1>6. /\ List # <<>> /\ List[1] = a /\ a \in ToSet(List)
      /\ Chain(heap, heap[a].next, Tail(List))
      /\ Len(Tail(List)) = Len(List) - 1
      /\ ToSet(Tail(List)) = ToSet(List) \ {a}
  <2> HIDE DEF List, a
  <2> QED
    BY <1>1, <1>3, ChainShorter DEF TypeOK
<1>7. List' = Tail(List) /\ Chain(heap', stack'.head, List')
  BY <1>2, <1>4, <1>5, <1>6, Lists DEF TypeOK
<1>8. NodesAccountedFor'
  <2>1. /\ Holding[t] = {} /\ Holding'[t] = {a}
        /\ \A u \in Thread : u # t => Holding'[u] = Holding[u]
    BY <1>1, <1>2 DEF Holding, Owned, TypeOK, HoldsWhatItRead, HoldsRight
  <2>2. Parted(List, live, Holding)
    BY AccountsPart DEF IInv
  <2>3. Parted(List', live, Holding')
    <3> HIDE DEF List, Holding, a
    <3> QED
      BY <1>6, <1>7, <2>1, <2>2 DEF Parted
  <2> QED
    BY <1>2, <1>5, <1>7, <2>3, PartAccounts
<1>9. HoldsWhatItRead'
  <2> SUFFICES ASSUME NEW u \in Thread PROVE HoldsRight(u)'
    BY DEF HoldsWhatItRead
  <2>1. u # t => pc'[u] = pc[u]
    BY <1>1, <1>2 DEF TypeOK
  <2>2. pc'[t] = "pop_take"
    BY <1>1, <1>2 DEF TypeOK
  <2>3. prev[u].tag \in Nat /\ stack'.tag = stack.tag + 1
    BY <1>1, <1>4 DEF TypeOK, Top
  <2>4. prev[u].tag <= stack.tag =>
          prev[u] # stack' /\ prev[u].tag <= stack'.tag
    BY <1>4, <2>3
  <2> HIDE DEF a
  <2> QED
    BY <1>1, <1>2, <2>1, <2>2, <2>4 DEF HoldsWhatItRead, HoldsRight
<1>10. LiveData' /\ heap[a].data \in Data
  BY <1>2, <1>3, NodesApart DEF IInv, LiveData
<1>11. TagCounts'
  <2>1. Len(List) \in Nat
    BY <1>1 DEF Chain
  <2>2. Len(List') = Len(List) + (-1) /\ stack'.tag = stack.tag + 1
    BY <1>4, <1>6, <1>7, <2>1
  <2>3. Pushing' = Pushing /\ pushed' = pushed
    BY <1>2 DEF Pushing
  <2>4. /\ Cardinality(Pushing) \in Nat /\ Cardinality(pushed) \in Nat
    BY <1>1, FiniteAssumption, FS_Subset, FS_CardinalityType
    DEF Pushing, TypeOK
  <2>5. /\ Cardinality(Pushing') = Cardinality(Pushing) + 0
        /\ Cardinality(pushed') = Cardinality(pushed) + 0
    <3> HIDE DEF Pushing
    <3> QED
      BY <2>3, <2>4
  <2> QED
    BY <2>2, <2>5, Sums
<1>12. Head(List) = prev[t].head
  BY <1>2, <1>6
<1> QED
  BY <1>2, <1>5, <1>6, <1>7, <1>8, <1>9, <1>10, <1>11, <1>12 DEF IInv

LEMMA PopTakeStep ==
  ASSUME IInv, NEW t \in Thread, PopTake(t)
  PROVE  IInv' /\ List' = List
<1> DEFINE a == prev[t].head
<1>1. TypeOK /\ HoldsWhatItRead
  BY DEF IInv
<1>2. /\ UNCHANGED <<stack, node, prev, next, pushed>>
      /\ pc[t] = "pop_take" /\ pc' = [pc EXCEPT ![t] = "idle"]
      /\ popped' = [popped EXCEPT ![t] = heap[a].data]
      /\ live' = live \ {a}
      /\ heap' = [heap EXCEPT ![a] = [data |-> Garbage, next |-> Garbage]]
  BY DEF PopTake, GoTo
<1>3. a \in live \ ToSet(List) /\ a \in Addr /\ node[t] = Null
  BY <1>1, <1>2, NodesApart DEF HoldsWhatItRead, HoldsRight, TypeOK
<1>4. TypeOK'
  BY <1>1, <1>2, <1>3 DEF TypeOK, Struct
<1>5. \A x \in Addr : x # a => heap'[x] = heap[x]
  BY <1>1, <1>2 DEF TypeOK
<1>6. List' = List /\ Chain(heap', stack'.head, List')
  <2>1. \A x \in ToSet(List) : heap'[x].next = heap[x].next
    <3>1. ToSet(List) \subseteq Addr
      BY <1>1, NodesApart DEF TypeOK
    <3> QED
      BY <1>3, <1>5, <3>1
  <2> QED
    BY <1>2, <1>4, <2>1, SameList DEF TypeOK
<1>7. NodesAccountedFor'
  <2>1. /\ Holding[t] = {a} /\ Holding'[t] = {}
        /\ \A u \in Thread : u # t => Holding'[u] = Holding[u]
    BY <1>1, <1>2, <1>3 DEF Holding, Owned, TypeOK
  <2>2. Parted(List, live, Holding)
    BY AccountsPart DEF IInv
  <2>3. Parted(List', live', Holding')
    <3> HIDE DEF List, Holding, a
    <3> QED
      BY <1>2, <1>3, <1>6, <2>1, <2>2 DEF Parted
  <2> QED
    BY <1>4, <1>6, <2>3, PartAccounts
<1>8. HoldsWhatItRead'
  <2> SUFFICES ASSUME NEW u \in Thread PROVE HoldsRight(u)'
    BY DEF HoldsWhatItRead
  <2>1. u # t => pc'[u] = pc[u]
    BY <1>1, <1>2 DEF TypeOK
  <2>2. pc'[t] = "idle"
    BY <1>1, <1>2 DEF TypeOK
  <2>3. node[u] # Null => node[u] \in Addr /\ node[u] # a
    BY <1>1, <1>2, NodesApart DEF TypeOK
  <2>4. stack.head # Null => stack.head \in Addr /\ stack.head # a
    BY <1>1, <1>3, NodesApart DEF TypeOK
  <2> HIDE DEF a
  <2> QED
    BY <1>1, <1>2, <1>3, <1>5, <2>1, <2>2, <2>3, <2>4
    DEF HoldsWhatItRead, HoldsRight
<1>9. LiveData'
  BY <1>1, <1>2, <1>5 DEF IInv, LiveData, TypeOK
<1>10. TagCounts'
  BY <1>2, <1>6 DEF IInv, TagCounts, Pushing
<1> QED
  BY <1>4, <1>6, <1>7, <1>8, <1>9, <1>10 DEF IInv

-----------------------------------------------------------------------------
(* The invariant holds                                                     *)

LEMMA IInvInit == Init => IInv
<1> SUFFICES ASSUME Init PROVE IInv
  OBVIOUS
<1>1. /\ stack = [tag |-> 0, head |-> Null] /\ live = {} /\ pushed = {}
      /\ heap = [a \in Addr |-> [data |-> Garbage, next |-> Garbage]]
      /\ pc = [t \in Thread |-> "idle"] /\ node = [t \in Thread |-> Null]
  BY DEF Init
<1>2. TypeOK
  BY DEF Init, TypeOK, Top, Struct
<1>3. List = <<>> /\ Chain(heap, stack.head, List)
  <2>1. Chain(heap, stack.head, <<>>)
    BY <1>1 DEF Chain, Met, Beyond
  <2> QED
    BY <1>2, <2>1, ListIs DEF TypeOK, List
<1>4. Pushing = {} /\ \A t \in Thread : Owned(t) = {}
  BY <1>1 DEF Pushing, Owned
<1>5. NodesAccountedFor
  <2> HIDE DEF List
  <2> QED
    BY <1>1, <1>3, <1>4 DEF NodesAccountedFor, ToSet
<1>6. HoldsWhatItRead /\ LiveData
  BY <1>1 DEF HoldsWhatItRead, HoldsRight, LiveData
<1>7. TagCounts
  <2>1. /\ stack.tag = 0 /\ Len(List) = 0 /\ Cardinality(Pushing) = 0
        /\ Cardinality(pushed) = 0
    BY <1>1, <1>3, <1>4, FS_EmptySet
  <2> QED
    BY <2>1 DEF TagCounts
<1> QED
  BY <1>2, <1>3, <1>5, <1>6, <1>7 DEF IInv

LEMMA IInvStep == IInv /\ [Next]_vars => IInv'
<1> SUFFICES ASSUME IInv, [Next]_vars PROVE IInv'
  OBVIOUS
<1>1. CASE UNCHANGED vars
  BY <1>1 DEF vars, IInv, TypeOK, Chain, Met, Beyond, List, NodesAccountedFor,
              Owned, HoldsWhatItRead, HoldsRight, LiveData, TagCounts, Pushing
<1>2. ASSUME NEW t \in Thread, ThreadStep(t)
      PROVE  IInv'
  BY <1>2, MallocStep, PushLoadStep, PushLinkStep, PushCasStep, PopLoadStep,
     PopNullStep, PopNextStep, PopCasStep, PopTakeStep DEF ThreadStep
<1> QED
  BY <1>1, <1>2 DEF Next

LEMMA IInvAlways == Spec => []IInv
BY IInvInit, IInvStep, PTL DEF Spec

\* NodesAccountedFor: no node is freed twice, lost, or in two places, although
\* pop reads nodes it does not own (main.c:52-69).
THEOREM NodesAccounted == Spec => []NodesAccountedFor
<1>1. IInv => NodesAccountedFor
  BY DEF IInv
<1> QED
  BY <1>1, IInvAlways, PTL

\* The tag never comes back to an older value, which pop relies on.
THEOREM TagOnlyGrows ==
  Spec => [][stack' # stack => stack'.tag > stack.tag]_vars
<1>1. ASSUME IInv, [Next]_vars, stack' # stack
      PROVE  stack'.tag > stack.tag
  <2>1. PICK t \in Thread : PushCas(t) \/ PopCas(t)
    BY <1>1 DEF Next, ThreadStep, Malloc, PushLoad, PushLink, PopLoad, PopNull,
                PopNext, PopTake, vars
  <2>2. stack.head # Null \/ Pushing # {}
    BY <1>1, <2>1
    DEF IInv, HoldsWhatItRead, HoldsRight, PushCas, PopCas, Pushing, GoTo
  <2>3. stack'.tag = NextTag(stack)
    BY <2>1 DEF PushCas, PopCas
  <2> QED
    BY <1>1, <2>2, <2>3, TagRoom
<1> QED
  BY <1>1, IInvAlways, PTL DEF Spec

-----------------------------------------------------------------------------
(* The stack is a LifoStack                                                *)

\* A step that keeps the list, the payloads in it and those popped.
LEMMA Stutters ==
  ASSUME IInv, List' = List,
         \A a \in ToSet(List) : heap'[a].data = heap[a].data,
         \A u \in Thread : Got'[u] = Got[u]
  PROVE  UNCHANGED <<Items, Got>>
<1>1. Items' = Items
  <2>1. \A i \in DOMAIN List : heap'[List[i]].data = heap[List[i]].data
    <3> HIDE DEF List
    <3> QED
      BY DEF ToSet
  <2> HIDE DEF List
  <2> QED
    BY <2>1 DEF Items
<1>2. Got' = Got
  BY DEF Got
<1> QED
  BY <1>1, <1>2

LEMMA PushesOne ==
  ASSUME IInv, NEW t \in Thread, PushCas(t)
  PROVE  \E v \in Data : Lifo!Push(v)
<1> DEFINE n == node[t]
<1>1. List' = <<n>> \o List /\ heap[n].data \in Data /\ heap' = heap
  BY PushCasStep DEF PushCas
<1>2. List \in Seq(Addr) /\ Items = [i \in DOMAIN List |-> heap[List[i]].data]
  BY DEF IInv, Chain, Items
<1>3. Items' = [i \in DOMAIN List' |-> heap[List'[i]].data]
  BY <1>1 DEF Items
<1>4. Items' = <<heap[n].data>> \o Items
  <2> DEFINE s == List v == heap[n].data
  <2> HIDE DEF s, n, v
  <2>1. Len(s) \in Nat /\ DOMAIN s = 1..Len(s) /\ s \in Seq(Addr)
    BY <1>2 DEF s
  <2> DEFINE r == <<n>> \o s
             w == [i \in DOMAIN s |-> heap[s[i]].data]
             x == [i \in DOMAIN r |-> heap[r[i]].data]
  <2>2. /\ r \in Seq(Addr \cup {n}) /\ DOMAIN r = 1..(Len(s) + 1) /\ r[1] = n
        /\ \A i \in 2..(Len(s) + 1) : r[i] = s[i - 1]
    BY <2>1
  <2>3. /\ DOMAIN w = 1..Len(s) /\ \A i \in DOMAIN s : w[i] = heap[s[i]].data
        /\ DOMAIN x = 1..(Len(s) + 1)
        /\ \A i \in DOMAIN r : x[i] = heap[r[i]].data
    BY <2>1, <2>2
  <2> DEFINE S == {heap[y].data : y \in Addr \cup {n}}
  <2>4. w \in Seq(S) /\ Len(w) = Len(s) /\ x \in Seq(S) /\ Len(x) = Len(s) + 1
        /\ v \in S
    <3>1. w \in [1..Len(s) -> S] /\ x \in [1..(Len(s) + 1) -> S]
      BY <2>1, <2>2
    <3>2. v \in S
      BY DEF v
    <3> HIDE DEF w, x, S
    <3> QED
      BY <2>1, <3>1, <3>2, SeqDef, LenProperties
  <2>5. x[1] = v /\ \A i \in 2..(Len(s) + 1) : x[i] = w[i - 1]
    BY <2>1, <2>2, <2>3 DEF v
  <2> HIDE DEF w, x, S, r
  <2>6. /\ <<v>> \o w \in Seq(S) /\ Len(<<v>> \o w) = Len(s) + 1
        /\ (<<v>> \o w)[1] = v
        /\ \A i \in 2..(Len(s) + 1) : (<<v>> \o w)[i] = w[i - 1]
    BY <2>1, <2>4
  <2>7. x = <<v>> \o w
    <3> DEFINE z == <<v>> \o w
    <3>1. \A i \in 1..(Len(s) + 1) : i = 1 \/ i \in 2..(Len(s) + 1)
      BY <2>1
    <3> HIDE DEF z
    <3>2. \A i \in 1..(Len(s) + 1) : x[i] = z[i]
      BY <2>5, <2>6, <3>1 DEF z
    <3>3. z \in Seq(S) /\ Len(z) = Len(x)
      BY <2>4, <2>6 DEF z
    <3>4. x = z
      BY <2>4, <3>2, <3>3, SeqEqual
    <3> QED
      BY <3>4 DEF z
  <2> QED
    BY <1>1, <1>2, <1>3, <2>7 DEF s, n, v, w, x, r
<1>5. Got' = Got
  BY DEF Got, PushCas, GoTo, IInv, TypeOK
<1> QED
  BY <1>1, <1>4, <1>5 DEF Lifo!Push

LEMMA PopsOne ==
  ASSUME IInv, NEW t \in Thread, PopCas(t)
  PROVE  Lifo!Pop(t)
<1> DEFINE a == prev[t].head
<1>1. List # <<>> /\ Head(List) = a /\ List' = Tail(List) /\ heap' = heap
  BY PopCasStep DEF PopCas
<1>2. List \in Seq(Addr) /\ Items = [i \in DOMAIN List |-> heap[List[i]].data]
  BY DEF IInv, Chain, Items
<1>3. Items' = [i \in DOMAIN List' |-> heap[List'[i]].data]
  BY <1>1 DEF Items
<1>4. Items # <<>> /\ Head(Items) = heap[a].data /\ Items' = Tail(Items)
  <2> DEFINE s == List
  <2>1. Len(s) \in Nat /\ DOMAIN s = 1..Len(s) /\ s \in Seq(Addr) /\ s # <<>>
    BY <1>1, <1>2
  <2> HIDE DEF s
  <2> DEFINE r == Tail(s)
             w == [i \in DOMAIN s |-> heap[s[i]].data]
             x == [i \in DOMAIN r |-> heap[r[i]].data]
             S == {heap[y].data : y \in Addr}
  <2>2. /\ r \in Seq(Addr) /\ Len(r) = Len(s) - 1 /\ DOMAIN r = 1..(Len(s) - 1)
        /\ \A i \in 1..(Len(s) - 1) : r[i] = s[i + 1]
        /\ Len(s) - 1 \in Nat
    <3>1. Len(s) # 0
      BY <2>1
    <3> QED
      BY <2>1, <3>1, HeadTailProperties
  <2>3. /\ w \in [1..Len(s) -> S] /\ x \in [1..(Len(s) - 1) -> S]
        /\ \A i \in 1..Len(s) : w[i] = heap[s[i]].data
        /\ \A i \in 1..(Len(s) - 1) : x[i] = heap[s[i + 1]].data
    BY <2>1, <2>2
  <2> HIDE DEF w, x, S, r
  <2>4. w \in Seq(S) /\ Len(w) = Len(s) /\ x \in Seq(S) /\ Len(x) = Len(s) - 1
    <3>1. w \in Seq(S) /\ Len(w) = Len(s)
      BY <2>1, <2>3, SeqDef, LenProperties
    <3> DEFINE m == Len(s) - 1
    <3>2. m \in Nat /\ x \in [1..m -> S]
      BY <2>2, <2>3
    <3> HIDE DEF m
    <3>3. x \in Seq(S) /\ Len(x) = m
      BY <3>2, SeqDef, LenProperties
    <3> QED
      BY <3>1, <3>3 DEF m
  <2>5. w # <<>> /\ Tail(w) \in Seq(S) /\ Len(Tail(w)) = Len(s) - 1
        /\ \A i \in 1..(Len(s) - 1) : Tail(w)[i] = w[i + 1]
    BY <2>1, <2>2, <2>4, HeadTailProperties
  <2>6. \A i \in 1..(Len(s) - 1) : x[i] = Tail(w)[i]
    BY <2>1, <2>3, <2>5
  <2>7. x = Tail(w)
    BY <2>4, <2>5, <2>6, SeqEqual
  <2>8. Head(w) = heap[Head(s)].data
    <3>1. 1 \in 1..Len(s)
      BY <2>1
    <3> QED
      BY <2>1, <2>3, <2>4, <2>5, <3>1
  <2> QED
    BY <1>1, <1>2, <1>3, <2>5, <2>7, <2>8 DEF s, w, x, r
<1>5. Got' = [Got EXCEPT ![t] = heap[a].data]
  BY DEF Got, PopCas, GoTo, IInv, TypeOK
<1> QED
  BY <1>4, <1>5 DEF Lifo!Pop

LEMMA PopsNothing ==
  ASSUME IInv, NEW t \in Thread, PopNull(t)
  PROVE  Lifo!PopNothing(t)
<1>1. List = <<>>
  <2>1. Chain(heap, Null, List)
    BY DEF IInv, PopNull
  <2> HIDE DEF List
  <2> QED
    BY <2>1, NullAssumption DEF Chain, Met
<1>2. Items = <<>>
  <2> HIDE DEF List
  <2> QED
    BY <1>1 DEF Items
<1>3. Items' = Items
  BY DEF Items, List, PopNull
<1>4. Got' = [Got EXCEPT ![t] = Null]
  BY DEF Got, PopNull, IInv, TypeOK
<1> QED
  BY <1>2, <1>3, <1>4 DEF Lifo!PopNothing

LEMMA OtherSteps ==
  ASSUME IInv, NEW t \in Thread,
         \/ Malloc(t) \/ PushLoad(t) \/ PushLink(t)
         \/ PopLoad(t) \/ PopNext(t) \/ PopTake(t)
  PROVE  UNCHANGED <<Items, Got>>
<1>1. CASE PushLoad(t) \/ PopLoad(t) \/ PopNext(t)
  <2>1. UNCHANGED <<stack, heap, popped>>
    BY <1>1 DEF PushLoad, PopLoad, PopNext
  <2>2. \A u \in Thread : Got'[u] = Got[u]
    BY <1>1 DEF Got, PushLoad, PopLoad, PopNext, GoTo, IInv, TypeOK
  <2>3. List' = List
    BY <2>1 DEF List
  <2> QED
    BY <2>1, <2>2, <2>3, Stutters
<1>2. CASE Malloc(t)
  <2>1. PICK a \in Addr \ live, v \in Data :
          heap' = [heap EXCEPT ![a] = [data |-> v, next |-> Garbage]]
    BY <1>2 DEF Malloc
  <2>2. \A x \in live : heap'[x] = heap[x]
    BY <2>1 DEF IInv, TypeOK
  <2>3. List' = List
    <3>1. IInv'
      BY <1>2, MallocStep
    <3>2. \A x \in ToSet(List) : heap'[x].next = heap[x].next
      BY <2>2, NodesApart
    <3> QED
      BY <1>2, <3>1, <3>2, SameList DEF IInv, TypeOK, Malloc
  <2>4. \A u \in Thread : Got'[u] = Got[u]
    <3>1. \A u \in Thread : pc[u] = "pop_take" => prev[u].head \in live
      BY NodesApart
    <3> QED
      BY <1>2, <2>2, <3>1 DEF Got, Malloc, GoTo, IInv, TypeOK
  <2> QED
    BY <2>2, <2>3, <2>4, NodesApart, Stutters
<1>3. CASE PushLink(t)
  <2>1. \A x \in Addr : heap'[x].data = heap[x].data
    BY <1>3 DEF PushLink, IInv, TypeOK, Struct
  <2>2. ToSet(List) \subseteq Addr
    BY NodesApart DEF IInv, TypeOK
  <2>3. List' = List
    <3>1. IInv'
      BY <1>3, PushLinkStep
    <3>2. node[t] \notin ToSet(List) /\ stack' = stack
          /\ heap' = [heap EXCEPT ![node[t]].next = prev[t].head]
      BY <1>3, NodesApart
      DEF PushLink, GoTo, IInv, HoldsWhatItRead, HoldsRight
    <3>3. \A x \in ToSet(List) : heap'[x].next = heap[x].next
      <4> HIDE DEF List
      <4> QED
        BY <2>2, <3>2 DEF IInv, TypeOK
    <3> QED
      BY <3>1, <3>2, <3>3, SameList DEF IInv, TypeOK
  <2>4. \A u \in Thread : Got'[u] = Got[u]
    <3>1. \A u \in Thread : pc[u] = "pop_take" => prev[u].head \in Addr
      BY NodesApart DEF IInv, TypeOK
    <3> QED
      BY <1>3, <2>1, <3>1 DEF Got, PushLink, GoTo, IInv, TypeOK
  <2> QED
    BY <2>1, <2>2, <2>3, <2>4, Stutters
<1>4. CASE PopTake(t)
  <2> DEFINE b == prev[t].head
  <2>1. /\ pc[t] = "pop_take" /\ pc' = [pc EXCEPT ![t] = "idle"]
        /\ prev' = prev
        /\ popped' = [popped EXCEPT ![t] = heap[b].data]
        /\ heap' = [heap EXCEPT ![b] = [data |-> Garbage, next |-> Garbage]]
    BY <1>4 DEF PopTake, GoTo
  <2>2. b \in live \ ToSet(List) /\ live \subseteq Addr
    BY <2>1, NodesApart DEF IInv, TypeOK
  <2>3. \A x \in live : x # b => heap'[x] = heap[x]
    BY <2>1, <2>2 DEF IInv, TypeOK
  <2>4. List' = List
    BY <1>4, PopTakeStep
  <2>5. \A u \in Thread : Got'[u] = Got[u]
    <3>1. \A u \in Thread \ {t} :
            pc[u] = "pop_take" => prev[u].head \in live \ {b}
      BY <2>1, NodesApart
    <3> QED
      BY <2>1, <2>3, <3>1 DEF Got, IInv, TypeOK
  <2>6. \A x \in ToSet(List) : heap'[x].data = heap[x].data
    BY <2>2, <2>3, NodesApart
  <2> QED
    BY <2>4, <2>5, <2>6, Stutters
<1> QED
  BY <1>1, <1>2, <1>3, <1>4

\* ImplementsLifo: the successful compare-and-swap of push or pop is the
\* atomic operation, and all other steps of both are invisible.
THEOREM Linearizable == Spec => ImplementsLifo
<1>1. Init => Lifo!Init
  <2> SUFFICES ASSUME Init PROVE Lifo!Init
    OBVIOUS
  <2>1. List = <<>>
    <3>1. Chain(heap, Null, <<>>) /\ heap \in [Addr -> Struct]
      BY DEF Init, Chain, Met, Beyond, Struct
    <3> QED
      BY <3>1, ListIs DEF Init, List
  <2>2. Items = <<>>
    <3> HIDE DEF List
    <3> QED
      BY <2>1 DEF Items
  <2>3. Got = [t \in Thread |-> Null]
    BY DEF Init, Got
  <2> QED
    BY <2>2, <2>3 DEF Lifo!Init
<1>2. IInv /\ [Next]_vars => [Lifo!Next]_<<Items, Got>>
  <2> SUFFICES ASSUME IInv, [Next]_vars
               PROVE  Lifo!Next \/ UNCHANGED <<Items, Got>>
    OBVIOUS
  <2>1. CASE UNCHANGED vars
    BY <2>1 DEF vars, Items, Got, List
  <2>2. ASSUME NEW t \in Thread, PushCas(t) PROVE Lifo!Next
    BY <2>2, PushesOne DEF Lifo!Next
  <2>3. ASSUME NEW t \in Thread, PopCas(t) PROVE Lifo!Next
    BY <2>3, PopsOne DEF Lifo!Next
  <2>4. ASSUME NEW t \in Thread, PopNull(t) PROVE Lifo!Next
    BY <2>4, PopsNothing DEF Lifo!Next
  <2> QED
    BY <2>1, <2>2, <2>3, <2>4, OtherSteps DEF Next, ThreadStep
<1> QED
  BY <1>1, <1>2, IInvAlways, PTL DEF Spec, ImplementsLifo, Lifo!Spec
=============================================================================
