---------------------------- MODULE CircuitProofs ----------------------------
(* Proofs about CircuitSolver, for any circuits and any size of the pool:   *)
(* what tasks and clients are given is right, nothing runs on for a task    *)
(* that has ended, and only stop() makes a circuit fail.  The last part is  *)
(* about CircuitValue, for any number of callers and interrupts.            *)
EXTENDS CircuitSolver, CircuitValue, FiniteSetTheorems, SequenceTheorems, TLAPS

Message == [value : BOOLEAN, index : Int]

TypeOK ==
  /\ value \in Valuation
  /\ asked \in SUBSET Root
  /\ accept \in BOOLEAN
  /\ pending \in SUBSET Node
  /\ queue \in Seq(Node)
  /\ pc \in [Node -> {"idle", "queued", "over"} \cup Active]
  /\ flag \in [Node -> BOOLEAN]
  /\ next \in [Node -> Nat]
  /\ box \in [Node -> Seq(Message)]
  /\ seen \in [Node -> Seq(Message)]
  /\ answer \in [Root -> Message]

\* A task submits its arguments in order, once each.
ArgsInOrder(n) ==
  /\ pc[n] \in {"idle", "queued", "eval"} => next[n] = 0
  /\ pc[n] = "submit" => next[n] < Len(Args[n])
  /\ pc[n] = "take" => next[n] = Len(Args[n])
  /\ \A i \in DOMAIN Args[n] : pc[Args[n][i]] = "idle" <=> i > next[n]

\* Only the nodes of the circuits have tasks.
Placed(n) == n \in Root \/ \E p \in Node : n \in Children(p)

InOrder ==
  /\ \A n \in Node : ArgsInOrder(n)
  /\ \A n \in Node : pc[n] # "idle" => Placed(n)
  /\ \A r \in Root \ asked : pc[r] = "idle"

\* Everything a task was sent, and which of its arguments have ended.
All(n) == seen[n] \o box[n]
Done(n) == {i \in DOMAIN Args[n] : pc[Args[n][i]] = "over"}

\* s may be what node n was sent if the arguments D have ended: at most one
\* result of each, which is right if the circuit has the values v.
Right(n, s, v) ==
  \A k \in DOMAIN s :
    s[k].index # -1 => s[k].value = v[Args[n][s[k].index + 1]]
OneOfEach(n, s, D) ==
  /\ s \in Seq(Message) /\ Len(s) <= Cardinality(D)
  /\ \A k \in DOMAIN s : s[k].index # -1 => s[k].index + 1 \in D
  /\ \A k, l \in DOMAIN s :
       k # l /\ s[k].index # -1 => s[k].index # s[l].index

\* As long as stop() has not been called a task that still needs its
\* arguments is sent no failure; if it has, a NOT node negates one.
Faithful == accept \/ \A n \in Node : Type[n] # "NOT"

Sent ==
  \A n \in Node :
    /\ OneOfEach(n, All(n), Done(n))
    /\ Faithful => Right(n, All(n), value)

Wanted(n) == pc[n] # "over" /\ Type[n] # "IF"

Undisturbed ==
  accept =>
    /\ pending = {}
    /\ \A r \in Root : ~flag[r]
    /\ \A n \in Node : Wanted(n) =>
         /\ \A m \in Children(n) : ~flag[m]
         /\ \A k \in DOMAIN All(n) : All(n)[k].index # -1

Answers ==
  /\ Faithful => AnswerRight
  /\ FailureOnlyWhenStopped

IInv ==
  TypeOK /\ InOrder /\ Sent /\ Undisturbed /\ NoOrphans /\ Answers
-----------------------------------------------------------------------------
(* Circuits                                                                *)

LEMMA Shape ==
  ASSUME NEW n \in Node
  PROVE  /\ Args[n] \in Seq(Node) /\ Len(Args[n]) \in Nat
         /\ DOMAIN Args[n] = 1..Len(Args[n]) /\ IsFiniteSet(DOMAIN Args[n])
         /\ Cardinality(DOMAIN Args[n]) = Len(Args[n])
         /\ Children(n) \subseteq Node \ Root /\ n \notin Children(n)
         /\ Type[n] = "LEAF" => Children(n) = {}
         /\ Type[n] # "LEAF" => Len(Args[n]) > 0
<1>1. /\ Args[n] \in Seq(Node) /\ Len(Args[n]) \in Nat
      /\ DOMAIN Args[n] = 1..Len(Args[n])
  BY CircuitAssumption
<1>2. /\ IsFiniteSet(DOMAIN Args[n])
      /\ Cardinality(DOMAIN Args[n]) = Len(Args[n])
  BY <1>1, FS_Interval
<1>3. Children(n) \subseteq Node \ Root /\ n \notin Children(n)
  <2>1. Children(n) \cap Root = {} /\ n \notin Children(n)
    BY CircuitAssumption
  <2>2. Children(n) \subseteq Node
    BY <1>1, ElementOfSeq DEF Children
  <2> QED
    BY <2>1, <2>2
<1>4. /\ Type[n] = "LEAF" => Len(Args[n]) = 0
      /\ Type[n] # "LEAF" => Len(Args[n]) > 0
  <2>1. /\ SimpleArity(n)
        /\ Type[n] \in {"LEAF", "NOT", "AND", "OR", "IF", "GT", "LT"}
    BY CircuitAssumption
  <2>2. /\ Type[n] = "LEAF" => Len(Args[n]) = 0
        /\ Type[n] = "NOT" => Len(Args[n]) = 1
        /\ Type[n] = "IF" => Len(Args[n]) = 3
    BY <2>1 DEF SimpleArity
  <2>3. Type[n] \in {"AND", "OR"} => Len(Args[n]) >= 2
    BY <2>1 DEF SimpleArity
  <2>4. Type[n] \in {"GT", "LT"} => Len(Args[n]) >= 1
    BY <2>1 DEF SimpleArity
  <2>5. \A l \in Nat : (l = 1 \/ l = 3 \/ l >= 2 \/ l >= 1) => l > 0
    OBVIOUS
  <2> QED
    BY <1>1, <2>1, <2>2, <2>3, <2>4, <2>5
<1>5. Len(Args[n]) = 0 => Children(n) = {}
  BY <1>1 DEF Children
<1> QED
  BY <1>1, <1>2, <1>3, <1>4, <1>5

LEMMA OneParent ==
  ASSUME NEW p \in Node, NEW q \in Node, NEW i \in DOMAIN Args[p],
         NEW j \in DOMAIN Args[q], Args[p][i] = Args[q][j]
  PROVE  p = q /\ i = j
BY CircuitAssumption

LEMMA IndexOf ==
  ASSUME NEW p \in Node, NEW i \in DOMAIN Args[p]
  PROVE  Index(Args[p][i]) = i - 1
<1> DEFINE n == Args[p][i]
           S == UNION {DOMAIN Args[q] : q \in Node}
           Here(j) == \E q \in Node : j \in DOMAIN Args[q] /\ Args[q][j] = n
<1>1. n \notin Root
  BY CircuitAssumption DEF Children
<1>2. i \in S /\ Here(i)
  OBVIOUS
<1>3. \A j \in S : Here(j) => j = i
  BY OneParent
<1>4. (CHOOSE j \in S : Here(j)) = i
  <2> HIDE DEF S, Here
  <2> QED
    BY <1>2, <1>3
<1> QED
  BY <1>1, <1>4 DEF Index

LEMMA PlacedIndex ==
  ASSUME NEW n \in Node, Placed(n)
  PROVE  Index(n) \in Nat /\ Index(n) # -1
<1>1. CASE n \in Root
  BY <1>1 DEF Index
<1>2. CASE \E p \in Node : n \in Children(p)
  <2>1. PICK p \in Node : \E i \in DOMAIN Args[p] : Args[p][i] = n
    BY <1>2 DEF Children
  <2>2. PICK i \in DOMAIN Args[p] : Args[p][i] = n
    BY <2>1
  <2>3. Index(n) = i - 1
    BY <2>2, IndexOf
  <2> QED
    BY <2>2, <2>3, Shape
<1> QED
  BY <1>1, <1>2 DEF Placed

-----------------------------------------------------------------------------
(* Verdicts                                                                *)

LEMMA Kinds ==
  ASSUME NEW b \in BOOLEAN
  PROVE  /\ Answer(b).kind = "answer" /\ Answer(b).value = b
         /\ Answer(b) \notin {Wait, Fail, Silent}
         /\ Wait # Fail /\ Wait # Silent /\ Fail # Silent
         /\ Fail.value = FALSE /\ Fail.kind # "answer"
BY DEF Answer, Wait, Fail, Silent

LEMMA OneAnswer ==
  ASSUME NEW b \in BOOLEAN, NEW c \in BOOLEAN, Answer(b) = Answer(c)
  PROVE  b = c
<1>1. Answer(b).value = b /\ Answer(c).value = c
  BY Kinds
<1> QED
  BY <1>1

Verdicts == {Wait, Fail, Silent} \cup {Answer(b) : b \in BOOLEAN}

LEMMA Branch ==
  ASSUME NEW n \in Node, Type[n] # "LEAF", NEW s
  PROVE  /\ Type[n] = "NOT" => Verdict(n, s) = VerdictNOT(n, s)
         /\ Type[n] = "AND" => Verdict(n, s) = VerdictAND(n, s)
         /\ Type[n] = "OR" => Verdict(n, s) = VerdictOR(n, s)
         /\ Type[n] = "GT" => Verdict(n, s) = VerdictGT(n, s)
         /\ Type[n] = "LT" => Verdict(n, s) = VerdictLT(n, s)
         /\ Type[n] = "IF" => Verdict(n, s) = VerdictIF(n, s)
         /\ Type[n] \in {"NOT", "AND", "OR", "GT", "LT", "IF"}
BY CircuitAssumption DEF Verdict

LEMMA VerdictType ==
  ASSUME NEW n \in Node, Type[n] # "LEAF", NEW s \in Seq(Message)
  PROVE  /\ Verdict(n, s) \in Verdicts
         /\ Verdict(n, s) = Silent => Type[n] = "IF"
         /\ Verdict(n, s) = Fail => Failed(s) /\ Type[n] # "IF"
<1>1. CASE Type[n] = "NOT"
  <2>1. s # <<>> => s[1] \in Message
    <3>1. s # <<>> => 1 \in 1..Len(s)
      OBVIOUS
    <3> QED
      BY <3>1, ElementOfSeq
  <2>2. VerdictNOT(n, s) \in {Wait} \cup {Answer(b) : b \in BOOLEAN}
    BY <2>1 DEF VerdictNOT, Message
  <2> QED
    BY <1>1, <2>2, Branch, Kinds DEF Verdicts
<1>2. CASE Type[n] = "AND"
  BY <1>2, Branch, Kinds DEF Verdicts, VerdictAND
<1>3. CASE Type[n] = "OR"
  BY <1>3, Branch, Kinds DEF Verdicts, VerdictOR
<1>4. CASE Type[n] = "GT"
  BY <1>4, Branch, Kinds DEF Verdicts, VerdictGT
<1>5. CASE Type[n] = "LT"
  BY <1>5, Branch, Kinds DEF Verdicts, VerdictLT
<1>6. CASE Type[n] = "IF"
  <2>1. \A i : Of(s, i) \in BOOLEAN
    BY DEF Of
  <2>2. VerdictIF(n, s)
          \in {Wait, Silent} \cup {Answer(b) : b \in BOOLEAN}
    BY <2>1 DEF VerdictIF
  <2> QED
    BY <1>6, <2>2, Branch, Kinds DEF Verdicts
<1> QED
  BY <1>1, <1>2, <1>3, <1>4, <1>5, <1>6, Branch

\* What a task knows of its arguments once it has taken s.
LEMMA Reported ==
  ASSUME NEW n \in Node, NEW v \in Valuation, NEW s,
         OneOfEach(n, s, DOMAIN Args[n]), Right(n, s, v), Type[n] # "LEAF"
  PROVE  /\ s \in Seq(Message) /\ Len(s) \in Nat /\ DOMAIN s = 1..Len(s)
         /\ Len(s) <= Len(Args[n])
         /\ \A k \in DOMAIN s : s[k] \in Message
         /\ \A k \in DOMAIN s : s[k].index # -1 =>
              /\ s[k].index + 1 \in DOMAIN Args[n]
              /\ s[k].value = ArgValues(n, v)[s[k].index + 1]
         /\ DOMAIN ArgValues(n, v) = DOMAIN Args[n]
         /\ \A i \in DOMAIN Args[n] : ArgValues(n, v)[i] \in BOOLEAN
         /\ v[n] = Meaning(n, ArgValues(n, v))
<1>1. s \in Seq(Message) /\ Len(s) \in Nat /\ DOMAIN s = 1..Len(s)
  BY DEF OneOfEach
<1>2. Len(s) <= Len(Args[n])
  BY Shape DEF OneOfEach
<1>3. \A k \in DOMAIN s : s[k] \in Message
  BY <1>1, ElementOfSeq
<1>4. v \in [Node -> BOOLEAN] /\ v[n] = Meaning(n, ArgValues(n, v))
  BY DEF Valuation
<1>5. \A i \in DOMAIN Args[n] : Args[n][i] \in Node
  BY Shape, ElementOfSeq
<1>6. /\ DOMAIN ArgValues(n, v) = DOMAIN Args[n]
      /\ \A i \in DOMAIN Args[n] : ArgValues(n, v)[i] = v[Args[n][i]]
  BY DEF ArgValues
<1> QED
  BY <1>1, <1>2, <1>3, <1>4, <1>5, <1>6 DEF OneOfEach, Right

\* The results without a failure that are true, or false, are of different
\* arguments that are.
LEMMA Counted ==
  ASSUME NEW n \in Node, NEW v \in Valuation, NEW s,
         OneOfEach(n, s, DOMAIN Args[n]), Right(n, s, v), Type[n] # "LEAF",
         ~Failed(s)
  PROVE  LET ones == Cardinality(True(DOMAIN ArgValues(n, v), ArgValues(n, v)))
         IN  /\ ones \in Nat /\ GotTrue(s) \in Nat
             /\ GotTrue(s) <= ones
             /\ Len(s) - GotTrue(s) <= Len(Args[n]) - ones
<1> DEFINE a == ArgValues(n, v)
           T == True(DOMAIN a, a)
           K == {k \in DOMAIN s : s[k].value /\ s[k].index # -1}
           A == DOMAIN Args[n]
           D == DOMAIN s
           f(S) == [k \in S |-> s[k].index + 1]
<1>1. /\ D = 1..Len(s) /\ Len(s) \in Nat /\ A = 1..Len(Args[n])
      /\ Len(Args[n]) \in Nat
      /\ IsFiniteSet(A) /\ Cardinality(A) = Len(Args[n]) /\ DOMAIN a = A
  BY Reported, Shape
<1>2. IsFiniteSet(D) /\ Cardinality(D) = Len(s)
  <2> DEFINE l == Len(s)
  <2>1. l \in Nat /\ D = 1..l
    BY <1>1
  <2> HIDE DEF l, D
  <2>2. IsFiniteSet(D) /\ Cardinality(D) = l
    BY <2>1, FS_Interval
  <2> QED
    BY <2>2 DEF l
<1>3. \A k \in D : /\ s[k].index # -1 /\ s[k].index \in Int
                   /\ s[k].index + 1 \in A /\ s[k].value \in BOOLEAN
                   /\ s[k].value <=> a[s[k].index + 1]
  BY Reported DEF Failed, Message
<1>4. \A k, l \in D : k # l => s[k].index + 1 # s[l].index + 1
  <2>1. \A k, l \in D : k # l => s[k].index # s[l].index
    BY <1>3 DEF OneOfEach
  <2> QED
    BY <1>3, <2>1
<1>5. T = {i \in A : a[i]} /\ T \subseteq A /\ IsFiniteSet(T)
  BY <1>1, FS_Subset DEF True
<1>6. K \subseteq D /\ K = {k \in D : s[k].value}
  BY <1>3
<1> HIDE DEF a, T, K, A, D
<1>7. f(K) \in Injection(K, T)
  BY <1>3, <1>4, <1>5, <1>6 DEF Injection, IsInjective
<1>8. f(D \ K) \in Injection(D \ K, A \ T)
  BY <1>3, <1>4, <1>5, <1>6 DEF Injection, IsInjective
<1>9. IsFiniteSet(K) /\ Cardinality(K) <= Cardinality(T)
  BY <1>5, <1>7, FS_Injection
<1>10. /\ IsFiniteSet(A \ T)
       /\ Cardinality(A \ T) = Cardinality(A) - Cardinality(T)
  <2>1. A \cap T = T
    BY <1>5
  <2> QED
    BY <1>1, <2>1, FS_Difference
<1>11. Cardinality(D \ K) = Cardinality(D) - Cardinality(K)
  <2>1. D \cap K = K
    BY <1>6
  <2> QED
    BY <1>2, <2>1, FS_Difference
<1>12. Cardinality(D \ K) <= Cardinality(A \ T)
  BY <1>8, <1>10, FS_Injection
<1>13. Cardinality(K) \in Nat /\ Cardinality(T) \in Nat
  BY <1>5, <1>9, FS_CardinalityType
<1>14. GotTrue(s) = Cardinality(K)
  BY DEF GotTrue, K
<1> QED
  BY <1>1, <1>2, <1>9, <1>10, <1>11, <1>12, <1>13, <1>14 DEF T, a

\* Once all results are there, every argument has sent one.
LEMMA Everyone ==
  ASSUME NEW n \in Node, NEW s, OneOfEach(n, s, DOMAIN Args[n]),
         ~Failed(s), AllTaken(n, s), NEW i \in DOMAIN Args[n]
  PROVE  \E k \in DOMAIN s : s[k].index = i - 1
<1> DEFINE A == DOMAIN Args[n]
           D == DOMAIN s
           f == [k \in D |-> s[k].index + 1]
<1>1. /\ s \in Seq(Message) /\ D = 1..Len(s) /\ Len(s) \in Nat
      /\ \A k \in D : s[k] \in Message
  BY ElementOfSeq DEF OneOfEach
<1>2. IsFiniteSet(A) /\ Cardinality(A) = Len(s) /\ Cardinality(D) = Len(s)
  BY <1>1, Shape, FS_Interval DEF AllTaken
<1>3. \A k \in D : /\ s[k].index # -1 /\ s[k].index \in Int
                   /\ s[k].index + 1 \in A
  BY <1>1 DEF Failed, Message, OneOfEach
<1>4. \A k, l \in D : k # l => s[k].index + 1 # s[l].index + 1
  <2>1. \A k, l \in D : k # l => s[k].index # s[l].index
    BY <1>3 DEF OneOfEach
  <2> QED
    BY <1>3, <2>1
<1>5. f \in Injection(D, A)
  <2> HIDE DEF A, D
  <2> QED
    BY <1>3, <1>4 DEF Injection, IsInjective
<1>6. f \in Surjection(D, A)
  <2> HIDE DEF A, D, f
  <2> QED
    BY <1>2, <1>5, FS_Injection
<1>7. PICK k \in D : f[k] = i
  BY <1>6 DEF Surjection
<1>8. s[k].index + 1 = i /\ s[k].index \in Int
  BY <1>3, <1>7
<1> QED
  BY <1>8

\* The answer to a client or a parent is what the sequential solver computes.
LEMMA AnswerIsValue ==
  ASSUME NEW n \in Node, NEW v \in Valuation, NEW s,
         OneOfEach(n, s, DOMAIN Args[n]), Right(n, s, v), Type[n] # "LEAF",
         Type[n] = "NOT" => ~Failed(s),
         NEW b \in BOOLEAN, Verdict(n, s) = Answer(b)
  PROVE  v[n] = b
<1> DEFINE a == ArgValues(n, v)
           A == DOMAIN Args[n]
           ones == Cardinality(True(DOMAIN a, a))
<1>1. /\ s \in Seq(Message) /\ Len(s) \in Nat /\ DOMAIN s = 1..Len(s)
      /\ \A k \in DOMAIN s : s[k] \in Message
      /\ \A k \in DOMAIN s : s[k].index # -1 =>
           s[k].index + 1 \in A /\ s[k].value = a[s[k].index + 1]
      /\ DOMAIN a = A /\ \A i \in A : a[i] \in BOOLEAN
      /\ v[n] = Meaning(n, a) /\ v[n] \in BOOLEAN
  BY Reported DEF Valuation
<1>2. /\ A = 1..Len(Args[n]) /\ Len(Args[n]) \in Nat
  BY Shape
<1>3. /\ \A c \in BOOLEAN : Verdict(n, s) = Answer(c) => b = c
      /\ Verdict(n, s) = Answer(FALSE) => ~b
  <2>1. Verdict(n, s) = Answer(FALSE) => b = FALSE
    BY OneAnswer
  <2> QED
    BY <2>1, OneAnswer
<1>4. Verdict(n, s) \notin {Wait, Fail, Silent}
  BY Kinds
<1> HIDE DEF a, A
<1>5. CASE Type[n] = "NOT"
  <2>1. Len(Args[n]) = 1 /\ 1 \in A
    <3>1. SimpleArity(n)
      BY CircuitAssumption
    <3>2. Len(Args[n]) = 1
      BY <1>5, <3>1 DEF SimpleArity
    <3> QED
      BY <1>2, <3>2
  <2>2. s # <<>>
    BY <1>4, <1>5, Branch DEF VerdictNOT
  <2>3. 1 \in DOMAIN s /\ s[1] \in Message
    BY <1>1, <2>2
  <2>4. s[1].index + 1 \in A /\ s[1].value = a[s[1].index + 1]
    BY <1>1, <1>5, <2>3 DEF Failed
  <2>5. s[1].value = a[1]
    BY <1>2, <2>1, <2>3, <2>4 DEF Message
  <2>6. Verdict(n, s) = Answer(~s[1].value)
    BY <1>5, <2>2, Branch DEF VerdictNOT
  <2>7. b = ~a[1]
    BY <1>3, <2>3, <2>5, <2>6 DEF Message
  <2> QED
    BY <1>1, <1>5, <2>7 DEF Meaning
<1>6. CASE Type[n] = "AND"
  <2>1. Verdict(n, s) = VerdictAND(n, s)
    BY <1>6, Branch
  <2>2. ~Failed(s) /\ (v[n] <=> (\A i \in DOMAIN a : a[i]))
    <3>1. ~Failed(s)
      BY <1>4, <2>1 DEF VerdictAND
    <3>2. Meaning(n, a) <=> (\A i \in DOMAIN a : a[i])
      BY <1>6 DEF Meaning
    <3> QED
      BY <1>1, <3>1, <3>2
  <2>3. CASE \E k \in DOMAIN s : ~s[k].value
    <3>1. Verdict(n, s) = Answer(FALSE)
      BY <2>1, <2>2, <2>3 DEF VerdictAND
    <3>2. PICK k \in DOMAIN s : ~s[k].value
      BY <2>3
    <3>3. s[k].index + 1 \in A /\ ~a[s[k].index + 1]
      BY <1>1, <2>2, <3>2 DEF Failed
    <3> QED
      BY <1>1, <1>3, <2>2, <3>1, <3>3
  <2>4. CASE ~\E k \in DOMAIN s : ~s[k].value
    <3>1. Verdict(n, s) = Answer(TRUE) /\ AllTaken(n, s)
      BY <1>4, <2>1, <2>2, <2>4 DEF VerdictAND
    <3>2. ASSUME NEW i \in A PROVE a[i]
      <4>1. PICK k \in DOMAIN s : s[k].index = i - 1
        BY <2>2, <3>1, Everyone DEF A
      <4>2. s[k].index # -1 /\ s[k].index + 1 = i
        BY <1>2, <4>1
      <4> QED
        BY <1>1, <2>4, <4>1, <4>2
    <3> QED
      BY <1>1, <1>3, <2>2, <3>1, <3>2
  <2> QED
    BY <2>3, <2>4
<1>7. CASE Type[n] = "OR"
  <2>1. Verdict(n, s) = VerdictOR(n, s)
    BY <1>7, Branch
  <2>2. ~Failed(s) /\ (v[n] <=> (\E i \in DOMAIN a : a[i]))
    <3>1. ~Failed(s)
      BY <1>4, <2>1 DEF VerdictOR
    <3>2. Meaning(n, a) <=> (\E i \in DOMAIN a : a[i])
      BY <1>7 DEF Meaning
    <3> QED
      BY <1>1, <3>1, <3>2
  <2>3. CASE \E k \in DOMAIN s : s[k].value
    <3>1. Verdict(n, s) = Answer(TRUE)
      BY <2>1, <2>2, <2>3 DEF VerdictOR
    <3>2. PICK k \in DOMAIN s : s[k].value
      BY <2>3
    <3>3. s[k].index + 1 \in A /\ a[s[k].index + 1]
      BY <1>1, <2>2, <3>2 DEF Failed
    <3> QED
      BY <1>1, <1>3, <2>2, <3>1, <3>3
  <2>4. CASE ~\E k \in DOMAIN s : s[k].value
    <3>1. Verdict(n, s) = Answer(FALSE) /\ AllTaken(n, s)
      BY <1>4, <2>1, <2>2, <2>4 DEF VerdictOR
    <3>2. ASSUME NEW i \in A PROVE ~a[i]
      <4>1. PICK k \in DOMAIN s : s[k].index = i - 1
        BY <2>2, <3>1, Everyone DEF A
      <4>2. s[k].index # -1 /\ s[k].index + 1 = i
        BY <1>2, <4>1
      <4> QED
        BY <1>1, <2>4, <4>1, <4>2
    <3> QED
      BY <1>1, <1>3, <2>2, <3>1, <3>2
  <2> QED
    BY <2>3, <2>4
<1>8. ~Failed(s) => /\ ones \in Nat /\ GotTrue(s) \in Nat
                    /\ GotTrue(s) <= ones
                    /\ Len(s) - GotTrue(s) <= Len(Args[n]) - ones
  BY Counted DEF a
<1>9. Threshold[n] \in Int
  BY CircuitAssumption
<1> HIDE DEF ones
<1>10. CASE Type[n] = "GT"
  <2>1. Verdict(n, s) = VerdictGT(n, s)
    BY <1>10, Branch
  <2>2. ~Failed(s) /\ (v[n] <=> ones > Threshold[n])
    <3>1. ~Failed(s)
      BY <1>4, <2>1 DEF VerdictGT
    <3>2. Meaning(n, a) <=> ones > Threshold[n]
      BY <1>10 DEF Meaning, ones
    <3> QED
      BY <1>1, <3>1, <3>2
  <2>3. CASE GotTrue(s) > Threshold[n]
    <3>1. Verdict(n, s) = Answer(TRUE)
      BY <2>1, <2>2, <2>3 DEF VerdictGT
    <3>2. ones > Threshold[n]
      BY <1>8, <1>9, <2>2, <2>3
    <3> QED
      BY <1>1, <1>3, <2>2, <3>1, <3>2
  <2>4. CASE ~(GotTrue(s) > Threshold[n])
    <3>1. /\ Verdict(n, s) = Answer(FALSE)
          /\ Len(Args[n]) - Len(s) + GotTrue(s) <= Threshold[n]
      BY <1>4, <2>1, <2>2, <2>4 DEF VerdictGT
    <3>2. ~(ones > Threshold[n])
      BY <1>1, <1>2, <1>8, <1>9, <2>2, <3>1
    <3> QED
      BY <1>1, <1>3, <2>2, <3>1, <3>2
  <2> QED
    BY <2>3, <2>4
<1>11. CASE Type[n] = "LT"
  <2>1. Verdict(n, s) = VerdictLT(n, s)
    BY <1>11, Branch
  <2>2. ~Failed(s) /\ (v[n] <=> ones < Threshold[n])
    <3>1. ~Failed(s)
      BY <1>4, <2>1 DEF VerdictLT
    <3>2. Meaning(n, a) <=> ones < Threshold[n]
      BY <1>11 DEF Meaning, ones
    <3> QED
      BY <1>1, <3>1, <3>2
  <2>3. CASE GotTrue(s) >= Threshold[n]
    <3>1. Verdict(n, s) = Answer(FALSE)
      BY <2>1, <2>2, <2>3 DEF VerdictLT
    <3>2. ~(ones < Threshold[n])
      BY <1>8, <1>9, <2>2, <2>3
    <3> QED
      BY <1>1, <1>3, <2>2, <3>1, <3>2
  <2>4. CASE ~(GotTrue(s) >= Threshold[n])
    <3>1. /\ Verdict(n, s) = Answer(TRUE)
          /\ GotTrue(s) + Len(Args[n]) - Len(s) < Threshold[n]
      BY <1>4, <2>1, <2>2, <2>4 DEF VerdictLT
    <3>2. ones < Threshold[n]
      BY <1>1, <1>2, <1>8, <1>9, <2>2, <3>1
    <3> QED
      BY <1>1, <1>3, <2>2, <3>1, <3>2
  <2> QED
    BY <2>3, <2>4
<1>12. CASE Type[n] = "IF"
  <2>1. \A i \in {0, 1, 2} : Got(s, i) => i + 1 \in A /\ Of(s, i) = a[i + 1]
    <3> SUFFICES ASSUME NEW i \in {0, 1, 2}, Got(s, i)
                 PROVE  i + 1 \in A /\ Of(s, i) = a[i + 1]
      OBVIOUS
    <3>1. PICK k \in DOMAIN s : s[k].index = i
      BY DEF Got
    <3>2. \A l \in DOMAIN s :
            s[l].index = i => i + 1 \in A /\ s[l].value = a[i + 1]
      BY <1>1
    <3> QED
      BY <1>1, <3>1, <3>2 DEF Of
  <2>2. v[n] = IF a[1] THEN a[2] ELSE a[3]
    BY <1>1, <1>12 DEF Meaning
  <2>3. /\ Got(s, 0) => 1 \in A /\ Of(s, 0) = a[1]
        /\ Got(s, 1) => 2 \in A /\ Of(s, 1) = a[2]
        /\ Got(s, 2) => 3 \in A /\ Of(s, 2) = a[3]
    BY <2>1
  <2>4. \A i : Of(s, i) \in BOOLEAN
    BY DEF Of
  <2>5. 1 \in A /\ 2 \in A /\ 3 \in A
    <3>1. SimpleArity(n)
      BY CircuitAssumption
    <3>2. Len(Args[n]) = 3
      BY <1>12, <3>1 DEF SimpleArity
    <3> QED
      BY <1>2, <3>2
  <2>6. VerdictIF(n, s) = Answer(b)
    BY <1>12, Branch
  <2>7. \/ Got(s, 0) /\ Of(s, 0) /\ Got(s, 1) /\ b = Of(s, 1)
        \/ Got(s, 0) /\ ~Of(s, 0) /\ Got(s, 2) /\ b = Of(s, 2)
        \/ Got(s, 1) /\ Got(s, 2) /\ Of(s, 1) = Of(s, 2) /\ b = Of(s, 1)
    BY <1>4, <1>12, <2>4, <2>6, Kinds, Branch DEF VerdictIF
  <2> QED
    BY <1>1, <2>2, <2>3, <2>5, <2>7
<1> QED
  BY <1>5, <1>6, <1>7, <1>10, <1>11, <1>12, Branch

\* A task that ends leaves no argument behind: each one has ended, or is
\* cancelled.
LEMMA CancelsTheRest ==
  ASSUME NEW n \in Node, Type[n] # "LEAF", NEW D \in SUBSET DOMAIN Args[n],
         NEW s, OneOfEach(n, s, D), Verdict(n, s) # Wait,
         NEW i \in DOMAIN Args[n], i \notin D
  PROVE  Args[n][i] \in ToCancel(n, s)
<1>1. /\ DOMAIN Args[n] = 1..Len(Args[n]) /\ Len(Args[n]) \in Nat
      /\ IsFiniteSet(DOMAIN Args[n])
      /\ Cardinality(DOMAIN Args[n]) = Len(Args[n])
  BY Shape
<1>2. s \in Seq(Message) /\ Len(s) \in Nat /\ Len(s) <= Cardinality(D)
  BY DEF OneOfEach
<1>3. IsFiniteSet(D) /\ Cardinality(D) \in Nat
      /\ Cardinality(D) <= Len(Args[n]) /\ Cardinality(D) # Len(Args[n])
  BY <1>1, FS_Subset, FS_CardinalityType
<1>4. Len(s) < Len(Args[n])
  BY <1>1, <1>2, <1>3
<1>5. SimpleArity(n)
  BY CircuitAssumption
<1>6. CASE Type[n] = "NOT"
  <2>1. Len(Args[n]) = 1
    BY <1>5, <1>6 DEF SimpleArity
  <2>2. s = <<>>
    BY <1>2, <1>4, <2>1
  <2> QED
    BY <1>6, <2>2, Branch DEF VerdictNOT
<1>7. CASE Type[n] \notin {"NOT", "IF"}
  <2>1. ToCancel(n, s) = Children(n)
    BY <1>7 DEF ToCancel
  <2> QED
    BY <2>1 DEF Children
<1>8. CASE Type[n] = "IF"
  <2>1. Len(Args[n]) = 3
    BY <1>5, <1>8 DEF SimpleArity
  <2>2. i \in {1, 2, 3} /\ ~AllTaken(n, s)
    BY <1>1, <1>4, <2>1 DEF AllTaken
  <2>3. ~Got(s, i - 1)
    <3>1. \A k \in DOMAIN s : s[k].index = i - 1 => s[k].index + 1 = i
      BY <2>2
    <3>2. \A k \in DOMAIN s : s[k].index = i - 1 => s[k].index # -1
      BY <2>2
    <3> QED
      BY <3>1, <3>2 DEF Got, OneOfEach
  <2>4. /\ i = 1 => ~Got(s, 0)
        /\ i = 2 => ~Got(s, 1)
        /\ i = 3 => ~Got(s, 2)
    BY <2>3
  <2>5. /\ VerdictIF(n, s) # Wait
        /\ ToCancel(n, s) =
             IF Got(s, 0) THEN {IF Of(s, 0) THEN Args[n][3] ELSE Args[n][2]}
             ELSE IF VerdictIF(n, s).kind = "answer" THEN {Args[n][1]} ELSE {}
    BY <1>8, Branch DEF ToCancel
  <2>6. \A j : Got(s, j) \in BOOLEAN /\ Of(s, j) \in BOOLEAN
    BY DEF Got, Of
  <2>7. \/ Got(s, 0) /\ Of(s, 0) /\ Got(s, 1)
        \/ Got(s, 0) /\ ~Of(s, 0) /\ Got(s, 2)
        \/ ~Got(s, 0) /\ VerdictIF(n, s).kind = "answer"
           /\ Got(s, 1) /\ Got(s, 2)
    BY <2>2, <2>4, <2>5, <2>6, Kinds DEF VerdictIF
  <2> QED
    BY <2>2, <2>4, <2>5, <2>7
<1> QED
  BY <1>6, <1>7, <1>8

LEMMA CancelsArguments ==
  ASSUME NEW n \in Node, Type[n] # "LEAF", NEW s
  PROVE  /\ ToCancel(n, s) \subseteq Children(n)
         /\ ToCancel(n, s) # {} => Type[n] = "IF" \/ Verdict(n, s) # Wait
<1>1. CASE Type[n] = "IF"
  <2>1. Len(Args[n]) = 3
    <3>1. SimpleArity(n)
      BY CircuitAssumption
    <3> QED
      BY <1>1, <3>1 DEF SimpleArity
  <2>2. {Args[n][1], Args[n][2], Args[n][3]} \subseteq Children(n)
    BY <2>1, Shape DEF Children
  <2> QED
    BY <1>1, <2>2 DEF ToCancel
<1>2. CASE Type[n] # "IF"
  BY <1>2 DEF ToCancel
<1> QED
  BY <1>1, <1>2

-----------------------------------------------------------------------------
(* What a task was sent                                                    *)

LEMMA MoreDone ==
  ASSUME NEW n \in Node, NEW D, NEW E \in SUBSET DOMAIN Args[n], D \subseteq E,
         NEW s, OneOfEach(n, s, D)
  PROVE  OneOfEach(n, s, E)
<1>1. /\ IsFiniteSet(E) /\ IsFiniteSet(D) /\ Cardinality(D) <= Cardinality(E)
      /\ Cardinality(D) \in Nat /\ Cardinality(E) \in Nat
  BY Shape, FS_Subset, FS_CardinalityType
<1>2. s \in Seq(Message) /\ Len(s) \in Nat /\ Len(s) <= Cardinality(D)
  BY DEF OneOfEach
<1>3. Len(s) <= Cardinality(E)
  BY <1>1, <1>2
<1> QED
  BY <1>3 DEF OneOfEach

LEMMA OneMore ==
  ASSUME NEW n \in Node, NEW D, NEW E \in SUBSET DOMAIN Args[n], D \subseteq E,
         NEW s, OneOfEach(n, s, D), NEW i \in E \ D, NEW m \in Message,
         m.index \in {-1, i - 1}
  PROVE  OneOfEach(n, Append(s, m), E)
<1> DEFINE r == Append(s, m)
<1>1. /\ s \in Seq(Message) /\ Len(s) \in Nat /\ DOMAIN s = 1..Len(s)
      /\ Len(s) <= Cardinality(D)
  BY DEF OneOfEach
<1>2. /\ r \in Seq(Message) /\ Len(r) = Len(s) + 1
      /\ DOMAIN r = 1..(Len(s) + 1)
      /\ \A k \in DOMAIN s : r[k] = s[k]
      /\ r[Len(s) + 1] = m
  BY <1>1, AppendProperties
<1>3. Len(r) <= Cardinality(E)
  <2>1. /\ IsFiniteSet(E) /\ IsFiniteSet(D \cup {i}) /\ IsFiniteSet(D)
        /\ Cardinality(D \cup {i}) <= Cardinality(E)
    BY Shape, FS_Subset
  <2>2. Cardinality(D \cup {i}) = Cardinality(D) + 1
    BY <2>1, FS_AddElement
  <2>3. Cardinality(D) \in Nat /\ Cardinality(E) \in Nat
    BY <2>1, FS_CardinalityType
  <2> QED
    BY <1>1, <1>2, <2>1, <2>2, <2>3
<1>4. \A k \in DOMAIN r : k \in DOMAIN s \/ r[k] = m
  BY <1>1, <1>2
<1>5. i \in Nat /\ (i - 1) + 1 = i
  BY Shape
<1> HIDE DEF r
<1>6. \A k \in DOMAIN r : r[k].index # -1 => r[k].index + 1 \in E
  BY <1>2, <1>4, <1>5 DEF OneOfEach
<1>7. \A k \in DOMAIN s : s[k].index # -1 => s[k].index # i - 1
  BY <1>5 DEF OneOfEach
<1>8. \A k, l \in DOMAIN r : k # l /\ r[k].index # -1
                               => r[k].index # r[l].index
  <2> SUFFICES ASSUME NEW k \in DOMAIN r, NEW l \in DOMAIN r, k # l,
                      r[k].index # -1
               PROVE  r[k].index # r[l].index
    OBVIOUS
  <2>1. CASE k \in DOMAIN s /\ l \in DOMAIN s
    BY <1>2, <2>1 DEF OneOfEach
  <2>2. CASE k \in DOMAIN s /\ l \notin DOMAIN s
    BY <1>2, <1>4, <1>7, <2>2
  <2>3. CASE k \notin DOMAIN s /\ l \in DOMAIN s
    BY <1>2, <1>4, <1>7, <2>3
  <2>4. ~(k \notin DOMAIN s /\ l \notin DOMAIN s)
    BY <1>1, <1>2
  <2> QED
    BY <2>1, <2>2, <2>3, <2>4
<1> QED
  BY <1>2, <1>3, <1>6, <1>8 DEF OneOfEach, r

LEMMA RightToo ==
  ASSUME NEW n \in Node, NEW s \in Seq(Message), NEW v, Right(n, s, v),
         NEW m \in Message,
         m.index # -1 => m.value = v[Args[n][m.index + 1]]
  PROVE  Right(n, Append(s, m), v)
<1> DEFINE r == Append(s, m)
<1>1. /\ DOMAIN s = 1..Len(s) /\ DOMAIN r = 1..(Len(s) + 1) /\ Len(s) \in Nat
      /\ \A k \in DOMAIN s : r[k] = s[k]
      /\ r[Len(s) + 1] = m
  BY AppendProperties
<1>2. \A k \in DOMAIN r : k \in DOMAIN s \/ r[k] = m
  BY <1>1
<1> HIDE DEF r
<1>3. Right(n, r, v)
  BY <1>1, <1>2 DEF Right
<1> QED
  BY <1>3 DEF r

LEMMA ConcatAppend ==
  ASSUME NEW S, NEW s \in Seq(S), NEW r \in Seq(S), NEW m \in S
  PROVE  s \o Append(r, m) = Append(s \o r, m)
<1>1. <<m>> \in Seq(S)
  OBVIOUS
<1>2. s \o r \in Seq(S)
  BY ConcatProperties
<1>3. s \o Append(r, m) = s \o (r \o <<m>>)
  BY AppendIsConcat
<1>4. s \o (r \o <<m>>) = (s \o r) \o <<m>>
  BY <1>1, ConcatAssociative
<1>5. Append(s \o r, m) = (s \o r) \o <<m>>
  BY <1>2, AppendIsConcat
<1> QED
  BY <1>3, <1>4, <1>5

LEMMA TakenOver ==
  ASSUME NEW S, NEW s \in Seq(S), NEW r \in Seq(S), r # <<>>
  PROVE  Append(s, Head(r)) \o Tail(r) = s \o r
<1>1. Head(r) \in S /\ Tail(r) \in Seq(S) /\ <<Head(r)>> \in Seq(S)
  BY HeadTailProperties
<1>2. r = <<Head(r)>> \o Tail(r)
  <2> DEFINE q == <<Head(r)>> \o Tail(r)
  <2>1. /\ q \in Seq(S) /\ Len(q) = Len(r) /\ q[1] = r[1]
        /\ \A i \in 2..Len(r) : q[i] = r[i]
    <3>1. /\ Len(r) \in Nat /\ Len(r) # 0 /\ Len(Tail(r)) = Len(r) - 1
          /\ Head(r) = r[1]
          /\ \A i \in 1..(Len(r) - 1) : Tail(r)[i] = r[i + 1]
      BY HeadTailProperties
    <3>2. /\ q \in Seq(S) /\ Len(q) = 1 + Len(Tail(r))
          /\ \A i \in 1..(1 + Len(Tail(r))) :
               q[i] = IF i <= 1 THEN <<Head(r)>>[i] ELSE Tail(r)[i - 1]
      BY <1>1, ConcatProperties
    <3> HIDE DEF q
    <3>3. q[1] = <<Head(r)>>[1]
      BY <3>1, <3>2
    <3>4. \A i \in 2..Len(r) :
            /\ q[i] = Tail(r)[i - 1]
            /\ i - 1 \in 1..(Len(r) - 1) /\ (i - 1) + 1 = i
      BY <3>1, <3>2
    <3>5. \A i \in 2..Len(r) : q[i] = r[i]
      BY <3>1, <3>4
    <3> QED
      BY <3>1, <3>2, <3>3, <3>5
  <2>2. \A i \in 1..Len(r) : i = 1 \/ i \in 2..Len(r)
    OBVIOUS
  <2> HIDE DEF q
  <2>3. \A i \in 1..Len(q) : q[i] = r[i]
    BY <2>1, <2>2
  <2>4. q = r
    BY <2>1, <2>3, SeqEqual
  <2> QED
    BY <2>4 DEF q
<1>3. Append(s, Head(r)) = s \o <<Head(r)>>
  BY <1>1, AppendIsConcat
<1>4. (s \o <<Head(r)>>) \o Tail(r) = s \o (<<Head(r)>> \o Tail(r))
  BY <1>1, ConcatAssociative
<1> QED
  BY <1>2, <1>3, <1>4

LEMMA Prefix ==
  ASSUME NEW n \in Node, NEW D \in SUBSET DOMAIN Args[n],
         NEW s \in Seq(Message), NEW r \in Seq(Message), NEW v
  PROVE  /\ OneOfEach(n, s \o r, D) => OneOfEach(n, s, D)
         /\ Right(n, s \o r, v) => Right(n, s, v)
         /\ Failed(s) => Failed(s \o r)
<1> DEFINE q == s \o r
<1>1. /\ q \in Seq(Message) /\ Len(q) = Len(s) + Len(r)
      /\ Len(s) \in Nat /\ Len(r) \in Nat
      /\ DOMAIN s = 1..Len(s) /\ DOMAIN q = 1..Len(q)
      /\ \A i \in 1..(Len(s) + Len(r)) :
           q[i] = IF i <= Len(s) THEN s[i] ELSE r[i - Len(s)]
  BY ConcatProperties
<1> HIDE DEF q
<1>2. \A i \in DOMAIN s : i \in DOMAIN q /\ q[i] = s[i]
  BY <1>1
<1>3. ASSUME OneOfEach(n, q, D)
      PROVE  OneOfEach(n, s, D)
  <2> DEFINE c == Cardinality(D)
  <2>1. Len(q) <= c
    BY <1>3 DEF OneOfEach
  <2>2. Len(s) <= c
    <3>1. c \in Nat
      BY Shape, FS_Subset, FS_CardinalityType
    <3> HIDE DEF c
    <3> QED
      BY <1>1, <2>1, <3>1
  <2> HIDE DEF c
  <2> QED
    BY <1>2, <1>3, <2>2 DEF OneOfEach, c
<1>4. Right(n, q, v) => Right(n, s, v)
  BY <1>2 DEF Right
<1>5. Failed(s) => Failed(q)
  BY <1>2 DEF Failed
<1> QED
  BY <1>3, <1>4, <1>5 DEF q

-----------------------------------------------------------------------------
(* Parts of a step                                                         *)

Ends == \A m \in Node : pc[m] = "over" => pc'[m] = "over"

\* Nobody interrupts a task whose result is still wanted.
Calm ==
  accept' =>
    /\ pending' = {}
    /\ \A r \in Root : ~flag'[r]
    /\ \A p \in Node : (pc'[p] # "over" /\ Type[p] # "IF") =>
         /\ Wanted(p)
         /\ \A m \in Children(p) : ~flag'[m]

\* A task that goes on or ends, and cancels the arguments C.
LEMMA Cancelling ==
  ASSUME IInv, NEW n \in Node, NEW C \in SUBSET Children(n),
         NEW there \in {"submit", "take", "over"},
         pc[n] \in Active, Cancel(n, C, there),
         there = "submit" => pc[n] = "eval" /\ Type[n] # "LEAF",
         there = "take" => pc[n] = "take",
         accept /\ there = "over" =>
           \A m \in Children(n) \ C : pc[m] \in {"idle", "over"},
         C # {} => there = "over" \/ Type[n] = "IF",
         UNCHANGED <<asked, accept, pending, next>>
  PROVE  /\ pc' \in [Node -> {"idle", "queued", "over"} \cup Active]
         /\ flag' \in [Node -> BOOLEAN]
         /\ InOrder' /\ NoOrphans' /\ Ends /\ Calm
<1>1. TypeOK /\ InOrder /\ NoOrphans /\ Undisturbed
  BY DEF IInv
<1>2. /\ pc \in [Node -> {"idle", "queued", "over"} \cup Active]
      /\ flag \in [Node -> BOOLEAN]
  BY <1>1 DEF TypeOK
<1>3. /\ pc'[n] = there
      /\ \A m \in Node : m # n =>
           pc'[m] = IF m \in C /\ pc[m] = "queued" THEN "over" ELSE pc[m]
      /\ \A m \in Node : flag'[m] = (flag[m] \/ (m \in C /\ pc[m] \in Active))
      /\ DOMAIN pc' = Node /\ DOMAIN flag' = Node
      /\ pc' \in [Node -> {"idle", "queued", "over"} \cup Active]
      /\ flag' \in [Node -> BOOLEAN]
  BY <1>2 DEF Cancel, Active
<1>4. Ends
  BY <1>3 DEF Ends, Active
<1>5. C \subseteq Node \ Root /\ n \notin C
  BY Shape
<1>6. \A p \in Node : \A m \in C : m \in Children(p) => p = n
  BY OneParent DEF Children
<1>7. InOrder'
  <2>1. ASSUME NEW p \in Node
        PROVE  ArgsInOrder(p)'
    <3>1. \A i \in DOMAIN Args[p] :
            Args[p][i] \in Node
            /\ (pc'[Args[p][i]] = "idle" <=> pc[Args[p][i]] = "idle")
      <4>1. \A i \in DOMAIN Args[p] : Args[p][i] \in Node
        BY Shape, ElementOfSeq
      <4> QED
        BY <1>3, <4>1 DEF Active
    <3>2. ArgsInOrder(p) /\ next'[p] = next[p]
      BY <1>1 DEF InOrder
    <3>3. p # n => ArgsInOrder(p)'
      BY <1>3, <3>1, <3>2 DEF ArgsInOrder
    <3>4. p = n => ArgsInOrder(p)'
      <4>1. there = "submit" => next[n] = 0 /\ 0 < Len(Args[n])
        BY <1>1, Shape DEF InOrder, ArgsInOrder
      <4> QED
        BY <1>3, <3>1, <3>2, <4>1 DEF ArgsInOrder
    <3> QED
      BY <3>3, <3>4
  <2>2. \A r \in Root \ asked : pc[r] = "idle" /\ r \in Node
    BY <1>1, CircuitAssumption DEF InOrder
  <2>3. \A r \in Root \ asked : pc'[r] = "idle"
    BY <1>3, <2>2 DEF Active
  <2>4. \A m \in Node : pc'[m] # "idle" => pc[m] # "idle"
    BY <1>3 DEF Active
  <2> QED
    BY <1>1, <2>1, <2>3, <2>4 DEF InOrder, Placed
<1>8. NoOrphans'
  <2> SUFFICES ASSUME accept, NEW p \in Node, pc'[p] = "over",
                      NEW m \in Children(p)
               PROVE  pc'[m] # "queued" /\ (pc'[m] \in Active => flag'[m])
    BY DEF NoOrphans
  <2>1. m \in Node /\ m # p
    BY Shape
  <2>2. CASE p = n
    <3>1. m \in C => pc'[m] # "queued" /\ (pc'[m] \in Active => flag'[m])
      BY <1>3, <2>1, <2>2 DEF Active
    <3>2. m \notin C => pc[m] \in {"idle", "over"}
      BY <1>3, <2>2
    <3> QED
      BY <1>3, <2>1, <2>2, <3>1, <3>2 DEF Active
  <2>3. CASE p # n /\ pc[p] = "over"
    <3>1. pc[m] # "queued" /\ (pc[m] \in Active => flag[m])
      BY <1>1, <2>3 DEF NoOrphans
    <3> QED
      BY <1>3, <2>1, <3>1 DEF Active
  <2>4. CASE p # n /\ pc[p] # "over"
    <3>1. pc[p] = "queued"
      BY <1>3, <2>4
    <3>2. pc[m] = "idle"
      <4>1. ArgsInOrder(p) /\ next[p] = 0
        BY <1>1, <3>1 DEF InOrder, ArgsInOrder
      <4>2. \A i \in DOMAIN Args[p] : i > 0
        BY Shape
      <4> QED
        BY <4>1, <4>2 DEF ArgsInOrder, Children
    <3> QED
      BY <1>3, <2>1, <3>2 DEF Active
  <2> QED
    BY <2>2, <2>3, <2>4
<1>9. Calm
  <2> SUFFICES ASSUME accept
               PROVE  /\ pending' = {}
                      /\ \A r \in Root : ~flag'[r]
                      /\ \A p \in Node : (pc'[p] # "over" /\ Type[p] # "IF") =>
                           /\ Wanted(p)
                           /\ \A m \in Children(p) : ~flag'[m]
    BY DEF Calm
  <2>1. \A r \in Root : r \in Node /\ ~flag'[r]
    BY <1>1, <1>3, <1>5, CircuitAssumption DEF Undisturbed
  <2>2. ASSUME NEW p \in Node, pc'[p] # "over", Type[p] # "IF"
        PROVE  Wanted(p) /\ \A m \in Children(p) : ~flag'[m]
    <3>1. Wanted(p)
      BY <1>4, <2>2 DEF Wanted, Ends
    <3>2. \A m \in Children(p) : ~flag[m] /\ m \in Node
      BY <1>1, <3>1, Shape DEF Undisturbed
    <3>3. \A m \in Children(p) : m \notin C
      BY <1>3, <1>6, <2>2
    <3> QED
      BY <1>3, <3>1, <3>2, <3>3
  <2> QED
    BY <1>1, <2>1, <2>2 DEF Undisturbed
<1> QED
  BY <1>3, <1>4, <1>7, <1>8, <1>9

Heard(p, n, m) == IF n \in Children(p) THEN Append(All(p), m) ELSE All(p)

LEMMA DoneGrows ==
  ASSUME IInv, TypeOK', Ends, NEW p \in Node
  PROVE  /\ Done(p) \subseteq Done(p)' /\ Done(p)' \in SUBSET DOMAIN Args[p]
         /\ OneOfEach(p, All(p), Done(p)')
<1>1. \A i \in DOMAIN Args[p] : Args[p][i] \in Node
  BY Shape, ElementOfSeq
<1>2. Done(p) \subseteq Done(p)' /\ Done(p)' \in SUBSET DOMAIN Args[p]
  BY <1>1 DEF Done, Ends
<1> QED
  BY <1>2, MoreDone DEF IInv, Sent

\* A step that sends nothing.
LEMMA Quieter ==
  ASSUME IInv, TypeOK', Ends, Calm, value' = value, accept' => accept,
         \A p \in Node : All(p)' = All(p), answer' = answer
  PROVE  Sent' /\ Undisturbed' /\ Answers'
<1>1. Faithful' => Faithful
  BY DEF Faithful
<1>2. Sent'
  BY <1>1, DoneGrows DEF IInv, Sent
<1>3. Undisturbed'
  BY DEF IInv, Undisturbed, Calm, Wanted
<1>4. Answers'
  BY <1>1 DEF IInv, Answers, AnswerRight, FailureOnlyWhenStopped
<1> QED
  BY <1>2, <1>3, <1>4

\* A step in which the task of n ends and sends m.
LEMMA Sending ==
  ASSUME IInv, TypeOK', Ends, Calm, UNCHANGED <<value, accept>>,
         NEW n \in Node, NEW m \in Message,
         pc[n] \in Active, pc'[n] = "over",
         \A p \in Node : All(p)' = Heard(p, n, m),
         answer' = IF n \in Root THEN [answer EXCEPT ![n] = m] ELSE answer,
         m = Failure
           \/ (m.index = Index(n) /\ (Faithful => m.value = value[n])),
         accept /\ m = Failure => flag[n]
  PROVE  Sent' /\ Undisturbed' /\ Answers'
<1>1. Faithful' = Faithful
  BY DEF Faithful
<1>2. Failure.index = -1
  BY DEF Failure
<1>3. ASSUME NEW p \in Node, n \in Children(p)
      PROVE  /\ OneOfEach(p, Append(All(p), m), Done(p)')
             /\ Faithful => Right(p, Append(All(p), m), value)
             /\ m.index = -1 => m = Failure
  <2>1. PICK i \in DOMAIN Args[p] : Args[p][i] = n
    BY <1>3 DEF Children
  <2>2. /\ Index(n) = i - 1 /\ i \in Nat /\ i # 0
        /\ i - 1 # -1 /\ (i - 1) + 1 = i
    BY <2>1, IndexOf, Shape
  <2>3. i \in Done(p)' \ Done(p)
    BY <2>1 DEF Done, Active
  <2>4. m.index \in {-1, i - 1} /\ (m.index = -1 => m = Failure)
    BY <1>2, <2>2
  <2>5. OneOfEach(p, Append(All(p), m), Done(p)')
    <3>1. /\ Done(p) \subseteq Done(p)' /\ Done(p)' \in SUBSET DOMAIN Args[p]
          /\ OneOfEach(p, All(p), Done(p))
      BY DoneGrows DEF IInv, Sent
    <3> HIDE DEF Done, All
    <3> QED
      BY <2>3, <2>4, <3>1, OneMore
  <2>6. Faithful => Right(p, Append(All(p), m), value)
    <3> SUFFICES ASSUME Faithful PROVE Right(p, Append(All(p), m), value)
      OBVIOUS
    <3>1. m.index # -1 => m.value = value[Args[p][m.index + 1]]
      BY <1>2, <2>1, <2>2
    <3>2. All(p) \in Seq(Message) /\ Right(p, All(p), value)
      BY DEF IInv, Sent, OneOfEach
    <3> HIDE DEF All
    <3> QED
      BY <3>1, <3>2, RightToo
  <2> QED
    BY <2>4, <2>5, <2>6
<1>4. Sent'
  BY <1>1, <1>3, DoneGrows DEF IInv, Sent, Heard
<1>5. Undisturbed'
  <2> SUFFICES ASSUME accept', NEW p \in Node, Wanted(p)',
                      NEW k \in DOMAIN All(p)'
               PROVE  All(p)'[k].index # -1
    BY DEF Undisturbed, Calm, Wanted
  <2>1. Wanted(p)
    BY DEF Calm, Wanted
  <2>2. \A l \in DOMAIN All(p) : All(p)[l].index # -1
    BY <2>1 DEF IInv, Undisturbed
  <2>3. CASE n \notin Children(p)
    BY <2>2, <2>3 DEF Heard
  <2>4. CASE n \in Children(p)
    <3>1. ~flag[n]
      BY <2>1, <2>4 DEF IInv, Undisturbed
    <3>2. m.index # -1
      BY <1>3, <2>4, <3>1
    <3>3. All(p)' = Append(All(p), m) /\ All(p) \in Seq(Message)
      BY <2>4 DEF Heard, IInv, Sent, OneOfEach
    <3>4. \A l \in DOMAIN Append(All(p), m) :
            Append(All(p), m)[l] = m
            \/ (l \in DOMAIN All(p) /\ Append(All(p), m)[l] = All(p)[l])
      <4> HIDE DEF All
      <4> QED
        BY <3>3, AppendProperties
    <3> QED
      BY <2>2, <3>2, <3>3, <3>4
  <2> QED
    BY <2>3, <2>4
<1>6. Answers'
  <2>1. answer \in [Root -> Message]
    BY DEF IInv, TypeOK
  <2>2. n \in Root => (m.index = 0 /\ Faithful => m.value = value[n])
    BY <1>2
  <2>3. n \in Root /\ accept => m # Failure
    BY DEF IInv, Undisturbed
  <2> QED
    BY <1>1, <2>1, <2>2, <2>3
    DEF IInv, Answers, AnswerRight, FailureOnlyWhenStopped
<1> QED
  BY <1>4, <1>5, <1>6

LEMMA OfferIsHeard ==
  ASSUME IInv, NEW n \in Node, NEW m \in Message, Offer(n, m), seen' = seen
  PROVE  /\ box' \in [Node -> Seq(Message)] /\ answer' \in [Root -> Message]
         /\ \A p \in Node : All(p)' = Heard(p, n, m)
         /\ answer' = IF n \in Root THEN [answer EXCEPT ![n] = m] ELSE answer
<1>1. /\ box \in [Node -> Seq(Message)] /\ seen \in [Node -> Seq(Message)]
      /\ answer \in [Root -> Message]
  BY DEF IInv, TypeOK
<1>2. \A p \in Node :
        box'[p] = IF n \in Children(p) THEN Append(box[p], m) ELSE box[p]
  BY DEF Offer
<1>3. box' \in [Node -> Seq(Message)]
  BY <1>1, AppendProperties DEF Offer
<1>4. answer' = IF n \in Root THEN [answer EXCEPT ![n] = m] ELSE answer
  BY DEF Offer
<1>5. answer' \in [Root -> Message]
  BY <1>1, <1>4
<1>6. ASSUME NEW p \in Node
      PROVE  All(p)' = Heard(p, n, m)
  <2>1. seen[p] \o Append(box[p], m) = Append(seen[p] \o box[p], m)
    BY <1>1, ConcatAppend
  <2> QED
    BY <1>2, <2>1 DEF All, Heard
<1> QED
  BY <1>3, <1>4, <1>5, <1>6

-----------------------------------------------------------------------------
(* Each step keeps the invariant                                           *)

LEMMA SolveStep ==
  ASSUME IInv, NEW r \in Root, Solve(r)
  PROVE  IInv'
<1>1. TypeOK /\ InOrder /\ NoOrphans /\ Undisturbed /\ Answers
  BY DEF IInv
<1>2. /\ r \in Node /\ r \notin asked /\ pc[r] = "idle"
      /\ \A p \in Node : r \notin Children(p)
  BY <1>1, CircuitAssumption, Shape DEF Solve, InOrder
<1>3. /\ UNCHANGED <<value, accept, pending, flag, next, seen, box>>
      /\ asked' = asked \cup {r}
  BY DEF Solve
<1>4. CASE accept
  <2>1. /\ queue' = Append(queue, r) /\ pc' = [pc EXCEPT ![r] = "queued"]
        /\ answer' = answer
    BY <1>4 DEF Solve
  <2>2. TypeOK'
    BY <1>1, <1>2, <1>3, <2>1, AppendProperties DEF TypeOK
  <2>3. \A m \in Node : pc'[m] = IF m = r THEN "queued" ELSE pc[m]
    BY <1>1, <2>1 DEF TypeOK
  <2>4. Ends /\ Calm
    BY <1>1, <1>2, <1>3, <2>3 DEF Ends, Calm, Undisturbed, Wanted
  <2>5. InOrder'
    <3>1. ASSUME NEW p \in Node PROVE ArgsInOrder(p)'
      <4>1. \A i \in DOMAIN Args[p] :
              Args[p][i] \in Node /\ Args[p][i] # r
        BY <1>2, Shape, ElementOfSeq DEF Children
      <4>2. ArgsInOrder(p) /\ next'[p] = next[p]
        BY <1>1, <1>3 DEF InOrder
      <4> QED
        BY <1>2, <2>3, <4>1, <4>2 DEF ArgsInOrder
    <3>2. \A q \in Root \ asked' : pc'[q] = "idle"
      BY <1>1, <1>3, <2>3, CircuitAssumption DEF InOrder
    <3>3. \A m \in Node : pc'[m] # "idle" => Placed(m)
      BY <1>1, <2>3 DEF InOrder, Placed
    <3> QED
      BY <3>1, <3>2, <3>3 DEF InOrder, Placed
  <2>6. NoOrphans'
    <3>1. \A p \in Node : \A m \in Children(p) : m \in Node /\ m # r
      BY <1>2, Shape
    <3> QED
      BY <1>1, <1>3, <2>3, <3>1 DEF NoOrphans
  <2>7. Sent' /\ Undisturbed' /\ Answers'
    BY <1>3, <2>1, <2>2, <2>4, Quieter DEF All
  <2> QED
    BY <2>2, <2>5, <2>6, <2>7 DEF IInv
<1>5. CASE ~accept
  <2>1. /\ answer' = [answer EXCEPT ![r] = Failure]
        /\ UNCHANGED <<queue, pc>>
    BY <1>5 DEF Solve
  <2>2. Failure \in Message /\ Failure.index # 0
    BY DEF Failure, Message
  <2>3. TypeOK'
    BY <1>1, <1>2, <1>3, <2>1, <2>2 DEF TypeOK
  <2>4. InOrder' /\ NoOrphans' /\ Undisturbed'
    BY <1>1, <1>3, <1>5, <2>1
    DEF InOrder, ArgsInOrder, Placed, NoOrphans, Undisturbed
  <2>5. Sent'
    BY <1>3, <2>1 DEF IInv, Sent, All, Done, Faithful
  <2>6. Answers'
    <3>1. answer \in [Root -> Message]
      BY <1>1 DEF TypeOK
    <3> QED
      BY <1>1, <1>3, <1>5, <2>1, <2>2, <3>1
      DEF Answers, AnswerRight, FailureOnlyWhenStopped, Faithful
  <2> QED
    BY <2>3, <2>4, <2>5, <2>6 DEF IInv
<1> QED
  BY <1>4, <1>5

LEMMA StopStep ==
  ASSUME IInv, Stop
  PROVE  IInv'
<1>1. TypeOK /\ InOrder
  BY DEF IInv
<1>2. /\ ~accept' /\ accept' = FALSE /\ pending' = Running /\ queue' = <<>>
      /\ UNCHANGED <<value, asked, flag, next, seen, box, answer>>
      /\ pc' = [n \in Node |-> IF pc[n] = "queued" THEN "over" ELSE pc[n]]
  BY DEF Stop, channels
<1>3. TypeOK'
  <2>1. Running \in SUBSET Node /\ <<>> \in Seq(Node)
    BY DEF Running
  <2>2. pc' \in [Node -> {"idle", "queued", "over"} \cup Active]
    BY <1>1, <1>2 DEF TypeOK
  <2> QED
    BY <1>1, <1>2, <2>1, <2>2 DEF TypeOK
<1>4. Ends /\ Calm /\ NoOrphans'
  BY <1>2 DEF Ends, Calm, NoOrphans
<1>5. InOrder'
  <2>1. ASSUME NEW p \in Node PROVE ArgsInOrder(p)'
    <3>1. \A i \in DOMAIN Args[p] : Args[p][i] \in Node
      BY Shape, ElementOfSeq
    <3>2. ArgsInOrder(p) /\ next'[p] = next[p]
      BY <1>1, <1>2 DEF InOrder
    <3> QED
      BY <1>2, <3>1, <3>2 DEF ArgsInOrder
  <2>2. \A q \in Root \ asked' : pc'[q] = "idle"
    BY <1>1, <1>2, CircuitAssumption DEF InOrder
  <2> QED
    BY <1>1, <1>2, <2>1, <2>2 DEF InOrder, Placed
<1>6. Sent' /\ Undisturbed' /\ Answers'
  BY <1>2, <1>3, <1>4, Quieter DEF All
<1> QED
  BY <1>3, <1>4, <1>5, <1>6 DEF IInv

LEMMA InterruptWorkerStep ==
  ASSUME IInv, NEW n \in Node, InterruptWorker(n)
  PROVE  IInv'
<1>1. TypeOK /\ InOrder /\ ~accept
  BY DEF IInv, Undisturbed, InterruptWorker
<1>2. /\ pending' = pending \ {n}
      /\ flag' = [flag EXCEPT ![n] = @ \/ pc[n] \in Active]
      /\ UNCHANGED <<value, asked, accept, queue, pc, next, seen, box, answer>>
  BY DEF InterruptWorker, channels
<1>3. TypeOK'
  BY <1>1, <1>2 DEF TypeOK
<1>4. Ends /\ Calm /\ NoOrphans' /\ InOrder'
  BY <1>1, <1>2 DEF Ends, Calm, NoOrphans, InOrder, ArgsInOrder, Placed
<1>5. Sent' /\ Undisturbed' /\ Answers'
  BY <1>2, <1>3, <1>4, Quieter DEF All
<1> QED
  BY <1>3, <1>4, <1>5 DEF IInv

LEMMA StartStep ==
  ASSUME IInv, Start
  PROVE  IInv'
<1> DEFINE h == Head(queue)
<1>1. TypeOK /\ InOrder /\ NoOrphans /\ Undisturbed
  BY DEF IInv
<1>2. /\ queue # <<>> /\ queue' = Tail(queue)
      /\ pc' = [pc EXCEPT ![h] = IF @ = "queued" THEN "eval" ELSE @]
      /\ UNCHANGED <<value, asked, accept, pending, flag, next, seen, box,
                     answer>>
  BY DEF Start, channels
<1>3. h \in Node /\ Tail(queue) \in Seq(Node)
  BY <1>1, <1>2, HeadTailProperties DEF TypeOK
<1>4. TypeOK'
  BY <1>1, <1>2, <1>3 DEF TypeOK, Active
<1>5. \A m \in Node : pc'[m] = pc[m] \/ (pc[m] = "queued" /\ pc'[m] = "eval")
  BY <1>1, <1>2, <1>3 DEF TypeOK
<1>6. Ends /\ Calm
  BY <1>1, <1>2, <1>5 DEF Ends, Calm, Undisturbed, Wanted
<1>7. InOrder'
  <2>1. ASSUME NEW p \in Node PROVE ArgsInOrder(p)'
    <3>1. \A i \in DOMAIN Args[p] : Args[p][i] \in Node
      BY Shape, ElementOfSeq
    <3>2. ArgsInOrder(p) /\ next'[p] = next[p]
      BY <1>1, <1>2 DEF InOrder
    <3>3. \A i \in DOMAIN Args[p] :
            pc'[Args[p][i]] = "idle" <=> pc[Args[p][i]] = "idle"
      BY <1>5, <3>1
    <3> QED
      BY <1>5, <3>2, <3>3 DEF ArgsInOrder
  <2>2. \A q \in Root \ asked' : pc'[q] = "idle"
    <3>1. \A q \in Root \ asked : q \in Node /\ pc[q] = "idle"
      BY <1>1, CircuitAssumption DEF InOrder
    <3> QED
      BY <1>2, <1>5, <3>1
  <2> QED
    BY <1>1, <1>5, <2>1, <2>2 DEF InOrder, Placed
<1>8. NoOrphans'
  <2>1. \A p \in Node : \A m \in Children(p) : m \in Node
    BY Shape
  <2>2. \A p \in Node : pc'[p] = "over" => pc[p] = "over"
    BY <1>5
  <2> QED
    BY <1>1, <1>2, <1>5, <2>1, <2>2 DEF NoOrphans
<1>9. Sent' /\ Undisturbed' /\ Answers'
  BY <1>2, <1>4, <1>6, Quieter DEF All
<1> QED
  BY <1>4, <1>7, <1>8, <1>9 DEF IInv

LEMMA NoneStarted ==
  ASSUME IInv, NEW n \in Node, pc[n] = "eval"
  PROVE  \A m \in Children(n) : pc[m] = "idle"
<1>1. ArgsInOrder(n) /\ next[n] = 0
  BY DEF IInv, InOrder, ArgsInOrder
<1>2. \A i \in DOMAIN Args[n] : i > 0
  BY Shape
<1> QED
  BY <1>1, <1>2 DEF ArgsInOrder, Children

\* The task of n ends with the answer m.
LEMMA Ending ==
  ASSUME IInv, NEW n \in Node, NEW C \in SUBSET Children(n), NEW m \in Message,
         pc[n] \in Active, Cancel(n, C, "over"), Offer(n, m),
         accept => \A c \in Children(n) \ C : pc[c] \in {"idle", "over"},
         m = Failure
           \/ (m.index = Index(n) /\ (Faithful => m.value = value[n])),
         accept /\ m = Failure => flag[n],
         UNCHANGED <<value, asked, accept, pending, queue, next, seen>>
  PROVE  IInv'
<1>1. TypeOK
  BY DEF IInv
<1>2. /\ pc' \in [Node -> {"idle", "queued", "over"} \cup Active]
      /\ flag' \in [Node -> BOOLEAN]
      /\ InOrder' /\ NoOrphans' /\ Ends /\ Calm
  BY Cancelling
<1>3. pc'[n] = "over"
  BY DEF Cancel
<1>4. /\ box' \in [Node -> Seq(Message)] /\ answer' \in [Root -> Message]
      /\ \A p \in Node : All(p)' = Heard(p, n, m)
      /\ answer' = IF n \in Root THEN [answer EXCEPT ![n] = m] ELSE answer
  BY OfferIsHeard
<1>5. TypeOK'
  BY <1>1, <1>2, <1>4 DEF TypeOK
<1>6. Sent' /\ Undisturbed' /\ Answers'
  BY <1>2, <1>3, <1>4, <1>5, Sending
<1> QED
  BY <1>2, <1>5, <1>6 DEF IInv

LEMMA LeafReturnsStep ==
  ASSUME IInv, NEW n \in Node, LeafReturns(n)
  PROVE  IInv'
<1> DEFINE m == [value |-> value[n], index |-> Index(n)]
<1>1. TypeOK /\ InOrder
  BY DEF IInv
<1>2. /\ pc[n] = "eval" /\ Type[n] = "LEAF" /\ Offer(n, m)
      /\ Cancel(n, {}, "over")
      /\ UNCHANGED <<value, asked, accept, pending, queue, next, seen>>
  BY DEF LeafReturns, pool
<1>3. Index(n) \in Nat /\ Index(n) # -1
  BY <1>1, <1>2, PlacedIndex DEF InOrder
<1>4. m \in Message /\ m.index = Index(n) /\ m.value = value[n]
  BY <1>1, <1>3 DEF Message, TypeOK, Valuation
<1>5. pc[n] \in Active /\ m # Failure
  BY <1>2, <1>3, <1>4 DEF Active, Failure
<1>6. Children(n) = {}
  BY <1>2, Shape
<1> HIDE DEF m
<1> QED
  BY <1>2, <1>4, <1>5, <1>6, Ending

LEMMA FailureSent ==
  Failure \in Message
BY DEF Failure, Message

LEMMA EvalThrowsStep ==
  ASSUME IInv, NEW n \in Node, EvalThrows(n)
  PROVE  IInv'
<1>1. /\ pc[n] = "eval" /\ flag[n] /\ Offer(n, Failure)
      /\ Cancel(n, {}, "over")
      /\ UNCHANGED <<value, asked, accept, pending, queue, next, seen>>
  BY DEF EvalThrows, pool
<1>2. pc[n] \in Active /\ \A c \in Children(n) \ {} : pc[c] = "idle"
  BY <1>1, NoneStarted DEF Active
<1>3. {} \in SUBSET Children(n)
  OBVIOUS
<1> QED
  BY <1>1, <1>2, <1>3, FailureSent, Ending

LEMMA TakeThrowsStep ==
  ASSUME IInv, NEW n \in Node, TakeThrows(n)
  PROVE  IInv'
<1>1. /\ pc[n] = "take" /\ flag[n] /\ Offer(n, Failure)
      /\ Cancel(n, Children(n), "over")
      /\ UNCHANGED <<value, asked, accept, pending, queue, next, seen>>
  BY DEF TakeThrows, pool
<1>2. pc[n] \in Active /\ Children(n) \ Children(n) = {}
  BY <1>1 DEF Active
<1> QED
  BY <1>1, <1>2, FailureSent, Ending

\* Nothing is taken before the first submission.
LEMMA Nothing ==
  ASSUME NEW n \in Node, NEW D \in SUBSET DOMAIN Args[n], NEW v
  PROVE  OneOfEach(n, <<>>, D) /\ Right(n, <<>>, v) /\ ~Failed(<<>>)
         /\ <<>> \in Seq(Message)
<1>1. <<>> \in Seq(Message) /\ Len(<<>>) = 0 /\ DOMAIN <<>> = {}
  OBVIOUS
<1>2. Cardinality(D) \in Nat
  BY Shape, FS_Subset, FS_CardinalityType
<1>3. 0 <= Cardinality(D)
  BY <1>2
<1> QED
  BY <1>1, <1>3 DEF OneOfEach, Right, Failed

LEMMA GetArgsStep ==
  ASSUME IInv, NEW n \in Node, GetArgs(n)
  PROVE  IInv'
<1> DEFINE v == Verdict(n, <<>>)
           m == [value |-> v.value, index |-> Index(n)]
<1>1. TypeOK /\ InOrder
  BY DEF IInv
<1>2. /\ pc[n] = "eval" /\ Type[n] # "LEAF" /\ pc[n] \in Active
      /\ UNCHANGED <<value, asked, accept, pending, queue, next, seen>>
  BY DEF GetArgs, pool, Active
<1>3. {} \in SUBSET Children(n)
  OBVIOUS
<1>4. CASE v = Wait
  <2>1. Cancel(n, {}, "submit") /\ UNCHANGED <<box, answer>>
    BY <1>4 DEF GetArgs, channels
  <2>2. /\ pc' \in [Node -> {"idle", "queued", "over"} \cup Active]
        /\ flag' \in [Node -> BOOLEAN]
        /\ InOrder' /\ NoOrphans' /\ Ends /\ Calm
    BY <1>2, <1>3, <2>1, Cancelling
  <2>3. TypeOK'
    BY <1>1, <1>2, <2>1, <2>2 DEF TypeOK
  <2>4. Sent' /\ Undisturbed' /\ Answers'
    BY <1>2, <2>1, <2>2, <2>3, Quieter DEF All
  <2> QED
    BY <2>2, <2>3, <2>4 DEF IInv
<1>5. CASE v # Wait
  <2>1. Cancel(n, {}, "over") /\ Offer(n, m)
    BY <1>5 DEF GetArgs
  <2>2. value \in Valuation /\ OneOfEach(n, <<>>, DOMAIN Args[n])
        /\ Right(n, <<>>, value) /\ ~Failed(<<>>) /\ <<>> \in Seq(Message)
    BY <1>1, Nothing DEF TypeOK
  <2>3. v # Silent
    <3>1. CASE Type[n] = "IF"
      <4>1. SimpleArity(n)
        BY CircuitAssumption
      <4>2. Len(Args[n]) = 3
        BY <3>1, <4>1 DEF SimpleArity
      <4>3. v = VerdictIF(n, <<>>) /\ ~AllTaken(n, <<>>)
        BY <1>2, <3>1, <4>2, Branch DEF AllTaken
      <4>4. \A i : ~Got(<<>>, i)
        BY DEF Got
      <4> QED
        BY <1>5, <4>3, <4>4 DEF VerdictIF
    <3> QED
      BY <1>2, <2>2, <3>1, VerdictType
  <2>4. PICK b \in BOOLEAN : v = Answer(b)
    BY <1>2, <1>5, <2>2, <2>3, VerdictType DEF Verdicts
  <2>5. value[n] = b
    BY <1>2, <2>2, <2>4, AnswerIsValue
  <2>6. Index(n) \in Nat /\ Index(n) # -1
    BY <1>1, <1>2, PlacedIndex DEF InOrder
  <2>7. m \in Message /\ m.index = Index(n) /\ m.value = value[n]
    <3>1. v.value = b
      BY <2>4, Kinds
    <3> HIDE DEF v
    <3> QED
      BY <2>5, <2>6, <3>1 DEF Message
  <2>8. m # Failure
    BY <2>6, <2>7 DEF Failure
  <2>9. \A c \in Children(n) \ {} : pc[c] = "idle"
    BY <1>2, NoneStarted
  <2> HIDE DEF m
  <2> QED
    BY <1>2, <1>3, <2>1, <2>7, <2>8, <2>9, Ending
<1> QED
  BY <1>4, <1>5

LEMMA RejectStep ==
  ASSUME IInv, NEW n \in Node, Reject(n)
  PROVE  IInv'
<1>1. TypeOK
  BY DEF IInv
<1>2. /\ pc[n] = "submit" /\ ~accept /\ Cancel(n, {}, "over")
      /\ pc[n] \in Active
      /\ UNCHANGED <<value, asked, accept, pending, queue, next, seen, box,
                     answer>>
  BY DEF Reject, pool, channels, Active
<1>3. {} \in SUBSET Children(n)
  OBVIOUS
<1>4. /\ pc' \in [Node -> {"idle", "queued", "over"} \cup Active]
      /\ flag' \in [Node -> BOOLEAN]
      /\ InOrder' /\ NoOrphans' /\ Ends /\ Calm
  BY <1>2, <1>3, Cancelling
<1>5. TypeOK'
  BY <1>1, <1>2, <1>4 DEF TypeOK
<1>6. Sent' /\ Undisturbed' /\ Answers'
  BY <1>2, <1>4, <1>5, Quieter DEF All
<1> QED
  BY <1>4, <1>5, <1>6 DEF IInv

LEMMA SubmitStep ==
  ASSUME IInv, NEW n \in Node, Submit(n)
  PROVE  IInv'
<1> DEFINE i == next[n] + 1
           m == Args[n][i]
           there == IF i = Len(Args[n]) THEN "take" ELSE "submit"
<1>1. TypeOK /\ InOrder /\ NoOrphans /\ Undisturbed /\ ArgsInOrder(n)
  BY DEF IInv, InOrder
<1>2. /\ pc[n] = "submit" /\ accept /\ queue' = Append(queue, m)
      /\ pc' = [pc EXCEPT ![m] = "queued", ![n] = there]
      /\ next' = [next EXCEPT ![n] = i]
      /\ UNCHANGED <<value, asked, accept, pending, flag, seen, box, answer>>
  BY DEF Submit, channels
<1>3. /\ i \in DOMAIN Args[n] /\ next[n] \in Nat /\ i \in Nat
      /\ Len(Args[n]) \in Nat
  BY <1>1, <1>2, Shape DEF ArgsInOrder, TypeOK
<1>4. /\ m \in Children(n) /\ m \in Node /\ m # n /\ m \notin Root
      /\ pc[m] = "idle"
  <2>1. m \in Children(n)
    BY <1>3 DEF Children
  <2>2. i > next[n]
    BY <1>3
  <2> QED
    BY <1>1, <1>3, <2>1, <2>2, Shape DEF ArgsInOrder
<1>5. \A p \in Node : m \in Children(p) => p = n
  BY <1>3, OneParent DEF Children
<1>6. i < Len(Args[n]) \/ i = Len(Args[n])
  BY <1>3, Shape
<1> HIDE DEF m
<1>7. /\ pc'[n] = there /\ pc'[m] = "queued"
      /\ \A q \in Node : q # n /\ q # m => pc'[q] = pc[q]
      /\ pc' \in [Node -> {"idle", "queued", "over"} \cup Active]
      /\ next'[n] = i /\ \A q \in Node : q # n => next'[q] = next[q]
      /\ next' \in [Node -> Nat]
  <2>1. there \in {"take", "submit"}
    OBVIOUS
  <2> HIDE DEF there, i
  <2> QED
    BY <1>1, <1>2, <1>3, <1>4, <2>1 DEF TypeOK, Active
<1>8. TypeOK'
  BY <1>1, <1>2, <1>4, <1>7, AppendProperties DEF TypeOK
<1>9. Ends
  BY <1>2, <1>4, <1>7 DEF Ends
<1>10. Calm
  BY <1>1, <1>2, <1>9 DEF Calm, Ends, Undisturbed, Wanted
<1>11. InOrder'
  <2>1. ArgsInOrder(n)'
    <3>1. ASSUME NEW j \in DOMAIN Args[n]
          PROVE  pc'[Args[n][j]] = "idle" <=> j > i
      <4>1. CASE j = i
        BY <1>3, <1>7, <4>1 DEF m
      <4>2. CASE j # i
        <5>1. Args[n][j] # m
          BY <1>3, <4>2, OneParent DEF m
        <5>2. Args[n][j] \in Node /\ Args[n][j] # n
          BY Shape DEF Children
        <5>3. j > next[n] <=> j > i
          BY <1>3, <4>2, Shape
        <5> QED
          BY <1>1, <1>7, <5>1, <5>2, <5>3 DEF ArgsInOrder
      <4> QED
        BY <4>1, <4>2
    <3> QED
      BY <1>6, <1>7, <3>1 DEF ArgsInOrder
  <2>2. ASSUME NEW p \in Node, p # n PROVE ArgsInOrder(p)'
    <3>1. ArgsInOrder(p) /\ next'[p] = next[p]
      BY <1>1, <1>7, <2>2 DEF InOrder
    <3>2. ASSUME NEW j \in DOMAIN Args[p]
          PROVE  pc'[Args[p][j]] = "idle" <=> pc[Args[p][j]] = "idle"
      <4>1. Args[p][j] \in Node /\ Args[p][j] # m
        BY <1>5, <2>2, Shape DEF Children
      <4> QED
        BY <1>2, <1>7, <4>1
    <3>3. pc'[p] = pc[p] \/ (pc[p] = "idle" /\ pc'[p] = "queued")
      BY <1>4, <1>7, <2>2
    <3> QED
      BY <3>1, <3>2, <3>3 DEF ArgsInOrder
  <2>3. \A q \in Root \ asked' : pc'[q] = "idle"
    <3>1. \A q \in Root \ asked : q \in Node /\ pc[q] = "idle"
      BY <1>1, CircuitAssumption DEF InOrder
    <3> QED
      BY <1>2, <1>4, <1>7, <3>1
  <2>4. \A q \in Node : pc'[q] # "idle" => Placed(q)
    BY <1>1, <1>2, <1>4, <1>7 DEF InOrder, Placed
  <2> QED
    BY <2>1, <2>2, <2>3, <2>4 DEF InOrder, Placed
<1>12. NoOrphans'
  <2> SUFFICES ASSUME NEW p \in Node, pc'[p] = "over", NEW c \in Children(p)
               PROVE  pc'[c] # "queued" /\ (pc'[c] \in Active => flag'[c])
    BY DEF NoOrphans
  <2>1. p # n /\ p # m /\ pc[p] = "over"
    BY <1>7
  <2>2. c # m /\ c \in Node
    BY <1>5, <2>1, Shape
  <2>3. pc[c] # "queued" /\ (pc[c] \in Active => flag[c])
    BY <1>1, <1>2, <2>1 DEF NoOrphans
  <2> QED
    BY <1>2, <1>7, <2>2, <2>3 DEF Active
<1>13. Sent' /\ Undisturbed' /\ Answers'
  BY <1>2, <1>8, <1>9, <1>10, Quieter DEF All
<1> QED
  BY <1>8, <1>11, <1>12, <1>13 DEF IInv

LEMMA TakeStep ==
  ASSUME IInv, NEW n \in Node, Take(n)
  PROVE  IInv'
<1> DEFINE s == Append(seen[n], Head(box[n]))
           v == Verdict(n, s)
           m == IF v = Fail THEN Failure
                ELSE [value |-> v.value, index |-> Index(n)]
           C == ToCancel(n, s)
           there == IF v = Wait THEN "take" ELSE "over"
           mine == [box EXCEPT ![n] = Tail(@)]
<1>1. TypeOK /\ InOrder /\ Sent /\ Undisturbed
  BY DEF IInv
<1>2. /\ pc[n] = "take" /\ pc[n] \in Active /\ ~flag[n] /\ box[n] # <<>>
      /\ seen' = [seen EXCEPT ![n] = s]
      /\ Cancel(n, C, there)
      /\ v \in {Wait, Silent} => box' = mine /\ answer' = answer
      /\ v \notin {Wait, Silent} =>
           /\ box' = [p \in Node |-> IF n \in Children(p)
                        THEN Append(box[p], m) ELSE mine[p]]
           /\ answer' = IF n \in Root THEN [answer EXCEPT ![n] = m]
                        ELSE answer
      /\ UNCHANGED <<value, asked, accept, pending, queue, next>>
  BY DEF Take, pool, Active
<1>3. /\ seen \in [Node -> Seq(Message)] /\ box \in [Node -> Seq(Message)]
      /\ value \in Valuation /\ answer \in [Root -> Message]
  BY <1>1 DEF TypeOK
<1>4. /\ Head(box[n]) \in Message /\ Tail(box[n]) \in Seq(Message)
      /\ s \in Seq(Message) /\ Len(s) = Len(seen[n]) + 1
  BY <1>2, <1>3, HeadTailProperties, AppendProperties
<1>5. s \o Tail(box[n]) = All(n)
  BY <1>2, <1>3, TakenOver DEF All
<1>6. Done(n) \in SUBSET DOMAIN Args[n]
  BY DEF Done
<1> HIDE DEF s
<1>7. /\ OneOfEach(n, s, Done(n)) /\ (Faithful => Right(n, s, value))
      /\ Failed(s) => Failed(All(n))
  <2> DEFINE t == Tail(box[n])
             D == Done(n)
             a == All(n)
  <2>1. OneOfEach(n, a, D) /\ (Faithful => Right(n, a, value))
    BY <1>1 DEF Sent
  <2>2. t \in Seq(Message) /\ a = s \o t /\ D \in SUBSET DOMAIN Args[n]
    BY <1>4, <1>5, <1>6
  <2> HIDE DEF t, D, a
  <2>3. /\ OneOfEach(n, s, D) /\ (Faithful => Right(n, s, value))
        /\ Failed(s) => Failed(a)
    BY <1>4, <2>1, <2>2, Prefix
  <2> QED
    BY <2>3 DEF D, a
<1>8. OneOfEach(n, s, DOMAIN Args[n])
  BY <1>6, <1>7, MoreDone
<1>9. Type[n] # "LEAF"
  <2>1. Len(s) > 0 /\ Len(s) \in Nat
    BY <1>3, <1>4
  <2>2. Len(s) <= Cardinality(Done(n))
    BY <1>7 DEF OneOfEach
  <2>3. Done(n) # {}
    BY <2>1, <2>2, FS_EmptySet
  <2>4. PICK j \in DOMAIN Args[n] : j \in Done(n)
    BY <1>6, <2>3
  <2>5. Args[n][j] \in Children(n)
    BY DEF Children
  <2> QED
    BY <2>5, Shape
<1>10. /\ v \in Verdicts /\ (v = Silent => Type[n] = "IF")
       /\ v = Fail => Failed(s) /\ Type[n] # "IF"
  BY <1>4, <1>9, VerdictType
<1>11. /\ C \in SUBSET Children(n)
       /\ C # {} => there = "over" \/ Type[n] = "IF"
  BY <1>9, CancelsArguments
<1>12. there = "over" => \A c \in Children(n) \ C : pc[c] \in {"idle", "over"}
  <2> SUFFICES ASSUME v # Wait, NEW j \in DOMAIN Args[n], Args[n][j] \notin C
               PROVE  pc[Args[n][j]] = "over"
    BY DEF Children
  <2>1. j \in Done(n)
    BY <1>6, <1>7, <1>9, CancelsTheRest
  <2> QED
    BY <2>1 DEF Done
<1>13. there \in {"take", "over"} /\ (there = "over" <=> v # Wait)
  OBVIOUS
<1> HIDE DEF C, there
<1>14. /\ pc' \in [Node -> {"idle", "queued", "over"} \cup Active]
       /\ flag' \in [Node -> BOOLEAN]
       /\ InOrder' /\ NoOrphans' /\ Ends /\ Calm
  BY <1>2, <1>11, <1>12, <1>13, Cancelling
<1>15. /\ pc'[n] = there /\ seen' \in [Node -> Seq(Message)]
       /\ seen'[n] = s /\ \A p \in Node : p # n => seen'[p] = seen[p]
       /\ mine \in [Node -> Seq(Message)] /\ mine[n] = Tail(box[n])
       /\ \A p \in Node : p # n => mine[p] = box[p]
       /\ n \notin Children(n)
  BY <1>2, <1>3, <1>4, Shape DEF Cancel
<1> HIDE DEF mine
<1>16. CASE v \in {Wait, Silent}
  <2>1. box' = mine /\ answer' = answer
    BY <1>2, <1>16
  <2>2. \A p \in Node : All(p)' = All(p)
    <3>1. All(n)' = All(n)
      BY <1>5, <1>15, <2>1 DEF All
    <3>2. \A p \in Node : p # n => All(p)' = All(p)
      BY <1>15, <2>1 DEF All
    <3> QED
      BY <3>1, <3>2
  <2>3. TypeOK'
    BY <1>1, <1>2, <1>14, <1>15, <2>1 DEF TypeOK
  <2>4. Sent' /\ Undisturbed' /\ Answers'
    BY <1>2, <1>14, <2>1, <2>2, <2>3, Quieter
  <2> QED
    BY <1>14, <2>3, <2>4 DEF IInv
<1>17. CASE v \notin {Wait, Silent}
  <2>1. Index(n) \in Nat /\ Index(n) # -1
    BY <1>1, <1>2, PlacedIndex DEF InOrder
  <2>2. accept /\ Type[n] # "IF" => ~Failed(s)
    BY <1>1, <1>2, <1>7 DEF Undisturbed, Wanted, Failed
  <2>3. /\ m \in Message /\ (accept => m # Failure)
        /\ m = Failure
             \/ (m.index = Index(n) /\ (Faithful => m.value = value[n]))
    <3>1. CASE v = Fail
      BY <1>10, <2>2, <3>1, FailureSent
    <3>2. CASE v # Fail
      <4>1. PICK b \in BOOLEAN : v = Answer(b)
        BY <1>10, <1>17, <3>2 DEF Verdicts
      <4>2. v.value = b /\ m = [value |-> v.value, index |-> Index(n)]
        BY <3>2, <4>1, Kinds
      <4>3. Faithful => value[n] = b
        <5> SUFFICES ASSUME Faithful PROVE value[n] = b
          OBVIOUS
        <5>1. Type[n] = "NOT" => ~Failed(s)
          BY <2>2 DEF Faithful
        <5> QED
          BY <1>3, <1>7, <1>8, <1>9, <4>1, <5>1, AnswerIsValue
      <4> HIDE DEF v, m
      <4>4. m.index = Index(n) /\ m.value = b /\ m \in Message
        BY <2>1, <4>2 DEF Message
      <4>5. m # Failure
        BY <2>1, <4>4 DEF Failure
      <4> QED
        BY <4>3, <4>4, <4>5
    <3> QED
      BY <3>1, <3>2
  <2> HIDE DEF m
  <2>4. /\ \A p \in Node : box'[p] = IF n \in Children(p)
             THEN Append(box[p], m) ELSE mine[p]
        /\ box' \in [Node -> Seq(Message)]
        /\ answer' = IF n \in Root THEN [answer EXCEPT ![n] = m] ELSE answer
        /\ answer' \in [Root -> Message]
    <3>1. /\ box' = [p \in Node |-> IF n \in Children(p)
                       THEN Append(box[p], m) ELSE mine[p]]
          /\ answer' = IF n \in Root THEN [answer EXCEPT ![n] = m] ELSE answer
      BY <1>2, <1>17
    <3>2. \A p \in Node : Append(box[p], m) \in Seq(Message)
      BY <1>3, <2>3, AppendProperties
    <3> QED
      BY <1>3, <1>15, <2>3, <3>1, <3>2
  <2>5. ASSUME NEW p \in Node
        PROVE  All(p)' = Heard(p, n, m)
    <3>1. CASE p = n
      BY <1>5, <1>15, <2>4, <3>1 DEF All, Heard
    <3>2. CASE p # n
      <4>1. seen[p] \o Append(box[p], m) = Append(seen[p] \o box[p], m)
        BY <1>3, <2>3, ConcatAppend
      <4> QED
        BY <1>15, <2>4, <3>2, <4>1 DEF All, Heard
    <3> QED
      BY <3>1, <3>2
  <2>6. TypeOK'
    BY <1>1, <1>2, <1>14, <1>15, <2>4 DEF TypeOK
  <2>7. pc'[n] = "over"
    BY <1>13, <1>15, <1>17
  <2>8. Sent' /\ Undisturbed' /\ Answers'
    BY <1>2, <1>14, <2>3, <2>4, <2>5, <2>6, <2>7, Sending
  <2> QED
    BY <1>14, <2>6, <2>8 DEF IInv
<1> QED
  BY <1>16, <1>17

LEMMA IInvInit ==
  Init => IInv
<1> SUFFICES ASSUME Init PROVE IInv
  OBVIOUS
<1>1. <<>> \in Seq(Message) /\ <<>> \in Seq(Node)
  OBVIOUS
<1>2. /\ NoAnswer \in Message /\ NoAnswer.index # 0
      /\ NoAnswer # Failure
  BY DEF NoAnswer, Failure, Message
<1>3. TypeOK
  BY <1>1, <1>2 DEF Init, TypeOK
<1>4. InOrder
  <2>1. \A n \in Node : \A i \in DOMAIN Args[n] : Args[n][i] \in Node /\ i > 0
    BY Shape, ElementOfSeq
  <2> QED
    BY <2>1, CircuitAssumption DEF Init, InOrder, ArgsInOrder
<1>5. \A n \in Node : All(n) = <<>>
  BY <1>1, ConcatEmptySeq DEF Init, All
<1>6. Sent
  <2>1. \A n \in Node : Done(n) \in SUBSET DOMAIN Args[n]
    BY DEF Done
  <2> QED
    BY <1>5, <2>1, Nothing DEF Sent
<1>7. Undisturbed
  <2>1. \A n \in Node : \A m \in Children(n) : m \in Node
    BY Shape
  <2> QED
    BY <1>5, <2>1, CircuitAssumption DEF Init, Undisturbed
<1>8. NoOrphans
  BY DEF Init, NoOrphans
<1>9. Answers
  BY <1>2 DEF Init, Answers, AnswerRight, FailureOnlyWhenStopped
<1> QED
  BY <1>3, <1>4, <1>6, <1>7, <1>8, <1>9 DEF IInv

LEMMA IInvStep ==
  IInv /\ [Next]_vars => IInv'
<1> SUFFICES ASSUME IInv, [Next]_vars PROVE IInv'
  OBVIOUS
<1>1. CASE UNCHANGED vars
  <2>1. UNCHANGED <<value, asked, accept, pending, queue, pc, flag, next, box,
                    seen, answer>>
    BY <1>1 DEF vars, pool, tasks, channels
  <2>2. TypeOK' /\ InOrder' /\ NoOrphans'
    BY <2>1
    DEF IInv, TypeOK, InOrder, ArgsInOrder, Placed, NoOrphans
  <2>3. Sent' /\ Undisturbed' /\ Answers'
    <3>1. Ends /\ Calm
      BY <2>1 DEF IInv, Ends, Calm, Undisturbed, Wanted
    <3> QED
      BY <2>1, <2>2, <3>1, Quieter DEF All
  <2> QED
    BY <2>2, <2>3 DEF IInv
<1>2. ASSUME NEW r \in Root, Solve(r) PROVE IInv'
  BY <1>2, SolveStep
<1>3. CASE Stop
  BY <1>3, StopStep
<1>4. CASE Start
  BY <1>4, StartStep
<1>5. ASSUME NEW n \in Node, InterruptWorker(n) PROVE IInv'
  BY <1>5, InterruptWorkerStep
<1>6. ASSUME NEW n \in Node, TaskStep(n) PROVE IInv'
  <2>1. CASE LeafReturns(n)
    BY <2>1, LeafReturnsStep
  <2>2. CASE EvalThrows(n)
    BY <2>2, EvalThrowsStep
  <2>3. CASE GetArgs(n)
    BY <2>3, GetArgsStep
  <2>4. CASE Submit(n)
    BY <2>4, SubmitStep
  <2>5. CASE Reject(n)
    BY <2>5, RejectStep
  <2>6. CASE Take(n)
    BY <2>6, TakeStep
  <2>7. CASE TakeThrows(n)
    BY <2>7, TakeThrowsStep
  <2> QED
    BY <1>6, <2>1, <2>2, <2>3, <2>4, <2>5, <2>6, <2>7 DEF TaskStep
<1>7. CASE Finished
  BY <1>1, <1>7 DEF Finished
<1> QED
  BY <1>1, <1>2, <1>3, <1>4, <1>5, <1>6, <1>7 DEF Next

LEMMA IInvAlways ==
  Spec => []IInv
BY IInvInit, IInvStep, PTL DEF Spec

\* accept only becomes FALSE in Stop.
LEMMA OnlyStop ==
  Spec => [](accept \/ MayStop)
<1>1. Init => accept \/ MayStop
  BY DEF Init
<1>2. (accept \/ MayStop) /\ [Next]_vars => (accept \/ MayStop)'
  <2> SUFFICES ASSUME accept, [Next]_vars, ~MayStop PROVE accept'
    OBVIOUS
  <2> QED
    BY DEF Next, vars, pool, channels, Solve, Stop, Start, InterruptWorker,
       TaskStep, LeafReturns, EvalThrows, GetArgs, Submit, Reject, Take,
       TakeThrows, Finished
<1> QED
  BY <1>1, <1>2, PTL DEF Spec

-----------------------------------------------------------------------------
(* What holds in every run                                                 *)

\* What a task is sent fits its channel, whatever is cancelled, stopped or
\* interrupted: no offer() to a channel of capacity args.length is lost.
ChannelsSuffice ==
  \A n \in Node : Len(box[n]) + Len(seen[n]) <= Len(Args[n])

LEMMA Room ==
  ASSUME IInv, NEW n \in Node
  PROVE  Len(box[n]) + Len(seen[n]) <= Len(Args[n])
<1> DEFINE s == seen[n]
           r == box[n]
           c == Cardinality(Done(n))
           l == Len(Args[n])
<1>1. s \in Seq(Message) /\ r \in Seq(Message)
  BY DEF IInv, TypeOK
<1>2. Len(s \o r) = Len(s) + Len(r) /\ Len(s) \in Nat /\ Len(r) \in Nat
  BY <1>1, ConcatProperties
<1>3. Len(s \o r) <= c
  BY DEF IInv, Sent, OneOfEach, All
<1>4. c \in Nat /\ l \in Nat /\ c <= l
  <2>1. Done(n) \subseteq DOMAIN Args[n]
    BY DEF Done
  <2> QED
    BY <2>1, Shape, FS_Subset, FS_CardinalityType
<1> HIDE DEF s, r, c, l
<1>5. Len(r) + Len(s) <= l
  BY <1>2, <1>3, <1>4
<1> QED
  BY <1>5 DEF s, r, l

\* ParallelCircuitSolver.java: ArrayBlockingQueue(args.length) has room for
\* every offer() of the arguments of a node, also after stop().
THEOREM NoOfferLost ==
  Spec => []ChannelsSuffice
<1>1. IInv => ChannelsSuffice
  BY Room DEF ChannelsSuffice
<1> QED
  BY <1>1, IInvAlways, PTL

LEMMA RightInBox ==
  ASSUME IInv, Faithful
  PROVE  ResultsRight
<1> SUFFICES ASSUME NEW n \in Node, NEW k \in DOMAIN box[n],
                    box[n][k].index # -1
             PROVE  /\ box[n][k].index + 1 \in DOMAIN Args[n]
                    /\ box[n][k].value = value[Args[n][box[n][k].index + 1]]
  BY Room DEF ResultsRight
<1>1. seen[n] \in Seq(Message) /\ box[n] \in Seq(Message)
  BY DEF IInv, TypeOK
<1>2. /\ Len(seen[n]) + k \in DOMAIN All(n)
      /\ All(n)[Len(seen[n]) + k] = box[n][k]
  <2> DEFINE s == seen[n]
             r == box[n]
             j == Len(s) + k
  <2>1. /\ Len(s \o r) = Len(s) + Len(r) /\ Len(s) \in Nat /\ Len(r) \in Nat
        /\ s \o r \in Seq(Message) /\ DOMAIN (s \o r) = 1..Len(s \o r)
        /\ \A i \in 1..(Len(s) + Len(r)) :
             (s \o r)[i] = IF i <= Len(s) THEN s[i] ELSE r[i - Len(s)]
    <3>1. s \in Seq(Message) /\ r \in Seq(Message)
      BY <1>1
    <3> HIDE DEF s, r
    <3>2. s \o r \in Seq(Message) /\ Len(s \o r) = Len(s) + Len(r)
      BY <3>1, ConcatProperties
    <3>3. \A i \in 1..(Len(s) + Len(r)) :
            (s \o r)[i] = IF i <= Len(s) THEN s[i] ELSE r[i - Len(s)]
      BY <3>1, ConcatProperties
    <3> QED
      BY <3>1, <3>2, <3>3
  <2>2. k \in 1..Len(r)
    BY <1>1
  <2> HIDE DEF s, r
  <2>3. j \in 1..(Len(s) + Len(r)) /\ ~(j <= Len(s)) /\ j - Len(s) = k
    BY <2>1, <2>2
  <2> HIDE DEF j
  <2>4. j \in DOMAIN (s \o r) /\ (s \o r)[j] = r[k]
    BY <2>1, <2>3
  <2> QED
    BY <2>4 DEF All, s, r, j
<1>3. /\ OneOfEach(n, All(n), Done(n)) /\ Right(n, All(n), value)
      /\ Done(n) \subseteq DOMAIN Args[n]
  BY DEF IInv, Sent, Done
<1> HIDE DEF All, Done
<1> QED
  BY <1>2, <1>3 DEF OneOfEach, Right

\* As long as stop() has not been called, and in circuits without NOT nodes
\* also after it, what a task takes from its channel is the value of the
\* argument that sent it or a failure, and is sent once.
THEOREM ResultsRightUnlessNegated ==
  Spec => [](Faithful => ResultsRight)
BY RightInBox, IInvAlways, PTL

\* A client is given the value of the sequential solver, or a failure: a
\* cancelled, interrupted or early answered task never changes it.
THEOREM AnswerRightUnlessNegated ==
  Spec => [](Faithful => AnswerRight)
<1>1. IInv => (Faithful => AnswerRight)
  BY DEF IInv, Answers
<1> QED
  BY <1>1, IInvAlways, PTL

\* The two results for every run in which nobody calls stop(), or in which
\* no node can negate the failure that an interrupted task sends.
THEOREM RightWithoutStopOrNot ==
  ASSUME ~MayStop \/ \A n \in Node : Type[n] # "NOT"
  PROVE  Spec => [](ResultsRight /\ AnswerRight)
<1>1. (accept \/ MayStop) => Faithful
  BY DEF Faithful
<1> QED
  BY <1>1, OnlyStop, ResultsRightUnlessNegated, AnswerRightUnlessNegated, PTL

\* When a task has ended, none of its arguments is queued, and one that runs
\* is interrupted, whatever ended the task and in whatever order.
THEOREM NothingOrphaned ==
  Spec => []NoOrphans
<1>1. IInv => NoOrphans
  BY DEF IInv
<1> QED
  BY <1>1, IInvAlways, PTL

\* No cancellation reaches a task whose result is wanted: as long as nobody
\* calls stop(), getValue() never throws.
THEOREM OnlyStopFails ==
  Spec => []FailureOnlyWhenStopped
<1>1. IInv => FailureOnlyWhenStopped
  BY DEF IInv, Answers
<1> QED
  BY <1>1, IInvAlways, PTL

-----------------------------------------------------------------------------
(* CircuitValue, for any number of callers and interrupts.                 *)

ValueTypeOK ==
  /\ sent \in Wrapper \ {Null}
  /\ channel \in Wrapper /\ result \in Wrapper
  /\ permits \in Nat
  /\ isDone \in BOOLEAN /\ disturbed \in BOOLEAN
  /\ at \in [Caller -> {"test", "acquire", "check", "take", "done", "release",
                         "catch", "fail", "throw", "index", "value", "end"}]
  /\ out \in [Caller -> {"none", "true", "false", "thrown", "null"}]
  /\ interrupted \in [Caller -> BOOLEAN]

\* At most one caller is at one of the points P, and none while the semaphore
\* has its permit.
Exclusive(P) ==
  /\ permits \in {0, 1}
  /\ \A t \in Caller : at[t] \in P => permits = 0
  /\ \A t, u \in Caller : at[t] \in P /\ at[u] \in P => t = u

\* Until an interrupt the semaphore works, and nobody is in a catch block.
HandlerAlone ==
  ~disturbed =>
    /\ Exclusive({"check", "take", "done", "release"})
    /\ \A t \in Caller : at[t] \notin {"catch", "fail", "throw"}

\* Until isDone nobody has come to a release, whatever was interrupted, so
\* that the semaphore has given its permit once.
PermitOnce ==
  ~isDone =>
    /\ Exclusive({"check", "take", "done"})
    /\ \A t \in Caller :
         at[t] \notin {"release", "fail", "throw", "index", "value"}

\* After it nobody goes on to the channel.
TakerAlone ==
  \A t, u \in Caller : at[t] = "take" /\ at[u] = "take" => t = u

\* Until an interrupt the field result is written once, before isDone.
ResultKept ==
  ~disturbed =>
    /\ channel \in {Null, sent}
    /\ isDone => result = sent
    /\ \A t \in Caller :
         /\ at[t] = "done" => result = sent
         /\ at[t] = "value" => sent.ok
         /\ out[t] \in {"true", "false"} =>
              sent.ok /\ out[t] = Out(sent.value)

ValueInv ==
  ValueTypeOK /\ HandlerAlone /\ PermitOnce /\ TakerAlone /\ ResultKept

-----------------------------------------------------------------------------
(* The invariant is inductive.                                             *)

LEMMA ValueBegins == ValueInit => ValueInv
<1> SUFFICES ASSUME ValueInit PROVE ValueInv
  OBVIOUS
<1>1. ValueTypeOK
  BY DEF ValueInit, ValueTypeOK, Wrapper
<1>2. HandlerAlone /\ PermitOnce
  BY DEF ValueInit, HandlerAlone, PermitOnce, Exclusive
<1>3. TakerAlone /\ ResultKept
  BY DEF ValueInit, TakerAlone, ResultKept
<1> QED
  BY <1>1, <1>2, <1>3 DEF ValueInv

\* Who finds isDone set goes on to the result.
LEMMA TestKeeps ==
  ASSUME ValueInv, NEW t \in Caller, Test(t)
  PROVE  ValueInv'
<1>1. ValueTypeOK'
  BY DEF ValueInv, ValueTypeOK, Test, GoTo, solver, Wrapper, Out
<1>2. HandlerAlone'
  BY DEF ValueInv, ValueTypeOK, HandlerAlone, Exclusive, Test, GoTo, solver
<1>3. PermitOnce'
  BY DEF ValueInv, ValueTypeOK, PermitOnce, Exclusive, Test, GoTo, solver
<1>4. TakerAlone'
  BY DEF ValueInv, ValueTypeOK, TakerAlone, PermitOnce, Exclusive, Test, GoTo,
     solver
<1>5. ResultKept'
  BY DEF ValueInv, ValueTypeOK, ResultKept, PermitOnce, Test, GoTo, solver
<1> QED
  BY <1>1, <1>2, <1>3, <1>4, <1>5 DEF ValueInv

\* Taking the permit needs one, so nobody else is inside.
LEMMA AcquireKeeps ==
  ASSUME ValueInv, NEW t \in Caller, Acquire(t)
  PROVE  ValueInv'
<1>1. ValueTypeOK'
  <2>1. permits' \in Nat
    BY DEF ValueInv, ValueTypeOK, Acquire
  <2>2. at' = [at EXCEPT ![t] = "check"]
    BY DEF Acquire, GoTo
  <2> QED
    BY <2>1, <2>2 DEF ValueInv, ValueTypeOK, Acquire, solver
<1>2. HandlerAlone'
  BY DEF ValueInv, ValueTypeOK, HandlerAlone, Exclusive, Acquire, GoTo, solver
<1>3. PermitOnce'
  BY DEF ValueInv, ValueTypeOK, PermitOnce, Exclusive, Acquire, GoTo, solver
<1>4. TakerAlone'
  BY DEF ValueInv, ValueTypeOK, TakerAlone, PermitOnce, Exclusive, Acquire,
     GoTo, solver
<1>5. ResultKept'
  BY DEF ValueInv, ValueTypeOK, ResultKept, PermitOnce, Acquire, GoTo, solver
<1> QED
  BY <1>1, <1>2, <1>3, <1>4, <1>5 DEF ValueInv

\* Nobody goes on to the channel once isDone is set.
LEMMA CheckKeeps ==
  ASSUME ValueInv, NEW t \in Caller, Check(t)
  PROVE  ValueInv'
<1>1. ValueTypeOK'
  BY DEF ValueInv, ValueTypeOK, Check, GoTo, solver, Wrapper, Out
<1>2. HandlerAlone'
  BY DEF ValueInv, ValueTypeOK, HandlerAlone, Exclusive, Check, GoTo, solver
<1>3. PermitOnce'
  BY DEF ValueInv, ValueTypeOK, PermitOnce, Exclusive, Check, GoTo, solver
<1>4. TakerAlone'
  BY DEF ValueInv, ValueTypeOK, TakerAlone, PermitOnce, Exclusive, Check, GoTo,
     solver
<1>5. ResultKept'
  BY DEF ValueInv, ValueTypeOK, ResultKept, PermitOnce, Check, GoTo, solver
<1> QED
  BY <1>1, <1>2, <1>3, <1>4, <1>5 DEF ValueInv

\* What is taken is what was sent.
LEMMA TakeResultKeeps ==
  ASSUME ValueInv, NEW t \in Caller, TakeResult(t)
  PROVE  ValueInv'
<1>1. ValueTypeOK'
  BY DEF ValueInv, ValueTypeOK, TakeResult, GoTo, solver, Wrapper, Out
<1>2. HandlerAlone'
  BY DEF ValueInv, ValueTypeOK, HandlerAlone, Exclusive, TakeResult, GoTo,
     solver
<1>3. PermitOnce'
  BY DEF ValueInv, ValueTypeOK, PermitOnce, Exclusive, TakeResult, GoTo, solver
<1>4. TakerAlone'
  BY DEF ValueInv, ValueTypeOK, TakerAlone, PermitOnce, Exclusive, TakeResult,
     GoTo, solver
<1>5. ResultKept'
  BY DEF ValueInv, ValueTypeOK, ResultKept, PermitOnce, TakeResult, GoTo,
     solver
<1> QED
  BY <1>1, <1>2, <1>3, <1>4, <1>5 DEF ValueInv

\* isDone is set after result.
LEMMA SetDoneKeeps ==
  ASSUME ValueInv, NEW t \in Caller, SetDone(t)
  PROVE  ValueInv'
<1>1. ValueTypeOK'
  BY DEF ValueInv, ValueTypeOK, SetDone, GoTo, solver, Wrapper, Out
<1>2. HandlerAlone'
  BY DEF ValueInv, ValueTypeOK, HandlerAlone, Exclusive, SetDone, GoTo, solver
<1>3. PermitOnce'
  BY DEF ValueInv, ValueTypeOK, PermitOnce, Exclusive, SetDone, GoTo, solver
<1>4. TakerAlone'
  BY DEF ValueInv, ValueTypeOK, TakerAlone, PermitOnce, Exclusive, SetDone,
     GoTo, solver
<1>5. ResultKept'
  BY DEF ValueInv, ValueTypeOK, ResultKept, PermitOnce, SetDone, GoTo, solver
<1> QED
  BY <1>1, <1>2, <1>3, <1>4, <1>5 DEF ValueInv

\* An interrupt makes the guarantees that depend on none void.
LEMMA ThrowKeeps ==
  ASSUME ValueInv, NEW t \in Caller, Throw(t)
  PROVE  ValueInv'
<1>1. ValueTypeOK'
  BY DEF ValueInv, ValueTypeOK, Throw, GoTo, solver, Wrapper, Out
<1>2. HandlerAlone'
  BY DEF ValueInv, ValueTypeOK, HandlerAlone, Exclusive, Throw, GoTo, solver
<1>3. PermitOnce'
  BY DEF ValueInv, ValueTypeOK, PermitOnce, Exclusive, Throw, GoTo, solver
<1>4. TakerAlone'
  BY DEF ValueInv, ValueTypeOK, TakerAlone, PermitOnce, Exclusive, Throw, GoTo,
     solver
<1>5. ResultKept'
  BY DEF ValueInv, ValueTypeOK, ResultKept, PermitOnce, Throw, GoTo, solver
<1> QED
  BY <1>1, <1>2, <1>3, <1>4, <1>5 DEF ValueInv

\* Only an interrupted caller comes here.
LEMMA CatchDoneKeeps ==
  ASSUME ValueInv, NEW t \in Caller, CatchDone(t)
  PROVE  ValueInv'
<1>1. ValueTypeOK'
  BY DEF ValueInv, ValueTypeOK, CatchDone, GoTo, solver, Wrapper, Out
<1>2. HandlerAlone'
  BY DEF ValueInv, ValueTypeOK, HandlerAlone, Exclusive, CatchDone, GoTo,
     solver
<1>3. PermitOnce'
  BY DEF ValueInv, ValueTypeOK, PermitOnce, Exclusive, CatchDone, GoTo, solver
<1>4. TakerAlone'
  BY DEF ValueInv, ValueTypeOK, TakerAlone, PermitOnce, Exclusive, CatchDone,
     GoTo, solver
<1>5. ResultKept'
  BY DEF ValueInv, ValueTypeOK, ResultKept, HandlerAlone, CatchDone, GoTo,
     solver
<1> QED
  BY <1>1, <1>2, <1>3, <1>4, <1>5 DEF ValueInv

\* Only an interrupted caller comes here, after isDone.
LEMMA CatchResultKeeps ==
  ASSUME ValueInv, NEW t \in Caller, CatchResult(t)
  PROVE  ValueInv'
<1>1. ValueTypeOK'
  BY DEF ValueInv, ValueTypeOK, CatchResult, GoTo, solver, Wrapper, Out
<1>2. HandlerAlone'
  BY DEF ValueInv, ValueTypeOK, HandlerAlone, Exclusive, CatchResult, GoTo,
     solver
<1>3. PermitOnce'
  BY DEF ValueInv, ValueTypeOK, PermitOnce, Exclusive, CatchResult, GoTo,
     solver
<1>4. TakerAlone'
  BY DEF ValueInv, ValueTypeOK, TakerAlone, PermitOnce, Exclusive, CatchResult,
     GoTo, solver
<1>5. ResultKept'
  BY DEF ValueInv, ValueTypeOK, ResultKept, HandlerAlone, CatchResult, GoTo,
     solver
<1> QED
  BY <1>1, <1>2, <1>3, <1>4, <1>5 DEF ValueInv

\* Until an interrupt, who releases is the one that acquired.
LEMMA ReleaseKeeps ==
  ASSUME ValueInv, NEW t \in Caller, Release(t)
  PROVE  ValueInv'
<1>1. ValueTypeOK'
  <2>1. permits' \in Nat
    BY DEF ValueInv, ValueTypeOK, Release
  <2>2. \/ at' = [at EXCEPT ![t] = "index"] /\ UNCHANGED out
        \/ /\ at' = [at EXCEPT ![t] = "end"]
           /\ out' = [out EXCEPT ![t] = "thrown"]
    BY DEF Release, GoTo
  <2> QED
    BY <2>1, <2>2 DEF ValueInv, ValueTypeOK, Release, solver
<1>2. HandlerAlone'
  BY DEF ValueInv, ValueTypeOK, HandlerAlone, Exclusive, Release, GoTo, solver
<1>3. PermitOnce'
  BY DEF ValueInv, ValueTypeOK, PermitOnce, Exclusive, Release, GoTo, solver
<1>4. TakerAlone'
  BY DEF ValueInv, ValueTypeOK, TakerAlone, PermitOnce, Exclusive, Release,
     GoTo, solver
<1>5. ResultKept'
  BY DEF ValueInv, ValueTypeOK, ResultKept, PermitOnce, Release, GoTo, solver
<1> QED
  BY <1>1, <1>2, <1>3, <1>4, <1>5 DEF ValueInv

\* Until an interrupt a caller past isDone finds the answer.
LEMMA ReadIndexKeeps ==
  ASSUME ValueInv, NEW t \in Caller, ReadIndex(t)
  PROVE  ValueInv'
<1>1. ValueTypeOK'
  BY DEF ValueInv, ValueTypeOK, ReadIndex, GoTo, solver, Wrapper, Out
<1>2. HandlerAlone'
  BY DEF ValueInv, ValueTypeOK, HandlerAlone, Exclusive, ReadIndex, GoTo,
     solver
<1>3. PermitOnce'
  BY DEF ValueInv, ValueTypeOK, PermitOnce, Exclusive, ReadIndex, GoTo, solver
<1>4. TakerAlone'
  BY DEF ValueInv, ValueTypeOK, TakerAlone, PermitOnce, Exclusive, ReadIndex,
     GoTo, solver
<1>5. ResultKept'
  BY DEF ValueInv, ValueTypeOK, ResultKept, PermitOnce, ReadIndex, GoTo, solver
<1> QED
  BY <1>1, <1>2, <1>3, <1>4, <1>5 DEF ValueInv

\* Until an interrupt a caller that found an index finds its value.
LEMMA ReadValueKeeps ==
  ASSUME ValueInv, NEW t \in Caller, ReadValue(t)
  PROVE  ValueInv'
<1>1. ValueTypeOK'
  BY DEF ValueInv, ValueTypeOK, ReadValue, GoTo, solver, Wrapper, Out
<1>2. HandlerAlone'
  BY DEF ValueInv, ValueTypeOK, HandlerAlone, Exclusive, ReadValue, GoTo,
     solver
<1>3. PermitOnce'
  BY DEF ValueInv, ValueTypeOK, PermitOnce, Exclusive, ReadValue, GoTo, solver
<1>4. TakerAlone'
  BY DEF ValueInv, ValueTypeOK, TakerAlone, PermitOnce, Exclusive, ReadValue,
     GoTo, solver
<1>5. ResultKept'
  BY DEF ValueInv, ValueTypeOK, ResultKept, PermitOnce, ReadValue, GoTo, solver
<1> QED
  BY <1>1, <1>2, <1>3, <1>4, <1>5 DEF ValueInv

LEMMA ValueKeeps == ValueInv /\ [ValueNext]_valueVars => ValueInv'
<1> SUFFICES ASSUME ValueInv, [ValueNext]_valueVars PROVE ValueInv'
  OBVIOUS
<1>1. CASE Deliver
  BY <1>1 DEF Deliver, ValueInv, ValueTypeOK, HandlerAlone, Exclusive,
     PermitOnce, TakerAlone, ResultKept
<1>2. CASE \E t \in Caller : Interrupt(t)
  BY <1>2 DEF Interrupt, solver, ValueInv, ValueTypeOK, HandlerAlone,
     Exclusive, PermitOnce, TakerAlone, ResultKept
<1>3. CASE \E t \in Caller : getValue(t)
  BY <1>3, TestKeeps, AcquireKeeps, CheckKeeps, TakeResultKeeps, SetDoneKeeps,
     ThrowKeeps, CatchDoneKeeps, CatchResultKeeps, ReleaseKeeps,
     ReadIndexKeeps, ReadValueKeeps DEF getValue
<1>4. CASE UNCHANGED valueVars
  BY <1>4 DEF valueVars, solver, ValueInv, ValueTypeOK, HandlerAlone,
     Exclusive, PermitOnce, TakerAlone, ResultKept
<1> QED
  BY <1>1, <1>2, <1>3, <1>4 DEF ValueNext, AllReturned

LEMMA ValueAlways == ValueSpec => []ValueInv
  BY ValueBegins, ValueKeeps, PTL DEF ValueSpec

-----------------------------------------------------------------------------
(* Theorems                                                                *)

\* Until an interrupt one caller at most is between acquire() and release().
THEOREM OneCallerInside == ValueSpec => []OneHandler
<1>1. ValueInv => OneHandler
  BY DEF ValueInv, HandlerAlone, Exclusive, OneHandler, Inside
<1> QED
  BY <1>1, ValueAlways, PTL

\* Two callers never wait on the channel, whatever is interrupted.
THEOREM OneCallerTakes == ValueSpec => []NoDoubleTake
<1>1. ValueInv => NoDoubleTake
  BY DEF ValueInv, TakerAlone, NoDoubleTake
<1> QED
  BY <1>1, ValueAlways, PTL

\* Until an interrupt getValue() returns the value the solver sent.
THEOREM CallersGetTheAnswer == ValueSpec => []UndisturbedAnswer
<1>1. ValueInv => UndisturbedAnswer
  BY DEF ValueInv, ValueTypeOK, ResultKept, UndisturbedAnswer,
     ReturnsTheAnswer, Wrapper, Null, Invalid, Good
<1> QED
  BY <1>1, ValueAlways, PTL

=============================================================================
