--------------------------- MODULE ProgramsProofs ---------------------------
(***************************************************************************)
(* Proofs about the programs side by side: the array of the nonrecursive   *)
(* search has room for its stack, whatever the input; however many binders *)
(* share their contents, a call on one of them is not seen through         *)
(* another; the two directions of every connection of the gates agree; no  *)
(* tournament loses a knight, makes gold or spoils the best pieces; and    *)
(* the linked customers of the office are the queues that were promised.   *)
(***************************************************************************)
EXTENDS Programs, FiniteSetTheorems, WellFoundedInduction, SequenceTheorems,
        TLAPS

-----------------------------------------------------------------------------
(* The stack of the search                                                 *)

Multiset == [Search!Element -> Nat]
Sumset == [last : Nat \ {0}, sum : Nat, sums : SUBSET Nat,
           added : Multiset, start : SUBSET Nat]
Frames == [a : Sumset, b : Sumset, last : Nat \ {0}, intersect : BOOLEAN]

\* The empty multiset and the whole one have their sums.
Full(s) == s.sum \in s.sums /\ 0 \in s.sums

\* Between any two rungs lies a sum of s, and no rung is D above the last.
Laddered(s) ==
  \E t \in [0..s.sum -> Nat] :
    /\ \A v \in 0..s.sum : t[v] <= v /\ v < t[v] + D
    /\ \A v, w \in 0..s.sum :
         v <= w => t[v] <= t[w] /\ t[w] - t[v] \in s.sums

\* The sumset t has come out of s by additions.
Grown(s, t) ==
  s.sum <= t.sum /\ s.sums \subseteq t.sums /\ t.sum - s.sum \in t.sums

\* P[j] and Q[j] are the two sides of frame j, P is the one that started
\* with the smaller sum.  Until it has caught up, Q does not change; then the
\* two sums stay within D of each other.
Early(P, Q, j) == Q[j] = Q[1] /\ P[j].sum <= Q[j].sum
Near(P, Q, j) == P[j].sum - Q[j].sum \in -D..D

Sides(f, p, q) == {p, q} = {f.a, f.b}

History(s, P, Q) ==
  /\ P \in [1..Len(s) -> Sumset] /\ Q \in [1..Len(s) -> Sumset]
  /\ \A j \in 1..Len(s) : Sides(s[j], P[j], Q[j]) /\ Full(P[j]) /\ Full(Q[j])
  /\ \A j, k \in 1..Len(s) :
       j < k => /\ Grown(P[j], P[k]) /\ Grown(Q[j], Q[k])
                /\ P[j].sum + Q[j].sum < P[k].sum + Q[k].sum
  /\ \A j \in 1..Len(s) : Early(P, Q, j) \/ Near(P, Q, j)
  /\ s # <<>> => Laddered(Q[1])

\* All frames but the last have been found to have only 0 in common.
Tested(s) ==
  \A j \in 1..Len(s) : /\ s[j].intersect = Search!IsTrivial(s[j].a, s[j].b)
                       /\ j < Len(s) => s[j].intersect

SearchInv ==
  /\ stack \in Seq(Frames)
  /\ Tested(stack)
  /\ \E P, Q : History(stack, P, Q)

\* Where the sums of the two sides of frame j stand to each other; t are the
\* rungs below the sums of Q[1].
Standing(P, Q, t, j) ==
  IF Early(P, Q, j) THEN D + 1 + (P[j].sum - t[P[j].sum])
  ELSE P[j].sum - Q[j].sum

\* Two frames with nothing but 0 in common do not stand the same way: what
\* was added to one side in between would be a sum of the other side.
LEMMA StandingDiffers ==
  ASSUME NEW s \in Seq(Frames), NEW P, NEW Q, History(s, P, Q), s # <<>>,
         NEW t \in [0..Q[1].sum -> Nat],
         \A v \in 0..Q[1].sum : t[v] <= v /\ v < t[v] + D,
         \A v, w \in 0..Q[1].sum :
           v <= w => t[v] <= t[w] /\ t[w] - t[v] \in Q[1].sums,
         NEW j \in 1..Len(s), NEW k \in 1..Len(s), j < k,
         P[j].sums \cap Q[j].sums = {0}, P[k].sums \cap Q[k].sums = {0}
  PROVE  Standing(P, Q, t, j) # Standing(P, Q, t, k)
<1>1. /\ P[j] \in Sumset /\ Q[j] \in Sumset /\ P[k] \in Sumset
      /\ Q[k] \in Sumset /\ Q[1] \in Sumset /\ 1 \in 1..Len(s)
  BY DEF History
<1>2. /\ Grown(P[j], P[k]) /\ Grown(Q[j], Q[k])
      /\ P[j].sum + Q[j].sum < P[k].sum + Q[k].sum
  BY DEF History
<1>3. D \in Nat /\ D > 0
  BY DAssumption
<1>4. CASE Early(P, Q, j) /\ Early(P, Q, k)
  <2>1. /\ Q[j] = Q[1] /\ Q[k] = Q[1]
        /\ P[j].sum \in 0..Q[1].sum /\ P[k].sum \in 0..Q[1].sum
        /\ P[j].sum < P[k].sum
    <3>1. Q[j] = Q[1] /\ Q[k] = Q[1]
      BY <1>4 DEF Early
    <3>2. P[j].sum <= Q[1].sum /\ P[k].sum <= Q[1].sum
      BY <1>4, <3>1 DEF Early
    <3>3. P[j].sum \in Nat /\ P[k].sum \in Nat /\ Q[1].sum \in Nat
      BY <1>1 DEF Sumset
    <3> QED
      BY <1>2, <3>1, <3>2, <3>3
  <2>2. /\ t[P[k].sum] - t[P[j].sum] \in Q[k].sums
        /\ t[P[k].sum] \in Nat /\ t[P[j].sum] \in Nat
    BY <2>1
  <2>3. P[k].sum - P[j].sum \in P[k].sums
    BY <1>2 DEF Grown
  <2>4. P[j].sum \in Nat /\ P[k].sum \in Nat
    BY <1>1 DEF Sumset
  <2> SUFFICES ASSUME Standing(P, Q, t, j) = Standing(P, Q, t, k)
               PROVE  FALSE
    OBVIOUS
  <2>5. P[j].sum - t[P[j].sum] = P[k].sum - t[P[k].sum]
    <3>1. D + 1 + (P[j].sum - t[P[j].sum]) = D + 1 + (P[k].sum - t[P[k].sum])
      BY <1>4 DEF Standing
    <3>2. /\ P[j].sum - t[P[j].sum] \in Int
          /\ P[k].sum - t[P[k].sum] \in Int
      BY <2>2, <2>4
    <3> QED
      BY <1>3, <3>1, <3>2
  <2>6. t[P[k].sum] - t[P[j].sum] = P[k].sum - P[j].sum
    <3> DEFINE a == P[j].sum
               b == P[k].sum
               u == t[a]
               v == t[b]
    <3>1. a \in Nat /\ b \in Nat /\ u \in Nat /\ v \in Nat /\ a - u = b - v
      BY <2>2, <2>4, <2>5
    <3> HIDE DEF a, b, u, v
    <3>2. v - u = b - a
      BY <3>1
    <3> QED
      BY <3>2 DEF a, b, u, v
  <2>7. P[k].sum - P[j].sum = 0
    BY <2>2, <2>3, <2>6
  <2> QED
    BY <2>1, <2>4, <2>7
<1>5. CASE ~Early(P, Q, j) /\ ~Early(P, Q, k)
  <2>1. /\ P[k].sum - P[j].sum \in P[k].sums
        /\ Q[k].sum - Q[j].sum \in Q[k].sums
    BY <1>2 DEF Grown
  <2>2. /\ P[j].sum \in Nat /\ P[k].sum \in Nat
        /\ Q[j].sum \in Nat /\ Q[k].sum \in Nat
    BY <1>1 DEF Sumset
  <2> SUFFICES ASSUME Standing(P, Q, t, j) = Standing(P, Q, t, k)
               PROVE  FALSE
    OBVIOUS
  <2>3. P[k].sum - P[j].sum = Q[k].sum - Q[j].sum
    BY <1>5, <2>2 DEF Standing
  <2>4. P[k].sum - P[j].sum = 0
    BY <2>1, <2>3
  <2> QED
    BY <1>2, <2>2, <2>3, <2>4
<1>6. ASSUME NEW i \in {j, k}, Early(P, Q, i)
      PROVE  Standing(P, Q, t, i) > D
  <2>1. P[i].sum \in 0..Q[1].sum
    BY <1>1, <1>6 DEF Early, Sumset
  <2> QED
    BY <1>3, <1>6, <2>1 DEF Standing
<1>7. ASSUME NEW i \in {j, k}, ~Early(P, Q, i)
      PROVE  Standing(P, Q, t, i) <= D
  <2>1. Near(P, Q, i)
    BY <1>7 DEF History
  <2> QED
    BY <1>3, <1>7, <2>1 DEF Standing, Near
<1>8. ASSUME NEW i \in {j, k}
      PROVE  Standing(P, Q, t, i) \in Int
  <2>1. /\ P[i].sum \in Nat /\ Q[i].sum \in Nat
        /\ Early(P, Q, i) => P[i].sum \in 0..Q[1].sum
    BY <1>1 DEF Early, Sumset
  <2>2. Early(P, Q, i) => t[P[i].sum] \in Nat
    BY <2>1
  <2> QED
    BY <1>3, <2>1, <2>2 DEF Standing
<1>9. CASE Early(P, Q, j) /\ ~Early(P, Q, k)
  <2>1. Standing(P, Q, t, j) > D /\ Standing(P, Q, t, k) <= D
    BY <1>6, <1>7, <1>9
  <2> QED
    BY <1>3, <1>8, <2>1
<1>10. CASE ~Early(P, Q, j) /\ Early(P, Q, k)
  <2>1. Standing(P, Q, t, k) > D /\ Standing(P, Q, t, j) <= D
    BY <1>6, <1>7, <1>10
  <2> QED
    BY <1>3, <1>8, <2>1
<1> QED
  BY <1>4, <1>5, <1>9, <1>10

\* Nor does a frame with nothing but 0 in common stand at 0: the sums differ.
LEMMA StandingRange ==
  ASSUME NEW s \in Seq(Frames), NEW P, NEW Q, History(s, P, Q), s # <<>>,
         NEW t \in [0..Q[1].sum -> Nat],
         \A v \in 0..Q[1].sum : t[v] <= v /\ v < t[v] + D,
         NEW j \in 1..Len(s), P[j].sums \cap Q[j].sums = {0}
  PROVE  Standing(P, Q, t, j) \in (-D..2*D) \ {0}
<1>1. P[j] \in Sumset /\ Q[j] \in Sumset /\ Q[1] \in Sumset /\ P[1] \in Sumset
  BY DEF History
<1>2. /\ P[j].sum \in Nat /\ Q[j].sum \in Nat
      /\ P[1].sum \in Nat /\ Q[1].sum \in Nat
  BY <1>1 DEF Sumset
<1>3. D \in Nat /\ D > 0
  BY DAssumption
<1>4. CASE Early(P, Q, j)
  <2>1. P[j].sum \in 0..Q[1].sum
    BY <1>2, <1>4 DEF Early
  <2>2. /\ t[P[j].sum] \in Nat /\ t[P[j].sum] <= P[j].sum
        /\ P[j].sum < t[P[j].sum] + D
    BY <2>1
  <2>3. Standing(P, Q, t, j) = D + 1 + (P[j].sum - t[P[j].sum])
    BY <1>4 DEF Standing
  <2> QED
    BY <1>2, <1>3, <2>2, <2>3
<1>5. CASE ~Early(P, Q, j)
  <2>1. Standing(P, Q, t, j) = P[j].sum - Q[j].sum /\ Near(P, Q, j)
    BY <1>5 DEF Standing, History
  <2>2. P[j].sum # Q[j].sum
    <3> SUFFICES ASSUME P[j].sum = Q[j].sum PROVE FALSE
      OBVIOUS
    <3>1. P[j].sum = 0
      BY DEF History, Full
    <3>2. CASE j = 1
      BY <1>2, <1>5, <3>2 DEF Early
    <3>3. CASE j # 1
      <4>1. 1 \in 1..Len(s) /\ 1 < j
        BY <3>3
      <4>2. P[1].sum + Q[1].sum < P[j].sum + Q[j].sum
        BY <4>1 DEF History
      <4> QED
        BY <1>2, <3>1, <4>2
    <3> QED
      BY <3>2, <3>3
  <2> QED
    BY <1>2, <1>3, <2>1, <2>2 DEF Near
<1> QED
  BY <1>4, <1>5

\* However large the input and the arrays, the search is never deeper than
\* three times D.
LEMMA StackBounded ==
  ASSUME NEW s \in Seq(Frames), Tested(s), NEW P, NEW Q, History(s, P, Q)
  PROVE  Len(s) <= 3 * D + 1
<1>1. D \in Nat /\ Len(s) \in Nat
  BY DAssumption
<1> SUFFICES ASSUME Len(s) > 3 * D + 1 PROVE FALSE
  BY <1>1
<1>2. s # <<>>
  BY <1>1
<1>3. PICK t \in [0..Q[1].sum -> Nat] :
        /\ \A v \in 0..Q[1].sum : t[v] <= v /\ v < t[v] + D
        /\ \A v, w \in 0..Q[1].sum :
             v <= w => t[v] <= t[w] /\ t[w] - t[v] \in Q[1].sums
  BY <1>2 DEF History, Laddered
<1> DEFINE I == 1..(Len(s) - 1)
           T == (-D..2*D) \ {0}
           f == [j \in I |-> Standing(P, Q, t, j)]
<1>4. \A j \in I : P[j].sums \cap Q[j].sums = {0}
  <2> TAKE j \in I
  <2>1. j \in 1..Len(s) /\ j < Len(s)
    BY <1>1
  <2>2. s[j].a.sums \cap s[j].b.sums = {0}
    BY <2>1 DEF Tested, Search!IsTrivial
  <2>3. Sides(s[j], P[j], Q[j])
    BY <2>1 DEF History
  <2> QED
    BY <2>2, <2>3 DEF Sides
<1>5. f \in [I -> T]
  <2> SUFFICES ASSUME NEW j \in I PROVE Standing(P, Q, t, j) \in T
    OBVIOUS
  <2>1. j \in 1..Len(s)
    BY <1>1
  <2> QED
    BY <1>2, <1>3, <1>4, <2>1, StandingRange
<1>6. IsFiniteSet(I) /\ Cardinality(I) = Len(s) - 1
  BY <1>1, FS_Interval
<1>7. IsFiniteSet(T) /\ Cardinality(T) = 3 * D
  <2> DEFINE l == -D
             h == 2 * D
             R == l..h
  <2>1. l \in Int /\ h \in Int /\ ~(l > h) /\ h - l + 1 = 3 * D + 1
    BY <1>1
  <2>2. 0 \in R
    BY <1>1
  <2>3. IsFiniteSet(R) /\ Cardinality(R) = 3 * D + 1
    <3> HIDE DEF l, h
    <3> QED
      BY <2>1, FS_Interval
  <2> HIDE DEF R
  <2>4. IsFiniteSet(R \ {0}) /\ Cardinality(R \ {0}) = Cardinality(R) - 1
    BY <2>2, <2>3, FS_RemoveElement
  <2>5. Cardinality(R) - 1 = 3 * D
    BY <1>1, <2>3
  <2>6. T = R \ {0}
    BY DEF R
  <2> QED
    BY <2>4, <2>5, <2>6
<1>8. Cardinality(T) < Cardinality(I)
  BY <1>1, <1>6, <1>7
<1> HIDE DEF T, f
<1>9. \E j, k \in I : j # k /\ f[j] = f[k]
  <2> HIDE DEF I
  <2> QED
    BY <1>5, <1>6, <1>7, <1>8, FS_PigeonHole
<1>10. PICK j \in I, k \in I : j < k /\ f[j] = f[k]
  BY <1>9
<1>11. /\ j \in 1..Len(s) /\ k \in 1..Len(s)
       /\ P[j].sums \cap Q[j].sums = {0} /\ P[k].sums \cap Q[k].sums = {0}
  BY <1>1, <1>4
<1>12. Standing(P, Q, t, j) # Standing(P, Q, t, k)
  BY <1>2, <1>3, <1>10, <1>11, StandingDiffers
<1> QED
  BY <1>10, <1>12 DEF f

-----------------------------------------------------------------------------
(* The steps of the search                                                 *)

\* An element added to s: what has grown into s has grown into the result.
LEMMA Added ==
  ASSUME NEW s \in Sumset, Full(s), NEW x \in 1..D
  PROVE  /\ Search!SumsetAdd(s, x) \in Sumset /\ Full(Search!SumsetAdd(s, x))
         /\ Search!SumsetAdd(s, x).sum = s.sum + x
         /\ \A g \in Sumset : Grown(g, s) => Grown(g, Search!SumsetAdd(s, x))
<1> DEFINE r == Search!SumsetAdd(s, x)
<1>1. /\ s.sum \in Nat /\ s.sums \in SUBSET Nat /\ s.added \in Multiset
      /\ x \in Nat /\ x > 0 /\ x \in Search!Element
  BY DAssumption DEF Sumset, Search!Element
<1>2. /\ r.last = x /\ r.sum = s.sum + x /\ r.start = s.start
      /\ r.sums = s.sums \cup {v + x : v \in s.sums}
      /\ r.added = Search!Plus(s.added, x)
  BY DEF Search!SumsetAdd, Sumset
<1>3. Search!Plus(s.added, x) \in Multiset
  BY <1>1 DEF Search!Plus, Multiset
<1>4. r \in Sumset
  <2>1. s.sums \cup {v + x : v \in s.sums} \in SUBSET Nat
    BY <1>1
  <2> DEFINE r1 == [s EXCEPT !.last = x]
             r2 == [r1 EXCEPT !.sum = @ + x]
             r3 == [r2 EXCEPT !.sums = @ \cup {v + x : v \in @}]
             r4 == [r3 EXCEPT !.added = Search!Plus(@, x)]
  <2>2. r1 \in Sumset
    BY <1>1 DEF Sumset
  <2>3. r2 \in Sumset
    <3>1. r1.sum = s.sum
      BY DEF Sumset
    <3> HIDE DEF r1
    <3>2. r1.sum + x \in Nat
      BY <1>1, <3>1
    <3> QED
      BY <2>2, <3>2 DEF Sumset
  <2>4. r3 \in Sumset
    <3>1. r2.sums = s.sums
      BY DEF Sumset
    <3> HIDE DEF r2
    <3> QED
      BY <2>1, <2>3, <3>1 DEF Sumset
  <2>5. r4 \in Sumset
    <3>1. r3.added = s.added
      BY DEF Sumset
    <3> HIDE DEF r3
    <3> QED
      BY <1>3, <2>4, <3>1 DEF Sumset
  <2> QED
    BY <2>5 DEF Search!SumsetAdd
<1>5. Full(r)
  BY <1>1, <1>2 DEF Full
<1>6. ASSUME NEW g \in Sumset, Grown(g, s)
      PROVE  Grown(g, r)
  <2>1. g.sum \in Nat /\ g.sum <= s.sum /\ g.sums \subseteq s.sums
        /\ s.sum - g.sum \in s.sums
    BY <1>6 DEF Grown, Sumset
  <2>2. (s.sum - g.sum) + x \in r.sums
    BY <1>2, <2>1
  <2>3. (s.sum - g.sum) + x = r.sum - g.sum
    BY <1>1, <1>2, <2>1
  <2>4. g.sum <= r.sum /\ g.sums \subseteq r.sums
    BY <1>1, <1>2, <2>1
  <2> QED
    BY <2>2, <2>3, <2>4 DEF Grown
<1> QED
  BY <1>2, <1>4, <1>5, <1>6

LEMMA GrownSelf ==
  ASSUME NEW s \in Sumset, Full(s)
  PROVE  Grown(s, s)
<1>1. s.sum \in Nat
  BY DEF Sumset
<1>2. s.sum - s.sum = 0
  BY <1>1
<1> QED
  BY <1>1, <1>2 DEF Grown, Full

\* The history goes on with a frame whose sides are p and q.
LEMMA HistoryGrows ==
  ASSUME NEW s \in Seq(Frames), s # <<>>, NEW P, NEW Q, History(s, P, Q),
         NEW z \in Seq(Frames), Len(z) = Len(s) + 1,
         \A j \in 1..Len(s) : z[j].a = s[j].a /\ z[j].b = s[j].b,
         NEW p \in Sumset, NEW q \in Sumset, Full(p), Full(q),
         Sides(z[Len(s) + 1], p, q),
         \A g \in Sumset : Grown(g, P[Len(s)]) => Grown(g, p),
         \A g \in Sumset : Grown(g, Q[Len(s)]) => Grown(g, q),
         P[Len(s)].sum + Q[Len(s)].sum < p.sum + q.sum,
         \/ q = Q[1] /\ p.sum <= q.sum
         \/ p.sum - q.sum \in -D..D
  PROVE  \E R, S : History(z, R, S)
<1> DEFINE n == Len(s)
           R == [j \in 1..(n + 1) |-> IF j = n + 1 THEN p ELSE P[j]]
           S == [j \in 1..(n + 1) |-> IF j = n + 1 THEN q ELSE Q[j]]
<1>1. n \in Nat /\ n > 0 /\ n \in 1..n /\ 1 \in 1..n
  <2>1. Len(s) \in Nat /\ Len(s) # 0
    BY EmptySeq
  <2> QED
    BY <2>1
<1>2. /\ \A j \in 1..n : j \in 1..(n + 1) /\ R[j] = P[j] /\ S[j] = Q[j]
      /\ n + 1 \in 1..(n + 1) /\ R[n + 1] = p /\ S[n + 1] = q
      /\ \A j \in 1..(n + 1) : j \in 1..n \/ j = n + 1
      /\ \A j, k \in 1..(n + 1) :
           j < k => j \in 1..n /\ (k \in 1..n \/ k = n + 1)
  BY <1>1
<1>3. R \in [1..(n + 1) -> Sumset] /\ S \in [1..(n + 1) -> Sumset]
  <2>1. \A j \in 1..n : P[j] \in Sumset /\ Q[j] \in Sumset
    BY DEF History
  <2> QED
    BY <1>2, <2>1
<1> HIDE DEF R, S
<1>4. \A j \in 1..n : /\ Sides(s[j], P[j], Q[j]) /\ Full(P[j]) /\ Full(Q[j])
                      /\ P[j] \in Sumset /\ Q[j] \in Sumset
                      /\ P[j].sum \in Nat /\ Q[j].sum \in Nat
                      /\ (Early(P, Q, j) \/ Near(P, Q, j))
  BY DEF History, Sumset
<1>5. \A j \in 1..n + 1 : Sides(z[j], R[j], S[j]) /\ Full(R[j]) /\ Full(S[j])
  BY <1>2, <1>4 DEF Sides
<1>6. ASSUME NEW j \in 1..n + 1, NEW k \in 1..n + 1, j < k
      PROVE  /\ Grown(R[j], R[k]) /\ Grown(S[j], S[k])
             /\ R[j].sum + S[j].sum < R[k].sum + S[k].sum
  <2>1. CASE k \in 1..n
    BY <1>2, <1>6, <2>1 DEF History
  <2>2. CASE k = n + 1
    <3>1. /\ Grown(P[j], P[n]) /\ Grown(Q[j], Q[n])
          /\ P[j].sum + Q[j].sum <= P[n].sum + Q[n].sum
      <4>1. CASE j = n
        BY <1>1, <1>4, <4>1, GrownSelf
      <4>2. CASE j # n
        <5>1. j \in 1..n /\ j < n
          BY <1>1, <1>2, <1>6, <4>2
        <5>2. /\ Grown(P[j], P[n]) /\ Grown(Q[j], Q[n])
              /\ P[j].sum + Q[j].sum < P[n].sum + Q[n].sum
          BY <1>1, <5>1 DEF History
        <5> QED
          BY <1>1, <1>4, <5>1, <5>2
      <4> QED
        BY <4>1, <4>2
    <3>2. j \in 1..n /\ R[j] = P[j] /\ S[j] = Q[j] /\ R[k] = p /\ S[k] = q
      BY <1>2, <1>6, <2>2
    <3>3. Grown(P[j], p) /\ Grown(Q[j], q)
      BY <1>4, <3>1, <3>2
    <3>4. p.sum \in Nat /\ q.sum \in Nat
      BY DEF Sumset
    <3>5. P[j].sum + Q[j].sum < p.sum + q.sum
      BY <1>1, <1>4, <3>1, <3>2, <3>4, SMTT(30)
    <3> QED
      BY <3>2, <3>3, <3>5
  <2> QED
    BY <1>2, <2>1, <2>2
<1>7. ASSUME NEW j \in 1..n + 1
      PROVE  Early(R, S, j) \/ Near(R, S, j)
  <2>1. S[1] = Q[1]
    BY <1>1, <1>2
  <2>2. CASE j \in 1..n
    <3>1. Early(P, Q, j) \/ Near(P, Q, j)
      BY <1>4, <2>2
    <3>2. R[j] = P[j] /\ S[j] = Q[j]
      BY <1>2, <2>2
    <3> QED
      BY <2>1, <3>1, <3>2 DEF Early, Near
  <2>3. CASE j = n + 1
    BY <1>2, <2>1, <2>3 DEF Early, Near
  <2> QED
    BY <1>2, <2>2, <2>3
<1>8. Laddered(S[1])
  <2>1. S[1] = Q[1]
    BY <1>1, <1>2
  <2> QED
    BY <2>1 DEF History
<1>9. History(z, R, S)
  <2>1. Len(z) = n + 1
    OBVIOUS
  <2> HIDE DEF n
  <2> QED
    BY <1>3, <1>5, <1>6, <1>7, <1>8, <2>1 DEF History
<1> QED
  BY <1>9

\* Every set of naturals has a least one, which stands for induction.
LEMMA LeastNat ==
  ASSUME NEW S \in SUBSET Nat, NEW m \in S
  PROVE  \E n \in S : \A k \in S : n <= k
<1> DEFINE T == {0..n : n \in {k \in S : k <= m}}
<1>1. T \subseteq SUBSET (0..m) /\ 0..m \in T
  OBVIOUS
<1>2. IsFiniteSet(0..m)
  BY FS_Interval
<1>3. IsWellFoundedOn(StrictSubsetOrdering(0..m), SUBSET (0..m))
  BY <1>2, FS_FiniteSubsetsOfFinite, FS_StrictSubsetOrderingWellFounded
<1> HIDE DEF T
<1>4. PICK x \in T : \A y \in T : ~(<<y, x>> \in StrictSubsetOrdering(0..m))
  BY <1>1, <1>3, WFMin
<1>5. PICK n \in S : n <= m /\ x = 0..n
  BY DEF T
<1>6. \A k \in S : k < n => 0..k \in T
  BY <1>5 DEF T
<1>7. \A k \in S : k < n => <<0..k, x>> \in StrictSubsetOrdering(0..m)
  BY <1>5 DEF StrictSubsetOrdering
<1>8. \A k \in S : ~(k < n)
  BY <1>4, <1>6, <1>7, Zenon
<1> QED
  BY <1>8

LEMMA MinIsMember ==
  ASSUME NEW S \in SUBSET Nat, S # {}
  PROVE  Search!Min(S) \in S
<1>1. PICK m \in S : TRUE
  OBVIOUS
<1>2. \E n \in S : \A k \in S : n <= k
  BY <1>1, LeastNat
<1> QED
  BY <1>2 DEF Search!Min

\* What the invariant says of the last frame.
LEMMA Current ==
  ASSUME SearchInv, stack # <<>>
  PROVE  /\ Len(stack) \in Nat \ {0} /\ Len(stack) \in 1..Len(stack)
         /\ Search!current \in Frames
         /\ Search!Smaller \in Sumset /\ Search!Greater \in Sumset
         /\ Search!Smaller.sum \in Nat /\ Search!Greater.sum \in Nat
         /\ Search!Smaller.sum <= Search!Greater.sum
<1>1. Len(stack) \in Nat \ {0} /\ Len(stack) \in 1..Len(stack)
  <2>1. stack \in Seq(Frames)
    BY DEF SearchInv
  <2>2. Len(stack) \in Nat /\ Len(stack) # 0
    BY <2>1, EmptySeq
  <2> QED
    BY <2>2
<1>2. Search!current \in Frames
  <2>1. stack \in Seq(Frames)
    BY DEF SearchInv
  <2> QED
    BY <1>1, <2>1, ElementOfSeq DEF Search!current
<1>3. /\ Search!current.a \in Sumset /\ Search!current.b \in Sumset
      /\ Search!current.a.sum \in Nat /\ Search!current.b.sum \in Nat
  BY <1>2 DEF Frames, Sumset
<1> QED
  BY <1>1, <1>2, <1>3 DEF Search!Smaller, Search!Greater, Search!Swapped

\* A frame is pushed above the current one.
LEMMA ExtendInv ==
  ASSUME SearchInv, Search!Extend
  PROVE  SearchInv'
<1> DEFINE n == Len(stack)
           i == Search!Min(Search!ToTry)
           c == Search!Frame(Search!SumsetAdd(Search!Smaller, i),
                             Search!Greater, Search!FirstElement(i))
           s == [stack EXCEPT ![n].last = i + 1]
           z == stack'
<1>1. /\ stack \in Seq(Frames) /\ Tested(stack) /\ stack # <<>>
      /\ Search!current.intersect /\ Search!ToTry # {} /\ z = s \o <<c>>
  BY DEF SearchInv, Search!Extend
<1>2. PICK P, Q : History(stack, P, Q)
  BY DEF SearchInv
<1>3. /\ n \in Nat \ {0} /\ n \in 1..n
      /\ Search!current \in Frames
      /\ Search!Smaller \in Sumset /\ Search!Greater \in Sumset
      /\ Search!Smaller.sum \in Nat /\ Search!Greater.sum \in Nat
      /\ Search!Smaller.sum <= Search!Greater.sum
  BY <1>1, Current
<1>4. i \in 1..D /\ i \in Nat
  <2>1. Search!current.last \in Nat \ {0}
    BY <1>3 DEF Frames
  <2>2. Search!ToTry \in SUBSET Nat
    BY <2>1, DAssumption DEF Search!ToTry
  <2>3. i \in Search!ToTry
    BY <1>1, <2>2, MinIsMember
  <2> QED
    BY <2>1, <2>3, DAssumption DEF Search!ToTry
<1> HIDE DEF i
<1>5. /\ P[n] \in Sumset /\ Q[n] \in Sumset /\ Full(P[n]) /\ Full(Q[n])
      /\ Sides(Search!current, P[n], Q[n])
      /\ P[n].sum \in Nat /\ Q[n].sum \in Nat
      /\ (Early(P, Q, n) \/ Near(P, Q, n))
  BY <1>2, <1>3 DEF History, Sumset, Search!current
<1>6. \/ Search!Smaller = P[n] /\ Search!Greater = Q[n]
      \/ Search!Smaller = Q[n] /\ Search!Greater = P[n]
  BY <1>5 DEF Sides, Search!Smaller, Search!Greater
<1>7. /\ Search!SumsetAdd(Search!Smaller, i) \in Sumset
      /\ Full(Search!SumsetAdd(Search!Smaller, i))
      /\ Search!SumsetAdd(Search!Smaller, i).sum = Search!Smaller.sum + i
      /\ \A g \in Sumset :
           Grown(g, Search!Smaller) =>
             Grown(g, Search!SumsetAdd(Search!Smaller, i))
  BY <1>3, <1>4, <1>5, <1>6, Added
<1>8. c \in Frames
  <2>1. Search!Greater.last \in Nat \ {0}
    BY <1>3 DEF Sumset
  <2>2. Search!FirstElement(i) \in Nat \ {0}
    BY <1>4, <2>1 DEF Search!FirstElement
  <2> QED
    BY <1>3, <1>7, <2>2 DEF Search!Frame, Frames, Search!IsTrivial
<1>9. s \in Seq(Frames) /\ Len(s) = n
      /\ \A j \in 1..n : /\ s[j].a = stack[j].a /\ s[j].b = stack[j].b
                         /\ s[j].intersect = stack[j].intersect
  <2>1. [stack[n] EXCEPT !.last = i + 1] \in Frames
    BY <1>3, <1>4 DEF Frames, Search!current
  <2>2. \A j \in 1..n : stack[j] \in Frames
    BY <1>1, ElementOfSeq
  <2> DEFINE f == [stack[n] EXCEPT !.last = i + 1]
  <2>3. s = [stack EXCEPT ![n] = f]
    OBVIOUS
  <2>4. /\ f.a = stack[n].a /\ f.b = stack[n].b
        /\ f.intersect = stack[n].intersect
    BY <1>3, <2>2 DEF Frames
  <2> HIDE DEF f, s
  <2>5. s \in Seq(Frames) /\ Len(s) = n
    BY <1>1, <1>3, <2>1, <2>3, ExceptSeq DEF f
  <2>6. \A j \in 1..n : s[j] = IF j = n THEN f ELSE stack[j]
    BY <1>1, <1>3, <2>1, <2>3, ExceptSeq DEF f
  <2>7. \A j \in 1..n : /\ s[j].a = stack[j].a /\ s[j].b = stack[j].b
                         /\ s[j].intersect = stack[j].intersect
    BY <2>4, <2>6
  <2> QED
    BY <2>5, <2>7
<1> HIDE DEF c, s
<1>10. /\ z \in Seq(Frames) /\ Len(z) = n + 1 /\ z[n + 1] = c
       /\ \A j \in 1..n : z[j] = s[j]
  <2>1. <<c>> \in Seq(Frames) /\ Len(<<c>>) = 1 /\ <<c>>[1] = c
    BY <1>8
  <2>2. /\ s \o <<c>> \in Seq(Frames)
        /\ Len(s \o <<c>>) = Len(s) + Len(<<c>>)
        /\ \A j \in 1..(Len(s) + Len(<<c>>)) :
             (s \o <<c>>)[j] = IF j <= Len(s) THEN s[j]
                               ELSE <<c>>[j - Len(s)]
    BY <1>9, <2>1, ConcatProperties
  <2>3. /\ n + 1 \in 1..(n + 1) /\ ~(n + 1 <= n) /\ (n + 1) - n = 1
        /\ \A j \in 1..n : j \in 1..(n + 1) /\ j <= n
    BY <1>3
  <2> QED
    BY <1>1, <1>9, <2>1, <2>2, <2>3
<1>11. /\ c.a = Search!SumsetAdd(Search!Smaller, i) /\ c.b = Search!Greater
       /\ c.intersect = Search!IsTrivial(c.a, c.b)
  BY DEF c, Search!Frame
<1>12. Tested(z)
  <2>1. \A j \in 1..n : /\ z[j].intersect = Search!IsTrivial(z[j].a, z[j].b)
                        /\ z[j].intersect
    <3> TAKE j \in 1..n
    <3>1. /\ z[j].a = stack[j].a /\ z[j].b = stack[j].b
          /\ z[j].intersect = stack[j].intersect
      BY <1>9, <1>10
    <3>2. /\ stack[j].intersect = Search!IsTrivial(stack[j].a, stack[j].b)
          /\ j < n => stack[j].intersect
      BY <1>1 DEF Tested
    <3>3. stack[n].intersect
      BY <1>1 DEF Search!current
    <3>4. j < n \/ j = n
      BY <1>3
    <3> QED
      BY <3>1, <3>2, <3>3, <3>4
  <2>2. z[n + 1].intersect = Search!IsTrivial(z[n + 1].a, z[n + 1].b)
    BY <1>10, <1>11
  <2>3. \A j \in 1..(n + 1) : j \in 1..n \/ (j = n + 1 /\ ~(j < n + 1))
    BY <1>3
  <2> QED
    BY <1>10, <2>1, <2>2, <2>3 DEF Tested
<1>13. \E R, S : History(z, R, S)
  <2>1. \A j \in 1..n : z[j].a = stack[j].a /\ z[j].b = stack[j].b
    BY <1>9, <1>10
  <2>2. CASE Search!Smaller = P[n] /\ Search!Greater = Q[n]
    <3> DEFINE p == Search!SumsetAdd(Search!Smaller, i)
               q == Q[n]
    <3>1. p \in Sumset /\ q \in Sumset /\ Full(p) /\ Full(q)
      BY <1>5, <1>7
    <3>2. Sides(z[n + 1], p, q)
      BY <1>10, <1>11, <2>2 DEF Sides
    <3>3. \A g \in Sumset : Grown(g, P[n]) => Grown(g, p)
      BY <1>7, <2>2
    <3>4. p.sum = P[n].sum + i /\ P[n].sum <= Q[n].sum
      BY <1>3, <1>7, <2>2
    <3> HIDE DEF p
    <3>5. P[n].sum + Q[n].sum < p.sum + q.sum
      BY <1>4, <1>5, <3>4
    <3>6. \/ q = Q[1] /\ p.sum <= q.sum
          \/ p.sum - q.sum \in -D..D
      <4>1. CASE p.sum <= q.sum /\ Early(P, Q, n)
        BY <4>1 DEF Early
      <4>2. CASE p.sum <= q.sum /\ Near(P, Q, n)
        BY <1>4, <1>5, <3>4, <4>2, DAssumption DEF Near
      <4>3. CASE p.sum > q.sum
        BY <1>4, <1>5, <3>4, <4>3, DAssumption
      <4>4. p.sum \in Nat /\ q.sum \in Nat
        BY <1>4, <1>5, <3>4
      <4> QED
        BY <1>5, <4>1, <4>2, <4>3, <4>4
    <3> HIDE DEF q, n, z
    <3>7. \A g \in Sumset : Grown(g, Q[n]) => Grown(g, q)
      BY DEF q
    <3> QED
      BY <1>1, <1>2, <1>10, <2>1, <3>1, <3>2, <3>3, <3>5, <3>6, <3>7,
         HistoryGrows DEF n
  <2>3. CASE Search!Smaller = Q[n] /\ Search!Greater = P[n]
    <3> DEFINE q == Search!SumsetAdd(Search!Smaller, i)
               p == P[n]
    <3>1. p \in Sumset /\ q \in Sumset /\ Full(p) /\ Full(q)
      BY <1>5, <1>7
    <3>2. Sides(z[n + 1], p, q)
      BY <1>10, <1>11, <2>3 DEF Sides
    <3>3. \A g \in Sumset : Grown(g, Q[n]) => Grown(g, q)
      BY <1>7, <2>3
    <3>4. q.sum = Q[n].sum + i /\ Q[n].sum <= P[n].sum
      BY <1>3, <1>7, <2>3
    <3> HIDE DEF q
    <3>5. P[n].sum + Q[n].sum < p.sum + q.sum
      BY <1>4, <1>5, <3>4
    <3>6. p.sum - q.sum \in -D..D
      <4>1. CASE Early(P, Q, n)
        BY <1>4, <1>5, <3>4, <4>1, DAssumption DEF Early
      <4>2. CASE Near(P, Q, n)
        BY <1>4, <1>5, <3>4, <4>2, DAssumption DEF Near
      <4> QED
        BY <1>5, <4>1, <4>2
    <3> HIDE DEF p, n, z
    <3>7. \A g \in Sumset : Grown(g, P[n]) => Grown(g, p)
      BY DEF p
    <3> QED
      BY <1>1, <1>2, <1>10, <2>1, <3>1, <3>2, <3>3, <3>5, <3>6, <3>7,
         HistoryGrows DEF n
  <2> QED
    BY <1>6, <2>2, <2>3
<1> QED
  BY <1>10, <1>12, <1>13 DEF SearchInv

\* The current frame is popped.
LEMMA PopInv ==
  ASSUME SearchInv, stack # <<>>, Search!Pop
  PROVE  SearchInv'
<1> DEFINE n == Len(stack)
           z == stack'
           m == n - 1
<1>1. /\ stack \in Seq(Frames) /\ Tested(stack) /\ z = SubSeq(stack, 1, m)
      /\ n \in Nat \ {0}
  BY Current DEF SearchInv, Search!Pop
<1>2. PICK P, Q : History(stack, P, Q)
  BY DEF SearchInv
<1>3. /\ m \in Nat /\ m \in Int /\ m - 1 + 1 = m
      /\ \A j \in 1..m : j \in 1..n /\ j < n
      /\ \A j \in 1..m : 1 + j - 1 = j
  <2>1. m \in Nat /\ m \in Int /\ m - 1 + 1 = m
    BY <1>1
  <2>2. \A j \in 1..m : j \in 1..n /\ j < n
    BY <1>1
  <2>3. \A j \in 1..m : 1 + j - 1 = j
    OBVIOUS
  <2> QED
    BY <2>1, <2>2, <2>3
<1>4. /\ z \in Seq(Frames) /\ Len(z) = m /\ \A j \in 1..m : z[j] = stack[j]
  <2>1. \A j \in 1..m : stack[j] \in Frames
    BY <1>1, <1>3, ElementOfSeq
  <2> HIDE DEF m
  <2>2. /\ SubSeq(stack, 1, m) \in Seq(Frames)
        /\ Len(SubSeq(stack, 1, m)) = IF 1 <= m THEN m - 1 + 1 ELSE 0
        /\ \A j \in 1..m - 1 + 1 : SubSeq(stack, 1, m)[j] = stack[1 + j - 1]
    BY <1>3, <2>1, SubSeqProperties
  <2>3. (IF 1 <= m THEN m - 1 + 1 ELSE 0) = m
    BY <1>3
  <2> QED
    BY <1>1, <1>3, <2>2, <2>3
<1> DEFINE R == [j \in 1..m |-> P[j]]
           S == [j \in 1..m |-> Q[j]]
<1> HIDE DEF z, m
<1>5. Tested(z)
  BY <1>1, <1>3, <1>4 DEF Tested
<1>6. \A j \in 1..m : R[j] = P[j] /\ S[j] = Q[j]
  OBVIOUS
<1>7. R \in [1..m -> Sumset] /\ S \in [1..m -> Sumset]
  BY <1>2, <1>3 DEF History
<1> HIDE DEF R, S, n
<1>8. \A j \in 1..m : /\ Sides(z[j], R[j], S[j]) /\ Full(R[j]) /\ Full(S[j])
  BY <1>2, <1>3, <1>4, <1>6 DEF History, n
<1>9. \A j, k \in 1..m :
        j < k => /\ Grown(R[j], R[k]) /\ Grown(S[j], S[k])
                 /\ R[j].sum + S[j].sum < R[k].sum + S[k].sum
  BY <1>2, <1>3, <1>6 DEF History, n
<1>10. m # 0 => S[1] = Q[1]
  <2>1. m # 0 => 1 \in 1..m
    BY <1>3
  <2> QED
    BY <1>6, <2>1
<1>11. \A j \in 1..m : Early(R, S, j) \/ Near(R, S, j)
  <2> TAKE j \in 1..m
  <2>1. m # 0
    BY <1>3
  <2>2. Early(P, Q, j) \/ Near(P, Q, j)
    BY <1>2, <1>3 DEF History, n
  <2> QED
    BY <1>6, <1>10, <2>1, <2>2 DEF Early, Near
<1>12. z # <<>> => Laddered(S[1])
  <2>1. z # <<>> => m # 0
    BY <1>3, <1>4, EmptySeq
  <2>2. Laddered(Q[1])
    BY <1>2 DEF History
  <2> QED
    BY <1>10, <2>1, <2>2
<1>13. History(z, R, S)
  BY <1>4, <1>7, <1>8, <1>9, <1>11, <1>12 DEF History
<1> QED
  BY <1>4, <1>5, <1>13 DEF SearchInv, z

\* The bound on the depth is below the size of the array.
LEMMA DepthFits ==
  /\ MAX_D * MAX_D \in Nat
  /\ 3 * D + 1 <= MAX_D * MAX_D + 1
<1>1. \A a \in Nat : a * a \in Nat /\ (a >= 3 => 3 * a <= a * a)
  OBVIOUS
<1>2. D \in Nat /\ MAX_D \in Nat /\ 3 <= D /\ D <= MAX_D
  BY DAssumption
<1> DEFINE sq == MAX_D * MAX_D
<1>3. sq \in Nat /\ 3 * MAX_D <= sq
  BY <1>1, <1>2
<1> HIDE DEF sq
<1>4. 3 * D + 1 <= sq + 1
  BY <1>2, <1>3
<1> QED
  BY <1>3, <1>4 DEF sq

LEMMA SearchFits ==
  ASSUME SearchInv
  PROVE  Search!StackFits
<1>1. PICK P, Q : History(stack, P, Q)
  BY DEF SearchInv
<1>2. Len(stack) <= 3 * D + 1
  BY <1>1, StackBounded DEF SearchInv
<1>3. Len(stack) \in Nat /\ D \in Nat
  BY DAssumption, LenProperties DEF SearchInv
<1> DEFINE sq == MAX_D * MAX_D
<1>4. sq \in Nat /\ 3 * D + 1 <= sq + 1
  BY DepthFits
<1> HIDE DEF sq
<1>5. Len(stack) <= sq + 1
  BY <1>2, <1>3, <1>4
<1> QED
  BY <1>5 DEF Search!StackFits, sq

-----------------------------------------------------------------------------
(* Folds and the sums of an input                                          *)

\* Among sets of subsets of a finite set there is a minimal one.
LEMMA LeastSet ==
  ASSUME NEW S, IsFiniteSet(S), NEW B \in SUBSET SUBSET S, B # {}
  PROVE  \E T \in B : \A U \in B : U \subseteq T => U = T
<1>1. IsWellFoundedOn(StrictSubsetOrdering(S), SUBSET S)
  BY FS_FiniteSubsetsOfFinite, FS_StrictSubsetOrderingWellFounded
<1>2. PICK T \in B : \A U \in B : ~(<<U, T>> \in StrictSubsetOrdering(S))
  BY <1>1, WFMin
<1>3. ASSUME NEW U \in B, U \subseteq T
      PROVE  U = T
  <2>1. U \in SUBSET S /\ T \in SUBSET S
    OBVIOUS
  <2>2. U # T => <<U, T>> \in StrictSubsetOrdering(S)
    BY <1>3, <2>1 DEF StrictSubsetOrdering
  <2> QED
    BY <1>2, <2>2
<1> QED
  BY <1>3

\* pick takes one element out of every subset.
Picks(pick, S) == \A U \in SUBSET S : U # {} => pick[U] \in U

\* g[U] is the fold of op over U in the order of pick, for all subsets of S.
Folds(g, op, b, pick, S) ==
  /\ Picks(pick, S)
  /\ g = [U \in SUBSET S |->
            IF U = {} THEN b ELSE op[<<pick[U], g[U \ {pick[U]}]>>]]

\* One step of a fold.
LEMMA FoldAt ==
  ASSUME NEW S, NEW op, NEW b, NEW pick, NEW g,
         Folds(g, op, b, pick, S), NEW U \in SUBSET S
  PROVE  /\ U = {} => g[U] = b
         /\ U # {} => /\ pick[U] \in U
                      /\ U \ {pick[U]} \in SUBSET S
                      /\ U \ {pick[U]} # U
                      /\ g[U] = op[<<pick[U], g[U \ {pick[U]}]>>]
<1>1. U # {} => pick[U] \in U
  BY DEF Folds, Picks
<1>2. g[U] = IF U = {} THEN b ELSE op[<<pick[U], g[U \ {pick[U]}]>>]
  BY DEF Folds
<1> QED
  BY <1>1, <1>2

\* A fold of nothing.
LEMMA FoldEmpty ==
  ASSUME NEW S, NEW op, NEW b, NEW pick, NEW g, Folds(g, op, b, pick, S)
  PROVE  g[{}] = b
<1>1. {} \in SUBSET S
  OBVIOUS
<1> QED
  BY <1>1 DEF Folds

\* A fold is determined by its recursion, and there is one.
LEMMA FoldUnique ==
  ASSUME NEW S, IsFiniteSet(S), NEW op, NEW b, NEW pick, NEW g, NEW h,
         Folds(g, op, b, pick, S), Folds(h, op, b, pick, S)
  PROVE  g = h
<1> DEFINE B == {U \in SUBSET S : g[U] # h[U]}
<1>1. CASE B = {}
  <2>1. /\ g = [U \in SUBSET S |-> g[U]]
        /\ h = [U \in SUBSET S |-> h[U]]
    BY DEF Folds
  <2> QED
    BY <1>1, <2>1
<1>2. CASE B # {}
  <2>1. PICK T \in B : \A U \in B : U \subseteq T => U = T
    <3>1. B \in SUBSET SUBSET S
      OBVIOUS
    <3> HIDE DEF B
    <3> QED
      BY <1>2, <3>1, LeastSet
  <2>2. T \in SUBSET S /\ g[T] # h[T]
    OBVIOUS
  <2>3. T # {}
    <3>1. T = {} => g[T] = b /\ h[T] = b
      <4> HIDE DEF B
      <4> QED
        <5>1. T = {} => g[T] = b
          BY <2>2 DEF Folds
        <5>2. T = {} => h[T] = b
          BY <2>2 DEF Folds
        <5> QED
          BY <5>1, <5>2
    <3> QED
      BY <2>2, <3>1
  <2>4. /\ pick[T] \in T /\ T \ {pick[T]} \in SUBSET S
        /\ T \ {pick[T]} # T
        /\ g[T] = op[<<pick[T], g[T \ {pick[T]}]>>]
        /\ h[T] = op[<<pick[T], h[T \ {pick[T]}]>>]
    BY <2>2, <2>3, FoldAt
  <2>5. T \ {pick[T]} \notin B
    BY <2>1, <2>4
  <2> QED
    BY <2>2, <2>4, <2>5
<1> QED
  BY <1>1, <1>2

\* A fold restricted to the subsets of a smaller set.
LEMMA FoldSubset ==
  ASSUME NEW S, NEW op, NEW b, NEW pick, NEW g,
         Folds(g, op, b, pick, S), NEW V \in SUBSET S
  PROVE  Folds([U \in SUBSET V |-> g[U]], op, b, pick, V)
<1> DEFINE h == [U \in SUBSET V |-> g[U]]
<1>1. ASSUME NEW U \in SUBSET V
      PROVE  h[U] = IF U = {} THEN b ELSE op[<<pick[U], h[U \ {pick[U]}]>>]
  <2>1. U \in SUBSET S /\ U \ {pick[U]} \in SUBSET V
    OBVIOUS
  <2> QED
    BY <2>1, FoldAt
<1>2. h = [U \in SUBSET V |->
             IF U = {} THEN b ELSE op[<<pick[U], h[U \ {pick[U]}]>>]]
  BY <1>1
<1>3. Picks(pick, V)
  BY DEF Folds, Picks
<1> HIDE DEF h
<1> QED
  BY <1>2, <1>3 DEF Folds, h

\* There is a fold over every finite set.
LEMMA FoldExists ==
  ASSUME NEW S, IsFiniteSet(S), NEW op, NEW b, NEW pick, Picks(pick, S)
  PROVE  \E g : Folds(g, op, b, pick, S)
<1> DEFINE Has(U) == \E g : Folds(g, op, b, pick, U)
           B == {U \in SUBSET S : ~Has(U)}
           G(U) == CHOOSE g : Folds(g, op, b, pick, U)
<1>1. CASE B = {}
  BY <1>1
<1>2. CASE B # {}
  <2>1. PICK T \in B : \A U \in B : U \subseteq T => U = T
    <3>1. B \in SUBSET SUBSET S
      OBVIOUS
    <3> HIDE DEF B
    <3> QED
      BY <1>2, <3>1, LeastSet
  <2>2. T \in SUBSET S /\ ~Has(T)
    OBVIOUS
  <2>3. \A U \in SUBSET T : U # T => Has(U)
    BY <2>1, <2>2
  <2> HIDE DEF Has, B
  <2>4. ASSUME NEW U \in SUBSET T, U # T
        PROVE  /\ Folds(G(U), op, b, pick, U) /\ IsFiniteSet(U)
    BY <2>2, <2>3, <2>4, FS_Subset DEF Has
  <2> DEFINE e(U) == IF U = {} THEN b
                     ELSE op[<<pick[U], G(U \ {pick[U]})[U \ {pick[U]}]>>]
             h == [U \in SUBSET T |-> e(U)]
  <2>5. \A U \in SUBSET T :
          U # {} => pick[U] \in U /\ U \ {pick[U]} \in SUBSET T
                    /\ U \ {pick[U]} # T
    BY <2>2 DEF Picks
  <2>6. ASSUME NEW U \in SUBSET T, U # T
        PROVE  h[U] = G(U)[U]
    <3> DEFINE V == U \ {pick[U]}
    <3>1. /\ Folds(G(U), op, b, pick, U) /\ U \in SUBSET U
      BY <2>4, <2>6
    <3> HIDE DEF G
    <3>2. /\ U = {} => G(U)[U] = b
          /\ U # {} => G(U)[U] = op[<<pick[U], G(U)[V]>>]
      BY <3>1, FoldAt
    <3>3. U # {} => G(U)[V] = G(V)[V]
      <4> SUFFICES ASSUME U # {} PROVE G(U)[V] = G(V)[V]
        OBVIOUS
      <4>1. V \in SUBSET T /\ V # T /\ V \in SUBSET U
        BY <2>5
      <4>2. Folds(G(V), op, b, pick, V) /\ IsFiniteSet(V)
        BY <2>4, <4>1
      <4> HIDE DEF V
      <4>3. Folds([W \in SUBSET V |-> G(U)[W]], op, b, pick, V)
        <5> DEFINE u == G(U)
        <5>1. Folds(u, op, b, pick, U) /\ V \in SUBSET U
          BY <3>1, <4>1
        <5> HIDE DEF u
        <5>2. Folds([W \in SUBSET V |-> u[W]], op, b, pick, V)
          BY <5>1, FoldSubset
        <5> QED
          BY <5>2 DEF u
      <4>4. G(V) = [W \in SUBSET V |-> G(U)[W]]
        BY <4>2, <4>3, FoldUnique
      <4>5. [W \in SUBSET V |-> G(U)[W]][V] = G(U)[V]
        OBVIOUS
      <4> QED
        BY <4>4, <4>5
    <3> QED
      BY <3>2, <3>3
  <2>7. ASSUME NEW U \in SUBSET T
        PROVE  h[U] = IF U = {} THEN b
                      ELSE op[<<pick[U], h[U \ {pick[U]}]>>]
    <3>1. h[U] = e(U)
      OBVIOUS
    <3>2. U # {} => h[U \ {pick[U]}]
                      = G(U \ {pick[U]})[U \ {pick[U]}]
      <4> HIDE DEF h, G
      <4> QED
        BY <2>5, <2>6
    <3> HIDE DEF h, G
    <3> QED
      BY <3>1, <3>2
  <2>8. Folds(h, op, b, pick, T)
    <3>1. h = [U \in SUBSET T |-> h[U]]
      OBVIOUS
    <3> HIDE DEF h
    <3> QED
      BY <2>5, <2>7, <3>1 DEF Folds, Picks
  <2> QED
    BY <2>2, <2>8 DEF Has
<1> QED
  BY <1>1, <1>2

\* A set of subsets that is closed under putting picked elements back.
LEMMA PickInduction ==
  ASSUME NEW S, IsFiniteSet(S), NEW pick, Picks(pick, S),
         NEW B \in SUBSET SUBSET S, {} \in B,
         \A U \in SUBSET S : U # {} /\ U \ {pick[U]} \in B => U \in B
  PROVE  B = SUBSET S
<1> DEFINE C == (SUBSET S) \ B
<1> SUFFICES ASSUME C # {} PROVE FALSE
  OBVIOUS
<1>1. PICK T \in C : \A U \in C : U \subseteq T => U = T
  <2>1. C \in SUBSET SUBSET S
    OBVIOUS
  <2> HIDE DEF C
  <2> QED
    BY <2>1, LeastSet
<1>2. T \in SUBSET S /\ T \notin B /\ T # {}
  OBVIOUS
<1>3. pick[T] \in T
  BY <1>2 DEF Picks
<1>4. T \ {pick[T]} \in SUBSET S /\ T \ {pick[T]} # T
  BY <1>2, <1>3
<1>5. T \ {pick[T]} \in B
  BY <1>1, <1>4
<1> QED
  BY <1>2, <1>5

\* A fold of an operator that stays within Y stays within Y.
LEMMA TypedFold ==
  ASSUME NEW S, IsFiniteSet(S), NEW Y, NEW op \in [S \X Y -> Y], NEW b \in Y,
         NEW pick, Picks(pick, S)
  PROVE  \E g : Folds(g, op, b, pick, S) /\ \A U \in SUBSET S : g[U] \in Y
<1>1. PICK g : Folds(g, op, b, pick, S)
  BY FoldExists
<1> DEFINE B == {U \in SUBSET S : g[U] \in Y}
<1>2. {} \in B
  <2>1. {} \in SUBSET S
    OBVIOUS
  <2>2. g[{}] = b
    BY <1>1, FoldEmpty
  <2> QED
    BY <2>1, <2>2
<1>3. ASSUME NEW T \in SUBSET S, T # {}, T \ {pick[T]} \in B
      PROVE  T \in B
  <2> DEFINE U == T \ {pick[T]}
  <2>1. pick[T] \in S /\ g[T] = op[<<pick[T], g[U]>>]
    BY <1>1, <1>3, FoldAt
  <2>2. g[U] \in Y
    BY <1>3
  <2> HIDE DEF U
  <2>3. <<pick[T], g[U]>> \in S \X Y
    BY <2>1, <2>2
  <2> QED
    BY <2>1, <2>3
<1>4. B = SUBSET S
  <2>1. B \in SUBSET SUBSET S
    OBVIOUS
  <2> HIDE DEF B
  <2> QED
    BY <1>2, <1>3, <2>1, PickInduction
<1> QED
  BY <1>1, <1>4

First(S) == CHOOSE x \in S : TRUE

\* The multiples of x, up to the k-th: the last one that is not above r.
Multiple(q, x, k) ==
  /\ q \in [0..x * k -> 0..k]
  /\ \A r \in 0..x * k : x * q[r] <= r /\ r < x * q[r] + x
  /\ q[x * k] = k

\* There is always a last multiple.
LEMMA MultipleExists ==
  ASSUME NEW x \in Nat \ {0}, NEW k \in Nat
  PROVE  \E q : Multiple(q, x, k)
<1>1. ASSUME NEW c \in Nat
      PROVE  x * c \in Nat /\ x * (c + 1) = x * c + x
  OBVIOUS
<1>2. ASSUME NEW c \in Nat, NEW e \in Nat, c < e
      PROVE  x * c + x <= x * e
  <2> DEFINE d == e - (c + 1)
  <2>1. d \in Nat /\ e = (c + 1) + d
    BY <1>2
  <2>2. x * e = x * (c + 1) + x * d /\ x * d \in Nat
    BY <2>1
  <2> QED
    BY <1>1, <2>2
<1> DEFINE B == {r \in Nat : ~\E c \in Nat : x * c <= r /\ r < x * c + x}
<1>3. B = {}
  <2> SUFFICES ASSUME B # {} PROVE FALSE
    OBVIOUS
  <2>1. PICK r \in B : \A j \in B : r <= j
    <3>1. PICK j \in B : TRUE
      OBVIOUS
    <3>2. B \in SUBSET Nat
      OBVIOUS
    <3> HIDE DEF B
    <3> QED
      BY <3>1, <3>2, LeastNat
  <2>2. r \in Nat /\ r # 0
    <3>1. x * 0 <= 0 /\ 0 < x * 0 + x
      OBVIOUS
    <3> QED
      BY <3>1
  <2>3. r - 1 \in Nat /\ r - 1 \notin B
    BY <2>1, <2>2
  <2>4. PICK c \in Nat : x * c <= r - 1 /\ r - 1 < x * c + x
    BY <2>3
  <2>5. x * c \in Nat /\ x * (c + 1) = x * c + x /\ c + 1 \in Nat
    BY <1>1
  <2> DEFINE y == x * c
             w == x * (c + 1)
  <2>6. y <= r - 1 /\ r - 1 < y + x /\ y \in Nat /\ w = y + x
    BY <2>4, <2>5
  <2>7. ~(y <= r /\ r < y + x) /\ ~(w <= r /\ r < w + x)
    BY <2>1, <2>5
  <2> HIDE DEF y, w
  <2> QED
    BY <2>2, <2>6, <2>7
<1> DEFINE q == [r \in 0..x * k |->
                   CHOOSE c \in Nat : x * c <= r /\ r < x * c + x]
<1>4. ASSUME NEW r \in 0..x * k
      PROVE  q[r] \in Nat /\ x * q[r] <= r /\ r < x * q[r] + x
  <2>1. r \in Nat
    BY <1>1
  <2>2. \E c \in Nat : x * c <= r /\ r < x * c + x
    BY <1>3, <2>1
  <2> QED
    BY <2>2
<1>5. ASSUME NEW r \in 0..x * k
      PROVE  q[r] \in 0..k
  <2> DEFINE c == q[r]
  <2>1. c \in Nat /\ x * c <= r /\ r <= x * k
    BY <1>1, <1>4
  <2> HIDE DEF c
  <2>2. SUFFICES ~(k < c)
    BY <2>1 DEF c
  <2> SUFFICES ASSUME k < c PROVE FALSE
    OBVIOUS
  <2>3. x * k + x <= x * c
    BY <1>2, <2>1
  <2>4. x * k \in Nat /\ x * c \in Nat /\ r \in Nat
    BY <1>1, <2>1
  <2> QED
    BY <2>1, <2>3, <2>4
<1>6. q[x * k] = k
  <2> DEFINE r == x * k
             c == q[r]
  <2>1. r \in Nat /\ r \in 0..x * k
    BY <1>1
  <2>2. c \in Nat /\ x * c <= r /\ r < x * c + x /\ c \in 0..k
    BY <1>4, <1>5, <2>1
  <2> HIDE DEF c
  <2> SUFFICES c = k
    BY DEF c
  <2>3. ~(c < k)
    <3> SUFFICES ASSUME c < k PROVE FALSE
      OBVIOUS
    <3>1. x * c + x <= r
      BY <1>2, <2>2
    <3>2. x * c \in Nat
      BY <1>1, <2>2
    <3> QED
      BY <2>1, <2>2, <3>1, <3>2
  <2> QED
    BY <2>2, <2>3
<1>7. q \in [0..x * k -> 0..k]
  BY <1>5
<1> HIDE DEF q
<1> QED
  BY <1>4, <1>6, <1>7 DEF Multiple

\* Products by x, which the provers do not compare by themselves.
LEMMA Times ==
  ASSUME NEW x \in Nat \ {0}, NEW c \in Nat, NEW e \in Nat
  PROVE  /\ x * c \in Nat /\ x * e \in Nat
         /\ c < e => x * c + x <= x * e
         /\ c <= e => e - c \in Nat /\ x * (e - c) = x * e - x * c
<1>1. x * c \in Nat /\ x * e \in Nat
  OBVIOUS
<1>2. ASSUME c < e
      PROVE  x * c + x <= x * e
  <2> DEFINE d == e - (c + 1)
  <2>1. d \in Nat /\ e = (c + 1) + d
    BY <1>2
  <2> HIDE DEF d
  <2>2. x * e = (x * c + x) + x * d /\ x * d \in Nat
    BY <2>1
  <2> QED
    BY <1>1, <2>2
<1>3. ASSUME c <= e
      PROVE  e - c \in Nat /\ x * (e - c) = x * e - x * c
  <2> DEFINE d == e - c
  <2>1. d \in Nat /\ e = c + d
    BY <1>3
  <2> HIDE DEF d
  <2>2. x * e = x * c + x * d /\ x * d \in Nat
    BY <2>1
  <2>3. x * d = x * e - x * c
    BY <1>1, <2>2
  <2> QED
    BY <2>1, <2>3 DEF d
<1> QED
  BY <1>1, <1>2, <1>3

\* The sums of S and of up to n copies of x.
Spread(S, x, n) == {v + x * k : v \in S, k \in 0..n}

\* Rungs in the sums S up to W, both ends among them.
Rungs(S, W) ==
  \E t \in [0..W -> Nat] :
    /\ t[W] = W
    /\ \A v \in 0..W : t[v] <= v /\ v < t[v] + D
    /\ \A v, w \in 0..W : v <= w => t[v] <= t[w] /\ t[w] - t[v] \in S

\* Copies of an element x, at most D, go on top of the rungs.
LEMMA RungsStep ==
  ASSUME NEW S \in SUBSET Nat, NEW W \in Nat, Rungs(S, W),
         NEW x \in Nat \ {0}, NEW k \in Nat, x <= D
  PROVE  Rungs(Spread(S, x, k), x * k + W)
<1>1. PICK t \in [0..W -> Nat] :
        /\ t[W] = W
        /\ \A v \in 0..W : t[v] <= v /\ v < t[v] + D
        /\ \A v, w \in 0..W : v <= w => t[v] <= t[w] /\ t[w] - t[v] \in S
  BY DEF Rungs
<1>2. PICK q : Multiple(q, x, k)
  BY MultipleExists
<1> DEFINE y == x * k
           Z == y + W
           T == Spread(S, x, k)
           m == [r \in 0..y |-> x * q[r]]
           u == [v \in 0..Z |-> IF v <= W THEN t[v] ELSE W + m[v - W]]
<1>3. y \in Nat /\ Z \in Nat /\ W <= Z /\ D \in Nat
  BY Times, DAssumption
<1>4. /\ m \in [0..y -> Nat] /\ m[y] = y
      /\ \A r \in 0..y : m[r] <= r /\ r < m[r] + D
  <2>1. \A r \in 0..y : q[r] \in 0..k /\ x * q[r] <= r /\ r < x * q[r] + x
    BY <1>2 DEF Multiple
  <2>2. q[y] = k
    BY <1>2 DEF Multiple
  <2>3. \A r \in 0..y : x * q[r] \in Nat
    BY <2>1, Times
  <2>4. ASSUME NEW r \in 0..y
        PROVE  m[r] <= r /\ r < m[r] + D
    <3> DEFINE e == x * q[r]
    <3>1. e \in Nat /\ e <= r /\ r < e + x /\ r \in Nat
      BY <1>3, <2>1, <2>3
    <3>2. m[r] = e
      OBVIOUS
    <3> HIDE DEF e, m
    <3> QED
      BY <1>3, <3>1, <3>2
  <2>5. y \in 0..y
    BY <1>3
  <2> QED
    BY <2>2, <2>3, <2>4, <2>5
<1>5. ASSUME NEW r \in 0..y, NEW s \in 0..y, r <= s
      PROVE  \E c \in 0..k : m[s] - m[r] = x * c /\ m[r] <= m[s]
  <2> DEFINE c == q[r]
             e == q[s]
             X == x * c
             Y == x * e
  <2>1. /\ c \in 0..k /\ X <= r /\ r < X + x
        /\ e \in 0..k /\ Y <= s /\ s < Y + x
        /\ r \in Nat /\ s \in Nat
    BY <1>2, <1>3 DEF Multiple
  <2>2. m[r] = X /\ m[s] = Y
    OBVIOUS
  <2> HIDE DEF c, e, m
  <2>3. /\ X \in Nat /\ Y \in Nat
        /\ c <= e => e - c \in Nat /\ x * (e - c) = Y - X
        /\ e < c => Y + x <= X
    BY <2>1, Times
  <2> HIDE DEF X, Y
  <2>4. c <= e /\ e - c \in 0..k
    BY <1>5, <2>1, <2>3
  <2>5. X <= Y
    <3>1. x * (e - c) \in Nat
      BY <2>3, <2>4
    <3> QED
      BY <2>3, <2>4, <3>1
  <2> QED
    BY <2>2, <2>3, <2>4, <2>5
<1> HIDE DEF m
<1>a. \A s \in S, c \in 0..k : s + x * c \in T
  <2> DEFINE F(s, c) == s + x * c
             I == 0..k
  <2>1. T = {F(s, c) : s \in S, c \in I}
    BY DEF Spread
  <2> HIDE DEF F, T, I
  <2>2. \A s \in S, c \in I : F(s, c) \in T
    BY <2>1
  <2> QED
    BY <2>2 DEF F, I
<1>6. \A v \in 0..Z : /\ v <= W => v \in 0..W
                      /\ ~(v <= W) => v - W \in 0..y
                      /\ v \in Nat
  BY <1>3
<1>7. ASSUME NEW v \in 0..Z
      PROVE  u[v] \in Nat /\ u[v] <= v /\ v < u[v] + D
  <2>1. CASE v <= W
    BY <1>1, <1>6, <2>1
  <2>2. CASE ~(v <= W)
    <3> DEFINE e == m[v - W]
    <3>1. e \in Nat /\ e <= v - W /\ v - W < e + D
      BY <1>4, <1>6, <2>2
    <3>2. u[v] = W + e
      BY <2>2
    <3> HIDE DEF u, e
    <3> QED
      BY <1>3, <1>6, <3>1, <3>2
  <2> QED
    BY <2>1, <2>2
<1>8. 0 \in S
  <2>1. 0 \in 0..W /\ 0 <= 0
    OBVIOUS
  <2>2. t[0] - t[0] \in S /\ t[0] \in Nat
    BY <1>1, <2>1
  <2> QED
    BY <2>2
<1>9. ASSUME NEW v \in 0..Z, NEW w \in 0..Z, v <= w
      PROVE  u[v] <= u[w] /\ u[w] - u[v] \in T
  <2>1. CASE w <= W
    <3>1. v <= W
      BY <1>6, <1>9, <2>1
    <3>2. u[v] = t[v] /\ u[w] = t[w]
      BY <2>1, <3>1
    <3>3. t[v] <= t[w] /\ t[w] - t[v] \in S
      BY <1>1, <1>6, <1>9, <2>1, <3>1
    <3>4. \A s \in S : s + x * 0 = s /\ 0 \in 0..k
      OBVIOUS
    <3> HIDE DEF T, u
    <3>5. t[w] - t[v] \in T
      BY <1>a, <3>3, <3>4
    <3> QED
      BY <3>2, <3>3, <3>5
  <2>2. CASE v <= W /\ ~(w <= W)
    <3>1. u[v] = t[v] /\ u[w] = W + m[w - W]
      BY <2>2
    <3>2. t[v] <= W /\ W - t[v] \in S /\ t[v] \in Nat
      <4>1. v \in 0..W /\ W \in 0..W /\ v <= W
        BY <1>6, <2>2
      <4>2. t[v] <= t[W] /\ t[W] - t[v] \in S
        BY <1>1, <4>1
      <4> QED
        BY <1>1, <4>1, <4>2
    <3>3. PICK c \in 0..k : m[w - W] - m[0] = x * c /\ m[0] <= m[w - W]
      <4>1. w - W \in 0..y /\ 0 \in 0..y /\ 0 <= w - W
        BY <1>3, <1>6, <2>2
      <4> QED
        BY <1>5, <4>1
    <3>4. m[0] = 0 /\ m[w - W] \in Nat
      <4>1. m[0] \in Nat /\ m[0] <= 0
        BY <1>3, <1>4
      <4> QED
        BY <1>4, <1>6, <2>2, <4>1
    <3> DEFINE e == m[w - W]
               g == t[v]
               h == x * c
    <3>5. /\ e \in Nat /\ g \in Nat /\ g <= W /\ W - g \in S
          /\ e = h /\ u[v] = g /\ u[w] = W + e
      BY <3>1, <3>2, <3>3, <3>4
    <3> HIDE DEF u, e, g, T
    <3>6. \A s \in S : s + h \in T
      BY <1>a
    <3> HIDE DEF h
    <3>7. (W - g) + h = (W + e) - g /\ g <= W + e
      BY <3>5
    <3> QED
      BY <3>5, <3>6, <3>7
  <2>3. CASE ~(v <= W) /\ ~(w <= W)
    <3>1. /\ v - W \in 0..y /\ w - W \in 0..y /\ v - W <= w - W
      BY <1>6, <1>9, <2>3
    <3>2. PICK c \in 0..k : /\ m[w - W] - m[v - W] = x * c
                            /\ m[v - W] <= m[w - W]
      BY <1>5, <3>1
    <3> DEFINE e == m[w - W]
               g == m[v - W]
               h == x * c
    <3>3. /\ e \in Nat /\ g \in Nat /\ g <= e /\ e - g = h
          /\ u[v] = W + g /\ u[w] = W + e
      BY <1>4, <2>3, <3>1, <3>2
    <3> HIDE DEF u, e, g, T
    <3>4. 0 + h \in T
      BY <1>8, <1>a
    <3> HIDE DEF h
    <3>5. 0 + h = (W + e) - (W + g) /\ W + g <= W + e
      BY <3>3
    <3> QED
      BY <3>3, <3>4, <3>5
  <2> QED
    BY <1>6, <1>9, <2>1, <2>2, <2>3
<1>10. u[Z] = Z
  <2>1. CASE y = 0
    <3>1. Z = W
      BY <1>3, <2>1
    <3> QED
      BY <1>1, <1>3, <3>1
  <2>2. CASE y # 0
    <3>1. ~(Z <= W) /\ Z - W = y /\ Z \in 0..Z
      BY <1>3, <2>2
    <3>2. u[Z] = W + m[y]
      BY <3>1
    <3> QED
      BY <1>3, <1>4, <3>2
  <2> QED
    BY <2>1, <2>2
<1>11. u \in [0..Z -> Nat]
  BY <1>7
<1> HIDE DEF u, T, Z
<1>12. Rungs(T, Z)
  BY <1>7, <1>9, <1>10, <1>11 DEF Rungs
<1> QED
  BY <1>12 DEF T, Z

\* The recursions behind SubsetSums(m) and Weight(m).
SumsOf(g, m) ==
  g = [U \in SUBSET Search!Element |->
         IF U = {} THEN {0}
         ELSE Spread(g[U \ {First(U)}], First(U), m[First(U)])]

WeightOf(h, m) ==
  h = [U \in SUBSET Search!Element |->
         IF U = {} THEN 0
         ELSE [i \in Search!Element |-> i * m[i]][First(U)]
                + h[U \ {First(U)}]]

LEMMA ElementFinite ==
  IsFiniteSet(Search!Element)
BY FS_Interval, DAssumption DEF Search!Element

\* What holds of the empty set of elements, and of a set when it holds of
\* the set without one of them, holds of all elements.
\* The order of the library's folds over the elements.
FirstOf == [U \in SUBSET Search!Element |-> First(U)]

LEMMA FirstPicks ==
  /\ Picks(FirstOf, Search!Element)
  /\ \A U \in SUBSET Search!Element : FirstOf[U] = First(U)
BY DEF Picks, FirstOf, First

LEMMA ElementInduction ==
  ASSUME NEW B \in SUBSET SUBSET Search!Element, {} \in B,
         \A U \in SUBSET Search!Element :
           U # {} /\ U \ {First(U)} \in B => U \in B
  PROVE  B = SUBSET Search!Element
<1>1. \A U \in SUBSET Search!Element :
        U # {} /\ U \ {FirstOf[U]} \in B => U \in B
  BY FirstPicks
<1> QED
  BY <1>1, FirstPicks, ElementFinite, PickInduction

\* The library's folds are these recursions.
LEMMA SubsetSumsIs ==
  ASSUME NEW m \in Multiset
  PROVE  \E g \in [SUBSET Search!Element -> SUBSET Nat] :
           SumsOf(g, m) /\ Search!SubsetSums(m) = g[Search!Element]
<1> DEFINE op == [p \in Search!Element \X SUBSET Nat |->
                    Spread(p[2], p[1], m[p[1]])]
<1>1. ASSUME NEW i \in Search!Element, NEW S \in SUBSET Nat
      PROVE  /\ op[<<i, S>>] = Spread(S, i, m[i])
             /\ op[<<i, S>>] \in SUBSET Nat
  <2>1. op[<<i, S>>] = Spread(S, i, m[i])
    <3>1. <<i, S>> \in Search!Element \X SUBSET Nat
      OBVIOUS
    <3> QED
      BY <3>1
  <2>2. \A v \in S, k \in 0..m[i] : v + i * k \in Nat
    <3>1. i \in Nat /\ m[i] \in Nat
      BY DAssumption DEF Search!Element, Multiset
    <3>2. \A v \in Nat, k \in Nat : v + i * k \in Nat
      BY <3>1
    <3> QED
      BY <3>1, <3>2
  <2> HIDE DEF op
  <2>3. Spread(S, i, m[i]) \in SUBSET Nat
    BY <2>2 DEF Spread
  <2> QED
    BY <2>1, <2>3
<1> HIDE DEF op
<1>2. PICK g : /\ Folds(g, op, {0}, FirstOf, Search!Element)
               /\ \A U \in SUBSET Search!Element : g[U] \in SUBSET Nat
  <2>1. {0} \in SUBSET Nat
    OBVIOUS
  <2>2. op \in [Search!Element \X (SUBSET Nat) -> SUBSET Nat]
    <3>1. \A p \in Search!Element \X (SUBSET Nat) : op[p] \in SUBSET Nat
      <4> SUFFICES ASSUME NEW p \in Search!Element \X (SUBSET Nat)
                   PROVE  op[p] \in SUBSET Nat
        OBVIOUS
      <4>1. /\ p = <<p[1], p[2]>>
            /\ p[1] \in Search!Element /\ p[2] \in SUBSET Nat
        OBVIOUS
      <4>2. op[<<p[1], p[2]>>] \in SUBSET Nat
        BY <1>1, <4>1
      <4> QED
        BY <4>1, <4>2
    <3>2. op = [p \in Search!Element \X (SUBSET Nat) |-> op[p]]
      BY DEF op
    <3> QED
      BY <3>1, <3>2
  <2> DEFINE Y == SUBSET Nat
             b == {0}
  <2>3. b \in Y /\ op \in [Search!Element \X Y -> Y]
    BY <2>1, <2>2
  <2> HIDE DEF Y, b
  <2>4. \E g : /\ Folds(g, op, b, FirstOf, Search!Element)
               /\ \A U \in SUBSET Search!Element : g[U] \in Y
    BY <2>3, ElementFinite, FirstPicks, TypedFold
  <2> QED
    BY <2>4 DEF Y, b
<1>3. /\ g = [U \in SUBSET Search!Element |-> g[U]]
      /\ g[{}] = {0}
      /\ \A U \in SUBSET Search!Element :
           U # {} => g[U] = op[<<First(U), g[U \ {First(U)}]>>]
  <2>1. g = [U \in SUBSET Search!Element |-> g[U]]
    BY <1>2 DEF Folds
  <2>2. g[{}] = {0}
    BY <1>2, FoldEmpty
  <2>3. \A U \in SUBSET Search!Element :
          U # {} => g[U] = op[<<First(U), g[U \ {First(U)}]>>]
    BY <1>2, FirstPicks, FoldAt
  <2> QED
    BY <2>1, <2>2, <2>3
<1>4. \A U \in SUBSET Search!Element :
        U # {} => First(U) \in Search!Element
                  /\ U \ {First(U)} \in SUBSET Search!Element
  BY DEF First
<1>5. \A U \in SUBSET Search!Element : g[U] \in SUBSET Nat
  BY <1>2
<1>6. SumsOf(g, m)
  <2> DEFINE e(U) == IF U = {} THEN {0}
                     ELSE Spread(g[U \ {First(U)}], First(U), m[First(U)])
  <2>1. ASSUME NEW U \in SUBSET Search!Element
        PROVE  g[U] = e(U)
    <3>1. CASE U = {}
      BY <1>3, <3>1
    <3>2. CASE U # {}
      <4>1. /\ First(U) \in Search!Element
            /\ U \ {First(U)} \in SUBSET Search!Element
        BY <1>4, <3>2
      <4>2. op[<<First(U), g[U \ {First(U)}]>>]
              = Spread(g[U \ {First(U)}], First(U), m[First(U)])
        BY <1>1, <1>5, <4>1
      <4>3. g[U] = op[<<First(U), g[U \ {First(U)}]>>]
        BY <1>3, <3>2
      <4> QED
        BY <3>2, <4>2, <4>3
    <3> QED
      BY <3>1, <3>2
  <2>2. [U \in SUBSET Search!Element |-> g[U]]
          = [U \in SUBSET Search!Element |-> e(U)]
    <3> HIDE DEF e
    <3> QED
      BY <2>1
  <2>3. g = [U \in SUBSET Search!Element |-> e(U)]
    BY <1>3, <2>2
  <2> QED
    BY <2>3 DEF SumsOf
<1> DEFINE h == CHOOSE f : SumsOf(f, m)
<1>7. SumsOf(h, m)
  BY <1>6
<1>8. Search!SubsetSums(m) = h[Search!Element]
  BY DEF Search!SubsetSums, Search!FoldSet, Search!MapThenFoldSet, SumsOf,
         First, Spread
<1> HIDE DEF h
<1>9. /\ h = [U \in SUBSET Search!Element |-> h[U]]
      /\ h[{}] = {0}
      /\ \A U \in SUBSET Search!Element :
           U # {} => h[U] = Spread(h[U \ {First(U)}], First(U), m[First(U)])
  <2> DEFINE e(U) == IF U = {} THEN {0}
                     ELSE Spread(h[U \ {First(U)}], First(U), m[First(U)])
  <2>1. h = [U \in SUBSET Search!Element |-> e(U)]
    BY <1>7 DEF SumsOf
  <2>2. \A U \in SUBSET Search!Element : h[U] = e(U)
    <3> HIDE DEF e
    <3> QED
      BY <2>1
  <2>3. h = [U \in SUBSET Search!Element |-> h[U]]
    <3> HIDE DEF e
    <3> QED
      BY <2>1
  <2>4. h[{}] = e({}) /\ e({}) = {0}
    BY <2>2
  <2> QED
    BY <2>2, <2>3, <2>4
<1>10. \A U \in SUBSET Search!Element : h[U] \in SUBSET Nat
  <2> DEFINE B == {U \in SUBSET Search!Element : h[U] \in SUBSET Nat}
  <2>1. B \in SUBSET SUBSET Search!Element
    OBVIOUS
  <2>2. {} \in B
    BY <1>9
  <2>3. \A U \in SUBSET Search!Element :
          U # {} /\ U \ {First(U)} \in B => U \in B
    <3> SUFFICES ASSUME NEW U \in SUBSET Search!Element, U # {},
                        h[U \ {First(U)}] \in SUBSET Nat
                 PROVE  h[U] \in SUBSET Nat
      OBVIOUS
    <3>1. First(U) \in Search!Element
      BY <1>4
    <3>2. /\ op[<<First(U), h[U \ {First(U)}]>>] \in SUBSET Nat
          /\ op[<<First(U), h[U \ {First(U)}]>>]
              = Spread(h[U \ {First(U)}], First(U), m[First(U)])
      BY <1>1, <3>1
    <3> QED
      BY <1>9, <3>2
  <2>4. B = SUBSET Search!Element
    <3> HIDE DEF B
    <3> QED
      BY <2>1, <2>2, <2>3, ElementInduction
  <2> QED
    BY <2>4
<1>11. h \in [SUBSET Search!Element -> SUBSET Nat]
  BY <1>9, <1>10
<1> QED
  BY <1>7, <1>8, <1>11

LEMMA WeightIs ==
  ASSUME NEW m \in Multiset
  PROVE  \E h \in [SUBSET Search!Element -> Nat] :
           WeightOf(h, m) /\ Search!Weight(m) = h[Search!Element]
<1> DEFINE f == [i \in Search!Element |-> i * m[i]]
           op == [p \in Search!Element \X Nat |-> f[p[1]] + p[2]]
<1>1. ASSUME NEW i \in Search!Element, NEW v \in Nat
      PROVE  op[<<i, v>>] = f[i] + v /\ op[<<i, v>>] \in Nat
  <2>1. <<i, v>> \in Search!Element \X Nat
    OBVIOUS
  <2>2. i * m[i] \in Nat
    <3>1. i \in Nat /\ m[i] \in Nat
      BY DAssumption DEF Search!Element, Multiset
    <3> QED
      BY <3>1
  <2>3. f[i] \in Nat
    BY <2>2
  <2> HIDE DEF f
  <2> QED
    BY <2>1, <2>3
<1> HIDE DEF op
<1>2. PICK g : /\ Folds(g, op, 0, FirstOf, Search!Element)
               /\ \A U \in SUBSET Search!Element : g[U] \in Nat
  <2>1. 0 \in Nat
    OBVIOUS
  <2>2. op \in [Search!Element \X Nat -> Nat]
    <3>1. \A p \in Search!Element \X Nat : op[p] \in Nat
      <4> SUFFICES ASSUME NEW p \in Search!Element \X Nat
                   PROVE  op[p] \in Nat
        OBVIOUS
      <4>1. /\ p = <<p[1], p[2]>>
            /\ p[1] \in Search!Element /\ p[2] \in Nat
        OBVIOUS
      <4>2. op[<<p[1], p[2]>>] \in Nat
        BY <1>1, <4>1
      <4> QED
        BY <4>1, <4>2
    <3>2. op = [p \in Search!Element \X Nat |-> op[p]]
      BY DEF op
    <3> QED
      BY <3>1, <3>2
  <2> QED
    BY <2>1, <2>2, ElementFinite, FirstPicks, TypedFold
<1>3. /\ g = [U \in SUBSET Search!Element |-> g[U]]
      /\ g[{}] = 0
      /\ \A U \in SUBSET Search!Element :
           U # {} => g[U] = op[<<First(U), g[U \ {First(U)}]>>]
  <2>1. g = [U \in SUBSET Search!Element |-> g[U]]
    BY <1>2 DEF Folds
  <2>2. g[{}] = 0
    BY <1>2, FoldEmpty
  <2>3. \A U \in SUBSET Search!Element :
          U # {} => g[U] = op[<<First(U), g[U \ {First(U)}]>>]
    BY <1>2, FirstPicks, FoldAt
  <2> QED
    BY <2>1, <2>2, <2>3
<1>4. \A U \in SUBSET Search!Element :
        U # {} => First(U) \in Search!Element
                  /\ U \ {First(U)} \in SUBSET Search!Element
  BY DEF First
<1>5. \A U \in SUBSET Search!Element : g[U] \in Nat
  BY <1>2
<1>6. WeightOf(g, m)
  <2>1. \A U \in SUBSET Search!Element :
          g[U] = IF U = {} THEN 0
                 ELSE f[First(U)] + g[U \ {First(U)}]
    <3> HIDE DEF f
    <3> QED
      BY <1>1, <1>3, <1>4, <1>5
  <2> QED
    BY <1>3, <2>1 DEF WeightOf
<1> DEFINE h == CHOOSE e : WeightOf(e, m)
<1>7. WeightOf(h, m)
  BY <1>6
<1>8. Search!Weight(m) = h[Search!Element]
  <2>1. DOMAIN f = Search!Element
    OBVIOUS
  <2>2. Search!SumFunction(f) = Search!SumFunctionOnSet(f, Search!Element)
    BY <2>1 DEF Search!SumFunction
  <2> QED
    BY <2>2 DEF Search!Weight, Search!SumFunctionOnSet,
                Search!FoldFunctionOnSet,
                Search!MapThenFoldSet, WeightOf, First
<1> HIDE DEF h
<1>9. /\ h = [U \in SUBSET Search!Element |-> h[U]]
      /\ h[{}] = 0
      /\ \A U \in SUBSET Search!Element :
           U # {} => h[U] = f[First(U)] + h[U \ {First(U)}]
  BY <1>7 DEF WeightOf
<1>10. \A U \in SUBSET Search!Element : h[U] \in Nat
  <2> DEFINE B == {U \in SUBSET Search!Element : h[U] \in Nat}
  <2>1. B \in SUBSET SUBSET Search!Element
    OBVIOUS
  <2>2. {} \in B
    BY <1>9
  <2> HIDE DEF f
  <2>3. \A U \in SUBSET Search!Element :
          U # {} /\ U \ {First(U)} \in B => U \in B
    <3> SUFFICES ASSUME NEW U \in SUBSET Search!Element, U # {},
                        h[U \ {First(U)}] \in Nat
                 PROVE  h[U] \in Nat
      OBVIOUS
    <3>1. First(U) \in Search!Element
      BY <1>4
    <3>2. f[First(U)] + h[U \ {First(U)}] \in Nat
      BY <1>1, <3>1
    <3> QED
      BY <1>9, <3>2
  <2>4. B = SUBSET Search!Element
    <3> HIDE DEF B
    <3> QED
      BY <2>1, <2>2, <2>3, ElementInduction
  <2> QED
    BY <2>4
<1>11. h \in [SUBSET Search!Element -> Nat]
  BY <1>9, <1>10
<1> QED
  BY <1>7, <1>8, <1>11

\* The sums of an input leave no gap of D: a greedy choice of its copies
\* goes up in steps of at most D.
LEMMA InputLaddered ==
  ASSUME NEW m \in Multiset, \A i \in Search!Element : m[i] > 0 => i <= D
  PROVE  /\ Search!SubsetSums(m) \in SUBSET Nat /\ Search!Weight(m) \in Nat
         /\ Rungs(Search!SubsetSums(m), Search!Weight(m))
<1>1. PICK g \in [SUBSET Search!Element -> SUBSET Nat] :
        SumsOf(g, m) /\ Search!SubsetSums(m) = g[Search!Element]
  BY SubsetSumsIs
<1>2. PICK h \in [SUBSET Search!Element -> Nat] :
        WeightOf(h, m) /\ Search!Weight(m) = h[Search!Element]
  BY WeightIs
<1> DEFINE B == {U \in SUBSET Search!Element : Rungs(g[U], h[U])}
<1>3. B \in SUBSET SUBSET Search!Element
  OBVIOUS
<1>4. {} \in B
  <2>1. g[{}] = {0} /\ h[{}] = 0
    BY <1>1, <1>2 DEF SumsOf, WeightOf
  <2>2. Rungs({0}, 0)
    <3> DEFINE t == [v \in 0..0 |-> 0]
    <3>1. t \in [0..0 -> Nat] /\ t[0] = 0 /\ \A v \in 0..0 : v = 0
      OBVIOUS
    <3> HIDE DEF t
    <3>2. /\ \A v \in 0..0 : t[v] <= v /\ v < t[v] + D
          /\ \A v, w \in 0..0 : v <= w => t[v] <= t[w] /\ t[w] - t[v] \in {0}
      BY <3>1, DAssumption
    <3> QED
      BY <3>1, <3>2 DEF Rungs
  <2> QED
    BY <2>1, <2>2
<1>5. ASSUME NEW U \in SUBSET Search!Element, U # {}, U \ {First(U)} \in B
      PROVE  U \in B
  <2> DEFINE x == First(U)
             V == U \ {First(U)}
             k == m[x]
  <2>1. /\ x \in Search!Element /\ V \in SUBSET Search!Element
        /\ Rungs(g[V], h[V])
        /\ g[V] \in SUBSET Nat /\ h[V] \in Nat
        /\ x \in Nat \ {0} /\ k \in Nat
    <3>1. x \in U
      BY <1>5 DEF First
    <3>2. /\ x \in Search!Element /\ V \in SUBSET Search!Element
          /\ Rungs(g[V], h[V])
      BY <1>5, <3>1
    <3>3. g[V] \in SUBSET Nat /\ h[V] \in Nat
      BY <3>2
    <3>4. x \in Nat \ {0} /\ k \in Nat
      BY <3>2, DAssumption DEF Search!Element, Multiset
    <3> QED
      BY <3>2, <3>3, <3>4
  <2>2. /\ g[U] = Spread(g[V], x, k)
        /\ h[U] = [i \in Search!Element |-> i * m[i]][x] + h[V]
    <3> DEFINE e(W) == IF W = {} THEN {0}
                       ELSE Spread(g[W \ {First(W)}], First(W), m[First(W)])
               d(W) == IF W = {} THEN 0
                       ELSE [i \in Search!Element |-> i * m[i]][First(W)]
                              + h[W \ {First(W)}]
    <3>1. g = [W \in SUBSET Search!Element |-> e(W)]
      BY <1>1 DEF SumsOf
    <3>2. h = [W \in SUBSET Search!Element |-> d(W)]
      BY <1>2 DEF WeightOf
    <3>3. g[U] = e(U) /\ h[U] = d(U)
      <4> HIDE DEF e, d
      <4>1. g[U] = e(U)
        BY <3>1
      <4>2. h[U] = d(U)
        BY <3>2
      <4> QED
        BY <4>1, <4>2
    <3> QED
      BY <1>5, <3>3
  <2>3. h[U] = x * k + h[V]
    BY <2>1, <2>2
  <2>4. CASE k > 0
    <3>1. x <= D
      BY <2>1, <2>4
    <3> DEFINE S == g[V]
               W == h[V]
    <3>a. S \in SUBSET Nat /\ W \in Nat /\ Rungs(S, W)
      BY <2>1
    <3>b. /\ g[U] = Spread(S, x, k)
          /\ h[U] = x * k + W
      BY <2>2, <2>3
    <3> HIDE DEF x, V, k, B, S, W
    <3>2. Rungs(Spread(S, x, k), x * k + W)
      BY <2>1, <3>1, <3>a, RungsStep
    <3>3. Rungs(g[U], h[U])
      BY <3>2, <3>b
    <3> QED
      BY <3>3 DEF B
  <2>5. CASE k = 0
    <3> HIDE DEF x, V, k, B
    <3> DEFINE S == g[V]
               F(v, c) == v + x * c
               I == 0..k
    <3>1. \A v \in S, c \in I : F(v, c) = v
      BY <2>1, <2>5
    <3>2. g[U] = S
      <4>1. g[U] = {F(v, c) : v \in S, c \in I} /\ 0 \in I
        BY <2>1, <2>2 DEF Spread
      <4> HIDE DEF F, I, S
      <4> QED
        BY <3>1, <4>1
    <3>3. h[U] = h[V]
      BY <2>1, <2>3, <2>5
    <3> QED
      BY <2>1, <3>2, <3>3 DEF B
  <2> QED
    BY <2>1, <2>4, <2>5
<1>6. Search!Element \in B
  <2> HIDE DEF B
  <2>1. B = SUBSET Search!Element
    BY <1>3, <1>4, <1>5, ElementInduction
  <2> QED
    BY <2>1
<1> QED
  BY <1>1, <1>2, <1>6

\* The sumset an input is read into.
LEMMA StartIs ==
  ASSUME NEW m \in Search!Inputs
  PROVE  /\ Search!StartSumset(m) \in Sumset /\ Full(Search!StartSumset(m))
         /\ Laddered(Search!StartSumset(m))
<1> DEFINE s == Search!StartSumset(m)
           W == Search!Weight(m)
           S == Search!SubsetSums(m)
<1>1. /\ m \in Multiset
      /\ \A i \in Search!Element : m[i] > 0 => i <= D
  BY InputAssumption DEF Search!Inputs, Multiset
<1>2. S \in SUBSET Nat /\ W \in Nat /\ Rungs(S, W)
  BY <1>1, InputLaddered
<1>3. PICK t \in [0..W -> Nat] :
        /\ t[W] = W
        /\ \A v \in 0..W : t[v] <= v /\ v < t[v] + D
        /\ \A v, w \in 0..W : v <= w => t[v] <= t[w] /\ t[w] - t[v] \in S
  BY <1>2 DEF Rungs
<1>4. s.sum = W /\ s.sums = S
  BY DEF Search!StartSumset
<1>5. s \in Sumset
  <2>1. Search!Empty \in Multiset
    BY DEF Search!Empty, Multiset
  <2> HIDE DEF W, S
  <2> QED
    BY <1>2, <2>1 DEF Search!StartSumset, Sumset, W, S
<1> HIDE DEF s, W, S
<1>6. 0 \in S /\ W \in S
  <2>1. t[0] \in Nat /\ t[0] <= 0 /\ 0 \in 0..W /\ W \in 0..W /\ 0 <= W
    BY <1>2, <1>3
  <2>2. t[0] = 0
    BY <2>1
  <2>3. t[0] - t[0] \in S /\ t[W] - t[0] \in S
    BY <1>3, <2>1
  <2>4. W - 0 = W
    BY <1>2
  <2> QED
    BY <1>3, <2>2, <2>3, <2>4
<1>7. Full(s)
  BY <1>4, <1>6 DEF Full
<1>8. Laddered(s)
  BY <1>3, <1>4 DEF Laddered
<1> QED
  BY <1>5, <1>7, <1>8 DEF s

\* The bottom frame; its smaller side is P.
LEMMA SearchInit ==
  ASSUME Search!Init
  PROVE  SearchInv
<1>1. PICK m \in Search!Inputs, k \in Search!Inputs :
        input = [a |-> m, b |-> k]
  BY DEF Search!Init
<1> DEFINE x == Search!StartSumset(m)
           y == Search!StartSumset(k)
           f == Search!Frame(x, y, 1)
<1>2. /\ x \in Sumset /\ Full(x) /\ Laddered(x)
      /\ y \in Sumset /\ Full(y) /\ Laddered(y)
  BY StartIs
<1>3. stack = <<f>>
  BY <1>1 DEF Search!Init
<1> HIDE DEF x, y
<1>4. /\ f \in Frames /\ f.a = x /\ f.b = y
      /\ f.intersect = Search!IsTrivial(f.a, f.b)
  BY <1>2 DEF Search!Frame, Frames, Search!IsTrivial
<1> HIDE DEF f
<1>5. /\ stack \in Seq(Frames) /\ Len(stack) = 1 /\ stack[1] = f
      /\ \A j \in 1..1 : j = 1
  BY <1>3, <1>4
<1>6. Tested(stack)
  BY <1>4, <1>5 DEF Tested
<1>7. ASSUME NEW p \in {x, y}, NEW q \in {x, y}, Sides(f, p, q),
             p.sum <= q.sum
      PROVE  \E P, Q : History(stack, P, Q)
  <2> DEFINE P == [j \in 1..1 |-> p]
             Q == [j \in 1..1 |-> q]
  <2>1. p \in Sumset /\ q \in Sumset /\ Full(p) /\ Full(q) /\ Laddered(q)
    BY <1>2
  <2>2. /\ P \in [1..1 -> Sumset] /\ Q \in [1..1 -> Sumset]
        /\ P[1] = p /\ Q[1] = q
    BY <2>1
  <2> HIDE DEF P, Q
  <2>3. \A j, k1 \in 1..1 : ~(j < k1)
    OBVIOUS
  <2>4. History(stack, P, Q)
    BY <1>5, <1>7, <2>1, <2>2, <2>3 DEF History, Early
  <2> QED
    BY <2>4
<1>8. x.sum \in Nat /\ y.sum \in Nat /\ Sides(f, x, y) /\ Sides(f, y, x)
  BY <1>2, <1>4 DEF Sumset, Sides
<1>9. \E P, Q : History(stack, P, Q)
  <2>1. x.sum <= y.sum \/ y.sum <= x.sum
    BY <1>8
  <2> QED
    BY <1>7, <1>8, <2>1
<1> QED
  BY <1>5, <1>6, <1>9 DEF SearchInv

LEMMA SearchStep ==
  ASSUME SearchInv, [Search!Next]_(Search!vars)
  PROVE  SearchInv'
<1>1. CASE Search!Extend
  BY <1>1, ExtendInv
<1>2. CASE Search!Backtrack
  BY <1>2, PopInv DEF Search!Backtrack
<1>3. CASE Search!Leaf
  BY <1>3, PopInv DEF Search!Leaf
<1>4. CASE UNCHANGED Search!vars
  BY <1>4 DEF Search!vars, SearchInv
<1> QED
  BY <1>1, <1>2, <1>3, <1>4 DEF Search!Next

\* The array of MAX_D * MAX_D + 1 frames (nonrecursive/main.c lines 9 and 18)
\* is never full, for every d, every size of the arrays and every input; in
\* fact 3 * d + 1 frames are enough.
THEOREM StackAlwaysFits ==
  Spec => []StackFits
<1> DEFINE Inv == program = "search" => SearchInv
<1>1. Init => Inv
  BY SearchInit DEF Init
<1>2. Inv /\ [Next]_vars => Inv'
  <2> SUFFICES ASSUME Inv, [Next]_vars, program' = "search"
               PROVE  SearchInv'
    OBVIOUS
  <2>1. program = "search" /\ [Search!Next]_(Search!vars)
    BY DEF Next, vars, search, Search!vars
  <2> QED
    BY <2>1, SearchStep
<1>3. Inv => StackFits
  BY SearchFits DEF StackFits
<1> HIDE DEF Inv
<1> QED
  BY <1>1, <1>2, <1>3, PTL DEF Spec

-----------------------------------------------------------------------------
(* Binders                                                                 *)

\* What the proof needs of a state: every binder holds a cell or none.
Held ==
  /\ content \in [Binder -> Binders!Cell \cup {Binders!nullptr}]
  /\ cell = [c \in Binders!Cell |-> cell[c]]

\* Module Binder counts as FiniteSets does.
LEMMA CountsAlike ==
  \A S : Binders!Cardinality(S) = Cardinality(S)
BY DEF Binders!Cardinality, Cardinality

Fresh == CHOOSE d \in Binders!Cell : \A x \in Binder : content[x] # d

\* There is a cell more than binders, so that one is free to copy into.
LEMMA FreshCell ==
  ASSUME IsFiniteSet(Binder), Held
  PROVE  Fresh \in Binders!Cell /\ \A x \in Binder : content[x] # Fresh
<1> DEFINE used == {content[x] : x \in Binder}
           n == Cardinality(Binder)
<1>1. n \in Nat
  BY FS_CardinalityType
<1>2. IsFiniteSet(used) /\ Cardinality(used) <= n
  <2> DEFINE f == [x \in Binder |-> content[x]]
  <2>1. f \in Surjection(Binder, used)
    BY DEF Surjection
  <2> QED BY <2>1, FS_Surjection
<1>3. IsFiniteSet(Binders!Cell) /\ Cardinality(Binders!Cell) = n + 1
  <2>1. 1 \in Int /\ n + 1 \in Int /\ ~(1 > n + 1)
    BY <1>1
  <2> QED BY <1>1, <2>1, FS_Interval, CountsAlike DEF Binders!Cell
<1>4. \E d \in Binders!Cell : d \notin used
  <2> SUFFICES ASSUME Binders!Cell \subseteq used PROVE FALSE
    OBVIOUS
  <2>1. Cardinality(Binders!Cell) <= Cardinality(used)
    BY <1>2, FS_Subset
  <2>2. Cardinality(used) \in Nat
    BY <1>2, FS_CardinalityType
  <2> QED BY <1>1, <1>2, <1>3, <2>1, <2>2
<1>5. \E d \in Binders!Cell : \A x \in Binder : content[x] # d
  BY <1>4
<1> QED BY <1>5 DEF Fresh

\* A binder that shares its cell has a use count of two or more.
LEMMA SharersAreCounted ==
  ASSUME IsFiniteSet(Binder), NEW b \in Binder, NEW x \in Binder, x # b,
         content[b] # Binders!nullptr, content[x] = content[b]
  PROVE  Binders!use_count(b) \in Nat /\ Binders!use_count(b) > 1
<1> DEFINE sharing == {y \in Binder : content[y] = content[b]}
<1>1. IsFiniteSet(sharing)
  BY FS_Subset
<1>2. {b, x} \subseteq sharing /\ IsFiniteSet({b, x})
  BY FS_Subset
<1>3. Cardinality({b, x}) = 2
  <2>1. Cardinality({b}) = 1 /\ IsFiniteSet({b})
    BY FS_Singleton
  <2>2. {b, x} = {b} \cup {x} /\ x \notin {b}
    OBVIOUS
  <2>3. Cardinality({b} \cup {x}) = Cardinality({b}) + 1
    <3> DEFINE one == {b}
    <3>1. IsFiniteSet(one) /\ x \notin one
      BY <2>1, <2>2
    <3> HIDE DEF one
    <3>2. Cardinality(one \cup {x}) = Cardinality(one) + 1
      BY ONLY <3>1, FS_AddElement
    <3> QED BY <3>2 DEF one
  <2>4. 1 + 1 = 2
    OBVIOUS
  <2> QED BY <2>1, <2>2, <2>3, <2>4
<1>4. Cardinality(sharing) >= 2 /\ Cardinality(sharing) \in Nat
  BY <1>1, <1>2, <1>3, FS_Subset, FS_CardinalityType
<1>5. Binders!use_count(b) = Cardinality(sharing)
  BY CountsAlike DEF Binders!use_count
<1> HIDE DEF sharing
<1> QED BY <1>4, <1>5

\* What the binder x shows, if it holds the same cell and the cell keeps its
\* value, is the same after a step.
LEMMA SameView ==
  ASSUME NEW x, content'[x] = content[x],
         content[x] # Binders!nullptr => cell'[content[x]] = cell[content[x]]
  PROVE  Binders!Of(x)' = Binders!Of(x)
BY DEF Binders!Of

\* The step changes at most what binder b shows.
Only(b) == \A x \in Binder \ {b} : Binders!Of(x)' = Binders!Of(x)

\* Freeing what nobody holds changes no view.
LEMMA CollectKeeps ==
  ASSUME Held, NEW cells,
         NEW contents \in [Binder -> Binders!Cell \cup {Binders!nullptr}],
         NEW b \in Binder, Binders!Collect(contents, cells),
         \A x \in Binder \ {b} :
           /\ contents[x] = content[x]
           /\ content[x] # Binders!nullptr =>
                cells[content[x]] = cell[content[x]]
  PROVE  Held' /\ Only(b)
<1>1. content' = contents
  BY DEF Binders!Collect
<1>2. \A c \in Binders!Cell :
        c \in {contents[x] : x \in Binder} => cell'[c] = cells[c]
  BY DEF Binders!Collect
<1>3. Held'
  <2>1. cell' = [c \in Binders!Cell |-> cell'[c]]
    BY DEF Binders!Collect
  <2> QED BY <1>1, <2>1 DEF Held, Binders!Cell, Binders!nullptr
<1>4. ASSUME NEW x \in Binder \ {b}
      PROVE  Binders!Of(x)' = Binders!Of(x)
  <2>1. content'[x] = content[x]
    BY <1>1
  <2>2. content[x] # Binders!nullptr => content[x] \in Binders!Cell
    BY DEF Held
  <2>3. content[x] # Binders!nullptr => cell'[content[x]] = cell[content[x]]
    BY <1>1, <1>2, <2>1, <2>2
  <2> QED BY <2>1, <2>3, SameView
<1> QED BY <1>3, <1>4 DEF Only

\* The rule of copying: who stores into a cell that another binder holds has
\* copied it first.
LEMMA StoreKeeps ==
  ASSUME IsFiniteSet(Binder), Held, NEW b \in Binder, NEW copied \in BOOLEAN,
         NEW new, Binders!Store(b, copied, new),
         Binders!use_count(b) > 1 => copied
  PROVE  Held' /\ Only(b)
<1> DEFINE c == IF copied \/ content[b] = Binders!nullptr
                THEN Fresh ELSE content[b]
           contents == [content EXCEPT ![b] = c]
           cells == [cell EXCEPT ![c] = new]
<1>1. Binders!Collect(contents, cells)
  BY DEF Binders!Store, Fresh
<1>2. c \in Binders!Cell
  BY FreshCell DEF Held
<1>3. contents \in [Binder -> Binders!Cell \cup {Binders!nullptr}]
  BY <1>2 DEF Held
<1>4. ASSUME NEW x \in Binder \ {b}, content[x] # Binders!nullptr
      PROVE  c # content[x]
  <2>1. CASE copied \/ content[b] = Binders!nullptr
    BY <2>1, FreshCell
  <2>2. CASE ~copied /\ content[b] # Binders!nullptr
    <3>1. content[x] # content[b]
      BY <2>2, SharersAreCounted
    <3> QED BY <2>2, <3>1
  <2> QED BY <2>1, <2>2
<1>5. \A x \in Binder \ {b} :
        /\ contents[x] = content[x]
        /\ content[x] # Binders!nullptr => cells[content[x]] = cell[content[x]]
  BY <1>4 DEF Held
<1> HIDE DEF c, contents, cells
<1> QED BY <1>1, <1>3, <1>5, CollectKeeps

LEMMA InsertKeeps ==
  ASSUME IsFiniteSet(Binder), Held, NEW b \in Binder, NEW k, NEW place, NEW v,
         Binders!Insert(b, k, place, v)
  PROVE  Held' /\ Only(b)
<1> DEFINE shared == Binders!use_count(b) > 1
<1>1. \/ \E new : Binders!Store(b, shared, new)
      \/ Binders!use_count(b) = 1 /\ \E new : Binders!Store(b, FALSE, new)
  BY DEF Binders!Insert
<1>2. shared \in BOOLEAN
  OBVIOUS
<1>3. ASSUME NEW new, Binders!Store(b, shared, new)
      PROVE  Held' /\ Only(b)
  <2>1. Binders!use_count(b) > 1 => shared
    OBVIOUS
  <2> HIDE DEF shared
  <2> QED BY <1>2, <1>3, <2>1, StoreKeeps
<1>4. ASSUME Binders!use_count(b) = 1, NEW new, Binders!Store(b, FALSE, new)
      PROVE  Held' /\ Only(b)
  <2>1. ~(Binders!use_count(b) > 1)
    BY <1>4
  <2> QED BY <1>4, <2>1, StoreKeeps
<1> HIDE DEF shared
<1> QED BY <1>1, <1>3, <1>4

\* The call's own pointer makes three of two.
LEMMA EraseKeeps ==
  ASSUME IsFiniteSet(Binder), Held, NEW b \in Binder, NEW k,
         Binders!Erase(b, k)
  PROVE  Held' /\ Only(b)
<1>1. PICK new : Binders!Store(b, Binders!Shared(b), new)
  BY DEF Binders!Erase
<1>2. Binders!use_count(b) \in Nat
  <2>1. IsFiniteSet({x \in Binder : content[x] = content[b]})
    BY FS_Subset
  <2> QED BY <2>1, FS_CardinalityType, CountsAlike
           DEF Binders!use_count
<1>3. /\ Binders!Shared(b) \in BOOLEAN
      /\ Binders!use_count(b) > 1 => Binders!Shared(b)
  BY <1>2 DEF Binders!Shared
<1> QED BY <1>1, <1>3, StoreKeeps

\* A call that meets undefined behaviour has changed nothing that is shown.
LEMMA UndefinedKeeps ==
  ASSUME Held, NEW b, Binders!Undefined
  PROVE  Held' /\ Only(b)
BY DEF Binders!Undefined, Held, Only, Binders!Of, Binders!Cell, Binders!nullptr

LEMMA ReadKeeps ==
  ASSUME IsFiniteSet(Binder), Held, NEW b \in Binder, NEW k, Binders!read(b, k)
  PROVE  Held' /\ Only(b)
<1>1. CASE Binders!Undefined
  BY <1>1, UndefinedKeeps
<1>2. CASE ~Binders!Undefined
  <2> DEFINE c == IF Binders!use_count(b) > 1 THEN Fresh ELSE content[b]
             new == Binders!Copied(b, Binders!use_count(b) > 1)
  <2>1. /\ k \in new.iters
        /\ content' = [content EXCEPT ![b] = c]
        /\ cell' = [cell EXCEPT ![c] = new]
    BY <1>2 DEF Binders!read, Fresh
  <2>2. content[b] # Binders!nullptr
    <3> SUFFICES ASSUME content[b] = Binders!nullptr PROVE FALSE
      OBVIOUS
    <3>1. Binders!use_count(b) = 0 /\ Binders!Of(b) = Binders!Empty
      BY DEF Binders!use_count, Binders!Of
    <3>2. new = Binders!Empty
      BY <3>1 DEF Binders!Copied
    <3> QED BY <2>1, <3>2 DEF Binders!Empty
  <2>3. c \in Binders!Cell
    BY <2>2, FreshCell DEF Held
  <2>4. Held'
    <3>1. cell' = [d \in Binders!Cell |-> cell'[d]]
      BY <2>1 DEF Held
    <3>2. content' \in [Binder -> Binders!Cell \cup {Binders!nullptr}]
      BY <2>1, <2>3 DEF Held
    <3> QED BY <3>1, <3>2 DEF Held, Binders!Cell, Binders!nullptr
  <2>5. ASSUME NEW x \in Binder \ {b}
        PROVE  Binders!Of(x)' = Binders!Of(x)
    <3>1. content'[x] = content[x]
      BY <2>1 DEF Held
    <3>2. content[x] # c
      <4>1. CASE Binders!use_count(b) > 1
        BY <4>1, FreshCell
      <4>2. CASE ~(Binders!use_count(b) > 1)
        BY <2>2, <4>2, SharersAreCounted
      <4> QED BY <4>1, <4>2
    <3>3. cell'[content[x]] = cell[content[x]] \/ content[x] = Binders!nullptr
      <4>1. content[x] # Binders!nullptr => content[x] \in Binders!Cell
        BY DEF Held
      <4> HIDE DEF c, new
      <4> QED BY <2>1, <3>2, <4>1 DEF Held
    <3> QED BY <3>1, <3>3, SameView
  <2> QED BY <2>4, <2>5 DEF Only
<1> QED BY <1>1, <1>2

\* Every call on a binder changes at most what this binder shows.
LEMMA ChangeKeeps ==
  ASSUME IsFiniteSet(Binder), Held, NEW b \in Binder, Binders!Change(b)
  PROVE  Held' /\ Only(b)
<1>1. CASE \E k \in Key, v \in Value : Binders!insert_front(b, k, v)
  BY <1>1, InsertKeeps DEF Binders!insert_front
<1>2. CASE \E j, k \in Key, v \in Value : Binders!insert_after(b, j, k, v)
  BY <1>2, InsertKeeps, UndefinedKeeps DEF Binders!insert_after
<1>3. CASE Binders!remove_front(b)
  BY <1>3, EraseKeeps, UndefinedKeeps DEF Binders!remove_front
<1>4. CASE \E k \in Key : Binders!remove(b, k)
  BY <1>4, EraseKeeps, UndefinedKeeps DEF Binders!remove
<1>5. CASE \E k \in Key : Binders!read(b, k)
  BY <1>5, ReadKeeps
<1>6. CASE Binders!clear(b)
  <2>1. Binders!Collect([content EXCEPT ![b] = Binders!nullptr], cell)
    BY <1>6 DEF Binders!clear
  <2>2. /\ [content EXCEPT ![b] = Binders!nullptr]
              \in [Binder -> Binders!Cell \cup {Binders!nullptr}]
        /\ \A x \in Binder \ {b} :
             [content EXCEPT ![b] = Binders!nullptr][x] = content[x]
    BY DEF Held
  <2> QED BY <2>1, <2>2, CollectKeeps
<1> QED BY <1>1, <1>2, <1>3, <1>4, <1>5, <1>6 DEF Binders!Change

LEMMA AssignKeeps ==
  ASSUME Held, NEW a \in Binder, NEW b \in Binder, Binders!Assign(a, b)
  PROVE  Held' /\ Only(a)
<1> DEFINE contents == [content EXCEPT ![a] = content[b]]
<1>1. Binders!Collect(contents, cell)
  BY DEF Binders!Assign
<1>2. /\ contents \in [Binder -> Binders!Cell \cup {Binders!nullptr}]
      /\ \A x \in Binder \ {a} : contents[x] = content[x]
  BY DEF Held
<1> HIDE DEF contents
<1> QED BY <1>1, <1>2, CollectKeeps

LEMMA MoveKeeps ==
  ASSUME Held, NEW a \in Binder, NEW b \in Binder, Binders!Move(a, b)
  PROVE  Held'
<1>1. content' = [content EXCEPT ![a] = content[b], ![b] = Binders!nullptr]
  BY DEF Binders!Move, Binders!Collect
<1>2. content' \in [Binder -> Binders!Cell \cup {Binders!nullptr}]
  BY <1>1 DEF Held
<1>3. cell' = [c \in Binders!Cell |-> cell'[c]]
  BY DEF Binders!Move, Binders!Collect
<1> QED BY <1>2, <1>3 DEF Held, Binders!Cell, Binders!nullptr

LEMMA WriteKeeps ==
  ASSUME Held, NEW v, Binders!Write(v)
  PROVE  Held'
<1>1. content' = content
  BY DEF Binders!Write
<1>2. cell' = [c \in Binders!Cell |-> cell'[c]]
  BY Zenon DEF Binders!Write, Held
<1> QED BY <1>1, <1>2 DEF Held, Binders!Cell, Binders!nullptr

\* At most one view changes where a binder is named outside which none does.
LEMMA OneView ==
  ASSUME NEW b \in Binder, Only(b)
  PROVE  Binders!Cardinality(
           {x \in Binder : Binders!Of(x).notes # Binders!Of(x)'.notes}) <= 1
<1> DEFINE changed ==
             {x \in Binder : Binders!Of(x).notes # Binders!Of(x)'.notes}
<1>1. changed \subseteq {b}
  BY DEF Only
<1>2. IsFiniteSet({b}) /\ Cardinality({b}) = 1
  BY FS_Singleton
<1>3. Cardinality(changed) <= Cardinality({b})
  BY <1>1, <1>2, FS_Subset
<1> QED BY <1>2, <1>3, CountsAlike

LEMMA HeldInit ==
  Binders!Init => Held
BY DEF Binders!Init, Held

LEMMA HeldNext ==
  ASSUME IsFiniteSet(Binder)
  PROVE  Held /\ [Binders!Next]_(Binders!vars) => Held'
<1> SUFFICES ASSUME Held, [Binders!Next]_(Binders!vars) PROVE Held'
  OBVIOUS
<1>1. CASE \E b \in Binder : Binders!Change(b)
  BY <1>1, ChangeKeeps
<1>2. CASE \E v \in Value : Binders!Write(v)
  BY <1>2, WriteKeeps
<1>3. CASE \E a, b \in Binder : Binders!Assign(a, b)
  BY <1>3, AssignKeeps
<1>4. CASE \E a, b \in Binder : Binders!Move(a, b)
  BY <1>4, MoveKeeps
<1>5. CASE UNCHANGED Binders!vars
  BY <1>5 DEF Binders!vars, Held, Binders!Cell, Binders!nullptr
<1> QED BY <1>1, <1>2, <1>3, <1>4, <1>5 DEF Binders!Next

\* A call on one binder is never seen through another, for every number of
\* binders and every set of keys and values (binder.h lines 106-123, 154-167,
\* 190-203, 228-242 and 262-283).
THEOREM NoCallSeenElsewhere ==
  ASSUME IsFiniteSet(Binder)
  PROVE  Spec => BindersApart
<1> DEFINE Apart ==
      \/ Binders!Cardinality({b \in Binder :
           Binders!Of(b).notes # Binders!Of(b)'.notes}) <= 1
      \/ \E a, b \in Binder : Binders!Move(a, b)
      \/ \E v \in Value : Binders!Write(v)
<1>1. Held /\ [Binders!Next]_(Binders!vars) => [Apart]_(Binders!vars)
  <2> SUFFICES ASSUME Held, Binders!Next PROVE Apart
    OBVIOUS
  <2>1. CASE \E b \in Binder : Binders!Change(b)
    BY <2>1, ChangeKeeps, OneView
  <2>2. CASE \E a, b \in Binder : Binders!Assign(a, b)
    BY <2>2, AssignKeeps, OneView
  <2> QED BY <2>1, <2>2 DEF Binders!Next
<1>2. BindersApart <=> [][Apart]_(Binders!vars)
  BY DEF BindersApart, Binders!BindersApart
<1>3. [Next]_vars => [Binders!Next]_(Binders!vars)
  BY DEF Next, vars, binders, Binders!vars
<1>4. Init => Held
  BY HeldInit DEF Init
<1> HIDE DEF Apart
<1> QED BY <1>1, <1>2, <1>3, <1>4, HeldNext, PTL DEF Spec

-----------------------------------------------------------------------------
(* Counting in sequences                                                   *)

Places(v, x) == {j \in DOMAIN v : v[j] = x}
Count(v, x) == Cardinality(Places(v, x))
Same(a, b) == IF a = b THEN 1 ELSE 0

\* A count is a number, and 0 just when there is no such place.
LEMMA CountType ==
  ASSUME NEW T, NEW v \in Seq(T), NEW x
  PROVE  /\ IsFiniteSet(Places(v, x))
         /\ Count(v, x) \in Nat
         /\ Count(v, x) = 0 <=> \A j \in 1 .. Len(v) : v[j] # x
<1> DEFINE J == Places(v, x)
<1>1. DOMAIN v = 1 .. Len(v) /\ Len(v) \in Nat
  OBVIOUS
<1>2. IsFiniteSet(J)
  <2>1. IsFiniteSet(1 .. Len(v))
    BY <1>1, FS_Interval
  <2> QED
    BY <1>1, <2>1, FS_Subset DEF Places
<1>3. J = {} <=> \A j \in 1 .. Len(v) : v[j] # x
  BY <1>1 DEF Places
<1>4. Count(v, x) = Cardinality(J)
  BY DEF Count
<1> HIDE DEF J
<1>5. Cardinality(J) \in Nat /\ (Cardinality(J) = 0 <=> J = {})
  BY <1>2, FS_CardinalityType, FS_EmptySet
<1>6. Count(v, x) \in Nat
  BY <1>4, <1>5
<1>7. Count(v, x) = 0 <=> \A j \in 1 .. Len(v) : v[j] # x
  BY <1>3, <1>4, <1>5
<1> QED
  BY <1>2, <1>6, <1>7 DEF J

\* Adding k to a finite set, and taking it out.
LEMMA OneElement ==
  ASSUME NEW J, IsFiniteSet(J), NEW k
  PROVE  /\ Cardinality(J \cup {k})
                = Cardinality(J) + (IF k \in J THEN 0 ELSE 1)
         /\ Cardinality(J \ {k}) = Cardinality(J) - (IF k \in J THEN 1 ELSE 0)
         /\ Cardinality(J) \in Nat
<1>1. Cardinality(J) \in Nat
  BY FS_CardinalityType
<1>2. Cardinality(J \cup {k})
        = IF k \in J THEN Cardinality(J) ELSE Cardinality(J) + 1
  BY FS_AddElement
<1>3. Cardinality(J \ {k})
        = IF k \in J THEN Cardinality(J) - 1 ELSE Cardinality(J)
  BY FS_RemoveElement
<1> DEFINE c == Cardinality(J)
<1> HIDE DEF c
<1>4. CASE k \in J
  BY <1>1, <1>2, <1>3, <1>4 DEF Same, c
<1>5. CASE k \notin J
  BY <1>1, <1>2, <1>3, <1>5 DEF Same, c
<1> QED
  BY <1>4, <1>5

\* One more element at the end.
LEMMA CountAppend ==
  ASSUME NEW T, NEW v \in Seq(T), NEW y \in T, NEW x
  PROVE  Count(Append(v, y), x) = Count(v, x) + Same(y, x)
<1> DEFINE n == Len(v) + 1
           J == Places(v, x)
           K == Places(Append(v, y), x)
<1>1. /\ DOMAIN v = 1 .. Len(v) /\ Len(v) \in Nat
      /\ DOMAIN Append(v, y) = 1 .. n
      /\ Append(v, y)[n] = y
      /\ \A j \in 1 .. Len(v) : Append(v, y)[j] = v[j]
  OBVIOUS
<1>2. n \notin J
  BY <1>1 DEF Places
<1>3. CASE y = x
  <2>1. K = J \cup {n}
    BY <1>1, <1>3 DEF Places
  <2> HIDE DEF J, K, n
  <2>2. IsFiniteSet(J)
    BY CountType DEF J
  <2>3. Cardinality(K) = Cardinality(J) + (IF n \in J THEN 0 ELSE 1)
    BY <2>1, <2>2, OneElement
  <2> QED
    BY <1>2, <1>3, <2>3 DEF Count, Same, J, K
<1>4. CASE y # x
  <2>1. K = J
    BY <1>1, <1>4 DEF Places
  <2>2. Count(v, x) \in Nat
    BY CountType
  <2>3. Count(Append(v, y), x) = Count(v, x)
    BY <2>1 DEF Count
  <2> QED
    BY <1>4, <2>2, <2>3 DEF Same
<1> QED
  BY <1>3, <1>4

\* One element is replaced.
LEMMA CountChange ==
  ASSUME NEW T, NEW v \in Seq(T), NEW w \in Seq(T), NEW k \in 1 .. Len(v),
         NEW x, Len(w) = Len(v),
         \A j \in 1 .. Len(v) : j # k => w[j] = v[j]
  PROVE  Count(w, x) = Count(v, x) - Same(v[k], x) + Same(w[k], x)
<1> DEFINE y == w[k]
           J == Places(v, x)
           K == Places(w, x)
<1>2. /\ DOMAIN v = 1 .. Len(v) /\ DOMAIN w = 1 .. Len(v)
      /\ w[k] = y
  OBVIOUS
<1>3. IsFiniteSet(J)
  BY CountType
<1>4. k \in J <=> v[k] = x
  BY <1>2 DEF Places
<1>5. Count(w, x) = Cardinality(K) /\ Count(v, x) = Cardinality(J)
  BY DEF Count
<1>6. /\ y = x => K = J \cup {k}
      /\ y # x => K = J \ {k}
  <2> HIDE DEF y
  <2> QED
    BY <1>2 DEF Places
<1> DEFINE c == Cardinality(J)
<1>7. Cardinality(K) = c - Same(v[k], x) + Same(y, x)
  <2> HIDE DEF J, K, y
  <2>1. /\ Cardinality(J \cup {k}) = c + (IF k \in J THEN 0 ELSE 1)
        /\ Cardinality(J \ {k}) = c - (IF k \in J THEN 1 ELSE 0)
        /\ c \in Nat
    BY <1>3, OneElement
  <2> HIDE DEF c
  <2>4. /\ (IF k \in J THEN 1 ELSE 0) = Same(v[k], x)
        /\ (IF k \in J THEN 0 ELSE 1) = 1 - Same(v[k], x)
        /\ Same(v[k], x) \in Nat
    BY <1>4 DEF Same
  <2>2. CASE y = x
    <3>1. Cardinality(K) = c + (IF k \in J THEN 0 ELSE 1) /\ Same(y, x) = 1
      BY <1>6, <2>1, <2>2 DEF Same
    <3> QED
      BY <2>1, <2>4, <3>1
  <2>3. CASE y # x
    <3>1. Cardinality(K) = c - (IF k \in J THEN 1 ELSE 0) /\ Same(y, x) = 0
      BY <1>6, <2>1, <2>3 DEF Same
    <3> QED
      BY <2>1, <2>4, <3>1
  <2> QED
    BY <2>2, <2>3
<1> HIDE DEF J, K
<1> QED
  BY <1>5, <1>7

\* The last element of a sequence is dropped.
LEMMA CountFront ==
  ASSUME NEW T, NEW v \in Seq(T), Len(v) > 0, NEW x
  PROVE  /\ SubSeq(v, 1, Len(v) - 1) \in Seq(T)
         /\ Count(SubSeq(v, 1, Len(v) - 1), x)
              = Count(v, x) - Same(v[Len(v)], x)
<1> DEFINE n == Len(v)
           w == SubSeq(v, 1, n - 1)
           J == Places(v, x)
           K == Places(w, x)
<1>1. n \in Nat /\ n > 0 /\ DOMAIN v = 1 .. n
  OBVIOUS
<1>2. /\ w \in Seq(T) /\ DOMAIN w = 1 .. n - 1
      /\ \A j \in 1 .. n - 1 : w[j] = v[j]
  BY <1>1
<1>3. K = J \ {n}
  <2> HIDE DEF w
  <2> QED
    BY <1>1, <1>2 DEF Places
<1>4. IsFiniteSet(J)
  BY CountType
<1>5. n \in J <=> v[n] = x
  BY <1>1 DEF Places
<1> HIDE DEF J, K
<1>6. Cardinality(K) = Cardinality(J) - (IF n \in J THEN 1 ELSE 0)
  BY <1>3, <1>4, OneElement
<1>7. Count(w, x) = Cardinality(K) /\ Count(v, x) = Cardinality(J)
  BY DEF Count, J, K
<1>8. (IF n \in J THEN 1 ELSE 0) = Same(v[n], x)
  BY <1>5 DEF Same
<1> HIDE DEF w
<1>9. Count(w, x) = Count(v, x) - Same(v[n], x)
  BY <1>6, <1>7, <1>8
<1> QED
  BY <1>2, <1>9 DEF w

\* The element of the vector at p is taken out.
LEMMA Removed ==
  ASSUME NEW T, NEW v \in Seq(T), NEW p \in 1 .. Len(v), NEW x
  PROVE  /\ Gates!vvector_remove_elem(v, p) \in Seq(T)
         /\ Count(Gates!vvector_remove_elem(v, p), x)
              = Count(v, x) - Same(v[p], x)
<1> DEFINE n == Len(v)
           w == [v EXCEPT ![p] = v[n]]
           r == SubSeq(w, 1, Len(w) - 1)
<1>1. n \in Nat /\ n > 0 /\ v[n] \in T /\ DOMAIN v = 1 .. n
  OBVIOUS
<1>2. /\ w \in Seq(T) /\ Len(w) = n
      /\ Count(w, x) = Count(v, x) - Same(v[p], x) + Same(v[n], x)
  <2>1. w \in Seq(T) /\ Len(w) = n /\ w[p] = v[n]
    BY <1>1
  <2>2. \A j \in 1 .. Len(v) : j # p => w[j] = v[j]
    OBVIOUS
  <2> HIDE DEF w
  <2>3. Count(w, x) = Count(v, x) - Same(v[p], x) + Same(w[p], x)
    BY <2>1, <2>2, CountChange
  <2> QED
    BY <2>1, <2>3
<1>3. w[n] = v[n]
  BY <1>1
<1>4. Gates!vvector_remove_elem(v, p) = SubSeq(w, 1, n - 1)
  BY <1>1 DEF Gates!vvector_remove_elem
<1> HIDE DEF w
<1>5. r \in Seq(T) /\ Count(r, x) = Count(w, x) - Same(w[n], x)
  BY <1>1, <1>2, CountFront
<1>6. Same(v[n], x) \in Nat /\ Same(v[p], x) \in Nat /\ Count(v, x) \in Nat
  BY CountType DEF Same
<1>7. r = Gates!vvector_remove_elem(v, p)
  BY <1>2, <1>4
<1> HIDE DEF r, n
<1>8. Count(r, x) = Count(v, x) - Same(v[p], x)
  BY <1>2, <1>3, <1>5, <1>6
<1> QED
  BY <1>5, <1>7, <1>8

\* The first index of x in v, or 0.
FirstAt(v, x) ==
  LET I == {i \in 1 .. Len(v) : v[i] = x} IN IF I # {} THEN Gates!Min(I) ELSE 0

\* The search finds an element that is there.
LEMMA Found ==
  ASSUME NEW T, NEW v \in Seq(T), NEW x
  PROVE  /\ Count(v, x) = 0 => FirstAt(v, x) = 0
         /\ Count(v, x) # 0 => /\ FirstAt(v, x) \in 1 .. Len(v)
                               /\ v[FirstAt(v, x)] = x
<1> DEFINE I == {i \in 1 .. Len(v) : v[i] = x}
<1>1. Count(v, x) = 0 <=> I = {}
  BY CountType
<1>2. FirstAt(v, x) = IF I # {} THEN Gates!Min(I) ELSE 0
  BY DEF FirstAt
<1>3. I # {} => Gates!Min(I) \in I
  <2> SUFFICES ASSUME I # {} PROVE Gates!Min(I) \in I
    OBVIOUS
  <2>1. I \in SUBSET Nat
    OBVIOUS
  <2> HIDE DEF I
  <2>2. PICK m \in I : \A k \in I : m <= k
    <3>1. PICK i \in I : TRUE
      OBVIOUS
    <3> QED
      BY <2>1, <3>1, LeastNat
  <2> QED
    BY <2>2 DEF Gates!Min
<1> QED
  BY <1>1, <1>2, <1>3

-----------------------------------------------------------------------------
(* Disconnecting                                                           *)

Signals ==
    {Gates!Null, Gates!Signal} \cup {Gates!FromGate(h) : h \in Gates!Alive}
Ins == [Gates!Alive -> Seq(Signals)]
Outs == [Gates!Alive -> Seq(Gates!Alive)]

\* The signals are told apart by their type.
LEMMA SignalKinds ==
  /\ \A u : /\ Gates!FromGate(u).type = "g" /\ Gates!FromGate(u).object = u
            /\ Gates!FromGate(u) # Gates!Null
            /\ Gates!FromGate(u) # Gates!Signal
  /\ \A u, w : Gates!FromGate(u) = Gates!FromGate(w) => u = w
  /\ \A s \in Signals : /\ s.type = "g" => /\ s.object \in Gates!Alive
                                           /\ s = Gates!FromGate(s.object)
                        /\ s.type # "g" => s \in {Gates!Null, Gates!Signal}
BY DEF Gates!FromGate, Gates!Null, Gates!Signal, Signals

\* What the vectors of outputs hold after input k of g has been disconnected.
LEMMA InputDisconnected ==
  ASSUME NEW g \in Gates!Alive, NEW o \in Outs, input_signals \in Ins,
         NEW k \in 1 .. Len(input_signals[g])
  PROVE  /\ Gates!disconnect_input(o, g, k) \in Outs
         /\ (\A u \in Gates!Alive : input_signals[g][k] = Gates!FromGate(u)
                                => Count(o[u], g) # 0)
            => \A u \in Gates!Alive : \A x :
                 Count(Gates!disconnect_input(o, g, k)[u], x)
                   = Count(o[u], x)
                     - Same(<<input_signals[g][k], x>>,
                            <<Gates!FromGate(u), g>>)
<1> DEFINE sig == input_signals[g][k]
           u0 == sig.object
           p == FirstAt(o[u0], g)
           r == Gates!vvector_remove_elem(o[u0], p)
           d == Gates!disconnect_input(o, g, k)
<1>1. sig \in Signals
  BY DEF Ins
<1>2. \A u \in Gates!Alive : o[u] \in Seq(Gates!Alive)
  BY DEF Outs
<1>3. \A u \in Gates!Alive : \A x : Count(o[u], x) \in Nat
  BY <1>2, CountType
<1>4. CASE sig.type # "g"
  <2>1. d = o
    BY <1>4 DEF Gates!disconnect_input
  <2>2. \A u \in Gates!Alive : sig # Gates!FromGate(u)
    BY <1>4, SignalKinds
  <2> HIDE DEF sig, d
  <2>3. \A u \in Gates!Alive : \A x :
            Same(<<sig, x>>, <<Gates!FromGate(u), g>>) = 0
    BY <2>2 DEF Same
  <2>4. ASSUME NEW u \in Gates!Alive, NEW x
        PROVE  Count(d[u], x) = Count(o[u], x)
                                - Same(<<sig, x>>, <<Gates!FromGate(u), g>>)
    <3> DEFINE c == Count(o[u], x)
    <3>1. c \in Nat /\ Count(d[u], x) = c
      BY <1>3, <2>1
    <3> HIDE DEF c
    <3>2. Count(d[u], x) = c - Same(<<sig, x>>, <<Gates!FromGate(u), g>>)
      BY <2>3, <3>1
    <3> QED
      BY <3>2 DEF c
  <2> QED
    BY <2>1, <2>4 DEF sig, d
<1>5. CASE sig.type = "g"
  <2>1. u0 \in Gates!Alive /\ sig = Gates!FromGate(u0)
    BY <1>1, <1>5, SignalKinds
  <2>2. d = [o EXCEPT ![u0] = r]
    BY <1>5
      DEF Gates!disconnect_input, Gates!vvector_find, Gates!SelectInSeq,
          FirstAt
  <2>3. o[u0] \in Seq(Gates!Alive)
    BY <1>2, <2>1
  <2>4. r \in Seq(Gates!Alive)
    <3> HIDE DEF u0
    <3>1. CASE Count(o[u0], g) = 0
      <4>1. p = 0
        BY <2>3, <3>1, Found
      <4> HIDE DEF p
      <4>2. p \notin DOMAIN o[u0]
        BY <2>3, <4>1
      <4> QED
        BY <2>3, <4>2 DEF Gates!vvector_remove_elem
    <3>2. CASE Count(o[u0], g) # 0
      <4>1. p \in 1 .. Len(o[u0])
        BY <2>3, <3>2, Found
      <4> HIDE DEF p
      <4> QED
        BY <2>3, <4>1, Removed
    <3> QED
      BY <3>1, <3>2
  <2>5. d \in Outs
    <3> HIDE DEF r, u0, d
    <3> QED
      BY <2>1, <2>2, <2>4 DEF Outs
  <2>6. ASSUME Count(o[u0], g) # 0, NEW u \in Gates!Alive, NEW x
        PROVE  Count(d[u], x) = Count(o[u], x)
                                - Same(<<sig, x>>, <<Gates!FromGate(u), g>>)
    <3>1. p \in 1 .. Len(o[u0]) /\ o[u0][p] = g
      <4> HIDE DEF u0
      <4> QED
        BY <2>3, <2>6, Found
    <3>2. CASE u = u0
      <4>1. d[u] = r
        <5> HIDE DEF r
        <5> QED
          BY <2>1, <2>2, <3>2 DEF Outs
      <4>2. Count(r, x) = Count(o[u0], x) - Same(o[u0][p], x)
        <5> HIDE DEF p, u0
        <5> QED
          BY <2>3, <3>1, Removed
      <4>3. Same(o[u0][p], x) = Same(<<sig, x>>, <<Gates!FromGate(u), g>>)
        <5> HIDE DEF p, u0, sig
        <5> QED
          BY <2>1, <3>1, <3>2 DEF Same
      <4> HIDE DEF r, p, u0, sig, d
      <4> QED
        BY <3>2, <4>1, <4>2, <4>3
    <3>3. CASE u # u0
      <4>1. d[u] = o[u]
        <5> HIDE DEF r, u0, d
        <5> QED
          BY <2>2, <3>3 DEF Outs
      <4>2. sig # Gates!FromGate(u)
        <5> HIDE DEF sig, u0
        <5> QED
          BY <2>1, <3>3, SignalKinds
      <4> HIDE DEF sig, d
      <4>3. Same(<<sig, x>>, <<Gates!FromGate(u), g>>) = 0
        BY <4>2 DEF Same
      <4> DEFINE c == Count(o[u], x)
      <4>4. c \in Nat /\ Count(d[u], x) = c
        BY <1>3, <4>1
      <4> HIDE DEF c
      <4>5. Count(d[u], x) = c - Same(<<sig, x>>, <<Gates!FromGate(u), g>>)
        BY <4>3, <4>4
      <4> QED
        BY <4>5 DEF c
    <3> QED
      BY <3>2, <3>3
  <2> HIDE DEF d, sig, u0
  <2>7. (\A u \in Gates!Alive : sig = Gates!FromGate(u) => Count(o[u], g) # 0)
          => Count(o[u0], g) # 0
    BY <2>1
  <2> QED
    BY <2>5, <2>6, <2>7 DEF d, sig
<1> QED
  BY <1>4, <1>5

\* What the inputs hold after the output of g to h has been disconnected.
LEMMA OutputDisconnected ==
  ASSUME NEW g \in Gates!Alive, NEW h \in Gates!Alive, NEW i \in Ins
  PROVE  /\ Gates!disconnect_output(i, g, h) \in Ins
         /\ Count(i[h], Gates!FromGate(g)) # 0
            => \A u \in Gates!Alive : \A w :
                 Count(Gates!disconnect_output(i, g, h)[u], Gates!FromGate(w))
                   = Count(i[u], Gates!FromGate(w)) - Same(<<u, w>>, <<h, g>>)
<1> DEFINE p == FirstAt(i[h], Gates!FromGate(g))
           r == [i[h] EXCEPT ![p] = Gates!Null]
           d == Gates!disconnect_output(i, g, h)
<1>1. d = [i EXCEPT ![h] = r]
  BY DEF Gates!disconnect_output, Gates!SelectInSeq, FirstAt
<1>2. \A u \in Gates!Alive : i[u] \in Seq(Signals)
  BY DEF Ins
<1>3. Gates!Null \in Signals
  BY DEF Signals
<1>4. /\ r \in Seq(Signals) /\ Len(r) = Len(i[h])
      /\ \A j \in 1 .. Len(i[h]) : j # p => r[j] = i[h][j]
      /\ p \in 1 .. Len(i[h]) => r[p] = Gates!Null
  <2> DEFINE v == i[h]
  <2>1. v \in Seq(Signals)
    BY <1>2
  <2> HIDE DEF v, p
  <2>2. /\ [v EXCEPT ![p] = Gates!Null] \in Seq(Signals)
        /\ Len([v EXCEPT ![p] = Gates!Null]) = Len(v)
    <3> DEFINE e == [v EXCEPT ![p] = Gates!Null]
               n == Len(v)
    <3>1. n \in Nat /\ v \in [1 .. n -> Signals]
      BY <2>1
    <3>2. e \in [1 .. n -> Signals]
      <4> HIDE DEF n
      <4> QED
        BY <1>3, <3>1
    <3> HIDE DEF e, n
    <3>3. e \in Seq(Signals)
      BY <3>1, <3>2
    <3>4. Len(e) = n
      BY <3>1, <3>2, <3>3
    <3> QED
      BY <3>3, <3>4 DEF e, n
  <2>3. /\ \A j \in 1 .. Len(v) :
               j # p => [v EXCEPT ![p] = Gates!Null][j] = v[j]
        /\ p \in 1 .. Len(v) => [v EXCEPT ![p] = Gates!Null][p] = Gates!Null
    BY <2>1
  <2> QED
    BY <2>2, <2>3 DEF v
<1> HIDE DEF r, d
<1>5. d \in Ins
  BY <1>1, <1>4 DEF Ins
<1>6. /\ d[h] = r
      /\ \A u \in Gates!Alive : u # h => d[u] = i[u]
  BY <1>1 DEF Ins
<1>7. ASSUME Count(i[h], Gates!FromGate(g)) # 0, NEW u \in Gates!Alive, NEW w
      PROVE  Count(d[u], Gates!FromGate(w))
               = Count(i[u], Gates!FromGate(w)) - Same(<<u, w>>, <<h, g>>)
  <2> DEFINE c == Count(i[u], Gates!FromGate(w))
  <2>1. c \in Nat
    BY <1>2, CountType
  <2>2. CASE u # h
    <3>1. Count(d[u], Gates!FromGate(w)) = c /\ Same(<<u, w>>, <<h, g>>) = 0
      BY <1>6, <2>2 DEF Same
    <3> HIDE DEF c
    <3>2. Count(d[u], Gates!FromGate(w)) = c - Same(<<u, w>>, <<h, g>>)
      BY <2>1, <3>1
    <3> QED
      BY <3>2 DEF c
  <2>3. CASE u = h
    <3>1. p \in 1 .. Len(i[h]) /\ i[h][p] = Gates!FromGate(g)
      BY <1>2, <1>7, Found
    <3>2. Count(r, Gates!FromGate(w))
            = Count(i[h], Gates!FromGate(w)) - Same(i[h][p], Gates!FromGate(w))
              + Same(r[p], Gates!FromGate(w))
      <4> HIDE DEF p
      <4> QED
        BY <1>2, <1>4, <3>1, CountChange
    <3>3. Same(r[p], Gates!FromGate(w)) = 0
      BY <1>4, <3>1, SignalKinds DEF Same
    <3>4. Same(i[h][p], Gates!FromGate(w)) = Same(<<u, w>>, <<h, g>>)
      <4>1. Gates!FromGate(g) = Gates!FromGate(w) <=> g = w
        BY SignalKinds
      <4> HIDE DEF p
      <4> QED
        BY <2>3, <3>1, <4>1 DEF Same
    <3> DEFINE e == Same(<<u, w>>, <<h, g>>)
    <3>5. e \in Nat
      BY DEF Same
    <3>6. Count(d[u], Gates!FromGate(w)) = c - e
      <4>1. Count(d[u], Gates!FromGate(w)) = c - e + 0
        BY <1>6, <2>3, <3>2, <3>3, <3>4
      <4> HIDE DEF c, e
      <4> QED
        BY <2>1, <3>5, <4>1
    <3> QED
      BY <3>6
  <2> QED
    BY <2>2, <2>3
<1> QED
  BY <1>5, <1>7 DEF d

-----------------------------------------------------------------------------
(* The loops of nand_delete                                                *)

\* A nonempty set of numbers up to n has a greatest and a least element.
LEMMA Extremes ==
  ASSUME NEW n \in Nat, NEW U \in SUBSET (1 .. n), U # {}
  PROVE  /\ Gates!Max(U) \in U /\ \A k \in U : Gates!Max(U) >= k
         /\ Gates!Min(U) \in U /\ \A k \in U : Gates!Min(U) <= k
<1> DEFINE V == {j \in 0 .. n : n - j \in U}
<1>1. PICK i \in U : TRUE
  OBVIOUS
<1>2. PICK j \in V : \A l \in V : j <= l
  <2>1. n - i \in V /\ V \in SUBSET Nat
    OBVIOUS
  <2> HIDE DEF V
  <2> QED
    BY <2>1, LeastNat
<1>3. ASSUME NEW k \in U
      PROVE  n - j >= k
  <2>1. n - k \in V
    OBVIOUS
  <2>2. j <= n - k
    BY <1>2, <2>1
  <2>3. j \in Nat /\ k \in Nat
    OBVIOUS
  <2> QED
    BY <2>2, <2>3
<1>4. n - j \in U
  OBVIOUS
<1>5. Gates!Max(U) \in U /\ \A k \in U : Gates!Max(U) >= k
  BY <1>3, <1>4 DEF Gates!Max
<1>6. PICK m \in U : \A k \in U : m <= k
  <2>1. U \in SUBSET Nat
    OBVIOUS
  <2> QED
    BY <1>1, <2>1, LeastNat
<1>7. Gates!Min(U) \in U /\ \A k \in U : Gates!Min(U) <= k
  BY <1>6 DEF Gates!Min
<1> QED
  BY <1>5, <1>7

Inputs(g) == DOMAIN input_signals[g]

\* The vectors of outputs after the first loop.
AllInputsDisconnected(g) ==
  Gates!FoldLeft(LAMBDA o, k : Gates!disconnect_input(o, g, k),
           output_signals, [k \in Inputs(g) |-> k])

\* h[U] are the vectors after the inputs in U have been disconnected.
InputLoop(h, g) ==
  h = [U \in SUBSET DOMAIN [k \in Inputs(g) |-> k] |->
         IF U = {} THEN output_signals
         ELSE Gates!disconnect_input(h[U \ {Gates!Max(U)}], g,
                               [k \in Inputs(g) |-> k][Gates!Max(U)])]

\* The first loop of nand_delete, round by round.
LEMMA InputLoopIs ==
  ASSUME input_signals \in Ins, output_signals \in Outs, NEW g \in Gates!Alive
  PROVE  \E h :
           /\ AllInputsDisconnected(g) = h[Inputs(g)]
           /\ h[{}] = output_signals
           /\ \A U \in SUBSET Inputs(g) :
                /\ h[U] \in Outs
                /\ U # {}
                       => h[U]
                           = Gates!disconnect_input(h[U \ {Gates!Max(U)}], g,
                               Gates!Max(U))
<1> DEFINE S == Inputs(g)
           op == [x \in S \X Outs |-> Gates!disconnect_input(x[2], g, x[1])]
           pick == [U \in SUBSET S |-> Gates!Max(U)]
<1>1. S = 1 .. Len(input_signals[g]) /\ Len(input_signals[g]) \in Nat
  BY DEF Ins, Inputs
<1>13. IsFiniteSet(S)
  BY <1>1, FS_Interval
<1>2. op \in [S \X Outs -> Outs]
  <2>1. ASSUME NEW k \in S, NEW o \in Outs
        PROVE  Gates!disconnect_input(o, g, k) \in Outs
    BY <1>1, InputDisconnected
  <2> HIDE DEF S
  <2> QED
    BY <2>1
<1>3. \A U \in SUBSET S :
        U # {} => Gates!Max(U) \in U /\ pick[U] = Gates!Max(U)
  <2> SUFFICES ASSUME NEW U \in SUBSET S, U # {} PROVE Gates!Max(U) \in U
    OBVIOUS
  <2> HIDE DEF S
  <2> QED
    BY <1>1, Extremes
<1>4. Picks(pick, S)
  BY <1>3 DEF Picks
<1> HIDE DEF op, pick, S
<1>5. PICK f : /\ Folds(f, op, output_signals, pick, S)
               /\ \A U \in SUBSET S : f[U] \in Outs
  BY <1>2, <1>4, <1>13, TypedFold
<1>6. InputLoop(f, g)
  <2> DEFINE id == [k \in S |-> k]
             e(U) == IF U = {} THEN output_signals
                     ELSE Gates!disconnect_input(f[U \ {Gates!Max(U)}], g,
                         id[Gates!Max(U)])
  <2>1. ASSUME NEW U \in SUBSET S
        PROVE  f[U] = e(U)
    <3>1. CASE U = {}
      <4>1. f[{}] = output_signals
        BY <1>5, FoldEmpty
      <4> QED
        BY <3>1, <4>1
    <3>2. CASE U # {}
      <4> DEFINE m == Gates!Max(U)
      <4>1. m \in S /\ pick[U] = m /\ U \ {m} \in SUBSET S
        BY <1>3, <3>2
      <4>2. f[U] = op[<<m, f[U \ {m}]>>]
        BY <1>5, <3>2, <4>1, FoldAt
      <4>3. f[U \ {m}] \in Outs
        BY <1>5, <4>1
      <4> HIDE DEF m
      <4>4. op[<<m, f[U \ {m}]>>] = Gates!disconnect_input(f[U \ {m}], g, m)
        BY <4>1, <4>3 DEF op
      <4>5. id[m] = m
        BY <4>1
      <4> QED
        BY <3>2, <4>2, <4>4, <4>5 DEF m
    <3> QED
      BY <3>1, <3>2
  <2> HIDE DEF e
  <2>2. f = [U \in SUBSET S |-> f[U]]
    BY <1>5 DEF Folds
  <2>3. f = [U \in SUBSET S |-> e(U)]
    BY <2>1, <2>2
  <2>4. DOMAIN id = S
    OBVIOUS
  <2> HIDE DEF id
  <2>5. f = [U \in SUBSET DOMAIN id |-> e(U)]
    BY <2>3, <2>4
  <2> QED
    BY <2>5 DEF InputLoop, e, id, S
<1> DEFINE h == CHOOSE l : InputLoop(l, g)
<1>7. InputLoop(h, g)
  BY <1>6
<1>8. AllInputsDisconnected(g) = h[DOMAIN [k \in Inputs(g) |-> k]]
  BY DEF AllInputsDisconnected, Gates!FoldLeft, Gates!MapThenFoldSet, InputLoop
<1>9. AllInputsDisconnected(g) = h[S]
  BY <1>8 DEF S
<1> HIDE DEF h
<1>10. h[{}] = output_signals
  BY <1>7 DEF InputLoop
<1>11. ASSUME NEW U \in SUBSET S, U # {}
       PROVE  h[U]
                  = Gates!disconnect_input(h[U \ {Gates!Max(U)}], g,
                                           Gates!Max(U))
  <2> DEFINE id == [k \in S |-> k]
             e(V) == IF V = {} THEN output_signals
                     ELSE Gates!disconnect_input(h[V \ {Gates!Max(V)}], g,
                         id[Gates!Max(V)])
  <2>1. h = [V \in SUBSET DOMAIN id |-> e(V)]
    BY <1>7 DEF InputLoop, S
  <2>2. DOMAIN id = S
    OBVIOUS
  <2> HIDE DEF e, id
  <2>3. h[U] = e(U)
    BY <2>1, <2>2
  <2>4. id[Gates!Max(U)] = Gates!Max(U)
    BY <1>3, <1>11 DEF id
  <2> QED
    BY <1>11, <2>3, <2>4 DEF e
<1>12. \A U \in SUBSET S : h[U] \in Outs
  <2> DEFINE B == {U \in SUBSET S : h[U] \in Outs}
  <2>1. B \in SUBSET SUBSET S /\ {} \in B
    BY <1>10
  <2>2. ASSUME NEW U \in SUBSET S, U # {}, U \ {pick[U]} \in B
        PROVE  U \in B
    <3>1. Gates!Max(U) \in S /\ pick[U] = Gates!Max(U)
      BY <1>3, <2>2
    <3>2. h[U \ {Gates!Max(U)}] \in Outs
      BY <2>2, <3>1
    <3>3. Gates!Max(U) \in 1 .. Len(input_signals[g])
      BY <1>1, <3>1
    <3>4. Gates!disconnect_input(h[U \ {Gates!Max(U)}], g, Gates!Max(U))
              \in Outs
      BY <3>2, <3>3, InputDisconnected
    <3> QED
      BY <1>11, <2>2, <3>4
  <2> HIDE DEF B
  <2>3. B = SUBSET S
    BY <1>4, <1>13, <2>1, <2>2, PickInduction
  <2> QED
    BY <2>3 DEF B
<1> QED
  BY <1>9, <1>10, <1>11, <1>12 DEF S

\* The number of places from a to b where x is in v.
Within(v, a, b, x) == {j \in a .. b : v[j] = x}
Between(v, a, b, x) == Cardinality(Within(v, a, b, x))

\* A stretch of a sequence is shorter by its first or its last place.
LEMMA BetweenIs ==
  ASSUME NEW v, NEW a \in Nat, NEW b \in Nat, NEW x
  PROVE  /\ Between(v, a, b, x) \in Nat
         /\ a > b => Between(v, a, b, x) = 0
         /\ a <= b =>
              /\ Between(v, a, b, x) = Between(v, a + 1, b, x) + Same(v[a], x)
              /\ Between(v, a, b, x) = Between(v, a, b - 1, x) + Same(v[b], x)
<1> DEFINE J == Within(v, a, b, x)
           A == Within(v, a + 1, b, x)
           B == Within(v, a, b - 1, x)
<1>1. IsFiniteSet(J)
  <2>1. IsFiniteSet(a .. b) /\ J \subseteq a .. b
    BY FS_Interval DEF Within
  <2> QED
    BY <2>1, FS_Subset
<1>2. Between(v, a, b, x) \in Nat
  BY <1>1, FS_CardinalityType DEF Between
<1>3. ASSUME a > b
      PROVE  Between(v, a, b, x) = 0
  <2>1. J = {}
    BY <1>3 DEF Within
  <2> QED
    BY <2>1, FS_EmptySet DEF Between
<1>4. ASSUME a <= b
      PROVE  Between(v, a, b, x) = Between(v, a + 1, b, x) + Same(v[a], x)
  <2>1. A = J \ {a}
    BY DEF Within
  <2>2. a \in J <=> v[a] = x
    BY <1>4 DEF Within
  <2> HIDE DEF A, J
  <2>3. Cardinality(A) = Cardinality(J) - (IF a \in J THEN 1 ELSE 0)
    BY <1>1, <2>1, OneElement
  <2>4. Cardinality(J) \in Nat
    BY <1>1, FS_CardinalityType
  <2>5. Cardinality(J) = Cardinality(A) + Same(v[a], x)
    <3>1. CASE a \in J
      BY <2>2, <2>3, <2>4, <3>1 DEF Same
    <3>2. CASE a \notin J
      BY <2>2, <2>3, <2>4, <3>2 DEF Same
    <3> QED
      BY <3>1, <3>2
  <2> QED
    BY <2>5 DEF Between, A, J
<1>5. ASSUME a <= b
      PROVE  Between(v, a, b, x) = Between(v, a, b - 1, x) + Same(v[b], x)
  <2>1. B = J \ {b}
    BY DEF Within
  <2>2. b \in J <=> v[b] = x
    BY <1>5 DEF Within
  <2> HIDE DEF B, J
  <2>3. Cardinality(B) = Cardinality(J) - (IF b \in J THEN 1 ELSE 0)
    BY <1>1, <2>1, OneElement
  <2>4. Cardinality(J) \in Nat
    BY <1>1, FS_CardinalityType
  <2>5. Cardinality(J) = Cardinality(B) + Same(v[b], x)
    <3>1. CASE b \in J
      BY <2>2, <2>3, <2>4, <3>1 DEF Same
    <3>2. CASE b \notin J
      BY <2>2, <2>3, <2>4, <3>2 DEF Same
    <3> QED
      BY <3>1, <3>2
  <2> QED
    BY <2>5 DEF Between, B, J
<1> QED
  BY <1>2, <1>3, <1>4, <1>5

LEMMA BetweenAll ==
  ASSUME NEW T, NEW v \in Seq(T), NEW x
  PROVE  Count(v, x) = Between(v, 1, Len(v), x)
<1>1. DOMAIN v = 1 .. Len(v)
  OBVIOUS
<1> QED
  BY <1>1 DEF Count, Places, Between, Within

\* The two directions of every connection agree.
NandInv ==
  /\ input_signals \in Ins /\ output_signals \in Outs
  /\ \A u, w \in Gates!Alive :
       Count(output_signals[u], w) = Count(input_signals[w], Gates!FromGate(u))

\* After the first loop of nand_delete no vector lists g, and nothing else
\* has changed.
LEMMA InputsGone ==
  ASSUME NandInv, NEW g \in Gates!Alive, NEW o, o = AllInputsDisconnected(g)
  PROVE  /\ o \in Outs
         /\ \A u \in Gates!Alive :
              /\ Count(o[u], g) = 0
              /\ \A x : x # g => Count(o[u], x) = Count(output_signals[u], x)
<1> DEFINE v == input_signals[g]
           n == Len(v)
<1>1. v \in Seq(Signals) /\ n \in Nat /\ Inputs(g) = 1 .. n
  BY DEF NandInv, Ins, Inputs
<1>2. PICK h :
        /\ o = h[Inputs(g)]
        /\ h[{}] = output_signals
        /\ \A U \in SUBSET Inputs(g) :
             /\ h[U] \in Outs
             /\ U # {}
                    => h[U]
                        = Gates!disconnect_input(h[U \ {Gates!Max(U)}], g,
                            Gates!Max(U))
  BY InputLoopIs DEF NandInv
<1> DEFINE O(m) == h[1 .. m]
<1>3. O(0) = output_signals /\ O(n) = o
  <2>1. 1 .. 0 = {}
    OBVIOUS
  <2> QED
    BY <1>1, <1>2, <2>1
<1>4. ASSUME NEW m \in 1 .. n
      PROVE  O(m) = Gates!disconnect_input(O(m - 1), g, m)
  <2>1. /\ 1 .. m \in SUBSET Inputs(g) /\ 1 .. m # {}
        /\ (1 .. m) \ {m} = 1 .. m - 1
    BY <1>1
  <2>2. Gates!Max(1 .. m) = m
    <3>1. /\ Gates!Max(1 .. m) \in 1 .. m
          /\ \A k \in 1 .. m : Gates!Max(1 .. m) >= k
      <4>1. m \in Nat /\ 1 .. m \in SUBSET (1 .. m) /\ 1 .. m # {}
        BY <1>1, <2>1
      <4> DEFINE U == 1 .. m
      <4> HIDE DEF U
      <4>2. U \in SUBSET (1 .. m) /\ U # {}
        BY <4>1 DEF U
      <4>3. Gates!Max(U) \in U /\ \A k \in U : Gates!Max(U) >= k
        BY <4>1, <4>2, Extremes
      <4> QED
        BY <4>3 DEF U
    <3> QED
      BY <3>1
  <2> QED
    BY <1>2, <2>1, <2>2
<1>5. \A m \in 0 .. n : O(m) \in Outs
  <2> SUFFICES ASSUME NEW m \in 0 .. n PROVE 1 .. m \in SUBSET Inputs(g)
    BY <1>2
  <2> QED
    BY <1>1
<1> HIDE DEF O
<1> DEFINE P(m) == \A u \in Gates!Alive :
             /\ Count(O(m)[u], g) = Between(v, m + 1, n, Gates!FromGate(u))
             /\ \A x : x # g => Count(O(m)[u], x) = Count(output_signals[u], x)
<1>6. P(0)
  <2> SUFFICES ASSUME NEW u \in Gates!Alive
               PROVE  Count(output_signals[u], g)
                          = Between(v, 1, n, Gates!FromGate(u))
    BY <1>3
  <2> QED
    BY <1>1, BetweenAll DEF NandInv
<1>7. ASSUME NEW m \in 1 .. n, P(m - 1)
      PROVE  P(m)
  <2>1. O(m - 1) \in Outs
    BY <1>1, <1>5
  <2>2. m \in Nat /\ m <= n /\ (m - 1) + 1 = m
    BY <1>1
  <2>3. \A u \in Gates!Alive :
          /\ Between(v, m, n, Gates!FromGate(u))
               = Between(v, m + 1, n, Gates!FromGate(u))
                   + Same(v[m], Gates!FromGate(u))
          /\ Between(v, m + 1, n, Gates!FromGate(u)) \in Nat
    <3> HIDE DEF v, n
    <3> QED
      BY <1>1, <2>2, BetweenIs
  <2>4. \A u \in Gates!Alive :
            Count(O(m - 1)[u], g) = Between(v, m, n, Gates!FromGate(u))
    BY <1>7, <2>2
  <2>5. \A u \in Gates!Alive :
            v[m] = Gates!FromGate(u) => Count(O(m - 1)[u], g) # 0
    <3> SUFFICES ASSUME NEW u \in Gates!Alive, v[m] = Gates!FromGate(u)
                 PROVE  Count(O(m - 1)[u], g) # 0
      OBVIOUS
    <3>1. Same(v[m], Gates!FromGate(u)) = 1
      BY DEF Same
    <3> HIDE DEF v, n
    <3> QED
      BY <2>3, <2>4, <3>1
  <2>6. \A u \in Gates!Alive : \A x :
          Count(O(m)[u], x)
            = Count(O(m - 1)[u], x)
                - Same(<<v[m], x>>, <<Gates!FromGate(u), g>>)
    <3>1. input_signals \in Ins /\ m \in 1 .. Len(input_signals[g])
      BY DEF NandInv
    <3> QED
      BY <1>4, <2>1, <2>5, <3>1, InputDisconnected
  <2> SUFFICES ASSUME NEW u \in Gates!Alive
               PROVE  /\ Count(O(m)[u], g)
                             = Between(v, m + 1, n, Gates!FromGate(u))
                      /\ \A x : x # g => Count(O(m)[u], x)
                                           = Count(output_signals[u], x)
    OBVIOUS
  <2>7. Count(O(m)[u], g) = Between(v, m + 1, n, Gates!FromGate(u))
    <3>1. Same(<<v[m], g>>, <<Gates!FromGate(u), g>>)
              = Same(v[m], Gates!FromGate(u))
      BY DEF Same
    <3>2. Same(v[m], Gates!FromGate(u)) \in Nat
      BY DEF Same
    <3> DEFINE a == Between(v, m + 1, n, Gates!FromGate(u))
               b == Same(v[m], Gates!FromGate(u))
    <3>3. Count(O(m)[u], g) = (a + b) - b
      BY <2>3, <2>4, <2>6, <3>1
    <3>4. a \in Nat /\ b \in Nat
      BY <2>3, <3>2
    <3> HIDE DEF a, b
    <3>5. Count(O(m)[u], g) = a
      BY <3>3, <3>4
    <3> QED
      BY <3>5 DEF a
  <2>8. ASSUME NEW x, x # g
        PROVE  Count(O(m)[u], x) = Count(output_signals[u], x)
    <3>1. Same(<<v[m], x>>, <<Gates!FromGate(u), g>>) = 0
      BY <2>8 DEF Same
    <3>2. Count(O(m - 1)[u], x) = Count(output_signals[u], x)
      BY <1>7, <2>8
    <3> DEFINE c == Count(output_signals[u], x)
    <3>3. c \in Nat
      BY CountType DEF NandInv, Outs
    <3>4. Count(O(m)[u], x) = c - 0
      BY <2>6, <3>1, <3>2
    <3> HIDE DEF c
    <3>5. Count(O(m)[u], x) = c
      BY <3>3, <3>4
    <3> QED
      BY <3>5 DEF c
  <2> QED
    BY <2>7, <2>8
<1>8. P(n)
  <2> DEFINE B == {m \in 0 .. n : ~P(m)}
  <2> HIDE DEF P
  <2> SUFFICES ASSUME B # {} PROVE FALSE
    BY <1>1
  <2>1. PICK m \in B : \A k \in B : m <= k
    <3>1. PICK k \in B : TRUE
      OBVIOUS
    <3>2. B \in SUBSET Nat
      OBVIOUS
    <3> HIDE DEF B
    <3> QED
      BY <3>1, <3>2, LeastNat
  <2>2. m \in 0 .. n /\ ~P(m) /\ m # 0
    BY <1>6
  <2>3. m \in 1 .. n /\ m - 1 \in 0 .. n
    <3> HIDE DEF n
    <3> QED
      BY <1>1, <2>2
  <2>4. m - 1 \notin B
    <3> HIDE DEF B, n
    <3> QED
      BY <1>1, <2>1, <2>3
  <2> QED
    BY <1>7, <2>2, <2>3, <2>4
<1>9. \A u \in Gates!Alive : Between(v, n + 1, n, Gates!FromGate(u)) = 0
  <2> HIDE DEF v, n
  <2> QED
    BY <1>1, BetweenIs
<1>10. o \in Outs
  BY <1>1, <1>3, <1>5
<1>11. ASSUME NEW u \in Gates!Alive
       PROVE  /\ Count(o[u], g) = 0
              /\ \A x : x # g => Count(o[u], x) = Count(output_signals[u], x)
  <2> HIDE DEF v, n
  <2> QED
    BY <1>3, <1>8, <1>9
<1> QED
  BY <1>10, <1>11

\* The inputs after the second loop, over the vector w, from the inputs own.
AllOutputsDisconnected(g, w, own) ==
  Gates!FoldRight(LAMBDA h, i : Gates!disconnect_output(i, g, h), w, own)

OutputLoop(l, g, w, own) ==
  l = [U \in SUBSET DOMAIN w |->
         IF U = {} THEN own
         ELSE Gates!disconnect_output(l[U \ {Gates!Min(U)}], g,
             w[Gates!Min(U)])]

\* The second loop of nand_delete, round by round.
LEMMA OutputLoopIs ==
  ASSUME NEW g \in Gates!Alive, NEW w \in Seq(Gates!Alive), NEW own \in Ins
  PROVE  \E l :
           /\ AllOutputsDisconnected(g, w, own) = l[DOMAIN w]
           /\ l[{}] = own
           /\ \A U \in SUBSET DOMAIN w :
                /\ l[U] \in Ins
                /\ U # {}
                       => l[U]
                           = Gates!disconnect_output(l[U \ {Gates!Min(U)}], g,
                                                      w[Gates!Min(U)])
<1> DEFINE S == DOMAIN w
           op == [x \in S \X Ins |-> Gates!disconnect_output(x[2], g, w[x[1]])]
           pick == [U \in SUBSET S |-> Gates!Min(U)]
<1>1. S = 1 .. Len(w) /\ Len(w) \in Nat /\ \A k \in S : w[k] \in Gates!Alive
  OBVIOUS
<1>2. IsFiniteSet(S)
  BY <1>1, FS_Interval
<1>3. \A k \in S, i \in Ins : Gates!disconnect_output(i, g, w[k]) \in Ins
  BY <1>1, OutputDisconnected
<1>4. op \in [S \X Ins -> Ins]
  <2> HIDE DEF S
  <2> QED
    BY <1>3
<1>5. \A U \in SUBSET S :
        U # {} => Gates!Min(U) \in U /\ pick[U] = Gates!Min(U)
  <2> SUFFICES ASSUME NEW U \in SUBSET S, U # {} PROVE Gates!Min(U) \in U
    OBVIOUS
  <2> HIDE DEF S
  <2> QED
    BY <1>1, Extremes
<1>6. Picks(pick, S)
  BY <1>5 DEF Picks
<1> HIDE DEF op, pick, S
<1>7. PICK f : Folds(f, op, own, pick, S) /\ \A U \in SUBSET S : f[U] \in Ins
  BY <1>2, <1>4, <1>6, TypedFold
<1>8. OutputLoop(f, g, w, own)
  <2> DEFINE e(U) == IF U = {} THEN own
                     ELSE Gates!disconnect_output(f[U \ {Gates!Min(U)}], g,
                         w[Gates!Min(U)])
  <2>1. ASSUME NEW U \in SUBSET S
        PROVE  f[U] = e(U)
    <3>1. CASE U = {}
      <4>1. f[{}] = own
        BY <1>7, FoldEmpty
      <4> QED
        BY <3>1, <4>1
    <3>2. CASE U # {}
      <4> DEFINE m == Gates!Min(U)
      <4>1. m \in S /\ pick[U] = m /\ U \ {m} \in SUBSET S
        BY <1>5, <3>2
      <4>2. f[U] = op[<<m, f[U \ {m}]>>]
        BY <1>7, <3>2, <4>1, FoldAt
      <4>3. f[U \ {m}] \in Ins
        BY <1>7, <4>1
      <4> HIDE DEF m
      <4>4. op[<<m, f[U \ {m}]>>]
                = Gates!disconnect_output(f[U \ {m}], g, w[m])
        BY <4>1, <4>3 DEF op
      <4> QED
        BY <3>2, <4>2, <4>4 DEF m
    <3> QED
      BY <3>1, <3>2
  <2> HIDE DEF e
  <2>2. f = [U \in SUBSET S |-> f[U]]
    BY <1>7 DEF Folds
  <2>3. f = [U \in SUBSET S |-> e(U)]
    BY <2>1, <2>2
  <2> QED
    BY <2>3 DEF OutputLoop, e, S
<1> DEFINE l == CHOOSE k : OutputLoop(k, g, w, own)
<1>9. OutputLoop(l, g, w, own)
  BY <1>8
<1>10. AllOutputsDisconnected(g, w, own) = l[S]
  BY DEF AllOutputsDisconnected, Gates!FoldRight, Gates!MapThenFoldSet,
         OutputLoop, S
<1> HIDE DEF l
<1>11. l[{}] = own
  BY <1>9 DEF OutputLoop
<1>12. ASSUME NEW U \in SUBSET S, U # {}
       PROVE  l[U]
                  = Gates!disconnect_output(l[U \ {Gates!Min(U)}], g,
                      w[Gates!Min(U)])
  BY <1>9, <1>12 DEF OutputLoop, S
<1>13. \A U \in SUBSET S : l[U] \in Ins
  <2> DEFINE B == {U \in SUBSET S : l[U] \in Ins}
  <2>1. B \in SUBSET SUBSET S /\ {} \in B
    BY <1>11
  <2>2. ASSUME NEW U \in SUBSET S, U # {}, U \ {pick[U]} \in B
        PROVE  U \in B
    <3>1. Gates!Min(U) \in S /\ pick[U] = Gates!Min(U)
      BY <1>5, <2>2
    <3>2. l[U \ {Gates!Min(U)}] \in Ins
      BY <2>2, <3>1
    <3>3. Gates!disconnect_output(l[U \ {Gates!Min(U)}], g, w[Gates!Min(U)])
              \in Ins
      BY <1>3, <3>1, <3>2
    <3> QED
      BY <1>12, <2>2, <3>3
  <2> HIDE DEF B
  <2>3. B = SUBSET S
    BY <1>2, <1>6, <2>1, <2>2, PickInduction
  <2> QED
    BY <2>3 DEF B
<1> QED
  BY <1>10, <1>11, <1>12, <1>13 DEF S

\* After the second loop of nand_delete, when the inputs come from g as often
\* as w lists their gates, no input comes from g, and the connections between
\* the other gates are as they were.
LEMMA OutputsGone ==
  ASSUME NEW g \in Gates!Alive, NEW w \in Seq(Gates!Alive), NEW own \in Ins,
         \A u \in Gates!Alive : Count(own[u], Gates!FromGate(g)) = Count(w, u),
         NEW i, i = AllOutputsDisconnected(g, w, own)
  PROVE  /\ i \in Ins
         /\ \A u \in Gates!Alive :
              /\ Count(i[u], Gates!FromGate(g)) = 0
              /\ \A x : x # g => Count(i[u], Gates!FromGate(x))
                                   = Count(own[u], Gates!FromGate(x))
<1> DEFINE n == Len(w)
<1>1. n \in Nat /\ DOMAIN w = 1 .. n
  OBVIOUS
<1>2. PICK l :
        /\ AllOutputsDisconnected(g, w, own) = l[DOMAIN w]
        /\ l[{}] = own
        /\ \A U \in SUBSET DOMAIN w :
             /\ l[U] \in Ins
             /\ U # {}
                    => l[U] = Gates!disconnect_output(l[U \ {Gates!Min(U)}], g,
                                                   w[Gates!Min(U)])
  BY OutputLoopIs
\* The m last rounds have been left out.
<1> DEFINE I(m) == l[m + 1 .. n]
<1>3. I(n) = own /\ I(0) = i
  <2>1. n + 1 .. n = {}
    BY <1>1
  <2> QED
    BY <1>1, <1>2, <2>1
<1>4. ASSUME NEW m \in 1 .. n
      PROVE  I(m - 1) = Gates!disconnect_output(I(m), g, w[m])
  <2>1. /\ m .. n \in SUBSET DOMAIN w /\ m .. n # {}
        /\ (m .. n) \ {m} = m + 1 .. n /\ (m - 1) + 1 = m
    BY <1>1
  <2>2. Gates!Min(m .. n) = m
    <3> DEFINE U == m .. n
    <3>1. U \in SUBSET (1 .. n) /\ U # {} /\ m \in U
      BY <1>1
    <3>2. \A k \in U : k >= m /\ k \in Int
      BY <1>1
    <3> HIDE DEF U, n
    <3>3. Gates!Min(U) \in U /\ \A k \in U : Gates!Min(U) <= k
      BY <1>1, <3>1, Extremes
    <3>4. Gates!Min(U) = m
      <4> DEFINE q == Gates!Min(U)
      <4>1. q >= m /\ q \in Int /\ q <= m
        BY <3>1, <3>2, <3>3
      <4> HIDE DEF q
      <4>2. q = m
        BY <4>1
      <4> QED
        BY <4>2 DEF q
    <3> QED
      BY <3>4 DEF U
  <2> QED
    BY <1>2, <2>1, <2>2
<1>5. \A m \in 0 .. n : I(m) \in Ins
  <2> SUFFICES ASSUME NEW m \in 0 .. n PROVE m + 1 .. n \in SUBSET DOMAIN w
    BY <1>2
  <2> QED
    BY <1>1
<1> HIDE DEF I
<1> DEFINE P(m) == \A u \in Gates!Alive :
             /\ Count(I(m)[u], Gates!FromGate(g)) = Between(w, 1, m, u)
             /\ \A x : x # g => Count(I(m)[u], Gates!FromGate(x))
                                  = Count(own[u], Gates!FromGate(x))
<1>6. P(n)
  <2> SUFFICES ASSUME NEW u \in Gates!Alive
               PROVE  Count(own[u], Gates!FromGate(g)) = Between(w, 1, n, u)
    BY <1>3
  <2> QED
    BY BetweenAll
<1>7. ASSUME NEW m \in 1 .. n, P(m)
      PROVE  P(m - 1)
  <2>1. I(m) \in Ins
    BY <1>1, <1>5
  <2>2. m \in Nat /\ 1 <= m /\ 1 \in Nat
    BY <1>1
  <2>3. \A u \in Gates!Alive :
          /\ Between(w, 1, m, u) = Between(w, 1, m - 1, u) + Same(w[m], u)
          /\ Between(w, 1, m - 1, u) \in Nat
    <3>1. m - 1 \in Nat
      BY <2>2
    <3> QED
      BY <2>2, <3>1, BetweenIs
  <2>4. \A u \in Gates!Alive :
            Count(I(m)[u], Gates!FromGate(g)) = Between(w, 1, m, u)
    BY <1>7
  <2>5. w[m] \in Gates!Alive /\ Count(I(m)[w[m]], Gates!FromGate(g)) # 0
    <3>1. w[m] \in Gates!Alive
      BY <1>1
    <3>2. Same(w[m], w[m]) = 1
      BY DEF Same
    <3> QED
      BY <2>3, <2>4, <3>1, <3>2
  <2>6. \A u \in Gates!Alive : \A x :
          Count(I(m - 1)[u], Gates!FromGate(x))
            = Count(I(m)[u], Gates!FromGate(x)) - Same(<<u, x>>, <<w[m], g>>)
    <3> DEFINE i0 == I(m)
               h0 == w[m]
               d0 == Gates!disconnect_output(i0, g, h0)
    <3>1. /\ i0 \in Ins /\ h0 \in Gates!Alive
          /\ Count(i0[h0], Gates!FromGate(g)) # 0
          /\ I(m - 1) = d0
      BY <1>4, <2>1, <2>5
    <3> HIDE DEF i0, h0
    <3>2. \A u \in Gates!Alive : \A x :
            Count(d0[u], Gates!FromGate(x))
              = Count(i0[u], Gates!FromGate(x)) - Same(<<u, x>>, <<h0, g>>)
      BY <3>1, OutputDisconnected
    <3> HIDE DEF d0
    <3> QED
      BY <3>1, <3>2 DEF i0, h0
  <2> SUFFICES ASSUME NEW u \in Gates!Alive
               PROVE  /\ Count(I(m - 1)[u], Gates!FromGate(g))
                           = Between(w, 1, m - 1, u)
                      /\ \A x : x # g => Count(I(m - 1)[u], Gates!FromGate(x))
                                           = Count(own[u], Gates!FromGate(x))
    OBVIOUS
  <2>7. Count(I(m - 1)[u], Gates!FromGate(g)) = Between(w, 1, m - 1, u)
    <3>1. Same(<<u, g>>, <<w[m], g>>) = Same(w[m], u)
      BY DEF Same
    <3> DEFINE a == Between(w, 1, m - 1, u)
               b == Same(w[m], u)
    <3>2. Count(I(m - 1)[u], Gates!FromGate(g)) = (a + b) - b
      BY <2>3, <2>4, <2>6, <3>1
    <3>3. a \in Nat /\ b \in Nat
      BY <2>3 DEF Same
    <3> HIDE DEF a, b
    <3>4. Count(I(m - 1)[u], Gates!FromGate(g)) = a
      BY <3>2, <3>3
    <3> QED
      BY <3>4 DEF a
  <2>8. ASSUME NEW x, x # g
        PROVE  Count(I(m - 1)[u], Gates!FromGate(x))
                   = Count(own[u], Gates!FromGate(x))
    <3>1. Same(<<u, x>>, <<w[m], g>>) = 0
      BY <2>8 DEF Same
    <3>2. Count(I(m)[u], Gates!FromGate(x)) = Count(own[u], Gates!FromGate(x))
      BY <1>7, <2>8
    <3> DEFINE c == Count(own[u], Gates!FromGate(x))
    <3>3. c \in Nat
      BY CountType DEF Ins
    <3>4. Count(I(m - 1)[u], Gates!FromGate(x)) = c - 0
      BY <2>6, <3>1, <3>2
    <3> HIDE DEF c
    <3>5. Count(I(m - 1)[u], Gates!FromGate(x)) = c
      BY <3>3, <3>4
    <3> QED
      BY <3>5 DEF c
  <2> QED
    BY <2>7, <2>8
<1>8. P(0)
  <2> DEFINE B == {k \in 0 .. n : ~P(n - k)}
  <2> HIDE DEF P
  <2> SUFFICES ASSUME B # {} PROVE FALSE
    <3>1. n \in 0 .. n /\ n - n = 0
      BY <1>1
    <3> HIDE DEF n
    <3> QED
      BY <3>1
  <2>1. PICK k \in B : \A j \in B : k <= j
    <3>1. PICK j \in B : TRUE
      OBVIOUS
    <3>2. B \in SUBSET Nat
      OBVIOUS
    <3> HIDE DEF B
    <3> QED
      BY <3>1, <3>2, LeastNat
  <2>2. k \in 0 .. n /\ ~P(n - k) /\ k # 0
    <3>1. n - 0 = n
      BY <1>1
    <3> HIDE DEF n
    <3> QED
      BY <1>6, <3>1
  <2> DEFINE m == n - k + 1
  <2>3. m \in 1 .. n /\ k - 1 \in 0 .. n /\ m = n - (k - 1) /\ m - 1 = n - k
    <3> HIDE DEF n
    <3> QED
      BY <1>1, <2>2
  <2>4. k - 1 \notin B
    <3> HIDE DEF B, n
    <3> QED
      BY <1>1, <2>1, <2>2
  <2>5. P(m)
    <3> HIDE DEF n, m
    <3> QED
      BY <2>3, <2>4
  <2> HIDE DEF n, m
  <2>6. P(m - 1)
    BY <1>7, <2>3, <2>5
  <2> QED
    BY <2>2, <2>3, <2>6
<1>9. \A u \in Gates!Alive : Between(w, 1, 0, u) = 0
  <2>1. 1 \in Nat /\ 0 \in Nat /\ 1 > 0
    OBVIOUS
  <2> QED
    BY <2>1, BetweenIs
<1>10. i \in Ins
  BY <1>1, <1>3, <1>5
<1>11. ASSUME NEW u \in Gates!Alive
       PROVE  /\ Count(i[u], Gates!FromGate(g)) = 0
              /\ \A x : x # g => Count(i[u], Gates!FromGate(x))
                                   = Count(own[u], Gates!FromGate(x))
  BY <1>3, <1>8, <1>9
<1> QED
  BY <1>10, <1>11

-----------------------------------------------------------------------------
(* The operations                                                          *)

\* The elements of a sequence may be known to lie in a smaller set.
LEMMA SeqOver ==
  ASSUME NEW T, NEW R, NEW v \in Seq(T), \A j \in 1 .. Len(v) : v[j] \in R
  PROVE  v \in Seq(R)
<1> DEFINE n == Len(v)
<1>1. n \in Nat /\ v = [j \in 1 .. n |-> v[j]]
  OBVIOUS
<1>2. v \in [1 .. n -> R]
  <2>1. \A j \in 1 .. n : v[j] \in R
    OBVIOUS
  <2> HIDE DEF n
  <2> QED
    BY <1>1, <2>1
<1> HIDE DEF n
<1> QED
  BY <1>1, <1>2

\* One input has been given a new signal, after the gate it comes from, if
\* any, has been told.
LEMMA Reconnected ==
  ASSUME NandInv, NEW g \in Gates!Alive, NEW k \in DOMAIN input_signals[g],
         NEW o \in Outs, NEW s \in Signals,
         \A u, w \in Gates!Alive :
           Count(o[u], w) = Count(output_signals[u], w)
                            + Same(<<s, w>>, <<Gates!FromGate(u), g>>),
         output_signals' = Gates!disconnect_input(o, g, k),
         input_signals' = [input_signals EXCEPT ![g][k] = s]
  PROVE  NandInv'
<1> DEFINE v == input_signals[g]
           e == [v EXCEPT ![k] = s]
<1>1. input_signals \in Ins /\ v \in Seq(Signals) /\ k \in 1 .. Len(v)
  BY DEF NandInv, Ins
<1>2. e \in Seq(Signals) /\ Len(e) = Len(v) /\ e[k] = s
      /\ \A j \in 1 .. Len(v) : j # k => e[j] = v[j]
  <2> HIDE DEF v
  <2> DEFINE n == Len(v)
  <2>1. n \in Nat /\ v \in [1 .. n -> Signals]
    BY <1>1
  <2>2. e \in [1 .. n -> Signals]
    <3> HIDE DEF n
    <3> QED
      BY <2>1
  <2>3. e[k] = s /\ \A j \in 1 .. n : j # k => e[j] = v[j]
    BY <1>1, <2>1
  <2> HIDE DEF e, n
  <2>4. e \in Seq(Signals) /\ Len(e) = n
    BY <2>1, <2>2
  <2> QED
    BY <2>3, <2>4 DEF n
<1>3. input_signals' = [input_signals EXCEPT ![g] = e]
  OBVIOUS
<1> HIDE DEF e
<1>4. Gates!Alive' = Gates!Alive /\ Signals' = Signals /\ Ins' = Ins
      /\ Outs' = Outs
  <2>1. Gates!Alive' = Gates!Alive
    BY <1>3 DEF Gates!Alive
  <2> QED
    BY <2>1 DEF Signals, Ins, Outs, Gates!FromGate, Gates!Null, Gates!Signal
<1>5. input_signals' \in Ins
  BY <1>1, <1>2, <1>3 DEF Ins
<1>6. \A u \in Gates!Alive : v[k] = Gates!FromGate(u) => Count(o[u], g) # 0
  <2> SUFFICES ASSUME NEW u \in Gates!Alive, v[k] = Gates!FromGate(u)
               PROVE  Count(o[u], g) # 0
    OBVIOUS
  <2>1. Count(v, Gates!FromGate(u)) # 0 /\ Count(v, Gates!FromGate(u)) \in Nat
    BY <1>1, CountType
  <2>2. Count(output_signals[u], g) = Count(v, Gates!FromGate(u))
    BY DEF NandInv
  <2> DEFINE b == Same(<<s, g>>, <<Gates!FromGate(u), g>>)
             c == Count(v, Gates!FromGate(u))
  <2>3. b \in Nat /\ Count(o[u], g) = c + b
    BY <2>2 DEF Same
  <2> HIDE DEF b, c
  <2>4. c \in Nat /\ c # 0
    BY <2>1 DEF c
  <2> QED
    BY <2>3, <2>4
<1>7. /\ output_signals' \in Outs
      /\ \A u \in Gates!Alive : \A x :
           Count(output_signals'[u], x)
             = Count(o[u], x) - Same(<<v[k], x>>, <<Gates!FromGate(u), g>>)
  BY <1>1, <1>6, InputDisconnected
<1>8. ASSUME NEW u \in Gates!Alive, NEW w \in Gates!Alive
      PROVE  Count(output_signals'[u], w)
                 = Count(input_signals'[w], Gates!FromGate(u))
  <2> DEFINE a == Count(output_signals[u], w)
             b == Same(<<s, w>>, <<Gates!FromGate(u), g>>)
             c == Same(<<v[k], w>>, <<Gates!FromGate(u), g>>)
  <2>1. Count(output_signals'[u], w) = (a + b) - c
    BY <1>7
  <2>2. a = Count(input_signals[w], Gates!FromGate(u)) /\ a \in Nat
    <3>1. a = Count(input_signals[w], Gates!FromGate(u))
      BY DEF NandInv
    <3>2. output_signals[u] \in Seq(Gates!Alive)
      BY DEF NandInv, Outs
    <3> QED
      BY <3>1, <3>2, CountType
  <2>3. b \in Nat /\ c \in Nat
    BY DEF Same
  <2>4. CASE w = g
    <3>1. input_signals'[w] = e
      BY <1>1, <1>3, <2>4 DEF Ins
    <3>2. Count(e, Gates!FromGate(u))
            = Count(v, Gates!FromGate(u)) - Same(v[k], Gates!FromGate(u))
              + Same(e[k], Gates!FromGate(u))
      <4> HIDE DEF v
      <4> QED
        BY <1>1, <1>2, CountChange
    <3>3. c = Same(v[k], Gates!FromGate(u))
          /\ b = Same(e[k], Gates!FromGate(u))
      <4> HIDE DEF v
      <4> QED
        BY <1>2, <2>4 DEF Same
    <3>4. Count(v, Gates!FromGate(u)) = a
      BY <2>2, <2>4
    <3>5. Count(e, Gates!FromGate(u)) = a - c + b
      BY <3>2, <3>3, <3>4
    <3> HIDE DEF a, b, c, v
    <3>6. (a + b) - c = a - c + b
      BY <2>2, <2>3
    <3> QED
      BY <2>1, <3>1, <3>5, <3>6
  <2>5. CASE w # g
    <3>1. input_signals'[w] = input_signals[w]
      BY <1>1, <1>3, <2>5 DEF Ins
    <3>2. b = 0 /\ c = 0
      BY <2>5 DEF Same
    <3> HIDE DEF b, c
    <3>3. Count(output_signals'[u], w) = a
      <4> HIDE DEF a
      <4>1. (a + 0) - 0 = a
        BY <2>2
      <4> QED
        BY <2>1, <3>2, <4>1
    <3> QED
      BY <2>2, <3>1, <3>3
  <2> QED
    BY <2>4, <2>5
<1> QED
  BY <1>4, <1>5, <1>7, <1>8 DEF NandInv, Gates!FromGate

LEMMA ConnectSignalKeeps ==
  ASSUME NandInv, NEW g, NEW k, Gates!nand_connect_signal(g, k)
  PROVE  NandInv'
<1>1. g \in Gates!Alive /\ k \in DOMAIN input_signals[g]
      /\ Gates!Signal \in Signals
  BY DEF Gates!nand_connect_signal, Signals
<1>2. output_signals \in Outs
  BY DEF NandInv
<1>3. ASSUME NEW u \in Gates!Alive, NEW w \in Gates!Alive
      PROVE  Count(output_signals[u], w)
               = Count(output_signals[u], w)
                 + Same(<<Gates!Signal, w>>, <<Gates!FromGate(u), g>>)
  <2>1. Same(<<Gates!Signal, w>>, <<Gates!FromGate(u), g>>) = 0
    BY SignalKinds DEF Same
  <2> DEFINE c == Count(output_signals[u], w)
  <2>2. c \in Nat
    BY <1>2, CountType DEF Outs
  <2> HIDE DEF c
  <2>3. c = c + 0
    BY <2>2
  <2> QED
    BY <2>1, <2>3 DEF c
<1>4. /\ output_signals' = Gates!disconnect_input(output_signals, g, k)
      /\ input_signals' = [input_signals EXCEPT ![g][k] = Gates!Signal]
  BY DEF Gates!nand_connect_signal
<1> QED
  BY <1>1, <1>2, <1>3, <1>4, Reconnected

LEMMA ConnectNandKeeps ==
  ASSUME NandInv, NEW g_out, NEW g_in, NEW k,
             Gates!nand_connect_nand(g_out, g_in, k)
  PROVE  NandInv'
<1> DEFINE v == output_signals[g_out]
           a == Append(v, g_in)
           pushed == [output_signals EXCEPT ![g_out] = a]
<1>1. /\ g_out \in Gates!Alive /\ g_in \in Gates!Alive
      /\ k \in DOMAIN input_signals[g_in]
      /\ Gates!FromGate(g_out) \in Signals
  BY DEF Gates!nand_connect_nand, Signals
<1>2. \A u \in Gates!Alive : output_signals[u] \in Seq(Gates!Alive)
  BY DEF NandInv, Outs
<1>3. /\ a \in Seq(Gates!Alive)
      /\ \A w : Count(a, w) = Count(v, w) + Same(g_in, w)
  <2>1. v \in Seq(Gates!Alive)
    BY <1>1, <1>2
  <2> HIDE DEF v
  <2> QED
    BY <1>1, <2>1, CountAppend
<1> HIDE DEF a
<1>4. pushed \in Outs
  BY <1>1, <1>3 DEF NandInv, Outs
<1>5. ASSUME NEW u \in Gates!Alive, NEW w \in Gates!Alive
      PROVE  Count(pushed[u], w)
               = Count(output_signals[u], w)
                 + Same(<<Gates!FromGate(g_out), w>>,
                        <<Gates!FromGate(u), g_in>>)
  <2>1. CASE u = g_out
    <3>1. pushed[u] = a
      BY <2>1 DEF NandInv, Outs
    <3>2. Same(<<Gates!FromGate(g_out), w>>, <<Gates!FromGate(u), g_in>>)
              = Same(g_in, w)
      BY <2>1 DEF Same
    <3> HIDE DEF pushed
    <3> QED
      BY <1>3, <2>1, <3>1, <3>2
  <2>2. CASE u # g_out
    <3>1. pushed[u] = output_signals[u]
      BY <2>2 DEF NandInv, Outs
    <3>2. Same(<<Gates!FromGate(g_out), w>>, <<Gates!FromGate(u), g_in>>) = 0
      BY <2>2, SignalKinds DEF Same
    <3> DEFINE c == Count(output_signals[u], w)
    <3>3. c \in Nat
      BY <1>2, CountType
    <3> HIDE DEF c, pushed
    <3>4. c = c + 0
      BY <3>3
    <3> QED
      BY <3>1, <3>2, <3>4 DEF c
  <2> QED
    BY <2>1, <2>2
<1>6. /\ output_signals' = Gates!disconnect_input(pushed, g_in, k)
      /\ input_signals'
             = [input_signals EXCEPT ![g_in][k] = Gates!FromGate(g_out)]
  BY DEF Gates!nand_connect_nand, a
<1> HIDE DEF pushed
<1> QED
  BY <1>1, <1>4, <1>5, <1>6, Reconnected

\* A new gate is connected to nothing, and nothing is connected to it.
LEMMA NewKeeps ==
  ASSUME Arity \in [Gate -> SUBSET Nat], NandInv, NEW g \in Gate,
             Gates!nand_new(g)
  PROVE  NandInv'
<1>1. g \notin Gates!Alive
  BY DEF Gates!nand_new
<1>2. PICK n \in Nat :
        input_signals'
            = Gates!With(input_signals, g, [k \in 1 .. n |-> Gates!Null])
  BY DEF Gates!nand_new
<1> DEFINE nulls == [k \in 1 .. n |-> Gates!Null]
<1>3. /\ \A u \in Gates!Alive : input_signals[u] \in Seq(Signals)
      /\ \A u \in Gates!Alive : output_signals[u] \in Seq(Gates!Alive)
      /\ DOMAIN output_signals = Gates!Alive
  BY DEF NandInv, Ins, Outs
<1>4. /\ Gates!Alive' = Gates!Alive \cup {g}
      /\ input_signals' = [u \in Gates!Alive' |-> IF u = g THEN nulls
                                            ELSE input_signals[u]]
  BY <1>2 DEF Gates!With, Gates!Alive
<1>5. output_signals' = [u \in Gates!Alive' |-> IF u = g THEN <<>>
                                          ELSE output_signals[u]]
  BY <1>3, <1>4 DEF Gates!nand_new, Gates!With
<1>6. /\ Signals'
             = {Gates!Null, Gates!Signal}
               \cup {Gates!FromGate(u) : u \in Gates!Alive'}
      /\ Ins' = [Gates!Alive' -> Seq(Signals')]
      /\ Outs' = [Gates!Alive' -> Seq(Gates!Alive')]
  BY DEF Signals, Ins, Outs, Gates!FromGate, Gates!Null, Gates!Signal
<1>7. Signals \subseteq Signals' /\ Gates!Null \in Signals'
  BY <1>4, <1>6 DEF Signals
<1>8. /\ nulls \in Seq(Signals') /\ Len(nulls) = n
      /\ \A k \in 1 .. n : nulls[k] = Gates!Null
  <2>1. nulls \in [1 .. n -> Signals']
    BY <1>7
  <2>2. \A k \in 1 .. n : nulls[k] = Gates!Null
    OBVIOUS
  <2> HIDE DEF nulls
  <2> QED
    BY <2>1, <2>2
<1> HIDE DEF nulls
<1>9. input_signals' \in Ins'
  <2>1. \A u \in Gates!Alive : input_signals[u] \in Seq(Signals')
    <3> SUFFICES ASSUME NEW u \in Gates!Alive
                 PROVE  input_signals[u] \in Seq(Signals')
      OBVIOUS
    <3>1. /\ input_signals[u] \in Seq(Signals)
          /\ \A j \in 1 .. Len(input_signals[u]) :
                 input_signals[u][j] \in Signals'
      BY <1>3, <1>7
    <3> QED
      BY <3>1, SeqOver
  <2> QED
    BY <1>4, <1>6, <1>8, <2>1
<1>10. output_signals' \in Outs'
  <2>1. \A u \in Gates!Alive : output_signals[u] \in Seq(Gates!Alive')
    <3> SUFFICES ASSUME NEW u \in Gates!Alive
                 PROVE  output_signals[u] \in Seq(Gates!Alive')
      OBVIOUS
    <3>1. /\ output_signals[u] \in Seq(Gates!Alive)
          /\ \A j \in 1 .. Len(output_signals[u]) :
                 output_signals[u][j] \in Gates!Alive'
      BY <1>3, <1>4
    <3> QED
      BY <3>1, SeqOver
  <2>2. <<>> \in Seq(Gates!Alive')
    OBVIOUS
  <2> QED
    BY <1>4, <1>5, <1>6, <2>1, <2>2
<1>11. ASSUME NEW u \in Gates!Alive', NEW w \in Gates!Alive'
       PROVE  Count(output_signals'[u], w)
                  = Count(input_signals'[w], Gates!FromGate(u))
  <2>1. CASE u \in Gates!Alive /\ w \in Gates!Alive
    <3>1. /\ output_signals'[u] = output_signals[u]
          /\ input_signals'[w] = input_signals[w]
      BY <1>1, <1>4, <1>5, <2>1
    <3> QED
      BY <2>1, <3>1 DEF NandInv
  <2>2. CASE u = g \/ w = g
    <3>1. Count(output_signals'[u], w) = 0
      <4>1. CASE u = g
        <5>1. output_signals'[u] = <<>>
          BY <1>5, <4>1
        <5>2. /\ <<>> \in Seq(Gates!Alive)
              /\ \A j \in 1 .. Len(<<>>) : <<>>[j] # w
          OBVIOUS
        <5> QED
          BY <5>1, <5>2, CountType
      <4>2. CASE u # g
        <5>1. /\ output_signals'[u] = output_signals[u] /\ w = g
              /\ output_signals[u] \in Seq(Gates!Alive)
          BY <1>3, <1>4, <1>5, <2>2, <4>2
        <5>2. \A j \in 1 .. Len(output_signals[u]) : output_signals[u][j] # w
          BY <1>1, <5>1
        <5> QED
          BY <5>1, <5>2, CountType
      <4> QED
        BY <4>1, <4>2
    <3>2. Count(input_signals'[w], Gates!FromGate(u)) = 0
      <4>1. CASE w = g
        <5>1. input_signals'[w] = nulls
          BY <1>4, <4>1
        <5>2. \A j \in 1 .. Len(nulls) : nulls[j] # Gates!FromGate(u)
          BY <1>8, SignalKinds
        <5> QED
          BY <1>8, <5>1, <5>2, CountType
      <4>2. CASE w # g
        <5>1. /\ input_signals'[w] = input_signals[w] /\ u = g
              /\ input_signals[w] \in Seq(Signals)
          BY <1>3, <1>4, <2>2, <4>2
        <5>2. Gates!FromGate(g) \notin Signals
          BY <1>1, SignalKinds DEF Signals
        <5>3. \A j \in 1 .. Len(input_signals[w]) :
                  input_signals[w][j] # Gates!FromGate(u)
          BY <5>1, <5>2
        <5> QED
          BY <5>1, <5>3, CountType
      <4> QED
        BY <4>1, <4>2
    <3> QED
      BY <3>1, <3>2
  <2> QED
    BY <1>4, <2>1, <2>2
<1> QED
  BY <1>9, <1>10, <1>11 DEF NandInv, Gates!FromGate

\* After the two loops nothing points to the gate that is freed.
LEMMA DeleteKeeps ==
  ASSUME NandInv, NEW g \in Gate, Gates!nand_delete(g)
  PROVE  NandInv'
<1> DEFINE o == AllInputsDisconnected(g)
           nulls == [k \in Inputs(g) |-> Gates!Null]
           own == [input_signals EXCEPT ![g] = nulls]
           i == AllOutputsDisconnected(g, o[g], own)
           Rest == Gates!Alive \ {g}
<1>1. /\ g \in Gates!Alive
      /\ input_signals' = [h \in Rest |-> i[h]]
      /\ output_signals' = [h \in Rest |-> o[h]]
  BY DEF Gates!nand_delete, AllInputsDisconnected, AllOutputsDisconnected,
         Inputs
<1>12. o = AllInputsDisconnected(g)
  OBVIOUS
<1> HIDE DEF o
<1>2. /\ o \in Outs
      /\ \A u \in Gates!Alive :
           /\ Count(o[u], g) = 0
           /\ \A x : x # g => Count(o[u], x) = Count(output_signals[u], x)
  <2>1. NandInv /\ g \in Gates!Alive
    BY <1>1
  <2>2. o \in Outs
    BY <1>12, <2>1, InputsGone
  <2>3. \A u \in Gates!Alive :
          /\ Count(o[u], g) = 0
          /\ \A x : x # g => Count(o[u], x) = Count(output_signals[u], x)
    BY <1>12, <2>1, InputsGone
  <2> QED
    BY <2>2, <2>3
<1>3. /\ nulls \in Seq(Signals)
      /\ \A j \in 1 .. Len(nulls) : nulls[j] = Gates!Null
      /\ input_signals \in Ins
  <2> DEFINE n == Len(input_signals[g])
  <2>1. input_signals \in Ins /\ n \in Nat /\ Inputs(g) = 1 .. n
    BY <1>1 DEF NandInv, Ins, Inputs
  <2>2. /\ nulls \in [1 .. n -> Signals]
        /\ \A j \in 1 .. n : nulls[j] = Gates!Null
    BY <2>1 DEF Signals
  <2> HIDE DEF nulls, n
  <2>3. nulls \in Seq(Signals) /\ Len(nulls) = n
    BY <2>1, <2>2
  <2> QED
    BY <2>1, <2>2, <2>3
<1> HIDE DEF nulls
<1>4. own \in Ins
  BY <1>1, <1>3 DEF Ins
<1>5. /\ own[g] = nulls
      /\ \A u \in Gates!Alive : u # g => own[u] = input_signals[u]
  BY <1>1, <1>3 DEF Ins
<1> HIDE DEF own
<1>6. \A u \in Gates!Alive : Count(own[u], Gates!FromGate(g)) = Count(o[g], u)
  <2> SUFFICES ASSUME NEW u \in Gates!Alive
               PROVE  Count(own[u], Gates!FromGate(g)) = Count(o[g], u)
    OBVIOUS
  <2>1. CASE u = g
    <3>1. \A j \in 1 .. Len(nulls) : nulls[j] # Gates!FromGate(g)
      BY <1>3, SignalKinds
    <3>2. Count(nulls, Gates!FromGate(g)) = 0
      BY <1>3, <3>1, CountType
    <3> QED
      BY <1>1, <1>2, <1>5, <2>1, <3>2
  <2>2. CASE u # g
    BY <1>1, <1>2, <1>5, <2>2 DEF NandInv
  <2> QED
    BY <2>1, <2>2
<1>7. /\ i \in Ins
      /\ \A u \in Gates!Alive :
           /\ Count(i[u], Gates!FromGate(g)) = 0
           /\ \A x : x # g => Count(i[u], Gates!FromGate(x))
                                = Count(own[u], Gates!FromGate(x))
  <2>1. o[g] \in Seq(Gates!Alive)
    BY <1>1, <1>2 DEF Outs
  <2> QED
    BY <1>1, <1>4, <1>6, <2>1, OutputsGone
<1> HIDE DEF i
<1>8. /\ Gates!Alive' = Rest
      /\ Signals'
             = {Gates!Null, Gates!Signal} \cup {Gates!FromGate(u) : u \in Rest}
      /\ Ins' = [Rest -> Seq(Signals')]
      /\ Outs' = [Rest -> Seq(Rest)]
  <2>1. Gates!Alive' = Rest
    BY <1>1 DEF Gates!Alive
  <2> HIDE DEF Rest
  <2> QED
    BY <2>1 DEF Signals, Ins, Outs, Gates!FromGate, Gates!Null, Gates!Signal
<1>9. input_signals' \in Ins'
  <2>1. \A u \in Rest : i[u] \in Seq(Signals')
    <3> SUFFICES ASSUME NEW u \in Rest PROVE i[u] \in Seq(Signals')
      OBVIOUS
    <3>1. i[u] \in Seq(Signals)
      BY <1>7 DEF Ins
    <3>2. \A j \in 1 .. Len(i[u]) : i[u][j] # Gates!FromGate(g)
      BY <1>7, <3>1, CountType
    <3>3. \A x \in Signals : x # Gates!FromGate(g) => x \in Signals'
      BY <1>8 DEF Signals
    <3>4. \A j \in 1 .. Len(i[u]) : i[u][j] \in Signals'
      BY <3>1, <3>2, <3>3
    <3> QED
      BY <3>1, <3>4, SeqOver
  <2> QED
    BY <1>1, <1>8, <2>1
<1>10. output_signals' \in Outs'
  <2>1. \A u \in Rest : o[u] \in Seq(Rest)
    <3> SUFFICES ASSUME NEW u \in Rest PROVE o[u] \in Seq(Rest)
      OBVIOUS
    <3>1. o[u] \in Seq(Gates!Alive)
      BY <1>2 DEF Outs
    <3>2. \A j \in 1 .. Len(o[u]) : o[u][j] # g
      BY <1>2, <3>1, CountType
    <3>3. \A j \in 1 .. Len(o[u]) : o[u][j] \in Rest
      BY <3>1, <3>2
    <3> QED
      BY <3>1, <3>3, SeqOver
  <2> QED
    BY <1>1, <1>8, <2>1
<1>11. ASSUME NEW u \in Rest, NEW w \in Rest
       PROVE  Count(output_signals'[u], w)
                  = Count(input_signals'[w], Gates!FromGate(u))
  <2>1. Count(o[u], w) = Count(output_signals[u], w)
    BY <1>2
  <2>2. Count(i[w], Gates!FromGate(u))
            = Count(input_signals[w], Gates!FromGate(u))
    BY <1>5, <1>7
  <2>3. output_signals'[u] = o[u] /\ input_signals'[w] = i[w]
    BY <1>1
  <2> QED
    BY <2>1, <2>2, <2>3 DEF NandInv
<1> QED
  BY <1>8, <1>9, <1>10, <1>11 DEF NandInv, Gates!FromGate

LEMMA NandStep ==
  ASSUME Arity \in [Gate -> SUBSET Nat], NandInv, [Gates!Next]_(Gates!vars)
  PROVE  NandInv'
<1>1. CASE UNCHANGED Gates!links
  <2>1. Gates!Alive' = Gates!Alive
    BY <1>1 DEF Gates!links, Gates!Alive
  <2>2. Ins' = Ins /\ Outs' = Outs
    BY <2>1 DEF Ins, Outs, Signals, Gates!FromGate, Gates!Null, Gates!Signal
  <2> QED
    BY <1>1, <2>1, <2>2 DEF NandInv, Gates!links, Gates!FromGate
<1>2. ASSUME NEW g \in Gate, Gates!nand_new(g)
      PROVE  NandInv'
  BY <1>2, NewKeeps
<1>3. ASSUME NEW g \in Gate, Gates!nand_delete(g)
      PROVE  NandInv'
  BY <1>3, DeleteKeeps
<1>4. ASSUME NEW g \in Gates!Alive, NEW k, Gates!nand_connect_signal(g, k)
      PROVE  NandInv'
  BY <1>4, ConnectSignalKeeps
<1>5. ASSUME NEW h, NEW g, NEW k, Gates!nand_connect_nand(h, g, k)
      PROVE  NandInv'
  BY <1>5, ConnectNandKeeps
<1> QED
  BY <1>1, <1>2, <1>3, <1>4, <1>5
    DEF Gates!Next, Gates!vars, Gates!FlipSignal, Gates!nand_evaluate

LEMMA NandInit ==
  ASSUME Gates!Init
  PROVE  NandInv
<1>1. Gates!Alive = {}
  BY DEF Gates!Init, Gates!Alive
<1> QED
  BY <1>1 DEF Gates!Init, NandInv, Ins, Outs

LEMMA GatesCount ==
  \A S : Gates!Cardinality(S) = Cardinality(S)
BY DEF Gates!Cardinality, Cardinality

LEMMA NandAgrees ==
  ASSUME NandInv
  PROVE  Gates!LinksAgree
<1> SUFFICES ASSUME NEW h \in Gates!Alive
             PROVE  /\ \A k \in DOMAIN input_signals[h] :
                         input_signals[h][k].type = "g"
                           => input_signals[h][k].object \in Gates!Alive
                    /\ \A g \in Gates!Alive :
                         Gates!Cardinality({j \in DOMAIN output_signals[g] :
                                        output_signals[g][j] = h})
                           = Gates!Cardinality({k \in DOMAIN input_signals[h] :
                                            input_signals[h][k]
                                                = Gates!FromGate(g)})
                    /\ Gates!ToSet(output_signals[h]) \subseteq Gates!Alive
  BY DEF Gates!LinksAgree
<1>1. \A k \in DOMAIN input_signals[h] :
        input_signals[h][k].type = "g"
            => input_signals[h][k].object \in Gates!Alive
  <2>1. \A k \in DOMAIN input_signals[h] : input_signals[h][k] \in Signals
    BY DEF NandInv, Ins
  <2> QED
    BY <2>1, SignalKinds
<1>2. \A g \in Gates!Alive :
        Count(output_signals[g], h)
            = Count(input_signals[h], Gates!FromGate(g))
  BY DEF NandInv
<1>3. Gates!ToSet(output_signals[h]) \subseteq Gates!Alive
  BY DEF Gates!ToSet, NandInv, Outs
<1> QED
  BY <1>1, <1>2, <1>3, GatesCount DEF Count, Places

\* In every state the two directions of every connection agree, counted (nand.c
\* lines 150-171, 219-221, 239-246), for every number of gates and of inputs:
\* no gate keeps a pointer to one that was deleted.
THEOREM ConnectionsAgree ==
  Spec => []LinksAgree
<1>1. Init => NandInv
  BY NandInit DEF Init
<1>2. NandInv /\ [Next]_vars => NandInv'
  <2>1. [Next]_vars => [Gates!Next]_(Gates!vars)
    BY DEF Next, vars, gates, Gates!vars, Gates!links, Gates!marks
  <2> QED
    BY <2>1, NandStep, ArityAssumption
<1>3. NandInv => LinksAgree
  BY NandAgrees DEF LinksAgree
<1> QED
  BY <1>1, <1>2, <1>3, PTL DEF Spec

-----------------------------------------------------------------------------
(* Knights                                                                 *)

Knights == [gold : 0 .. MAX_GOLD, weapon : Nat, armour : Nat]

LEMMA GoldType ==
  \A k \in Knights : k.gold \in Nat
BY KnightAssumption DEF Knights

\* t[i] is the gold of the first i knights of ks.
Purses(t, ks) ==
  /\ t \in [0 .. Len(ks) -> Nat]
  /\ t[0] = 0
  /\ \A i \in 1 .. Len(ks) : t[i] = t[i - 1] + ks[i].gold

\* h[U] is the gold of the knights at the places U.
GoldLoop(h, ks) ==
  h = [U \in SUBSET DOMAIN ks |->
         IF U = {} THEN 0
         ELSE h[U \ {Tournament!Max(U)}] + ks[Tournament!Max(U)].gold]

LEMMA Greatest ==
  \A S : Tournament!Max(S) = Gates!Max(S)
BY DEF Tournament!Max, Gates!Max

\* Gold counts the knights one by one.
LEMMA GoldIs ==
  ASSUME NEW ks \in Seq(Knights)
  PROVE  \E t : Purses(t, ks) /\ Tournament!Gold(ks) = t[Len(ks)]
<1> DEFINE S == DOMAIN ks
           op == [x \in S \X Nat |-> x[2] + ks[x[1]].gold]
           pick == [U \in SUBSET S |-> Tournament!Max(U)]
<1>1. S = 1 .. Len(ks) /\ Len(ks) \in Nat /\ \A i \in S : ks[i].gold \in Nat
  <2>1. S = 1 .. Len(ks) /\ Len(ks) \in Nat /\ \A i \in S : ks[i] \in Knights
    OBVIOUS
  <2> QED
    BY <2>1, GoldType
<1>2. IsFiniteSet(S)
  BY <1>1, FS_Interval
<1>3. op \in [S \X Nat -> Nat]
  <2> HIDE DEF S
  <2> QED
    BY <1>1
<1>4. \A U \in SUBSET S :
        U # {} => /\ Tournament!Max(U) \in U /\ pick[U] = Tournament!Max(U)
                  /\ \A k \in U : Tournament!Max(U) >= k
  <2> SUFFICES ASSUME NEW U \in SUBSET S, U # {}
               PROVE  /\ Tournament!Max(U) \in U
                      /\ \A k \in U : Tournament!Max(U) >= k
    OBVIOUS
  <2> HIDE DEF S
  <2> QED
    BY <1>1, Extremes, Greatest
<1>5. Picks(pick, S)
  BY <1>4 DEF Picks
<1> HIDE DEF op, pick, S
<1>6. PICK f : Folds(f, op, 0, pick, S) /\ \A U \in SUBSET S : f[U] \in Nat
  BY <1>2, <1>3, <1>5, TypedFold
<1>7. GoldLoop(f, ks)
  <2> DEFINE e(U) == IF U = {} THEN 0
                     ELSE f[U \ {Tournament!Max(U)}]
                            + ks[Tournament!Max(U)].gold
  <2>1. ASSUME NEW U \in SUBSET S
        PROVE  f[U] = e(U)
    <3>1. CASE U = {}
      <4>1. f[{}] = 0
        BY <1>6, FoldEmpty
      <4> QED
        BY <3>1, <4>1
    <3>2. CASE U # {}
      <4> DEFINE m == Tournament!Max(U)
      <4>1. m \in S /\ pick[U] = m /\ U \ {m} \in SUBSET S
        BY <1>4, <3>2
      <4>2. f[U] = op[<<m, f[U \ {m}]>>]
        BY <1>6, <3>2, <4>1, FoldAt, SMTT(30)
      <4>3. f[U \ {m}] \in Nat
        BY <1>6, <4>1
      <4> HIDE DEF m
      <4>4. op[<<m, f[U \ {m}]>>] = f[U \ {m}] + ks[m].gold
        BY <4>1, <4>3 DEF op
      <4> QED
        BY <3>2, <4>2, <4>4 DEF m
    <3> QED
      BY <3>1, <3>2
  <2> HIDE DEF e
  <2>2. f = [U \in SUBSET S |-> f[U]]
    BY <1>6 DEF Folds
  <2>3. f = [U \in SUBSET S |-> e(U)]
    BY <2>1, <2>2
  <2> QED
    BY <2>3 DEF GoldLoop, e, S
<1> DEFINE h == CHOOSE l : GoldLoop(l, ks)
<1>8. GoldLoop(h, ks)
  BY <1>7
<1>9. Tournament!Gold(ks) = h[S]
  BY DEF Tournament!Gold, Tournament!FoldLeft, Tournament!MapThenFoldSet,
         GoldLoop, S
<1> HIDE DEF h
<1>10. h[{}] = 0
  BY <1>8 DEF GoldLoop
<1>11. ASSUME NEW U \in SUBSET S, U # {}
       PROVE  h[U] = h[U \ {Tournament!Max(U)}] + ks[Tournament!Max(U)].gold
  BY <1>8, <1>11 DEF GoldLoop, S
<1>12. \A U \in SUBSET S : h[U] \in Nat
  <2> DEFINE B == {U \in SUBSET S : h[U] \in Nat}
  <2>1. B \in SUBSET SUBSET S /\ {} \in B
    BY <1>10
  <2>2. ASSUME NEW U \in SUBSET S, U # {}, U \ {pick[U]} \in B
        PROVE  U \in B
    <3>1. Tournament!Max(U) \in S /\ pick[U] = Tournament!Max(U)
      BY <1>4, <2>2
    <3>2. /\ h[U \ {Tournament!Max(U)}] \in Nat
          /\ ks[Tournament!Max(U)].gold \in Nat
      BY <1>1, <2>2, <3>1
    <3>3. h[U] \in Nat
      BY <1>11, <2>2, <3>2
    <3> QED
      BY <3>3
  <2> HIDE DEF B
  <2>3. B = SUBSET S
    BY <1>2, <1>5, <2>1, <2>2, PickInduction
  <2> QED
    BY <2>3 DEF B
<1> DEFINE t == [i \in 0 .. Len(ks) |-> h[1 .. i]]
<1>13. t \in [0 .. Len(ks) -> Nat] /\ t[0] = 0 /\ t[Len(ks)] = h[S]
  <2>1. ASSUME NEW i \in 0 .. Len(ks)
        PROVE  1 .. i \in SUBSET S
    <3>1. ASSUME NEW k \in 1 .. i PROVE k \in 1 .. Len(ks)
      BY <1>1
    <3> QED
      BY <1>1, <3>1
  <2>2. 1 .. 0 = {}
    OBVIOUS
  <2> QED
    BY <1>1, <1>10, <1>12, <2>1, <2>2
<1>14. ASSUME NEW i \in 1 .. Len(ks)
       PROVE  t[i] = t[i - 1] + ks[i].gold
  <2> DEFINE U == 1 .. i
             m == Tournament!Max(U)
  <2>1. U \in SUBSET S /\ U # {} /\ i \in U /\ i - 1 \in 0 .. Len(ks)
    <3>1. ASSUME NEW k \in 1 .. i PROVE k \in 1 .. Len(ks)
      BY <1>1
    <3>2. i \in U /\ i - 1 \in 0 .. Len(ks)
      BY <1>1
    <3> QED
      BY <1>1, <3>1, <3>2
  <2>2. m \in U /\ m >= i
    BY <1>4, <2>1
  <2>3. m = i
    BY <2>2
  <2>4. U \ {i} = 1 .. i - 1
    BY <1>1
  <2>5. h[U] = h[U \ {i}] + ks[i].gold
    <3> HIDE DEF U
    <3> QED
      BY <1>11, <2>1, <2>3
  <2>6. t[i] = h[U] /\ t[i - 1] = h[1 .. i - 1]
    BY <2>1
  <2> HIDE DEF t, U
  <2> QED
    BY <2>4, <2>5, <2>6
<1> HIDE DEF t
<1> QED
  BY <1>9, <1>13, <1>14 DEF Purses

\* The gold of the first knights is determined.
LEMMA PursesUnique ==
  ASSUME NEW ks \in Seq(Knights), NEW t, NEW u, Purses(t, ks), Purses(u, ks)
  PROVE  t[Len(ks)] = u[Len(ks)]
<1> DEFINE n == Len(ks)
           B == {i \in 0 .. n : t[i] # u[i]}
<1>1. n \in Nat
  OBVIOUS
<1>2. ASSUME NEW i \in B, \A k \in B : i <= k
      PROVE  FALSE
  <2>1. i \in 0 .. n /\ t[i] # u[i]
    OBVIOUS
  <2>2. i # 0
    BY <2>1 DEF Purses
  <2>3. i \in 1 .. n /\ i - 1 \in 0 .. n /\ i - 1 < i
    BY <1>1, <2>1, <2>2
  <2>4. i - 1 \notin B
    BY <1>2, <2>3
  <2>5. t[i - 1] = u[i - 1]
    BY <2>3, <2>4
  <2> QED
    BY <2>1, <2>3, <2>5 DEF Purses
<1>3. B = {}
  <2>1. B \in SUBSET Nat
    BY <1>1
  <2> HIDE DEF B
  <2> QED
    BY <1>2, <2>1, LeastNat
<1>4. n \in 0 .. n
  BY <1>1
<1> QED
  BY <1>3, <1>4

LEMMA GoldBy ==
  ASSUME NEW ks \in Seq(Knights), NEW t, Purses(t, ks)
  PROVE  Tournament!Gold(ks) = t[Len(ks)]
BY GoldIs, PursesUnique

\* The gold of nobody, of one, and of two groups of knights.
LEMMA GoldEmpty ==
  Tournament!Gold(<<>>) = 0
<1> DEFINE t == [i \in 0 .. 0 |-> 0]
<1>1. Purses(t, <<>>)
  BY DEF Purses
<1>2. << >> \in Seq(Knights) /\ Len(<< >>) = 0
  OBVIOUS
<1> QED
  BY <1>1, <1>2, GoldBy

LEMMA GoldOne ==
  ASSUME NEW k \in Knights
  PROVE  Tournament!Gold(<<k>>) = k.gold
<1> DEFINE t == [i \in 0 .. 1 |-> IF i = 0 THEN 0 ELSE k.gold]
<1>1. k.gold \in Nat
  BY KnightAssumption DEF Knights
<1>2. <<k>> \in Seq(Knights) /\ Len(<<k>>) = 1 /\ <<k>>[1] = k
  OBVIOUS
<1>3. Purses(t, <<k>>)
  <2>1. \A i \in 1 .. 1 : i = 1 /\ i - 1 = 0
    OBVIOUS
  <2> QED
    BY <1>1, <1>2, <2>1 DEF Purses
<1> QED
  BY <1>2, <1>3, GoldBy

LEMMA GoldConcat ==
  ASSUME NEW a \in Seq(Knights), NEW b \in Seq(Knights)
  PROVE  /\ Tournament!Gold(a) \in Nat
         /\ Tournament!Gold(a \o b) = Tournament!Gold(a) + Tournament!Gold(b)
<1>1. PICK t : Purses(t, a) /\ Tournament!Gold(a) = t[Len(a)]
  BY GoldIs
<1>2. PICK u : Purses(u, b) /\ Tournament!Gold(b) = u[Len(b)]
  BY GoldIs
<1> DEFINE m == Len(a)
           n == Len(b)
           c == a \o b
           w == [i \in 0 .. m + n |-> IF i <= m THEN t[i] ELSE t[m] + u[i - m]]
<1>3. m \in Nat /\ n \in Nat
  OBVIOUS
<1>4. c \in Seq(Knights) /\ Len(c) = m + n
  OBVIOUS
<1>5. /\ \A i \in 1 .. m : c[i] = a[i]
      /\ \A i \in 1 .. m + n : i > m => c[i] = b[i - m] /\ i - m \in 1 .. n
  OBVIOUS
<1>6. /\ t \in [0 .. m -> Nat] /\ t[0] = 0 /\ t[m] \in Nat
      /\ u \in [0 .. n -> Nat] /\ u[0] = 0
      /\ \A i \in 1 .. m : t[i] = t[i - 1] + a[i].gold
      /\ \A i \in 1 .. n : u[i] = u[i - 1] + b[i].gold
  BY <1>1, <1>2, <1>3 DEF Purses
<1>7. \A i \in 1 .. n : b[i].gold \in Nat
  <2>1. \A i \in 1 .. n : b[i] \in Knights
    OBVIOUS
  <2> QED
    BY <2>1, GoldType
<1> HIDE DEF m, n, c
<1>8. w \in [0 .. m + n -> Nat] /\ w[0] = 0
  <2>1. \A i \in 0 .. m + n : ~(i <= m) => i - m \in 0 .. n
    BY <1>3
  <2> QED
    BY <1>3, <1>6, <2>1
<1>9. ASSUME NEW i \in 1 .. m + n
      PROVE  w[i] = w[i - 1] + c[i].gold
  <2>1. i \in 0 .. m + n /\ i - 1 \in 0 .. m + n
    BY <1>3
  <2>2. CASE i <= m
    <3>1. i \in 1 .. m /\ i - 1 <= m
      BY <1>3, <2>2
    <3> QED
      BY <1>5, <1>6, <2>1, <2>2, <3>1
  <2>3. CASE i = m + 1
    <3>1. ~(i <= m) /\ i - 1 <= m /\ i - 1 = m /\ i - m = 1 /\ 1 \in 1 .. n
      BY <1>3, <2>3
    <3>2. c[i] = b[1] /\ u[1] = u[0] + b[1].gold
      <4>1. u[1] = u[1 - 1] + b[1].gold
        BY <1>6, <3>1
      <4>2. c[i] = b[i - m]
        BY <1>3, <1>5, <3>1
      <4> QED
        BY <3>1, <4>1, <4>2
    <3>3. w[i] = t[m] + u[1] /\ w[i - 1] = t[m]
      BY <2>1, <3>1
    <3>4. u[1] = b[1].gold
      BY <1>6, <1>7, <3>1, <3>2
    <3> QED
      BY <3>2, <3>3, <3>4
  <2>4. CASE i > m + 1
    <3> DEFINE j == i - m
    <3>1. ~(i <= m) /\ ~(i - 1 <= m) /\ i > m
      BY <1>3, <2>4
    <3>2. j \in 1 .. n /\ j - 1 = (i - 1) - m /\ j - 1 \in 0 .. n
      BY <1>3, <2>4
    <3>3. w[i] = t[m] + u[j] /\ w[i - 1] = t[m] + u[j - 1]
      BY <2>1, <3>1, <3>2
    <3>4. u[j] = u[j - 1] + b[j].gold /\ c[i] = b[j]
      BY <1>5, <1>6, <3>1, <3>2
    <3>5. u[j - 1] \in Nat /\ b[j].gold \in Nat
      BY <1>6, <1>7, <3>2
    <3> HIDE DEF j, w
    <3> QED
      BY <1>6, <3>3, <3>4, <3>5
  <2> QED
    BY <1>3, <2>2, <2>3, <2>4
<1>10. Purses(w, c)
  <2> HIDE DEF w
  <2> QED
    BY <1>4, <1>8, <1>9 DEF Purses
<1>11. Tournament!Gold(c) = w[m + n]
  BY <1>4, <1>10, GoldBy
<1>12. w[m + n] = t[m] + u[n]
  <2>1. m + n \in 0 .. m + n
    BY <1>3
  <2>2. CASE n = 0
    BY <1>3, <1>6, <2>1, <2>2
  <2>3. CASE n # 0
    <3>1. ~(m + n <= m) /\ (m + n) - m = n
      BY <1>3, <2>3
    <3> QED
      BY <2>1, <3>1
  <2> QED
    BY <2>2, <2>3
<1> QED
  BY <1>1, <1>2, <1>6, <1>11, <1>12 DEF m, n, c

-----------------------------------------------------------------------------
(* Fights                                                                  *)

Among(ks) == {ks[i] : i \in DOMAIN ks}

LEMMA AmongConcat ==
  ASSUME NEW T, NEW a \in Seq(T), NEW b \in Seq(T)
  PROVE  Among(a \o b) = Among(a) \cup Among(b)
<1> DEFINE c == a \o b
<1>1. /\ Len(c) = Len(a) + Len(b) /\ Len(a) \in Nat /\ Len(b) \in Nat
      /\ DOMAIN c = 1 .. Len(c) /\ DOMAIN a = 1 .. Len(a)
      /\ DOMAIN b = 1 .. Len(b)
      /\ \A i \in 1 .. Len(c) :
           c[i] = IF i <= Len(a) THEN a[i] ELSE b[i - Len(a)]
  OBVIOUS
<1> HIDE DEF c
<1>2. ASSUME NEW i \in DOMAIN c
      PROVE  c[i] \in Among(a) \cup Among(b)
  <2>1. CASE i <= Len(a)
    BY <1>1, <2>1 DEF Among
  <2>2. CASE ~(i <= Len(a))
    <3>1. i - Len(a) \in DOMAIN b
      BY <1>1, <2>2
    <3> QED
      BY <1>1, <2>2, <3>1 DEF Among
  <2> QED
    BY <2>1, <2>2
<1>3. ASSUME NEW i \in DOMAIN a
      PROVE  a[i] \in Among(c)
  BY <1>1 DEF Among
<1>4. ASSUME NEW i \in DOMAIN b
      PROVE  b[i] \in Among(c)
  <2>1. Len(a) + i \in DOMAIN c /\ ~(Len(a) + i <= Len(a))
    BY <1>1
  <2>2. c[Len(a) + i] = b[i]
    BY <1>1, <2>1
  <2> QED
    BY <2>1, <2>2 DEF Among
<1> QED
  BY <1>2, <1>3, <1>4 DEF Among, c

LEMMA AmongOne ==
  ASSUME NEW k
  PROVE  Among(<<k>>) = {k}
<1>1. DOMAIN <<k>> = {1} /\ <<k>>[1] = k
  OBVIOUS
<1> QED
  BY <1>1 DEF Among

LEMMA AmongTwo ==
  ASSUME NEW k, NEW l
  PROVE  Among(<<k, l>>) = {k, l}
<1>1. DOMAIN <<k, l>> = {1, 2} /\ <<k, l>>[1] = k /\ <<k, l>>[2] = l
  OBVIOUS
<1> QED
  BY <1>1 DEF Among

\* What changes hands in a fight: all the gold that fits, and the better
\* weapon and armour.
LEMMA PlunderIs ==
  ASSUME NEW a \in Knights, NEW b \in Knights,
         NEW w, NEW l, w = Tournament!Plunder(a, b).winner,
         l = Tournament!Plunder(a, b).loser
  PROVE  /\ w \in Knights /\ l \in Knights /\ l.gold = 0
         /\ w.gold = IF a.gold + b.gold < MAX_GOLD THEN a.gold + b.gold
                     ELSE MAX_GOLD
         /\ \A piece \in {"weapon", "armour"} :
              /\ w[piece] = IF a[piece] < b[piece] THEN b[piece] ELSE a[piece]
              /\ l[piece] <= w[piece]
<1> DEFINE Field == {"gold", "weapon", "armour"}
           rich == Tournament!take_gold(a, b.gold)
           better(piece) == a[piece] < b[piece]
<1>1. \A k \in Knights : /\ DOMAIN k = Field /\ k \in [Field -> Nat]
                         /\ k["gold"] \in Nat /\ k["weapon"] \in Nat
                         /\ k["armour"] \in Nat /\ k["gold"] <= MAX_GOLD
  BY KnightAssumption DEF Knights
<1>2. \A k \in [Field -> Nat] : k["gold"] <= MAX_GOLD => k \in Knights
  BY KnightAssumption DEF Knights
<1>3. /\ w = [piece \in DOMAIN a |->
                IF piece # "gold" /\ better(piece) THEN b[piece]
                ELSE rich[piece]]
      /\ l = [piece \in DOMAIN b |->
                IF piece = "gold" \/ better(piece) THEN 0 ELSE b[piece]]
  BY DEF Tournament!Plunder
<1>4. /\ rich["gold"] = IF MAX_GOLD - b["gold"] > a["gold"]
                        THEN a["gold"] + b["gold"] ELSE MAX_GOLD
      /\ rich["weapon"] = a["weapon"] /\ rich["armour"] = a["armour"]
  BY <1>1, KnightAssumption DEF Tournament!take_gold, Tournament!Plus
<1> HIDE DEF rich
<1>5. w["gold"] = rich["gold"] /\ l["gold"] = 0
  BY <1>1, <1>3
<1>6. ASSUME NEW piece \in {"weapon", "armour"}
      PROVE  /\ w[piece] = IF a[piece] < b[piece] THEN b[piece] ELSE a[piece]
             /\ l[piece] = IF a[piece] < b[piece] THEN 0 ELSE b[piece]
  <2>1. rich[piece] = a[piece] /\ piece \in Field /\ piece # "gold"
    BY <1>4
  <2> QED
    BY <1>1, <1>3, <2>1
<1>7. rich["gold"] \in Nat /\ rich["gold"] <= MAX_GOLD
  BY <1>1, <1>4, KnightAssumption
<1>8. w \in [Field -> Nat] /\ l \in [Field -> Nat]
  <2>1. \A piece \in Field : a[piece] \in Nat /\ b[piece] \in Nat
    BY <1>1
  <2>2. \A piece \in Field : w[piece] \in Nat /\ l[piece] \in Nat
    BY <1>5, <1>6, <1>7, <2>1
  <2>3. DOMAIN a = Field /\ DOMAIN b = Field
    BY <1>1
  <2> QED
    BY <1>3, <2>2, <2>3
<1>9. w \in Knights /\ l \in Knights
  BY <1>2, <1>5, <1>7, <1>8, KnightAssumption
<1>10. w["gold"] = IF a["gold"] + b["gold"] < MAX_GOLD
                   THEN a["gold"] + b["gold"] ELSE MAX_GOLD
  BY <1>1, <1>4, <1>5, KnightAssumption
<1>11. ASSUME NEW piece \in {"weapon", "armour"}
       PROVE  l[piece] <= w[piece]
  <2>1. a[piece] \in Nat /\ b[piece] \in Nat
    BY <1>1
  <2> QED
    BY <1>6, <2>1
<1> QED
  BY <1>5, <1>6, <1>9, <1>10, <1>11

-----------------------------------------------------------------------------
(* A tournament                                                            *)

Lists == [pretenders : Seq(Knights), eliminated : Seq(Knights)]
All(t) == Among(t.pretenders) \cup Among(t.eliminated)
Treasure(t) ==
  Tournament!Gold(t.pretenders) + Tournament!Gold(t.eliminated)
Bursting(S) == \E k \in S : k.gold = MAX_GOLD

\* No knight in S has a better piece than v, and one has v, if there is any.
Tops(S, piece, v) ==
  S # {} => (\E k \in S : k[piece] = v) /\ \A k \in S : k[piece] <= v

\* A tournament of n knights with the gold g, whose best pieces are v.
Fought(t, n, g, v) ==
  /\ t \in Lists
  /\ Len(t.pretenders) + Len(t.eliminated) = n
  /\ Treasure(t) = g \/ (Treasure(t) < g /\ Bursting(All(t)))
  /\ \A piece \in {"weapon", "armour"} : Tops(All(t), piece, v[piece])

\* A fight that w wins against l.
LEMMA WonKeeps ==
  ASSUME NEW n \in Nat, NEW g \in Nat, NEW v,
         NEW w \in Knights, NEW l \in Knights,
         NEW rest \in Seq(Knights), NEW gone \in Seq(Knights),
         NEW gold \in Nat,
         gold = w.gold + l.gold + Tournament!Gold(rest)
                  + Tournament!Gold(gone),
         Len(rest) + 2 + Len(gone) = n,
         NEW S, S = {w, l} \cup Among(rest) \cup Among(gone),
         gold = g \/ (gold < g /\ Bursting(S)),
         \A piece \in {"weapon", "armour"} : Tops(S, piece, v[piece]),
         NEW t,
         t = [pretenders |-> Append(rest, Tournament!Plunder(w, l).winner),
              eliminated |-> <<Tournament!Plunder(w, l).loser>> \o gone]
  PROVE  Fought(t, n, g, v)
<1> DEFINE x == Tournament!Plunder(w, l).winner
           y == Tournament!Plunder(w, l).loser
           p == Append(rest, x)
           e == <<y>> \o gone
<1>1. /\ x \in Knights /\ y \in Knights /\ y.gold = 0
      /\ x.gold = IF w.gold + l.gold < MAX_GOLD THEN w.gold + l.gold
                  ELSE MAX_GOLD
      /\ \A piece \in {"weapon", "armour"} :
           /\ x[piece] = IF w[piece] < l[piece] THEN l[piece] ELSE w[piece]
           /\ y[piece] <= x[piece]
  BY PlunderIs
<1>2. /\ t.pretenders = p /\ t.eliminated = e
      /\ t = [pretenders |-> p, eliminated |-> e]
  OBVIOUS
<1> HIDE DEF x, y
<1>3. /\ p = rest \o <<x>> /\ <<x>> \in Seq(Knights) /\ <<y>> \in Seq(Knights)
      /\ p \in Seq(Knights) /\ e \in Seq(Knights)
      /\ Len(p) = Len(rest) + 1 /\ Len(e) = 1 + Len(gone)
  BY <1>1
<1>4. Among(<<x>>) = {x} /\ Among(<<y>>) = {y}
  BY AmongOne
<1>5. Among(p) = Among(rest) \cup {x} /\ Among(e) = {y} \cup Among(gone)
  <2>1. Among(rest \o <<x>>) = Among(rest) \cup Among(<<x>>)
    BY <1>3, AmongConcat
  <2>2. Among(<<y>> \o gone) = Among(<<y>>) \cup Among(gone)
    BY <1>3, AmongConcat
  <2>3. p = rest \o <<x>>
    BY <1>3
  <2> QED
    BY <1>4, <2>1, <2>2, <2>3
<1>6. All(t) = {x, y} \cup Among(rest) \cup Among(gone)
  BY <1>2, <1>5 DEF All
<1>7. /\ Tournament!Gold(p) = Tournament!Gold(rest) + x.gold
      /\ Tournament!Gold(e) = 0 + Tournament!Gold(gone)
      /\ Tournament!Gold(rest) \in Nat /\ Tournament!Gold(gone) \in Nat
  BY <1>1, <1>3, GoldConcat, GoldOne
<1>8. \A k \in Knights : k.gold \in Nat /\ k.gold <= MAX_GOLD
  BY KnightAssumption DEF Knights
<1>9. Treasure(t) = g \/ (Treasure(t) < g /\ Bursting(All(t)))
  <2> DEFINE a == w.gold
             b == l.gold
             c == x.gold
             r == Tournament!Gold(rest)
             s == Tournament!Gold(gone)
  <2>1. /\ a \in Nat /\ b \in Nat /\ r \in Nat /\ s \in Nat /\ c \in Nat
        /\ gold = a + b + r + s
        /\ c = IF a + b < MAX_GOLD THEN a + b ELSE MAX_GOLD
    BY <1>1, <1>7, <1>8
  <2>2. Treasure(t) = r + c + s
    <3>1. Treasure(t) = Tournament!Gold(p) + Tournament!Gold(e)
      BY <1>2 DEF Treasure
    <3> HIDE DEF p, e
    <3> QED
      BY <1>7, <2>1, <3>1
  <2>3. c = MAX_GOLD => Bursting(All(t))
    BY <1>6 DEF Bursting
  <2>4. Bursting(S) => c = MAX_GOLD \/ Bursting(All(t))
    <3> SUFFICES ASSUME NEW k \in S, k.gold = MAX_GOLD
                 PROVE  c = MAX_GOLD \/ Bursting(All(t))
      BY DEF Bursting
    <3>1. CASE k \in {w, l}
      <4>1. a = MAX_GOLD \/ b = MAX_GOLD
        BY <3>1
      <4> HIDE DEF a, b, c, r, s
      <4> QED
        BY <2>1, <4>1, KnightAssumption
    <3>2. CASE k \notin {w, l}
      <4>1. k \in All(t)
        BY <1>6, <3>2
      <4> QED
        BY <4>1 DEF Bursting
    <3> QED
      BY <3>1, <3>2
  <2> HIDE DEF a, b, c, r, s
  <2>5. CASE a + b < MAX_GOLD
    <3>1. Treasure(t) = gold
      BY <2>1, <2>2, <2>5
    <3> QED
      BY <2>1, <2>3, <2>4, <3>1
  <2>6. CASE ~(a + b < MAX_GOLD)
    <3>1. Bursting(All(t))
      BY <2>1, <2>3, <2>6
    <3>2. Treasure(t) <= gold
      BY <2>1, <2>2, <2>6, KnightAssumption
    <3>3. Treasure(t) \in Nat /\ gold <= g
      BY <2>1, <2>2
    <3> QED
      BY <3>1, <3>2, <3>3
  <2> QED
    BY <2>5, <2>6
<1>10. ASSUME NEW piece \in {"weapon", "armour"}
       PROVE  Tops(All(t), piece, v[piece])
  <2>1. /\ w[piece] \in Nat /\ l[piece] \in Nat /\ y[piece] \in Nat
        /\ x[piece] = IF w[piece] < l[piece] THEN l[piece] ELSE w[piece]
        /\ y[piece] <= x[piece] /\ x[piece] \in Nat
    BY <1>1 DEF Knights
  <2>2. /\ w[piece] <= v[piece] /\ l[piece] <= v[piece]
        /\ \A k \in Among(rest) \cup Among(gone) : k[piece] <= v[piece]
        /\ \E k \in S : k[piece] = v[piece]
    BY DEF Tops
  <2>3. v[piece] \in Nat
    <3>1. \A k \in S : k \in Knights
      BY DEF Among
    <3>2. \A k \in Knights : k[piece] \in Nat
      BY DEF Knights
    <3> QED
      BY <2>2, <3>1, <3>2
  <2>4. x[piece] <= v[piece] /\ y[piece] <= v[piece]
    BY <2>1, <2>2, <2>3
  <2>5. \E k \in All(t) : k[piece] = v[piece]
    <3>1. PICK k \in S : k[piece] = v[piece]
      BY <2>2
    <3>2. CASE k \in {w, l}
      <4>1. w[piece] = v[piece] \/ l[piece] = v[piece]
        BY <3>1, <3>2
      <4>2. x[piece] = v[piece]
        BY <2>1, <2>2, <2>3, <4>1
      <4> QED
        BY <1>6, <4>2
    <3>3. CASE k \notin {w, l}
      BY <1>6, <3>1, <3>3
    <3> QED
      BY <3>2, <3>3
  <2>6. \A k \in All(t) : k[piece] <= v[piece]
    BY <1>6, <2>2, <2>4
  <2> QED
    BY <2>5, <2>6 DEF Tops
<1>11. t \in Lists
  <2> HIDE DEF p, e
  <2> QED
    BY <1>2, <1>3 DEF Lists
<1>12. Len(p) + Len(e) = n
  <2>1. Len(rest) \in Nat /\ Len(gone) \in Nat
    OBVIOUS
  <2> HIDE DEF p, e
  <2> QED
    BY <1>3, <2>1
<1> QED
  BY <1>2, <1>9, <1>10, <1>11, <1>12 DEF Fought

\* A round of a tournament.
LEMMA FightKeeps ==
  ASSUME NEW n \in Nat, NEW g \in Nat, NEW v, NEW t, Fought(t, n, g, v),
         ~(Len(t.pretenders) < 2)
  PROVE  /\ Fought(Tournament!Fight(t), n, g, v)
         /\ Len(Tournament!Fight(t).pretenders) < Len(t.pretenders)
<1> DEFINE a == t.pretenders[1]
           b == t.pretenders[2]
           p == t.pretenders
           gone == t.eliminated
           rest == SubSeq(t.pretenders, 3, Len(t.pretenders))
<1>1. p \in Seq(Knights) /\ gone \in Seq(Knights) /\ Len(p) + Len(gone) = n
  BY DEF Fought, Lists
<1>2. /\ a \in Knights /\ b \in Knights /\ rest \in Seq(Knights)
      /\ Len(rest) = Len(p) - 2 /\ Len(p) \in Nat
      /\ \A i \in 1 .. Len(rest) : rest[i] = p[i + 2]
  <2>1. Len(p) \in Nat /\ 1 \in 1 .. Len(p) /\ 2 \in 1 .. Len(p)
    BY <1>1
  <2> HIDE DEF p
  <2> QED
    BY <1>1, <2>1 DEF p
<1>3. p = <<a, b>> \o rest
  <2> DEFINE q == <<a, b>> \o rest
  <2>1. /\ <<a, b>> \in Seq(Knights) /\ Len(<<a, b>>) = 2
        /\ <<a, b>>[1] = a /\ <<a, b>>[2] = b
    BY <1>2
  <2>2. q \in Seq(Knights) /\ Len(q) = Len(p)
    BY <1>2, <2>1
  <2>3. ASSUME NEW i \in 1 .. Len(p)
        PROVE  q[i] = p[i]
    <3>1. CASE i > 2
      <4>1. i - 2 \in 1 .. Len(rest) /\ (i - 2) + 2 = i
        BY <1>2, <3>1
      <4>2. q[i] = rest[i - 2]
        BY <1>2, <2>1, <3>1, ConcatProperties
      <4> QED
        BY <1>2, <4>1, <4>2
    <3>2. CASE ~(i > 2)
      <4>1. i \in {1, 2}
        BY <1>2, <3>2
      <4> QED
        BY <1>2, <2>1, <4>1, ConcatProperties
    <3> QED
      BY <3>1, <3>2
  <2> HIDE DEF q
  <2>4. q = p
    BY <1>1, <2>2, <2>3, SeqEqual
  <2> QED
    BY <2>4 DEF q
<1>4. <<a, b>> = <<a>> \o <<b>>
  OBVIOUS
<1> DEFINE gold == a.gold + b.gold + Tournament!Gold(rest)
                     + Tournament!Gold(gone)
           S == {a, b} \cup Among(rest) \cup Among(gone)
<1>5. /\ Tournament!Gold(p) = a.gold + b.gold + Tournament!Gold(rest)
      /\ Tournament!Gold(rest) \in Nat /\ Tournament!Gold(gone) \in Nat
      /\ a.gold \in Nat /\ b.gold \in Nat
  <2>1. <<a>> \in Seq(Knights) /\ <<b>> \in Seq(Knights)
        /\ <<a, b>> \in Seq(Knights)
    BY <1>2
  <2>2. Tournament!Gold(<<a>> \o <<b>>) = a.gold + b.gold
    BY <1>2, <2>1, GoldConcat, GoldOne
  <2>3. /\ Tournament!Gold(<<a, b>> \o rest)
               = Tournament!Gold(<<a, b>>) + Tournament!Gold(rest)
        /\ Tournament!Gold(rest) \in Nat /\ Tournament!Gold(gone) \in Nat
    BY <1>1, <1>2, <2>1, GoldConcat
  <2>4. a.gold \in Nat /\ b.gold \in Nat
    BY <1>2, GoldType
  <2> HIDE DEF a, b, p, rest, gone
  <2> QED
    BY <1>3, <1>4, <2>2, <2>3, <2>4
<1>6. Among(p) = {a, b} \cup Among(rest)
  <2>1. <<a>> \in Seq(Knights) /\ <<b>> \in Seq(Knights)
        /\ <<a, b>> \in Seq(Knights)
    BY <1>2
  <2> HIDE DEF a, b, p, rest, gone
  <2>2. Among(<<a, b>>) = {a, b}
    BY AmongTwo
  <2>3. Among(<<a, b>> \o rest) = Among(<<a, b>>) \cup Among(rest)
    BY <1>2, <2>1, AmongConcat
  <2> QED
    BY <1>3, <2>2, <2>3
<1>7. All(t) = S
  BY <1>6 DEF All
<1>8. Treasure(t) = gold /\ gold \in Nat
  <2>1. Treasure(t) = Tournament!Gold(p) + Tournament!Gold(gone)
    BY DEF Treasure
  <2> HIDE DEF a, b, p, rest, gone
  <2> QED
    BY <1>5, <2>1
<1>9. gold = g \/ (gold < g /\ Bursting(S))
  BY <1>7, <1>8 DEF Fought
<1>10. \A piece \in {"weapon", "armour"} : Tops(S, piece, v[piece])
  BY <1>7 DEF Fought
<1>11. Len(rest) + 2 + Len(gone) = n /\ Len(p) >= 2
  <2>1. Len(gone) \in Nat
    BY <1>1
  <2> HIDE DEF gone, rest, p
  <2> QED
    BY <1>1, <1>2, <2>1 DEF p
<1> DEFINE u == Tournament!Fight(t)
           Won(w, l) == [pretenders |->
                           Append(rest, Tournament!Plunder(w, l).winner),
                         eliminated |->
                           <<Tournament!Plunder(w, l).loser>> \o gone]
<1>12. u = IF Tournament!Greater(a, b) THEN Won(a, b)
           ELSE IF Tournament!Greater(b, a) THEN Won(b, a)
           ELSE [pretenders |-> rest, eliminated |-> <<a, b>> \o gone]
  BY DEF Tournament!Fight
<1>13. CASE u = Won(a, b)
  <2>1. Fought(Won(a, b), n, g, v)
    <3> HIDE DEF a, b, p, rest, gone
    <3> QED
      BY <1>1, <1>2, <1>8, <1>9, <1>10, <1>11, WonKeeps
  <2>2. Len(u.pretenders) = Len(rest) + 1
    <3>1. Tournament!Plunder(a, b).winner \in Knights
      BY <1>2, PlunderIs
    <3> HIDE DEF a, b, p, rest, gone
    <3> QED
      BY <1>2, <1>13, <3>1
  <2>3. Len(u.pretenders) < Len(p)
    <3> HIDE DEF rest, p, u
    <3> QED
      BY <1>2, <2>2
  <2> QED
    BY <1>13, <2>1, <2>3
<1>14. CASE u = Won(b, a)
  <2>1. Fought(Won(b, a), n, g, v)
    <3>1. gold = b.gold + a.gold + Tournament!Gold(rest)
                   + Tournament!Gold(gone)
      <4> HIDE DEF a, b, p, rest, gone
      <4> QED
        BY <1>5
    <3>2. S = {b, a} \cup Among(rest) \cup Among(gone)
      OBVIOUS
    <3> HIDE DEF a, b, p, rest, gone, gold, S
    <3> QED
      BY <1>1, <1>2, <1>8, <1>9, <1>10, <1>11, <3>1, <3>2, WonKeeps
  <2>2. Len(u.pretenders) = Len(rest) + 1
    <3>1. Tournament!Plunder(b, a).winner \in Knights
      BY <1>2, PlunderIs
    <3> HIDE DEF a, b, p, rest, gone
    <3> QED
      BY <1>2, <1>14, <3>1
  <2>3. Len(u.pretenders) < Len(p)
    <3> HIDE DEF rest, p, u
    <3> QED
      BY <1>2, <2>2
  <2> QED
    BY <1>14, <2>1, <2>3
<1>15. CASE u = [pretenders |-> rest, eliminated |-> <<a, b>> \o gone]
  <2> DEFINE e == <<a, b>> \o gone
  <2>1. u.pretenders = rest /\ u.eliminated = e
    BY <1>15
  <2>2. <<a>> \in Seq(Knights) /\ <<b>> \in Seq(Knights)
        /\ <<a, b>> \in Seq(Knights) /\ Len(<<a, b>>) = 2
    BY <1>2
  <2> HIDE DEF a, b, p, rest, gone, u
  <2>3. e \in Seq(Knights) /\ Len(e) = 2 + Len(gone)
    BY <1>1, <2>2
  <2>4. Tournament!Gold(e) = a.gold + b.gold + Tournament!Gold(gone)
    <3>1. Tournament!Gold(<<a>> \o <<b>>) = a.gold + b.gold
      BY <1>2, <2>2, GoldConcat, GoldOne
    <3>2. Tournament!Gold(<<a, b>> \o gone)
            = Tournament!Gold(<<a, b>>) + Tournament!Gold(gone)
      BY <1>1, <2>2, GoldConcat
    <3> QED
      BY <1>4, <3>1, <3>2
  <2>5. Among(e) = {a, b} \cup Among(gone)
    <3>1. Among(<<a, b>>) = {a, b}
      BY AmongTwo
    <3>2. Among(<<a, b>> \o gone) = Among(<<a, b>>) \cup Among(gone)
      BY <1>1, <2>2, AmongConcat
    <3> QED
      BY <3>1, <3>2
  <2> HIDE DEF e
  <2>6. Treasure(u) = gold
    BY <1>5, <2>1, <2>4 DEF Treasure
  <2>7. All(u) = S
    BY <2>1, <2>5 DEF All
  <2>8. u \in Lists
    BY <1>2, <1>15, <2>1, <2>3 DEF Lists, e
  <2>9. Len(u.pretenders) + Len(u.eliminated) = n
    <3>1. Len(gone) \in Nat /\ Len(rest) \in Nat
      BY <1>1, <1>2
    <3>2. /\ Len(u.pretenders) = Len(rest)
          /\ Len(u.eliminated) = 2 + Len(gone)
      BY <2>1, <2>3
    <3> QED
      BY <1>11, <3>1, <3>2
  <2>10. Len(u.pretenders) < Len(p)
    BY <1>2, <2>1
  <2>11. Fought(u, n, g, v)
    BY <1>9, <1>10, <2>6, <2>7, <2>8, <2>9 DEF Fought
  <2> QED
    BY <2>10, <2>11 DEF u, p
<1> QED
  BY <1>12, <1>13, <1>14, <1>15

\* A recursion over the numbers.
Repeats(f, X, b, step) ==
  f \in [Nat -> X] /\ f[0] = b /\ \A n \in Nat : f[n + 1] = step[f[n]]

LEMMA Recursion ==
  ASSUME NEW X, NEW b \in X, NEW step \in [X -> X]
  PROVE  \E f : Repeats(f, X, b, step)
<1> DEFINE Upto(f, n) == /\ f \in [0 .. n -> X] /\ f[0] = b
                         /\ \A i \in 1 .. n : f[i] = step[f[i - 1]]
           B == {n \in Nat : ~ \E f : Upto(f, n)}
           G(n) == CHOOSE f : Upto(f, n)
<1>1. \A n \in Nat : \E f : Upto(f, n)
  <2>1. ASSUME NEW n \in B, \A k \in B : n <= k
        PROVE  FALSE
    <3>1. n \in Nat
      OBVIOUS
    <3>2. CASE n = 0
      <4> DEFINE f == [i \in 0 .. 0 |-> b]
      <4>1. Upto(f, 0)
        OBVIOUS
      <4> QED
        BY <3>2, <4>1
    <3>3. CASE n # 0
      <4>1. n - 1 \in Nat /\ n - 1 < n
        BY <3>1, <3>3
      <4>2. PICK f : Upto(f, n - 1)
        BY <2>1, <4>1
      <4> DEFINE h == [i \in 0 .. n |-> IF i = n THEN step[f[n - 1]]
                                        ELSE f[i]]
      <4>3. \A i \in 0 .. n : i # n => i \in 0 .. n - 1
        BY <3>1
      <4>4. h \in [0 .. n -> X] /\ h[0] = b
        <5>1. n - 1 \in 0 .. n - 1 /\ 0 \in 0 .. n
          BY <3>1, <4>1
        <5>2. step[f[n - 1]] \in X
          BY <4>2, <5>1
        <5> QED
          BY <3>3, <4>2, <4>3, <5>1, <5>2
      <4>5. ASSUME NEW i \in 1 .. n
            PROVE  h[i] = step[h[i - 1]]
        <5>1. i \in 0 .. n /\ i - 1 \in 0 .. n /\ i - 1 # n
          BY <3>1
        <5>2. h[i - 1] = f[i - 1]
          BY <5>1
        <5>3. i # n => i \in 1 .. n - 1
          BY <3>1
        <5> QED
          BY <4>2, <5>1, <5>2, <5>3
      <4>6. Upto(h, n)
        BY <4>4, <4>5
      <4> QED
        BY <4>6
    <3> QED
      BY <3>2, <3>3
  <2>2. B \in SUBSET Nat
    OBVIOUS
  <2>3. B = {}
    <3> HIDE DEF B
    <3> QED
      BY <2>1, <2>2, LeastNat
  <2> QED
    BY <2>3
<1>2. \A n \in Nat : Upto(G(n), n)
  BY <1>1
<1> HIDE DEF G
<1>3. ASSUME NEW n \in Nat
      PROVE  \A i \in 0 .. n : G(n)[i] = G(n + 1)[i]
  <2> DEFINE C == {i \in 0 .. n : G(n)[i] # G(n + 1)[i]}
  <2>1. ASSUME NEW i \in C, \A k \in C : i <= k
        PROVE  FALSE
    <3>1. Upto(G(n), n) /\ Upto(G(n + 1), n + 1)
      BY <1>2
    <3>2. i # 0
      BY <3>1
    <3>3. i \in 1 .. n /\ i \in 1 .. n + 1 /\ i - 1 \in 0 .. n /\ i - 1 < i
      BY <3>2
    <3>4. i - 1 \notin C
      BY <2>1, <3>3
    <3>5. G(n)[i - 1] = G(n + 1)[i - 1]
      BY <3>3, <3>4
    <3>6. G(n)[i] = G(n + 1)[i]
      BY <3>1, <3>3, <3>5
    <3> QED
      BY <3>6
  <2>2. C \in SUBSET Nat
    OBVIOUS
  <2>3. C = {}
    <3> HIDE DEF C
    <3> QED
      BY <2>1, <2>2, LeastNat
  <2> QED
    BY <2>3
<1> DEFINE F == [n \in Nat |-> G(n)[n]]
<1>4. F \in [Nat -> X]
  <2>1. \A n \in Nat : G(n)[n] \in X
    <3> SUFFICES ASSUME NEW n \in Nat PROVE G(n)[n] \in X
      OBVIOUS
    <3>1. G(n) \in [0 .. n -> X] /\ n \in 0 .. n
      BY <1>2
    <3> QED
      BY <3>1
  <2> QED
    BY <2>1
<1>5. F[0] = b
  BY <1>2
<1>6. ASSUME NEW n \in Nat
      PROVE  F[n + 1] = step[F[n]]
  <2>1. /\ n + 1 \in Nat /\ n + 1 \in 1 .. n + 1 /\ (n + 1) - 1 = n
        /\ n \in 0 .. n
    OBVIOUS
  <2>2. G(n + 1)[n + 1] = step[G(n + 1)[n]]
    BY <1>2, <2>1
  <2>3. G(n)[n] = G(n + 1)[n]
    BY <1>3, <2>1
  <2> QED
    BY <2>1, <2>2, <2>3
<1> HIDE DEF F
<1> QED
  BY <1>4, <1>5, <1>6 DEF Repeats

\* What a tournament of these knights has to keep.
Best(ks) == [piece \in {"weapon", "armour"} |-> Tournament!Best(ks, piece)]

\* The greatest of finitely many numbers.
LEMMA BestIs ==
  ASSUME NEW ks \in Seq(Knights), ks # <<>>, NEW piece \in {"weapon", "armour"}
  PROVE  Tops(Among(ks), piece, Tournament!Best(ks, piece))
<1> DEFINE S == {ks[i][piece] : i \in DOMAIN ks}
           T(n) == {ks[i][piece] : i \in 1 .. n}
           m == Len(ks)
           Has(n) == \E x \in T(n) : \A y \in T(n) : x >= y
           B == {n \in 1 .. m : ~Has(n)}
<1>1. /\ m \in Nat /\ m # 0 /\ DOMAIN ks = 1 .. m
      /\ \A i \in 1 .. m : ks[i][piece] \in Nat
  <2>1. \A i \in DOMAIN ks : ks[i] \in Knights
    OBVIOUS
  <2>2. \A k \in Knights : k[piece] \in Nat
    BY DEF Knights
  <2> QED
    BY <2>1, <2>2
<1> HIDE DEF m
<1>2. \A n \in 1 .. m : Has(n)
  <2>1. ASSUME NEW n \in B, \A k \in B : n <= k
        PROVE  FALSE
    <3>1. n \in 1 .. m /\ ~Has(n)
      OBVIOUS
    <3>2. CASE n = 1
      <4>1. T(1) = {ks[1][piece]}
        OBVIOUS
      <4>2. ks[1][piece] >= ks[1][piece]
        BY <1>1, <3>1, <3>2
      <4> HIDE DEF T
      <4> QED
        BY <3>1, <3>2, <4>1, <4>2
    <3>3. CASE n # 1
      <4>1. n - 1 \in 1 .. m /\ n - 1 < n
        BY <1>1, <3>1, <3>3
      <4>8. n - 1 \notin B
        <5>1. n \in Nat /\ n - 1 < n
          BY <1>1, <3>1
        <5> HIDE DEF B
        <5> QED
          BY <2>1, <5>1
      <4>9. Has(n - 1)
        BY <4>1, <4>8
      <4>2. PICK x \in T(n - 1) : \A y \in T(n - 1) : x >= y
        BY <4>9
      <4>3. T(n) = T(n - 1) \cup {ks[n][piece]}
        <5>1. 1 .. n = (1 .. n - 1) \cup {n}
          BY <3>1
        <5> QED
          BY <5>1
      <4>4. \A y \in T(n) : y \in Nat
        BY <1>1, <3>1
      <4> DEFINE z == ks[n][piece]
      <4>5. x \in Nat /\ z \in Nat /\ z \in T(n) /\ x \in T(n)
        BY <4>2, <4>3, <4>4
      <4> HIDE DEF z, T
      <4>6. CASE x >= z
        BY <3>1, <4>2, <4>3, <4>5, <4>6 DEF z
      <4>7. CASE ~(x >= z)
        <5>1. \A y \in T(n) : z >= y
          BY <4>2, <4>3, <4>4, <4>5, <4>7, SMTT(30) DEF z
        <5> QED
          BY <3>1, <4>5, <5>1
      <4> QED
        BY <4>6, <4>7
    <3> QED
      BY <3>2, <3>3
  <2>2. B \in SUBSET Nat
    BY <1>1
  <2>3. B = {}
    <3> HIDE DEF B
    <3> QED
      BY <2>1, <2>2, LeastNat
  <2> QED
    BY <2>3
<1>3. Has(m) /\ T(m) = S
  <2>1. m \in 1 .. m /\ T(m) = S
    BY <1>1
  <2> HIDE DEF Has
  <2> QED
    BY <1>2, <2>1
<1>4. Tournament!Best(ks, piece) = Tournament!Max(S)
  BY DEF Tournament!Best
<1>5. \E x \in S : \A y \in S : x >= y
  BY <1>3
<1> DEFINE v == Tournament!Max(S)
<1>6. v \in S /\ \A y \in S : v >= y
  <2> HIDE DEF S
  <2> QED
    BY <1>5 DEF Tournament!Max
<1> HIDE DEF v
<1>7. v \in Nat /\ \A i \in DOMAIN ks : ks[i][piece] <= v
  BY <1>1, <1>6
<1>8. \E i \in DOMAIN ks : ks[i][piece] = v
  BY <1>6
<1> QED
  BY <1>4, <1>7, <1>8 DEF Tops, Among, v

\* The best pieces are determined.
LEMMA BestBy ==
  ASSUME NEW ks \in Seq(Knights), ks # <<>>,
         NEW piece \in {"weapon", "armour"}, NEW v, Tops(Among(ks), piece, v)
  PROVE  Tournament!Best(ks, piece) = v
<1>4. Among(ks) # {}
  BY DEF Among
<1> DEFINE u == Tournament!Best(ks, piece)
<1>1. Tops(Among(ks), piece, u)
  BY BestIs
<1>2. \A k \in Among(ks) : k[piece] \in Nat
  <2>1. \A k \in Among(ks) : k \in Knights
    BY DEF Among
  <2>2. \A k \in Knights : k[piece] \in Nat
    BY DEF Knights
  <2> QED
    BY <2>1, <2>2
<1> HIDE DEF u
<1>3. u \in Nat /\ v \in Nat /\ u <= v /\ v <= u
  BY <1>1, <1>2, <1>4 DEF Tops
<1> QED
  BY <1>3 DEF u

\* A whole tournament.
LEMMA FightsKeep ==
  ASSUME NEW p \in Seq(Knights), NEW n, n = Len(p),
         NEW e, e = Tournament!Fights([pretenders |-> p, eliminated |-> <<>>])
  PROVE  /\ Fought(e, n, Tournament!Gold(p), Best(p))
         /\ Len(e.pretenders) <= 1
<1> DEFINE t == [pretenders |-> p, eliminated |-> <<>>]
           v == Best(p)
           g == Tournament!Gold(p)
           X == {l \in Lists : Fought(l, n, g, v)}
           Round(l) == IF Len(l.pretenders) < 2 THEN l ELSE Tournament!Fight(l)
           step == [l \in X |-> Round(l)]
           Rounds(h) ==
             h = [k \in Nat |-> IF k = 0 THEN t
                                ELSE IF Len(h[k - 1].pretenders) < 2
                                     THEN h[k - 1]
                                     ELSE Tournament!Fight(h[k - 1])]
<1>1. n \in Nat /\ <<>> \in Seq(Knights) /\ Len(<<>>) = 0
      /\ p \o <<>> = p
  OBVIOUS
<1>2. g \in Nat
  BY <1>1, GoldConcat
<1>3. t \in X
  <2>1. t \in Lists
    BY <1>1 DEF Lists
  <2>2. Treasure(t) = g
    BY <1>2, GoldEmpty DEF Treasure
  <2>3. All(t) = Among(p)
    BY DEF All, Among
  <2>4. \A piece \in {"weapon", "armour"} : Tops(Among(p), piece, v[piece])
    <3>1. CASE p = <<>>
      BY <3>1 DEF Tops, Among
    <3>2. CASE p # <<>>
      BY <3>2, BestIs DEF Best
    <3> QED
      BY <3>1, <3>2
  <2>5. Len(t.pretenders) + Len(t.eliminated) = n
    BY <1>1
  <2> HIDE DEF t, v, g
  <2>6. Fought(t, n, g, v)
    BY <2>1, <2>2, <2>3, <2>4, <2>5 DEF Fought
  <2> QED
    BY <2>1, <2>6
<1>4. \A l \in X : ~(Len(l.pretenders) < 2) =>
        /\ Tournament!Fight(l) \in X
        /\ Len(Tournament!Fight(l).pretenders) < Len(l.pretenders)
  <2> SUFFICES ASSUME NEW l \in X, ~(Len(l.pretenders) < 2)
               PROVE  /\ Fought(Tournament!Fight(l), n, g, v)
                      /\ Len(Tournament!Fight(l).pretenders)
                           < Len(l.pretenders)
    BY DEF Fought
  <2> HIDE DEF g, v
  <2> QED
    BY <1>1, <1>2, FightKeeps
<1> HIDE DEF t, v, g, X
<1>5. step \in [X -> X]
  BY <1>4
<1>6. PICK f \in [Nat -> X] : f[0] = t /\ \A k \in Nat : f[k + 1] = step[f[k]]
  <2> HIDE DEF step, Round
  <2>1. \E f : Repeats(f, X, t, step)
    BY <1>3, <1>5, Recursion
  <2> QED
    BY <2>1 DEF Repeats
<1>7. Rounds(f)
  <2> DEFINE c(k) == IF k = 0 THEN t
                     ELSE IF Len(f[k - 1].pretenders) < 2 THEN f[k - 1]
                          ELSE Tournament!Fight(f[k - 1])
  <2>1. ASSUME NEW k \in Nat
        PROVE  f[k] = c(k)
    <3>1. CASE k = 0
      BY <1>6, <3>1
    <3>2. CASE k # 0
      <4>1. k - 1 \in Nat /\ (k - 1) + 1 = k
        BY <3>2
      <4>2. f[k] = step[f[k - 1]] /\ f[k - 1] \in X
        BY <1>6, <4>1
      <4> QED
        BY <3>2, <4>2
    <3> QED
      BY <3>1, <3>2
  <2> HIDE DEF c
  <2>2. f = [k \in Nat |-> c(k)]
    BY <2>1
  <2> QED
    BY <2>2 DEF c
<1> DEFINE After == CHOOSE h : Rounds(h)
<1>8. Rounds(After)
  BY <1>7
<1>9. e = After[n]
  BY DEF Tournament!Fights, t
<1> HIDE DEF After, step
<1> DEFINE B == {k \in Nat : ~(/\ After[k] \in X
                               /\ \/ Len(After[k].pretenders) <= 1
                                  \/ Len(After[k].pretenders) + k <= n)}
<1>10. \A l \in X : Len(l.pretenders) \in Nat
  BY DEF X, Lists
<1>11. ASSUME NEW k \in B, \A i \in B : k <= i
       PROVE  FALSE
  <2>1. CASE k = 0
    <3>1. After[0] = t
      BY <1>8
    <3>2. Len(t.pretenders) + 0 <= n
      BY <1>1 DEF t
    <3> QED
      BY <1>3, <2>1, <3>1, <3>2
  <2>2. CASE k # 0
    <3>1. k \in Nat /\ k - 1 \in Nat /\ k - 1 < k
      BY <2>2
    <3>2. k - 1 \notin B
      BY <1>11, <3>1
    <3> DEFINE l == After[k - 1]
    <3>3. /\ l \in X
          /\ Len(l.pretenders) <= 1 \/ Len(l.pretenders) + (k - 1) <= n
      BY <3>1, <3>2
    <3>4. After[k] = IF Len(l.pretenders) < 2 THEN l ELSE Tournament!Fight(l)
      BY <1>8, <2>2, <3>1
    <3>5. Len(l.pretenders) \in Nat
      BY <1>10, <3>3
    <3> HIDE DEF l
    <3>6. CASE Len(l.pretenders) < 2
      <4>1. Len(l.pretenders) <= 1
        BY <3>5, <3>6
      <4> QED
        BY <3>3, <3>4, <3>6, <4>1
    <3>7. CASE ~(Len(l.pretenders) < 2)
      <4>1. /\ After[k] \in X
            /\ Len(After[k].pretenders) < Len(l.pretenders)
        BY <1>4, <3>3, <3>4, <3>7
      <4>2. Len(After[k].pretenders) \in Nat
        BY <1>10, <4>1
      <4>3. Len(After[k].pretenders) + k <= n
        BY <1>1, <3>1, <3>3, <3>5, <3>7, <4>1, <4>2
      <4> QED
        BY <4>1, <4>3
    <3> QED
      BY <3>6, <3>7
  <2> QED
    BY <2>1, <2>2
<1>12. B = {}
  <2>1. B \in SUBSET Nat
    OBVIOUS
  <2> HIDE DEF B
  <2> QED
    BY <1>11, <2>1, LeastNat
<1>13. /\ e \in X
       /\ Len(e.pretenders) <= 1 \/ Len(e.pretenders) + n <= n
  BY <1>1, <1>9, <1>12
<1>14. Len(e.pretenders) <= 1
  BY <1>1, <1>10, <1>13
<1> QED
  BY <1>13, <1>14 DEF X, g, v

\* What play() gives.
LEMMA PlayKeeps ==
  ASSUME pretenders \in Seq(Knights), Tournament!play, pretenders # <<>>
  PROVE  LET all == pretenders' \o eliminated'
         IN /\ Len(all) = Len(pretenders) /\ Len(pretenders') <= 1
            /\ \/ Tournament!Gold(all) = Tournament!Gold(pretenders)
               \/ /\ Tournament!Gold(all) < Tournament!Gold(pretenders)
                  /\ MAX_GOLD \in {all[i].gold : i \in DOMAIN all}
            /\ \A piece \in {"weapon", "armour"} :
                 Tournament!Best(all, piece)
                   = Tournament!Best(pretenders, piece)
<1> DEFINE all == pretenders' \o eliminated'
           p == pretenders'
           q == eliminated'
           e == Tournament!Fights([pretenders |-> pretenders,
                                   eliminated |-> <<>>])
           g == Tournament!Gold(pretenders)
           n == Len(pretenders)
<1>1. p = e.pretenders /\ q = e.eliminated
  BY DEF Tournament!play
<1>2. Fought(e, n, g, Best(pretenders)) /\ Len(e.pretenders) <= 1
  BY FightsKeep
<1>3. p \in Seq(Knights) /\ q \in Seq(Knights) /\ Len(p) + Len(q) = n
  BY <1>1, <1>2 DEF Fought, Lists
<1>4. n \in Nat /\ n # 0
  OBVIOUS
<1> HIDE DEF p, q, e, n, g
<1> DEFINE a == p \o q
<1>5. a = all /\ a \in Seq(Knights) /\ Len(a) = n
  BY <1>3 DEF p, q
<1>6. Among(a) = All(e)
  BY <1>1, <1>3, AmongConcat DEF All
<1>7. Tournament!Gold(a) = Treasure(e)
  BY <1>1, <1>3, GoldConcat DEF Treasure
<1> HIDE DEF a
<1>8. \/ Tournament!Gold(a) = g
      \/ Tournament!Gold(a) < g /\ Bursting(Among(a))
  BY <1>2, <1>6, <1>7 DEF Fought
<1>9. Bursting(Among(a)) => MAX_GOLD \in {a[i].gold : i \in DOMAIN a}
  BY DEF Bursting, Among
<1>10. a # <<>>
  BY <1>4, <1>5
<1>11. ASSUME NEW piece \in {"weapon", "armour"}
       PROVE  Tournament!Best(a, piece) = Tournament!Best(pretenders, piece)
  <2>1. Tops(Among(a), piece, Tournament!Best(pretenders, piece))
    BY <1>2, <1>6 DEF Fought, Best
  <2> QED
    BY <1>5, <1>10, <2>1, BestBy
<1>12. Len(pretenders') <= 1
  BY <1>1, <1>2 DEF p
<1> QED
  BY <1>5, <1>8, <1>9, <1>11, <1>12 DEF g, n

\* Only knights take part.
LEMMA KnightsInit ==
  ASSUME Tournament!Init
  PROVE  pretenders \in Seq(Knights)
<1>1. Tournament!TRAINEE_KNIGHT \in Knights
  BY KnightAssumption
    DEF Tournament!TRAINEE_KNIGHT, Tournament!Knight, Knights
<1> QED
  BY <1>1 DEF Tournament!Init

\* The loop of operator-=, h[U] are the knights of the places U who stay.
LeaveLoop(h, k, ks) ==
  h = [U \in SUBSET DOMAIN ks |->
         IF U = {} THEN <<>>
         ELSE IF ks[Tournament!Max(U)] = k THEN h[U \ {Tournament!Max(U)}]
              ELSE Append(h[U \ {Tournament!Max(U)}],
                          ks[Tournament!Max(U)])]

LEMMA OthersAre ==
  ASSUME NEW ks \in Seq(Knights), NEW k
  PROVE  Tournament!Others(ks, k) \in Seq(Knights)
<1> DEFINE S == DOMAIN ks
           Y == Seq(Knights)
           nobody == <<>>
           op == [x \in S \X Y |-> IF ks[x[1]] = k THEN x[2]
                                   ELSE Append(x[2], ks[x[1]])]
           pick == [U \in SUBSET S |-> Tournament!Max(U)]
<1>1. S = 1 .. Len(ks) /\ Len(ks) \in Nat /\ \A i \in S : ks[i] \in Knights
  OBVIOUS
<1>2. IsFiniteSet(S)
  BY <1>1, FS_Interval
<1>3. op \in [S \X Y -> Y]
  <2>1. \A l \in Y, i \in S : Append(l, ks[i]) \in Y
    BY <1>1
  <2> HIDE DEF S, Y
  <2> QED
    BY <2>1
<1>4. \A U \in SUBSET S :
        U # {} => Tournament!Max(U) \in U /\ pick[U] = Tournament!Max(U)
  <2> SUFFICES ASSUME NEW U \in SUBSET S, U # {}
               PROVE  Tournament!Max(U) \in U
    OBVIOUS
  <2> HIDE DEF S
  <2> QED
    BY <1>1, Extremes, Greatest
<1>5. Picks(pick, S)
  BY <1>4 DEF Picks
<1>6. nobody \in Y
  OBVIOUS
<1> HIDE DEF op, pick, S, Y, nobody
<1>7. PICK f : /\ Folds(f, op, nobody, pick, S)
               /\ \A U \in SUBSET S : f[U] \in Y
  BY <1>2, <1>3, <1>5, <1>6, TypedFold
<1>8. LeaveLoop(f, k, ks)
  <2> DEFINE e(U) ==
               IF U = {} THEN nobody
               ELSE IF ks[Tournament!Max(U)] = k
                    THEN f[U \ {Tournament!Max(U)}]
                    ELSE Append(f[U \ {Tournament!Max(U)}],
                                ks[Tournament!Max(U)])
  <2>1. ASSUME NEW U \in SUBSET S
        PROVE  f[U] = e(U)
    <3>1. CASE U = {}
      <4>1. f[{}] = nobody
        BY <1>7, FoldEmpty
      <4> QED
        BY <3>1, <4>1
    <3>2. CASE U # {}
      <4> DEFINE m == Tournament!Max(U)
      <4>1. m \in S /\ pick[U] = m /\ U \ {m} \in SUBSET S
        BY <1>4, <3>2
      <4>2. f[U] = op[<<m, f[U \ {m}]>>]
        <5>1. f[U] = op[<<pick[U], f[U \ {pick[U]}]>>]
          BY <1>7, <3>2, FoldAt
        <5> HIDE DEF m
        <5> QED
          BY <4>1, <5>1
      <4>3. f[U \ {m}] \in Y
        BY <1>7, <4>1
      <4> HIDE DEF m
      <4>4. op[<<m, f[U \ {m}]>>] = IF ks[m] = k THEN f[U \ {m}]
                                    ELSE Append(f[U \ {m}], ks[m])
        BY <4>1, <4>3 DEF op
      <4> QED
        BY <3>2, <4>2, <4>4 DEF m
    <3> QED
      BY <3>1, <3>2
  <2> HIDE DEF e
  <2>2. f = [U \in SUBSET S |-> f[U]]
    BY <1>7 DEF Folds
  <2>3. f = [U \in SUBSET S |-> e(U)]
    BY <2>1, <2>2
  <2> QED
    BY <2>3 DEF LeaveLoop, e, S, nobody
<1> DEFINE h == CHOOSE l : LeaveLoop(l, k, ks)
<1>9. LeaveLoop(h, k, ks)
  BY <1>8
<1>10. Tournament!Others(ks, k) = h[S]
  BY DEF Tournament!Others, Tournament!FoldLeft, Tournament!MapThenFoldSet,
         LeaveLoop, S
<1> HIDE DEF h
<1>11. h[{}] = nobody
  BY <1>9 DEF LeaveLoop, nobody
<1> DEFINE B == {U \in SUBSET S : h[U] \in Y}
<1>12. B \in SUBSET SUBSET S /\ {} \in B
  BY <1>6, <1>11
<1>13. ASSUME NEW U \in SUBSET S, U # {}, U \ {pick[U]} \in B
       PROVE  U \in B
  <2> DEFINE m == Tournament!Max(U)
  <2>1. m \in S /\ pick[U] = m /\ h[U \ {m}] \in Y
    BY <1>4, <1>13
  <2>2. h[U] = IF ks[m] = k THEN h[U \ {m}] ELSE Append(h[U \ {m}], ks[m])
    BY <1>9, <1>13 DEF LeaveLoop, S
  <2> HIDE DEF m
  <2>3. ks[m] \in Knights
    BY <1>1, <2>1
  <2>4. Append(h[U \ {m}], ks[m]) \in Y
    BY <2>1, <2>3 DEF Y
  <2> QED
    BY <2>1, <2>2, <2>4
<1> HIDE DEF B
<1>14. B = SUBSET S
  BY <1>2, <1>5, <1>12, <1>13, PickInduction
<1> QED
  BY <1>10, <1>14 DEF B, Y

LEMMA KnightsNext ==
  ASSUME pretenders \in Seq(Knights), [Tournament!Next]_(Tournament!vars)
  PROVE  pretenders' \in Seq(Knights)
<1>1. CASE Tournament!Enter
  <2>1. PICK k \in Entrant : pretenders' = Append(pretenders, k)
    BY <1>1 DEF Tournament!Enter
  <2>2. k \in Knights
    BY KnightAssumption DEF Knights
  <2> QED
    BY <2>1, <2>2
<1>2. CASE Tournament!Withdraw
  <2>1. PICK k \in Entrant : pretenders' = Tournament!Others(pretenders, k)
    BY <1>2 DEF Tournament!Withdraw
  <2> QED
    BY <2>1, OthersAre
<1>3. CASE Tournament!play
  <2> DEFINE e == Tournament!Fights([pretenders |-> pretenders,
                                     eliminated |-> <<>>])
  <2>1. pretenders' = e.pretenders
    BY <1>3 DEF Tournament!play
  <2>2. e \in Lists
    BY FightsKeep DEF Fought
  <2> HIDE DEF e
  <2> QED
    BY <2>1, <2>2 DEF Lists
<1> QED
  BY <1>1, <1>2, <1>3 DEF Tournament!Next, Tournament!vars

\* No tournament loses a knight or makes gold, whatever the purses hold, and
\* the best weapon and the best armour stay with somebody (knights.h lines 41,
\* 129-137, 205-229), for every number of knights and of rounds.
THEOREM NothingIsLost ==
  Spec => NothingFromNothing
<1> DEFINE Inv == pretenders \in Seq(Knights)
           Kept == Tournament!play /\ pretenders # <<>> =>
             LET all == pretenders' \o eliminated'
             IN /\ Len(all) = Len(pretenders) /\ Len(pretenders') <= 1
                /\ \/ Tournament!Gold(all) = Tournament!Gold(pretenders)
                   \/ /\ Tournament!Gold(all) < Tournament!Gold(pretenders)
                      /\ MAX_GOLD \in {all[i].gold : i \in DOMAIN all}
                /\ \A piece \in {"weapon", "armour"} :
                     Tournament!Best(all, piece)
                       = Tournament!Best(pretenders, piece)
<1>1. Init => Inv
  BY KnightsInit DEF Init
<1>2. Inv /\ [Next]_vars => Inv'
  <2>1. [Next]_vars => [Tournament!Next]_(Tournament!vars)
    BY DEF Next, vars, tournament, Tournament!vars
  <2> QED
    BY <2>1, KnightsNext
<1>3. Inv => Kept
  BY PlayKeeps
<1>4. NothingFromNothing <=> [][Kept]_(Tournament!vars)
  BY DEF NothingFromNothing, Tournament!NothingFromNothing
<1> HIDE DEF Inv, Kept
<1> QED
  BY <1>1, <1>2, <1>3, <1>4, PTL DEF Spec

-----------------------------------------------------------------------------
(* Office queues                                                           *)

Pointers == [Office!Node -> Office!Node \cup {Office!nullptr}]
Mem == [l1 : Pointers, l2 : Pointers]

\* In the memory m the node x has the neighbours u and v.
Beside(m, x, u, v) ==
  \/ m.l1[x] = u /\ m.l2[x] = v
  \/ m.l1[x] = v /\ m.l2[x] = u

\* Node x is an end of a queue, and v is its neighbour.
IsEnd(m, x, v) == m.l1[x] = Office!nullptr /\ m.l2[x] = v

Alike(m, w, x) == w.l1[x] = m.l1[x] /\ w.l2[x] = m.l2[x]

\* A customer's number is not nullptr, nor is an end.
LEMMA NodesAre ==
  /\ Office!nullptr \notin Office!Node
  /\ Office!Customer \subseteq Office!Node
  /\ \A k \in Window :
       /\ -2 * k \in Office!Node \ Office!Customer
       /\ -2 * k - 1 \in Office!Node \ Office!Customer
  /\ Window \subseteq Nat \ {0} /\ Office!Node \subseteq Int
<1>1. \A k \in Window : k \in Nat /\ k >= 1
  <2> DEFINE m == Cardinality(Window)
  <2>1. m \in Nat /\ Window = 1 .. m
    BY WindowAssumption, FS_CardinalityType
  <2> HIDE DEF m
  <2> QED
    BY <2>1
<1>2. \A n \in Office!Customer : n \in Nat
  BY WindowAssumption DEF Office!Customer
<1>3. ASSUME NEW k \in Window
      PROVE  -2 * k \in Office!Node /\ -2 * k - 1 \in Office!Node
  BY DEF Office!Node
<1>4. ASSUME NEW k \in Window
      PROVE  -2 * k < -1 /\ -2 * k - 1 < -1 /\ -2 * k \in Int
  BY <1>1
<1>5. Office!nullptr = -1
  BY DEF Office!nullptr
<1>6. ASSUME NEW n \in Office!Node
      PROVE  n \in Int /\ n # -1
  <2>1. CASE n \in Office!Customer
    BY <1>2, <2>1
  <2>2. CASE n \notin Office!Customer
    <3>1. PICK k \in Window : n \in {-2 * k, -2 * k - 1}
      BY <2>2 DEF Office!Node
    <3> QED
      BY <1>4, <3>1
  <2> QED
    BY <2>1, <2>2
<1>7. ASSUME NEW k \in Window
      PROVE  -2 * k \notin Office!Customer /\ -2 * k - 1 \notin Office!Customer
  <2>1. -2 * k < 0 /\ -2 * k - 1 < 0 /\ -2 * k \in Int
    BY <1>1
  <2> QED
    BY <1>2, <2>1
<1> QED
  BY <1>1, <1>3, <1>4, <1>5, <1>6, <1>7 DEF Office!Node

\* link() puts nw in the place of old, if old is a neighbour.
LEMMA LinkIs ==
  ASSUME NEW m \in Mem, NEW el \in Office!Node, NEW old, NEW o,
         NEW nw \in Office!Node, Beside(m, el, old, o), old # o,
         NEW w, w = Office!link(m, el, old, nw)
  PROVE  /\ w \in Mem
         /\ Beside(w, el, nw, o)
         /\ \A x \in Office!Node \ {el} : Alike(m, w, x)
         /\ old # Office!nullptr /\ IsEnd(m, el, old) => IsEnd(w, el, nw)
<1>1. el # Office!nullptr
  BY NodesAre
<1>2. m.l1 \in Pointers /\ m.l2 \in Pointers /\ m = [l1 |-> m.l1, l2 |-> m.l2]
  BY DEF Mem
<1>3. w = IF m.l1[el] = old THEN [m EXCEPT !.l1[el] = nw]
          ELSE [m EXCEPT !.l2[el] = nw]
  BY <1>1 DEF Office!link
<1>4. CASE m.l1[el] = old
  <2>1. /\ w.l1 = [m.l1 EXCEPT ![el] = nw] /\ w.l2 = m.l2
        /\ w = [l1 |-> w.l1, l2 |-> w.l2]
    BY <1>2, <1>3, <1>4
  <2>2. w.l1 \in Pointers
    BY <1>2, <2>1 DEF Pointers
  <2>3. w.l1[el] = nw /\ \A x \in Office!Node \ {el} : w.l1[x] = m.l1[x]
    BY <1>2, <2>1 DEF Pointers
  <2> QED
    BY <1>2, <1>4, <2>1, <2>2, <2>3 DEF Mem, Beside, Alike, IsEnd
<1>5. CASE m.l1[el] # old
  <2>1. /\ w.l2 = [m.l2 EXCEPT ![el] = nw] /\ w.l1 = m.l1
        /\ w = [l1 |-> w.l1, l2 |-> w.l2]
    BY <1>2, <1>3, <1>5
  <2>2. w.l2 \in Pointers
    BY <1>2, <2>1 DEF Pointers
  <2>3. w.l2[el] = nw /\ \A x \in Office!Node \ {el} : w.l2[x] = m.l2[x]
    BY <1>2, <2>1 DEF Pointers
  <2> QED
    BY <1>2, <1>5, <2>1, <2>2, <2>3 DEF Mem, Beside, Alike, IsEnd
<1> QED
  BY <1>4, <1>5

\* remove_elem() makes the neighbours of el neighbours of each other.
LEMMA RemoveIs ==
  ASSUME NEW m \in Mem, NEW el \in Office!Node,
         NEW x \in Office!Node, NEW y \in Office!Node,
         x # y, x # el, y # el, NEW u, NEW v, u # el, v # el,
         Beside(m, el, x, y), Beside(m, x, u, el), Beside(m, y, el, v),
         NEW w, w = Office!remove_elem(m, el)
  PROVE  /\ w \in Mem
         /\ Beside(w, x, u, y) /\ Beside(w, y, x, v)
         /\ \A z \in Office!Node \ {x, y} : Alike(m, w, z)
         /\ IsEnd(m, x, el) => IsEnd(w, x, y)
         /\ IsEnd(m, y, el) => IsEnd(w, y, x)
<1>1. el # Office!nullptr
  BY NodesAre
<1>2. Beside(m, x, el, u) /\ Beside(m, y, el, v)
  BY DEF Beside
<1> DEFINE n == Office!link(m, m.l1[el], el, m.l2[el])
<1>3. w = Office!link(n, n.l2[el], el, n.l1[el])
  BY DEF Office!remove_elem
<1>4. CASE m.l1[el] = x /\ m.l2[el] = y
  <2>1. n = Office!link(m, x, el, y)
    BY <1>4
  <2> HIDE DEF n
  <2>2. /\ n \in Mem /\ Beside(n, x, y, u)
        /\ \A z \in Office!Node \ {x} : Alike(m, n, z)
        /\ IsEnd(m, x, el) => IsEnd(n, x, y)
    BY <1>1, <1>2, <2>1, LinkIs
  <2>3. n.l1[el] = x /\ n.l2[el] = y /\ Beside(n, y, el, v)
        /\ (IsEnd(m, y, el) => IsEnd(n, y, el))
    BY <1>2, <1>4, <2>2 DEF Alike, Beside, IsEnd
  <2>4. w = Office!link(n, y, el, x)
    BY <1>3, <2>3
  <2>5. /\ w \in Mem /\ Beside(w, y, x, v)
        /\ \A z \in Office!Node \ {y} : Alike(n, w, z)
        /\ IsEnd(n, y, el) => IsEnd(w, y, x)
    BY <1>1, <2>2, <2>3, <2>4, LinkIs
  <2> QED
    BY <2>2, <2>3, <2>5 DEF Alike, Beside, IsEnd
<1>5. CASE m.l1[el] = y /\ m.l2[el] = x
  <2>1. n = Office!link(m, y, el, x)
    BY <1>5
  <2> HIDE DEF n
  <2>2. /\ n \in Mem /\ Beside(n, y, x, v)
        /\ \A z \in Office!Node \ {y} : Alike(m, n, z)
        /\ IsEnd(m, y, el) => IsEnd(n, y, x)
    BY <1>1, <1>2, <2>1, LinkIs
  <2>3. n.l1[el] = y /\ n.l2[el] = x /\ Beside(n, x, el, u)
        /\ (IsEnd(m, x, el) => IsEnd(n, x, el))
    BY <1>2, <1>5, <2>2 DEF Alike, Beside, IsEnd
  <2>4. w = Office!link(n, x, el, y)
    BY <1>3, <2>3
  <2>5. /\ w \in Mem /\ Beside(w, x, y, u)
        /\ \A z \in Office!Node \ {x} : Alike(n, w, z)
        /\ IsEnd(n, x, el) => IsEnd(w, x, y)
    BY <1>1, <2>2, <2>3, <2>4, LinkIs
  <2> QED
    BY <2>2, <2>3, <2>5 DEF Alike, Beside, IsEnd
<1> QED
  BY <1>4, <1>5 DEF Beside

\* push_back() puts el between the tail and its neighbour.
LEMMA PushIs ==
  ASSUME NEW m \in Mem, NEW el \in Office!Node,
         NEW last \in Office!Node, NEW tail \in Office!Node,
         last # tail, last # el, tail # el, NEW u, u # tail,
         IsEnd(m, tail, last), Beside(m, last, u, tail),
         NEW w, w = Office!push_back(m, tail, el)
  PROVE  /\ w \in Mem
         /\ Beside(w, last, u, el) /\ Beside(w, el, last, tail)
         /\ IsEnd(w, tail, el)
         /\ \A z \in Office!Node \ {last, tail, el} : Alike(m, w, z)
         /\ IsEnd(m, last, tail) => IsEnd(w, last, el)
<1> DEFINE m1 == [m EXCEPT !.l1[el] = tail, !.l2[el] = last]
           n == Office!link(m1, last, tail, el)
<1>1. m.l1 \in Pointers /\ m.l2 \in Pointers /\ m = [l1 |-> m.l1, l2 |-> m.l2]
  BY DEF Mem
<1>2. m.l2[tail] = last
  BY DEF IsEnd
<1>3. w = [n EXCEPT !.l2[tail] = el]
  BY <1>2 DEF Office!push_back
<1>4. /\ m1.l1 = [m.l1 EXCEPT ![el] = tail]
      /\ m1.l2 = [m.l2 EXCEPT ![el] = last]
      /\ m1 = [l1 |-> m1.l1, l2 |-> m1.l2]
  <2> DEFINE m0 == [m EXCEPT !.l1[el] = tail]
  <2>1. m0.l1 = [m.l1 EXCEPT ![el] = tail] /\ m0.l2 = m.l2
        /\ m0 = [l1 |-> m0.l1, l2 |-> m0.l2]
    BY <1>1
  <2>2. m1 = [m0 EXCEPT !.l2[el] = last]
    OBVIOUS
  <2> HIDE DEF m0
  <2> QED
    BY <2>1, <2>2
<1> HIDE DEF m1
<1>5. m1.l1 \in Pointers /\ m1.l2 \in Pointers
  BY <1>1, <1>4 DEF Pointers
<1>6. /\ m1 \in Mem /\ Beside(m1, el, last, tail)
      /\ \A z \in Office!Node \ {el} : Alike(m, m1, z)
  BY <1>1, <1>4, <1>5 DEF Mem, Beside, Alike, Pointers
<1>7. /\ Beside(m1, last, tail, u)
      /\ IsEnd(m, last, tail) => IsEnd(m1, last, tail)
      /\ IsEnd(m1, tail, last)
  BY <1>6 DEF Alike, Beside, IsEnd
<1>8. tail # Office!nullptr
  BY NodesAre
<1>9. /\ n \in Mem /\ Beside(n, last, el, u)
      /\ \A z \in Office!Node \ {last} : Alike(m1, n, z)
      /\ IsEnd(m1, last, tail) => IsEnd(n, last, el)
  BY <1>6, <1>7, <1>8, LinkIs
<1> HIDE DEF n
<1>10. n.l1 \in Pointers /\ n.l2 \in Pointers /\ n = [l1 |-> n.l1, l2 |-> n.l2]
  BY <1>9 DEF Mem
<1>11. /\ w.l1 = n.l1 /\ w.l2 = [n.l2 EXCEPT ![tail] = el]
       /\ w = [l1 |-> w.l1, l2 |-> w.l2]
  BY <1>3, <1>10
<1>12. w.l2 \in Pointers
  BY <1>10, <1>11 DEF Pointers
<1>13. w \in Mem /\ \A z \in Office!Node \ {tail} : Alike(n, w, z)
  BY <1>10, <1>11, <1>12 DEF Mem, Alike, Pointers
<1>14. w.l1[tail] = n.l1[tail] /\ w.l2[tail] = el
  BY <1>10, <1>11 DEF Pointers
<1>15. n.l1[tail] = Office!nullptr
  BY <1>7, <1>9 DEF Alike, IsEnd
<1> QED
  BY <1>6, <1>7, <1>9, <1>13, <1>14, <1>15 DEF Alike, Beside, IsEnd

-----------------------------------------------------------------------------
(* Threads of nodes                                                        *)

\* The nodes s lie one beside the other in m, from one end to the other.
Thread(m, s) ==
  /\ s \in Seq(Office!Node) /\ Len(s) >= 2
  /\ \A i, j \in 1 .. Len(s) : s[i] = s[j] => i = j
  /\ IsEnd(m, s[1], s[2]) /\ IsEnd(m, s[Len(s)], s[Len(s) - 1])
  /\ \A i \in 2 .. Len(s) - 1 : Beside(m, s[i], s[i - 1], s[i + 1])

\* The neighbours of the i-th node.
Before(s, i) == IF i = 1 THEN Office!nullptr ELSE s[i - 1]
After(s, i) == IF i = Len(s) THEN Office!nullptr ELSE s[i + 1]

LEMMA ThreadAt ==
  ASSUME NEW m, NEW s, Thread(m, s), NEW i \in 1 .. Len(s)
  PROVE  /\ s[i] \in Office!Node
         /\ Beside(m, s[i], Before(s, i), After(s, i))
         /\ Before(s, i) \in Office!Node \cup {Office!nullptr}
         /\ After(s, i) \in Office!Node \cup {Office!nullptr}
         /\ Before(s, i) # After(s, i)
         /\ \A j \in 1 .. Len(s) : Before(s, i) = s[j] => j = i - 1
         /\ \A j \in 1 .. Len(s) : After(s, i) = s[j] => j = i + 1
<1>1. /\ Len(s) \in Nat /\ Len(s) >= 2
      /\ \A j \in 1 .. Len(s) : s[j] \in Office!Node
  BY DEF Thread
<1>2. Beside(m, s[i], Before(s, i), After(s, i))
  BY <1>1 DEF Thread, Beside, IsEnd, Before, After
<1>3. /\ i # 1 => i - 1 \in 1 .. Len(s)
      /\ i # Len(s) => i + 1 \in 1 .. Len(s)
  BY <1>1
<1>4. \A j \in 1 .. Len(s) : s[j] # Office!nullptr
  BY <1>1, NodesAre
<1>5. \A j \in 1 .. Len(s) : Before(s, i) = s[j] => j = i - 1
  BY <1>1, <1>3, <1>4 DEF Thread, Before
<1>6. \A j \in 1 .. Len(s) : After(s, i) = s[j] => j = i + 1
  BY <1>1, <1>3, <1>4 DEF Thread, After
<1>7. Before(s, i) # After(s, i)
  <2>1. CASE i = 1
    BY <1>1, <1>3, <1>4, <2>1 DEF Before, After
  <2>2. CASE i # 1
    <3>1. Before(s, i) = s[i - 1]
      BY <2>2 DEF Before
    <3>2. After(s, i) = s[i - 1] => i - 1 = i + 1
      BY <1>3, <1>6, <2>2
    <3>3. i - 1 # i + 1
      BY <1>1
    <3> QED
      BY <3>1, <3>2, <3>3
  <2> QED
    BY <2>1, <2>2
<1> QED
  BY <1>1, <1>2, <1>3, <1>5, <1>6, <1>7 DEF Before, After

LEMMA ThreadDiffers ==
  ASSUME NEW m, NEW s, Thread(m, s), NEW i \in 1 .. Len(s),
         NEW j \in 1 .. Len(s), i # j
  PROVE  s[i] # s[j] /\ s[i] \in Office!Node /\ s[j] \in Office!Node
BY DEF Thread

\* A thread stays where its nodes stay.
LEMMA ThreadStays ==
  ASSUME NEW m, NEW w, NEW s, Thread(m, s),
         \A i \in 1 .. Len(s) : Alike(m, w, s[i])
  PROVE  Thread(w, s)
<1>1. /\ Len(s) \in Nat /\ Len(s) >= 2
      /\ 1 \in 1 .. Len(s) /\ Len(s) \in 1 .. Len(s)
  BY DEF Thread
<1>2. \A i \in 2 .. Len(s) - 1 : i \in 1 .. Len(s)
  BY <1>1
<1> QED
  BY <1>1, <1>2 DEF Thread, Alike, Beside, IsEnd

Without(s, p) ==
  [i \in 1 .. Len(s) - 1 |-> IF i < p THEN s[i] ELSE s[i + 1]]

LEMMA WithoutIs ==
  ASSUME NEW T, NEW s \in Seq(T), NEW p \in 1 .. Len(s)
  PROVE  /\ Without(s, p) \in Seq(T)
         /\ Len(Without(s, p)) = Len(s) - 1
         /\ \A i \in 1 .. p - 1 : Without(s, p)[i] = s[i]
         /\ \A i \in p .. Len(s) - 1 : Without(s, p)[i] = s[i + 1]
<1> DEFINE n == Len(s) - 1
<1>1. n \in Nat /\ Len(s) = n + 1
  OBVIOUS
<1>2. \A i \in 1 .. n : (IF i < p THEN s[i] ELSE s[i + 1]) \in T
  <2> TAKE i \in 1 .. n
  <2>1. i \in 1 .. Len(s) /\ i + 1 \in 1 .. Len(s)
    BY <1>1
  <2> QED
    BY <2>1
<1>3. Without(s, p) = [i \in 1 .. n |-> IF i < p THEN s[i] ELSE s[i + 1]]
  BY DEF Without
<1>4. /\ \A i \in 1 .. p - 1 : i \in 1 .. n /\ i < p
      /\ \A i \in p .. n : i \in 1 .. n /\ ~(i < p)
  BY <1>1
<1> HIDE DEF n
<1>5. Without(s, p) \in Seq(T) /\ Len(Without(s, p)) = n
  BY <1>1, <1>2, <1>3
<1>6. \A i \in 1 .. p - 1 : Without(s, p)[i] = s[i]
  BY <1>3, <1>4
<1>7. \A i \in p .. n : Without(s, p)[i] = s[i + 1]
  BY <1>3, <1>4
<1> QED
  BY <1>5, <1>6, <1>7 DEF n

\* remove_elem() takes one node out of a thread.
LEMMA RemoveKeeps ==
  ASSUME NEW m \in Mem, NEW s, Thread(m, s), NEW p \in 2 .. Len(s) - 1,
         NEW w, w = Office!remove_elem(m, s[p])
  PROVE  /\ w \in Mem /\ Thread(w, Without(s, p))
         /\ \A z \in Office!Node :
              z # s[p - 1] /\ z # s[p + 1] => Alike(m, w, z)
<1> DEFINE x == s[p - 1]
           y == s[p + 1]
           el == s[p]
           u == Before(s, p - 1)
           v == After(s, p + 1)
           t == Without(s, p)
           n == Len(s)
<1>1. /\ n \in Nat /\ n >= 3 /\ s \in Seq(Office!Node)
      /\ p \in 1 .. n /\ p - 1 \in 1 .. n /\ p + 1 \in 1 .. n
      /\ p \in Int /\ p # p - 1 /\ p # p + 1 /\ p - 1 # p + 1
      /\ (p - 1) - 1 # p /\ (p + 1) + 1 # p
      /\ (p - 1) + 1 = p /\ (p + 1) - 1 = p
  BY DEF Thread
<1>2. x # y /\ x # el /\ y # el
  BY <1>1 DEF Thread
<1>3. /\ x \in Office!Node /\ y \in Office!Node /\ el \in Office!Node
      /\ u # el /\ v # el
  BY <1>1, ThreadAt
<1>4. /\ After(s, p - 1) = el /\ Before(s, p + 1) = el
      /\ Before(s, p) = x /\ After(s, p) = y
  BY <1>1 DEF Before, After
<1>5. Beside(m, el, x, y) /\ Beside(m, x, u, el) /\ Beside(m, y, el, v)
  BY <1>1, <1>4, ThreadAt
<1>6. /\ w \in Mem /\ Beside(w, x, u, y) /\ Beside(w, y, x, v)
      /\ \A z \in Office!Node \ {x, y} : Alike(m, w, z)
      /\ IsEnd(m, x, el) => IsEnd(w, x, y)
      /\ IsEnd(m, y, el) => IsEnd(w, y, x)
  <2> HIDE DEF x, y, u, v, el
  <2> QED
    BY <1>2, <1>3, <1>5, RemoveIs DEF el
<1>7. /\ t \in Seq(Office!Node) /\ Len(t) = n - 1
      /\ \A i \in 1 .. p - 1 : t[i] = s[i]
      /\ \A i \in p .. n - 1 : t[i] = s[i + 1]
  BY <1>1, WithoutIs
<1> HIDE DEF t
<1>8. \A i, j \in 1 .. n - 1 : t[i] = t[j] => i = j
  <2> SUFFICES ASSUME NEW i \in 1 .. n - 1, NEW j \in 1 .. n - 1, t[i] = t[j]
               PROVE  i = j
    OBVIOUS
  <2> DEFINE a == IF i < p THEN i ELSE i + 1
             b == IF j < p THEN j ELSE j + 1
  <2>1. a \in 1 .. n /\ b \in 1 .. n /\ t[i] = s[a] /\ t[j] = s[b]
    BY <1>1, <1>7
  <2>2. a = b
    <3> HIDE DEF a, b
    <3> QED
      BY <2>1 DEF Thread
  <2> QED
    BY <1>1, <2>2
<1>9. \A i \in 1 .. n : i # p - 1 /\ i # p + 1 => Alike(m, w, s[i])
  <2> TAKE i \in 1 .. n
  <2>1. s[i] \in Office!Node
    BY <1>1
  <2>2. i # p - 1 /\ i # p + 1 => s[i] # x /\ s[i] # y
    BY <1>1 DEF Thread
  <2> QED
    BY <1>6, <2>1, <2>2
<1>10. IsEnd(w, t[1], t[2])
  <2>1. CASE p = 2
    <3>1. t[1] = s[1] /\ t[2] = s[3] /\ x = s[1] /\ el = s[2] /\ y = s[3]
      BY <1>1, <1>7, <2>1
    <3>2. IsEnd(m, s[1], s[2])
      BY DEF Thread
    <3> QED
      BY <1>6, <3>1, <3>2
  <2>2. CASE p # 2
    <3>1. t[1] = s[1] /\ t[2] = s[2] /\ 1 \in 1 .. n /\ 1 # p + 1 /\ 1 # p - 1
      BY <1>1, <1>7, <2>2
    <3>2. IsEnd(m, s[1], s[2])
      BY DEF Thread
    <3> QED
      BY <1>9, <3>1, <3>2 DEF Alike, IsEnd
  <2> QED
    BY <2>1, <2>2
<1>11. IsEnd(w, t[n - 1], t[n - 2])
  <2>0. IsEnd(m, s[n], s[n - 1])
    BY DEF Thread
  <2>1. CASE p = n - 1
    <3>2. /\ n - 1 \in p .. n - 1 /\ n - 2 \in 1 .. p - 1
          /\ (n - 1) + 1 = n /\ (n - 1) - 1 = n - 2
      <4> HIDE DEF n
      <4> QED
        BY <1>1, <2>1
    <3>1. /\ t[n - 1] = s[n] /\ t[n - 2] = s[n - 2]
          /\ x = s[n - 2] /\ el = s[n - 1] /\ y = s[n]
      BY <1>7, <2>1, <3>2
    <3> QED
      BY <1>6, <2>0, <3>1
  <2>2. CASE p # n - 1
    <3>1. /\ t[n - 1] = s[n] /\ t[n - 2] = s[n - 1]
          /\ n \in 1 .. n /\ n # p + 1 /\ n # p - 1
      BY <1>1, <1>7, <2>2
    <3> QED
      BY <1>9, <2>0, <3>1 DEF Alike, IsEnd
  <2> QED
    BY <2>1, <2>2
<1>12. ASSUME NEW i \in 2 .. n - 2
       PROVE  Beside(w, t[i], t[i - 1], t[i + 1])
  <2>1. CASE i < p - 1
    <3>3. /\ i \in 1 .. p - 1 /\ i - 1 \in 1 .. p - 1 /\ i + 1 \in 1 .. p - 1
          /\ i \in 1 .. n /\ i \in 2 .. n - 1 /\ i # p - 1 /\ i # p + 1
      BY <1>1, <2>1
    <3>1. t[i] = s[i] /\ t[i - 1] = s[i - 1] /\ t[i + 1] = s[i + 1]
      BY <1>7, <3>3
    <3>2. Beside(m, s[i], s[i - 1], s[i + 1])
      BY <3>3 DEF Thread
    <3> QED
      BY <1>9, <3>1, <3>2, <3>3 DEF Alike, Beside
  <2>2. CASE i = p - 1
    <3>3. /\ i \in 1 .. p - 1 /\ i - 1 \in 1 .. p - 1 /\ i + 1 \in p .. n - 1
          /\ i - 1 = p - 2 /\ (i + 1) + 1 = p + 1
          /\ p - 1 # 1 /\ (p - 1) - 1 = p - 2
      BY <1>1, <2>2
    <3>1. t[i] = x /\ t[i - 1] = s[p - 2] /\ t[i + 1] = y
      BY <1>7, <2>2, <3>3
    <3>2. u = s[p - 2]
      BY <3>3 DEF Before
    <3> QED
      BY <1>6, <3>1, <3>2
  <2>3. CASE i = p
    <3>3. /\ i \in p .. n - 1 /\ i - 1 \in 1 .. p - 1 /\ i + 1 \in p .. n - 1
          /\ (i + 1) + 1 = p + 2 /\ i + 1 = p + 1 /\ i - 1 = p - 1
          /\ p + 1 # n /\ (p + 1) + 1 = p + 2
      BY <1>1, <2>3
    <3>1. t[i] = y /\ t[i - 1] = x /\ t[i + 1] = s[p + 2]
      BY <1>7, <2>3, <3>3
    <3>2. v = s[p + 2]
      BY <3>3 DEF After
    <3> QED
      BY <1>6, <3>1, <3>2
  <2>4. CASE i > p
    <3>3. /\ i \in p .. n - 1 /\ i - 1 \in p .. n - 1 /\ i + 1 \in p .. n - 1
          /\ i + 1 \in 1 .. n /\ i + 1 \in 2 .. n - 1
          /\ i + 1 # p - 1 /\ i + 1 # p + 1
          /\ (i + 1) - 1 = i /\ (i + 1) + 1 = i + 2 /\ (i - 1) + 1 = i
      BY <1>1, <2>4
    <3>1. t[i] = s[i + 1] /\ t[i - 1] = s[i] /\ t[i + 1] = s[i + 2]
      BY <1>7, <3>3
    <3>2. Beside(m, s[i + 1], s[i], s[i + 2])
      BY <3>3 DEF Thread
    <3> QED
      BY <1>9, <3>1, <3>2, <3>3 DEF Alike, Beside
  <2> QED
    BY <1>1, <2>1, <2>2, <2>3, <2>4
<1>13. Len(t) >= 2 /\ Len(t) - 1 = n - 2
  BY <1>1, <1>7
<1>14. Thread(w, t)
  <2> HIDE DEF n
  <2> QED
    BY <1>1, <1>7, <1>8, <1>10, <1>11, <1>12, <1>13 DEF Thread
<1> QED
  BY <1>6, <1>14 DEF t

With(s, el) ==
  [i \in 1 .. Len(s) + 1 |-> IF i < Len(s) THEN s[i]
                             ELSE IF i = Len(s) THEN el ELSE s[Len(s)]]

LEMMA WithIs ==
  ASSUME NEW T, NEW s \in Seq(T), Len(s) >= 2, NEW el \in T
  PROVE  /\ With(s, el) \in Seq(T) /\ Len(With(s, el)) = Len(s) + 1
         /\ \A i \in 1 .. Len(s) - 1 : With(s, el)[i] = s[i]
         /\ With(s, el)[Len(s)] = el /\ With(s, el)[Len(s) + 1] = s[Len(s)]
<1> DEFINE n == Len(s)
           tail == s[n]
           t == With(s, el)
           e(i) == IF i < n THEN s[i] ELSE IF i = n THEN el ELSE tail
<1>1. n \in Nat /\ n >= 2
  OBVIOUS
<1>2. \A i \in 1 .. n + 1 : e(i) \in T
  <2> TAKE i \in 1 .. n + 1
  <2>1. i < n => i \in 1 .. n
    BY <1>1
  <2>2. tail \in T
    BY <1>1, ElementOfSeq
  <2> QED
    BY <2>1, <2>2, ElementOfSeq
<1>3. t = [i \in 1 .. n + 1 |-> e(i)] /\ n + 1 \in Nat
  BY <1>1 DEF With
<1>4. t \in Seq(T) /\ Len(t) = n + 1
  <2> HIDE DEF t, e, n
  <2> QED
    BY <1>2, <1>3
<1>5. \A i \in 1 .. n + 1 : t[i] = e(i)
  <2> HIDE DEF t, e, n
  <2> QED
    BY <1>3
<1>6. /\ \A i \in 1 .. n - 1 : i \in 1 .. n + 1 /\ i < n
      /\ n \in 1 .. n + 1 /\ ~(n < n) /\ n + 1 \in 1 .. n + 1
      /\ ~(n + 1 < n) /\ n + 1 # n
  BY <1>1
<1>7. e(n) = el /\ e(n + 1) = tail /\ \A i \in 1 .. n - 1 : e(i) = s[i]
  BY <1>6
<1> HIDE DEF e, t
<1> QED
  BY <1>4, <1>5, <1>6, <1>7 DEF t

Missing(el, s) == \A i \in 1 .. Len(s) : s[i] # el

\* push_back() puts a node before the tail of a thread.
LEMMA PushKeeps ==
  ASSUME NEW m \in Mem, NEW s, Thread(m, s), NEW el \in Office!Node,
         Missing(el, s),
         NEW w, w = Office!push_back(m, Office!Last(s), el)
  PROVE  /\ w \in Mem /\ Thread(w, With(s, el))
         /\ \A z \in Office!Node :
              /\ z # el /\ z # s[Len(s)] /\ z # s[Len(s) - 1]
              => Alike(m, w, z)
<1> DEFINE n == Len(s)
           last == s[n - 1]
           tail == s[n]
           u == Before(s, n - 1)
           t == With(s, el)
<1>1. n \in Nat /\ n >= 2 /\ s \in Seq(Office!Node)
  BY DEF Thread
<1>0. /\ n \in 1 .. n /\ n - 1 \in 1 .. n /\ n - 1 # n
      /\ n # (n - 1) - 1 /\ (n - 1) + 1 = n
  BY <1>1
<1>2. last # tail /\ last # el /\ tail # el
  BY <1>0, Zenon DEF Thread, Missing
<1>3. last \in Office!Node /\ tail \in Office!Node /\ u # tail
  BY <1>0, ThreadAt, Zenon
<1>4. After(s, n - 1) = tail
  BY <1>0, Zenon DEF After
<1>5. Beside(m, last, u, tail) /\ IsEnd(m, tail, last)
  <2>1. Beside(m, last, u, tail)
    <3>1. Beside(m, s[n - 1], Before(s, n - 1), After(s, n - 1))
      BY <1>0, ThreadAt, Zenon
    <3> QED
      BY <1>4, <3>1
  <2>2. IsEnd(m, tail, last)
    BY DEF Thread
  <2> QED
    BY <2>1, <2>2
<1>6. /\ w \in Mem
      /\ Beside(w, last, u, el) /\ Beside(w, el, last, tail)
      /\ IsEnd(w, tail, el)
      /\ \A z \in Office!Node \ {last, tail, el} : Alike(m, w, z)
      /\ IsEnd(m, last, tail) => IsEnd(w, last, el)
  <2> HIDE DEF last, tail, u, n
  <2> QED
    BY <1>2, <1>3, <1>5, PushIs DEF tail, n, Office!Last
<1>7. /\ t \in Seq(Office!Node) /\ Len(t) = n + 1
      /\ \A i \in 1 .. n - 1 : t[i] = s[i]
      /\ t[n] = el /\ t[n + 1] = tail
  BY <1>1, <1>2, WithIs
<1> HIDE DEF t
<1>8. \A i, j \in 1 .. n + 1 : t[i] = t[j] => i = j
  <2> SUFFICES ASSUME NEW i \in 1 .. n + 1, NEW j \in 1 .. n + 1, t[i] = t[j]
               PROVE  i = j
    OBVIOUS
  <2>1. ASSUME NEW k \in 1 .. n + 1
        PROVE  \/ k \in 1 .. n - 1 /\ k \in 1 .. n /\ k # n /\ t[k] = s[k]
               \/ k = n /\ t[k] = el
               \/ k = n + 1 /\ t[k] = s[n]
    BY <1>1, <1>7
  <2>2. /\ \A a, b \in 1 .. n : s[a] = s[b] => a = b
        /\ \A a \in 1 .. n : s[a] # el
    BY DEF Thread, Missing
  <2> QED
    BY <1>1, <2>1, <2>2
<1>9. \A i \in 1 .. n - 2 : Alike(m, w, s[i])
  <2> TAKE i \in 1 .. n - 2
  <2>1. i \in 1 .. n /\ i # n /\ i # n - 1
    BY <1>1
  <2>2. s[i] \in Office!Node /\ s[i] # last /\ s[i] # tail /\ s[i] # el
    BY <1>1, <2>1 DEF Thread, Missing
  <2> QED
    BY <1>6, <2>2
<1>10. IsEnd(w, t[1], t[2])
  <2>0. IsEnd(m, s[1], s[2])
    BY DEF Thread
  <2>1. CASE n = 2
    <3>1. t[1] = s[1] /\ t[2] = el /\ last = s[1] /\ tail = s[2]
      BY <1>7, <2>1
    <3> QED
      BY <1>6, <2>0, <3>1
  <2>2. CASE n # 2
    <3>1. 1 \in 1 .. n - 1 /\ 2 \in 1 .. n - 1 /\ 1 \in 1 .. n - 2
      <4> HIDE DEF n
      <4> QED
        BY <1>1, <2>2
    <3>2. t[1] = s[1] /\ t[2] = s[2]
      BY <1>7, <3>1
    <3> QED
      BY <1>9, <2>0, <3>1, <3>2 DEF Alike, IsEnd
  <2> QED
    BY <2>1, <2>2
<1>11. ASSUME NEW i \in 2 .. n
       PROVE  Beside(w, t[i], t[i - 1], t[i + 1])
  <2>1. CASE i < n - 1
    <3>1. /\ i \in 1 .. n - 1 /\ i - 1 \in 1 .. n - 1 /\ i + 1 \in 1 .. n - 1
          /\ i \in 1 .. n - 2 /\ i \in 2 .. n - 1
      BY <1>1, <2>1
    <3>2. Beside(m, s[i], s[i - 1], s[i + 1])
      BY <3>1 DEF Thread
    <3> QED
      BY <1>7, <1>9, <3>1, <3>2 DEF Alike, Beside
  <2>2. CASE i = n - 1
    <3>1. /\ i \in 1 .. n - 1 /\ i - 1 \in 1 .. n - 1 /\ i + 1 = n /\ i # 1
          /\ n - 1 # 1 /\ (n - 1) - 1 = i - 1
      BY <1>1, <2>2
    <3>2. t[i] = last /\ t[i - 1] = s[i - 1] /\ t[i + 1] = el
      BY <1>7, <2>2, <3>1
    <3>3. u = s[i - 1]
      BY <3>1 DEF Before
    <3> QED
      BY <1>6, <3>2, <3>3
  <2>3. CASE i = n
    <3>1. n - 1 \in 1 .. n - 1
      BY <1>1
    <3>2. t[i] = el /\ t[i - 1] = last /\ t[i + 1] = tail
      BY <1>7, <2>3, <3>1
    <3> QED
      BY <1>6, <3>2
  <2> QED
    BY <1>1, <2>1, <2>2, <2>3
<1>12. IsEnd(w, t[n + 1], t[n])
  BY <1>6, <1>7
<1>13. Thread(w, t)
  <2>1. Len(t) >= 2 /\ Len(t) - 1 = n
    BY <1>1, <1>7
  <2> HIDE DEF n
  <2> QED
    BY <1>1, <1>7, <1>8, <1>10, <1>11, <1>12, <2>1 DEF Thread
<1> QED
  BY <1>6, <1>13 DEF t

Back(s) == [i \in 1 .. Len(s) |-> s[(Len(s) - i) + 1]]

LEMMA BackIs ==
  ASSUME NEW T, NEW s \in Seq(T)
  PROVE  /\ Back(s) \in Seq(T) /\ Len(Back(s)) = Len(s)
         /\ \A i \in 1 .. Len(s) : Back(s)[i] = s[(Len(s) - i) + 1]
<1> DEFINE n == Len(s)
<1>1. n \in Nat
  OBVIOUS
<1>2. \A i \in 1 .. n : s[(n - i) + 1] \in T
  <2> TAKE i \in 1 .. n
  <2>1. (n - i) + 1 \in 1 .. n
    BY <1>1
  <2> QED
    BY <2>1, ElementOfSeq
<1>3. Back(s) = [i \in 1 .. n |-> s[(n - i) + 1]]
  BY DEF Back
<1> HIDE DEF n
<1>4. Back(s) \in Seq(T) /\ Len(Back(s)) = n
  BY <1>1, <1>2, <1>3
<1>5. \A i \in 1 .. n : Back(s)[i] = s[(n - i) + 1]
  BY <1>3
<1> QED
  BY <1>4, <1>5 DEF n

\* A thread has no direction.
LEMMA BackKeeps ==
  ASSUME NEW m, NEW s, Thread(m, s)
  PROVE  Thread(m, Back(s))
<1> DEFINE n == Len(s)
           t == Back(s)
<1>1. n \in Nat /\ n >= 2 /\ s \in Seq(Office!Node)
  BY DEF Thread
<1>2. /\ t \in Seq(Office!Node) /\ Len(t) = n
      /\ \A i \in 1 .. n : t[i] = s[(n - i) + 1]
  BY <1>1, BackIs
<1> HIDE DEF t
<1>3. \A i, j \in 1 .. n : t[i] = t[j] => i = j
  <2> SUFFICES ASSUME NEW i \in 1 .. n, NEW j \in 1 .. n, t[i] = t[j]
               PROVE  i = j
    OBVIOUS
  <2> DEFINE a == (n - i) + 1
             b == (n - j) + 1
  <2>1. a \in 1 .. n /\ b \in 1 .. n
    BY <1>1
  <2>2. a = b
    <3>1. s[a] = s[b]
      BY <1>2
    <3> HIDE DEF a, b
    <3> QED
      BY <2>1, <3>1 DEF Thread
  <2> QED
    BY <1>1, <2>2
<1>4. IsEnd(m, t[1], t[2]) /\ IsEnd(m, t[n], t[n - 1])
  <2>1. /\ 1 \in 1 .. n /\ 2 \in 1 .. n /\ n - 1 \in 1 .. n
        /\ n \in 1 .. n
        /\ (n - 1) + 1 = n /\ (n - 2) + 1 = n - 1
        /\ (n - n) + 1 = 1 /\ (n - (n - 1)) + 1 = 2
    <3> HIDE DEF n
    <3> QED
      BY <1>1
  <2>2. t[1] = s[n] /\ t[2] = s[n - 1] /\ t[n] = s[1] /\ t[n - 1] = s[2]
    <3> HIDE DEF n
    <3> QED
      BY <1>2, <2>1
  <2> QED
    BY <2>2 DEF Thread
<1>5. ASSUME NEW i \in 2 .. n - 1
      PROVE  Beside(m, t[i], t[i - 1], t[i + 1])
  <2> DEFINE j == (n - i) + 1
  <2>1. /\ i \in 1 .. n /\ i - 1 \in 1 .. n /\ i + 1 \in 1 .. n
        /\ j \in 2 .. n - 1
        /\ (n - (i - 1)) + 1 = j + 1 /\ (n - (i + 1)) + 1 = j - 1
    <3> HIDE DEF n
    <3> QED
      BY <1>1
  <2>2. t[i] = s[j] /\ t[i - 1] = s[j + 1] /\ t[i + 1] = s[j - 1]
    <3> HIDE DEF n
    <3> QED
      BY <1>2, <2>1
  <2> HIDE DEF j
  <2>3. Beside(m, s[j], s[j - 1], s[j + 1])
    BY <2>1 DEF Thread
  <2> QED
    BY <2>2, <2>3 DEF Beside
<1> QED
  BY <1>1, <1>2, <1>3, <1>4, <1>5 DEF Thread, t

\* append() joins the nodes x and y next to the tail b and the head f, and
\* these two with each other.
Joined(m, b, f) ==
  LET m1 == Office!link(m, m.l2[b], b, m.l2[f])
      m2 == Office!link(m1, m1.l2[f], f, m1.l2[b])
  IN [m2 EXCEPT !.l2[b] = f, !.l2[f] = b]

LEMMA JoinIs ==
  ASSUME NEW m \in Mem, NEW b \in Office!Node, NEW f \in Office!Node,
         NEW x \in Office!Node, NEW y \in Office!Node,
         x # b, y # f, x # f, y # b, x # y, b # f,
         IsEnd(m, b, x), IsEnd(m, f, y),
         NEW u, u # b, Beside(m, x, u, b), NEW v, v # f, Beside(m, y, f, v),
         NEW w, w = Joined(m, b, f)
  PROVE  /\ w \in Mem
         /\ Beside(w, x, u, y) /\ Beside(w, y, x, v)
         /\ IsEnd(w, b, f) /\ IsEnd(w, f, b)
         /\ IsEnd(m, x, b) => IsEnd(w, x, y)
         /\ IsEnd(m, y, f) => IsEnd(w, y, x)
         /\ \A z \in Office!Node \ {b, f, x, y} : Alike(m, w, z)
<1> DEFINE m1 == Office!link(m, m.l2[b], b, m.l2[f])
           m2 == Office!link(m1, m1.l2[f], f, m1.l2[b])
           m3 == [m2 EXCEPT !.l2[b] = f]
<1>0. b # Office!nullptr /\ f # Office!nullptr
  BY NodesAre
<1>1. m1 = Office!link(m, x, b, y)
  BY DEF IsEnd
<1> HIDE DEF m1
<1>2. /\ m1 \in Mem /\ Beside(m1, x, y, u)
      /\ \A z \in Office!Node \ {x} : Alike(m, m1, z)
      /\ IsEnd(m, x, b) => IsEnd(m1, x, y)
  <2>1. Beside(m, x, b, u)
    BY DEF Beside
  <2> QED
    BY <1>0, <1>1, <2>1, LinkIs
<1>3. /\ IsEnd(m1, b, x) /\ IsEnd(m1, f, y) /\ Beside(m1, y, f, v)
      /\ IsEnd(m, y, f) => IsEnd(m1, y, f)
  BY <1>2 DEF Alike, Beside, IsEnd
<1>4. m2 = Office!link(m1, y, f, x)
  BY <1>3 DEF IsEnd
<1> HIDE DEF m2
<1>5. /\ m2 \in Mem /\ Beside(m2, y, x, v)
      /\ \A z \in Office!Node \ {y} : Alike(m1, m2, z)
      /\ IsEnd(m1, y, f) => IsEnd(m2, y, x)
  BY <1>0, <1>2, <1>3, <1>4, LinkIs
<1>6. /\ m2.l1 \in Pointers /\ m2.l2 \in Pointers
      /\ m2 = [l1 |-> m2.l1, l2 |-> m2.l2]
  BY <1>5 DEF Mem
<1>7. /\ m3.l1 = m2.l1 /\ m3.l2 = [m2.l2 EXCEPT ![b] = f]
      /\ m3 = [l1 |-> m3.l1, l2 |-> m3.l2]
  BY <1>6
<1>8. w = [m3 EXCEPT !.l2[f] = b]
  BY DEF Joined, m1, m2
<1> HIDE DEF m3
<1>9. /\ w.l1 = m2.l1 /\ w.l2 = [m3.l2 EXCEPT ![f] = b]
      /\ w = [l1 |-> w.l1, l2 |-> w.l2]
  BY <1>7, <1>8
<1>10. m3.l2 \in Pointers
  BY <1>6, <1>7 DEF Pointers
<1>11. w.l2 \in Pointers
  BY <1>9, <1>10 DEF Pointers
<1>12. w \in Mem
  BY <1>6, <1>9, <1>11 DEF Mem
<1>13. w.l2[b] = f /\ w.l2[f] = b
  BY <1>6, <1>7, <1>9, <1>10 DEF Pointers
<1>14. \A z \in Office!Node \ {b, f} : Alike(m2, w, z)
  BY <1>6, <1>7, <1>9, <1>10 DEF Alike, Pointers
<1>15. w.l1[b] = Office!nullptr /\ w.l1[f] = Office!nullptr
  BY <1>3, <1>5, <1>9 DEF Alike, IsEnd
<1> QED
  BY <1>2, <1>3, <1>5, <1>12, <1>13, <1>14, <1>15 DEF Alike, Beside, IsEnd

Tied(q, r) ==
  [i \in 1 .. Len(q) + Len(r) - 2 |->
     IF i < Len(q) THEN q[i] ELSE r[(i - Len(q)) + 2]]

LEMMA TiedIs ==
  ASSUME NEW T, NEW q \in Seq(T), NEW r \in Seq(T), Len(q) >= 2, Len(r) >= 2
  PROVE  /\ Tied(q, r) \in Seq(T)
         /\ Len(Tied(q, r)) = Len(q) + Len(r) - 2
         /\ \A i \in 1 .. Len(q) - 1 : Tied(q, r)[i] = q[i]
         /\ \A i \in Len(q) .. Len(q) + Len(r) - 2 :
              Tied(q, r)[i] = r[(i - Len(q)) + 2]
<1> DEFINE a == Len(q)
           c == Len(r)
           n == a + c - 2
           e(i) == IF i < a THEN q[i] ELSE r[(i - a) + 2]
<1>1. a \in Nat /\ c \in Nat /\ a >= 2 /\ c >= 2
  OBVIOUS
<1>2. Tied(q, r) = [i \in 1 .. n |-> e(i)]
  BY DEF Tied
<1>3. \A i \in 1 .. n : e(i) \in T
  <2> TAKE i \in 1 .. n
  <2>1. i < a => i \in 1 .. a
    <3> HIDE DEF a, c
    <3> QED
      BY <1>1
  <2>2. ~(i < a) => (i - a) + 2 \in 1 .. c
    <3> HIDE DEF a, c
    <3> QED
      BY <1>1
  <2> QED
    BY <2>1, <2>2, ElementOfSeq
<1>4. /\ n \in Nat
      /\ \A i \in 1 .. a - 1 : i \in 1 .. n /\ i < a
      /\ \A i \in a .. n : i \in 1 .. n /\ ~(i < a)
  <2> HIDE DEF a, c
  <2> QED
    BY <1>1
<1>5. /\ \A i \in 1 .. a - 1 : e(i) = q[i]
      /\ \A i \in a .. n : e(i) = r[(i - a) + 2]
  <2> HIDE DEF a, c, n
  <2> QED
    BY <1>4
<1> HIDE DEF e, n
<1>6. Tied(q, r) \in Seq(T) /\ Len(Tied(q, r)) = n
  BY <1>2, <1>3, <1>4
<1>7. \A i \in 1 .. n : Tied(q, r)[i] = e(i)
  BY <1>2
<1> HIDE DEF a, c
<1>8. /\ \A i \in 1 .. a - 1 : Tied(q, r)[i] = q[i]
      /\ \A i \in a .. n : Tied(q, r)[i] = r[(i - a) + 2]
  BY <1>4, <1>5, <1>7
<1> QED
  BY <1>6, <1>8 DEF a, c, n

Apart(q, r) == \A i \in 1 .. Len(q), j \in 1 .. Len(r) : q[i] # r[j]

\* append() ties one thread to another, and the two ends between them become
\* a thread.
LEMMA JoinKeeps ==
  ASSUME NEW m \in Mem, NEW q, NEW r, Thread(m, q), Thread(m, r), Apart(q, r),
         NEW w, w = Joined(m, Office!Last(q), r[1])
  PROVE  /\ w \in Mem /\ Thread(w, Tied(q, r))
         /\ Thread(w, <<r[1], Office!Last(q)>>)
         /\ \A z \in Office!Node :
              Missing(z, q) /\ Missing(z, r) => Alike(m, w, z)
<1> DEFINE a == Len(q)
           c == Len(r)
           n == a + c - 2
           b == Office!Last(q)
           f == r[1]
           x == q[a - 1]
           y == r[2]
           u == Before(q, a - 1)
           v == After(r, 2)
           t == Tied(q, r)
<1>1. /\ a \in Nat /\ a >= 2 /\ q \in Seq(Office!Node)
      /\ c \in Nat /\ c >= 2 /\ r \in Seq(Office!Node)
      /\ b = q[a]
  BY DEF Thread, Office!Last
<1>2. /\ a \in 1 .. a /\ a - 1 \in 1 .. a /\ a - 1 # a /\ a # (a - 1) - 1
      /\ (a - 1) + 1 = a
      /\ 1 \in 1 .. c /\ 2 \in 1 .. c /\ 2 + 1 # 1 /\ 2 - 1 = 1
  <2> HIDE DEF a, c
  <2> QED
    BY <1>1
<1>3. /\ x # b /\ y # f /\ x # f /\ y # b /\ x # y /\ b # f
  <2>1. x # b
    BY <1>1, <1>2, ThreadDiffers, Zenon
  <2>2. y # f
    <3>1. 1 \in 1 .. Len(r) /\ 2 \in 1 .. Len(r)
      BY <1>2, Zenon
    <3>3. 2 # 1
      OBVIOUS
    <3>2. \A i, j \in 1 .. Len(r) : i # j => r[i] # r[j]
      BY ThreadDiffers
    <3> QED
      BY <3>1, <3>2, <3>3
  <2>3. x # f /\ x # y /\ b # f /\ b # y
    <3> HIDE DEF b
    <3> QED
      BY <1>1, <1>2, Zenon DEF Apart
  <2> QED
    BY <2>1, <2>2, <2>3
<1>4. /\ x \in Office!Node /\ b \in Office!Node /\ u # b
      /\ y \in Office!Node /\ f \in Office!Node /\ v # f
  <2>1. x \in Office!Node /\ b \in Office!Node
    BY <1>1, <1>2, ElementOfSeq
  <2>2. y \in Office!Node /\ f \in Office!Node
    BY <1>1, <1>2, ElementOfSeq
  <2>3. u # b
    <3>1. \A j \in 1 .. Len(q) : Before(q, a - 1) = q[j] => j = (a - 1) - 1
      <4> DEFINE i == a - 1
      <4>1. i \in 1 .. Len(q)
        BY <1>2
      <4> HIDE DEF i
      <4>2. \A j \in 1 .. Len(q) : Before(q, i) = q[j] => j = i - 1
        BY <4>1, ThreadAt
      <4> QED
        BY <4>2 DEF i
    <3> HIDE DEF b, a
    <3> QED
      BY <1>1, <1>2, <3>1, Zenon DEF a
  <2>4. v # f
    <3>1. \A j \in 1 .. Len(r) : After(r, 2) = r[j] => j = 2 + 1
      <4> DEFINE i == 2
      <4>1. i \in 1 .. Len(r)
        BY <1>2, Zenon
      <4> HIDE DEF i
      <4>2. \A j \in 1 .. Len(r) : After(r, i) = r[j] => j = i + 1
        BY <4>1, ThreadAt
      <4> QED
        BY <4>2 DEF i
    <3> QED
      BY <1>2, <3>1, Zenon
  <2> QED
    BY <2>1, <2>2, <2>3, <2>4
<1>5. Beside(m, x, u, b) /\ Beside(m, y, f, v)
  <2>1. After(q, a - 1) = b
    BY <1>1, <1>2, Zenon DEF After
  <2>2. Before(r, 2) = f
    BY DEF Before
  <2>3. Beside(m, q[a - 1], Before(q, a - 1), After(q, a - 1))
    BY <1>2, ThreadAt, Zenon
  <2>4. Beside(m, r[2], Before(r, 2), After(r, 2))
    BY <1>2, ThreadAt, Zenon
  <2> QED
    BY <2>1, <2>2, <2>3, <2>4
<1>6. IsEnd(m, b, x) /\ IsEnd(m, f, y)
  BY <1>1 DEF Thread
<1>7. /\ w \in Mem
      /\ Beside(w, x, u, y) /\ Beside(w, y, x, v)
      /\ IsEnd(w, b, f) /\ IsEnd(w, f, b)
      /\ IsEnd(m, x, b) => IsEnd(w, x, y)
      /\ IsEnd(m, y, f) => IsEnd(w, y, x)
      /\ \A z \in Office!Node \ {b, f, x, y} : Alike(m, w, z)
  <2>1. w = Joined(m, b, f)
    OBVIOUS
  <2> HIDE DEF b, f, x, y, u, v
  <2> QED
    BY <1>3, <1>4, <1>5, <1>6, <2>1, JoinIs
<1>8. /\ t \in Seq(Office!Node) /\ Len(t) = n
      /\ \A i \in 1 .. a - 1 : t[i] = q[i]
      /\ \A i \in a .. n : t[i] = r[(i - a) + 2]
  BY <1>1, TiedIs
<1> HIDE DEF t
<1>9. \A i, j \in 1 .. n : t[i] = t[j] => i = j
  <2> SUFFICES ASSUME NEW i \in 1 .. n, NEW j \in 1 .. n, t[i] = t[j]
               PROVE  i = j
    OBVIOUS
  <2>1. ASSUME NEW k \in 1 .. n
        PROVE  \/ k \in 1 .. a - 1 /\ k \in 1 .. a
               \/ k \in a .. n /\ (k - a) + 2 \in 1 .. c
    <3> HIDE DEF a, c
    <3> QED
      BY <1>1
  <2>2. CASE i \in 1 .. a - 1 /\ j \in 1 .. a - 1
    <3>1. i \in 1 .. a /\ j \in 1 .. a
      <4> HIDE DEF a, n
      <4> QED
        BY <1>1, <2>2
    <3> QED
      BY <1>8, <2>2, <3>1 DEF Thread
  <2>3. CASE i \in a .. n /\ j \in a .. n
    <3> DEFINE k == (i - a) + 2
               l == (j - a) + 2
    <3>1. k \in 1 .. c /\ l \in 1 .. c
      <4> HIDE DEF a, c
      <4> QED
        BY <1>1, <2>3
    <3>2. r[k] = r[l]
      BY <1>8, <2>3
    <3>3. k = l
      <4> HIDE DEF k, l
      <4> QED
        BY <3>1, <3>2 DEF Thread
    <3> HIDE DEF a, c
    <3> QED
      BY <1>1, <2>3, <3>3
  <2>4. ASSUME NEW k \in 1 .. a - 1, NEW l \in a .. n
        PROVE  t[k] # t[l]
    <3>1. k \in 1 .. a /\ (l - a) + 2 \in 1 .. c
      <4> HIDE DEF a, c
      <4> QED
        BY <1>1
    <3>2. t[k] = q[k] /\ t[l] = r[(l - a) + 2]
      BY <1>8
    <3> HIDE DEF n
    <3> QED
      BY <3>1, <3>2 DEF Apart
  <2> QED
    BY <2>1, <2>2, <2>3, <2>4
<1>10. /\ \A i \in 1 .. a - 2 : Alike(m, w, q[i])
       /\ \A i \in 3 .. c : Alike(m, w, r[i])
  <2>1. ASSUME NEW i \in 1 .. a - 2
        PROVE  Alike(m, w, q[i])
    <3>1. i \in 1 .. a /\ i # a /\ i # a - 1
      <4> HIDE DEF a
      <4> QED
        BY <1>1
    <3>2. q[i] \in Office!Node /\ q[i] # x /\ q[i] # b
      BY <1>1, <1>2, <3>1, ThreadDiffers, Zenon
    <3>3. q[i] # f /\ q[i] # y
      BY <1>2, <3>1, Zenon DEF Apart
    <3> HIDE DEF b, f, x, y
    <3> QED
      BY <1>7, <3>2, <3>3
  <2>2. ASSUME NEW i \in 3 .. c
        PROVE  Alike(m, w, r[i])
    <3>1. i \in 1 .. c /\ i # 1 /\ i # 2
      <4> HIDE DEF c
      <4> QED
        BY <1>1
    <3>2. r[i] \in Office!Node /\ r[i] # y /\ r[i] # f
      BY <1>2, <3>1, ThreadDiffers, Zenon
    <3>3. r[i] # x /\ r[i] # b
      <4> HIDE DEF b
      <4> QED
        BY <1>1, <1>2, <3>1, Zenon DEF Apart
    <3> HIDE DEF b, f, x, y
    <3> QED
      BY <1>7, <3>2, <3>3
  <2> QED
    BY <2>1, <2>2
<1>11. IsEnd(w, t[1], t[2])
  <2>0. IsEnd(m, q[1], q[2])
    BY DEF Thread
  <2>1. CASE a = 2
    <3>1. 1 \in 1 .. a - 1 /\ 2 \in a .. n /\ (2 - a) + 2 = 2 /\ a - 1 = 1
      <4> HIDE DEF a, c
      <4> QED
        BY <1>1, <2>1
    <3>2. t[1] = x /\ t[2] = y /\ q[1] = x /\ q[2] = b
      <4> HIDE DEF a, b, n
      <4> QED
        BY <1>1, <1>8, <2>1, <3>1
    <3> HIDE DEF b, x, y
    <3> QED
      BY <1>7, <2>0, <3>2
  <2>2. CASE a # 2
    <3>1. 1 \in 1 .. a - 1 /\ 2 \in 1 .. a - 1 /\ 1 \in 1 .. a - 2
      <4> HIDE DEF a, c
      <4> QED
        BY <1>1, <2>2
    <3>2. t[1] = q[1] /\ t[2] = q[2]
      BY <1>8, <3>1
    <3> QED
      BY <1>10, <2>0, <3>1, <3>2 DEF Alike, IsEnd
  <2> QED
    BY <2>1, <2>2
<1>12. IsEnd(w, t[n], t[n - 1])
  <2>0. IsEnd(m, r[c], r[c - 1])
    BY DEF Thread
  <2>1. CASE c = 2
    <3>1. /\ n \in a .. n /\ n - 1 \in 1 .. a - 1 /\ (n - a) + 2 = 2
          /\ n - 1 = a - 1 /\ c - 1 = 1
      <4> HIDE DEF a, c
      <4> QED
        BY <1>1, <2>1
    <3>2. t[n] = y /\ t[n - 1] = x /\ r[c] = y /\ r[c - 1] = f
      <4> HIDE DEF a, c, n
      <4> QED
        BY <1>8, <2>1, <3>1
    <3> HIDE DEF f, x, y
    <3> QED
      BY <1>7, <2>0, <3>2
  <2>2. CASE c # 2
    <3>1. /\ n \in a .. n /\ n - 1 \in a .. n /\ c \in 3 .. c
          /\ (n - a) + 2 = c /\ ((n - 1) - a) + 2 = c - 1
      <4> HIDE DEF a, c
      <4> QED
        BY <1>1, <2>2
    <3>2. t[n] = r[c] /\ t[n - 1] = r[c - 1]
      <4> HIDE DEF a, c, n
      <4> QED
        BY <1>8, <3>1
    <3> QED
      BY <1>10, <2>0, <3>1, <3>2 DEF Alike, IsEnd
  <2> QED
    BY <2>1, <2>2
<1>13. ASSUME NEW i \in 2 .. n - 1
       PROVE  Beside(w, t[i], t[i - 1], t[i + 1])
  <2>1. CASE i < a - 1
    <3>1. /\ i \in 1 .. a - 1 /\ i - 1 \in 1 .. a - 1 /\ i + 1 \in 1 .. a - 1
          /\ i \in 1 .. a - 2 /\ i \in 2 .. a - 1
      <4> HIDE DEF a, c
      <4> QED
        BY <1>1, <2>1
    <3>2. Beside(m, q[i], q[i - 1], q[i + 1])
      BY <3>1 DEF Thread
    <3> QED
      BY <1>8, <1>10, <3>1, <3>2 DEF Alike, Beside
  <2>2. CASE i = a - 1
    <3>1. /\ i \in 1 .. a - 1 /\ i - 1 \in 1 .. a - 1 /\ i + 1 \in a .. n
          /\ ((i + 1) - a) + 2 = 2 /\ i # 1
      <4> HIDE DEF a, c
      <4> QED
        BY <1>1, <2>2
    <3>2. t[i] = x /\ t[i - 1] = q[i - 1] /\ t[i + 1] = y
      BY <1>8, <2>2, <3>1
    <3>3. u = q[i - 1]
      BY <2>2, <3>1 DEF Before
    <3> QED
      BY <1>7, <3>2, <3>3
  <2>3. CASE i = a
    <3>1. /\ i \in a .. n /\ i - 1 \in 1 .. a - 1 /\ i + 1 \in a .. n
          /\ (i - a) + 2 = 2 /\ ((i + 1) - a) + 2 = 3 /\ c # 2 /\ 2 + 1 = 3
      <4> HIDE DEF a, c
      <4> QED
        BY <1>1, <2>3
    <3>2. t[i] = y /\ t[i - 1] = x /\ t[i + 1] = r[3]
      BY <1>8, <2>3, <3>1
    <3>3. v = r[3]
      BY <3>1 DEF After
    <3> QED
      BY <1>7, <3>2, <3>3
  <2>4. CASE i > a
    <3> DEFINE k == (i - a) + 2
    <3>1. /\ i \in a .. n /\ i - 1 \in a .. n /\ i + 1 \in a .. n
          /\ k \in 3 .. c /\ k \in 2 .. c - 1
          /\ ((i - 1) - a) + 2 = k - 1 /\ ((i + 1) - a) + 2 = k + 1
      <4> HIDE DEF a, c
      <4> QED
        BY <1>1, <2>4
    <3>2. t[i] = r[k] /\ t[i - 1] = r[k - 1] /\ t[i + 1] = r[k + 1]
      <4> HIDE DEF a, c, n
      <4> QED
        BY <1>8, <3>1
    <3> HIDE DEF k
    <3>3. Beside(m, r[k], r[k - 1], r[k + 1])
      BY <3>1 DEF Thread
    <3> QED
      BY <1>10, <3>1, <3>2, <3>3 DEF Alike, Beside
  <2>5. i < a - 1 \/ i = a - 1 \/ i = a \/ i > a
    <3> HIDE DEF a, c
    <3> QED
      BY <1>1
  <2> QED
    BY <2>1, <2>2, <2>3, <2>4, <2>5
<1>14. Thread(w, t)
  <2>1. n \in Nat /\ n >= 2
    <3> HIDE DEF a, c
    <3> QED
      BY <1>1
  <2> HIDE DEF n
  <2> QED
    BY <1>8, <1>9, <1>11, <1>12, <1>13, <2>1 DEF Thread
<1>15. Thread(w, <<f, b>>)
  <2> DEFINE e == <<f, b>>
  <2>1. e \in Seq(Office!Node) /\ Len(e) = 2 /\ e[1] = f /\ e[2] = b
    BY <1>4
  <2> HIDE DEF e, f, b
  <2>2. \A i, j \in 1 .. 2 : e[i] = e[j] => i = j
    BY <1>3, <2>1
  <2>3. IsEnd(w, e[1], e[2]) /\ IsEnd(w, e[2], e[2 - 1])
    BY <1>7, <2>1
  <2>4. \A i \in 2 .. 2 - 1 : Beside(w, e[i], e[i - 1], e[i + 1])
    OBVIOUS
  <2>5. Thread(w, e)
    BY <2>1, <2>2, <2>3, <2>4 DEF Thread
  <2> QED
    BY <2>5 DEF e
<1>16. ASSUME NEW z \in Office!Node, Missing(z, q), Missing(z, r)
       PROVE  Alike(m, w, z)
  <2>1. z # x /\ z # b /\ z # y /\ z # f
    BY <1>1, <1>2, <1>16, Zenon DEF Missing
  <2> HIDE DEF x, b, y, f
  <2> QED
    BY <1>7, <2>1
<1> QED
  BY <1>7, <1>14, <1>15, <1>16 DEF t

-----------------------------------------------------------------------------
(* The customers of a thread                                               *)

Mid(s) == SubSeq(s, 2, Len(s) - 1)

LEMMA MidIs ==
  ASSUME NEW T, NEW s \in Seq(T), Len(s) >= 2
  PROVE  /\ Mid(s) \in Seq(T) /\ Len(Mid(s)) = Len(s) - 2
         /\ \A i \in 1 .. Len(s) - 2 : Mid(s)[i] = s[i + 1]
<1> DEFINE n == Len(s)
<1>1. n \in Nat /\ n >= 2
  OBVIOUS
<1>2. \A i \in 2 .. n - 1 : s[i] \in T
  <2> TAKE i \in 2 .. n - 1
  <2>1. i \in 1 .. n
    BY <1>1
  <2> QED
    BY <2>1, ElementOfSeq
<1>3. Mid(s) = SubSeq(s, 2, n - 1)
  BY DEF Mid
<1>4. n - 1 \in Int /\ 2 \in Int
  BY <1>1
<1> HIDE DEF n
<1>5. /\ SubSeq(s, 2, n - 1) \in Seq(T)
      /\ Len(SubSeq(s, 2, n - 1))
           = IF 2 <= n - 1 THEN (n - 1) - 2 + 1 ELSE 0
      /\ \A i \in 1 .. (n - 1) - 2 + 1 :
           SubSeq(s, 2, n - 1)[i] = s[2 + i - 1]
  BY <1>2, <1>4, SubSeqProperties
<1>6. /\ (n - 1) - 2 + 1 = n - 2
      /\ (IF 2 <= n - 1 THEN (n - 1) - 2 + 1 ELSE 0) = n - 2
      /\ \A i \in 1 .. n - 2 : 2 + i - 1 = i + 1
  BY <1>1
<1>7. Len(SubSeq(s, 2, n - 1)) = n - 2
  BY <1>5, <1>6
<1>8. \A i \in 1 .. n - 2 : SubSeq(s, 2, n - 1)[i] = s[i + 1]
  BY <1>5, <1>6
<1> QED
  BY <1>3, <1>5, <1>7, <1>8 DEF n

LEMMA MidWith ==
  ASSUME NEW T, NEW s \in Seq(T), Len(s) >= 2, NEW el \in T
  PROVE  Mid(With(s, el)) = Append(Mid(s), el)
<1> DEFINE n == Len(s)
           t == With(s, el)
           u == Mid(t)
           v == Append(Mid(s), el)
<1>1. n \in Nat /\ n >= 2
  OBVIOUS
<1>2. /\ t \in Seq(T) /\ Len(t) = n + 1
      /\ \A i \in 1 .. n - 1 : t[i] = s[i]
      /\ t[n] = el
  BY WithIs
<1>3. /\ Mid(s) \in Seq(T) /\ Len(Mid(s)) = n - 2
      /\ \A i \in 1 .. n - 2 : Mid(s)[i] = s[i + 1]
  BY MidIs
<1> HIDE DEF t
<1>4. /\ u \in Seq(T) /\ Len(u) = n - 1
      /\ \A i \in 1 .. n - 1 : u[i] = t[i + 1]
  <2> HIDE DEF n
  <2>1. Len(t) >= 2 /\ Len(t) - 2 = n - 1
    BY <1>1, <1>2
  <2> QED
    BY <1>2, <2>1, MidIs
<1>5. /\ v \in Seq(T) /\ Len(v) = n - 1
      /\ \A i \in 1 .. n - 2 : v[i] = s[i + 1]
      /\ v[n - 1] = el
  <2>1. /\ v \in Seq(T) /\ Len(v) = Len(Mid(s)) + 1
        /\ \A i \in 1 .. Len(Mid(s)) : v[i] = Mid(s)[i]
        /\ v[Len(Mid(s)) + 1] = el
    BY <1>3, AppendProperties
  <2>2. (n - 2) + 1 = n - 1
    BY <1>1
  <2> HIDE DEF v, n
  <2> QED
    BY <1>3, <2>1, <2>2
<1>6. \A i \in 1 .. n - 1 : u[i] = v[i]
  <2> SUFFICES ASSUME NEW i \in 1 .. n - 1 PROVE u[i] = v[i]
    OBVIOUS
  <2> HIDE DEF n, u, v
  <2>1. CASE i = n - 1
    <3>1. i + 1 = n
      BY <1>1, <2>1
    <3> QED
      BY <1>2, <1>4, <1>5, <2>1, <3>1
  <2>2. CASE i # n - 1
    <3>1. i \in 1 .. n - 2 /\ i + 1 \in 1 .. n - 1
      BY <1>1, <2>2
    <3> QED
      BY <1>2, <1>4, <1>5, <3>1
  <2> QED
    BY <2>1, <2>2
<1> HIDE DEF u, v, n
<1>7. u = v
  BY <1>4, <1>5, <1>6, SeqEqual
<1> QED
  BY <1>7 DEF u, v, t

\* The d nodes from p on are gone.
Cut(s, p, d) ==
  [i \in 1 .. Len(s) - d |-> IF i < p THEN s[i] ELSE s[i + d]]

LEMMA CutIs ==
  ASSUME NEW T, NEW s \in Seq(T), NEW p \in 1 .. Len(s),
         NEW d \in 0 .. (Len(s) - p) + 1
  PROVE  /\ Cut(s, p, d) \in Seq(T) /\ Len(Cut(s, p, d)) = Len(s) - d
         /\ \A i \in 1 .. p - 1 : Cut(s, p, d)[i] = s[i]
         /\ \A i \in p .. Len(s) - d : Cut(s, p, d)[i] = s[i + d]
<1> DEFINE n == Len(s)
           e(i) == IF i < p THEN s[i] ELSE s[i + d]
<1>1. n \in Nat /\ d \in 0 .. n /\ p \in 1 .. n /\ d <= (n - p) + 1
  OBVIOUS
<1>2. Cut(s, p, d) = [i \in 1 .. n - d |-> e(i)]
  BY DEF Cut
<1> HIDE DEF n
<1>3. /\ \A i \in 1 .. p - 1 : i \in 1 .. n /\ i \in 1 .. n - d /\ i < p
      /\ \A i \in p .. n - d : i + d \in 1 .. n /\ i \in 1 .. n - d /\ ~(i < p)
      /\ \A i \in 1 .. n - d : i \in 1 .. p - 1 \/ i \in p .. n - d
      /\ n - d \in Nat
  BY <1>1
<1>4. /\ \A i \in 1 .. p - 1 : e(i) = s[i]
      /\ \A i \in p .. n - d : e(i) = s[i + d]
  BY <1>3
<1>5. \A i \in 1 .. n : s[i] \in T
  BY DEF n
<1>6. \A i \in 1 .. n - d : e(i) \in T
  <2> HIDE DEF e
  <2> QED
    BY <1>3, <1>4, <1>5
<1> HIDE DEF e
<1>7. Cut(s, p, d) \in Seq(T) /\ Len(Cut(s, p, d)) = n - d
  BY <1>2, <1>3, <1>6
<1>8. \A i \in 1 .. n - d : Cut(s, p, d)[i] = e(i)
  BY <1>2
<1> QED
  BY <1>3, <1>4, <1>7, <1>8 DEF n

\* Without its nodes from p to r = p + d - 1, a thread has lost these
\* customers.
LEMMA MidCut ==
  ASSUME NEW T, NEW s \in Seq(T), NEW p \in 2 .. Len(s) - 1,
         NEW d \in 0 .. Len(s) - p, NEW r, r = (p + d) - 1
  PROVE  Mid(Cut(s, p, d))
           = SubSeq(Mid(s), 1, p - 2) \o SubSeq(Mid(s), r, Len(Mid(s)))
<1> DEFINE n == Len(s)
           t == Cut(s, p, d)
           m == Mid(s)
           u == Mid(t)
           x == SubSeq(m, 1, p - 2)
           y == SubSeq(m, r, n - 2)
           v == x \o y
<1>1. /\ n \in Nat /\ n >= 3 /\ p \in 2 .. n - 1 /\ r \in p - 1 .. n - 1
      /\ p \in 1 .. n /\ d \in 0 .. (n - p) + 1 /\ d \in Nat
      /\ n - d >= 2 /\ r = (p + d) - 1
  OBVIOUS
<1>2. /\ t \in Seq(T) /\ Len(t) = n - d
      /\ \A i \in 1 .. p - 1 : t[i] = s[i]
      /\ \A i \in p .. n - d : t[i] = s[i + d]
  BY <1>1, CutIs
<1>3. /\ m \in Seq(T) /\ Len(m) = n - 2
      /\ \A i \in 1 .. n - 2 : m[i] = s[i + 1]
  BY <1>1, MidIs
<1> HIDE DEF t, m, n
<1>4. /\ u \in Seq(T) /\ Len(u) = n - d - 2
      /\ \A i \in 1 .. n - d - 2 : u[i] = t[i + 1]
  BY <1>1, <1>2, MidIs
<1>5. /\ x \in Seq(T) /\ Len(x) = p - 2
      /\ \A i \in 1 .. p - 2 : x[i] = m[i]
  <2>1. \A i \in 1 .. p - 2 : m[i] \in T
    <3> TAKE i \in 1 .. p - 2
    <3>1. i \in 1 .. Len(m)
      BY <1>1, <1>3
    <3> QED
      BY <1>3, <3>1, ElementOfSeq
  <2>2. /\ x \in Seq(T)
        /\ Len(x) = IF 1 <= p - 2 THEN (p - 2) - 1 + 1 ELSE 0
        /\ \A i \in 1 .. (p - 2) - 1 + 1 : x[i] = m[1 + i - 1]
    <3>1. 1 \in Int /\ p - 2 \in Int
      BY <1>1
    <3> QED
      BY <2>1, <3>1, SubSeqProperties
  <2>3. /\ (IF 1 <= p - 2 THEN (p - 2) - 1 + 1 ELSE 0) = p - 2
        /\ (p - 2) - 1 + 1 = p - 2
        /\ \A i \in 1 .. p - 2 : 1 + i - 1 = i
    BY <1>1
  <2> HIDE DEF x
  <2> QED
    BY <2>2, <2>3
<1>6. /\ y \in Seq(T) /\ Len(y) = n - 1 - r
      /\ \A i \in 1 .. n - 1 - r : y[i] = m[r + i - 1]
  <2>1. \A i \in r .. n - 2 : m[i] \in T
    <3> TAKE i \in r .. n - 2
    <3>1. i \in 1 .. Len(m)
      BY <1>1, <1>3
    <3> QED
      BY <1>3, <3>1, ElementOfSeq
  <2>2. /\ y \in Seq(T)
        /\ Len(y) = IF r <= n - 2 THEN (n - 2) - r + 1 ELSE 0
        /\ \A i \in 1 .. (n - 2) - r + 1 : y[i] = m[r + i - 1]
    <3>1. r \in Int /\ n - 2 \in Int
      BY <1>1
    <3> QED
      BY <2>1, <3>1, SubSeqProperties
  <2>3. /\ (IF r <= n - 2 THEN (n - 2) - r + 1 ELSE 0) = n - 1 - r
        /\ (n - 2) - r + 1 = n - 1 - r
    BY <1>1
  <2> HIDE DEF y
  <2> QED
    BY <2>2, <2>3
<1> HIDE DEF x, y
<1>7. /\ v \in Seq(T) /\ Len(v) = n - d - 2
      /\ \A i \in 1 .. p - 2 : v[i] = m[i]
      /\ \A i \in p - 1 .. n - d - 2 : v[i] = m[i + d]
  <2>1. /\ v \in Seq(T) /\ Len(v) = Len(x) + Len(y)
        /\ \A i \in 1 .. Len(x) + Len(y) :
             v[i] = IF i <= Len(x) THEN x[i] ELSE y[i - Len(x)]
    BY <1>5, <1>6, ConcatProperties
  <2>2. Len(x) + Len(y) = n - d - 2
    <3>1. (p - 2) + (n - 1 - r) = n - d - 2
      BY <1>1
    <3> QED
      BY <1>5, <1>6, <3>1
  <2> HIDE DEF v
  <2>3. ASSUME NEW i \in 1 .. p - 2
        PROVE  v[i] = m[i]
    <3>1. i \in 1 .. n - d - 2 /\ i <= p - 2
      BY <1>1
    <3> QED
      BY <1>5, <2>1, <2>2, <3>1
  <2>4. ASSUME NEW i \in p - 1 .. n - d - 2
        PROVE  v[i] = m[i + d]
    <3>1. /\ i \in 1 .. n - d - 2 /\ ~(i <= p - 2)
          /\ i - (p - 2) \in 1 .. n - 1 - r
          /\ r + (i - (p - 2)) - 1 = i + d
      BY <1>1
    <3>2. v[i] = y[i - (p - 2)]
      BY <1>5, <2>1, <2>2, <3>1
    <3> QED
      BY <1>6, <3>1, <3>2
  <2> QED
    BY <2>1, <2>2, <2>3, <2>4
<1>8. ASSUME NEW i \in 1 .. n - d - 2
      PROVE  u[i] = v[i]
  <2> HIDE DEF u, v
  <2>1. CASE i \in 1 .. p - 2
    <3>1. i + 1 \in 1 .. p - 1 /\ i \in 1 .. n - 2
      BY <1>1, <2>1
    <3> QED
      BY <1>2, <1>3, <1>4, <1>7, <2>1, <3>1
  <2>2. CASE i \in p - 1 .. n - d - 2
    <3>1. /\ i + 1 \in p .. n - d /\ i + d \in 1 .. n - 2
          /\ (i + d) + 1 = (i + 1) + d
      BY <1>1, <2>2
    <3> QED
      BY <1>2, <1>3, <1>4, <1>7, <2>2, <3>1
  <2> QED
    BY <1>1, <2>1, <2>2
<1> HIDE DEF u, v
<1>9. u = v
  BY <1>4, <1>7, <1>8, SeqEqual
<1> QED
  BY <1>3, <1>9 DEF u, v, x, y, m, t

LEMMA MidBack ==
  ASSUME NEW T, NEW s \in Seq(T), Len(s) >= 2
  PROVE  Mid(Back(s)) = Back(Mid(s))
<1> DEFINE n == Len(s)
           t == Back(s)
           m == Mid(s)
           u == Mid(t)
           v == Back(m)
<1>1. n \in Nat /\ n >= 2
  OBVIOUS
<1>2. /\ t \in Seq(T) /\ Len(t) = n
      /\ \A i \in 1 .. n : t[i] = s[(n - i) + 1]
  BY BackIs
<1>3. /\ m \in Seq(T) /\ Len(m) = n - 2
      /\ \A i \in 1 .. n - 2 : m[i] = s[i + 1]
  BY MidIs
<1> HIDE DEF t, m, n
<1>4. /\ u \in Seq(T) /\ Len(u) = n - 2
      /\ \A i \in 1 .. n - 2 : u[i] = t[i + 1]
  BY <1>1, <1>2, MidIs
<1>5. /\ v \in Seq(T) /\ Len(v) = n - 2
      /\ \A i \in 1 .. n - 2 : v[i] = m[((n - 2) - i) + 1]
  <2>1. /\ v \in Seq(T) /\ Len(v) = Len(m)
        /\ \A i \in 1 .. Len(m) : v[i] = m[(Len(m) - i) + 1]
    BY <1>3, BackIs
  <2> HIDE DEF v
  <2> QED
    BY <1>3, <2>1
<1>6. ASSUME NEW i \in 1 .. n - 2
      PROVE  u[i] = v[i]
  <2> HIDE DEF u, v
  <2> DEFINE j == ((n - 2) - i) + 1
  <2>1. /\ i + 1 \in 1 .. n /\ j \in 1 .. n - 2
        /\ (n - (i + 1)) + 1 = j + 1
    BY <1>1
  <2>2. u[i] = s[j + 1]
    <3> HIDE DEF j
    <3> QED
      BY <1>2, <1>4, <2>1
  <2>3. v[i] = m[j]
    BY <1>5
  <2> HIDE DEF j
  <2> QED
    BY <1>3, <2>1, <2>2, <2>3
<1> HIDE DEF u, v
<1>7. u = v
  BY <1>4, <1>5, <1>6, SeqEqual
<1> QED
  BY <1>7 DEF u, v, t, m

LEMMA MidTied ==
  ASSUME NEW T, NEW q \in Seq(T), NEW r \in Seq(T), Len(q) >= 2, Len(r) >= 2
  PROVE  Mid(Tied(q, r)) = Mid(q) \o Mid(r)
<1> DEFINE a == Len(q)
           c == Len(r)
           t == Tied(q, r)
           x == Mid(q)
           y == Mid(r)
           u == Mid(t)
           v == x \o y
<1>1. a \in Nat /\ a >= 2 /\ c \in Nat /\ c >= 2
  OBVIOUS
<1>2. /\ t \in Seq(T) /\ Len(t) = a + c - 2
      /\ \A i \in 1 .. a - 1 : t[i] = q[i]
      /\ \A i \in a .. a + c - 2 : t[i] = r[(i - a) + 2]
  BY TiedIs
<1>3. /\ x \in Seq(T) /\ Len(x) = a - 2
      /\ \A i \in 1 .. a - 2 : x[i] = q[i + 1]
  BY MidIs
<1>4. /\ y \in Seq(T) /\ Len(y) = c - 2
      /\ \A i \in 1 .. c - 2 : y[i] = r[i + 1]
  BY MidIs
<1> HIDE DEF t, x, y, a, c
<1>5. /\ u \in Seq(T) /\ Len(u) = (a - 2) + (c - 2)
      /\ \A i \in 1 .. (a - 2) + (c - 2) : u[i] = t[i + 1]
  <2>1. Len(t) >= 2 /\ Len(t) - 2 = (a - 2) + (c - 2)
    BY <1>1, <1>2
  <2> QED
    BY <1>2, <2>1, MidIs
<1>6. /\ v \in Seq(T) /\ Len(v) = (a - 2) + (c - 2)
      /\ \A i \in 1 .. (a - 2) + (c - 2) :
           v[i] = IF i <= a - 2 THEN x[i] ELSE y[i - (a - 2)]
  <2>1. /\ v \in Seq(T) /\ Len(v) = Len(x) + Len(y)
        /\ \A i \in 1 .. Len(x) + Len(y) :
             v[i] = IF i <= Len(x) THEN x[i] ELSE y[i - Len(x)]
    BY <1>3, <1>4, ConcatProperties
  <2> HIDE DEF v
  <2> QED
    BY <1>3, <1>4, <2>1
<1>7. ASSUME NEW i \in 1 .. (a - 2) + (c - 2)
      PROVE  u[i] = v[i]
  <2> HIDE DEF u, v
  <2>1. CASE i <= a - 2
    <3>1. i \in 1 .. a - 2 /\ i + 1 \in 1 .. a - 1
      BY <1>1, <2>1
    <3> QED
      BY <1>2, <1>3, <1>5, <1>6, <2>1, <3>1
  <2>2. CASE ~(i <= a - 2)
    <3> DEFINE j == i - (a - 2)
    <3>1. /\ i + 1 \in a .. a + c - 2 /\ j \in 1 .. c - 2
          /\ ((i + 1) - a) + 2 = j + 1
      BY <1>1, <2>2
    <3>2. v[i] = y[j]
      BY <1>6, <2>2
    <3> HIDE DEF j
    <3> QED
      BY <1>2, <1>4, <1>5, <3>1, <3>2
  <2> QED
    BY <2>1, <2>2
<1> HIDE DEF u, v
<1>8. (a - 2) + (c - 2) \in Nat
  BY <1>1
<1>9. u = v
  BY <1>5, <1>6, <1>7, <1>8, SeqEqual
<1> QED
  BY <1>9 DEF u, v, t, x, y

\* One node more is gone.
LEMMA CutFurther ==
  ASSUME NEW T, NEW s \in Seq(T), NEW p \in 1 .. Len(s),
         NEW d \in 0 .. Len(s) - p
  PROVE  /\ Without(Cut(s, p, d), p) = Cut(s, p, d + 1)
         /\ p \in 1 .. Len(Cut(s, p, d))
         /\ Cut(s, p, d)[p] = s[p + d]
<1> DEFINE n == Len(s)
           t == Cut(s, p, d)
           u == Without(t, p)
           v == Cut(s, p, d + 1)
<1>1. /\ n \in Nat /\ p \in 1 .. n /\ d \in 0 .. n - p
      /\ d \in 0 .. (n - p) + 1 /\ d + 1 \in 0 .. (n - p) + 1
  OBVIOUS
<1>2. /\ t \in Seq(T) /\ Len(t) = n - d
      /\ \A i \in 1 .. p - 1 : t[i] = s[i]
      /\ \A i \in p .. n - d : t[i] = s[i + d]
  BY <1>1, CutIs
<1>3. /\ v \in Seq(T) /\ Len(v) = n - (d + 1)
      /\ \A i \in 1 .. p - 1 : v[i] = s[i]
      /\ \A i \in p .. n - (d + 1) : v[i] = s[i + (d + 1)]
  BY <1>1, CutIs
<1> HIDE DEF t, n, v
<1>4. p \in 1 .. n - d /\ p \in p .. n - d
  BY <1>1
<1>5. /\ u \in Seq(T) /\ Len(u) = (n - d) - 1
      /\ \A i \in 1 .. p - 1 : u[i] = t[i]
      /\ \A i \in p .. (n - d) - 1 : u[i] = t[i + 1]
  <2>1. p \in 1 .. Len(t)
    BY <1>2, <1>4
  <2>2. /\ u \in Seq(T) /\ Len(u) = Len(t) - 1
        /\ \A i \in 1 .. p - 1 : u[i] = t[i]
        /\ \A i \in p .. Len(t) - 1 : u[i] = t[i + 1]
    BY <1>2, <2>1, WithoutIs
  <2> HIDE DEF u
  <2> QED
    BY <1>2, <2>2
<1>6. (n - d) - 1 = n - (d + 1) /\ n - (d + 1) \in Nat
  BY <1>1
<1>7. ASSUME NEW i \in 1 .. n - (d + 1)
      PROVE  u[i] = v[i]
  <2> HIDE DEF u
  <2>1. CASE i \in 1 .. p - 1
    BY <1>2, <1>3, <1>5, <2>1
  <2>2. CASE i \in p .. n - (d + 1)
    <3>1. i + 1 \in p .. n - d /\ (i + 1) + d = i + (d + 1)
      BY <1>1, <2>2
    <3> QED
      BY <1>2, <1>3, <1>5, <1>6, <2>2, <3>1
  <2>3. i \in 1 .. p - 1 \/ i \in p .. n - (d + 1)
    BY <1>1
  <2> QED
    BY <2>1, <2>2, <2>3
<1> HIDE DEF u
<1>8. u = v
  BY <1>3, <1>5, <1>6, <1>7, SeqEqual
<1> QED
  BY <1>2, <1>4, <1>8 DEF u, v, t

-----------------------------------------------------------------------------
(* Walks along a thread                                                    *)

WalkLoop(h, m, tail) ==
  h = [i \in Nat |->
         [p \in Int \X Int |->
            IF i = 0 \/ p[2] = tail \/ p[2] \notin Office!Customer THEN <<>>
            ELSE <<p[2]>> \o h[i - 1][<<p[2], Office!next(m, p[2], p[1])>>]]]

LEMMA NextIs ==
  ASSUME NEW m \in Mem, NEW el \in Office!Node, NEW prev
  PROVE  Office!next(m, el, prev) \in Int
<1>1. \A x \in Office!Node : /\ m.l1[x] \in Office!Node \cup {Office!nullptr}
                             /\ m.l2[x] \in Office!Node \cup {Office!nullptr}
  BY DEF Mem, Pointers
<1>2. \A x \in Office!Node \cup {Office!nullptr} : x \in Int
  BY NodesAre DEF Office!nullptr
<1> QED
  BY <1>1, <1>2 DEF Office!next

LEMMA WalkExists ==
  ASSUME NEW m \in Mem, NEW tail
  PROVE  \E h : WalkLoop(h, m, tail)
<1> DEFINE P == Int \X Int
           Y == Seq(Int)
           X == [P -> Y]
           stop(p) == p[2] = tail \/ p[2] \notin Office!Customer
           on(p) == <<p[2], Office!next(m, p[2], p[1])>>
           b == [p \in P |-> <<>>]
           go(f) == [p \in P |-> IF stop(p) THEN <<>>
                                 ELSE <<p[2]>> \o f[on(p)]]
           step == [f \in X |-> go(f)]
<1>1. b \in X
  OBVIOUS
<1>2. ASSUME NEW p \in P, ~stop(p)
      PROVE  on(p) \in P /\ p[2] \in Int
  <2>1. p[2] \in Office!Node /\ p[2] \in Int
    BY <1>2, NodesAre
  <2>2. Office!next(m, p[2], p[1]) \in Int
    BY <2>1, NextIs
  <2> QED
    BY <2>1, <2>2
<1>3. ASSUME NEW f \in X
      PROVE  go(f) \in X
  <2>1. ASSUME NEW p \in P, ~stop(p)
        PROVE  <<p[2]>> \o f[on(p)] \in Y
    <3>1. on(p) \in P /\ p[2] \in Int
      BY <1>2, <2>1
    <3> HIDE DEF on, stop, P
    <3>2. f[on(p)] \in Seq(Int) /\ <<p[2]>> \in Seq(Int)
      BY <3>1
    <3> QED
      BY <3>2, ConcatProperties
  <2>2. <<>> \in Y
    OBVIOUS
  <2> HIDE DEF on, stop, P, Y
  <2> QED
    BY <2>1, <2>2
<1> HIDE DEF X, b, go
<1>4. step \in [X -> X]
  BY <1>3
<1> HIDE DEF step
<1>5. \E h : Repeats(h, X, b, step)
  BY <1>1, <1>4, Recursion
<1>6. PICK h : Repeats(h, X, b, step)
  BY <1>5
<1> DEFINE e(i) == IF i = 0 THEN b ELSE go(h[i - 1])
<1>7. ASSUME NEW i \in Nat
      PROVE  h[i] = e(i)
  <2>1. CASE i = 0
    BY <1>6, <2>1 DEF Repeats
  <2>2. CASE i # 0
    <3>1. i - 1 \in Nat /\ (i - 1) + 1 = i
      BY <2>2
    <3>2. h[(i - 1) + 1] = step[h[i - 1]] /\ h[i - 1] \in X
      BY <1>6, <3>1 DEF Repeats
    <3>3. h[i] = go(h[i - 1])
      BY <3>1, <3>2 DEF step
    <3> QED
      BY <2>2, <3>3
  <2> QED
    BY <2>1, <2>2
<1> HIDE DEF e
<1>8. h = [i \in Nat |-> e(i)]
  <2>1. h = [i \in Nat |-> h[i]]
    BY <1>6 DEF Repeats
  <2> QED
    BY <1>7, <2>1
<1> DEFINE c(i, p) ==
             IF i = 0 \/ p[2] = tail \/ p[2] \notin Office!Customer THEN <<>>
             ELSE <<p[2]>> \o h[i - 1][<<p[2], Office!next(m, p[2], p[1])>>]
<1>9. ASSUME NEW i \in Nat
      PROVE  e(i) = [p \in Int \X Int |-> c(i, p)]
  <2>1. CASE i = 0
    BY <2>1 DEF e, b
  <2>2. CASE i # 0
    BY <2>2 DEF e, go
  <2> QED
    BY <2>1, <2>2
<1> HIDE DEF c
<1>10. h = [i \in Nat |-> [p \in Int \X Int |-> c(i, p)]]
  BY <1>8, <1>9
<1>11. WalkLoop(h, m, tail)
  BY <1>10 DEF WalkLoop, c
<1> QED
  BY <1>11

\* A walk ends, or takes one step and goes on.
LEMMA WalkStep ==
  ASSUME NEW m \in Mem, NEW prev \in Int, NEW el \in Int, NEW tail,
         NEW n \in Nat
  PROVE  Office!Walk(m, prev, el, tail, n)
           = IF n = 0 \/ el = tail \/ el \notin Office!Customer THEN <<>>
             ELSE <<el>> \o Office!Walk(m, el, Office!next(m, el, prev), tail,
                                        n - 1)
<1> DEFINE H == CHOOSE h : WalkLoop(h, m, tail)
<1>1. WalkLoop(H, m, tail)
  BY WalkExists
<1>2. \A u, v, k : Office!Walk(m, u, v, tail, k) = H[k][<<u, v>>]
  BY DEF Office!Walk, WalkLoop
<1> HIDE DEF H
<1> DEFINE p == <<prev, el>>
<1>3. p \in Int \X Int /\ p[1] = prev /\ p[2] = el
  OBVIOUS
<1> HIDE DEF p
<1>4. H[n][p]
        = IF n = 0 \/ p[2] = tail \/ p[2] \notin Office!Customer THEN <<>>
          ELSE <<p[2]>> \o H[n - 1][<<p[2], Office!next(m, p[2], p[1])>>]
  <2> DEFINE c(i, q) ==
               IF i = 0 \/ q[2] = tail \/ q[2] \notin Office!Customer THEN <<>>
               ELSE <<q[2]>> \o H[i - 1][<<q[2], Office!next(m, q[2], q[1])>>]
  <2>1. H = [i \in Nat |-> [q \in Int \X Int |-> c(i, q)]]
    BY <1>1 DEF WalkLoop
  <2> HIDE DEF c
  <2>2. H[n] = [q \in Int \X Int |-> c(n, q)]
    BY <2>1
  <2>3. H[n][p] = c(n, p)
    BY <1>3, <2>2
  <2> QED
    BY <2>3 DEF c
<1>5. H[n][p] = Office!Walk(m, prev, el, tail, n)
  BY <1>2 DEF p
<1> QED
  BY <1>2, <1>3, <1>4, <1>5

\* From the e-th node of a thread on, a walk takes the customers in turn.
LEMMA WalkThread ==
  ASSUME NEW m \in Mem, NEW s, Thread(m, s),
         \A i \in 2 .. Len(s) - 1 : s[i] \in Office!Customer,
         NEW n \in Nat, Len(s) - 2 <= n
  PROVE  Office!Walk(m, s[1], s[2], s[Len(s)], n) = Mid(s)
<1> DEFINE l == Len(s)
           tail == s[l]
           right(i) == \A e \in 2 .. l : l - e <= i =>
                         Office!Walk(m, s[e - 1], s[e], tail, i)
                           = SubSeq(s, e, l - 1)
           B == {i \in Nat : ~right(i)}
<1>1. /\ l \in Nat /\ l >= 2 /\ s \in Seq(Office!Node)
      /\ \A i \in 1 .. l : s[i] \in Office!Node
      /\ \A i, j \in 1 .. l : s[i] = s[j] => i = j
  BY ElementOfSeq DEF Thread
<1>2. \A i \in 2 .. l - 1 : s[i] \in Office!Customer
  OBVIOUS
<1>3. \A i \in 2 .. l - 1 : Beside(m, s[i], s[i - 1], s[i + 1])
  BY DEF Thread
<1>4. \A i \in 1 .. l : s[i] \in Int
  BY <1>1, NodesAre
<1> HIDE DEF l, tail
<1>5. ASSUME NEW e \in 2 .. l - 1
      PROVE  Office!next(m, s[e], s[e - 1]) = s[e + 1]
  <2>1. e - 1 \in 1 .. l /\ e + 1 \in 1 .. l /\ e - 1 # e + 1
    BY <1>1
  <2>2. s[e - 1] # s[e + 1]
    BY <1>1, <2>1
  <2> QED
    BY <1>3, <2>2 DEF Beside, Office!next
<1>6. ASSUME NEW e \in 2 .. l, NEW i \in Nat, e = l
      PROVE  Office!Walk(m, s[e - 1], s[e], tail, i) = SubSeq(s, e, l - 1)
  <2>1. e - 1 \in 1 .. l /\ e \in 1 .. l /\ l - 1 < e /\ l - 1 \in Int
    BY <1>1, <1>6
  <2>2. s[e] = tail
    BY <1>6 DEF tail
  <2>3. Office!Walk(m, s[e - 1], s[e], tail, i) = <<>>
    BY <1>4, <2>1, <2>2, WalkStep
  <2>4. SubSeq(s, e, l - 1) = <<>>
    BY <2>1, SubSeqEmpty
  <2> QED
    BY <2>3, <2>4
<1>7. ASSUME NEW i \in B, \A j \in B : i <= j
      PROVE  FALSE
  <2>1. i \in Nat /\ ~right(i)
    OBVIOUS
  <2>2. PICK e \in 2 .. l :
          /\ l - e <= i
          /\ Office!Walk(m, s[e - 1], s[e], tail, i) # SubSeq(s, e, l - 1)
    BY <2>1
  <2>3. e # l
    BY <1>6, <2>1, <2>2
  <2>4. /\ e \in 2 .. l - 1 /\ i # 0 /\ i - 1 \in Nat /\ i - 1 < i
        /\ e + 1 \in 2 .. l /\ l - (e + 1) <= i - 1 /\ (e + 1) - 1 = e
        /\ e \in 1 .. l /\ e - 1 \in 1 .. l /\ l \in 1 .. l /\ e \in 1 .. l - 1
        /\ l - 1 \in e .. l
    BY <1>1, <2>1, <2>2, <2>3
  <2>5. right(i - 1)
    BY <1>7, <2>4
  <2> DEFINE f == e + 1
  <2>6. Office!Walk(m, s[f - 1], s[f], tail, i - 1) = SubSeq(s, f, l - 1)
    <3>1. f \in 2 .. l /\ l - f <= i - 1
      BY <2>4
    <3> HIDE DEF f
    <3> QED
      BY <2>5, <3>1
  <2>7. s[e] # tail
    BY <1>1, <2>3, <2>4 DEF tail
  <2> HIDE DEF right, B
  <2>8. Office!Walk(m, s[e - 1], s[e], tail, i)
          = <<s[e]>> \o Office!Walk(m, s[e], Office!next(m, s[e], s[e - 1]),
                                    tail, i - 1)
    <3> DEFINE a == s[e - 1]
               b == s[e]
    <3>1. /\ a \in Int /\ b \in Int /\ b \in Office!Customer
          /\ b # tail /\ i # 0 /\ i \in Nat
      BY <1>2, <1>4, <2>1, <2>4, <2>7
    <3> HIDE DEF a, b
    <3>2. Office!Walk(m, a, b, tail, i)
            = <<b>> \o Office!Walk(m, b, Office!next(m, b, a), tail, i - 1)
      BY <3>1, WalkStep
    <3> QED
      BY <3>2 DEF a, b
  <2>9. Office!next(m, s[e], s[e - 1]) = s[f] /\ s[f - 1] = s[e]
    BY <1>5, <2>4
  <2>10. SubSeq(s, e, l - 1) = <<s[e]>> \o SubSeq(s, f, l - 1)
    BY <1>1, <2>4, SubSeqRecursiveFirst DEF l
  <2> HIDE DEF f
  <2> QED
    BY <2>2, <2>6, <2>8, <2>9, <2>10
<1>8. B = {}
  <2>1. B \in SUBSET Nat
    OBVIOUS
  <2> HIDE DEF B
  <2> QED
    BY <1>7, <2>1, LeastNat
<1>9. n \in Nat /\ l - 2 <= n
  BY DEF l
<1>10. right(n)
  BY <1>8, <1>9
<1>11. 2 \in 2 .. l
  BY <1>1
<1>12. Office!Walk(m, s[2 - 1], s[2], tail, n) = SubSeq(s, 2, l - 1)
  BY <1>9, <1>10, <1>11
<1> QED
  BY <1>12 DEF Mid, l, tail

-----------------------------------------------------------------------------
(* The queues of all windows                                               *)

\* Of n customers some stand in the thread s, between two ends.
Row(m, s, n) ==
  /\ Thread(m, s)
  /\ s[1] \notin Office!Customer /\ s[Len(s)] \notin Office!Customer
  /\ \A i \in 2 .. Len(s) - 1 : s[i] \in 0 .. n - 1

\* One thread for every window, and no node in two of them.
Rows(m, S, n) ==
  /\ m \in Mem /\ n \in 0 .. MaxCustomers
  /\ S \in [Window -> Seq(Office!Node)]
  /\ \A k \in Window : Row(m, S[k], n)
  /\ \A k, l \in Window : k # l => Apart(S[k], S[l])

EndsOf(s) == [head |-> s[1], tail |-> s[Len(s)]]

Stored(S) ==
  /\ Rows(Office!Memory, S, akt_numerek)
  /\ kolejki = [k \in Window |-> EndsOf(S[k])]

LEMMA RowCustomers ==
  ASSUME NEW m, NEW s, NEW n \in 0 .. MaxCustomers, Row(m, s, n)
  PROVE  \A i \in 2 .. Len(s) - 1 : s[i] \in Office!Customer
<1>1. 0 .. n - 1 \subseteq Office!Customer
  BY WindowAssumption DEF Office!Customer
<1> QED
  BY <1>1 DEF Row

LEMMA RowShort ==
  ASSUME NEW m, NEW s, NEW n \in Nat, Row(m, s, n)
  PROVE  Len(s) - 2 <= n
<1> DEFINE l == Len(s)
           A == 2 .. l - 1
           B == 0 .. n - 1
           f == [i \in A |-> s[i]]
<1>1. l \in Nat /\ l >= 2
  BY DEF Row, Thread
<1>2. \A i, j \in A : s[i] = s[j] => i = j
  <2>1. A \subseteq 1 .. l
    BY <1>1
  <2> QED
    BY <2>1 DEF Row, Thread
<1>3. f \in [A -> B]
  BY DEF Row
<1> HIDE DEF l
<1>4. IsFiniteSet(A) /\ Cardinality(A) = l - 2
  <2>1. 2 \in Int /\ l - 1 \in Int
    BY <1>1
  <2>2. /\ IsFiniteSet(A)
        /\ Cardinality(A) = IF 2 > l - 1 THEN 0 ELSE (l - 1) - 2 + 1
    BY <2>1, FS_Interval
  <2>3. (IF 2 > l - 1 THEN 0 ELSE (l - 1) - 2 + 1) = l - 2
    BY <1>1
  <2> HIDE DEF A
  <2> QED
    BY <2>2, <2>3
<1>5. IsFiniteSet(B) /\ Cardinality(B) = n
  <2>1. 0 \in Int /\ n - 1 \in Int
    OBVIOUS
  <2>2. /\ IsFiniteSet(B)
        /\ Cardinality(B) = IF 0 > n - 1 THEN 0 ELSE (n - 1) - 0 + 1
    BY <2>1, FS_Interval
  <2>3. (IF 0 > n - 1 THEN 0 ELSE (n - 1) - 0 + 1) = n
    OBVIOUS
  <2> HIDE DEF B
  <2> QED
    BY <2>2, <2>3
<1>6. \A i, j \in A : f[i] = f[j] => i = j
  BY <1>2
<1> HIDE DEF f, A, B
<1>7. ~(Cardinality(B) < Cardinality(A))
  BY <1>3, <1>4, <1>5, <1>6, FS_PigeonHole
<1> QED
  BY <1>1, <1>4, <1>5, <1>7 DEF l

\* delete_list() finds the customers of a thread, in their order.
LEMMA RowsLine ==
  ASSUME NEW m, NEW S, NEW n, Rows(m, S, n), NEW k \in Window,
         NEW e, e = EndsOf(S[k])
  PROVE  Office!Walk(m, e.head, m.l2[e.head], e.tail, n) = Mid(S[k])
<1> DEFINE s == S[k]
<1>1. m \in Mem /\ n \in 0 .. MaxCustomers /\ Row(m, s, n) /\ e = EndsOf(s)
  BY DEF Rows
<1>2. n \in Nat
  BY <1>1, WindowAssumption
<1> HIDE DEF s
<1>3. Thread(m, s)
  BY <1>1 DEF Row
<1>4. e.head = s[1] /\ e.tail = s[Len(s)]
  BY <1>1 DEF EndsOf
<1>5. m.l2[s[1]] = s[2]
  BY <1>3 DEF Thread, IsEnd
<1>6. Office!Walk(m, s[1], s[2], s[Len(s)], n) = Mid(s)
  BY <1>1, <1>2, <1>3, RowCustomers, RowShort, WalkThread
<1> QED
  BY <1>4, <1>5, <1>6 DEF s

-----------------------------------------------------------------------------
(* What a call may change                                                  *)

\* Nothing but the nodes t has changed.
Frame(m, w, t) == \A z \in Office!Node : Missing(z, t) => Alike(m, w, z)

\* All nodes of s are nodes of t.
NodesWithin(s, t) == \A i \in 1 .. Len(s) : \E j \in 1 .. Len(t) : s[i] = t[j]

\* The nodes t are none of another window.
Own(t, S, k) == \A l \in Window \ {k} : Apart(t, S[l])

LEMMA RowsChange ==
  ASSUME NEW m, NEW S, NEW n, Rows(m, S, n), NEW k \in Window,
         NEW w \in Mem, NEW s, NEW t, NEW n2 \in 0 .. MaxCustomers, n <= n2,
         Row(w, s, n2), Frame(m, w, t), Own(t, S, k), NodesWithin(s, t)
  PROVE  Rows(w, [S EXCEPT ![k] = s], n2)
<1> DEFINE S2 == [S EXCEPT ![k] = s]
<1>1. /\ n \in 0 .. MaxCustomers /\ S \in [Window -> Seq(Office!Node)]
      /\ s \in Seq(Office!Node)
  BY DEF Rows, Row, Thread
<1>2. /\ S2 \in [Window -> Seq(Office!Node)] /\ S2[k] = s
      /\ \A l \in Window \ {k} : S2[l] = S[l]
  BY <1>1
<1>3. \A l \in Window \ {k} : Apart(s, S[l]) /\ Apart(S[l], s)
  <2> SUFFICES ASSUME NEW l \in Window \ {k}, NEW i \in 1 .. Len(s),
                      NEW j \in 1 .. Len(S[l])
               PROVE  s[i] # S[l][j]
    BY DEF Apart
  <2>1. PICK h \in 1 .. Len(t) : s[i] = t[h]
    BY DEF NodesWithin
  <2>2. Apart(t, S[l])
    BY DEF Own
  <2> QED
    BY <2>1, <2>2 DEF Apart
<1>4. ASSUME NEW l \in Window \ {k}
      PROVE  Row(w, S[l], n2)
  <2> DEFINE r == S[l]
  <2>1. Row(m, r, n) /\ Apart(t, r)
    BY DEF Rows, Own
  <2> HIDE DEF r
  <2>2. Thread(m, r)
    BY <2>1 DEF Row
  <2>3. \A i \in 1 .. Len(r) : r[i] \in Office!Node /\ Missing(r[i], t)
    <3>1. \A i \in 1 .. Len(r) : r[i] \in Office!Node
      BY <2>2, ElementOfSeq DEF Thread
    <3> QED
      BY <2>1, <3>1 DEF Missing, Apart
  <2>4. Thread(w, r)
    <3>1. \A i \in 1 .. Len(r) : Alike(m, w, r[i])
      BY <2>3 DEF Frame
    <3> QED
      BY <2>2, <3>1, ThreadStays
  <2>5. 0 .. n - 1 \subseteq 0 .. n2 - 1
    BY <1>1, WindowAssumption
  <2>6. Row(w, r, n2)
    BY <2>1, <2>4, <2>5 DEF Row
  <2> QED
    BY <2>6 DEF r
<1> HIDE DEF S2
<1>5. \A l \in Window : Row(w, S2[l], n2)
  BY <1>2, <1>4
<1>6. ASSUME NEW a \in Window, NEW b \in Window, a # b
      PROVE  Apart(S2[a], S2[b])
  <2>1. CASE a = k
    BY <1>2, <1>3, <1>6, <2>1
  <2>2. CASE b = k
    BY <1>2, <1>3, <1>6, <2>2
  <2>3. CASE a # k /\ b # k
    BY <1>2, <1>6, <2>3 DEF Rows
  <2> QED
    BY <2>1, <2>2, <2>3
<1>7. Rows(w, S2, n2)
  BY <1>2, <1>5, <1>6 DEF Rows
<1> QED
  BY <1>7 DEF S2

\* No node of any window has gone.
Absent(gone, S) ==
  \A k \in Window : \A i \in 1 .. Len(S[k]) : S[k][i] \notin gone

\* The pointers of those who have gone are in no queue.
LEMMA RowsLeave ==
  ASSUME NEW m, NEW S, NEW n, Rows(m, S, n), NEW gone,
         Absent(gone, S),
         NEW w, w = Office!Leave(m, gone)
  PROVE  Rows(w, S, n)
<1>1. m.l1 \in Pointers /\ m.l2 \in Pointers /\ m \in Mem
  BY DEF Rows, Mem
<1> DEFINE f(p) == [x \in Office!Node |-> IF x \in gone THEN Office!nullptr
                                          ELSE m[p][x]]
<1>2. f("l1") \in Pointers /\ f("l2") \in Pointers
  BY <1>1 DEF Pointers
<1>3. w = [p \in {"l1", "l2"} |-> f(p)]
  BY DEF Office!Leave
<1>4. /\ \A x \in Office!Node \ gone : f("l1")[x] = m.l1[x]
      /\ \A x \in Office!Node \ gone : f("l2")[x] = m.l2[x]
  OBVIOUS
<1> HIDE DEF f
<1>5. w = [l1 |-> f("l1"), l2 |-> f("l2")]
  BY <1>3
<1>6. w \in Mem /\ w.l1 = f("l1") /\ w.l2 = f("l2")
  BY <1>2, <1>5 DEF Mem
<1>7. \A x \in Office!Node \ gone : Alike(m, w, x)
  BY <1>4, <1>6 DEF Alike
<1>8. ASSUME NEW k \in Window
      PROVE  Row(w, S[k], n)
  <2> DEFINE s == S[k]
  <2>1. Row(m, s, n) /\ \A i \in 1 .. Len(s) : s[i] \notin gone
    BY DEF Rows, Absent
  <2> HIDE DEF s
  <2>2. Thread(m, s)
    BY <2>1 DEF Row
  <2>3. \A i \in 1 .. Len(s) : Alike(m, w, s[i])
    <3>1. \A i \in 1 .. Len(s) : s[i] \in Office!Node
      BY <2>2, ElementOfSeq DEF Thread
    <3> QED
      BY <1>7, <2>1, <3>1
  <2>4. Thread(w, s)
    BY <2>2, <2>3, ThreadStays
  <2> QED
    BY <2>1, <2>4 DEF Row, s
<1> QED
  BY <1>6, <1>8 DEF Rows

-----------------------------------------------------------------------------
(* The promised queues                                                     *)

\* The queues that kol.h promises, as the refinement reads them.
Queue == [k \in Window |-> Office!Line(kolejki[k])]

LEMMA QueueIs ==
  ASSUME NEW S, Stored(S)
  PROVE  Queue = [k \in Window |-> Mid(S[k])]
<1> DEFINE m == Office!Memory
           n == akt_numerek
<1>1. Rows(m, S, n) /\ \A k \in Window : kolejki[k] = EndsOf(S[k])
  BY DEF Stored
<1>2. m.l2 = l2
  BY DEF Office!Memory
<1> HIDE DEF m, n
<1>3. \A k \in Window :
        Office!Walk(m, kolejki[k].head, m.l2[kolejki[k].head],
                    kolejki[k].tail, n) = Mid(S[k])
  BY <1>1, RowsLine
<1>4. \A k \in Window : Office!Line(kolejki[k]) = Mid(S[k])
  BY <1>2, <1>3 DEF Office!Line, m, n
<1> QED
  BY <1>4 DEF Queue

\* A call that leaves a memory of threads leaves their customers in the
\* queues.
LEMMA NextStored ==
  ASSUME NEW w, NEW S, NEW n, Rows(w, S, n), Office!Becomes(w),
         akt_numerek' = n, kolejki' = [k \in Window |-> EndsOf(S[k])]
  PROVE  Stored(S)' /\ Queue' = [k \in Window |-> Mid(S[k])]
<1>1. w \in Mem
  BY DEF Rows
<1>2. Office!Memory' = w
  BY <1>1 DEF Office!Memory, Office!Becomes, Mem
<1>3. \A k \in Window : kolejki'[k] = EndsOf(S[k])
  OBVIOUS
<1>4. Stored(S)'
  BY <1>2 DEF Stored
<1>5. l2' = w.l2
  BY DEF Office!Becomes
<1>6. \A k \in Window :
        Office!Walk(w, kolejki'[k].head, w.l2[kolejki'[k].head],
                    kolejki'[k].tail, n) = Mid(S[k])
  BY <1>3, RowsLine
<1>7. \A k \in Window : Office!Line(kolejki[k])' = Mid(S[k])
  BY <1>2, <1>5, <1>6 DEF Office!Line
<1> QED
  BY <1>4, <1>7 DEF Queue

\* The node el is in no queue.
Nobody(el, S) == \A k \in Window : Missing(el, S[k])

LEMMA RowPush ==
  ASSUME NEW m, NEW S, NEW n, Rows(m, S, n), NEW k \in Window,
         NEW n2 \in 0 .. MaxCustomers, n <= n2, NEW el \in 0 .. n2 - 1,
         Nobody(el, S), NEW w, w = Office!push_back(m, Office!Last(S[k]), el)
  PROVE  /\ Rows(w, [S EXCEPT ![k] = With(S[k], el)], n2)
         /\ EndsOf(With(S[k], el)) = EndsOf(S[k])
         /\ Mid(With(S[k], el)) = Append(Mid(S[k]), el)
<1> DEFINE s == S[k]
           t == With(s, el)
           l == Len(s)
<1>1. /\ m \in Mem /\ n \in 0 .. MaxCustomers /\ Row(m, s, n)
      /\ Missing(el, s)
  BY DEF Rows, Nobody
<1>2. el \in Office!Customer /\ el \in Office!Node
  <2>1. el \in Office!Customer
    BY WindowAssumption DEF Office!Customer
  <2> QED
    BY <2>1, NodesAre
<1>3. Own(t, S, k)
  <2> SUFFICES ASSUME NEW h \in Window \ {k}
               PROVE  Apart(t, S[h])
    BY DEF Own
  <2>1. Apart(s, S[h]) /\ Missing(el, S[h])
    BY DEF Rows, Nobody
  <2>2. s \in Seq(Office!Node) /\ l \in Nat /\ l >= 2
    BY <1>1 DEF Row, Thread
  <2>3. /\ t \in Seq(Office!Node) /\ Len(t) = l + 1
        /\ \A i \in 1 .. l - 1 : t[i] = s[i]
        /\ t[l] = el /\ t[l + 1] = s[l]
    BY <1>2, <2>2, WithIs
  <2> HIDE DEF t
  <2> SUFFICES ASSUME NEW i \in 1 .. l + 1, NEW j \in 1 .. Len(S[h])
               PROVE  t[i] # S[h][j]
    BY <2>3 DEF Apart
  <2>4. l \in 1 .. l /\ \A a \in 1 .. l - 1 : a \in 1 .. l
    <3> HIDE DEF l
    <3> QED
      BY <2>2
  <2>5. CASE i \in 1 .. l - 1
    BY <2>1, <2>3, <2>4, <2>5 DEF Apart
  <2>6. CASE i = l
    BY <2>1, <2>3, <2>6 DEF Missing
  <2>7. CASE i = l + 1
    BY <2>1, <2>3, <2>4, <2>7 DEF Apart
  <2>8. i \in 1 .. l - 1 \/ i = l \/ i = l + 1
    <3> HIDE DEF l
    <3> QED
      BY <2>2
  <2> QED
    BY <2>5, <2>6, <2>7, <2>8
<1> HIDE DEF s
<1>4. Thread(m, s) /\ s \in Seq(Office!Node) /\ l \in Nat /\ l >= 2
  BY <1>1 DEF Row, Thread
<1>5. /\ t \in Seq(Office!Node) /\ Len(t) = l + 1
      /\ \A i \in 1 .. l - 1 : t[i] = s[i]
      /\ t[l] = el /\ t[l + 1] = s[l]
  BY <1>2, <1>4, WithIs
<1>6. /\ w \in Mem /\ Thread(w, t)
      /\ \A z \in Office!Node :
           z # el /\ z # s[l] /\ z # s[l - 1] => Alike(m, w, z)
  BY <1>1, <1>2, <1>4, PushKeeps DEF s
<1> HIDE DEF t
<1>7. /\ 1 \in 1 .. l - 1 /\ l - 1 \in 1 .. l - 1
      /\ l - 1 \in 1 .. l + 1 /\ l \in 1 .. l + 1 /\ l + 1 \in 1 .. l + 1
  <2> HIDE DEF l
  <2> QED
    BY <1>4
<1>8. t[1] = s[1] /\ t[Len(t)] = s[Len(s)]
  BY <1>5, <1>7
<1>9. EndsOf(t) = EndsOf(s)
  BY <1>8 DEF EndsOf
<1>10. Frame(m, w, t)
  <2> SUFFICES ASSUME NEW z \in Office!Node, Missing(z, t)
               PROVE  Alike(m, w, z)
    BY DEF Frame
  <2>1. \A i \in 1 .. l + 1 : t[i] # z
    BY <1>5 DEF Missing
  <2>2. z # el /\ z # s[l] /\ z # s[l - 1]
    BY <1>5, <1>7, <2>1
  <2> QED
    BY <1>6, <2>2
<1>11. Row(w, t, n2)
  <2>1. \A i \in 2 .. (l + 1) - 1 : t[i] \in 0 .. n2 - 1
    <3> SUFFICES ASSUME NEW i \in 2 .. (l + 1) - 1
                 PROVE  t[i] \in 0 .. n2 - 1
      OBVIOUS
    <3>1. CASE i = l
      BY <1>5, <3>1
    <3>2. CASE i # l
      <4>1. i \in 2 .. l - 1 /\ i \in 1 .. l - 1
        <5> HIDE DEF l
        <5> QED
          BY <1>4, <3>2
      <4>2. s[i] \in 0 .. n - 1
        BY <1>1, <4>1 DEF Row
      <4>3. t[i] = s[i]
        BY <1>5, <4>1
      <4>4. 0 .. n - 1 \subseteq 0 .. n2 - 1
        BY <1>1, WindowAssumption
      <4> QED
        BY <4>2, <4>3, <4>4
    <3> QED
      BY <3>1, <3>2
  <2>2. s[1] \notin Office!Customer /\ s[Len(s)] \notin Office!Customer
    BY <1>1 DEF Row
  <2> QED
    BY <1>5, <1>6, <1>8, <2>1, <2>2 DEF Row
<1>12. NodesWithin(t, t)
  BY DEF NodesWithin
<1>13. Rows(w, [S EXCEPT ![k] = t], n2)
  BY <1>3, <1>6, <1>10, <1>11, <1>12, RowsChange
<1>14. Mid(With(s, el)) = Append(Mid(s), el)
  BY <1>2, <1>4, MidWith
<1> QED
  BY <1>9, <1>13, <1>14 DEF s, t

LEMMA RowRemove ==
  ASSUME NEW m, NEW S, NEW n, Rows(m, S, n), NEW k \in Window,
         NEW p \in 2 .. Len(S[k]) - 1,
         NEW w, w = Office!remove_elem(m, S[k][p])
  PROVE  /\ Rows(w, [S EXCEPT ![k] = Without(S[k], p)], n)
         /\ EndsOf(Without(S[k], p)) = EndsOf(S[k])
         /\ Nobody(S[k][p], [S EXCEPT ![k] = Without(S[k], p)])
<1> DEFINE s == S[k]
           t == Without(s, p)
           l == Len(s)
           S2 == [S EXCEPT ![k] = t]
<1>1. /\ m \in Mem /\ n \in 0 .. MaxCustomers /\ Row(m, s, n)
      /\ S \in [Window -> Seq(Office!Node)]
  BY DEF Rows
<1>2. Own(s, S, k)
  BY DEF Rows, Own
<1>3. p \in 2 .. l - 1 /\ w = Office!remove_elem(m, s[p])
  OBVIOUS
<1> HIDE DEF s
<1>4. Thread(m, s) /\ s \in Seq(Office!Node) /\ l \in Nat /\ l >= 3
  BY <1>1, <1>3 DEF Row, Thread
<1>5. /\ w \in Mem /\ Thread(w, t)
      /\ \A z \in Office!Node :
           z # s[p - 1] /\ z # s[p + 1] => Alike(m, w, z)
  BY <1>1, <1>3, <1>4, RemoveKeeps
<1>6. p \in 1 .. l
  BY <1>3, <1>4
<1>7. /\ t \in Seq(Office!Node) /\ Len(t) = l - 1
      /\ \A i \in 1 .. p - 1 : t[i] = s[i]
      /\ \A i \in p .. l - 1 : t[i] = s[i + 1]
  BY <1>4, <1>6, WithoutIs
<1> HIDE DEF t
<1>8. /\ p - 1 \in 1 .. l /\ p + 1 \in 1 .. l
      /\ 1 \in 1 .. p - 1 /\ l - 1 \in p .. l - 1 /\ (l - 1) + 1 = l
      /\ \A i \in 1 .. l - 1 : i \in 1 .. p - 1 \/ i \in p .. l - 1
      /\ \A i \in 1 .. p - 1 : i \in 1 .. l /\ i # p
      /\ \A i \in p .. l - 1 : i + 1 \in 1 .. l /\ i + 1 # p
  <2> HIDE DEF l
  <2> QED
    BY <1>3, <1>4
<1>9. t[1] = s[1] /\ t[Len(t)] = s[Len(s)]
  BY <1>7, <1>8
<1>10. EndsOf(t) = EndsOf(s)
  BY <1>9 DEF EndsOf
<1>11. Frame(m, w, s)
  BY <1>5, <1>8 DEF Frame, Missing
<1>12. NodesWithin(t, s)
  BY <1>7, <1>8 DEF NodesWithin
<1>13. Row(w, t, n)
  <2>1. ASSUME NEW i \in 2 .. (l - 1) - 1
        PROVE  t[i] \in 0 .. n - 1
    <3>1. CASE i \in 1 .. p - 1
      <4>1. i \in 2 .. l - 1
        <5> HIDE DEF l
        <5> QED
          BY <1>4
      <4> QED
        BY <1>1, <1>7, <3>1, <4>1 DEF Row
    <3>2. CASE i \in p .. l - 1
      <4>1. i + 1 \in 2 .. l - 1
        <5> HIDE DEF l
        <5> QED
          BY <1>4
      <4> QED
        BY <1>1, <1>7, <3>2, <4>1 DEF Row
    <3>3. i \in 1 .. l - 1
      <4> HIDE DEF l
      <4> QED
        BY <1>4
    <3> QED
      BY <1>8, <3>1, <3>2, <3>3
  <2>2. s[1] \notin Office!Customer /\ s[Len(s)] \notin Office!Customer
    BY <1>1 DEF Row
  <2> QED
    BY <1>5, <1>7, <1>9, <2>1, <2>2 DEF Row
<1>14. Rows(w, S2, n)
  <2>1. n <= n
    BY <1>1, WindowAssumption
  <2> QED
    BY <1>1, <1>2, <1>5, <1>11, <1>12, <1>13, <2>1, RowsChange
<1>15. Missing(s[p], t)
  <2> SUFFICES ASSUME NEW i \in 1 .. l - 1 PROVE t[i] # s[p]
    BY <1>7 DEF Missing
  <2>1. \A a \in 1 .. l : a # p => s[a] # s[p]
    BY <1>4, <1>6 DEF Thread
  <2> QED
    BY <1>7, <1>8, <2>1
<1>16. ASSUME NEW h \in Window, h # k
       PROVE  Missing(s[p], S[h])
  BY <1>2, <1>6, <1>16 DEF Own, Apart, Missing
<1>17. Nobody(s[p], S2)
  <2>1. S2[k] = t /\ \A h \in Window : h # k => S2[h] = S[h]
    BY <1>1
  <2> HIDE DEF S2
  <2> QED
    BY <1>15, <1>16, <2>1 DEF Nobody
<1> QED
  BY <1>10, <1>14, <1>17 DEF s, t, S2

\* The i-th customer of a thread is out of it.
LEMMA MidWithout ==
  ASSUME NEW T, NEW s \in Seq(T), NEW i \in 1 .. Len(s) - 2,
         NEW p, p = i + 1
  PROVE  /\ Mid(Without(s, p)) = Office!Promise!RemoveAt(Mid(s), i)
         /\ Mid(s)[i] = s[p] /\ p \in 2 .. Len(s) - 1
<1> DEFINE l == Len(s)
<1>1. /\ l \in Nat /\ l >= 2 /\ p \in 2 .. l - 1 /\ 1 \in 0 .. l - p
      /\ p = (p + 1) - 1 /\ p - 2 = i - 1 /\ i \in 1 .. l - 2
  OBVIOUS
<1>2. Without(s, p) = Cut(s, p, 1)
  BY DEF Without, Cut
<1>3. Mid(Cut(s, p, 1))
        = SubSeq(Mid(s), 1, p - 2) \o SubSeq(Mid(s), p, Len(Mid(s)))
  BY <1>1, MidCut
<1>4. Mid(s)[i] = s[p]
  BY <1>1, MidIs
<1> QED
  BY <1>1, <1>2, <1>3, <1>4 DEF Office!Promise!RemoveAt

\* The first customer of a thread is out of it.
LEMMA MidFirst ==
  ASSUME NEW T, NEW s \in Seq(T), Len(s) >= 3
  PROVE  /\ Mid(Without(s, 2)) = Tail(Mid(s)) /\ Mid(s) # <<>>
         /\ Head(Mid(s)) = s[2] /\ 2 \in 2 .. Len(s) - 1
<1> DEFINE l == Len(s)
           x == Mid(s)
           i == 1
           p == 2
<1>1. l \in Nat /\ l >= 3 /\ i \in 1 .. l - 2 /\ p = i + 1 /\ l - 2 >= 1
  OBVIOUS
<1>2. x \in Seq(T) /\ Len(x) = l - 2
  BY <1>1, MidIs
<1> HIDE DEF i, p, x
<1>3. /\ Mid(Without(s, p)) = Office!Promise!RemoveAt(x, i)
      /\ x[i] = s[p] /\ p \in 2 .. Len(s) - 1
  BY <1>1, MidWithout DEF x
<1>4. x # <<>>
  BY <1>1, <1>2
<1>5. SubSeq(x, 1, 0) = <<>>
  BY SubSeqEmpty
<1>6. Tail(x) = SubSeq(x, 2, Len(x)) /\ Tail(x) \in Seq(T)
  BY <1>2, <1>4, TailIsSubSeq, HeadTailProperties
<1>7. <<>> \o Tail(x) = Tail(x)
  BY <1>6, ConcatEmptySeq
<1>8. Office!Promise!RemoveAt(x, i)
        = SubSeq(x, 1, 0) \o SubSeq(x, 2, Len(x))
  BY DEF Office!Promise!RemoveAt, i
<1>9. Head(x) = x[1]
  BY <1>2, <1>4
<1> QED
  BY <1>3, <1>4, <1>5, <1>6, <1>7, <1>8, <1>9 DEF x, i, p

-----------------------------------------------------------------------------
(* What each call does to the promised queues                              *)

\* Every queue is stored as a thread.
Threaded == \E S : Stored(S)

\* The thread of one window has become t.
Changed(S, k, t, T) == T = [S EXCEPT ![k] = t]

\* A call that changes the thread of one window, but not its ends, changes
\* the queue of that window.
LEMMA OneQueue ==
  ASSUME NEW S, Stored(S), NEW k \in Window, NEW t, NEW w, NEW n, NEW T,
         Changed(S, k, t, T), Rows(w, T, n), EndsOf(t) = EndsOf(S[k]),
         Office!Becomes(w), akt_numerek' = n, kolejki' = kolejki
  PROVE  /\ Stored(T)' /\ Queue' = [Queue EXCEPT ![k] = Mid(t)]
         /\ Queue[k] = Mid(S[k])
<1>1. /\ T \in [Window -> Seq(Office!Node)]
      /\ S \in [Window -> Seq(Office!Node)]
      /\ kolejki = [h \in Window |-> EndsOf(S[h])]
  BY DEF Stored, Rows
<1>2. T[k] = t /\ \A h \in Window \ {k} : T[h] = S[h]
  BY <1>1 DEF Changed
<1>3. kolejki' = [h \in Window |-> EndsOf(T[h])]
  BY <1>1, <1>2
<1>4. Stored(T)' /\ Queue' = [h \in Window |-> Mid(T[h])]
  BY <1>3, NextStored
<1>5. Queue = [h \in Window |-> Mid(S[h])]
  BY QueueIs
<1> QED
  BY <1>2, <1>4, <1>5

LEMMA EntersQueue ==
  ASSUME Threaded, NEW k \in Window, Office!nowy_interesant(k)
  PROVE  Threaded' /\ Office!Promise!Enter(k)
<1>1. PICK S : Stored(S)
  BY DEF Threaded
<1> DEFINE m == Office!Memory
           n == akt_numerek
           s == S[k]
           t == With(s, n)
           w == Office!push_back(m, Office!Last(s), n)
<1>2. /\ Rows(m, S, n) /\ kolejki = [h \in Window |-> EndsOf(S[h])]
  BY <1>1 DEF Stored
<1>3. n < MaxCustomers /\ n \in 0 .. MaxCustomers
  BY <1>2 DEF Office!nowy_interesant, Rows
<1>4. /\ n + 1 \in 0 .. MaxCustomers /\ n <= n + 1 /\ n \in 0 .. (n + 1) - 1
      /\ n \notin 0 .. n - 1
  BY <1>3, WindowAssumption
<1>5. n \in Office!Customer
  BY <1>3, WindowAssumption DEF Office!Customer
<1>6. kolejki[k].tail = Office!Last(s)
  BY <1>2 DEF EndsOf, Office!Last
<1>7. /\ Office!Becomes(w) /\ n' = n + 1 /\ returned' = <<n>>
      /\ kolejki' = kolejki
  BY <1>6 DEF Office!nowy_interesant
<1> HIDE DEF m, n
<1>8. Nobody(n, S)
  <2> SUFFICES ASSUME NEW h \in Window PROVE Missing(n, S[h])
    BY DEF Nobody
  <2> DEFINE r == S[h]
  <2>1. Row(m, r, n)
    BY <1>2 DEF Rows
  <2> HIDE DEF r
  <2>2. Len(r) \in Nat
    BY <2>1 DEF Row, Thread
  <2>3. \A i \in 1 .. Len(r) : i = 1 \/ i = Len(r) \/ i \in 2 .. Len(r) - 1
    BY <2>2
  <2>4. Missing(n, r)
    BY <1>4, <1>5, <2>1, <2>3 DEF Row, Missing
  <2> QED
    BY <2>4 DEF r
<1> HIDE DEF w
<1>9. PICK T : T = [S EXCEPT ![k] = t]
  OBVIOUS
<1>10. /\ Rows(w, T, n + 1) /\ EndsOf(t) = EndsOf(s)
       /\ Mid(t) = Append(Mid(s), n)
  <2>1. w = Office!push_back(m, Office!Last(S[k]), n)
    BY DEF w
  <2>2. n + 1 \in 0 .. MaxCustomers /\ n <= n + 1 /\ n \in 0 .. (n + 1) - 1
    BY <1>4
  <2>3. /\ Rows(w, [S EXCEPT ![k] = With(S[k], n)], n + 1)
        /\ EndsOf(With(S[k], n)) = EndsOf(S[k])
        /\ Mid(With(S[k], n)) = Append(Mid(S[k]), n)
    <3> DEFINE n2 == n + 1
    <3>1. n2 \in 0 .. MaxCustomers /\ n <= n2 /\ n \in 0 .. n2 - 1
      BY <2>2
    <3> HIDE DEF n2
    <3>2. /\ Rows(w, [S EXCEPT ![k] = With(S[k], n)], n2)
          /\ EndsOf(With(S[k], n)) = EndsOf(S[k])
          /\ Mid(With(S[k], n)) = Append(Mid(S[k]), n)
      BY <1>2, <1>8, <2>1, <3>1, RowPush
    <3> QED
      BY <3>2 DEF n2
  <2> QED
    BY <1>9, <2>3
<1>11. /\ Stored(T)' /\ Queue' = [Queue EXCEPT ![k] = Mid(t)]
       /\ Queue[k] = Mid(s)
  <2>1. akt_numerek' = n + 1
    BY <1>7 DEF n
  <2> HIDE DEF t
  <2>2. /\ Changed(S, k, t, T) /\ Rows(w, T, n + 1)
        /\ EndsOf(t) = EndsOf(S[k])
    BY <1>9, <1>10 DEF Changed
  <2> QED
    BY <1>1, <1>7, <2>1, <2>2, OneQueue
<1>12. Queue' = [Queue EXCEPT ![k] = Append(@, n)]
  BY <1>10, <1>11
<1>13. Threaded'
  BY <1>11 DEF Threaded
<1>14. Office!Promise!Enter(k)
  BY <1>3, <1>7, <1>12 DEF Office!Promise!Enter, Queue, n
<1> QED
  BY <1>13, <1>14

LEMMA NothingMoves ==
  ASSUME NEW S, Stored(S),
         UNCHANGED <<Office!pointers, kolejki, akt_numerek>>
  PROVE  Stored(S)' /\ Queue' = Queue
<1>1. l1' = l1 /\ l2' = l2 /\ kolejki' = kolejki /\ akt_numerek' = akt_numerek
  BY DEF Office!pointers
<1>2. Office!Memory' = Office!Memory
  BY <1>1 DEF Office!Memory
<1>3. Stored(S)'
  BY <1>1, <1>2 DEF Stored
<1>4. \A k \in Window : Office!Line(kolejki[k])' = Office!Line(kolejki[k])
  BY <1>1, <1>2 DEF Office!Line
<1> QED
  BY <1>3, <1>4 DEF Queue

\* A window with no customer is a thread of two ends.
LEMMA SeenEmpty ==
  ASSUME NEW m, NEW s, Thread(m, s)
  PROVE  /\ s[2] = Office!Last(s) <=> Len(s) = 2
         /\ Len(s) = 2 => Mid(s) = <<>>
<1> DEFINE l == Len(s)
<1>1. l \in Nat /\ l >= 2 /\ s \in Seq(Office!Node)
  BY DEF Thread
<1>2. 2 \in 1 .. l /\ l \in 1 .. l
  <2> HIDE DEF l
  <2> QED
    BY <1>1
<1>3. s[2] = s[l] <=> l = 2
  BY <1>2 DEF Thread
<1>4. ASSUME l = 2 PROVE Mid(s) = <<>>
  <2>1. SubSeq(s, 2, 1) = <<>>
    BY SubSeqEmpty
  <2>2. l - 1 = 1
    BY <1>4
  <2> HIDE DEF l
  <2>3. SubSeq(s, 2, l - 1) = <<>>
    BY <2>1, <2>2
  <2> QED
    BY <2>3 DEF Mid, l
<1> QED
  BY <1>3, <1>4 DEF Office!Last

LEMMA OneAbsent ==
  ASSUME NEW S, NEW el, Nobody(el, S)
  PROVE  Absent({el}, S)
BY DEF Nobody, Absent, Missing

LEMMA ServesQueue ==
  ASSUME Threaded, NEW k \in Window, Office!obsluz(k)
  PROVE  Threaded' /\ Office!Promise!Serve(k)
<1>1. PICK S : Stored(S)
  BY DEF Threaded
<1> DEFINE m == Office!Memory
           n == akt_numerek
           s == S[k]
           first == l2[kolejki[k].head]
<1>2. /\ Rows(m, S, n) /\ kolejki[k] = EndsOf(s)
  BY <1>1 DEF Stored
<1>3. Row(m, s, n) /\ Thread(m, s)
  BY <1>2 DEF Rows, Row
<1>4. first = s[2] /\ kolejki[k].tail = Office!Last(s)
  <2>1. kolejki[k].head = s[1] /\ kolejki[k].tail = s[Len(s)]
    BY <1>2 DEF EndsOf
  <2>2. m.l2[s[1]] = s[2] /\ m.l2 = l2
    BY <1>3 DEF Thread, IsEnd, Office!Memory
  <2> QED
    BY <2>1, <2>2 DEF Office!Last
<1>5. Queue = [h \in Window |-> Mid(S[h])]
  BY <1>1, QueueIs
<1>6. kolejki' = kolejki /\ n' = n
  BY DEF Office!obsluz
<1>7. CASE first = kolejki[k].tail
  <2>1. UNCHANGED Office!pointers /\ returned' = <<>>
    BY <1>7 DEF Office!obsluz
  <2>2. Stored(S)' /\ Queue' = Queue
    BY <1>1, <1>6, <2>1, NothingMoves
  <2>3. Mid(s) = <<>>
    <3> HIDE DEF s, first
    <3> QED
      BY <1>3, <1>4, <1>7, SeenEmpty
  <2>4. Queue[k] = <<>>
    BY <1>5, <2>3
  <2>5. Threaded'
    BY <2>2 DEF Threaded
  <2>6. Office!Promise!Serve(k)
    BY <1>6, <2>1, <2>2, <2>4 DEF Office!Promise!Serve, Queue
  <2> QED
    BY <2>5, <2>6
<1>8. CASE first # kolejki[k].tail
  <2> DEFINE w1 == Office!remove_elem(m, first)
             w == Office!Leave(w1, {first})
             t == Without(s, 2)
  <2>1. Office!Becomes(w) /\ returned' = <<first>>
    BY <1>8 DEF Office!obsluz
  <2>2. Len(s) \in Nat /\ Len(s) >= 3 /\ s \in Seq(Office!Node)
    <3>1. Len(s) \in Nat /\ Len(s) >= 2 /\ s \in Seq(Office!Node)
      BY <1>3 DEF Thread
    <3>2. Len(s) # 2
      <4> HIDE DEF s, first
      <4> QED
        BY <1>3, <1>4, <1>8, SeenEmpty
    <3> DEFINE l == Len(s)
    <3>3. l \in Nat /\ l >= 2 /\ l # 2
      BY <3>1, <3>2
    <3> HIDE DEF l
    <3>4. l >= 3
      BY <3>3
    <3> QED
      BY <3>1, <3>4 DEF l
  <2>3. /\ Mid(t) = Tail(Mid(s)) /\ Mid(s) # <<>> /\ Head(Mid(s)) = s[2]
        /\ 2 \in 2 .. Len(s) - 1
    BY <2>2, MidFirst
  <2> HIDE DEF w1, w, m, n, first
  <2>4. PICK T : Changed(S, k, t, T)
    BY DEF Changed
  <2>5. Rows(w1, T, n) /\ EndsOf(t) = EndsOf(s) /\ Nobody(first, T)
    <3>1. w1 = Office!remove_elem(m, S[k][2])
      BY <1>4 DEF w1
    <3>2. 2 \in 2 .. Len(S[k]) - 1
      BY <2>3
    <3>3. /\ Rows(w1, [S EXCEPT ![k] = Without(S[k], 2)], n)
          /\ EndsOf(Without(S[k], 2)) = EndsOf(S[k])
          /\ Nobody(S[k][2], [S EXCEPT ![k] = Without(S[k], 2)])
      BY <1>2, <3>1, <3>2, RowRemove
    <3> QED
      BY <1>4, <2>4, <3>3 DEF Changed
  <2>6. Rows(w, T, n)
    BY <2>5, OneAbsent, RowsLeave DEF w
  <2> HIDE DEF t
  <2>7. /\ Stored(T)' /\ Queue' = [Queue EXCEPT ![k] = Mid(t)]
        /\ Queue[k] = Mid(s)
    <3>1. akt_numerek' = n
      BY <1>6 DEF n
    <3>2. EndsOf(t) = EndsOf(S[k])
      BY <2>5
    <3> QED
      BY <1>1, <1>6, <2>1, <2>4, <2>6, <3>1, <3>2, OneQueue
  <2>8. Threaded'
    BY <2>7 DEF Threaded
  <2>9. /\ Queue' = [Queue EXCEPT ![k] = Tail(@)] /\ Queue[k] # <<>>
        /\ returned' = <<Head(Queue[k])>>
    BY <1>4, <2>1, <2>3, <2>7
  <2>10. Office!Promise!Serve(k)
    BY <1>6, <2>9 DEF Office!Promise!Serve, Queue, n
  <2> QED
    BY <2>8, <2>10
<1> QED
  BY <1>7, <1>8

LEMMA TurnsQueue ==
  ASSUME Threaded, NEW k \in Window, Office!naczelnik(k)
  PROVE  Threaded' /\ Office!Promise!Turn(k)
<1>1. PICK S : Stored(S)
  BY DEF Threaded
<1> DEFINE m == Office!Memory
           n == akt_numerek
           s == S[k]
           t == Back(s)
           l == Len(s)
<1>2. /\ Rows(m, S, n) /\ kolejki = [h \in Window |-> EndsOf(S[h])]
  BY <1>1 DEF Stored
<1>3. /\ Row(m, s, n) /\ Thread(m, s) /\ m \in Mem /\ n \in 0 .. MaxCustomers
      /\ s \in Seq(Office!Node) /\ l \in Nat /\ l >= 2
  BY <1>2 DEF Rows, Row, Thread
<1>4. Own(s, S, k)
  BY <1>2 DEF Rows, Own
<1>5. /\ Office!Becomes(m) /\ n' = n /\ returned' = <<>>
      /\ kolejki' = [kolejki EXCEPT ![k] = [head |-> @.tail, tail |-> @.head]]
  BY DEF Office!naczelnik, Office!Becomes, Office!Memory, Office!pointers
<1> HIDE DEF m, n, s
<1>6. /\ t \in Seq(Office!Node) /\ Len(t) = l
      /\ \A i \in 1 .. l : t[i] = s[(l - i) + 1]
  BY <1>3, BackIs
<1>7. Thread(m, t)
  BY <1>3, BackKeeps
<1> HIDE DEF t
<1>8. /\ 1 \in 1 .. l /\ l \in 1 .. l /\ (l - 1) + 1 = l /\ (l - l) + 1 = 1
      /\ \A i \in 1 .. l : (l - i) + 1 \in 1 .. l
      /\ \A i \in 2 .. l - 1 : i \in 1 .. l /\ (l - i) + 1 \in 2 .. l - 1
  <2> HIDE DEF l
  <2> QED
    BY <1>3
<1>9. t[1] = s[l] /\ t[l] = s[1]
  BY <1>6, <1>8
<1>10. Row(m, t, n)
  <2>1. \A i \in 2 .. l - 1 : t[i] \in 0 .. n - 1
    <3> TAKE i \in 2 .. l - 1
    <3>1. t[i] = s[(l - i) + 1] /\ (l - i) + 1 \in 2 .. l - 1
      BY <1>6, <1>8
    <3> QED
      BY <1>3, <3>1 DEF Row
  <2> QED
    BY <1>3, <1>6, <1>7, <1>9, <2>1 DEF Row
<1>11. NodesWithin(t, s)
  BY <1>6, <1>8 DEF NodesWithin
<1>12. Frame(m, m, s)
  BY DEF Frame, Alike
<1>13. PICK T : Changed(S, k, t, T)
  BY DEF Changed
<1>14. Rows(m, T, n)
  <2>1. n <= n
    BY <1>3, WindowAssumption
  <2>2. Rows(m, [S EXCEPT ![k] = t], n)
    BY <1>2, <1>3, <1>4, <1>10, <1>11, <1>12, <2>1, RowsChange
  <2> QED
    BY <1>13, <2>2 DEF Changed
<1>15. /\ T[k] = t /\ \A h \in Window \ {k} : T[h] = S[h]
  BY <1>2, <1>13 DEF Changed, Rows
<1>16. kolejki' = [h \in Window |-> EndsOf(T[h])]
  <2>1. kolejki[k].tail = s[l] /\ kolejki[k].head = s[1]
    BY <1>2 DEF EndsOf, s
  <2>2. EndsOf(t) = [head |-> s[l], tail |-> s[1]]
    BY <1>6, <1>9 DEF EndsOf
  <2>3. kolejki'[k] = EndsOf(t)
    BY <1>2, <1>5, <2>1, <2>2
  <2>4. \A h \in Window \ {k} : kolejki'[h] = EndsOf(T[h])
    BY <1>2, <1>5, <1>15
  <2>5. kolejki' = [h \in Window |-> kolejki'[h]]
    BY <1>2, <1>5
  <2> QED
    BY <1>15, <2>3, <2>4, <2>5
<1>17. Stored(T)' /\ Queue' = [h \in Window |-> Mid(T[h])]
  BY <1>5, <1>14, <1>16, NextStored DEF n
<1>18. Queue = [h \in Window |-> Mid(S[h])]
  BY <1>1, QueueIs
<1>19. Mid(t) = Back(Mid(s))
  BY <1>3, MidBack DEF t
<1>20. Queue' = [Queue EXCEPT ![k] = Back(@)]
  BY <1>15, <1>17, <1>18, <1>19 DEF s
<1>21. Threaded'
  BY <1>17 DEF Threaded
<1>22. \A x : Back(x) = Office!Promise!Reverse(x)
  BY DEF Back, Office!Promise!Reverse
<1>23. Office!Promise!Turn(k)
  BY <1>5, <1>20, <1>22 DEF Office!Promise!Turn, Queue, n
<1> QED
  BY <1>21, <1>23

LEMMA MovesQueue ==
  ASSUME Threaded, NEW k1 \in Window, NEW k2 \in Window \ {k1},
         NEW i \in Office!ToSet(Office!Standing(k1)),
         Office!zmiana_okienka(i, k2)
  PROVE  /\ Threaded'
         /\ \E j \in DOMAIN Queue[k1] : Office!Promise!Move(k1, j, k2)
<1>1. PICK S : Stored(S)
  BY DEF Threaded
<1> DEFINE m == Office!Memory
           n == akt_numerek
           s == S[k1]
           r == S[k2]
           l == Len(s)
<1>2. /\ Rows(m, S, n) /\ kolejki = [h \in Window |-> EndsOf(S[h])]
      /\ S \in [Window -> Seq(Office!Node)] /\ n \in 0 .. MaxCustomers
  BY <1>1 DEF Stored, Rows
<1>3. /\ Row(m, s, n) /\ s \in Seq(Office!Node) /\ l \in Nat /\ l >= 2
  BY <1>2 DEF Rows, Row, Thread
<1>4. Queue = [h \in Window |-> Mid(S[h])]
  BY <1>1, QueueIs
<1>5. Office!Standing(k1) = Mid(s)
  BY <1>4 DEF Office!Standing, Queue
<1>6. /\ Mid(s) \in Seq(Office!Node) /\ Len(Mid(s)) = l - 2
  BY <1>3, MidIs
<1>7. PICK j \in 1 .. l - 2 : i = Mid(s)[j]
  BY <1>5, <1>6 DEF Office!ToSet
<1>8. kolejki[k2].tail = Office!Last(r)
  BY <1>2 DEF EndsOf, Office!Last
<1> DEFINE p == j + 1
           w1 == Office!remove_elem(m, i)
           w == Office!push_back(w1, Office!Last(r), i)
           t == Without(s, p)
           u == With(r, i)
<1>9. /\ Office!Becomes(w) /\ returned' = <<>> /\ kolejki' = kolejki /\ n' = n
  BY <1>8 DEF Office!zmiana_okienka
<1>10. /\ Mid(t) = Office!Promise!RemoveAt(Mid(s), j)
       /\ Mid(s)[j] = s[p] /\ p \in 2 .. l - 1
  BY <1>3, MidWithout
<1> HIDE DEF p
<1>11. i = s[p] /\ i \in 0 .. n - 1
  BY <1>3, <1>7, <1>10 DEF Row
<1> HIDE DEF m, n, w1
<1>12. PICK T1 : Changed(S, k1, t, T1)
  BY DEF Changed
<1>13. Rows(w1, T1, n) /\ EndsOf(t) = EndsOf(s) /\ Nobody(i, T1)
  <2>1. w1 = Office!remove_elem(m, S[k1][p]) /\ p \in 2 .. Len(S[k1]) - 1
    BY <1>10, <1>11 DEF w1
  <2>2. /\ Rows(w1, [S EXCEPT ![k1] = Without(S[k1], p)], n)
        /\ EndsOf(Without(S[k1], p)) = EndsOf(S[k1])
        /\ Nobody(S[k1][p], [S EXCEPT ![k1] = Without(S[k1], p)])
    BY <1>2, <2>1, RowRemove
  <2> QED
    BY <1>11, <1>12, <2>2 DEF Changed
<1> HIDE DEF t
<1>14. T1[k1] = t /\ \A h \in Window \ {k1} : T1[h] = S[h]
  BY <1>2, <1>12 DEF Changed
<1>15. T1[k2] = r
  BY <1>14
<1> HIDE DEF r, w
<1>16. PICK T : Changed(T1, k2, u, T)
  BY DEF Changed
<1>17. /\ Rows(w, T, n) /\ EndsOf(u) = EndsOf(r) /\ Mid(u) = Append(Mid(r), i)
  <2>1. w = Office!push_back(w1, Office!Last(T1[k2]), i) /\ n <= n
    BY <1>2, <1>15, WindowAssumption DEF w
  <2>2. /\ Rows(w, [T1 EXCEPT ![k2] = With(T1[k2], i)], n)
        /\ EndsOf(With(T1[k2], i)) = EndsOf(T1[k2])
        /\ Mid(With(T1[k2], i)) = Append(Mid(T1[k2]), i)
    BY <1>2, <1>11, <1>13, <2>1, RowPush, SMTT(30)
  <2> QED
    BY <1>15, <1>16, <2>2 DEF Changed
<1> HIDE DEF u
<1>18. T1 \in [Window -> Seq(Office!Node)]
  BY <1>13 DEF Rows
<1>19. T[k2] = u /\ \A h \in Window \ {k2} : T[h] = T1[h]
  BY <1>16, <1>18 DEF Changed
<1>20. /\ T[k1] = t /\ T[k2] = u
       /\ \A h \in Window \ {k1, k2} : T[h] = S[h]
  BY <1>14, <1>19
<1>21. kolejki' = [h \in Window |-> EndsOf(T[h])]
  <2>1. \A h \in Window : EndsOf(T[h]) = EndsOf(S[h])
    BY <1>13, <1>17, <1>20 DEF r
  <2> QED
    BY <1>2, <1>9, <2>1
<1>22. Stored(T)' /\ Queue' = [h \in Window |-> Mid(T[h])]
  BY <1>9, <1>17, <1>21, NextStored DEF n
<1>23. Queue[k1] = Mid(s) /\ Queue[k2] = Mid(r) /\ Queue[k1][j] = i
  BY <1>4, <1>7 DEF r
<1>24. Queue' = [Queue EXCEPT ![k1] = Office!Promise!RemoveAt(@, j),
                              ![k2] = Append(@, Queue[k1][j])]
  <2> DEFINE x == Office!Promise!RemoveAt(Queue[k1], j)
             y == Append(Queue[k2], Queue[k1][j])
  <2>1. Mid(T[k1]) = x /\ Mid(T[k2]) = y
    BY <1>10, <1>17, <1>20, <1>23
  <2> HIDE DEF x, y
  <2>2. Queue' = [Queue EXCEPT ![k1] = x, ![k2] = y]
    BY <1>4, <1>20, <1>22, <2>1
  <2> QED
    BY <2>2 DEF x, y
<1>25. Threaded'
  BY <1>22 DEF Threaded
<1>26. j \in DOMAIN Queue[k1]
  BY <1>6, <1>7, <1>23
<1>27. Office!Promise!Move(k1, j, k2)
  BY <1>9, <1>24 DEF Office!Promise!Move, Queue, n
<1> QED
  BY <1>25, <1>26, <1>27

-----------------------------------------------------------------------------
(* A window closes                                                         *)

\* Every node of two tied threads is one of the first, but for its tail, or
\* of the second, but for its head.
LEMMA TiedNodes ==
  ASSUME NEW T, NEW q \in Seq(T), NEW r \in Seq(T), Len(q) >= 2, Len(r) >= 2,
         NEW i \in 1 .. Len(Tied(q, r))
  PROVE  \/ i \in 1 .. Len(q) - 1 /\ Tied(q, r)[i] = q[i]
         \/ /\ (i - Len(q)) + 2 \in 2 .. Len(r)
            /\ Tied(q, r)[i] = r[(i - Len(q)) + 2]
<1> DEFINE a == Len(q)
           c == Len(r)
           t == Tied(q, r)
<1>1. a \in Nat /\ c \in Nat /\ a >= 2 /\ c >= 2
  OBVIOUS
<1>2. /\ Len(t) = a + c - 2
      /\ \A h \in 1 .. a - 1 : t[h] = q[h]
      /\ \A h \in a .. a + c - 2 : t[h] = r[(h - a) + 2]
  BY TiedIs
<1>3. i \in 1 .. a + c - 2
  BY <1>2
<1> HIDE DEF a, c, t
<1>4. \/ i \in 1 .. a - 1
      \/ i \in a .. a + c - 2 /\ (i - a) + 2 \in 2 .. c
  BY <1>1, <1>3
<1>5. \/ i \in 1 .. a - 1 /\ t[i] = q[i]
      \/ (i - a) + 2 \in 2 .. c /\ t[i] = r[(i - a) + 2]
  BY <1>2, <1>4
<1> QED
  BY <1>5 DEF a, c, t

\* The second thread is tied to the first, and the ends in between are the
\* second one now.
Tie(S, k1, k2, T) ==
  T = [S EXCEPT ![k2] = Tied(S[k2], S[k1]),
                ![k1] = <<S[k1][1], Office!Last(S[k2])>>]

LEMMA RowsJoin ==
  ASSUME NEW m, NEW S, NEW n, Rows(m, S, n), NEW k1 \in Window,
         NEW k2 \in Window, k1 # k2, NEW T, Tie(S, k1, k2, T),
         NEW w, w = Joined(m, Office!Last(S[k2]), S[k1][1])
  PROVE  Rows(w, T, n)
<1> DEFINE q == S[k2]
           r == S[k1]
           a == Len(q)
           c == Len(r)
           t == Tied(q, r)
           e == <<r[1], Office!Last(q)>>
<1>1. /\ Row(m, q, n) /\ Row(m, r, n) /\ Apart(q, r)
      /\ m \in Mem /\ n \in 0 .. MaxCustomers
      /\ S \in [Window -> Seq(Office!Node)]
  BY DEF Rows
<1>2. /\ T[k2] = t /\ T[k1] = e /\ DOMAIN T = Window
      /\ \A h \in Window \ {k1, k2} : T[h] = S[h]
  BY <1>1 DEF Tie
<1>3. \A h \in Window \ {k1, k2} : Apart(q, S[h]) /\ Apart(r, S[h])
  BY DEF Rows
<1>4. w = Joined(m, Office!Last(q), r[1])
  OBVIOUS
<1> HIDE DEF q, r
<1>5. /\ Thread(m, q) /\ q \in Seq(Office!Node) /\ a \in Nat /\ a >= 2
      /\ Thread(m, r) /\ r \in Seq(Office!Node) /\ c \in Nat /\ c >= 2
  BY <1>1 DEF Row, Thread
<1>6. /\ w \in Mem /\ Thread(w, t) /\ Thread(w, e)
      /\ \A z \in Office!Node :
           Missing(z, q) /\ Missing(z, r) => Alike(m, w, z)
  BY <1>1, <1>4, <1>5, JoinKeeps
<1>7. /\ t \in Seq(Office!Node) /\ Len(t) = a + c - 2
      /\ \A i \in 1 .. a - 1 : t[i] = q[i]
      /\ \A i \in a .. a + c - 2 : t[i] = r[(i - a) + 2]
  BY <1>5, TiedIs
<1>8. ASSUME NEW i \in 1 .. Len(t)
      PROVE  \/ i \in 1 .. a - 1 /\ t[i] = q[i]
             \/ (i - a) + 2 \in 2 .. c /\ t[i] = r[(i - a) + 2]
  BY <1>5, TiedNodes
<1>9. /\ e \in Seq(Office!Node) /\ Len(e) = 2 /\ e[1] = r[1] /\ e[2] = q[a]
  BY <1>6 DEF Thread, Office!Last
<1> HIDE DEF t, e
<1>10. /\ 1 \in 1 .. a - 1 /\ a \in 1 .. a /\ 1 \in 1 .. c /\ c \in 1 .. c
       /\ a + c - 2 \in a .. a + c - 2 /\ ((a + c - 2) - a) + 2 = c
       /\ \A i \in 1 .. a - 1 : i \in 1 .. a /\ i # a
       /\ \A i \in 2 .. c : i \in 1 .. c /\ i # 1
       /\ 2 - 1 = 1
  <2> HIDE DEF a, c
  <2> QED
    BY <1>5
<1>11. t[1] = q[1] /\ t[Len(t)] = r[c]
  BY <1>7, <1>10
<1>12. Row(w, t, n)
  <2>1. ASSUME NEW i \in 2 .. Len(t) - 1
        PROVE  t[i] \in 0 .. n - 1
    <3>1. /\ i \in 1 .. Len(t)
          /\ i \in 1 .. a - 1 => i \in 2 .. a - 1
          /\ (i - a) + 2 \in 2 .. c => (i - a) + 2 \in 2 .. c - 1
      <4> HIDE DEF a, c
      <4> QED
        BY <1>5, <1>7
    <3>2. CASE i \in 1 .. a - 1 /\ t[i] = q[i]
      BY <1>1, <3>1, <3>2 DEF Row
    <3>3. CASE (i - a) + 2 \in 2 .. c /\ t[i] = r[(i - a) + 2]
      <4> DEFINE j == (i - a) + 2
      <4>1. j \in 2 .. c - 1 /\ t[i] = r[j]
        BY <3>1, <3>3
      <4> HIDE DEF j
      <4> QED
        BY <1>1, <4>1 DEF Row
    <3> QED
      BY <1>8, <3>1, <3>2, <3>3
  <2>2. q[1] \notin Office!Customer /\ r[c] \notin Office!Customer
    BY <1>1 DEF Row
  <2> QED
    BY <1>6, <1>11, <2>1, <2>2 DEF Row
<1>13. Row(w, e, n)
  <2>1. r[1] \notin Office!Customer /\ q[a] \notin Office!Customer
    BY <1>1 DEF Row
  <2>2. \A i \in 2 .. 2 - 1 : e[i] \in 0 .. n - 1
    OBVIOUS
  <2> QED
    BY <1>6, <1>9, <2>1, <2>2 DEF Row
<1>14. ASSUME NEW h \in Window \ {k1, k2}
       PROVE  Row(w, S[h], n) /\ Apart(t, S[h]) /\ Apart(e, S[h])
  <2> DEFINE x == S[h]
  <2>1. Row(m, x, n) /\ Apart(q, x) /\ Apart(r, x)
    BY <1>3 DEF Rows
  <2> HIDE DEF x
  <2>2. Thread(m, x) /\ \A i \in 1 .. Len(x) : x[i] \in Office!Node
    BY <2>1, ElementOfSeq DEF Row, Thread
  <2>3. \A i \in 1 .. Len(x) : Missing(x[i], q) /\ Missing(x[i], r)
    BY <2>1 DEF Apart, Missing
  <2>4. Thread(w, x)
    <3>1. \A i \in 1 .. Len(x) : Alike(m, w, x[i])
      BY <1>6, <2>2, <2>3
    <3> QED
      BY <2>2, <3>1, ThreadStays
  <2>5. Row(w, x, n)
    BY <2>1, <2>4 DEF Row
  <2>6. Apart(t, x)
    <3> SUFFICES ASSUME NEW i \in 1 .. Len(t), NEW j \in 1 .. Len(x)
                 PROVE  t[i] # x[j]
      BY DEF Apart
    <3>1. CASE i \in 1 .. a - 1 /\ t[i] = q[i]
      BY <1>10, <2>1, <3>1 DEF Apart
    <3>2. CASE (i - a) + 2 \in 2 .. c /\ t[i] = r[(i - a) + 2]
      <4> DEFINE p == (i - a) + 2
      <4>1. p \in 1 .. c /\ t[i] = r[p]
        BY <1>10, <3>2
      <4> HIDE DEF p
      <4> QED
        BY <2>1, <4>1 DEF Apart
    <3> QED
      BY <1>8, <3>1, <3>2
  <2>7. Apart(e, x)
    <3>1. \A j \in 1 .. Len(x) : r[1] # x[j] /\ q[a] # x[j]
      BY <1>10, <2>1 DEF Apart
    <3> QED
      BY <1>9, <3>1 DEF Apart
  <2> QED
    BY <2>5, <2>6, <2>7 DEF x
<1>15. Apart(t, e)
  <2> SUFFICES ASSUME NEW i \in 1 .. Len(t)
               PROVE  t[i] # r[1] /\ t[i] # q[a]
    BY <1>9 DEF Apart
  <2>1. CASE i \in 1 .. a - 1 /\ t[i] = q[i]
    BY <1>1, <1>5, <1>10, <2>1 DEF Apart, Thread
  <2>2. CASE (i - a) + 2 \in 2 .. c /\ t[i] = r[(i - a) + 2]
    <3> DEFINE p == (i - a) + 2
    <3>1. p \in 1 .. c /\ p # 1 /\ t[i] = r[p]
      BY <1>10, <2>2
    <3> HIDE DEF p
    <3> QED
      BY <1>1, <1>5, <1>10, <3>1 DEF Apart, Thread
  <2> QED
    BY <1>8, <2>1, <2>2
<1>16. \A x, y : Apart(x, y) => Apart(y, x)
  BY DEF Apart
<1>17. ASSUME NEW g \in Window, NEW h \in Window, g # h
       PROVE  Apart(T[g], T[h])
  <2>1. CASE g \in {k1, k2} /\ h \in {k1, k2}
    BY <1>2, <1>15, <1>16, <1>17, <2>1
  <2>2. CASE g \in {k1, k2} /\ h \notin {k1, k2}
    BY <1>2, <1>14, <2>2
  <2>3. CASE g \notin {k1, k2} /\ h \in {k1, k2}
    BY <1>2, <1>14, <1>16, <2>3
  <2>4. CASE g \notin {k1, k2} /\ h \notin {k1, k2}
    BY <1>2, <1>17, <2>4 DEF Rows
  <2> QED
    BY <2>1, <2>2, <2>3, <2>4
<1>18. \A h \in Window : Row(w, T[h], n)
  BY <1>2, <1>12, <1>13, <1>14
<1>19. T \in [Window -> Seq(Office!Node)]
  <2>1. \A h \in Window : T[h] \in Seq(Office!Node)
    BY <1>18 DEF Row, Thread
  <2>2. T = [h \in Window |-> T[h]]
    BY <1>1 DEF Tie
  <2> QED
    BY <2>1, <2>2
<1> QED
  BY <1>1, <1>6, <1>17, <1>18, <1>19 DEF Rows

LEMMA ClosesWindow ==
  ASSUME Threaded, NEW k1 \in Window, NEW k2 \in Window, k1 # k2,
         Office!zamkniecie_okienka(k1, k2)
  PROVE  Threaded' /\ Office!Promise!CloseWindow(k1, k2)
<1>1. PICK S : Stored(S)
  BY DEF Threaded
<1> DEFINE m == Office!Memory
           n == akt_numerek
           q == S[k2]
           r == S[k1]
           b == Office!Last(q)
           f == r[1]
           w == Joined(m, b, f)
<1>2. /\ Rows(m, S, n) /\ kolejki = [h \in Window |-> EndsOf(S[h])]
      /\ S \in [Window -> Seq(Office!Node)] /\ n \in 0 .. MaxCustomers
  BY <1>1 DEF Stored, Rows
<1>3. /\ kolejki[k2] = [head |-> q[1], tail |-> b]
      /\ kolejki[k1] = [head |-> f, tail |-> r[Len(r)]]
  BY <1>2 DEF EndsOf, Office!Last
<1>4. m.l2 = l2
  BY DEF Office!Memory
<1>5. /\ Office!Becomes(w) /\ returned' = <<>> /\ n' = n
      /\ kolejki' = [kolejki EXCEPT ![k2].tail = kolejki[k1].tail,
                                    ![k1] = [head |-> f, tail |-> b]]
  <2>1. kolejki[k2].tail = b /\ kolejki[k1].head = f
    BY <1>3
  <2> HIDE DEF b, f
  <2> QED
    BY <1>4, <2>1 DEF Office!zamkniecie_okienka, Joined
<1> DEFINE t == Tied(q, r)
           e == <<f, b>>
<1>6. PICK T : Tie(S, k1, k2, T)
  BY DEF Tie
<1>7. Rows(w, T, n)
  BY <1>2, <1>6, RowsJoin
<1>8. /\ T[k2] = t /\ T[k1] = e
      /\ \A h \in Window \ {k1, k2} : T[h] = S[h]
  BY <1>2, <1>6 DEF Tie
<1>9. Row(m, q, n) /\ Row(m, r, n)
  BY <1>2 DEF Rows
<1> HIDE DEF m, n, w, q, r, t
<1>10. /\ q \in Seq(Office!Node) /\ Len(q) \in Nat /\ Len(q) >= 2
       /\ r \in Seq(Office!Node) /\ Len(r) \in Nat /\ Len(r) >= 2
  BY <1>9 DEF Row, Thread
<1>11. t[1] = q[1] /\ t[Len(t)] = r[Len(r)]
  <2> DEFINE a == Len(q)
             c == Len(r)
  <2>1. /\ Len(t) = a + c - 2
        /\ \A i \in 1 .. a - 1 : t[i] = q[i]
        /\ \A i \in a .. a + c - 2 : t[i] = r[(i - a) + 2]
    BY <1>10, TiedIs DEF t
  <2>3. a \in Nat /\ a >= 2 /\ c \in Nat /\ c >= 2
    BY <1>10
  <2>2. /\ 1 \in 1 .. a - 1 /\ a + c - 2 \in a .. a + c - 2
        /\ ((a + c - 2) - a) + 2 = c
    <3> HIDE DEF a, c
    <3> QED
      BY <2>3
  <2> QED
    BY <2>1, <2>2
<1>12. kolejki' = [h \in Window |-> EndsOf(T[h])]
  <2>1. EndsOf(t) = [head |-> q[1], tail |-> r[Len(r)]]
    BY <1>11 DEF EndsOf
  <2>2. EndsOf(e) = [head |-> f, tail |-> b]
    BY DEF EndsOf
  <2> HIDE DEF e, f, b
  <2>3. kolejki'[k1] = EndsOf(e)
    BY <1>2, <1>5, <2>2
  <2>4. kolejki'[k2] = EndsOf(t)
    BY <1>2, <1>3, <1>5, <2>1
  <2>5. \A h \in Window \ {k1, k2} : kolejki'[h] = EndsOf(T[h])
    BY <1>2, <1>5, <1>8
  <2>6. kolejki' = [h \in Window |-> kolejki'[h]]
    BY <1>2, <1>5
  <2>7. \A h \in Window : kolejki'[h] = EndsOf(T[h])
    BY <1>8, <2>3, <2>4, <2>5
  <2> QED
    BY <2>6, <2>7
<1>13. Stored(T)' /\ Queue' = [h \in Window |-> Mid(T[h])]
  BY <1>5, <1>7, <1>12, NextStored, ZenonT(60) DEF n
<1>14. Queue = [h \in Window |-> Mid(S[h])]
  BY <1>1, QueueIs
<1>15. Mid(t) = Mid(q) \o Mid(r)
  BY <1>10, MidTied DEF t
<1>16. Mid(e) = <<>>
  <2>1. Len(e) = 2
    OBVIOUS
  <2>2. SubSeq(e, 2, 1) = <<>>
    BY SubSeqEmpty
  <2> HIDE DEF e
  <2>3. Mid(e) = SubSeq(e, 2, 1)
    BY <2>1 DEF Mid
  <2> QED
    BY <2>2, <2>3
<1>17. Queue' = [Queue EXCEPT ![k1] = <<>>, ![k2] = @ \o Queue[k1]]
  <2> HIDE DEF e
  <2>1. Queue[k2] = Mid(q) /\ Queue[k1] = Mid(r)
    BY <1>14 DEF q, r
  <2> DEFINE y == Queue[k2] \o Queue[k1]
  <2>2. Mid(T[k1]) = <<>> /\ Mid(T[k2]) = y
    BY <1>8, <1>15, <1>16, <2>1
  <2> HIDE DEF y
  <2>3. Queue' = [Queue EXCEPT ![k1] = <<>>, ![k2] = y]
    BY <1>8, <1>13, <1>14, <2>2
  <2> QED
    BY <2>3 DEF y
<1>18. Threaded'
  BY <1>13 DEF Threaded
<1>19. Office!Promise!CloseWindow(k1, k2)
  BY <1>5, <1>17 DEF Office!Promise!CloseWindow, Queue, n
<1> QED
  BY <1>18, <1>19

-----------------------------------------------------------------------------
(* The office opens                                                        *)

Opening == [k \in Window |-> <<-2 * k, -2 * k - 1>>]

LEMMA EndsMeet ==
  ASSUME NEW k \in Window
  PROVE  LET m == Office!create_list IN
         /\ IsEnd(m, -2 * k, -2 * k - 1) /\ IsEnd(m, -2 * k - 1, -2 * k)
<1> DEFINE a == -2 * k
           b == -2 * k - 1
           e(x) == IF x \in Office!Customer THEN Office!nullptr
                   ELSE IF x % 2 = 0 THEN x - 1 ELSE x + 1
<1>1. k \in Nat
  BY NodesAre
<1>2. a % 2 = 0 /\ b % 2 = 1 /\ a - 1 = b /\ b + 1 = a
  BY <1>1
<1>3. /\ a \in Office!Node \ Office!Customer
      /\ b \in Office!Node \ Office!Customer
  BY NodesAre
<1> HIDE DEF a, b
<1>4. e(a) = b /\ e(b) = a
  BY <1>2, <1>3
<1> HIDE DEF e
<1>5. Office!create_list = [l1 |-> [x \in Office!Node |-> Office!nullptr],
                            l2 |-> [x \in Office!Node |-> e(x)]]
  BY DEF Office!create_list, e
<1>6. /\ IsEnd(Office!create_list, a, b) /\ IsEnd(Office!create_list, b, a)
  BY <1>3, <1>4, <1>5 DEF IsEnd
<1> QED
  BY <1>6 DEF a, b

LEMMA Opened ==
  /\ Rows(Office!create_list, Opening, 0)
  /\ Office!Ends = [k \in Window |-> EndsOf(Opening[k])]
  /\ \A k \in Window : Mid(Opening[k]) = <<>>
<1> DEFINE m == Office!create_list
           S == Opening
           a(k) == -2 * k
           b(k) == -2 * k - 1
<1>1. /\ \A k \in Window : k \in Nat /\ k >= 1
      /\ \A k \in Window : /\ a(k) \in Office!Node \ Office!Customer
                           /\ b(k) \in Office!Node \ Office!Customer
      /\ \A k \in Window : IsEnd(m, a(k), b(k)) /\ IsEnd(m, b(k), a(k))
  BY NodesAre, EndsMeet
<1>2. \A k \in Window : S[k] = <<a(k), b(k)>>
  BY DEF Opening
<1>3. \A k, l \in Window : /\ a(k) # b(l) /\ b(k) # a(l)
                           /\ k # l => a(k) # a(l) /\ b(k) # b(l)
  BY <1>1
<1>4. m.l1 \in Pointers /\ m.l2 \in Pointers
  <2> DEFINE e(x) == IF x \in Office!Customer THEN Office!nullptr
                     ELSE IF x % 2 = 0 THEN x - 1 ELSE x + 1
  <2>1. m = [l1 |-> [x \in Office!Node |-> Office!nullptr],
             l2 |-> [x \in Office!Node |-> e(x)]]
    BY DEF Office!create_list
  <2>2. ASSUME NEW x \in Office!Node
        PROVE  e(x) \in Office!Node \cup {Office!nullptr}
    <3>1. CASE x \in Office!Customer
      BY <3>1
    <3>2. CASE x \notin Office!Customer
      <4>1. PICK k \in Window : x = a(k) \/ x = b(k)
        BY <3>2 DEF Office!Node
      <4>2. a(k) % 2 = 0 /\ b(k) % 2 = 1 /\ a(k) - 1 = b(k) /\ b(k) + 1 = a(k)
        BY <1>1
      <4>3. e(x) = a(k) \/ e(x) = b(k)
        <5> HIDE DEF a, b
        <5> QED
          BY <3>2, <4>1, <4>2
      <4> QED
        BY <1>1, <4>3
    <3> QED
      BY <3>1, <3>2
  <2> HIDE DEF e, m
  <2> QED
    BY <2>1, <2>2 DEF Pointers
<1>5. m \in Mem
  BY <1>4 DEF Office!create_list, Mem
<1> HIDE DEF m, S, a, b
<1>6. ASSUME NEW k \in Window
      PROVE  /\ Row(m, S[k], 0) /\ S[k] \in Seq(Office!Node)
             /\ Mid(S[k]) = <<>>
             /\ EndsOf(S[k]) = [head |-> a(k), tail |-> b(k)]
  <2> DEFINE s == S[k]
  <2>1. /\ s \in Seq(Office!Node) /\ Len(s) = 2 /\ s[1] = a(k) /\ s[2] = b(k)
    <3>1. s = <<a(k), b(k)>>
      BY <1>2
    <3>2. a(k) \in Office!Node /\ b(k) \in Office!Node
      BY <1>1
    <3> HIDE DEF s
    <3> QED
      BY <3>1, <3>2
  <2> HIDE DEF s
  <2>2. a(k) # b(k)
    BY <1>3
  <2>3. \A i, j \in 1 .. 2 : s[i] = s[j] => i = j
    BY <2>1, <2>2
  <2>4. IsEnd(m, s[1], s[2]) /\ IsEnd(m, s[2], s[2 - 1])
    BY <1>1, <2>1
  <2>5. \A i \in 2 .. 2 - 1 : FALSE
    OBVIOUS
  <2>6. Thread(m, s)
    BY <2>1, <2>3, <2>4, <2>5 DEF Thread
  <2>7. Row(m, s, 0)
    BY <1>1, <2>1, <2>5, <2>6 DEF Row
  <2>8. Mid(s) = <<>>
    <3>1. SubSeq(s, 2, 1) = <<>>
      BY SubSeqEmpty
    <3>2. Mid(s) = SubSeq(s, 2, 1)
      BY <2>1 DEF Mid
    <3> QED
      BY <3>1, <3>2
  <2>9. EndsOf(s) = [head |-> a(k), tail |-> b(k)]
    BY <2>1 DEF EndsOf
  <2> QED
    BY <2>1, <2>7, <2>8, <2>9 DEF s
<1>7. ASSUME NEW k \in Window, NEW l \in Window, k # l
      PROVE  Apart(S[k], S[l])
  <2>1. /\ Len(S[k]) = 2 /\ S[k][1] = a(k) /\ S[k][2] = b(k)
        /\ Len(S[l]) = 2 /\ S[l][1] = a(l) /\ S[l][2] = b(l)
    BY <1>2
  <2>2. /\ a(k) # b(l) /\ b(k) # a(l) /\ a(k) # a(l) /\ b(k) # b(l)
    BY <1>3, <1>7
  <2>3. \A i \in 1 .. 2 : i = 1 \/ i = 2
    OBVIOUS
  <2> QED
    BY <2>1, <2>2, <2>3 DEF Apart
<1>8. S \in [Window -> Seq(Office!Node)]
  BY <1>6 DEF S, Opening
<1>9. 0 \in 0 .. MaxCustomers
  BY WindowAssumption
<1>10. Rows(m, S, 0)
  BY <1>5, <1>6, <1>7, <1>8, <1>9 DEF Rows
<1>11. Office!Ends = [k \in Window |-> EndsOf(S[k])]
  BY <1>6 DEF Office!Ends, a, b
<1> QED
  BY <1>6, <1>10, <1>11 DEF m, S

LEMMA OpensOffice ==
  ASSUME Office!Init
  PROVE  Threaded /\ Office!Promise!Init
<1> DEFINE m == Office!create_list
<1>1. /\ l1 = m.l1 /\ l2 = m.l2 /\ kolejki = Office!Ends /\ akt_numerek = 0
      /\ returned = <<>>
  BY DEF Office!Init
<1>2. Rows(m, Opening, 0)
  BY Opened
<1>3. Office!Memory = m
  <2>1. m \in Mem
    BY <1>2 DEF Rows
  <2> HIDE DEF m
  <2> QED
    BY <1>1, <2>1 DEF Office!Memory, Mem
<1>4. Stored(Opening)
  BY <1>1, <1>2, <1>3, Opened DEF Stored
<1>5. Queue = [k \in Window |-> <<>>]
  BY <1>4, QueueIs, Opened
<1>6. Office!Promise!Init
  BY <1>1, <1>5 DEF Office!Promise!Init, Queue
<1> QED
  BY <1>4, <1>6 DEF Threaded

LEMMA ClosesOffice ==
  ASSUME Threaded, Office!zamkniecie_urzedu
  PROVE  Threaded' /\ Office!Promise!CloseOffice
<1>1. PICK S : Stored(S)
  BY DEF Threaded
<1> DEFINE m == Office!create_list
<1>2. /\ Office!Becomes(m) /\ kolejki' = Office!Ends /\ akt_numerek' = 0
      /\ returned' = Office!FlattenSeq([k \in DOMAIN kolejki |->
                                          Office!Line(kolejki[k])])
  BY DEF Office!zamkniecie_urzedu
<1>3. PICK T : T = Opening
  OBVIOUS
<1>4. /\ Rows(m, T, 0) /\ Office!Ends = [k \in Window |-> EndsOf(T[k])]
      /\ \A k \in Window : Mid(T[k]) = <<>>
  BY <1>3, Opened
<1> HIDE DEF m
<1>5. kolejki' = [k \in Window |-> EndsOf(T[k])]
  BY <1>2, <1>4
<1>6. Stored(T)' /\ Queue' = [k \in Window |-> Mid(T[k])]
  BY <1>2, <1>4, <1>5, NextStored
<1>7. Queue' = [k \in Window |-> <<>>]
  BY <1>4, <1>6
<1>8. DOMAIN kolejki = Window
  BY <1>1 DEF Stored
<1>9. 1 .. Cardinality(Window) = Window
  BY WindowAssumption
<1> DEFINE x == [k \in DOMAIN kolejki |-> Office!Line(kolejki[k])]
           y == [k \in 1 .. Office!Promise!Cardinality(Window) |-> Queue[k]]
<1>10. x = y
  <2>1. Office!Promise!Cardinality(Window) = Cardinality(Window)
    BY DEF Office!Promise!Cardinality, Cardinality
  <2> QED
    BY <1>8, <1>9, <2>1 DEF Queue
<1>11. Office!FlattenSeq(x) = Office!Promise!FlattenSeq(x)
  BY DEF Office!FlattenSeq, Office!Promise!FlattenSeq
<1>12. returned' = Office!Promise!FlattenSeq(y)
  <2>1. returned' = Office!FlattenSeq(x)
    BY <1>2
  <2> HIDE DEF x, y
  <2> QED
    BY <1>10, <1>11, <2>1
<1>13. Threaded'
  BY <1>6 DEF Threaded
<1>14. Office!Promise!CloseOffice
  BY <1>2, <1>7, <1>12 DEF Office!Promise!CloseOffice, Queue
<1> QED
  BY <1>13, <1>14

-----------------------------------------------------------------------------
(* Nodes removed one after another                                         *)

LEMMA LinkTyped ==
  ASSUME NEW m \in Mem, NEW el \in Office!Node \cup {Office!nullptr}, NEW old,
         NEW nw \in Office!Node \cup {Office!nullptr}
  PROVE  Office!link(m, el, old, nw) \in Mem
<1>1. m.l1 \in Pointers /\ m.l2 \in Pointers /\ m = [l1 |-> m.l1, l2 |-> m.l2]
  BY DEF Mem
<1>2. CASE el = Office!nullptr
  BY <1>2 DEF Office!link
<1>3. CASE el # Office!nullptr /\ m.l1[el] = old
  <2>1. Office!link(m, el, old, nw) = [m EXCEPT !.l1[el] = nw]
    BY <1>3 DEF Office!link
  <2>2. [m EXCEPT !.l1[el] = nw] = [l1 |-> [m.l1 EXCEPT ![el] = nw],
                                    l2 |-> m.l2]
    BY <1>1
  <2>3. [m.l1 EXCEPT ![el] = nw] \in Pointers
    BY <1>1 DEF Pointers
  <2> QED
    BY <1>1, <2>1, <2>2, <2>3 DEF Mem
<1>4. CASE el # Office!nullptr /\ m.l1[el] # old
  <2>1. Office!link(m, el, old, nw) = [m EXCEPT !.l2[el] = nw]
    BY <1>4 DEF Office!link
  <2>2. [m EXCEPT !.l2[el] = nw] = [l1 |-> m.l1,
                                    l2 |-> [m.l2 EXCEPT ![el] = nw]]
    BY <1>1
  <2>3. [m.l2 EXCEPT ![el] = nw] \in Pointers
    BY <1>1 DEF Pointers
  <2> QED
    BY <1>1, <2>1, <2>2, <2>3 DEF Mem
<1> QED
  BY <1>2, <1>3, <1>4

LEMMA RemoveTyped ==
  ASSUME NEW m \in Mem, NEW el \in Office!Node
  PROVE  Office!remove_elem(m, el) \in Mem
<1>1. \A x \in Mem : /\ x.l1[el] \in Office!Node \cup {Office!nullptr}
                     /\ x.l2[el] \in Office!Node \cup {Office!nullptr}
  BY DEF Mem, Pointers
<1> DEFINE n == Office!link(m, m.l1[el], el, m.l2[el])
<1>2. n \in Mem
  BY <1>1, LinkTyped
<1> HIDE DEF n
<1>3. Office!link(n, n.l2[el], el, n.l1[el]) \in Mem
  BY <1>1, <1>2, LinkTyped
<1> QED
  BY <1>3 DEF Office!remove_elem, n

RemoveAll(m, path) == Office!FoldLeft(Office!remove_elem, m, path)

\* h[U] is the memory without the nodes at the places U.
RemoveLoop(h, m, path) ==
  h = [U \in SUBSET DOMAIN path |->
         IF U = {} THEN m
         ELSE Office!remove_elem(h[U \ {Tournament!Max(U)}],
                                 path[Tournament!Max(U)])]

\* t[i] is the memory without the first i nodes of path.
Removing(t, m, path) ==
  /\ t[0] = m
  /\ \A i \in 1 .. Len(path) : t[i] = Office!remove_elem(t[i - 1], path[i])

LEMMA RemovesAll ==
  ASSUME NEW m \in Mem, NEW path \in Seq(Office!Node)
  PROVE  \E t : Removing(t, m, path) /\ RemoveAll(m, path) = t[Len(path)]
<1> DEFINE S == DOMAIN path
           op == [x \in S \X Mem |-> Office!remove_elem(x[2], path[x[1]])]
           pick == [U \in SUBSET S |-> Tournament!Max(U)]
<1>1. /\ S = 1 .. Len(path) /\ Len(path) \in Nat
      /\ \A i \in S : path[i] \in Office!Node
  OBVIOUS
<1>2. IsFiniteSet(S)
  BY <1>1, FS_Interval
<1>3. op \in [S \X Mem -> Mem]
  <2>1. \A x \in Mem, i \in S : Office!remove_elem(x, path[i]) \in Mem
    BY <1>1, RemoveTyped
  <2> HIDE DEF S
  <2> QED
    BY <2>1
<1>4. \A U \in SUBSET S :
        U # {} => /\ Tournament!Max(U) \in U /\ pick[U] = Tournament!Max(U)
                  /\ \A k \in U : Tournament!Max(U) >= k
  <2> SUFFICES ASSUME NEW U \in SUBSET S, U # {}
               PROVE  /\ Tournament!Max(U) \in U
                      /\ \A k \in U : Tournament!Max(U) >= k
    OBVIOUS
  <2> HIDE DEF S
  <2> QED
    BY <1>1, Extremes, Greatest
<1>5. Picks(pick, S)
  BY <1>4 DEF Picks
<1> HIDE DEF op, pick, S
<1>6. PICK f : Folds(f, op, m, pick, S) /\ \A U \in SUBSET S : f[U] \in Mem
  BY <1>2, <1>3, <1>5, TypedFold
<1>7. RemoveLoop(f, m, path)
  <2> DEFINE e(U) == IF U = {} THEN m
                     ELSE Office!remove_elem(f[U \ {Tournament!Max(U)}],
                                             path[Tournament!Max(U)])
  <2>1. ASSUME NEW U \in SUBSET S
        PROVE  f[U] = e(U)
    <3>1. CASE U = {}
      <4>1. f[{}] = m
        BY <1>6, FoldEmpty
      <4> QED
        BY <3>1, <4>1
    <3>2. CASE U # {}
      <4> DEFINE x == Tournament!Max(U)
      <4>1. x \in S /\ pick[U] = x /\ U \ {x} \in SUBSET S
        BY <1>4, <3>2
      <4>2. f[U] = op[<<x, f[U \ {x}]>>]
        <5>1. f[U] = op[<<pick[U], f[U \ {pick[U]}]>>]
          BY <1>6, <3>2, FoldAt
        <5> HIDE DEF x
        <5> QED
          BY <4>1, <5>1
      <4>3. f[U \ {x}] \in Mem
        BY <1>6, <4>1
      <4> HIDE DEF x
      <4>4. op[<<x, f[U \ {x}]>>] = Office!remove_elem(f[U \ {x}], path[x])
        BY <4>1, <4>3 DEF op
      <4> QED
        BY <3>2, <4>2, <4>4 DEF x
    <3> QED
      BY <3>1, <3>2
  <2> HIDE DEF e
  <2>2. f = [U \in SUBSET S |-> f[U]]
    BY <1>6 DEF Folds
  <2>3. f = [U \in SUBSET S |-> e(U)]
    BY <2>1, <2>2
  <2> QED
    BY <2>3 DEF RemoveLoop, e, S
<1> DEFINE h == CHOOSE l : RemoveLoop(l, m, path)
<1>8. RemoveLoop(h, m, path)
  BY <1>7
<1>9. RemoveAll(m, path) = h[S]
  BY DEF RemoveAll, Office!FoldLeft, Office!MapThenFoldSet, RemoveLoop, S,
         Office!Max, Tournament!Max
<1> HIDE DEF h
<1>10. h[{}] = m
  BY <1>8 DEF RemoveLoop
<1>11. ASSUME NEW U \in SUBSET S, U # {}
       PROVE  h[U] = Office!remove_elem(h[U \ {Tournament!Max(U)}],
                                        path[Tournament!Max(U)])
  BY <1>8, <1>11 DEF RemoveLoop, S
<1> DEFINE t == [i \in 0 .. Len(path) |-> h[1 .. i]]
<1>12. t[0] = m /\ t[Len(path)] = h[S]
  <2>1. 1 .. 0 = {} /\ 0 \in 0 .. Len(path) /\ Len(path) \in 0 .. Len(path)
    BY <1>1
  <2> QED
    BY <1>1, <1>10, <2>1
<1>13. ASSUME NEW i \in 1 .. Len(path)
       PROVE  t[i] = Office!remove_elem(t[i - 1], path[i])
  <2> DEFINE U == 1 .. i
             x == Tournament!Max(U)
  <2>1. U \in SUBSET S /\ U # {} /\ i \in U /\ i - 1 \in 0 .. Len(path)
    <3>1. ASSUME NEW k \in 1 .. i PROVE k \in 1 .. Len(path)
      BY <1>1
    <3>2. i \in U /\ i - 1 \in 0 .. Len(path)
      BY <1>1
    <3> QED
      BY <1>1, <3>1, <3>2
  <2>2. x \in U /\ x >= i
    BY <1>4, <2>1
  <2>3. x = i
    BY <2>2
  <2>4. U \ {i} = 1 .. i - 1
    BY <1>1
  <2>5. h[U] = Office!remove_elem(h[U \ {i}], path[i])
    <3> HIDE DEF U
    <3> QED
      BY <1>11, <2>1, <2>3
  <2>6. t[i] = h[U] /\ t[i - 1] = h[1 .. i - 1]
    BY <1>1, <2>1
  <2> HIDE DEF t, U
  <2> QED
    BY <2>4, <2>5, <2>6
<1> HIDE DEF t
<1>14. Removing(t, m, path)
  BY <1>12, <1>13 DEF Removing
<1> QED
  BY <1>9, <1>12, <1>14

\* The nodes of a thread from the p-th on are removed one by one.
LEMMA RunRemoved ==
  ASSUME NEW m, NEW S, NEW n, Rows(m, S, n), NEW k \in Window,
         NEW p \in 2 .. Len(S[k]) - 1, NEW c \in Nat, p + c <= Len(S[k]),
         NEW t, t[0] = m,
         \A i \in 1 .. c : t[i] = Office!remove_elem(t[i - 1],
                                                     S[k][p + (i - 1)])
  PROVE  Rows(t[c], [S EXCEPT ![k] = Cut(S[k], p, c)], n)
<1> DEFINE s == S[k]
           l == Len(s)
           R(i) == [S EXCEPT ![k] = Cut(s, p, i)]
           B == {i \in Nat : i <= c /\ ~Rows(t[i], R(i), n)}
<1>1. /\ S \in [Window -> Seq(Office!Node)] /\ Row(m, s, n)
  BY DEF Rows
<1>2. /\ s \in Seq(Office!Node) /\ l \in Nat /\ p \in 2 .. l - 1
      /\ p + c <= l /\ c \in Nat
  BY <1>1 DEF Row, Thread
<1>3. \A i \in 1 .. c : t[i] = Office!remove_elem(t[i - 1], s[p + (i - 1)])
  OBVIOUS
<1> HIDE DEF s
<1>4. R(0) = S
  <2> DEFINE u == Cut(s, p, 0)
  <2>1. p \in 1 .. l /\ 0 \in 0 .. (l - p) + 1
    <3> HIDE DEF l
    <3> QED
      BY <1>2
  <2>2. /\ u \in Seq(Office!Node) /\ Len(u) = l - 0
        /\ \A i \in 1 .. p - 1 : u[i] = s[i]
        /\ \A i \in p .. l - 0 : u[i] = s[i + 0]
    BY <1>2, <2>1, CutIs
  <2>3. l - 0 = l /\ \A i \in 1 .. l : i \in 1 .. p - 1 \/ i \in p .. l
    <3> HIDE DEF l
    <3> QED
      BY <1>2
  <2> HIDE DEF u
  <2>4. \A i \in 1 .. l : u[i] = s[i]
    <3> TAKE i \in 1 .. l
    <3>1. i \in 1 .. p - 1 \/ i \in p .. l - 0
      BY <2>3
    <3>2. i + 0 = i
      OBVIOUS
    <3> QED
      BY <2>2, <3>1, <3>2
  <2>5. u = s
    BY <1>2, <2>2, <2>3, <2>4, SeqEqual
  <2> QED
    BY <1>1, <2>5 DEF u, s
<1>5. ASSUME NEW i \in B, \A j \in B : i <= j
      PROVE  FALSE
  <2>1. i \in Nat /\ i <= c /\ ~Rows(t[i], R(i), n)
    OBVIOUS
  <2>2. i # 0
    <3> HIDE DEF R
    <3> QED
      BY <1>4, <2>1
  <2>3. /\ i - 1 \in Nat /\ i - 1 < i /\ i - 1 <= c /\ (i - 1) + 1 = i
        /\ i \in 1 .. c /\ i - 1 \in 0 .. l - p /\ p \in 1 .. l
        /\ i - 1 \in 0 .. (l - p) + 1 /\ p <= (l - (i - 1)) - 1
    <3> HIDE DEF l
    <3> QED
      BY <1>2, <2>1, <2>2, SMTT(30)
  <2> DEFINE j == i - 1
             u == Cut(s, p, j)
             Q == R(j)
  <2>4. Rows(t[j], Q, n)
    <3>1. j \in Nat /\ j <= c /\ j < i
      BY <2>3
    <3>2. ASSUME ~Rows(t[j], R(j), n)
          PROVE  FALSE
      <4>1. j \in B
        BY <3>1, <3>2
      <4>2. i <= j
        <5> HIDE DEF B
        <5> QED
          BY <1>5, <4>1
      <4> QED
        <5> HIDE DEF B, j
        <5> QED
          BY <2>1, <3>1, <4>2
    <3> QED
      BY <3>2
  <2> HIDE DEF R, B
  <2>5. /\ Without(u, p) = Cut(s, p, i) /\ u[p] = s[p + j]
    <3>1. j \in 0 .. l - p /\ j + 1 = i
      BY <2>3
    <3> HIDE DEF j
    <3> QED
      BY <1>2, <2>3, <3>1, CutFurther
  <2>6. Len(u) = l - j
    <3>1. j \in 0 .. (l - p) + 1
      BY <2>3
    <3> HIDE DEF j
    <3> QED
      BY <1>2, <2>3, <3>1, CutIs
  <2>7. p \in 2 .. Len(u) - 1
    <3> HIDE DEF l
    <3> QED
      BY <1>2, <2>3, <2>6
  <2> HIDE DEF u
  <2>8. Q[k] = u /\ \A e : [Q EXCEPT ![k] = e] = [S EXCEPT ![k] = e]
    <3>1. Q = [S EXCEPT ![k] = u]
      BY DEF R, u
    <3> HIDE DEF Q
    <3> QED
      BY <1>1, <3>1
  <2>9. t[i] = Office!remove_elem(t[j], Q[k][p])
    BY <1>3, <2>3, <2>5, <2>8
  <2> HIDE DEF Q, j
  <2>10. p \in 2 .. Len(Q[k]) - 1
    BY <2>7, <2>8
  <2>11. Rows(t[i], [Q EXCEPT ![k] = Without(Q[k], p)], n)
    BY <2>4, <2>9, <2>10, RowRemove
  <2>12. Rows(t[i], R(i), n)
    BY <2>5, <2>8, <2>11 DEF R
  <2> QED
    BY <2>1, <2>12
<1>6. B = {}
  <2>1. B \in SUBSET Nat
    OBVIOUS
  <2> HIDE DEF B
  <2> QED
    BY <1>5, <2>1, LeastNat
<1>7. Rows(t[c], R(c), n)
  <2> HIDE DEF R
  <2>1. c \in Nat /\ c <= c
    BY <1>2
  <2> QED
    BY <1>6, <2>1
<1> QED
  BY <1>7 DEF s

\* The ends of a thread stay, and the nodes that were cut out are in it no
\* more.
LEMMA CutAway ==
  ASSUME NEW m, NEW s, Thread(m, s), NEW p \in 2 .. Len(s) - 1, NEW c \in Nat,
         p + c <= Len(s)
  PROVE  /\ EndsOf(Cut(s, p, c)) = EndsOf(s)
         /\ \A i \in p .. p + c - 1 : Missing(s[i], Cut(s, p, c))
         /\ NodesWithin(Cut(s, p, c), s)
<1> DEFINE l == Len(s)
           u == Cut(s, p, c)
<1>1. /\ s \in Seq(Office!Node) /\ l \in Nat /\ p \in 2 .. l - 1 /\ c \in Nat
      /\ p + c <= l
  BY DEF Thread
<1>2. \A i, j \in 1 .. l : s[i] = s[j] => i = j
  BY DEF Thread
<1>3. p \in 1 .. l /\ c \in 0 .. (l - p) + 1
  <2> HIDE DEF l
  <2> QED
    BY <1>1
<1>4. /\ u \in Seq(Office!Node) /\ Len(u) = l - c
      /\ \A i \in 1 .. p - 1 : u[i] = s[i]
      /\ \A i \in p .. l - c : u[i] = s[i + c]
  BY <1>1, <1>3, CutIs
<1> HIDE DEF l, u
<1>5. /\ 1 \in 1 .. p - 1 /\ l - c \in p .. l - c /\ (l - c) + c = l
      /\ \A i \in 1 .. l - c : i \in 1 .. p - 1 \/ i \in p .. l - c
      /\ \A i \in 1 .. p - 1 : i \in 1 .. l
      /\ \A i \in p .. l - c : i + c \in 1 .. l
      /\ \A i \in p .. p + c - 1 : i \in 1 .. l
  BY <1>1
<1>6. u[1] = s[1] /\ u[Len(u)] = s[l]
  BY <1>4, <1>5
<1>7. EndsOf(u) = EndsOf(s)
  BY <1>6 DEF EndsOf, l
<1>8. NodesWithin(u, s)
  <2>1. \A i \in 1 .. l - c : \E j \in 1 .. l : u[i] = s[j]
    BY <1>4, <1>5
  <2> QED
    BY <1>4, <2>1 DEF NodesWithin, l
<1>9. ASSUME NEW i \in p .. p + c - 1
      PROVE  Missing(s[i], u)
  <2> SUFFICES ASSUME NEW j \in 1 .. l - c PROVE u[j] # s[i]
    BY <1>4 DEF Missing
  <2>1. CASE j \in 1 .. p - 1
    <3>1. j # i
      BY <1>1, <2>1
    <3> QED
      BY <1>2, <1>4, <1>5, <2>1, <3>1
  <2>2. CASE j \in p .. l - c
    <3>1. j + c # i
      BY <1>1, <2>2
    <3> QED
      BY <1>2, <1>4, <1>5, <2>2, <3>1
  <2> QED
    BY <1>5, <2>1, <2>2
<1> QED
  BY <1>7, <1>8, <1>9 DEF u

-----------------------------------------------------------------------------
(* Walks both ways                                                         *)

Way == Seq(Office!Node) \ {<<>>}

BothLoop(h, m, e) ==
  h = [i \in Nat |->
         [w \in Way \X Way |->
            IF Office!Last(w[1]) = e THEN w[1]
            ELSE IF i = 0 \/ Office!Last(w[2]) = e THEN w[2]
            ELSE h[i - 1][<<Office!Further(m, w[1]),
                            Office!Further(m, w[2])>>]]]

LEMMA FurtherIs ==
  ASSUME NEW m \in Mem, NEW w \in Way
  PROVE  Office!Further(m, w) \in Way
<1> DEFINE x == Office!next(m, Office!Last(w), w[Len(w) - 1])
<1>1. w \in Seq(Office!Node) /\ Len(w) \in Nat /\ Len(w) # 0
  BY DEF Way
<1>2. Office!Last(w) \in Office!Node
  <2>1. Len(w) \in 1 .. Len(w)
    BY <1>1
  <2> QED
    BY <1>1, <2>1, ElementOfSeq DEF Office!Last
<1>3. x \in Office!Node \cup {Office!nullptr}
  <2>1. /\ m.l1[Office!Last(w)] \in Office!Node \cup {Office!nullptr}
        /\ m.l2[Office!Last(w)] \in Office!Node \cup {Office!nullptr}
    BY <1>2 DEF Mem, Pointers
  <2> QED
    BY <2>1 DEF Office!next
<1>4. Office!Further(m, w) = IF x = Office!nullptr THEN w ELSE Append(w, x)
  BY DEF Office!Further
<1> HIDE DEF x
<1>5. CASE x = Office!nullptr
  BY <1>4, <1>5
<1>6. CASE x # Office!nullptr
  <2>1. Append(w, x) \in Seq(Office!Node) /\ Len(Append(w, x)) = Len(w) + 1
    BY <1>1, <1>3, <1>6, AppendProperties
  <2>2. Len(w) + 1 # 0
    BY <1>1
  <2>3. Append(w, x) # <<>>
    BY <2>1, <2>2
  <2> QED
    BY <1>4, <1>6, <2>1, <2>3 DEF Way
<1> QED
  BY <1>5, <1>6

LEMMA BothExist ==
  ASSUME NEW m \in Mem, NEW e
  PROVE  \E h : BothLoop(h, m, e)
<1> DEFINE P == Way \X Way
           X == [P -> Way]
           on(w) == <<Office!Further(m, w[1]), Office!Further(m, w[2])>>
           b == [w \in P |-> IF Office!Last(w[1]) = e THEN w[1] ELSE w[2]]
           go(f) == [w \in P |-> IF Office!Last(w[1]) = e THEN w[1]
                                 ELSE IF Office!Last(w[2]) = e THEN w[2]
                                 ELSE f[on(w)]]
           step == [f \in X |-> go(f)]
<1>1. \A w \in P : w[1] \in Way /\ w[2] \in Way
  OBVIOUS
<1>2. \A w \in P : on(w) \in P
  BY FurtherIs
<1> HIDE DEF on, P
<1>3. b \in X
  BY <1>1
<1>4. ASSUME NEW f \in X
      PROVE  go(f) \in X
  BY <1>1, <1>2
<1> HIDE DEF X, b, go
<1>5. step \in [X -> X]
  BY <1>4
<1> HIDE DEF step
<1>6. PICK h : Repeats(h, X, b, step)
  <2>1. \E h : Repeats(h, X, b, step)
    BY <1>3, <1>5, Recursion
  <2> QED
    BY <2>1
<1> DEFINE g(i) == IF i = 0 THEN b ELSE go(h[i - 1])
<1>7. ASSUME NEW i \in Nat
      PROVE  h[i] = g(i)
  <2>1. CASE i = 0
    BY <1>6, <2>1 DEF Repeats
  <2>2. CASE i # 0
    <3>1. i - 1 \in Nat /\ (i - 1) + 1 = i
      BY <2>2
    <3>2. h[(i - 1) + 1] = step[h[i - 1]] /\ h[i - 1] \in X
      BY <1>6, <3>1 DEF Repeats
    <3>3. h[i] = go(h[i - 1])
      BY <3>1, <3>2 DEF step
    <3> QED
      BY <2>2, <3>3
  <2> QED
    BY <2>1, <2>2
<1> HIDE DEF g
<1>8. h = [i \in Nat |-> g(i)]
  <2>1. h = [i \in Nat |-> h[i]]
    BY <1>6 DEF Repeats
  <2> QED
    BY <1>7, <2>1
<1> DEFINE c(i, w) == IF Office!Last(w[1]) = e THEN w[1]
                      ELSE IF i = 0 \/ Office!Last(w[2]) = e THEN w[2]
                      ELSE h[i - 1][on(w)]
<1>9. ASSUME NEW i \in Nat
      PROVE  g(i) = [w \in P |-> c(i, w)]
  <2>1. CASE i = 0
    BY <2>1 DEF g, b
  <2>2. CASE i # 0
    BY <2>2 DEF g, go
  <2> QED
    BY <2>1, <2>2
<1> HIDE DEF c
<1>10. h = [i \in Nat |-> [w \in P |-> c(i, w)]]
  BY <1>8, <1>9
<1>11. BothLoop(h, m, e)
  BY <1>10 DEF BothLoop, c, on, P
<1> QED
  BY <1>11

Both(m, e, a, b, n) == (CHOOSE h : BothLoop(h, m, e))[n][<<a, b>>]

LEMMA BothStep ==
  ASSUME NEW m \in Mem, NEW e, NEW a \in Way, NEW b \in Way, NEW n \in Nat
  PROVE  Both(m, e, a, b, n)
           = IF Office!Last(a) = e THEN a
             ELSE IF n = 0 \/ Office!Last(b) = e THEN b
             ELSE Both(m, e, Office!Further(m, a), Office!Further(m, b), n - 1)
<1> DEFINE H == CHOOSE h : BothLoop(h, m, e)
<1>1. BothLoop(H, m, e)
  BY BothExist
<1>2. \A u, v, k : Both(m, e, u, v, k) = H[k][<<u, v>>]
  BY DEF Both
<1> HIDE DEF H
<1> DEFINE p == <<a, b>>
<1>3. p \in Way \X Way /\ p[1] = a /\ p[2] = b
  OBVIOUS
<1> HIDE DEF p
<1> DEFINE c(i, w) == IF Office!Last(w[1]) = e THEN w[1]
                      ELSE IF i = 0 \/ Office!Last(w[2]) = e THEN w[2]
                      ELSE H[i - 1][<<Office!Further(m, w[1]),
                                      Office!Further(m, w[2])>>]
<1>4. H[n][p] = c(n, p)
  <2>1. H = [i \in Nat |-> [w \in Way \X Way |-> c(i, w)]]
    BY <1>1 DEF BothLoop
  <2> HIDE DEF c
  <2>2. H[n] = [w \in Way \X Way |-> c(n, w)]
    BY <2>1
  <2> QED
    BY <1>3, <2>2
<1>5. H[n][p] = Both(m, e, a, b, n)
  BY <1>2 DEF p
<1> QED
  BY <1>2, <1>3, <1>4, <1>5

LEMMA BothWaysIs ==
  ASSUME NEW m, NEW i1, NEW e
  PROVE  Office!BothWays(m, i1, e) = Both(m, e, <<i1, m.l1[i1]>>,
                                          <<i1, m.l2[i1]>>, MaxCustomers)
BY DEF Office!BothWays, Both, BothLoop, Way

\* A way along a thread from its p-th node on.
LEMMA WayAhead ==
  ASSUME NEW m, NEW s, Thread(m, s), NEW p \in 1 .. Len(s),
         NEW q \in p .. Len(s)
  PROVE  /\ SubSeq(s, p, q) \in Way /\ Len(SubSeq(s, p, q)) = (q - p) + 1
         /\ \A i \in 1 .. (q - p) + 1 : SubSeq(s, p, q)[i] = s[(p + i) - 1]
<1> DEFINE l == Len(s)
           w == SubSeq(s, p, q)
<1>1. s \in Seq(Office!Node) /\ l \in Nat /\ p \in 1 .. l /\ q \in p .. l
  BY DEF Thread
<1>2. \A i \in 1 .. l : s[i] \in Office!Node
  BY <1>1, ElementOfSeq
<1> HIDE DEF l
<1>3. /\ p \in Int /\ q \in Int /\ p <= q /\ \A i \in p .. q : i \in 1 .. l
      /\ \A i \in Int : p + i - 1 = (p + i) - 1
      /\ q - p + 1 = (q - p) + 1 /\ (q - p) + 1 # 0
  BY <1>1
<1>4. /\ w \in Seq(Office!Node)
      /\ Len(w) = IF p <= q THEN q - p + 1 ELSE 0
      /\ \A i \in 1 .. q - p + 1 : w[i] = s[p + i - 1]
  <2>1. \A i \in p .. q : s[i] \in Office!Node
    BY <1>2, <1>3
  <2>2. p \in Int /\ q \in Int
    BY <1>3
  <2> QED
    BY <2>1, <2>2, SubSeqProperties
<1> HIDE DEF w
<1>5. Len(w) = (q - p) + 1
  BY <1>3, <1>4
<1>6. w # <<>>
  BY <1>3, <1>5
<1>7. \A i \in 1 .. (q - p) + 1 : w[i] = s[(p + i) - 1]
  BY <1>3, <1>4
<1> QED
  BY <1>4, <1>5, <1>6, <1>7 DEF Way, w

LEMMA FurtherAhead ==
  ASSUME NEW m \in Mem, NEW s, Thread(m, s), NEW p \in 2 .. Len(s) - 1,
         NEW q \in p + 1 .. Len(s) - 1
  PROVE  /\ Office!Last(SubSeq(s, p, q)) = s[q]
         /\ Office!Further(m, SubSeq(s, p, q)) = SubSeq(s, p, q + 1)
<1> DEFINE l == Len(s)
           w == SubSeq(s, p, q)
<1>1. /\ s \in Seq(Office!Node) /\ l \in Nat
      /\ p \in 2 .. l - 1 /\ q \in p + 1 .. l - 1
  BY DEF Thread
<1>2. /\ p \in 1 .. l /\ q \in p .. l /\ q \in 2 .. l - 1
      /\ q - 1 \in 1 .. l /\ q + 1 \in 1 .. l /\ q - 1 # q + 1
      /\ q + 1 \in p .. l /\ (q + 1) - 1 = q
      /\ (q - p) + 1 \in 1 .. (q - p) + 1 /\ (p + ((q - p) + 1)) - 1 = q
      /\ q - p \in 1 .. (q - p) + 1 /\ (p + (q - p)) - 1 = q - 1
      /\ ((q - p) + 1) - 1 = q - p
  <2> HIDE DEF l
  <2> QED
    BY <1>1
<1>3. /\ w \in Way /\ Len(w) = (q - p) + 1
      /\ \A i \in 1 .. (q - p) + 1 : w[i] = s[(p + i) - 1]
  BY <1>2, WayAhead
<1>4. /\ s[q - 1] # s[q + 1] /\ s[q + 1] \in Office!Node
  BY <1>2, ThreadDiffers
<1>5. Beside(m, s[q], s[q - 1], s[q + 1])
  BY <1>2 DEF Thread
<1>6. SubSeq(s, p, q + 1) = SubSeq(s, p, (q + 1) - 1) \o <<s[q + 1]>>
  <2> DEFINE g == q + 1
  <2>1. g \in p .. l
    BY <1>2
  <2> HIDE DEF g
  <2>2. SubSeq(s, p, g) = SubSeq(s, p, g - 1) \o <<s[g]>>
    BY <1>1, <1>2, <2>1, SubSeqRecursiveSecond
  <2> QED
    BY <2>2 DEF g
<1> HIDE DEF w, l
<1>7. w[Len(w)] = s[q] /\ w[Len(w) - 1] = s[q - 1]
  <2>1. w[(q - p) + 1] = s[q] /\ w[q - p] = s[q - 1]
    BY <1>2, <1>3
  <2> QED
    BY <1>2, <1>3, <2>1
<1>8. Office!Last(w) = s[q]
  BY <1>7 DEF Office!Last
<1>9. Office!next(m, s[q], s[q - 1]) = s[q + 1]
  BY <1>4, <1>5 DEF Beside, Office!next
<1>10. Office!Further(m, w) = Append(w, s[q + 1])
  BY <1>4, <1>7, <1>8, <1>9, NodesAre DEF Office!Further
<1>11. Append(w, s[q + 1]) = w \o <<s[q + 1]>>
  BY <1>3, <1>4, AppendIsConcat DEF Way
<1> QED
  BY <1>2, <1>6, <1>8, <1>10, <1>11 DEF w

\* A way along a thread from its p-th node back.
Astern(s, p, w) ==
  /\ w \in Way /\ Len(w) >= 2
  /\ \E q \in 1 .. p - 1 : Office!Last(w) = s[q] /\ w[Len(w) - 1] = s[q + 1]

LEMMA FurtherAstern ==
  ASSUME NEW m \in Mem, NEW s, Thread(m, s), NEW p \in 2 .. Len(s) - 1,
         NEW w, Astern(s, p, w)
  PROVE  /\ Astern(s, p, Office!Further(m, w))
         /\ \A r \in p .. Len(s) : Office!Last(w) # s[r]
<1> DEFINE l == Len(s)
<1>1. l \in Nat /\ p \in 2 .. l - 1 /\ Len(w) \in Nat /\ Len(w) >= 2
  BY DEF Thread, Astern, Way
<1>2. PICK q \in 1 .. p - 1 :
        Office!Last(w) = s[q] /\ w[Len(w) - 1] = s[q + 1]
  BY DEF Astern
<1>3. /\ q \in 1 .. l /\ \A r \in p .. l : r \in 1 .. l /\ r # q
      /\ q # 1 => /\ q \in 2 .. l - 1 /\ q - 1 \in 1 .. l /\ q + 1 \in 1 .. l
                  /\ q - 1 # q + 1 /\ q - 1 \in 1 .. p - 1
                  /\ (q - 1) + 1 = q
      /\ 2 \in 1 .. l
  <2> HIDE DEF l
  <2> QED
    BY <1>1, <1>2
<1>4. \A r \in p .. l : Office!Last(w) # s[r]
  BY <1>2, <1>3, ThreadDiffers
<1>5. CASE q = 1
  <2>1. IsEnd(m, s[1], s[2]) /\ s[2] \in Office!Node
    BY <1>3, ThreadAt DEF Thread
  <2>2. Office!next(m, s[1], s[2]) = Office!nullptr
    BY <2>1, NodesAre DEF IsEnd, Office!next
  <2>3. Office!Further(m, w) = w
    BY <1>2, <1>5, <2>2 DEF Office!Further
  <2> QED
    BY <1>4, <2>3
<1>6. CASE q # 1
  <2>1. /\ s[q - 1] # s[q + 1] /\ s[q - 1] \in Office!Node
    BY <1>3, <1>6, ThreadDiffers
  <2>2. Beside(m, s[q], s[q - 1], s[q + 1])
    BY <1>3, <1>6 DEF Thread
  <2>3. Office!next(m, s[q], s[q + 1]) = s[q - 1]
    BY <2>1, <2>2 DEF Beside, Office!next
  <2> DEFINE v == Append(w, s[q - 1])
  <2>4. Office!Further(m, w) = v
    BY <1>2, <2>1, <2>3, NodesAre DEF Office!Further
  <2>5. w \in Seq(Office!Node)
    BY DEF Astern, Way
  <2>6. /\ v \in Seq(Office!Node) /\ Len(v) = Len(w) + 1
        /\ \A i \in 1 .. Len(w) : v[i] = w[i]
        /\ v[Len(w) + 1] = s[q - 1]
    BY <2>1, <2>5, AppendProperties
  <2>7. v # <<>> /\ Len(v) >= 2 /\ Len(v) - 1 = Len(w)
    <3>1. Len(v) # 0 /\ Len(v) >= 2 /\ Len(v) - 1 = Len(w)
      BY <1>1, <2>6
    <3> QED
      BY <3>1
  <2> HIDE DEF v
  <2>8. Office!Last(v) = s[q - 1]
    BY <2>6 DEF Office!Last
  <2>9. v[Len(v) - 1] = s[q]
    <3>1. Len(w) \in 1 .. Len(w)
      BY <1>1
    <3>2. v[Len(w)] = w[Len(w)]
      BY <2>6, <3>1
    <3> QED
      BY <1>2, <2>7, <3>2 DEF Office!Last
  <2>10. v \in Way
    BY <2>6, <2>7 DEF Way
  <2>11. \E e \in 1 .. p - 1 :
           Office!Last(v) = s[e] /\ v[Len(v) - 1] = s[e + 1]
    BY <1>3, <1>6, <2>8, <2>9
  <2>12. Astern(s, p, v)
    BY <2>7, <2>10, <2>11 DEF Astern
  <2> QED
    BY <1>4, <2>4, <2>12
<1> QED
  BY <1>5, <1>6

LEMMA PairIs ==
  ASSUME NEW x, NEW y
  PROVE  <<x>> \o <<y>> = <<x, y>>
<1> DEFINE T == {x, y}
           a == <<x>>
           b == <<y>>
           c == <<x, y>>
           u == a \o b
<1>1. /\ a \in Seq(T) /\ Len(a) = 1 /\ a[1] = x
      /\ b \in Seq(T) /\ Len(b) = 1 /\ b[1] = y
      /\ c \in Seq(T) /\ Len(c) = 2 /\ c[1] = x /\ c[2] = y
  OBVIOUS
<1> HIDE DEF T, a, b, c
<1>2. /\ u \in Seq(T) /\ Len(u) = Len(a) + Len(b)
      /\ \A i \in 1 .. Len(a) + Len(b) :
           u[i] = IF i <= Len(a) THEN a[i] ELSE b[i - Len(a)]
  BY <1>1, ConcatProperties
<1> HIDE DEF u
<1>3. Len(u) = 2 /\ \A i \in 1 .. 2 : u[i] = c[i]
  BY <1>1, <1>2
<1>4. u = c
  BY <1>1, <1>2, <1>3, SeqEqual
<1> QED
  BY <1>4 DEF u, a, b, c

LEMMA BothEnds ==
  ASSUME NEW m \in Mem, NEW e, NEW a \in Way, NEW b \in Way, NEW n \in Nat
  PROVE  /\ Office!Last(a) = e => Both(m, e, a, b, n) = a
         /\ Office!Last(a) # e /\ Office!Last(b) = e
              => Both(m, e, a, b, n) = b
<1> DEFINE on == Both(m, e, Office!Further(m, a), Office!Further(m, b), n - 1)
           x == Both(m, e, a, b, n)
<1>1. x = IF Office!Last(a) = e THEN a
          ELSE IF n = 0 \/ Office!Last(b) = e THEN b ELSE on
  BY BothStep
<1> HIDE DEF on, x
<1>2. /\ Office!Last(a) = e => x = a
      /\ Office!Last(a) # e /\ Office!Last(b) = e => x = b
  BY <1>1
<1> QED
  BY <1>2 DEF x

\* Of the two walks from the p-th node of a thread the one that goes on comes
\* to a later node, and the other never does.
LEMMA BothThread ==
  ASSUME NEW m \in Mem, NEW s, Thread(m, s), NEW p \in 2 .. Len(s) - 1,
         NEW r \in p + 1 .. Len(s) - 1, NEW n \in Nat, r - (p + 1) <= n,
         NEW b, Astern(s, p, b)
  PROVE  /\ Both(m, s[r], SubSeq(s, p, p + 1), b, n) = SubSeq(s, p, r)
         /\ Both(m, s[r], b, SubSeq(s, p, p + 1), n) = SubSeq(s, p, r)
<1> DEFINE l == Len(s)
           e == s[r]
           A(q) == SubSeq(s, p, q)
           Good(i, q, w) == /\ Both(m, e, A(q), w, i) = A(r)
                            /\ Both(m, e, w, A(q), i) = A(r)
           right(i) == \A q \in p + 1 .. r : r - q <= i =>
                         \A w \in Way : Astern(s, p, w) => Good(i, q, w)
           B == {i \in Nat : ~right(i)}
<1>1. l \in Nat /\ p \in 2 .. l - 1 /\ r \in p + 1 .. l - 1
  BY DEF Thread
<1>2. \A w : Astern(s, p, w) =>
        /\ w \in Way /\ Astern(s, p, Office!Further(m, w))
        /\ Office!Further(m, w) \in Way /\ Office!Last(w) # e
  <2> SUFFICES ASSUME NEW w, Astern(s, p, w)
               PROVE  /\ w \in Way /\ Astern(s, p, Office!Further(m, w))
                      /\ Office!Further(m, w) \in Way /\ Office!Last(w) # e
    OBVIOUS
  <2>1. r \in p .. l
    <3> HIDE DEF l
    <3> QED
      BY <1>1
  <2>2. /\ Astern(s, p, Office!Further(m, w))
        /\ \A j \in p .. l : Office!Last(w) # s[j]
    BY FurtherAstern
  <2> QED
    BY <2>1, <2>2 DEF Astern
<1>3. ASSUME NEW q \in p + 1 .. r
      PROVE  /\ A(q) \in Way /\ Office!Last(A(q)) = s[q]
             /\ q # r => Office!Further(m, A(q)) = A(q + 1)
                         /\ s[q] # e /\ A(q + 1) \in Way
  <2>1. /\ p \in 1 .. l /\ q \in p .. l /\ q \in p + 1 .. l - 1
        /\ q \in 1 .. l /\ r \in 1 .. l /\ q + 1 \in p .. l
    <3> HIDE DEF l
    <3> QED
      BY <1>1
  <2>2. A(q) \in Way
    BY <2>1, WayAhead
  <2>3. /\ Office!Last(SubSeq(s, p, q)) = s[q]
        /\ Office!Further(m, SubSeq(s, p, q)) = SubSeq(s, p, q + 1)
    BY <2>1, FurtherAhead
  <2>4. q # r => s[q] # e
    BY <2>1, ThreadDiffers
  <2>5. A(q + 1) \in Way
    <3> DEFINE g == q + 1
    <3>1. g \in p .. l
      BY <2>1
    <3> HIDE DEF g
    <3>2. SubSeq(s, p, g) \in Way
      BY <2>1, <3>1, WayAhead
    <3> QED
      BY <3>2 DEF g
  <2> QED
    BY <2>2, <2>3, <2>4, <2>5
<1> HIDE DEF A, l
<1>4. ASSUME NEW i \in Nat, NEW w \in Way, Astern(s, p, w)
      PROVE  Good(i, r, w)
  <2>1. r \in p + 1 .. r
    BY <1>1
  <2>2. A(r) \in Way /\ Office!Last(A(r)) = e
    BY <1>3, <2>1
  <2>3. Office!Last(w) # e
    BY <1>2, <1>4
  <2> DEFINE a == A(r)
  <2>4. a \in Way /\ Office!Last(a) = e
    BY <2>2
  <2> HIDE DEF a, e
  <2>5. Both(m, e, a, w, i) = a
    BY <2>4, BothEnds
  <2>6. Both(m, e, w, a, i) = a
    BY <2>3, <2>4, BothEnds
  <2> QED
    BY <2>5, <2>6 DEF a
<1>5. ASSUME NEW i \in B, \A j \in B : i <= j
      PROVE  FALSE
  <2>1. i \in Nat /\ ~right(i)
    OBVIOUS
  <2>2. PICK q \in p + 1 .. r, w \in Way :
          r - q <= i /\ Astern(s, p, w) /\ ~Good(i, q, w)
    BY <2>1
  <2>3. q # r
    BY <1>4, <2>1, <2>2
  <2>4. /\ i # 0 /\ i - 1 \in Nat /\ i - 1 < i /\ q + 1 \in p + 1 .. r
        /\ r - (q + 1) <= i - 1
    BY <1>1, <2>1, <2>2, <2>3
  <2>5. right(i - 1)
    BY <1>5, <2>4
  <2> DEFINE v == Office!Further(m, w)
             f == q + 1
             k == i - 1
  <2>6. v \in Way /\ Astern(s, p, v)
    BY <1>2, <2>2
  <2> HIDE DEF v
  <2>7. Good(k, f, v)
    <3>1. f \in p + 1 .. r /\ r - f <= k /\ right(k)
      BY <2>4, <2>5
    <3> HIDE DEF f, k, Good
    <3> QED
      BY <2>6, <3>1
  <2> HIDE DEF right, B
  <2> DEFINE a == A(q)
  <2>8. /\ a \in Way /\ Office!Last(a) = s[q] /\ Office!Further(m, a) = A(f)
        /\ s[q] # e /\ A(f) \in Way
    BY <1>3, <2>3
  <2>9. Office!Last(w) # e
    BY <1>2, <2>2
  <2> HIDE DEF a, e
  <2>10. Both(m, e, a, w, i) = Both(m, e, A(f), v, k)
    <3>1. Both(m, e, a, w, i)
            = Both(m, e, Office!Further(m, a), Office!Further(m, w), i - 1)
      BY <2>1, <2>4, <2>8, <2>9, BothStep
    <3> QED
      BY <2>8, <3>1 DEF v
  <2>11. Both(m, e, w, a, i) = Both(m, e, v, A(f), k)
    <3>1. Both(m, e, w, a, i)
            = Both(m, e, Office!Further(m, w), Office!Further(m, a), i - 1)
      BY <2>1, <2>4, <2>8, <2>9, BothStep
    <3> QED
      BY <2>8, <3>1 DEF v
  <2> QED
    BY <2>2, <2>7, <2>10, <2>11 DEF a
<1>6. B = {}
  <2>1. B \in SUBSET Nat
    OBVIOUS
  <2> HIDE DEF B
  <2> QED
    BY <1>5, <2>1, LeastNat
<1>7. right(n)
  BY <1>6
<1>8. p + 1 \in p + 1 .. r /\ r - (p + 1) <= n
  BY <1>1
<1>9. b \in Way /\ Astern(s, p, b)
  BY <1>2
<1>10. Good(n, p + 1, b)
  BY <1>7, <1>8, <1>9
<1> QED
  BY <1>10 DEF A

\* fast_track() finds the customers between two of a queue.
LEMMA BothWaysThread ==
  ASSUME NEW m \in Mem, NEW s, Thread(m, s), NEW p \in 2 .. Len(s) - 1,
         NEW r \in p + 1 .. Len(s) - 1, MaxCustomers \in Nat,
         Len(s) - 2 <= MaxCustomers
  PROVE  Office!BothWays(m, s[p], s[r]) = SubSeq(s, p, r)
<1> DEFINE l == Len(s)
           up == SubSeq(s, p, p + 1)
           back == <<s[p], s[p - 1]>>
<1>1. /\ s \in Seq(Office!Node) /\ l \in Nat /\ p \in 2 .. l - 1
      /\ r \in p + 1 .. l - 1 /\ l - 2 <= MaxCustomers
  BY DEF Thread
<1>2. /\ p \in 1 .. l /\ p - 1 \in 1 .. l /\ p + 1 \in 1 .. l
      /\ p + 1 \in p .. l
      /\ (p + 1) - 1 = p /\ p - 1 \in 1 .. p - 1 /\ (p - 1) + 1 = p
      /\ r - (p + 1) <= MaxCustomers
  <2> HIDE DEF l
  <2> QED
    BY <1>1
<1>3. /\ s[p] \in Office!Node /\ s[p - 1] \in Office!Node
      /\ s[p + 1] \in Office!Node
  BY <1>2, ThreadAt
<1>4. up = <<s[p], s[p + 1]>>
  <2> DEFINE g == p + 1
  <2>1. g \in p .. l /\ p \in p .. l /\ g - 1 = p
    BY <1>2
  <2> HIDE DEF g
  <2>2. SubSeq(s, p, g) = SubSeq(s, p, g - 1) \o <<s[g]>>
    BY <1>1, <1>2, <2>1, SubSeqRecursiveSecond
  <2>3. SubSeq(s, p, p) = <<s[p]>> \o SubSeq(s, p + 1, p)
    BY <1>1, <1>2, <2>1, SubSeqRecursiveFirst
  <2>4. SubSeq(s, p + 1, p) = <<>>
    BY <1>1, SubSeqEmpty
  <2>5. <<s[p]>> \o <<>> = <<s[p]>>
    BY <1>3
  <2>6. <<s[p]>> \o <<s[g]>> = <<s[p], s[g]>>
    BY PairIs
  <2> QED
    BY <2>1, <2>2, <2>3, <2>4, <2>5, <2>6 DEF g
<1>5. Astern(s, p, back)
  <2>1. /\ back \in Seq(Office!Node) /\ Len(back) = 2 /\ back # <<>>
        /\ back[2] = s[p - 1] /\ back[1] = s[p]
    BY <1>3
  <2>2. Office!Last(back) = s[p - 1] /\ back[Len(back) - 1] = s[p]
    BY <2>1 DEF Office!Last
  <2> HIDE DEF back
  <2>3. \E q \in 1 .. p - 1 :
          Office!Last(back) = s[q] /\ back[Len(back) - 1] = s[q + 1]
    BY <1>2, <2>2
  <2> QED
    BY <2>1, <2>3 DEF Astern, Way
<1>6. /\ Both(m, s[r], SubSeq(s, p, p + 1), back, MaxCustomers)
           = SubSeq(s, p, r)
      /\ Both(m, s[r], back, SubSeq(s, p, p + 1), MaxCustomers)
           = SubSeq(s, p, r)
  <2> HIDE DEF back
  <2> QED
    BY <1>2, <1>5, BothThread
<1>7. Beside(m, s[p], s[p - 1], s[p + 1])
  BY DEF Thread
<1>8. Office!BothWays(m, s[p], s[r])
        = Both(m, s[r], <<s[p], m.l1[s[p]]>>, <<s[p], m.l2[s[p]]>>,
               MaxCustomers)
  BY BothWaysIs
<1>9. CASE m.l1[s[p]] = s[p - 1] /\ m.l2[s[p]] = s[p + 1]
  BY <1>4, <1>6, <1>8, <1>9
<1>10. CASE m.l1[s[p]] = s[p + 1] /\ m.l2[s[p]] = s[p - 1]
  BY <1>4, <1>6, <1>8, <1>10
<1> QED
  BY <1>7, <1>9, <1>10 DEF Beside

\* What fast_track() finds between the p-th node and the r-th.
FastPath(m, a, b) == IF a = b THEN <<a>> ELSE Office!BothWays(m, a, b)

LEMMA FastPathIs ==
  ASSUME NEW m, NEW S, NEW n, Rows(m, S, n), NEW k \in Window,
         NEW p \in 2 .. Len(S[k]) - 1, NEW r \in p .. Len(S[k]) - 1
  PROVE  FastPath(m, S[k][p], S[k][r]) = SubSeq(S[k], p, r)
<1> DEFINE s == S[k]
           l == Len(s)
<1>1. /\ m \in Mem /\ n \in 0 .. MaxCustomers /\ Row(m, s, n)
      /\ Thread(m, s) /\ s \in Seq(Office!Node) /\ l \in Nat
      /\ p \in 2 .. l - 1 /\ r \in p .. l - 1
  BY DEF Rows, Row, Thread
<1>2. /\ n \in Nat /\ n <= MaxCustomers /\ MaxCustomers \in Nat
  BY <1>1, WindowAssumption
<1> HIDE DEF s
<1>3. l - 2 <= n
  BY <1>1, <1>2, RowShort
<1>4. /\ l - 2 <= MaxCustomers /\ p \in 1 .. l /\ r \in 1 .. l /\ p \in p .. l
      /\ p # r => r \in p + 1 .. l - 1
      /\ p < p + 1 /\ p + 1 \in Int /\ p \in Int
  <2> HIDE DEF l
  <2> QED
    BY <1>1, <1>2, <1>3
<1>5. CASE p = r
  <2>1. SubSeq(s, p, p) = <<s[p]>> \o SubSeq(s, p + 1, p)
    BY <1>1, <1>4, SubSeqRecursiveFirst
  <2>2. SubSeq(s, p + 1, p) = <<>>
    BY <1>4, SubSeqEmpty
  <2>3. s[p] \in Office!Node
    BY <1>1, <1>4, ThreadAt
  <2> DEFINE x == s[p]
  <2> HIDE DEF x
  <2>4. <<x>> \o <<>> = <<x>>
    OBVIOUS
  <2>5. SubSeq(s, p, p) = <<s[p]>>
    BY <2>1, <2>2, <2>4 DEF x
  <2> QED
    BY <1>5, <2>5 DEF FastPath, s
<1>6. CASE p # r
  <2>1. s[p] # s[r]
    BY <1>1, <1>4, <1>6, ThreadDiffers
  <2>2. Office!BothWays(m, s[p], s[r]) = SubSeq(s, p, r)
    BY <1>1, <1>2, <1>4, <1>6, BothWaysThread
  <2> QED
    BY <2>1, <2>2 DEF FastPath, s
<1> QED
  BY <1>5, <1>6

\* The memory without the nodes of path, which have left.
Cleared(m, path) == Office!Leave(RemoveAll(m, path), Office!ToSet(path))

LEMMA FastRows ==
  ASSUME NEW m, NEW S, NEW n, Rows(m, S, n), NEW k \in Window,
         NEW p \in 2 .. Len(S[k]) - 1, NEW r \in p .. Len(S[k]) - 1,
         NEW c \in Nat, c = (r - p) + 1
  PROVE  /\ Rows(Cleared(m, SubSeq(S[k], p, r)),
                 [S EXCEPT ![k] = Cut(S[k], p, c)], n)
         /\ EndsOf(Cut(S[k], p, c)) = EndsOf(S[k])
<1> DEFINE s == S[k]
           l == Len(s)
           path == SubSeq(s, p, r)
           u == Cut(s, p, c)
           T == [S EXCEPT ![k] = u]
<1>1. /\ m \in Mem /\ Thread(m, s) /\ s \in Seq(Office!Node) /\ l \in Nat
      /\ p \in 2 .. l - 1 /\ r \in p .. l - 1
      /\ S \in [Window -> Seq(Office!Node)]
  BY DEF Rows, Row, Thread
<1>2. Own(s, S, k)
  BY DEF Rows, Own
<1> HIDE DEF s
<1>3. /\ p \in 1 .. l /\ r \in p .. l /\ p + c <= l
      /\ \A i \in 1 .. c : /\ (p + i) - 1 = p + (i - 1)
                           /\ (p + i) - 1 \in p .. p + c - 1
                           /\ (p + i) - 1 \in 1 .. l
  <2> HIDE DEF l
  <2> QED
    BY <1>1
<1>4. /\ path \in Way /\ Len(path) = c
      /\ \A i \in 1 .. c : path[i] = s[(p + i) - 1]
  <2>1. /\ path \in Way /\ Len(path) = (r - p) + 1
        /\ \A i \in 1 .. (r - p) + 1 : path[i] = s[(p + i) - 1]
    BY <1>1, <1>3, WayAhead
  <2> QED
    BY <2>1
<1> HIDE DEF path, l
<1>5. PICK t : Removing(t, m, path) /\ RemoveAll(m, path) = t[Len(path)]
  BY <1>1, <1>4, RemovesAll DEF Way
<1>6. /\ t[0] = m
      /\ \A i \in 1 .. c : t[i] = Office!remove_elem(t[i - 1], s[p + (i - 1)])
  <2>1. \A i \in 1 .. c : path[i] = s[p + (i - 1)]
    BY <1>3, <1>4
  <2> QED
    BY <1>4, <1>5, <2>1 DEF Removing
<1>7. Rows(t[c], T, n)
  BY <1>3, <1>6, RunRemoved DEF s, l
<1>8. /\ EndsOf(u) = EndsOf(s)
      /\ \A i \in p .. p + c - 1 : Missing(s[i], u)
      /\ NodesWithin(u, s)
  BY <1>1, <1>3, CutAway DEF l
<1> HIDE DEF u
<1>9. T[k] = u /\ \A h \in Window \ {k} : T[h] = S[h]
  BY <1>1
<1> HIDE DEF T
<1>10. Absent(Office!ToSet(path), T)
  <2> SUFFICES ASSUME NEW h \in Window, NEW i \in 1 .. Len(T[h]),
                      T[h][i] \in Office!ToSet(path)
               PROVE  FALSE
    BY DEF Absent
  <2>1. DOMAIN path = 1 .. c
    BY <1>4 DEF Way
  <2>2. PICK j \in 1 .. c : T[h][i] = path[j]
    BY <2>1 DEF Office!ToSet
  <2> DEFINE q == (p + j) - 1
  <2>3. path[j] = s[q] /\ q \in p .. p + c - 1 /\ q \in 1 .. l
    BY <1>3, <1>4
  <2> HIDE DEF q
  <2>4. CASE h = k
    BY <1>8, <1>9, <2>2, <2>3, <2>4 DEF Missing
  <2>5. CASE h # k
    <3>1. T[h] = S[h] /\ Apart(s, S[h])
      BY <1>2, <1>9, <2>5 DEF Own
    <3> QED
      BY <2>2, <2>3, <3>1 DEF Apart, l
  <2> QED
    BY <2>4, <2>5
<1>11. Rows(Office!Leave(t[c], Office!ToSet(path)), T, n)
  BY <1>7, <1>10, RowsLeave
<1>12. Rows(Cleared(m, path), T, n)
  BY <1>4, <1>5, <1>11 DEF Cleared
<1> QED
  BY <1>8, <1>12 DEF T, u, path, s

\* The i-th and the j-th customer of a queue are the p-th and the r-th node.
Numbered(s, i, j, p, r, c) ==
  /\ s \in Seq(Office!Node) /\ i \in 1 .. Len(s) - 2 /\ j \in i .. Len(s) - 2
  /\ p = i + 1 /\ r = j + 1 /\ c = (r - p) + 1

\* How the customers between them are found and taken out.
TakenOut(s, i, j, p, r, c) ==
  /\ p \in 2 .. Len(s) - 1 /\ r \in p .. Len(s) - 1 /\ c \in Nat
  /\ Mid(s)[i] = s[p] /\ Mid(s)[j] = s[r]
  /\ SubSeq(Mid(s), i, j) = SubSeq(s, p, r)
  /\ Mid(Cut(s, p, c)) = SubSeq(Mid(s), 1, i - 1)
                           \o SubSeq(Mid(s), j + 1, Len(Mid(s)))

LEMMA FastMid ==
  ASSUME NEW s, NEW i, NEW j, NEW p, NEW r, NEW c, Numbered(s, i, j, p, r, c)
  PROVE  TakenOut(s, i, j, p, r, c)
<1> DEFINE l == Len(s)
<1>1. /\ l \in Nat /\ i \in 1 .. l - 2 /\ j \in i .. l - 2
      /\ s \in Seq(Office!Node)
      /\ p = i + 1 /\ r = j + 1 /\ c = (r - p) + 1
  BY DEF Numbered
<1>2. /\ p \in 2 .. l - 1 /\ r \in p .. l - 1 /\ c \in Nat /\ l >= 2
      /\ 2 \in 1 .. l /\ l - 1 \in 1 .. l /\ c \in 0 .. l - p
      /\ i \in 1 .. (l - 1) - 2 + 1 /\ j \in 1 .. (l - 1) - 2 + 1
      /\ 2 + i - 1 = p /\ 2 + j - 1 = r /\ p - 2 = i - 1
      /\ r = (p + c) - 1 /\ j \in 1 .. l - 2 /\ j + 1 = r
  <2> HIDE DEF l
  <2> QED
    BY <1>1
<1>3. /\ Mid(s) \in Seq(Office!Node)
      /\ \A h \in 1 .. Len(s) - 2 : Mid(s)[h] = s[h + 1]
  BY <1>1, <1>2, MidIs
<1>4. Mid(s)[i] = s[p] /\ Mid(s)[j] = s[r]
  BY <1>2, <1>3
<1>5. SubSeq(SubSeq(s, 2, l - 1), i, j) = SubSeq(s, 2 + i - 1, 2 + j - 1)
  <2> DEFINE e == l - 1
  <2>1. e \in 1 .. l /\ i \in 1 .. e - 2 + 1 /\ j \in 1 .. e - 2 + 1
    BY <1>2
  <2> HIDE DEF e
  <2>2. SubSeq(SubSeq(s, 2, e), i, j) = SubSeq(s, 2 + i - 1, 2 + j - 1)
    BY <1>1, <1>2, <1>3, <2>1, SubSeqOfSubSeq
  <2> QED
    BY <2>2 DEF e
<1>6. SubSeq(Mid(s), i, j) = SubSeq(s, p, r)
  BY <1>2, <1>5 DEF Mid
<1>7. Mid(Cut(s, p, c)) = SubSeq(Mid(s), 1, p - 2)
                            \o SubSeq(Mid(s), r, Len(Mid(s)))
  BY <1>1, <1>2, MidCut
<1> QED
  BY <1>2, <1>4, <1>6, <1>7 DEF TakenOut

LEMMA StandingIs ==
  ASSUME NEW S, Stored(S), NEW k \in Window
  PROVE  Office!Standing(k) = Mid(S[k]) /\ Queue[k] = Mid(S[k])
<1>1. Queue = [h \in Window |-> Mid(S[h])]
  BY QueueIs
<1>2. Queue[k] = Office!Standing(k)
  BY DEF Queue, Office!Standing
<1> QED
  BY <1>1, <1>2

LEMMA FastTracks ==
  ASSUME Threaded, NEW k \in Window, NEW i \in DOMAIN Office!Standing(k),
         NEW j \in DOMAIN Office!Standing(k), i <= j,
         Office!fast_track(Office!Standing(k)[i], Office!Standing(k)[j])
  PROVE  Threaded' /\ Office!Promise!FastTrack(k, i, j)
<1>1. PICK S : Stored(S)
  BY DEF Threaded
<1> DEFINE m == Office!Memory
           n == akt_numerek
           s == S[k]
           l == Len(s)
           q == Office!Standing(k)
           p == i + 1
           r == j + 1
           c == (r - p) + 1
           t == Cut(s, p, c)
           path == SubSeq(s, p, r)
           w == Cleared(m, path)
<1>2. /\ Rows(m, S, n) /\ s \in Seq(Office!Node) /\ l \in Nat /\ l >= 2
  BY <1>1 DEF Stored, Rows, Row, Thread
<1>3. q = Mid(s) /\ Queue[k] = Mid(s)
  BY <1>1, StandingIs
<1>4. DOMAIN q = 1 .. l - 2
  <2> HIDE DEF q, s
  <2>1. Mid(s) \in Seq(Office!Node) /\ Len(Mid(s)) = l - 2
    BY <1>2, MidIs
  <2> QED
    BY <1>3, <2>1
<1>5. i \in 1 .. l - 2 /\ j \in i .. l - 2 /\ i \in Nat /\ j \in Nat
  <2>1. i \in 1 .. l - 2 /\ j \in 1 .. l - 2 /\ i <= j
    BY <1>4
  <2> HIDE DEF l
  <2> QED
    BY <1>2, <2>1
<1> HIDE DEF m, n, s, q, w, p, r, c, t, path
<1>6. /\ p \in 2 .. l - 1 /\ r \in p .. l - 1 /\ c \in Nat
      /\ Mid(s)[i] = s[p] /\ Mid(s)[j] = s[r]
      /\ SubSeq(Mid(s), i, j) = path
      /\ Mid(t) = SubSeq(Mid(s), 1, i - 1)
                    \o SubSeq(Mid(s), j + 1, Len(Mid(s)))
  <2>1. Numbered(s, i, j, p, r, c)
    BY <1>2, <1>5 DEF p, r, c, Numbered
  <2>2. TakenOut(s, i, j, p, r, c)
    BY <2>1, FastMid
  <2> QED
    BY <2>2 DEF TakenOut, path, t
<1>7. FastPath(m, s[p], s[r]) = path
  <2>1. p \in 2 .. Len(S[k]) - 1 /\ r \in p .. Len(S[k]) - 1
    BY <1>6 DEF s
  <2>2. FastPath(m, S[k][p], S[k][r]) = SubSeq(S[k], p, r)
    BY <1>2, <2>1, FastPathIs
  <2> QED
    BY <2>2 DEF s, path
<1>8. /\ Office!Becomes(w) /\ returned' = path
      /\ kolejki' = kolejki /\ n' = n
  <2> DEFINE a == q[i]
             b == q[j]
  <2>1. Office!fast_track(a, b)
    BY DEF q
  <2>2. FastPath(m, a, b) = path
    BY <1>3, <1>6, <1>7
  <2> HIDE DEF a, b
  <2> DEFINE x == IF a = b THEN <<a>> ELSE Office!BothWays(m, a, b)
  <2>3. x = path
    BY <2>2 DEF FastPath
  <2>4. /\ Office!Becomes(
             Office!Leave(Office!FoldLeft(Office!remove_elem, m, x),
                          Office!ToSet(x)))
        /\ returned' = x /\ kolejki' = kolejki /\ n' = n
    BY <2>1 DEF Office!fast_track, m, n
  <2> HIDE DEF x
  <2> QED
    BY <2>3, <2>4 DEF w, Cleared, RemoveAll
<1>9. PICK T : Changed(S, k, t, T)
  BY DEF Changed
<1>10. Rows(w, T, n) /\ EndsOf(t) = EndsOf(s)
  <2>1. c = (r - p) + 1
    BY DEF c
  <2>2. p \in 2 .. Len(S[k]) - 1 /\ r \in p .. Len(S[k]) - 1 /\ c \in Nat
    BY <1>6 DEF s
  <2>3. /\ Rows(Cleared(m, SubSeq(S[k], p, r)),
                [S EXCEPT ![k] = Cut(S[k], p, c)], n)
        /\ EndsOf(Cut(S[k], p, c)) = EndsOf(S[k])
    BY <1>2, <2>1, <2>2, FastRows
  <2> QED
    BY <1>9, <2>3 DEF Changed, t, w, path, s
<1>11. /\ Stored(T)' /\ Queue' = [Queue EXCEPT ![k] = Mid(t)]
  <2>1. akt_numerek' = n
    BY <1>8 DEF n
  <2>2. EndsOf(t) = EndsOf(S[k])
    BY <1>10 DEF s
  <2> QED
    BY <1>1, <1>8, <1>9, <1>10, <2>1, <2>2, OneQueue
<1>12. Threaded'
  BY <1>11 DEF Threaded
<1>13. /\ returned' = SubSeq(Queue[k], i, j)
       /\ Queue' = [Queue EXCEPT ![k] = SubSeq(@, 1, i - 1)
                                         \o SubSeq(@, j + 1, Len(@))]
  BY <1>3, <1>6, <1>8, <1>11
<1>14. Office!Promise!FastTrack(k, i, j)
  BY <1>8, <1>13 DEF Office!Promise!FastTrack, Queue, n
<1> QED
  BY <1>12, <1>14

\* Every call keeps the promise about the queues, and their shape.
LEMMA QueuesStep ==
  ASSUME Threaded, [Office!Next]_(Office!vars)
  PROVE  Threaded' /\ [Office!Promise!Next]_(Office!Promise!vars)
<1>1. CASE UNCHANGED Office!vars
  <2>1. PICK S : Stored(S)
    BY DEF Threaded
  <2>2. /\ UNCHANGED <<Office!pointers, kolejki, akt_numerek>>
        /\ returned' = returned /\ akt_numerek' = akt_numerek
    BY <1>1 DEF Office!vars
  <2>3. Stored(S)' /\ Queue' = Queue
    BY <2>1, <2>2, NothingMoves
  <2>4. Threaded'
    BY <2>3 DEF Threaded
  <2>5. UNCHANGED Office!Promise!vars
    BY <2>2, <2>3 DEF Office!Promise!vars, Queue
  <2> QED
    BY <2>4, <2>5
<1>2. ASSUME NEW k \in Window, Office!nowy_interesant(k)
      PROVE  Threaded' /\ Office!Promise!Next
  BY <1>2, EntersQueue DEF Office!Promise!Next
<1>3. ASSUME NEW k \in Window, Office!obsluz(k)
      PROVE  Threaded' /\ Office!Promise!Next
  BY <1>3, ServesQueue DEF Office!Promise!Next
<1>4. ASSUME NEW k \in Window, Office!naczelnik(k)
      PROVE  Threaded' /\ Office!Promise!Next
  BY <1>4, TurnsQueue DEF Office!Promise!Next
<1>5. ASSUME NEW k1 \in Window, NEW k2 \in Window, k1 # k2,
             Office!zamkniecie_okienka(k1, k2)
      PROVE  Threaded' /\ Office!Promise!Next
  BY <1>5, ClosesWindow DEF Office!Promise!Next
<1>6. ASSUME NEW k1 \in Window, NEW i \in Office!ToSet(Office!Standing(k1)),
             NEW k2 \in Window \ {k1}, Office!zmiana_okienka(i, k2)
      PROVE  Threaded' /\ Office!Promise!Next
  <2>1. /\ Threaded'
        /\ \E j \in DOMAIN Queue[k1] : Office!Promise!Move(k1, j, k2)
    BY <1>6, MovesQueue
  <2> QED
    BY <2>1 DEF Office!Promise!Next, Queue
<1>7. ASSUME NEW k \in Window, NEW i \in DOMAIN Office!Standing(k),
             NEW j \in DOMAIN Office!Standing(k), i <= j,
             Office!fast_track(Office!Standing(k)[i], Office!Standing(k)[j])
      PROVE  Threaded' /\ Office!Promise!Next
  <2>1. Threaded' /\ Office!Promise!FastTrack(k, i, j)
    BY <1>7, FastTracks
  <2>2. DOMAIN Queue[k] = DOMAIN Office!Standing(k)
    BY DEF Queue, Office!Standing
  <2>3. \E a, b \in DOMAIN Queue[k] :
          a <= b /\ Office!Promise!FastTrack(k, a, b)
    BY <1>7, <2>1, <2>2
  <2> QED
    BY <2>1, <2>3 DEF Office!Promise!Next, Queue
<1>8. ASSUME Office!zamkniecie_urzedu
      PROVE  Threaded' /\ Office!Promise!Next
  BY <1>8, ClosesOffice DEF Office!Promise!Next
<1>9. ASSUME Office!Next
      PROVE  Threaded' /\ Office!Promise!Next
  BY <1>2, <1>3, <1>4, <1>5, <1>6, <1>7, <1>8, <1>9 DEF Office!Next
<1> QED
  BY <1>1, <1>9

\* However the queues of the office were joined, left, reversed and appended,
\* walking from the head of a window past the neighbour one came from gives
\* the customers in the order that the library promises, and every call gives
\* back those it says, for any number of windows and of customers (kol.c lines
\* 34-41, 71-81, 141-157; kol.h).
THEOREM QueuesImplemented ==
  Spec => ImplementsQueues
<1>1. Init => Threaded /\ Office!Promise!Init
  BY OpensOffice DEF Init
<1>2. [Next]_vars => [Office!Next]_(Office!vars)
  BY DEF Next, vars, office, Office!vars, Office!pointers
<1>3. Threaded /\ [Next]_vars
        => Threaded' /\ [Office!Promise!Next]_(Office!Promise!vars)
  BY <1>2, QueuesStep
<1>4. ImplementsQueues <=> /\ Office!Promise!Init
                           /\ [][Office!Promise!Next]_(Office!Promise!vars)
  BY DEF ImplementsQueues, Office!ImplementsQueues, Office!Promise!Spec
<1> QED
  BY <1>1, <1>3, <1>4, PTL DEF Spec

=============================================================================
