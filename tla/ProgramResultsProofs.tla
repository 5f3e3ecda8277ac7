------------------------ MODULE ProgramResultsProofs ------------------------
(***************************************************************************)
(* Two programs give the right results.                                    *)
(*                                                                         *)
(* An evaluation of gates is right, for any gates and any connections,     *)
(* missing inputs and cycles included.  What the gates mean does not       *)
(* change any more after as many levels as there are gates (Stable).  The  *)
(* search keeps that evaluated gates carry what they mean, and that        *)
(* visited gates without a result are on the path of the search or, once   *)
(* it was cancelled, wait for one another, so that none of them means      *)
(* anything (WaitingUndefined).  Every visited gate can be reached through *)
(* visited gates from one that was asked for, so clean comes to all of     *)
(* them.                                                                   *)
(*                                                                         *)
(* The search with an explicit stack finds a greatest pair of multisets.   *)
(* Each frame of the stack stands for the pairs it is on the way to        *)
(* (Ahead); whatever pair weighs more than the one recorded is ahead of    *)
(* some frame (CompleteFor), because from a frame that lacks elements of   *)
(* a pair the loop finds one of them (OnwardFrame).  No pair weighs more   *)
(* than D * (D - 1) (PairBounded), so the pairs among which the greatest   *)
(* is looked for are all of them.                                          *)
(***************************************************************************)
EXTENDS ProgramsProofs

-----------------------------------------------------------------------------
(* Loops over sequences                                                    *)

\* f[U] is what a loop over n places makes of b at the places U, ascending.
Table(f, n, X, b, op) ==
  /\ f \in [SUBSET (1 .. n) -> X] /\ f[{}] = b
  /\ \A U \in SUBSET (1 .. n) : U # {} =>
       /\ Gates!Max(U) \in 1 .. n /\ f[U \ {Gates!Max(U)}] \in X
       /\ f[U] = op[<<Gates!Max(U), f[U \ {Gates!Max(U)}]>>]

LEMMA Tabled ==
  ASSUME NEW n \in Nat, NEW X, NEW b \in X, NEW op \in [(1 .. n) \X X -> X]
  PROVE  \E f : Table(f, n, X, b, op)
<1> DEFINE S == 1 .. n
           pick == [U \in SUBSET S |-> Gates!Max(U)]
<1>1. IsFiniteSet(S)
  BY FS_Interval
<1>2. \A U \in SUBSET S :
        U # {} => Gates!Max(U) \in U /\ pick[U] = Gates!Max(U)
  BY Extremes
<1>3. Picks(pick, S)
  BY <1>2 DEF Picks
<1> HIDE DEF pick, S
<1>4. PICK f : Folds(f, op, b, pick, S) /\ \A U \in SUBSET S : f[U] \in X
  BY <1>1, <1>3, TypedFold DEF S
<1>5. f \in [SUBSET S -> X] /\ f[{}] = b
  <2>1. f = [U \in SUBSET S |-> f[U]]
    BY <1>4 DEF Folds
  <2> QED
    BY <1>4, <2>1, FoldEmpty
<1>6. ASSUME NEW U \in SUBSET S, U # {}
      PROVE  /\ Gates!Max(U) \in S /\ f[U \ {Gates!Max(U)}] \in X
             /\ f[U] = op[<<Gates!Max(U), f[U \ {Gates!Max(U)}]>>]
  <2>1. f[U] = op[<<pick[U], f[U \ {pick[U]}]>>]
    BY <1>4, <1>6, FoldAt
  <2> QED
    BY <1>2, <1>4, <1>6, <2>1
<1> QED
  BY <1>5, <1>6 DEF S, Table

\* The places up to the i-th.
LEMMA Upward ==
  ASSUME NEW n \in Nat
  PROVE  /\ 1 .. 0 = {}
         /\ \A i \in 1 .. n :
              /\ 1 .. i \in SUBSET (1 .. n) /\ 1 .. i # {}
              /\ Gates!Max(1 .. i) = i /\ (1 .. i) \ {i} = 1 .. i - 1
<1> SUFFICES ASSUME NEW i \in 1 .. n
             PROVE  /\ 1 .. i \in SUBSET (1 .. n) /\ 1 .. i # {}
                    /\ Gates!Max(1 .. i) = i /\ (1 .. i) \ {i} = 1 .. i - 1
  OBVIOUS
<1>1. 1 .. i \in SUBSET (1 .. n) /\ i \in 1 .. i
  OBVIOUS
<1>2. Gates!Max(1 .. i) \in 1 .. i /\ Gates!Max(1 .. i) >= i
  BY <1>1, Extremes
<1> QED
  BY <1>1, <1>2

\* What holds of 0, and of a number if of the one before, holds up to n.
LEMMA Ascending ==
  ASSUME NEW n \in Nat, NEW S, 0 \in S,
         \A i \in 1 .. n : i - 1 \in S => i \in S
  PROVE  0 .. n \subseteq S
<1> DEFINE B == (0 .. n) \ S
<1> SUFFICES ASSUME NEW k \in B PROVE FALSE
  OBVIOUS
<1>1. PICK i \in B : \A j \in B : i <= j
  <2>1. B \in SUBSET Nat
    OBVIOUS
  <2> HIDE DEF B
  <2> QED
    BY <2>1, LeastNat
<1>2. i \in 1 .. n /\ i - 1 \in 0 .. n /\ ~(i <= i - 1)
  OBVIOUS
<1>3. i - 1 \in S
  BY <1>1, <1>2
<1> QED
  BY <1>1, <1>2, <1>3

\* t[i] is what the first i rounds of a loop make of b.
Rounds(t, n, X, b, op) ==
  /\ t \in [0 .. n -> X] /\ t[0] = b
  /\ \A i \in 1 .. n : t[i - 1] \in X /\ t[i] = op[<<i, t[i - 1]>>]

\* h is a table of the sets of places, as FoldLeft fills it.
Filled(h, n, X, b, op) ==
  /\ b \in X /\ (\A i \in 1 .. n, x \in X : op[<<i, x>>] \in X) /\ h[{}] = b
  /\ \A U \in SUBSET (1 .. n) : U # {} /\ h[U \ {Gates!Max(U)}] \in X =>
       h[U] = op[<<Gates!Max(U), h[U \ {Gates!Max(U)}]>>]

LEMMA Unrolled ==
  ASSUME NEW n \in Nat, NEW X, NEW b, NEW op, NEW h, Filled(h, n, X, b, op)
  PROVE  \E t : Rounds(t, n, X, b, op) /\ h[1 .. n] = t[n]
<1> DEFINE T == {i \in 0 .. n : h[1 .. i] \in X}
           t == [i \in 0 .. n |-> h[1 .. i]]
<1>1. ASSUME NEW i \in 1 .. n, h[1 .. i - 1] \in X
      PROVE  h[1 .. i] = op[<<i, h[1 .. i - 1]>>] /\ h[1 .. i] \in X
  <2>1. /\ 1 .. i \in SUBSET (1 .. n) /\ 1 .. i # {}
        /\ Gates!Max(1 .. i) = i /\ (1 .. i) \ {i} = 1 .. i - 1
    BY Upward
  <2>2. h[1 .. i] = op[<<i, h[1 .. i - 1]>>]
    BY <1>1, <2>1 DEF Filled
  <2> QED
    BY <1>1, <2>2 DEF Filled
<1>2. 0 .. n \subseteq T
  <2>1. h[1 .. 0] = b /\ 0 \in 0 .. n
    BY Upward DEF Filled
  <2>2. ASSUME NEW i \in 1 .. n, i - 1 \in T PROVE i \in T
    <3>1. h[1 .. i - 1] \in X /\ i \in 0 .. n
      BY <2>2
    <3> QED
      BY <1>1, <3>1
  <2>3. 0 \in T
    BY <2>1 DEF Filled
  <2> HIDE DEF T
  <2> QED
    BY <2>2, <2>3, Ascending
<1>3. \A i \in 1 .. n : i \in 0 .. n /\ i - 1 \in 0 .. n
  OBVIOUS
<1>4. \A i \in 0 .. n : t[i] = h[1 .. i] /\ t[i] \in X
  BY <1>2
<1>5. t \in [0 .. n -> X]
  BY <1>2
<1>6. t[0] = b /\ t[n] = h[1 .. n]
  BY Upward DEF Filled
<1> HIDE DEF t
<1>7. \A i \in 1 .. n : t[i - 1] \in X /\ t[i] = op[<<i, t[i - 1]>>]
  BY <1>1, <1>3, <1>4
<1> QED
  BY <1>5, <1>6, <1>7 DEF Rounds

-----------------------------------------------------------------------------
(* The search of an evaluation                                             *)

Alive == Gates!Alive
Marks == Gates!FieldsOf

\* The gates are in memory, their inputs are connected to gates.
Connected ==
  /\ IsFiniteSet(Gate) /\ Alive \subseteq Gate /\ signal \in BOOLEAN
  /\ input_signals \in Ins

\* A recursive call takes marks to marks.
Searches == [Marks \X Alive -> Marks]

LEMMA MarksAre ==
  ASSUME NEW m \in Marks
  PROVE  /\ m.visited \in SUBSET Gate /\ m.evaluated \in SUBSET Gate
         /\ m.value \in [Gate -> BOOLEAN] /\ m.path \in [Gate -> Int]
BY DEF Marks, Gates!FieldsOf

\* n differs from m at g only, where it has value v and path p.
Differs(m, n, g, v, p) ==
  /\ n \in Marks /\ n.value[g] = v /\ n.path[g] = p
  /\ \A x \in Gate : x # g => n.value[x] = m.value[x] /\ n.path[x] = m.path[x]

LEMMA DiffersIs ==
  ASSUME NEW m \in Marks, NEW g \in Gate, NEW n \in Marks, NEW v, NEW p,
         n.value = [m.value EXCEPT ![g] = v], n.path = [m.path EXCEPT ![g] = p]
  PROVE  Differs(m, n, g, v, p)
BY MarksAre DEF Differs

\* The fields after each of the operations of a search.
LEMMA Entered ==
  ASSUME NEW m \in Marks, NEW g \in Gate
  PROVE  LET n == Gates!Enter(m, g)
         IN /\ Differs(m, n, g, FALSE, 0) /\ n.evaluated = m.evaluated
            /\ n.visited = m.visited \cup {g}
<1> DEFINE V == m.visited \cup {g}
           f == [m.value EXCEPT ![g] = FALSE]
           q == [m.path EXCEPT ![g] = 0]
           n == Gates!Enter(m, g)
<1>1. n = [m EXCEPT !.visited = V, !.value = f, !.path = q]
  BY Zenon DEF Gates!Enter
<1>2. V \in SUBSET Gate /\ f \in [Gate -> BOOLEAN] /\ q \in [Gate -> Int]
  BY MarksAre
<1> HIDE DEF V, f, q, n
<1>3. /\ n \in Marks /\ n.visited = V /\ n.evaluated = m.evaluated
      /\ n.value = f /\ n.path = q
  BY <1>1, <1>2 DEF Marks, Gates!FieldsOf
<1>4. Differs(m, n, g, FALSE, 0)
  BY <1>3, DiffersIs DEF f, q
<1> QED
  BY <1>3, <1>4 DEF n, V

LEMMA CancelIs ==
  ASSUME NEW m \in Marks, NEW g \in Gate
  PROVE  LET n == Gates!cancel_dfs(m, g)
         IN /\ Differs(m, n, g, m.value[g], -1)
            /\ n.visited = m.visited /\ n.evaluated = m.evaluated
<1> DEFINE q == [m.path EXCEPT ![g] = -1]
           n == Gates!cancel_dfs(m, g)
<1>1. n = [m EXCEPT !.path = q]
  BY Zenon DEF Gates!cancel_dfs
<1>2. q \in [Gate -> Int]
  BY MarksAre
<1>3. /\ n \in Marks /\ n.visited = m.visited /\ n.value = m.value
      /\ n.evaluated = m.evaluated /\ n.path = q
  BY <1>1, <1>2 DEF Marks, Gates!FieldsOf
<1>4. n.value = [m.value EXCEPT ![g] = m.value[g]]
  BY <1>3, MarksAre
<1> QED
  BY <1>3, <1>4, DiffersIs

LEMMA ReceivedIs ==
  ASSUME NEW m \in Marks, NEW g \in Gate, NEW v \in BOOLEAN, NEW p \in Int
  PROVE  LET n == Gates!Join(m, g, v, p)
         IN /\ Differs(m, n, g, m.value[g] \/ ~v,
                       IF p + 1 > m.path[g] THEN p + 1 ELSE m.path[g])
            /\ n.visited = m.visited /\ n.evaluated = m.evaluated
<1> DEFINE w == m.value[g] \/ ~v
           r == IF p + 1 > m.path[g] THEN p + 1 ELSE m.path[g]
           f == [m.value EXCEPT ![g] = w]
           q == [m.path EXCEPT ![g] = r]
           n == Gates!Join(m, g, v, p)
<1>1. n = [m EXCEPT !.value = f, !.path = q]
  BY Zenon DEF Gates!Join
<1>2. f \in [Gate -> BOOLEAN] /\ q \in [Gate -> Int]
  BY MarksAre
<1> HIDE DEF f, q
<1>3. /\ n \in Marks /\ n.visited = m.visited /\ n.value = f
      /\ n.evaluated = m.evaluated /\ n.path = q
  BY <1>1, <1>2 DEF Marks, Gates!FieldsOf
<1> HIDE DEF n, w, r
<1>4. Differs(m, n, g, w, r)
  BY <1>3, DiffersIs DEF f, q
<1> QED
  BY <1>3, <1>4 DEF n, w, r

LEMMA RoundTyped ==
  ASSUME Connected, NEW E \in Searches, NEW n \in Marks, NEW g \in Alive,
         NEW sig \in Signals
  PROVE  Gates!handle(n, g, sig, E) \in Marks
<1>1. g \in Gate
  BY DEF Connected
<1>2. ASSUME NEW m \in Marks
      PROVE  Gates!cancel_dfs(m, g) \in Marks
  BY <1>1, CancelIs DEF Differs
<1>3. ASSUME NEW m \in Marks, NEW v \in BOOLEAN, NEW p \in Int
      PROVE  Gates!Join(m, g, v, p) \in Marks
  BY <1>1, ReceivedIs DEF Differs
<1>4. CASE sig.type = "g"
  <2> DEFINE h == sig.object
             o == IF h \in n.visited THEN n ELSE E[<<n, h>>]
  <2>1. h \in Alive /\ h \in Gate
    BY <1>4, SignalKinds DEF Connected, Alive
  <2>2. o \in Marks
    BY <2>1 DEF Searches
  <2>3. o.value[h] \in BOOLEAN /\ o.path[h] \in Int
    BY <2>1, <2>2, MarksAre
  <2> HIDE DEF o
  <2>4. Gates!handle_gate(n, g, h, E) \in Marks
    BY <1>2, <1>3, <2>2, <2>3 DEF Gates!handle_gate, o
  <2> QED
    BY <1>4, <1>2, <2>4 DEF Gates!handle
<1>5. CASE sig = Gates!Null
  BY <1>5, <1>2 DEF Gates!handle, Gates!Null
<1>6. CASE sig = Gates!Signal
  BY <1>6, <1>3 DEF Gates!handle, Gates!Signal, Connected
<1> QED
  BY <1>4, <1>5, <1>6, SignalKinds

EvaluateTable(h, m, g, s, E) ==
  h = [U \in SUBSET DOMAIN s |->
         IF U = {} THEN m
         ELSE Gates!handle(h[U \ {Gates!Max(U)}], g, s[Gates!Max(U)], E)]

\* The loop of evaluate, round by round.
LEMMA RoundsAre ==
  ASSUME Connected, NEW E \in Searches, NEW m \in Marks, NEW g \in Alive,
         NEW n, n = Len(input_signals[g])
  PROVE  \E t : /\ t[0] = m /\ Gates!Rounds(m, g, E) = t[n]
                /\ \A i \in 0 .. n : t[i] \in Marks
                /\ \A i \in 1 .. n :
                     t[i] = Gates!handle(t[i - 1], g, input_signals[g][i], E)
<1> DEFINE s == input_signals[g]
           op == [x \in (1 .. n) \X Marks |->
                    Gates!handle(x[2], g, s[x[1]], E)]
           h == CHOOSE l : EvaluateTable(l, m, g, s, E)
<1>1. DOMAIN s = 1 .. n /\ n \in Nat /\ \A i \in 1 .. n : s[i] \in Signals
  BY DEF Connected, Ins, Alive
<1>2. Gates!Rounds(m, g, E) = h[1 .. n]
  BY <1>1 DEF Gates!Rounds, Gates!FoldLeft, Gates!MapThenFoldSet,
              EvaluateTable
<1> HIDE DEF s
<1>3. op \in [(1 .. n) \X Marks -> Marks]
  BY <1>1, RoundTyped
<1>4. PICK f : Table(f, n, Marks, m, op)
  <2> HIDE DEF op
  <2> QED
    BY <1>1, <1>3, Tabled
<1>5. EvaluateTable(f, m, g, s, E)
  <2> DEFINE e(U) == IF U = {} THEN m
                     ELSE Gates!handle(f[U \ {Gates!Max(U)}], g,
                                       s[Gates!Max(U)], E)
  <2>1. \A U \in SUBSET (1 .. n) : f[U] = e(U)
    BY <1>4 DEF Table
  <2>2. f = [U \in SUBSET (1 .. n) |-> f[U]]
    BY <1>4 DEF Table
  <2> HIDE DEF e
  <2>3. f = [U \in SUBSET (1 .. n) |-> e(U)]
    BY <2>1, <2>2
  <2> QED
    BY <1>1, <2>3 DEF EvaluateTable, e
<1>6. EvaluateTable(h, m, g, s, E)
  BY <1>5
<1> HIDE DEF h
<1>7. Filled(h, n, Marks, m, op)
  BY <1>1, <1>3, <1>6, Extremes DEF EvaluateTable, Filled
<1>8. \A i \in 1 .. n, o \in Marks :
        op[<<i, o>>] = Gates!handle(o, g, s[i], E)
  OBVIOUS
<1> HIDE DEF op
<1>9. PICK t : Rounds(t, n, Marks, m, op) /\ h[1 .. n] = t[n]
  BY <1>1, <1>7, Unrolled
<1>10. t[0] = m /\ \A i \in 0 .. n : t[i] \in Marks
  BY <1>9 DEF Rounds
<1>11. \A i \in 1 .. n : t[i] = Gates!handle(t[i - 1], g, s[i], E)
  BY <1>8, <1>9 DEF Rounds
<1> QED
  BY <1>2, <1>9, <1>10, <1>11 DEF s

\* A set with 0, and with a number's successor if with the number.
LEMMA Counting ==
  ASSUME NEW S, 0 \in S, \A d \in Nat : d \in S => d + 1 \in S
  PROVE  Nat \subseteq S
<1> SUFFICES ASSUME NEW n \in Nat PROVE n \in S
  OBVIOUS
<1>1. ASSUME NEW i \in 1 .. n, i - 1 \in S PROVE i \in S
  <2>1. i - 1 \in Nat /\ (i - 1) + 1 = i
    OBVIOUS
  <2> QED
    BY <1>1, <2>1
<1>2. 0 .. n \subseteq S
  BY <1>1, Ascending
<1> QED
  BY <1>2

LEMMA Inductively ==
  ASSUME NEW h, NEW X, h[0] \in X, \A d \in Nat : h[d] \in X => h[d + 1] \in X
  PROVE  \A d \in Nat : h[d] \in X
<1> DEFINE S == {d \in Nat : h[d] \in X}
<1>1. 0 \in S /\ \A d \in Nat : d \in S => d + 1 \in S
  OBVIOUS
<1> HIDE DEF S
<1>2. Nat \subseteq S
  BY <1>1, Counting
<1> QED
  BY <1>2 DEF S

\* A recursion over the numbers has a function.
Levels(h, b, step) ==
  h = [d \in Nat |-> IF d = 0 THEN b ELSE step[h[d - 1]]]

LEMMA LevelsExist ==
  ASSUME NEW X, NEW b \in X, NEW step \in [X -> X]
  PROVE  \E h \in [Nat -> X] : Levels(h, b, step)
<1>1. PICK h : Repeats(h, X, b, step)
  BY Recursion
<1>2. h \in [Nat -> X]
  BY <1>1 DEF Repeats
<1>3. ASSUME NEW d \in Nat
      PROVE  h[d] = IF d = 0 THEN b ELSE step[h[d - 1]]
  <2>1. CASE d # 0
    <3>1. d - 1 \in Nat /\ (d - 1) + 1 = d
      BY <2>1
    <3> QED
      BY <1>1, <2>1, <3>1 DEF Repeats
  <2> QED
    BY <1>1, <2>1 DEF Repeats
<1> QED
  BY <1>2, <1>3 DEF Levels

EvaluateLevels(h) ==
  h = [d \in Nat |-> IF d = 0 THEN Gates!Untouched
                     ELSE Gates!evaluate_once(h[d - 1])]

\* The recursion of evaluate, level by level.
LEMMA EvaluateIs ==
  ASSUME Connected
  PROVE  \A d \in Nat :
           /\ Gates!evaluate[d] \in Searches
           /\ Gates!evaluate[d + 1] = Gates!evaluate_once(Gates!evaluate[d])
<1> DEFINE step == [E \in Searches |-> Gates!evaluate_once(E)]
           b == Gates!Untouched
<1>1. b \in Searches
  BY DEF Gates!Untouched, Searches, Marks, Alive
<1>2. ASSUME NEW E \in Searches
      PROVE  Gates!evaluate_once(E) \in Searches
  <2> SUFFICES ASSUME NEW w \in Marks \X Alive
               PROVE  Gates!Finish(Gates!Rounds(Gates!Enter(w[1], w[2]), w[2],
                                                E), w[2]) \in Marks
    BY DEF Gates!evaluate_once, Searches, Marks, Alive
  <2> DEFINE u == w[1]
             g == w[2]
             m == Gates!Enter(u, g)
             n == Gates!Rounds(m, g, E)
  <2>1. u \in Marks /\ g \in Alive /\ g \in Gate
    BY DEF Connected
  <2> HIDE DEF u, g
  <2>2. m \in Marks
    BY <2>1, Entered DEF Differs
  <2> HIDE DEF m
  <2>3. n \in Marks
    <3>1. PICK t : /\ n = t[Len(input_signals[g])]
                   /\ \A i \in 0 .. Len(input_signals[g]) : t[i] \in Marks
      BY <2>1, <2>2, RoundsAre
    <3>2. Len(input_signals[g]) \in Nat
      BY <2>1 DEF Connected, Ins, Alive
    <3> QED
      BY <3>1, <3>2
  <2> HIDE DEF n
  <2>4. Gates!Finish(n, g) \in Marks
    BY <2>1, <2>3 DEF Gates!Finish, Marks, Gates!FieldsOf
  <2> QED
    BY <2>4 DEF n, m, u, g
<1>3. step \in [Searches -> Searches]
  BY <1>2
<1> HIDE DEF b, step
<1>4. PICK f \in [Nat -> Searches] : Levels(f, b, step)
  BY <1>1, <1>3, LevelsExist
<1>5. EvaluateLevels(f)
  <2>1. ASSUME NEW d \in Nat, d # 0
        PROVE  step[f[d - 1]] = Gates!evaluate_once(f[d - 1])
    <3>1. f[d - 1] \in Searches
      BY <2>1
    <3> QED
      BY <3>1 DEF step
  <2> QED
    BY <1>4, <2>1 DEF Levels, EvaluateLevels, b
<1> DEFINE h == CHOOSE l : EvaluateLevels(l)
<1>6. EvaluateLevels(h)
  BY <1>5
<1>7. Gates!evaluate = h
  BY DEF Gates!evaluate, EvaluateLevels
<1> HIDE DEF h
<1>8. h[0] \in Searches /\ \A d \in Nat : h[d + 1] = Gates!evaluate_once(h[d])
  BY <1>1, <1>6 DEF EvaluateLevels, b
<1>9. \A d \in Nat : h[d] \in Searches
  BY <1>2, <1>8, Inductively
<1> QED
  BY <1>7, <1>8, <1>9

\* What one round of the loop of clean makes of n.
Cleaned(n, sig, E) ==
  IF sig.type = "g" /\ sig.object \in n.visited
  THEN E[<<n, sig.object>>] ELSE n

WipeTable(h, m, s, E) ==
  h = [U \in SUBSET DOMAIN s |->
         IF U = {} THEN m
         ELSE Cleaned(h[U \ {Gates!Max(U)}], s[Gates!Max(U)], E)]

\* The loop of clean, round by round.
LEMMA WipesAre ==
  ASSUME NEW E \in Searches, NEW m \in Marks, NEW s \in Seq(Signals),
         NEW n, n = Len(s)
  PROVE  \E t : /\ t[0] = m /\ Gates!Wipe(m, s, E) = t[n]
                /\ \A i \in 0 .. n : t[i] \in Marks
                /\ \A i \in 1 .. n : t[i] = Cleaned(t[i - 1], s[i], E)
<1> DEFINE op == [x \in (1 .. n) \X Marks |-> Cleaned(x[2], s[x[1]], E)]
           h == CHOOSE l : WipeTable(l, m, s, E)
<1>1. DOMAIN s = 1 .. n /\ n \in Nat /\ \A i \in 1 .. n : s[i] \in Signals
  OBVIOUS
<1>2. Gates!Wipe(m, s, E) = h[1 .. n]
  BY <1>1 DEF Gates!Wipe, Gates!FoldLeft, Gates!MapThenFoldSet, WipeTable,
              Cleaned
<1>3. op \in [(1 .. n) \X Marks -> Marks]
  BY <1>1, SignalKinds DEF Cleaned, Searches, Alive
<1>4. PICK f : Table(f, n, Marks, m, op)
  <2> HIDE DEF op
  <2> QED
    BY <1>1, <1>3, Tabled
<1>5. WipeTable(f, m, s, E)
  <2> DEFINE e(U) == IF U = {} THEN m
                     ELSE Cleaned(f[U \ {Gates!Max(U)}], s[Gates!Max(U)], E)
  <2>1. \A U \in SUBSET (1 .. n) : f[U] = e(U)
    BY <1>4 DEF Table
  <2>2. f = [U \in SUBSET (1 .. n) |-> f[U]]
    BY <1>4 DEF Table
  <2> HIDE DEF e
  <2>3. f = [U \in SUBSET (1 .. n) |-> e(U)]
    BY <2>1, <2>2
  <2> QED
    BY <1>1, <2>3 DEF WipeTable, e
<1>6. WipeTable(h, m, s, E)
  BY <1>5
<1> HIDE DEF h
<1>7. Filled(h, n, Marks, m, op)
  BY <1>1, <1>3, <1>6, Extremes DEF WipeTable, Filled
<1>8. \A i \in 1 .. n, o \in Marks : op[<<i, o>>] = Cleaned(o, s[i], E)
  OBVIOUS
<1> HIDE DEF op
<1>9. PICK t : Rounds(t, n, Marks, m, op) /\ h[1 .. n] = t[n]
  BY <1>1, <1>7, Unrolled
<1>10. t[0] = m /\ \A i \in 0 .. n : t[i] \in Marks
  BY <1>9 DEF Rounds
<1>11. \A i \in 1 .. n : t[i] = Cleaned(t[i - 1], s[i], E)
  BY <1>8, <1>9 DEF Rounds
<1> QED
  BY <1>2, <1>9, <1>10, <1>11

CleanLevels(h) ==
  h = [d \in Nat |-> IF d = 0 THEN Gates!Untouched
                     ELSE Gates!clean_once(h[d - 1])]

LEMMA Unmarked ==
  ASSUME NEW m \in Marks, NEW g
  PROVE  LET n == Gates!unmark(m, g)
         IN /\ n \in Marks /\ n.visited = m.visited \ {g}
            /\ n.evaluated = m.evaluated \ {g}
BY DEF Gates!unmark, Marks, Gates!FieldsOf

\* The recursion of clean, level by level.
LEMMA CleanIs ==
  ASSUME Connected
  PROVE  \A d \in Nat :
           /\ Gates!clean[d] \in Searches
           /\ Gates!clean[d + 1] = Gates!clean_once(Gates!clean[d])
<1> DEFINE step == [E \in Searches |-> Gates!clean_once(E)]
           b == Gates!Untouched
<1>1. b \in Searches
  BY DEF Gates!Untouched, Searches, Marks, Alive
<1>2. ASSUME NEW E \in Searches
      PROVE  Gates!clean_once(E) \in Searches
  <2>1. ASSUME NEW m \in Marks, NEW g \in Alive
        PROVE  Gates!Wipe(Gates!unmark(m, g), input_signals[g], E) \in Marks
    <3>1. Gates!unmark(m, g) \in Marks
      BY Unmarked
    <3>2. input_signals[g] \in Seq(Signals)
      BY DEF Connected, Ins, Alive
    <3>3. Len(input_signals[g]) \in 0 .. Len(input_signals[g])
      BY <3>2
    <3> QED
      BY <3>1, <3>2, <3>3, WipesAre
  <2> QED
    BY <2>1 DEF Gates!clean_once, Searches, Marks, Alive
<1>3. step \in [Searches -> Searches]
  BY <1>2
<1> HIDE DEF b, step
<1>4. PICK f \in [Nat -> Searches] : Levels(f, b, step)
  BY <1>1, <1>3, LevelsExist
<1>5. CleanLevels(f)
  <2>1. ASSUME NEW d \in Nat, d # 0
        PROVE  step[f[d - 1]] = Gates!clean_once(f[d - 1])
    <3>1. f[d - 1] \in Searches
      BY <2>1
    <3> QED
      BY <3>1 DEF step
  <2> QED
    BY <1>4, <2>1 DEF Levels, CleanLevels, b
<1> DEFINE h == CHOOSE l : CleanLevels(l)
<1>6. CleanLevels(h)
  BY <1>5
<1>7. Gates!clean = h
  BY DEF Gates!clean, CleanLevels
<1> HIDE DEF h
<1>8. h[0] \in Searches /\ \A d \in Nat : h[d + 1] = Gates!clean_once(h[d])
  BY <1>1, <1>6 DEF CleanLevels, b
<1>9. \A d \in Nat : h[d] \in Searches
  BY <1>2, <1>8, Inductively
<1> QED
  BY <1>7, <1>8, <1>9

-----------------------------------------------------------------------------
(* What the gates mean                                                     *)

Results == {Gates!Undefined} \cup [value : BOOLEAN, path : Nat]
Meanings == [Alive -> Results]
Slots(g) == 1 .. Len(input_signals[g])
Gets(F, g, k) == Gates!Given(F, input_signals[g][k])

\* v and p are what the first i inputs of g make of value and path.
Summed(F, g, i, v, p) ==
  /\ v \in BOOLEAN /\ v = (\E k \in 1 .. i : ~Gets(F, g, k).value)
  /\ p \in Nat /\ (p = 0 \/ \E k \in 1 .. i : p = Gets(F, g, k).path + 1)
  /\ \A k \in 1 .. i : /\ Gets(F, g, k) # Gates!Undefined
                       /\ Gets(F, g, k).path \in Nat
                       /\ Gets(F, g, k).path + 1 <= p

LEMMA GatesLists ==
  ASSUME Connected, NEW g \in Alive
  PROVE  /\ g \in Gate /\ Len(input_signals[g]) \in Nat
         /\ input_signals[g] \in Seq(Signals)
         /\ DOMAIN input_signals[g] = Slots(g)
         /\ \A k \in Slots(g) : input_signals[g][k] \in Signals
BY DEF Connected, Ins, Alive, Slots

LEMMA GivenTyped ==
  ASSUME Connected, NEW F \in Meanings, NEW sig \in Signals
  PROVE  Gates!Given(F, sig) \in Results
<1>1. CASE sig.type = "g"
  BY <1>1, SignalKinds DEF Gates!Given, Meanings, Alive
<1>2. CASE sig = Gates!Null
  BY <1>2 DEF Gates!Given, Gates!Null, Results
<1>3. CASE sig = Gates!Signal
  BY <1>3 DEF Gates!Given, Gates!Signal, Results, Connected
<1> QED
  BY <1>1, <1>2, <1>3, SignalKinds

LEMMA Defined ==
  \A r \in Results : /\ r # Gates!Undefined <=> r.path # -1
                     /\ r # Gates!Undefined => r.path \in Nat
                     /\ r.value \in BOOLEAN /\ r.path \in Int
<1> SUFFICES ASSUME NEW r \in Results
             PROVE  /\ r # Gates!Undefined <=> r.path # -1
                    /\ r # Gates!Undefined => r.path \in Nat
                    /\ r.value \in BOOLEAN /\ r.path \in Int
  OBVIOUS
<1>1. CASE r = Gates!Undefined
  BY <1>1 DEF Gates!Undefined
<1>2. CASE r \in [value : BOOLEAN, path : Nat]
  <2>1. r.path \in Nat /\ r.value \in BOOLEAN
    BY <1>2
  <2>2. r.path # -1 /\ r.path \in Int /\ Gates!Undefined.path = -1
    BY <2>1 DEF Gates!Undefined
  <2> QED
    BY <2>1, <2>2
<1> QED
  BY <1>1, <1>2 DEF Results

\* One more input.
LEMMA SumStep ==
  ASSUME NEW F, NEW g, NEW i \in Nat, i >= 1, NEW v, NEW p,
         Summed(F, g, i - 1, v, p),
         NEW r, r = Gets(F, g, i), r \in Results, r # Gates!Undefined
  PROVE  Summed(F, g, i, v \/ ~r.value,
                IF r.path + 1 > p THEN r.path + 1 ELSE p)
<1> DEFINE w == v \/ ~r.value
           q == IF r.path + 1 > p THEN r.path + 1 ELSE p
<1>1. i \in 1 .. i /\ \A k \in 1 .. i : k = i \/ k \in 1 .. i - 1
  OBVIOUS
<1>2. \A k \in 1 .. i - 1 : k \in 1 .. i
  OBVIOUS
<1>3. r.path \in Nat /\ r.value \in BOOLEAN
  BY Defined
<1>4. w \in BOOLEAN /\ w = (\E k \in 1 .. i : ~Gets(F, g, k).value)
  BY <1>1, <1>2, <1>3 DEF Summed
<1>5. q \in Nat /\ p <= q /\ r.path + 1 <= q /\ (q = p \/ q = r.path + 1)
  BY <1>3 DEF Summed
<1> HIDE DEF q, w
<1>6. \A k \in 1 .. i : Gets(F, g, k).path + 1 <= q
  <2> SUFFICES ASSUME NEW k \in 1 .. i PROVE Gets(F, g, k).path + 1 <= q
    OBVIOUS
  <2>1. CASE k = i
    BY <1>5, <2>1
  <2>2. CASE k \in 1 .. i - 1
    <3>1. Gets(F, g, k).path + 1 <= p /\ Gets(F, g, k).path \in Nat
      BY <2>2 DEF Summed
    <3> QED
      BY <1>5, <3>1 DEF Summed
  <2> QED
    BY <1>1, <2>1, <2>2
<1>7. q = 0 \/ \E k \in 1 .. i : q = Gets(F, g, k).path + 1
  BY <1>1, <1>2, <1>5 DEF Summed
<1>8. \A k \in 1 .. i :
        Gets(F, g, k) # Gates!Undefined /\ Gets(F, g, k).path \in Nat
  BY <1>1, <1>3 DEF Summed
<1> QED
  BY <1>4, <1>5, <1>6, <1>7, <1>8 DEF Summed, w, q

LEMMA SumOfNone == \A F, g : Summed(F, g, 0, FALSE, 0)
BY DEF Summed

LEMMA MaxIs ==
  ASSUME NEW S \in SUBSET Int, NEW x \in S, \A y \in S : y <= x
  PROVE  Gates!Max(S) = x
<1>1. Gates!Max(S) \in S /\ \A y \in S : y <= Gates!Max(S)
  BY DEF Gates!Max
<1>2. Gates!Max(S) <= x /\ x <= Gates!Max(S) /\ Gates!Max(S) \in Int
  BY <1>1
<1> QED
  BY <1>2

InputsGiven(F, g) ==
  {Gates!Given(F, sig) : sig \in Gates!ToSet(input_signals[g])}

LEMMA InputsAre ==
  ASSUME Connected, NEW F, NEW g \in Alive
  PROVE  /\ \A k \in Slots(g) : Gets(F, g, k) \in InputsGiven(F, g)
         /\ \A r \in InputsGiven(F, g) : \E k \in Slots(g) : r = Gets(F, g, k)
         /\ Gates!Means(F)[g] = Gates!Combined(InputsGiven(F, g))
BY GatesLists
   DEF InputsGiven, Gates!ToSet, Gets, Gates!Means, Alive

\* A gate means what its inputs sum up to.
LEMMA SumIs ==
  ASSUME Connected, NEW F \in Meanings, NEW g \in Alive, NEW v, NEW p,
         Summed(F, g, Len(input_signals[g]), v, p)
  PROVE  Gates!Means(F)[g] = [value |-> v, path |-> p]
<1> DEFINE In == InputsGiven(F, g)
           S == {0} \cup {in.path + 1 : in \in In}
<1>1. \A r \in In : /\ r \in Results /\ r # Gates!Undefined
                    /\ \E k \in Slots(g) : r = Gets(F, g, k)
  BY InputsAre, GatesLists, GivenTyped DEF Summed, Slots, Gets
<1>2. v = \E in \in In : ~in.value
  BY InputsAre, <1>1 DEF Summed, Slots
<1>3. Gates!Max(S) = p
  <2>1. S \in SUBSET Int
    BY <1>1, Defined
  <2>2. p \in S
    BY InputsAre DEF Summed, Slots
  <2>3. \A y \in S : y <= p
    BY <1>1 DEF Summed, Slots
  <2> HIDE DEF S
  <2> QED
    BY <2>1, <2>2, <2>3, MaxIs
<1>4. Gates!Combined(In) = [value |-> \E in \in In : ~in.value,
                            path |-> Gates!Max(S)]
  BY <1>1 DEF Gates!Combined
<1> HIDE DEF In, S
<1> QED
  BY <1>2, <1>3, <1>4, InputsAre DEF In

LEMMA UndefinedInput ==
  ASSUME Connected, NEW F, NEW g \in Alive, NEW k \in Slots(g),
         Gets(F, g, k) = Gates!Undefined
  PROVE  Gates!Means(F)[g] = Gates!Undefined
BY InputsAre DEF Gates!Combined

LEMMA SumExists ==
  ASSUME Connected, NEW F \in Meanings, NEW g \in Alive,
         \A k \in Slots(g) : Gets(F, g, k) # Gates!Undefined
  PROVE  \E v, p : Summed(F, g, Len(input_signals[g]), v, p)
<1> DEFINE n == Len(input_signals[g])
           S == {i \in 0 .. n : \E v, p : Summed(F, g, i, v, p)}
<1>1. n \in Nat
  BY GatesLists
<1>2. 0 \in S
  <2>1. Summed(F, g, 0, FALSE, 0)
    BY SumOfNone, Zenon
  <2>2. 0 \in 0 .. n
    BY <1>1
  <2> QED
    BY <2>1, <2>2
<1>3. ASSUME NEW i \in 1 .. n, i - 1 \in S PROVE i \in S
  <2>1. PICK v, p : Summed(F, g, i - 1, v, p)
    BY <1>3
  <2>2. Gets(F, g, i) \in Results /\ Gets(F, g, i) # Gates!Undefined
    BY GatesLists, GivenTyped DEF Gets, Slots
  <2>3. i \in Nat /\ i >= 1 /\ i \in 0 .. n
    BY <1>1
  <2>4. \E w, q : Summed(F, g, i, w, q)
    <3> DEFINE r == Gets(F, g, i)
               w == v \/ ~r.value
               q == IF r.path + 1 > p THEN r.path + 1 ELSE p
    <3>1. Summed(F, g, i, w, q)
      BY <2>1, <2>2, <2>3, SumStep
    <3> HIDE DEF w, q
    <3> QED
      BY <3>1
  <2> QED
    BY <2>3, <2>4
<1> HIDE DEF S
<1>4. 0 .. n \subseteq S
  BY <1>1, <1>2, <1>3, Ascending
<1> QED
  BY <1>1, <1>4 DEF S

\* Means takes meanings to meanings, and what it makes defined has no
\* undefined input.
LEMMA MeansTyped ==
  ASSUME Connected, NEW F \in Meanings
  PROVE  /\ Gates!Means(F) \in Meanings
         /\ \A g \in Alive : Gates!Means(F)[g] # Gates!Undefined =>
              \A k \in Slots(g) : Gets(F, g, k) # Gates!Undefined
<1>1. ASSUME NEW g \in Alive
      PROVE  Gates!Means(F)[g] \in Results
  <2>1. CASE \E k \in Slots(g) : Gets(F, g, k) = Gates!Undefined
    BY <2>1, UndefinedInput DEF Results
  <2>2. CASE \A k \in Slots(g) : Gets(F, g, k) # Gates!Undefined
    <3>1. PICK v, p : Summed(F, g, Len(input_signals[g]), v, p)
      BY <2>2, SumExists
    <3>2. Gates!Means(F)[g] = [value |-> v, path |-> p]
      BY <3>1, SumIs
    <3>3. v \in BOOLEAN /\ p \in Nat
      BY <3>1 DEF Summed
    <3> QED
      BY <3>2, <3>3 DEF Results
  <2> QED
    BY <2>1, <2>2
<1>2. Gates!Means(F) \in Meanings
  BY <1>1 DEF Gates!Means, Meanings, Alive
<1> QED
  BY <1>2, UndefinedInput

MeantLevels(h) ==
  h = [d \in Nat |-> IF d = 0 THEN [g \in Gates!Alive |-> Gates!Undefined]
                     ELSE Gates!Means(h[d - 1])]

\* The recursion of Meant, level by level.
LEMMA MeantIs ==
  ASSUME Connected
  PROVE  /\ Gates!Meant[0] = [g \in Alive |-> Gates!Undefined]
         /\ \A d \in Nat : /\ Gates!Meant[d] \in Meanings
                           /\ Gates!Meant[d + 1] = Gates!Means(Gates!Meant[d])
<1> DEFINE step == [F \in Meanings |-> Gates!Means(F)]
           b == [g \in Gates!Alive |-> Gates!Undefined]
<1>1. b \in Meanings
  BY DEF Meanings, Results, Alive
<1>2. step \in [Meanings -> Meanings]
  BY MeansTyped
<1> HIDE DEF b, step
<1>3. PICK f \in [Nat -> Meanings] : Levels(f, b, step)
  BY <1>1, <1>2, LevelsExist
<1>4. MeantLevels(f)
  <2>1. ASSUME NEW d \in Nat, d # 0
        PROVE  step[f[d - 1]] = Gates!Means(f[d - 1])
    <3>1. f[d - 1] \in Meanings
      BY <2>1
    <3> QED
      BY <3>1 DEF step
  <2> QED
    BY <1>3, <2>1 DEF Levels, MeantLevels, b
<1> DEFINE h == CHOOSE l : MeantLevels(l)
<1>5. MeantLevels(h)
  BY <1>4
<1>6. Gates!Meant = h
  BY DEF Gates!Meant, MeantLevels
<1> HIDE DEF h
<1>7. h[0] = b /\ \A d \in Nat : h[d + 1] = Gates!Means(h[d])
  BY <1>5 DEF MeantLevels, b
<1>8. \A d \in Nat : h[d] \in Meanings
  BY <1>1, <1>7, MeansTyped, Inductively
<1> QED
  BY <1>6, <1>7, <1>8 DEF b, Alive

\* What F defines is the same in G.
Agrees(F, G) == \A g \in Alive : F[g] # Gates!Undefined => G[g] = F[g]

LEMMA MeansAgrees ==
  ASSUME Connected, NEW F \in Meanings, NEW G \in Meanings, Agrees(F, G)
  PROVE  Agrees(Gates!Means(F), Gates!Means(G))
<1> SUFFICES ASSUME NEW g \in Alive, Gates!Means(F)[g] # Gates!Undefined
             PROVE  Gates!Means(G)[g] = Gates!Means(F)[g]
  BY DEF Agrees
<1>1. \A k \in Slots(g) : Gets(G, g, k) = Gets(F, g, k)
  <2> SUFFICES ASSUME NEW k \in Slots(g)
               PROVE  Gets(G, g, k) = Gets(F, g, k)
    OBVIOUS
  <2>1. Gets(F, g, k) # Gates!Undefined
    BY MeansTyped
  <2>2. input_signals[g][k] \in Signals
    BY GatesLists
  <2>3. CASE input_signals[g][k].type = "g"
    BY <2>1, <2>2, <2>3, SignalKinds DEF Gets, Gates!Given, Agrees, Alive
  <2>4. CASE input_signals[g][k] = Gates!Null
    BY <2>4 DEF Gets, Gates!Given, Gates!Null
  <2>5. CASE input_signals[g][k] = Gates!Signal
    BY <2>5 DEF Gets, Gates!Given, Gates!Signal
  <2> QED
    BY <2>2, <2>3, <2>4, <2>5, SignalKinds
<1>2. InputsGiven(F, g) = InputsGiven(G, g)
  <2>1. \A r : r \in InputsGiven(F, g) => r \in InputsGiven(G, g)
    BY <1>1, InputsAre
  <2>2. \A r : r \in InputsGiven(G, g) => r \in InputsGiven(F, g)
    BY <1>1, InputsAre
  <2> QED
    BY <2>1, <2>2
<1> QED
  BY <1>2, InputsAre

\* Enough levels for the gates are enough for one more.
LEMMA Stable ==
  ASSUME Connected
  PROVE  /\ Gates!Meaning \in Meanings
         /\ Gates!Meaning = Gates!Means(Gates!Meaning)
<1> DEFINE M == Gates!Meant
           Known(d) == {g \in Alive : M[d][g] # Gates!Undefined}
           N == Cardinality(Gate)
           Done(d) == M[d + 1] = M[d] \/ Cardinality(Known(d)) >= d
<1>1. N \in Nat
  BY FS_CardinalityType DEF Connected
<1>2. \A d \in Nat : M[d] \in Meanings /\ M[d + 1] = Gates!Means(M[d])
  BY MeantIs
<1>3. \A d \in Nat : Agrees(M[d], M[d + 1])
  <2> DEFINE S == {d \in Nat : Agrees(M[d], M[d + 1])}
  <2>1. 0 \in S
    BY MeantIs DEF Agrees
  <2>2. \A d \in Nat : d \in S => d + 1 \in S
    BY <1>2, MeansAgrees
  <2> HIDE DEF S
  <2>3. Nat \subseteq S
    BY <2>1, <2>2, Counting
  <2> QED
    BY <2>3 DEF S
<1>4. \A d \in Nat : /\ Known(d) \subseteq Alive
                     /\ Known(d) \subseteq Known(d + 1)
  BY <1>3 DEF Agrees
<1>5. \A d \in Nat : IsFiniteSet(Known(d)) /\ Cardinality(Known(d)) \in Nat
  BY FS_Subset, FS_CardinalityType, <1>4 DEF Connected
<1>6. ASSUME NEW d \in Nat, Known(d + 1) = Known(d)
      PROVE  M[d + 1] = M[d]
  <2>1. M[d] \in Meanings /\ M[d + 1] \in Meanings
    BY <1>2
  <2>2. \A g \in Alive : M[d + 1][g] = M[d][g]
    BY <1>3, <1>6 DEF Agrees
  <2> QED
    BY <2>1, <2>2 DEF Meanings
<1>7. ASSUME NEW d \in Nat, M[d + 1] = M[d]
      PROVE  M[(d + 1) + 1] = M[d + 1]
  BY <1>2, <1>7
<1>8. \A d \in Nat : Done(d)
  <2>1. Done(0)
    BY <1>5
  <2>2. ASSUME NEW d \in Nat, Done(d) PROVE Done(d + 1)
    <3>1. CASE M[d + 1] = M[d]
      BY <1>7, <3>1
    <3>2. CASE Known(d + 1) = Known(d)
      BY <1>6, <1>7, <3>2
    <3>3. CASE M[d + 1] # M[d] /\ Known(d + 1) # Known(d)
      <4>1. Cardinality(Known(d)) >= d
        BY <2>2, <3>3
      <4>2. Cardinality(Known(d)) < Cardinality(Known(d + 1))
        BY <1>4, <1>5, <3>3, FS_Subset
      <4> QED
        BY <1>5, <4>1, <4>2
    <3> QED
      BY <3>1, <3>2, <3>3
  <2> DEFINE S == {d \in Nat : Done(d)}
  <2> HIDE DEF Done
  <2>3. 0 \in S /\ \A d \in Nat : d \in S => d + 1 \in S
    BY <2>1, <2>2
  <2> HIDE DEF S
  <2>4. Nat \subseteq S
    BY <2>3, Counting
  <2> QED
    BY <2>4 DEF S
<1>9. M[N + 1] = M[N]
  <2>1. CASE Cardinality(Known(N)) >= N
    <3>1. Known(N) = Gate
      BY <1>1, <1>4, <1>5, <2>1, FS_Subset DEF Connected
    <3>2. Known(N + 1) = Known(N)
      BY <1>1, <1>4, <3>1 DEF Connected
    <3> QED
      BY <1>1, <1>6, <3>2
  <2> QED
    BY <1>1, <1>8, <2>1
<1>10. Gates!Meaning = M[N]
  BY GatesCount DEF Gates!Meaning
<1> QED
  BY <1>1, <1>2, <1>9, <1>10

\* x waits for an input that is not connected, or for a gate in C.
Waits(x, C) ==
  \E k \in Slots(x) : \/ input_signals[x][k] = Gates!Null
                       \/ \E y \in C : input_signals[x][k] = Gates!FromGate(y)

\* Gates that wait for each other have no meaning.
LEMMA WaitingUndefined ==
  ASSUME Connected, NEW C \in SUBSET Alive, \A x \in C : Waits(x, C)
  PROVE  \A x \in C : Gates!Meaning[x] = Gates!Undefined
<1> DEFINE X == {F \in Meanings : \A x \in C : F[x] = Gates!Undefined}
<1>1. Gates!Meant[0] \in X
  BY MeantIs
<1>2. ASSUME NEW d \in Nat, Gates!Meant[d] \in X PROVE Gates!Meant[d + 1] \in X
  <2> DEFINE F == Gates!Meant[d]
  <2>1. F \in Meanings /\ Gates!Meant[d + 1] = Gates!Means(F)
    BY MeantIs
  <2>2. ASSUME NEW x \in C PROVE Gates!Means(F)[x] = Gates!Undefined
    <3>1. PICK k \in Slots(x) :
             \/ input_signals[x][k] = Gates!Null
             \/ \E y \in C : input_signals[x][k] = Gates!FromGate(y)
      BY DEF Waits
    <3>2. Gets(F, x, k) = Gates!Undefined
      <4>1. CASE input_signals[x][k] = Gates!Null
        BY <4>1 DEF Gets, Gates!Given, Gates!Null
      <4>2. CASE \E y \in C : input_signals[x][k] = Gates!FromGate(y)
        BY <1>2, <4>2 DEF Gets, Gates!Given, Gates!FromGate
      <4> QED
        BY <3>1, <4>1, <4>2
    <3> QED
      BY <3>2, UndefinedInput
  <2> QED
    BY <2>1, <2>2, MeansTyped
<1> HIDE DEF X
<1>3. \A d \in Nat : Gates!Meant[d] \in X
  BY <1>1, <1>2, Inductively
<1>4. Cardinality(Gate) \in Nat
  BY FS_CardinalityType DEF Connected
<1> QED
  BY <1>3, <1>4, GatesCount DEF X, Gates!Meaning

-----------------------------------------------------------------------------
(* The search                                                              *)

\* Visited gates that are not evaluated.
Gray(m) == m.visited \ m.evaluated

\* What is evaluated has the value and the path that the gate means.
Proper(m) ==
  /\ m \in Marks
  /\ m.evaluated \subseteq m.visited /\ m.visited \subseteq Alive
  /\ \A h \in m.evaluated : /\ Gates!Meaning[h] # Gates!Undefined
                            /\ m.value[h] = Gates!Meaning[h].value
                            /\ m.path[h] = Gates!Meaning[h].path

\* An input of x comes from y.
Feeds(y, x) == \E k \in Slots(x) : input_signals[x][k] = Gates!FromGate(y)

\* With a gate, S has the gates of V its inputs come from.
Closed(S, V) == \A x \in S : \A y \in V : Feeds(y, x) => y \in S

\* n is m with some gates visited, g and what a search from it reaches.
Further(m, n, g) ==
  /\ Proper(n) /\ m.visited \cup {g} \subseteq n.visited
  /\ \A x \in m.visited : n.value[x] = m.value[x] /\ n.path[x] = m.path[x]
  /\ \A S :
       g \in S /\ Closed(S, n.visited) => n.visited \ m.visited \subseteq S

\* The search from g is in its i-th round.
Going(m, n, g, i) ==
  /\ Gray(n) = Gray(m) \cup {g}
  /\ Summed(Gates!Meaning, g, i, n.value[g], n.path[g])

\* The search from g is cancelled.
Failed(m, n, g) ==
  /\ n.path[g] = -1 /\ Gray(m) \cup {g} \subseteq Gray(n)
  /\ \A x \in Gray(n) \ Gray(m) : Waits(x, Gray(n))

Round(m, n, g, i) == Further(m, n, g) /\ (Going(m, n, g, i) \/ Failed(m, n, g))

\* The search from g is over.
Outcome(m, n, g) ==
  /\ Further(m, n, g)
  /\ \/ Gray(n) = Gray(m) /\ n.path[g] # -1
     \/ Failed(m, n, g)

LEMMA GrownAt ==
  ASSUME Connected, NEW m, NEW n, NEW g \in Alive, NEW o, NEW v, NEW p,
         Further(m, n, g), g \notin m.visited, g \notin n.evaluated,
         Differs(n, o, g, v, p),
         o.visited = n.visited, o.evaluated = n.evaluated
  PROVE  Further(m, o, g) /\ Gray(o) = Gray(n)
<1>1. o \in Marks /\ n \in Marks /\ n.visited \subseteq Gate
  BY MarksAre DEF Differs, Further, Proper
<1>2. \A x \in n.visited : x # g =>
        o.value[x] = n.value[x] /\ o.path[x] = n.path[x]
  BY <1>1 DEF Differs
<1>3. Proper(o)
  BY <1>1, <1>2 DEF Further, Proper
<1>4. \A x \in m.visited : o.value[x] = m.value[x] /\ o.path[x] = m.path[x]
  BY <1>2 DEF Further
<1> QED
  BY <1>3, <1>4 DEF Further, Gray

LEMMA Begun ==
  ASSUME Connected, NEW m, NEW g \in Alive, Proper(m), g \notin m.visited
  PROVE  Round(m, Gates!Enter(m, g), g, 0)
<1> DEFINE n == Gates!Enter(m, g)
<1>1. m \in Marks /\ g \in Gate /\ m.visited \subseteq Gate
  BY MarksAre, GatesLists DEF Proper
<1>2. /\ Differs(m, n, g, FALSE, 0) /\ n.evaluated = m.evaluated
      /\ n.visited = m.visited \cup {g}
  BY <1>1, Entered
<1> HIDE DEF n
<1>3. \A x \in m.visited : n.value[x] = m.value[x] /\ n.path[x] = m.path[x]
  BY <1>1, <1>2 DEF Differs
<1>4. Proper(n)
  BY <1>2, <1>3 DEF Proper, Differs
<1>5. Further(m, n, g)
  BY <1>2, <1>3, <1>4 DEF Further
<1>6. Gray(n) = Gray(m) \cup {g}
  BY <1>2 DEF Gray, Proper
<1>7. Summed(Gates!Meaning, g, 0, n.value[g], n.path[g])
  <2>1. n.value[g] = FALSE /\ n.path[g] = 0
    BY <1>2 DEF Differs
  <2> QED
    BY <2>1, SumOfNone
<1> QED
  BY <1>5, <1>6, <1>7 DEF Round, Going, n

LEMMA Received ==
  ASSUME Connected, NEW m, NEW n, NEW g \in Alive, NEW i \in Nat, i >= 1,
         Further(m, n, g), Going(m, n, g, i - 1), g \notin m.visited,
         NEW r, r = Gets(Gates!Meaning, g, i), r \in Results,
         r # Gates!Undefined
  PROVE  Round(m, Gates!Join(n, g, r.value, r.path), g, i)
<1> DEFINE o == Gates!Join(n, g, r.value, r.path)
           w == n.value[g] \/ ~r.value
           q == IF r.path + 1 > n.path[g] THEN r.path + 1 ELSE n.path[g]
<1>1. n \in Marks /\ g \in Gate /\ r.value \in BOOLEAN /\ r.path \in Int
  BY Defined, GatesLists DEF Further, Proper
<1>2. /\ Differs(n, o, g, w, q)
      /\ o.visited = n.visited /\ o.evaluated = n.evaluated
  BY <1>1, ReceivedIs, ZenonT(60)
<1>3. Summed(Gates!Meaning, g, i, w, q)
  <2>1. Summed(Gates!Meaning, g, i - 1, n.value[g], n.path[g])
    BY DEF Going
  <2> QED
    BY <2>1, SumStep, ZenonT(60)
<1> HIDE DEF o, w, q
<1>4. g \notin n.evaluated
  BY DEF Going, Gray
<1>5. Further(m, o, g) /\ Gray(o) = Gray(n)
  BY <1>2, <1>4, GrownAt
<1>6. o.value[g] = w /\ o.path[g] = q
  BY <1>2 DEF Differs
<1> QED
  BY <1>3, <1>5, <1>6 DEF Round, Going, o

LEMMA Cancelled ==
  ASSUME Connected, NEW m, NEW n, NEW g \in Alive,
         Further(m, n, g), g \notin m.visited,
         Gray(m) \cup {g} \subseteq Gray(n),
         \A x \in Gray(n) \ Gray(m) : Waits(x, Gray(n))
  PROVE  LET o == Gates!cancel_dfs(n, g)
         IN Further(m, o, g) /\ Failed(m, o, g)
<1> DEFINE o == Gates!cancel_dfs(n, g)
<1>1. n \in Marks /\ g \in Gate
  BY GatesLists DEF Further, Proper
<1>2. /\ Differs(n, o, g, n.value[g], -1)
      /\ o.visited = n.visited /\ o.evaluated = n.evaluated
  BY <1>1, CancelIs
<1> HIDE DEF o
<1>3. g \notin n.evaluated
  BY DEF Gray
<1>4. Further(m, o, g) /\ Gray(o) = Gray(n)
  BY <1>2, <1>3, GrownAt
<1>5. o.path[g] = -1
  BY <1>2 DEF Differs
<1> QED
  BY <1>4, <1>5 DEF Failed, o

LEMMA Reached ==
  ASSUME NEW m, NEW n, NEW o, NEW g, NEW h,
         Further(m, n, g), Further(n, o, h), Feeds(h, g)
  PROVE  Further(m, o, g)
<1>1. /\ m.visited \cup {g} \subseteq n.visited
      /\ n.visited \cup {h} \subseteq o.visited
  BY DEF Further
<1>2. \A x \in m.visited : o.value[x] = m.value[x] /\ o.path[x] = m.path[x]
  BY <1>1 DEF Further
<1>3. ASSUME NEW S, g \in S, Closed(S, o.visited)
      PROVE  o.visited \ m.visited \subseteq S
  <2>1. Closed(S, n.visited) /\ h \in S
    BY <1>1, <1>3 DEF Closed
  <2>2. n.visited \ m.visited \subseteq S
    BY <1>3, <2>1 DEF Further
  <2>3. o.visited \ n.visited \subseteq S
    BY <1>3, <2>1 DEF Further
  <2> QED
    BY <2>2, <2>3
<1>4. Proper(o)
  BY DEF Further
<1> QED
  BY <1>1, <1>2, <1>3, <1>4 DEF Further

\* The round of an input that comes from h, if E searches from it.
LEMMA GateRound ==
  ASSUME Connected, NEW E \in Searches, NEW m, NEW n, NEW g \in Alive,
         NEW i \in Slots(g), NEW h \in Alive,
         input_signals[g][i] = Gates!FromGate(h),
         Further(m, n, g), Going(m, n, g, i - 1), g \notin m.visited,
         h \notin n.visited => Outcome(n, E[<<n, h>>], h)
  PROVE  Round(m, Gates!handle_gate(n, g, h, E), g, i)
<1> DEFINE M == Gates!Meaning
           o == Gates!handle_gate(n, g, h, E)
<1>1. Feeds(h, g) /\ g \in Gray(n) /\ i \in Nat /\ i >= 1
  BY GatesLists DEF Feeds, Going, Slots
<1>2. \A C : h \in C => Waits(g, C)
  BY DEF Waits
<1>3. Gets(M, g, i) = M[h] /\ M[h] \in Results
  BY Stable, SignalKinds DEF Gets, Gates!Given, Meanings
<1>4. CASE h \in Gray(n)
  <2>1. o = Gates!cancel_dfs(n, g)
    BY <1>4 DEF Gates!handle_gate, Gray
  <2>2. Gray(m) \cup {g} \subseteq Gray(n)
    BY DEF Going
  <2>3. \A x \in Gray(n) \ Gray(m) : Waits(x, Gray(n))
    BY <1>2, <1>4 DEF Going
  <2> QED
    BY <2>1, <2>2, <2>3, Cancelled DEF Round
<1>5. CASE h \in n.evaluated
  <2>1. /\ M[h] # Gates!Undefined /\ n.value[h] = M[h].value
        /\ n.path[h] = M[h].path /\ h \in n.visited
    BY <1>5 DEF Further, Proper
  <2>2. M[h].path # -1
    BY <1>3, <2>1, Defined
  <2>3. o = Gates!Join(n, g, M[h].value, M[h].path)
    BY <1>5, <2>1, <2>2 DEF Gates!handle_gate
  <2> QED
    BY <1>1, <1>3, <2>1, <2>3, Received
<1>6. CASE h \notin n.visited
  <2> DEFINE s == E[<<n, h>>]
  <2>1. Outcome(n, s, h)
    BY <1>6
  <2>2. o = IF s.path[h] = -1 THEN Gates!cancel_dfs(s, g)
            ELSE Gates!Join(s, g, s.value[h], s.path[h])
    BY <1>6 DEF Gates!handle_gate
  <2> HIDE DEF s, o
  <2>3. Further(m, s, g)
    BY <1>1, <2>1, Reached DEF Outcome
  <2>4. CASE Failed(n, s, h)
    <3>1. h \in Gray(s) /\ Gray(m) \cup {g} \subseteq Gray(s)
      BY <2>4 DEF Failed, Going
    <3>2. \A x \in Gray(s) \ Gray(m) : Waits(x, Gray(s))
      BY <1>2, <2>4, <3>1 DEF Failed, Going
    <3>3. o = Gates!cancel_dfs(s, g)
      BY <2>2, <2>4 DEF Failed
    <3> QED
      BY <2>3, <3>1, <3>2, <3>3, Cancelled DEF Round, o
  <2>5. CASE Gray(s) = Gray(n) /\ s.path[h] # -1
    <3>1. h \in s.evaluated
      BY <1>6, <2>1, <2>5 DEF Outcome, Further, Gray
    <3>2. /\ M[h] # Gates!Undefined /\ s.value[h] = M[h].value
          /\ s.path[h] = M[h].path
      BY <2>3, <3>1 DEF Further, Proper
    <3>3. s.value[g] = n.value[g] /\ s.path[g] = n.path[g]
      BY <1>1, <2>1 DEF Outcome, Further, Gray
    <3>4. Going(m, s, g, i - 1)
      BY <2>5, <3>3 DEF Going
    <3>5. o = Gates!Join(s, g, M[h].value, M[h].path)
      BY <2>2, <2>5, <3>2
    <3> QED
      BY <1>1, <1>3, <2>3, <3>2, <3>4, <3>5, Received DEF o
  <2> QED
    BY <2>1, <2>4, <2>5 DEF Outcome
<1> QED
  BY <1>4, <1>5, <1>6 DEF Gray

\* Every round keeps the search going or leaves it cancelled.
LEMMA RoundKeeps ==
  ASSUME Connected, NEW E \in Searches, NEW m, NEW n, NEW g \in Alive,
         NEW i \in Slots(g), Round(m, n, g, i - 1), g \notin m.visited,
         \A h \in Alive : h \notin n.visited => Outcome(n, E[<<n, h>>], h)
  PROVE  Round(m, Gates!handle(n, g, input_signals[g][i], E), g, i)
<1> DEFINE sig == input_signals[g][i]
           M == Gates!Meaning
           o == Gates!handle(n, g, sig, E)
<1>1. sig \in Signals /\ i \in Nat /\ i >= 1
  BY GatesLists DEF Slots
<1>2. CASE Failed(m, n, g)
  <2>1. n.path[g] = -1
    BY <1>2 DEF Failed
  <2>2. o = n
    BY <2>1 DEF Gates!handle
  <2> QED
    BY <1>2, <2>2 DEF Round
<1>3. CASE Going(m, n, g, i - 1)
  <2>1. n.path[g] # -1
    BY <1>3 DEF Going, Summed
  <2>2. CASE sig = Gates!Null
    <3>1. o = Gates!cancel_dfs(n, g)
      BY <2>1, <2>2 DEF Gates!handle, Gates!Null
    <3>2. Gray(m) \cup {g} \subseteq Gray(n)
      BY <1>3 DEF Going
    <3>3. \A x \in Gray(n) \ Gray(m) : Waits(x, Gray(n))
      BY <1>3, <2>2 DEF Going, Waits
    <3> HIDE DEF o
    <3> QED
      BY <3>1, <3>2, <3>3, Cancelled DEF Round, o
  <2>3. CASE sig = Gates!Signal
    <3> DEFINE r == [value |-> signal, path |-> 0]
    <3>1. o = Gates!Join(n, g, r.value, r.path)
      BY <2>1, <2>3 DEF Gates!handle, Gates!Signal
    <3>2. r = Gets(M, g, i) /\ r \in Results
      BY <2>3 DEF Gets, Gates!Given, Gates!Signal, Results, Connected
    <3>3. r # Gates!Undefined
      BY <3>2, Defined
    <3> HIDE DEF r, o
    <3> QED
      BY <1>1, <1>3, <3>1, <3>2, <3>3, Received DEF Round, o
  <2>4. CASE sig.type = "g"
    <3> DEFINE h == sig.object
    <3>1. h \in Alive /\ sig = Gates!FromGate(h)
      BY <1>1, <2>4, SignalKinds DEF Alive
    <3>2. o = Gates!handle_gate(n, g, h, E)
      BY <2>1, <2>4 DEF Gates!handle
    <3> HIDE DEF h, o
    <3> QED
      BY <1>3, <3>1, <3>2, GateRound DEF Round, o
  <2> QED
    BY <1>1, <2>2, <2>3, <2>4, SignalKinds
<1> QED
  BY <1>2, <1>3 DEF Round

LEMMA Finished ==
  ASSUME Connected, NEW m, NEW n, NEW g \in Alive, g \notin m.visited,
         Round(m, n, g, Len(input_signals[g]))
  PROVE  Outcome(m, Gates!Finish(n, g), g)
<1> DEFINE o == Gates!Finish(n, g)
           M == Gates!Meaning
<1>1. CASE Failed(m, n, g)
  BY <1>1 DEF Failed, Gates!Finish, Outcome, Round
<1>2. CASE Going(m, n, g, Len(input_signals[g]))
  <2>1. Summed(M, g, Len(input_signals[g]), n.value[g], n.path[g])
    BY <1>2 DEF Going
  <2>2. M[g] = [value |-> n.value[g], path |-> n.path[g]]
    BY <2>1, Stable, SumIs
  <2>3. n.path[g] \in Nat /\ M[g] # Gates!Undefined
    <3>1. n.path[g] \in Nat
      BY <2>1 DEF Summed
    <3>2. M[g].path # -1 /\ M[g] \in Results
      BY <2>2, <3>1, Stable DEF Meanings
    <3> QED
      BY <3>1, <3>2, Defined
  <2>4. /\ o.visited = n.visited /\ o.evaluated = n.evaluated \cup {g}
        /\ o.value = n.value /\ o.path = n.path /\ o \in Marks
    <3>1. n \in Marks /\ g \in Gate
      BY GatesLists DEF Round, Further, Proper
    <3>2. o = [n EXCEPT !.evaluated = n.evaluated \cup {g}]
      BY <2>3 DEF Gates!Finish
    <3> HIDE DEF o
    <3> QED
      BY <3>1, <3>2 DEF Marks, Gates!FieldsOf
  <2> HIDE DEF o
  <2>5. Proper(o)
    BY <2>2, <2>3, <2>4 DEF Round, Further, Proper
  <2>6. Further(m, o, g)
    BY <2>4, <2>5 DEF Round, Further
  <2>7. Gray(o) = Gray(m)
    BY <1>2, <2>4 DEF Going, Gray
  <2> QED
    BY <2>3, <2>4, <2>6, <2>7 DEF Outcome, o
<1> QED
  BY <1>1, <1>2 DEF Round

\* Enough levels for the gates not visited search from g.
Searching(d) ==
  \A m, g : /\ Proper(m) /\ g \in Alive /\ g \notin m.visited
            /\ Cardinality(Gate \ m.visited) <= d
            => Outcome(m, Gates!evaluate[d][<<m, g>>], g)

LEMMA Unvisited ==
  ASSUME Connected, NEW m, Proper(m)
  PROVE  /\ Cardinality(Gate \ m.visited) \in Nat
         /\ Cardinality(Gate \ m.visited) <= Cardinality(Gate)
         /\ \A g, n : /\ g \in Alive /\ g \notin m.visited
                      /\ m.visited \cup {g} \subseteq n.visited
                      => Cardinality(Gate \ n.visited)
                           < Cardinality(Gate \ m.visited)
<1>1. /\ IsFiniteSet(Gate \ m.visited) /\ IsFiniteSet(Gate)
      /\ Cardinality(Gate \ m.visited) \in Nat
      /\ Cardinality(Gate \ m.visited) <= Cardinality(Gate)
  BY FS_Subset, FS_CardinalityType DEF Connected
<1>2. ASSUME NEW g, NEW n, g \in Alive, g \notin m.visited,
             m.visited \cup {g} \subseteq n.visited
      PROVE  Cardinality(Gate \ n.visited) < Cardinality(Gate \ m.visited)
  <2>1. /\ Gate \ n.visited \subseteq Gate \ m.visited
        /\ Gate \ n.visited # Gate \ m.visited
    BY <1>2 DEF Connected
  <2>2. /\ Cardinality(Gate \ n.visited) \in Nat
        /\ Cardinality(Gate \ n.visited) <= Cardinality(Gate \ m.visited)
        /\ Cardinality(Gate \ n.visited) # Cardinality(Gate \ m.visited)
    BY <1>1, <2>1, FS_Subset, FS_CardinalityType
  <2> QED
    BY <1>1, <2>2
<1> QED
  BY <1>1, <1>2

LEMMA SearchesOn ==
  ASSUME Connected, NEW d \in Nat, Searching(d)
  PROVE  Searching(d + 1)
<1> SUFFICES ASSUME NEW m, NEW g \in Alive, Proper(m), g \notin m.visited,
                    Cardinality(Gate \ m.visited) <= d + 1
             PROVE  Outcome(m, Gates!evaluate[d + 1][<<m, g>>], g)
  BY DEF Searching
<1> DEFINE E == Gates!evaluate[d]
           e == Gates!Enter(m, g)
           l == Len(input_signals[g])
           r == Gates!Rounds(e, g, E)
<1>1. m \in Marks /\ l \in Nat /\ Slots(g) = 1 .. l
  BY GatesLists DEF Proper, Slots
<1>2. E \in Searches /\ Gates!evaluate[d + 1] = Gates!evaluate_once(E)
  BY EvaluateIs
<1> HIDE DEF E, e, r, l
<1>3. Gates!evaluate[d + 1][<<m, g>>] = Gates!Finish(r, g)
  BY <1>1, <1>2 DEF Gates!evaluate_once, Marks, Alive, r, e
<1>4. Round(m, e, g, 0) /\ e \in Marks
  BY Begun DEF e, Round, Further, Proper
<1>5. PICK t : /\ t[0] = e /\ r = t[l]
               /\ \A i \in 1 .. l :
                    t[i] = Gates!handle(t[i - 1], g, input_signals[g][i], E)
  BY <1>2, <1>4, RoundsAre DEF r, l
<1> DEFINE S == {i \in 0 .. l : Round(m, t[i], g, i)}
<1>6. 0 \in S
  BY <1>1, <1>4, <1>5
<1>7. ASSUME NEW i \in 1 .. l, i - 1 \in S PROVE i \in S
  <2> DEFINE n == t[i - 1]
  <2>1. Round(m, n, g, i - 1) /\ i \in 0 .. l /\ i \in Slots(g)
    BY <1>1, <1>7
  <2>2. Proper(n) /\ m.visited \cup {g} \subseteq n.visited
    BY <2>1 DEF Round, Further
  <2>3. Cardinality(Gate \ n.visited) <= d
    <3>1. Cardinality(Gate \ n.visited) < Cardinality(Gate \ m.visited)
      BY <2>2, Unvisited
    <3>2. /\ Cardinality(Gate \ n.visited) \in Nat
          /\ Cardinality(Gate \ m.visited) \in Nat
      BY <2>2, Unvisited
    <3> QED
      BY <3>1, <3>2
  <2>4. \A h \in Alive : h \notin n.visited => Outcome(n, E[<<n, h>>], h)
    BY <2>2, <2>3 DEF Searching, E
  <2>5. Round(m, Gates!handle(n, g, input_signals[g][i], E), g, i)
    BY <1>2, <2>1, <2>4, RoundKeeps
  <2> QED
    BY <1>5, <2>1, <2>5
<1> HIDE DEF S
<1>8. 0 .. l \subseteq S
  BY <1>1, <1>6, <1>7, Ascending
<1>9. Round(m, r, g, Len(input_signals[g]))
  BY <1>1, <1>5, <1>8 DEF S, l
<1> QED
  BY <1>3, <1>9, Finished

\* A search from a gate not visited evaluates it, or finds that it has no
\* meaning.
LEMMA Searched ==
  ASSUME Connected, NEW m, NEW g \in Alive, Proper(m), g \notin m.visited
  PROVE  Outcome(m, Gates!evaluate[Gates!Cardinality(Gate)][<<m, g>>], g)
<1> DEFINE S == {d \in Nat : Searching(d)}
<1>1. 0 \in S
  <2> SUFFICES ASSUME NEW n, NEW h \in Alive, Proper(n), h \notin n.visited,
                      Cardinality(Gate \ n.visited) <= 0
               PROVE  FALSE
    BY DEF Searching
  <2>1. Gate \ n.visited = {}
    <3>1. IsFiniteSet(Gate \ n.visited) /\ Cardinality(Gate \ n.visited) = 0
      BY Unvisited, FS_Subset DEF Connected
    <3> QED
      BY <3>1, FS_EmptySet
  <2> QED
    BY <2>1 DEF Connected
<1>2. \A d \in Nat : d \in S => d + 1 \in S
  BY SearchesOn
<1> HIDE DEF S
<1>3. Nat \subseteq S
  BY <1>1, <1>2, Counting
<1>4. Searching(Cardinality(Gate))
  BY <1>3, FS_CardinalityType DEF S, Connected
<1> QED
  BY <1>4, Unvisited, GatesCount DEF Searching

-----------------------------------------------------------------------------
(* The marks are wiped                                                     *)

Marked(m) ==
  m \in Marks /\ m.evaluated \subseteq m.visited /\ m.visited \subseteq Alive

\* n is m without the marks of gates that have no input from a marked one.
Swept(m, n) ==
  /\ Marked(n) /\ n.visited \subseteq m.visited
  /\ \A x \in m.visited \ n.visited, y \in n.visited : ~Feeds(y, x)

Sweeps(E, m) ==
  \A n, h : Marked(n) /\ n.visited \subseteq m.visited /\ h \in n.visited =>
              Swept(n, E[<<n, h>>]) /\ h \notin E[<<n, h>>].visited

LEMMA SweptTwice ==
  ASSUME NEW m, NEW n, NEW o, Swept(m, n), Swept(n, o)
  PROVE  Swept(m, o)
BY DEF Swept

\* The loop of clean leaves none of the gates marked that it goes through.
LEMMA LoopSweeps ==
  ASSUME NEW E \in Searches, NEW m, Marked(m), Sweeps(E, m),
         NEW s \in Seq(Signals), NEW r, r = Gates!Wipe(m, s, E)
  PROVE  /\ Swept(m, r)
         /\ \A k \in 1 .. Len(s) :
              s[k].type = "g" => s[k].object \notin r.visited
<1> DEFINE l == Len(s)
           Clear(n, i) == \A k \in 1 .. i : s[k].type = "g" =>
                                              s[k].object \notin n.visited
<1>1. m \in Marks /\ l \in Nat
  BY DEF Marked
<1> HIDE DEF l
<1>2. PICK t : /\ t[0] = m /\ r = t[l]
               /\ \A i \in 1 .. l : t[i] = Cleaned(t[i - 1], s[i], E)
  BY <1>1, WipesAre DEF l
<1> DEFINE S == {i \in 0 .. l : Swept(m, t[i]) /\ Clear(t[i], i)}
<1>3. 0 \in S
  BY <1>1, <1>2 DEF Swept
<1>4. ASSUME NEW i \in 1 .. l, i - 1 \in S PROVE i \in S
  <2> DEFINE n == t[i - 1]
             h == s[i].object
  <2>1. /\ Swept(m, n) /\ Clear(n, i - 1)
        /\ i \in 0 .. l /\ t[i] = Cleaned(n, s[i], E)
    BY <1>1, <1>2, <1>4
  <2>2. Marked(n) /\ n.visited \subseteq m.visited
    BY <2>1 DEF Swept
  <2>3. \A k \in 1 .. i : k = i \/ k \in 1 .. i - 1
    BY <1>1
  <2>4. CASE s[i].type = "g" /\ h \in n.visited
    <3>1. t[i] = E[<<n, h>>]
      BY <2>1, <2>4 DEF Cleaned
    <3>2. Swept(n, t[i]) /\ h \notin t[i].visited
      BY <2>2, <2>4, <3>1 DEF Sweeps
    <3>3. Swept(m, t[i])
      BY <2>1, <3>2, SweptTwice
    <3>4. t[i].visited \subseteq n.visited
      BY <3>2 DEF Swept
    <3>5. Clear(t[i], i)
      BY <2>1, <2>3, <3>2, <3>4
    <3> QED
      BY <2>1, <3>3, <3>5
  <2>5. CASE ~(s[i].type = "g" /\ h \in n.visited)
    <3>1. t[i] = n
      BY <2>1, <2>5 DEF Cleaned
    <3> QED
      BY <2>1, <2>3, <2>5, <3>1
  <2> QED
    BY <2>4, <2>5
<1> HIDE DEF S
<1>5. 0 .. l \subseteq S
  BY <1>1, <1>3, <1>4, Ascending
<1>6. l \in S
  BY <1>1, <1>5
<1> QED
  BY <1>2, <1>6 DEF S, l

\* Enough levels for the marked gates wipe what g leads to.
Wiping(d) ==
  \A m : Marked(m) /\ Cardinality(m.visited) <= d => Sweeps(Gates!clean[d], m)

LEMMA CountMarked ==
  ASSUME Connected, NEW m, Marked(m)
  PROVE  /\ IsFiniteSet(m.visited) /\ Cardinality(m.visited) \in Nat
         /\ Cardinality(m.visited) <= Cardinality(Gate)
         /\ \A V : V \subseteq m.visited =>
                     /\ Cardinality(V) \in Nat
                     /\ Cardinality(V) <= Cardinality(m.visited)
         /\ \A g \in m.visited :
              Cardinality(m.visited \ {g}) = Cardinality(m.visited) - 1
<1>1. m.visited \subseteq Gate /\ IsFiniteSet(Gate)
  BY DEF Connected, Marked
<1>2. /\ IsFiniteSet(m.visited) /\ Cardinality(m.visited) \in Nat
      /\ Cardinality(m.visited) <= Cardinality(Gate)
  BY <1>1, FS_Subset, FS_CardinalityType
<1> QED
  BY <1>2, FS_Subset, FS_CardinalityType, FS_RemoveElement

LEMMA WipeStep ==
  ASSUME Connected, NEW d \in Nat, Wiping(d)
  PROVE  Wiping(d + 1)
<1> SUFFICES ASSUME NEW m, Marked(m), NEW g \in m.visited,
                    Cardinality(m.visited) <= d + 1
             PROVE  LET n == Gates!clean[d + 1][<<m, g>>]
                    IN Swept(m, n) /\ g \notin n.visited
  <2> SUFFICES ASSUME NEW o, Marked(o), Cardinality(o.visited) <= d + 1,
                      NEW m, NEW g, Marked(m), m.visited \subseteq o.visited,
                      g \in m.visited
               PROVE  LET n == Gates!clean[d + 1][<<m, g>>]
                      IN Swept(m, n) /\ g \notin n.visited
    BY DEF Wiping, Sweeps
  <2>1. Cardinality(m.visited) <= d + 1
    <3>1. /\ Cardinality(m.visited) <= Cardinality(o.visited)
          /\ Cardinality(m.visited) \in Nat /\ Cardinality(o.visited) \in Nat
      BY CountMarked
    <3> QED
      BY <3>1
  <2> QED
    BY <2>1
<1> DEFINE E == Gates!clean[d]
           u == Gates!unmark(m, g)
           n == Gates!clean[d + 1][<<m, g>>]
<1>1. E \in Searches /\ Gates!clean[d + 1] = Gates!clean_once(E)
  BY CleanIs
<1>2. g \in Alive /\ m \in Marks /\ input_signals[g] \in Seq(Signals)
  BY GatesLists DEF Marked
<1>3. n = Gates!Wipe(u, input_signals[g], E)
  BY <1>1, <1>2 DEF Gates!clean_once, Marks, Alive
<1>4. Marked(u) /\ u.visited = m.visited \ {g}
  BY <1>2, Unmarked DEF Marked
<1> HIDE DEF E, u, n
<1>5. Cardinality(u.visited) <= d
  <2>1. /\ Cardinality(u.visited) = Cardinality(m.visited) - 1
        /\ Cardinality(m.visited) \in Nat
    BY <1>4, CountMarked
  <2> QED
    BY <2>1
<1>6. Sweeps(E, u)
  BY <1>4, <1>5 DEF Wiping, E
<1>7. /\ Swept(u, n)
      /\ \A k \in 1 .. Len(input_signals[g]) :
           input_signals[g][k].type = "g" =>
             input_signals[g][k].object \notin n.visited
  BY <1>1, <1>2, <1>3, <1>4, <1>6, LoopSweeps
<1>8. g \notin n.visited /\ n.visited \subseteq m.visited /\ Marked(n)
  BY <1>4, <1>7 DEF Swept
<1>9. \A y \in n.visited : ~Feeds(y, g)
  BY <1>7, SignalKinds DEF Feeds, Slots
<1>10. Swept(m, n)
  BY <1>4, <1>7, <1>8, <1>9 DEF Swept
<1> QED
  BY <1>8, <1>10 DEF n

LEMMA CleanSweeps ==
  ASSUME Connected, NEW m, Marked(m)
  PROVE  Sweeps(Gates!clean[Gates!Cardinality(Gate)], m)
<1> DEFINE S == {d \in Nat : Wiping(d)}
<1>1. 0 \in S
  <2> SUFFICES ASSUME NEW n, Marked(n), Cardinality(n.visited) <= 0
               PROVE  n.visited = {}
    BY DEF Wiping, Sweeps
  <2>1. IsFiniteSet(n.visited) /\ Cardinality(n.visited) = 0
    BY CountMarked
  <2> QED
    BY <2>1, FS_EmptySet
<1>2. \A d \in Nat : d \in S => d + 1 \in S
  BY WipeStep
<1> HIDE DEF S
<1>3. Nat \subseteq S
  BY <1>1, <1>2, Counting
<1>4. Wiping(Cardinality(Gate))
  BY <1>3, FS_CardinalityType DEF S, Connected
<1> QED
  BY <1>4, CountMarked, GatesCount DEF Wiping

-----------------------------------------------------------------------------
(* A call                                                                  *)

States == [m : Marks, s : Seq(BOOLEAN), res : Int]

QueryTable(h, b, s) ==
  h = [U \in SUBSET DOMAIN s |->
         IF U = {} THEN b
         ELSE Gates!Query(h[U \ {Gates!Max(U)}], s[Gates!Max(U)])]

LEMMA QueryTyped ==
  ASSUME Connected, NEW st \in States, NEW g \in Alive
  PROVE  Gates!Query(st, g) \in States
<1> DEFINE m == IF g \in st.m.evaluated THEN st.m
                ELSE Gates!evaluate[Gates!Cardinality(Gate)][<<st.m, g>>]
<1>1. st.m \in Marks /\ st.s \in Seq(BOOLEAN) /\ st.res \in Int /\ g \in Gate
  BY DEF States, Connected
<1>2. m \in Marks
  <2>1. Gates!Cardinality(Gate) \in Nat
    BY GatesCount, FS_CardinalityType DEF Connected
  <2>2. Gates!evaluate[Gates!Cardinality(Gate)] \in Searches
    BY <2>1, EvaluateIs
  <2> QED
    BY <1>1, <2>2 DEF Searches
<1> HIDE DEF m
<1>3. m.value[g] \in BOOLEAN /\ m.path[g] \in Int
  BY <1>1, <1>2, MarksAre
<1>4. Append(st.s, m.value[g]) \in Seq(BOOLEAN)
  BY <1>1, <1>3
<1>5. [m |-> m, s |-> Append(st.s, m.value[g]),
       res |-> IF m.path[g] = -1 \/ m.path[g] > st.res
               THEN m.path[g] ELSE st.res] \in States
  BY <1>1, <1>2, <1>3, <1>4 DEF States
<1> QED
  BY <1>5 DEF Gates!Query, m

Queried(b, s) == Gates!FoldLeft(Gates!Query, b, s)

\* The loop over the gates of a call, round by round.
LEMMA QueriesAre ==
  ASSUME Connected, NEW b \in States, NEW s \in Seq(Alive),
         NEW n, n = Len(s)
  PROVE  \E t : /\ t[0] = b /\ Queried(b, s) = t[n]
                /\ \A i \in 0 .. n : t[i] \in States
                /\ \A i \in 1 .. n : t[i] = Gates!Query(t[i - 1], s[i])
<1> DEFINE op == [x \in (1 .. n) \X States |-> Gates!Query(x[2], s[x[1]])]
           h == CHOOSE l : QueryTable(l, b, s)
<1>1. DOMAIN s = 1 .. n /\ n \in Nat /\ \A i \in 1 .. n : s[i] \in Alive
  OBVIOUS
<1>2. Queried(b, s) = h[1 .. n]
  BY <1>1 DEF Queried, Gates!FoldLeft, Gates!MapThenFoldSet, QueryTable
<1>3. op \in [(1 .. n) \X States -> States]
  BY <1>1, QueryTyped
<1>4. PICK f : Table(f, n, States, b, op)
  <2> HIDE DEF op
  <2> QED
    BY <1>1, <1>3, Tabled
<1>5. QueryTable(f, b, s)
  <2> DEFINE e(U) == IF U = {} THEN b
                     ELSE Gates!Query(f[U \ {Gates!Max(U)}], s[Gates!Max(U)])
  <2>1. \A U \in SUBSET (1 .. n) : f[U] = e(U)
    BY <1>4 DEF Table
  <2>2. f = [U \in SUBSET (1 .. n) |-> f[U]]
    BY <1>4 DEF Table
  <2> HIDE DEF e
  <2>3. f = [U \in SUBSET (1 .. n) |-> e(U)]
    BY <2>1, <2>2
  <2> QED
    BY <1>1, <2>3 DEF QueryTable, e
<1>6. QueryTable(h, b, s)
  BY <1>5
<1> HIDE DEF h
<1>7. Filled(h, n, States, b, op)
  BY <1>1, <1>3, <1>6, Extremes DEF QueryTable, Filled
<1>8. \A i \in 1 .. n, o \in States : op[<<i, o>>] = Gates!Query(o, s[i])
  OBVIOUS
<1> HIDE DEF op
<1>9. PICK t : Rounds(t, n, States, b, op) /\ h[1 .. n] = t[n]
  BY <1>1, <1>7, Unrolled
<1>10. t[0] = b /\ \A i \in 0 .. n : t[i] \in States
  BY <1>9 DEF Rounds
<1>11. \A i \in 1 .. n : t[i] = Gates!Query(t[i - 1], s[i])
  BY <1>8, <1>9 DEF Rounds
<1> QED
  BY <1>2, <1>9, <1>10, <1>11

\* Every marked gate is one of the call, or leads to one.
Rooted(m, gs) ==
  /\ Marked(m)
  /\ \A S : /\ \A k \in DOMAIN gs : gs[k] \in m.visited => gs[k] \in S
            /\ Closed(S, m.visited)
            => m.visited \subseteq S

\* The first i gates have meanings, and st has their values and paths.
Answered(st, gs, i) ==
  /\ Proper(st.m) /\ Gray(st.m) = {} /\ st.res \in Nat
  /\ st.s = [k \in 1 .. i |-> Gates!Meaning[gs[k]].value]
  /\ \A k \in 1 .. i : /\ Gates!Meaning[gs[k]].path \in Nat
                       /\ Gates!Meaning[gs[k]].path <= st.res
  /\ st.res = 0 \/ \E k \in 1 .. i : st.res = Gates!Meaning[gs[k]].path

Refused(st, gs) ==
  st.res = -1 /\ \E k \in DOMAIN gs : Gates!Meaning[gs[k]].path = -1

\* The state of a call after i gates.
Called(st, gs, i) ==
  Rooted(st.m, gs) /\ (Answered(st, gs, i) \/ Refused(st, gs))

\* What a search from one gate of the call does.
LEMMA SearchRooted ==
  ASSUME Connected, NEW m, NEW n, NEW gs \in Seq(Alive), NEW i \in DOMAIN gs,
         Rooted(m, gs), Outcome(m, n, gs[i]), gs[i] \notin m.visited,
         Gray(m) = {}
  PROVE  /\ Rooted(n, gs) /\ Proper(n)
         /\ n.path[gs[i]] = -1 => Gates!Meaning[gs[i]].path = -1
         /\ n.path[gs[i]] # -1 => Gray(n) = {} /\ gs[i] \in n.evaluated
<1> DEFINE g == gs[i]
<1>1. Proper(n) /\ m.visited \cup {g} \subseteq n.visited
  BY DEF Outcome, Further
<1>2. Rooted(n, gs)
  <2> SUFFICES ASSUME NEW S, Closed(S, n.visited),
                      \A k \in DOMAIN gs : gs[k] \in n.visited => gs[k] \in S
               PROVE  n.visited \subseteq S
    BY <1>1 DEF Rooted, Marked, Proper
  <2>1. g \in S /\ Closed(S, m.visited)
    BY <1>1 DEF Closed
  <2>2. m.visited \subseteq S
    BY <1>1, <2>1 DEF Rooted
  <2>3. n.visited \ m.visited \subseteq S
    BY <2>1 DEF Outcome, Further
  <2> QED
    BY <2>2, <2>3
<1>3. ASSUME n.path[g] = -1 PROVE Gates!Meaning[g].path = -1
  <2> DEFINE C == Gray(n)
  <2>1. Failed(m, n, g)
    BY <1>3 DEF Outcome
  <2>2. C \in SUBSET Alive /\ g \in C
    BY <1>1, <2>1 DEF Failed, Proper, Gray
  <2>3. \A x \in C : Waits(x, C)
    BY <2>1 DEF Failed
  <2> HIDE DEF C
  <2> QED
    BY <2>2, <2>3, WaitingUndefined DEF Gates!Undefined
<1>4. ASSUME n.path[g] # -1 PROVE Gray(n) = {} /\ g \in n.evaluated
  BY <1>1, <1>4 DEF Outcome, Failed, Gray
<1> QED
  BY <1>1, <1>2, <1>3, <1>4

\* One more gate with a meaning.
LEMMA OneMore ==
  ASSUME Connected, NEW st, NEW gs \in Seq(Alive), NEW i \in DOMAIN gs,
         Answered(st, gs, i - 1), NEW n, Proper(n), Gray(n) = {},
         gs[i] \in n.evaluated, NEW s, s = Append(st.s, n.value[gs[i]]),
         NEW r, r = IF n.path[gs[i]] > st.res THEN n.path[gs[i]] ELSE st.res
  PROVE  Answered([m |-> n, s |-> s, res |-> r], gs, i)
<1> DEFINE M == Gates!Meaning
           p == n.path[gs[i]]
<1>1. i \in Nat /\ i >= 1 /\ i \in 1 .. i /\ gs[i] \in Alive
  OBVIOUS
<1>2. /\ M[gs[i]] # Gates!Undefined /\ n.value[gs[i]] = M[gs[i]].value
      /\ p = M[gs[i]].path
  BY DEF Proper
<1>3. p \in Nat
  BY <1>1, <1>2, Stable, Defined DEF Meanings
<1> HIDE DEF p
<1>4. \A k \in 1 .. i : k = i \/ k \in 1 .. i - 1
  BY <1>1
<1>5. \A k \in 1 .. i - 1 : k \in 1 .. i
  BY <1>1
<1>6. r \in Nat /\ p <= r /\ st.res <= r /\ (r = p \/ r = st.res)
  BY <1>3 DEF Answered, p
<1>7. \A k \in 1 .. i : M[gs[k]].path \in Nat /\ M[gs[k]].path <= r
  <2> SUFFICES ASSUME NEW k \in 1 .. i
               PROVE  M[gs[k]].path \in Nat /\ M[gs[k]].path <= r
    OBVIOUS
  <2>1. CASE k = i
    BY <1>2, <1>3, <1>6, <2>1
  <2>2. CASE k \in 1 .. i - 1
    <3>1. /\ M[gs[k]].path \in Nat /\ M[gs[k]].path <= st.res
          /\ st.res \in Nat
      BY <2>2 DEF Answered
    <3> QED
      BY <1>6, <3>1
  <2> QED
    BY <1>4, <2>1, <2>2
<1>8. r = 0 \/ \E k \in 1 .. i : r = M[gs[k]].path
  BY <1>1, <1>2, <1>5, <1>6 DEF Answered
<1>9. s = [k \in 1 .. i |-> M[gs[k]].value]
  <2> DEFINE v == [k \in 1 .. i - 1 |-> M[gs[k]].value]
  <2>1. st.s = v
    BY DEF Answered
  <2>2. i - 1 \in Nat /\ (i - 1) + 1 = i
    BY <1>1
  <2>3. v \in Seq(BOOLEAN) /\ Len(v) = i - 1
    <3>1. \A k \in 1 .. i - 1 : M[gs[k]].value \in BOOLEAN
      BY <1>1, Stable, Defined DEF Meanings
    <3>2. v \in [1 .. i - 1 -> BOOLEAN]
      BY <3>1
    <3> HIDE DEF v
    <3> QED
      BY <2>2, <3>2
  <2>4. Append(v, M[gs[i]].value) = [k \in 1 .. i |-> M[gs[k]].value]
    BY <1>1, <1>4, <2>2, <2>3
  <2> QED
    BY <1>2, <2>1, <2>4
<1> QED
  BY <1>6, <1>7, <1>8, <1>9 DEF Answered

LEMMA QueryKeeps ==
  ASSUME Connected, NEW st \in States, NEW gs \in Seq(Alive),
         NEW i \in DOMAIN gs, Called(st, gs, i - 1)
  PROVE  Called(Gates!Query(st, gs[i]), gs, i)
<1> DEFINE g == gs[i]
           m == IF g \in st.m.evaluated THEN st.m
                ELSE Gates!evaluate[Gates!Cardinality(Gate)][<<st.m, g>>]
           M == Gates!Meaning
           o == [m |-> m, s |-> Append(st.s, m.value[g]),
                 res |-> IF m.path[g] = -1 \/ m.path[g] > st.res
                         THEN m.path[g] ELSE st.res]
<1>1. g \in Alive
  OBVIOUS
<1>2. CASE Refused(st, gs)
  BY <1>2 DEF Called, Refused, Gates!Query
<1>3. CASE Answered(st, gs, i - 1)
  <2>1. Proper(st.m) /\ Gray(st.m) = {} /\ st.res # -1 /\ Rooted(st.m, gs)
    BY <1>3 DEF Answered, Called
  <2>2. Gates!Query(st, g) = o
    BY <2>1 DEF Gates!Query
  <2>3. CASE g \in st.m.evaluated
    <3>1. m = st.m
      BY <2>3
    <3>2. m.path[g] # -1
      BY <1>1, <2>1, <2>3, <3>1, Stable, Defined DEF Proper, Meanings
    <3> HIDE DEF m
    <3>3. Answered(o, gs, i)
      BY <1>3, <2>1, <2>3, <3>1, <3>2, OneMore
    <3> QED
      BY <2>1, <2>2, <3>1, <3>3 DEF Called
  <2>4. CASE g \notin st.m.evaluated
    <3>1. g \notin st.m.visited
      BY <2>1, <2>4 DEF Gray
    <3>2. Outcome(st.m, m, g)
      BY <1>1, <2>1, <2>4, <3>1, Searched
    <3> HIDE DEF m
    <3>3. /\ Rooted(m, gs) /\ Proper(m)
          /\ m.path[g] = -1 => M[g].path = -1
          /\ m.path[g] # -1 => Gray(m) = {} /\ g \in m.evaluated
      BY <2>1, <3>1, <3>2, SearchRooted
    <3>4. CASE m.path[g] = -1
      BY <2>2, <3>3, <3>4 DEF Called, Refused
    <3>5. CASE m.path[g] # -1
      <4>1. Answered(o, gs, i)
        BY <1>3, <3>3, <3>5, OneMore
      <4> QED
        BY <2>2, <3>3, <4>1 DEF Called
    <3> QED
      BY <3>4, <3>5
  <2> QED
    BY <2>3, <2>4
<1> QED
  BY <1>2, <1>3 DEF Called

\* A call that finds no mark answers with what the gates mean, and leaves no
\* mark.
LEMMA EvaluationIs ==
  ASSUME Connected, visited = {}, evaluated = {}, NEW gs \in Seq(Alive),
         NEW got, got = Gates!Evaluation(gs)
  PROVE  /\ got.m.visited = {} /\ got.m.evaluated = {}
         /\ \E d : /\ Answered(d, gs, Len(gs)) \/ Refused(d, gs)
                   /\ got.res = d.res /\ got.s = d.s
<1> DEFINE start == [m |-> Gates!Fields, s |-> <<>>, res |-> 0]
           done == Queried(start, gs)
           sigs == [k \in DOMAIN gs |-> Gates!FromGate(gs[k])]
           E == Gates!clean[Gates!Cardinality(Gate)]
           r == Gates!Wipe(done.m, sigs, E)
           l == Len(gs)
<1>1. /\ Gates!Fields \in Marks /\ Gates!Fields.visited = {}
      /\ Gates!Fields.evaluated = {}
  BY DEF Gates!Fields, Marks, Gates!FieldsOf
<1>2. start \in States /\ start.m = Gates!Fields
  BY <1>1 DEF States
<1>3. Called(start, gs, 0)
  <2>1. Rooted(start.m, gs)
    BY <1>1, <1>2 DEF Rooted, Marked
  <2>2. Proper(start.m) /\ Gray(start.m) = {}
    BY <1>1, <1>2 DEF Proper, Gray
  <2>3. start.s = [k \in 1 .. 0 |-> Gates!Meaning[gs[k]].value]
    OBVIOUS
  <2> QED
    BY <2>1, <2>2, <2>3 DEF Called, Answered
<1>4. l \in Nat /\ DOMAIN gs = 1 .. l
  OBVIOUS
<1> HIDE DEF start, l
<1>5. PICK t : /\ t[0] = start /\ done = t[l]
               /\ \A i \in 0 .. l : t[i] \in States
               /\ \A i \in 1 .. l : t[i] = Gates!Query(t[i - 1], gs[i])
  BY <1>2, QueriesAre DEF l
<1> HIDE DEF done
<1> DEFINE S == {i \in 0 .. l : Called(t[i], gs, i)}
<1>6. 0 \in S
  BY <1>3, <1>4, <1>5
<1>7. ASSUME NEW i \in 1 .. l, i - 1 \in S PROVE i \in S
  <2>1. i \in 0 .. l /\ t[i - 1] \in States /\ Called(t[i - 1], gs, i - 1)
    BY <1>4, <1>5, <1>7
  <2>2. Called(Gates!Query(t[i - 1], gs[i]), gs, i)
    BY <1>4, <2>1, QueryKeeps
  <2> QED
    BY <1>5, <2>1, <2>2
<1> HIDE DEF S
<1>8. 0 .. l \subseteq S
  BY <1>4, <1>6, <1>7, Ascending
<1>9. Called(done, gs, l) /\ done \in States
  BY <1>4, <1>5, <1>8 DEF S
<1>10. got = [done EXCEPT !.m = r]
  BY DEF Gates!Evaluation, Queried, done, start
<1>11. Marked(done.m) /\ Rooted(done.m, gs)
  BY <1>9 DEF Called, Rooted
<1>12. sigs \in Seq(Signals) /\ Len(sigs) = l
  <2>1. \A k \in 1 .. l : Gates!FromGate(gs[k]) \in Signals
    BY <1>4 DEF Signals, Alive
  <2> QED
    BY <1>4, <2>1
<1>13. E \in Searches /\ Sweeps(E, done.m)
  BY <1>11, CleanIs, CleanSweeps, GatesCount, FS_CardinalityType DEF Connected
<1>14. \A k \in 1 .. l : sigs[k].type = "g" /\ sigs[k].object = gs[k]
  BY <1>4, SignalKinds
<1> HIDE DEF sigs, E
<1>15. Swept(done.m, r) /\ \A k \in 1 .. l : gs[k] \notin r.visited
  BY <1>11, <1>12, <1>13, <1>14, LoopSweeps
<1> HIDE DEF r
<1>16. r.visited = {} /\ r.evaluated = {}
  <2> DEFINE C == done.m.visited \ r.visited
  <2>1. Closed(C, done.m.visited)
    BY <1>15 DEF Swept, Closed
  <2>2. \A k \in DOMAIN gs : gs[k] \in done.m.visited => gs[k] \in C
    BY <1>4, <1>15
  <2>3. done.m.visited \subseteq C
    BY <1>11, <2>1, <2>2 DEF Rooted
  <2> QED
    BY <1>15, <2>3 DEF Swept, Marked
<1>17. /\ got.m = r /\ got.s = done.s /\ got.res = done.res
  BY <1>9, <1>10 DEF States
<1>18. Answered(done, gs, l) \/ Refused(done, gs)
  BY <1>9 DEF Called
<1> QED
  BY <1>16, <1>17, <1>18 DEF l

EvaluationInv ==
  NandInv /\ Alive \subseteq Gate /\ signal \in BOOLEAN
  /\ visited = {} /\ evaluated = {}

LEMMA ConnectedIs ==
  EvaluationInv => Connected
BY ArityAssumption DEF EvaluationInv, Connected, NandInv

LEMMA QueriesList ==
  ASSUME NEW gs \in Gates!Queries
  PROVE  gs \in Seq(Alive) /\ Len(gs) >= 1 /\ DOMAIN gs = 1 .. Len(gs)
BY DEF Gates!Queries, Alive

LEMMA EvaluationRightIs ==
  EvaluationInv => EvaluationRight
<1> SUFFICES ASSUME EvaluationInv PROVE EvaluationRight
  OBVIOUS
<1> SUFFICES ASSUME NEW gs \in Gates!Queries, NEW got, NEW Path,
                    got = Gates!Evaluation(gs),
                    Path = {Gates!Meaning[g].path : g \in Gates!ToSet(gs)}
             PROVE  IF -1 \in Path THEN got.res = -1
                    ELSE /\ got.res = Gates!Max(Path)
                         /\ got.s = [i \in DOMAIN gs |->
                                       Gates!Meaning[gs[i]].value]
  BY DEF EvaluationRight, Gates!EvaluationRight, EvaluationInv
<1>1. gs \in Seq(Alive) /\ Len(gs) >= 1 /\ DOMAIN gs = 1 .. Len(gs)
  BY QueriesList
<1>2. Connected /\ visited = {} /\ evaluated = {}
  BY ConnectedIs DEF EvaluationInv
<1>3. PICK d : /\ Answered(d, gs, Len(gs)) \/ Refused(d, gs)
               /\ got.res = d.res /\ got.s = d.s
  BY <1>1, <1>2, EvaluationIs
<1>4. /\ \A p \in Path : \E k \in DOMAIN gs : p = Gates!Meaning[gs[k]].path
      /\ \A k \in DOMAIN gs : Gates!Meaning[gs[k]].path \in Path
  BY DEF Gates!ToSet
<1>5. CASE Refused(d, gs)
  BY <1>3, <1>4, <1>5 DEF Refused
<1>6. CASE Answered(d, gs, Len(gs))
  <2>1. \A p \in Path : p \in Nat /\ p <= d.res
    <3>1. \A k \in DOMAIN gs : /\ Gates!Meaning[gs[k]].path \in Nat
                              /\ Gates!Meaning[gs[k]].path <= d.res
      BY <1>1, <1>6 DEF Answered
    <3>2. ASSUME NEW p \in Path PROVE p \in Nat /\ p <= d.res
      <4>1. PICK k \in DOMAIN gs : p = Gates!Meaning[gs[k]].path
        BY <1>4
      <4> QED
        BY <3>1, <4>1
    <3> QED
      BY <3>2
  <2>2. d.res \in Path
    <3>1. CASE d.res = 0
      <4>1. 1 \in DOMAIN gs
        BY <1>1
      <4>2. PICK p \in Path : p \in Nat /\ p <= 0
        BY <1>4, <2>1, <3>1, <4>1
      <4> QED
        BY <3>1, <4>2
    <3>2. CASE d.res # 0
      BY <1>1, <1>4, <1>6, <3>2 DEF Answered
    <3> QED
      BY <3>1, <3>2
  <2>3. Gates!Max(Path) = d.res
    <3>1. Path \in SUBSET Int
      BY <2>1
    <3> QED
      BY <2>1, <2>2, <3>1, MaxIs
  <2>4. -1 \notin Path
    BY <2>1
  <2>5. got.s = [i \in DOMAIN gs |-> Gates!Meaning[gs[i]].value]
    BY <1>1, <1>3, <1>6 DEF Answered
  <2> QED
    BY <1>3, <2>3, <2>4, <2>5
<1> QED
  BY <1>3, <1>5, <1>6

LEMMA EvaluationStep ==
  ASSUME EvaluationInv, [Gates!Next]_(Gates!vars)
  PROVE  EvaluationInv'
<1>1. NandInv'
  BY NandStep, ArityAssumption DEF EvaluationInv
<1>2. CASE UNCHANGED Gates!vars
  BY <1>1, <1>2 DEF EvaluationInv, Gates!vars, Gates!links, Gates!marks, Alive,
                    Gates!Alive
<1>3. CASE Gates!FlipSignal
  BY <1>1, <1>3 DEF EvaluationInv, Gates!FlipSignal, Gates!links, Gates!marks,
                    Alive, Gates!Alive
<1>4. ASSUME NEW g \in Gate, Gates!nand_new(g)
      PROVE  EvaluationInv'
  BY <1>1, <1>4 DEF EvaluationInv, Gates!nand_new, Gates!With, Alive,
                    Gates!Alive
<1>5. ASSUME NEW g \in Gate, Gates!nand_delete(g)
      PROVE  EvaluationInv'
  BY <1>1, <1>5 DEF EvaluationInv, Gates!nand_delete, Gates!marks, Alive,
                    Gates!Alive
<1>6. ASSUME NEW g, NEW k, Gates!nand_connect_signal(g, k)
      PROVE  EvaluationInv'
  BY <1>1, <1>6 DEF EvaluationInv, Gates!nand_connect_signal, Gates!marks,
                    Alive, Gates!Alive
<1>7. ASSUME NEW h, NEW g, NEW k, Gates!nand_connect_nand(h, g, k)
      PROVE  EvaluationInv'
  BY <1>1, <1>7 DEF EvaluationInv, Gates!nand_connect_nand, Gates!marks,
                    Alive, Gates!Alive
<1>8. CASE Gates!nand_evaluate
  <2>1. PICK gs \in Gates!Queries :
          /\ visited' = Gates!Evaluation(gs).m.visited
          /\ evaluated' = Gates!Evaluation(gs).m.evaluated
    BY <1>8 DEF Gates!nand_evaluate
  <2>2. gs \in Seq(Alive) /\ Connected /\ visited = {} /\ evaluated = {}
    BY QueriesList, ConnectedIs DEF EvaluationInv
  <2>3. visited' = {} /\ evaluated' = {}
    BY <2>1, <2>2, EvaluationIs
  <2> QED
    BY <1>1, <1>8, <2>3 DEF EvaluationInv, Gates!nand_evaluate, Gates!links,
                            Alive, Gates!Alive
<1> QED
  BY <1>2, <1>3, <1>4, <1>5, <1>6, <1>7, <1>8 DEF Gates!Next

\* For any gates, any numbers of inputs, whatever was connected and deleted
\* before: every call of nand_evaluate (nand.c lines 265-299) stores the
\* value that the circuit below each gate defines and returns the longest
\* path, or -1 exactly when a gate below has a missing input or is on a cycle,
\* and the marks of evaluate (lines 81-113), the ones a cancelled search left
\* included, are all wiped by clean (lines 117-132).
THEOREM EvaluationsRight == Spec => []EvaluationRight
<1>1. Init => EvaluationInv
  BY NandInit DEF Init, Gates!Init, EvaluationInv, Alive, Gates!Alive
<1>2. EvaluationInv /\ [Next]_vars => EvaluationInv'
  <2>1. [Next]_vars => [Gates!Next]_(Gates!vars)
    BY DEF Next, vars, gates, Gates!vars, Gates!links, Gates!marks
  <2> QED
    BY <2>1, EvaluationStep
<1> QED
  BY <1>1, <1>2, EvaluationRightIs, PTL DEF Spec

-----------------------------------------------------------------------------
(* Sums over the elements                                                  *)

\* The recursion behind SumFunction(f).
SumOver(h, f) ==
  /\ h \in [SUBSET Search!Element -> Nat] /\ h[{}] = 0
  /\ \A U \in SUBSET Search!Element : U # {} =>
       /\ First(U) \in Search!Element /\ First(U) \in U
       /\ U \ {First(U)} \in SUBSET Search!Element
       /\ h[U] = f[First(U)] + h[U \ {First(U)}]

\* The library's fold is this recursion.
LEMMA SumFunctionIs ==
  ASSUME NEW f \in Multiset
  PROVE  \E h : SumOver(h, f) /\ Search!SumFunction(f) = h[Search!Element]
<1> DEFINE op == [p \in Search!Element \X Nat |-> f[p[1]] + p[2]]
           Right(h) == h = [U \in SUBSET Search!Element |->
                              IF U = {} THEN 0
                              ELSE f[First(U)] + h[U \ {First(U)}]]
<1>1. ASSUME NEW i \in Search!Element, NEW v \in Nat
      PROVE  op[<<i, v>>] = f[i] + v /\ op[<<i, v>>] \in Nat
  <2>1. <<i, v>> \in Search!Element \X Nat
    OBVIOUS
  <2>2. f[i] \in Nat
    BY DEF Multiset
  <2> QED
    BY <2>1, <2>2
<1>2. op \in [Search!Element \X Nat -> Nat]
  <2>1. \A p \in Search!Element \X Nat : op[p] \in Nat
    <3> SUFFICES ASSUME NEW p \in Search!Element \X Nat PROVE op[p] \in Nat
      OBVIOUS
    <3>1. /\ p = <<p[1], p[2]>>
          /\ p[1] \in Search!Element /\ p[2] \in Nat
      OBVIOUS
    <3>2. op[<<p[1], p[2]>>] \in Nat
      BY <1>1, <3>1
    <3> QED
      BY <3>1, <3>2
  <2> QED
    BY <2>1
<1> HIDE DEF op
<1>3. PICK g : /\ Folds(g, op, 0, FirstOf, Search!Element)
               /\ \A U \in SUBSET Search!Element : g[U] \in Nat
  BY <1>2, ElementFinite, FirstPicks, TypedFold
<1>4. \A U \in SUBSET Search!Element : U # {} =>
        /\ First(U) \in Search!Element /\ First(U) \in U
        /\ U \ {First(U)} \in SUBSET Search!Element
  BY DEF First
<1>5. /\ g = [U \in SUBSET Search!Element |-> g[U]]
      /\ g[{}] = 0
      /\ \A U \in SUBSET Search!Element :
           U # {} => g[U] = op[<<First(U), g[U \ {First(U)}]>>]
  <2>1. g = [U \in SUBSET Search!Element |-> g[U]]
    BY <1>3 DEF Folds
  <2>2. g[{}] = 0
    BY <1>3, FoldEmpty
  <2>3. \A U \in SUBSET Search!Element :
          U # {} => g[U] = op[<<First(U), g[U \ {First(U)}]>>]
    BY <1>3, FirstPicks, FoldAt
  <2> QED
    BY <2>1, <2>2, <2>3
<1>6. Right(g)
  <2>1. \A U \in SUBSET Search!Element :
          g[U] = IF U = {} THEN 0 ELSE f[First(U)] + g[U \ {First(U)}]
    BY <1>1, <1>3, <1>4, <1>5
  <2> QED
    BY <1>5, <2>1
<1> DEFINE h == CHOOSE e : Right(e)
<1>7. Right(h)
  BY <1>6
<1>8. Search!SumFunction(f) = h[Search!Element]
  <2>1. DOMAIN f = Search!Element
    BY DEF Multiset
  <2> QED
    BY <2>1 DEF Search!SumFunction, Search!SumFunctionOnSet,
                Search!FoldFunctionOnSet, Search!MapThenFoldSet, First
<1> HIDE DEF h
<1>9. /\ h = [U \in SUBSET Search!Element |-> h[U]]
      /\ h[{}] = 0
      /\ \A U \in SUBSET Search!Element :
           U # {} => h[U] = f[First(U)] + h[U \ {First(U)}]
  BY <1>7
<1> HIDE DEF Right
<1>10. \A U \in SUBSET Search!Element : h[U] \in Nat
  <2> DEFINE B == {U \in SUBSET Search!Element : h[U] \in Nat}
  <2>1. B \in SUBSET SUBSET Search!Element /\ {} \in B
    BY <1>9
  <2>2. \A U \in SUBSET Search!Element :
          U # {} /\ U \ {First(U)} \in B => U \in B
    <3> SUFFICES ASSUME NEW U \in SUBSET Search!Element, U # {},
                        h[U \ {First(U)}] \in Nat
                 PROVE  h[U] \in Nat
      OBVIOUS
    <3>1. f[First(U)] \in Nat
      BY <1>4 DEF Multiset
    <3>2. h[U] = f[First(U)] + h[U \ {First(U)}]
      BY <1>9
    <3> HIDE DEF B
    <3> QED
      BY <3>1, <3>2
  <2> HIDE DEF B
  <2>3. B = SUBSET Search!Element
    BY <2>1, <2>2, ElementInduction
  <2> QED
    BY <2>3 DEF B
<1>11. SumOver(h, f)
  BY <1>4, <1>9, <1>10 DEF SumOver
<1> QED
  BY <1>8, <1>11

Total(f) == Search!SumFunction(f)

LEMMA SumTyped ==
  ASSUME NEW f \in Multiset
  PROVE  Total(f) \in Nat
<1>1. PICK h : SumOver(h, f) /\ Total(f) = h[Search!Element]
  BY SumFunctionIs DEF Total
<1> QED
  BY <1>1 DEF SumOver

\* A claim on three functions that their recursions keep.
LEMMA SumsRelate ==
  ASSUME NEW f \in Multiset, NEW g \in Multiset, NEW k \in Multiset,
         \A i \in Search!Element : k[i] = f[i] + g[i]
  PROVE  Total(k) = Total(f) + Total(g)
<1>1. PICK a : SumOver(a, f) /\ Total(f) = a[Search!Element]
  BY SumFunctionIs DEF Total
<1>2. PICK b : SumOver(b, g) /\ Total(g) = b[Search!Element]
  BY SumFunctionIs DEF Total
<1>3. PICK c : SumOver(c, k) /\ Total(k) = c[Search!Element]
  BY SumFunctionIs DEF Total
<1> DEFINE B == {U \in SUBSET Search!Element : c[U] = a[U] + b[U]}
<1>4. B \in SUBSET SUBSET Search!Element /\ {} \in B
  BY <1>1, <1>2, <1>3 DEF SumOver
<1>5. \A U \in SUBSET Search!Element :
        U # {} /\ U \ {First(U)} \in B => U \in B
  <2> SUFFICES ASSUME NEW U \in SUBSET Search!Element, U # {},
                      U \ {First(U)} \in B
               PROVE  c[U] = a[U] + b[U]
    OBVIOUS
  <2> DEFINE i == First(U)
             V == U \ {First(U)}
  <2>1. i \in Search!Element /\ V \in SUBSET Search!Element
    BY <1>1 DEF SumOver
  <2>2. /\ a[U] = f[i] + a[V] /\ b[U] = g[i] + b[V] /\ c[U] = k[i] + c[V]
        /\ a[V] \in Nat /\ b[V] \in Nat /\ c[V] \in Nat
    BY <1>1, <1>2, <1>3, <2>1 DEF SumOver
  <2>3. k[i] = f[i] + g[i] /\ f[i] \in Nat /\ g[i] \in Nat
    BY <2>1 DEF Multiset
  <2>4. c[V] = a[V] + b[V]
    OBVIOUS
  <2> HIDE DEF i, V
  <2> QED
    BY <2>2, <2>3, <2>4
<1> HIDE DEF B
<1>6. Search!Element \in B
  BY <1>4, <1>5, ElementInduction
<1> QED
  BY <1>1, <1>2, <1>3, <1>6 DEF B

\* A function that is 0 but for one element.
LEMMA SumOfOne ==
  ASSUME NEW f \in Multiset, NEW x \in Search!Element,
         \A i \in Search!Element : i # x => f[i] = 0
  PROVE  Total(f) = f[x]
<1>1. PICK a : SumOver(a, f) /\ Total(f) = a[Search!Element]
  BY SumFunctionIs DEF Total
<1> DEFINE B == {U \in SUBSET Search!Element :
                   a[U] = IF x \in U THEN f[x] ELSE 0}
<1>2. B \in SUBSET SUBSET Search!Element /\ {} \in B
  BY <1>1 DEF SumOver
<1>3. \A U \in SUBSET Search!Element :
        U # {} /\ U \ {First(U)} \in B => U \in B
  <2> SUFFICES ASSUME NEW U \in SUBSET Search!Element, U # {},
                      U \ {First(U)} \in B
               PROVE  a[U] = IF x \in U THEN f[x] ELSE 0
    OBVIOUS
  <2> DEFINE i == First(U)
             V == U \ {First(U)}
  <2>1. i \in Search!Element /\ i \in U
    BY <1>1 DEF SumOver
  <2>2. a[U] = f[i] + a[V] /\ a[V] \in Nat
    BY <1>1 DEF SumOver
  <2>3. f[i] \in Nat /\ f[x] \in Nat /\ (i # x => f[i] = 0)
    BY <2>1 DEF Multiset
  <2>4. a[V] = IF x \in V THEN f[x] ELSE 0
    OBVIOUS
  <2>5. x \in V <=> x \in U /\ x # i
    OBVIOUS
  <2> HIDE DEF i, V
  <2> QED
    BY <2>1, <2>2, <2>3, <2>4, <2>5
<1> HIDE DEF B
<1>4. Search!Element \in B
  BY <1>2, <1>3, ElementInduction
<1> QED
  BY <1>1, <1>4 DEF B

\* A sum is not below one of its terms.
LEMMA SumAbove ==
  ASSUME NEW f \in Multiset, NEW x \in Search!Element
  PROVE  f[x] <= Total(f)
<1> DEFINE g == [i \in Search!Element |-> IF i = x THEN f[x] ELSE 0]
           k == [i \in Search!Element |-> IF i = x THEN 0 ELSE f[i]]
<1>1. g \in Multiset /\ k \in Multiset /\ g[x] = f[x]
  BY DEF Multiset
<1>2. \A i \in Search!Element : f[i] = g[i] + k[i]
  BY DEF Multiset
<1>3. \A i \in Search!Element : i # x => g[i] = 0
  OBVIOUS
<1> HIDE DEF g, k
<1>4. Total(f) = Total(g) + Total(k) /\ Total(g) = f[x]
  BY <1>1, <1>2, <1>3, SumsRelate, SumOfOne
<1> QED
  BY <1>1, <1>4, SumTyped DEF Multiset

LEMMA TotalOfNone ==
  ASSUME NEW f \in Multiset
  PROVE  Total(f) = 0 <=> \A i \in Search!Element : f[i] = 0
<1>1. ASSUME \A i \in Search!Element : f[i] = 0
      PROVE  Total(f) = 0
  <2>1. \A i \in Search!Element : f[i] = f[i] + f[i]
    BY <1>1
  <2>2. Total(f) = Total(f) + Total(f)
    BY <2>1, SumsRelate
  <2> QED
    BY <2>2, SumTyped
<1>2. ASSUME Total(f) = 0, NEW i \in Search!Element PROVE f[i] = 0
  BY <1>2, SumAbove DEF Multiset
<1> QED
  BY <1>1, <1>2

\* Of a sum of at most c times the terms.
LEMMA SumScaled ==
  ASSUME NEW f \in Multiset, NEW g \in Multiset, NEW c \in Nat,
         \A i \in Search!Element : f[i] <= c * g[i]
  PROVE  Total(f) <= c * Total(g)
<1>1. PICK a : SumOver(a, f) /\ Total(f) = a[Search!Element]
  BY SumFunctionIs DEF Total
<1>2. PICK b : SumOver(b, g) /\ Total(g) = b[Search!Element]
  BY SumFunctionIs DEF Total
<1> DEFINE B == {U \in SUBSET Search!Element : a[U] <= c * b[U]}
<1>4. B \in SUBSET SUBSET Search!Element /\ {} \in B
  BY <1>1, <1>2 DEF SumOver
<1>5. \A U \in SUBSET Search!Element :
        U # {} /\ U \ {First(U)} \in B => U \in B
  <2> SUFFICES ASSUME NEW U \in SUBSET Search!Element, U # {},
                      U \ {First(U)} \in B
               PROVE  a[U] <= c * b[U]
    OBVIOUS
  <2> DEFINE i == First(U)
             V == U \ {First(U)}
  <2>1. i \in Search!Element /\ V \in SUBSET Search!Element
    BY <1>1 DEF SumOver
  <2>2. /\ a[U] = f[i] + a[V] /\ b[U] = g[i] + b[V]
        /\ a[V] \in Nat /\ b[V] \in Nat
    BY <1>1, <1>2, <2>1 DEF SumOver
  <2>3. f[i] <= c * g[i] /\ f[i] \in Nat /\ g[i] \in Nat
    BY <2>1 DEF Multiset
  <2>4. a[V] <= c * b[V]
    OBVIOUS
  <2> HIDE DEF i, V
  <2>5. c * (g[i] + b[V]) = c * g[i] + c * b[V]
    BY <2>2, <2>3
  <2>6. c * g[i] \in Nat /\ c * b[V] \in Nat
    BY <2>2, <2>3
  <2> QED
    BY <2>2, <2>3, <2>4, <2>5, <2>6
<1> HIDE DEF B
<1>6. Search!Element \in B
  BY <1>4, <1>5, ElementInduction
<1> QED
  BY <1>1, <1>2, <1>6 DEF B

-----------------------------------------------------------------------------
(* Weights                                                                 *)

Single(x, c) == [i \in Search!Element |-> IF i = x THEN c ELSE 0]

\* n holds what m and k hold together.
Adds(n, m, k) == \A i \in Search!Element : n[i] = m[i] + k[i]

Weighted(m) == [i \in Search!Element |-> i * m[i]]

LEMMA ElementPositive ==
  ASSUME NEW i \in Search!Element
  PROVE  i \in Nat /\ 1 <= i
BY Search!DAssumption DEF Search!Element

LEMMA WeightedTyped ==
  ASSUME NEW m \in Multiset
  PROVE  /\ Weighted(m) \in Multiset
         /\ \A i \in Search!Element : Weighted(m)[i] = i * m[i]
         /\ Search!Weight(m) = Total(Weighted(m))
<1>1. \A i \in Search!Element : i \in Nat /\ m[i] \in Nat
  BY ElementPositive DEF Multiset
<1>2. \A i \in Search!Element : i * m[i] \in Nat
  BY <1>1
<1> QED
  BY <1>2 DEF Multiset, Weighted, Search!Weight, Total

LEMMA WeightTyped ==
  ASSUME NEW m \in Multiset
  PROVE  Search!Weight(m) \in Nat
BY WeightedTyped, SumTyped

LEMMA WeightAdds ==
  ASSUME NEW n \in Multiset, NEW m \in Multiset, NEW k \in Multiset,
         Adds(n, m, k)
  PROVE  /\ Search!Weight(n) = Search!Weight(m) + Search!Weight(k)
         /\ Total(n) = Total(m) + Total(k)
<1>1. \A i \in Search!Element :
        Weighted(n)[i] = Weighted(m)[i] + Weighted(k)[i]
  <2> SUFFICES ASSUME NEW i \in Search!Element
               PROVE  Weighted(n)[i] = Weighted(m)[i] + Weighted(k)[i]
    OBVIOUS
  <2>1. i \in Nat /\ n[i] = m[i] + k[i] /\ m[i] \in Nat /\ k[i] \in Nat
    BY ElementPositive DEF Multiset, Adds
  <2>2. i * (m[i] + k[i]) = i * m[i] + i * k[i]
    BY <2>1
  <2> QED
    BY <2>1, <2>2, WeightedTyped
<1>2. Total(Weighted(n)) = Total(Weighted(m)) + Total(Weighted(k))
  BY <1>1, WeightedTyped, SumsRelate
<1> QED
  BY <1>2, WeightedTyped, SumsRelate DEF Adds

LEMMA SingleIs ==
  ASSUME NEW x \in Search!Element, NEW c \in Nat
  PROVE  /\ Single(x, c) \in Multiset
         /\ \A i \in Search!Element :
              Single(x, c)[i] = IF i = x THEN c ELSE 0
BY DEF Single, Multiset

LEMMA WeightSingle ==
  ASSUME NEW x \in Search!Element, NEW c \in Nat
  PROVE  Search!Weight(Single(x, c)) = x * c /\ Total(Single(x, c)) = c
<1> DEFINE m == Single(x, c)
<1>1. m \in Multiset /\ m[x] = c
      /\ \A i \in Search!Element : i # x => m[i] = 0
  BY SingleIs
<1> HIDE DEF m
<1>2. \A i \in Search!Element : i # x => Weighted(m)[i] = 0
  BY <1>1, WeightedTyped, ElementPositive
<1>3. Weighted(m)[x] = x * c
  BY <1>1, WeightedTyped
<1>4. Total(Weighted(m)) = x * c
  BY <1>1, <1>2, <1>3, WeightedTyped, SumOfOne
<1>5. Total(m) = c
  BY <1>1, SumOfOne
<1> QED
  BY <1>1, <1>4, <1>5, WeightedTyped DEF m

LEMMA PlusIs ==
  ASSUME NEW m \in Multiset, NEW x \in Search!Element
  PROVE  /\ Search!Plus(m, x) \in Multiset
         /\ Adds(Search!Plus(m, x), m, Single(x, 1))
         /\ \A i \in Search!Element :
              Search!Plus(m, x)[i] = IF i = x THEN m[i] + 1 ELSE m[i]
BY DEF Search!Plus, Multiset, Adds, Single

LEMMA WeightPlus ==
  ASSUME NEW m \in Multiset, NEW x \in Search!Element
  PROVE  /\ Search!Weight(Search!Plus(m, x)) = Search!Weight(m) + x
         /\ Total(Search!Plus(m, x)) = Total(m) + 1
<1>1. /\ Search!Plus(m, x) \in Multiset /\ Single(x, 1) \in Multiset
      /\ Adds(Search!Plus(m, x), m, Single(x, 1))
  BY PlusIs, SingleIs
<1>2. Search!Weight(Single(x, 1)) = x /\ Total(Single(x, 1)) = 1
  <2>1. x \in Nat /\ x * 1 = x
    BY ElementPositive
  <2> QED
    BY <2>1, WeightSingle
<1> QED
  BY <1>1, <1>2, WeightAdds

LEMMA UnionIs ==
  ASSUME NEW m \in Multiset, NEW k \in Multiset
  PROVE  Search!Union(m, k) \in Multiset /\ Adds(Search!Union(m, k), m, k)
BY DEF Search!Union, Multiset, Adds

Less(m, k) == [i \in Search!Element |-> m[i] - k[i]]

LEMMA LessIs ==
  ASSUME NEW m \in Multiset, NEW k \in Multiset, Search!Included(k, m)
  PROVE  Less(m, k) \in Multiset /\ Adds(m, k, Less(m, k))
<1>1. \A i \in Search!Element : m[i] \in Nat /\ k[i] \in Nat /\ k[i] <= m[i]
  BY DEF Multiset, Search!Included
<1>2. \A i \in Search!Element : m[i] - k[i] \in Nat
                                /\ m[i] = k[i] + (m[i] - k[i])
  BY <1>1
<1>3. \A i \in Search!Element : Less(m, k)[i] = m[i] - k[i]
  BY DEF Less
<1>4. Less(m, k) \in Multiset
  BY <1>2 DEF Less, Multiset
<1> QED
  BY <1>2, <1>3, <1>4 DEF Adds

LEMMA SameMultiset ==
  ASSUME NEW m \in Multiset, NEW k \in Multiset,
         \A i \in Search!Element : m[i] = k[i]
  PROVE  m = k
<1>1. m = [i \in Search!Element |-> m[i]]
  BY DEF Multiset
<1>2. k = [i \in Search!Element |-> k[i]]
  BY DEF Multiset
<1> QED
  BY <1>1, <1>2

LEMMA EmptyIs ==
  /\ Search!Empty \in Multiset
  /\ \A i \in Search!Element : Search!Empty[i] = 0
  /\ Search!Weight(Search!Empty) = 0 /\ Total(Search!Empty) = 0
<1>1. /\ Search!Empty \in Multiset
      /\ \A i \in Search!Element : Search!Empty[i] = 0
  BY DEF Search!Empty, Multiset
<1> DEFINE e == Search!Empty
<1>2. Adds(e, e, e)
  BY <1>1 DEF Adds
<1> HIDE DEF e
<1>3. /\ Search!Weight(e) = Search!Weight(e) + Search!Weight(e)
      /\ Total(e) = Total(e) + Total(e)
  BY <1>1, <1>2, WeightAdds DEF e
<1>4. Search!Weight(e) \in Nat /\ Total(e) \in Nat
  BY <1>1, WeightTyped, SumTyped DEF e
<1>5. \A n \in Nat : n = n + n => n = 0
  OBVIOUS
<1>6. Search!Weight(e) = 0 /\ Total(e) = 0
  BY <1>3, <1>4, <1>5, Zenon
<1> QED
  BY <1>1, <1>6 DEF e

\* No element of m is above its weight.
LEMMA WeightAbove ==
  ASSUME NEW m \in Multiset, NEW x \in Search!Element, m[x] > 0
  PROVE  x <= Search!Weight(m)
<1>1. Weighted(m)[x] <= Search!Weight(m)
  BY WeightedTyped, SumAbove
<1>2. x \in Nat /\ m[x] \in Nat
  BY ElementPositive DEF Multiset
<1>3. x <= x * m[x]
  BY <1>2
<1> QED
  BY <1>1, <1>2, <1>3, WeightedTyped, WeightTyped

LEMMA WeightNone ==
  ASSUME NEW m \in Multiset
  PROVE  Search!Weight(m) = 0 <=> m = Search!Empty
<1>1. ASSUME Search!Weight(m) = 0 PROVE m = Search!Empty
  <2>1. \A i \in Search!Element : m[i] = 0
    BY <1>1, WeightAbove, ElementPositive DEF Multiset
  <2> QED
    BY <2>1, EmptyIs, SameMultiset
<1> QED
  BY <1>1, EmptyIs

LEMMA WeightIncluded ==
  ASSUME NEW m \in Multiset, NEW k \in Multiset, Search!Included(k, m)
  PROVE  /\ Search!Weight(k) <= Search!Weight(m)
         /\ Search!Weight(k) = Search!Weight(m) => k = m
         /\ Search!Weight(m) - Search!Weight(k) = Search!Weight(Less(m, k))
         /\ Total(k) <= Total(m)
<1> DEFINE r == Less(m, k)
<1>1. r \in Multiset /\ Adds(m, k, r)
  BY LessIs
<1> HIDE DEF r
<1>2. /\ Search!Weight(m) = Search!Weight(k) + Search!Weight(r)
      /\ Total(m) = Total(k) + Total(r)
  BY <1>1, WeightAdds
<1>3. /\ Search!Weight(m) \in Nat /\ Search!Weight(k) \in Nat
      /\ Search!Weight(r) \in Nat
      /\ Total(m) \in Nat /\ Total(k) \in Nat /\ Total(r) \in Nat
  BY <1>1, WeightTyped, SumTyped
<1>4. ASSUME Search!Weight(k) = Search!Weight(m) PROVE k = m
  <2>1. Search!Weight(r) = 0
    BY <1>2, <1>3, <1>4
  <2>2. r = Search!Empty
    BY <1>1, <2>1, WeightNone
  <2>3. \A i \in Search!Element : m[i] = k[i]
    BY <1>1, <2>2, EmptyIs DEF Adds, Multiset
  <2> QED
    BY <2>3, SameMultiset
<1> QED
  BY <1>2, <1>3, <1>4 DEF r

\* A multiset whose weight is one of its elements has no other.
LEMMA WeightOfOne ==
  ASSUME NEW m \in Multiset, NEW x \in Search!Element, m[x] > 0,
         Search!Weight(m) = x \/ Total(m) = 1
  PROVE  m = Single(x, 1)
<1> DEFINE s == Single(x, 1)
<1>1. s \in Multiset /\ Search!Weight(s) = x /\ Total(s) = 1
  <2>1. x \in Nat /\ x * 1 = x
    BY ElementPositive
  <2> QED
    BY <2>1, SingleIs, WeightSingle
<1>2. Search!Included(s, m)
  BY SingleIs DEF Search!Included, Multiset
<1> HIDE DEF s
<1>3. CASE Search!Weight(m) = x
  BY <1>1, <1>2, <1>3, WeightIncluded DEF s
<1>4. CASE Total(m) = 1
  <2> DEFINE r == Less(m, s)
  <2>1. r \in Multiset /\ Adds(m, s, r)
    BY <1>1, <1>2, LessIs
  <2> HIDE DEF r
  <2>2. Total(m) = Total(s) + Total(r) /\ Total(r) \in Nat
    BY <1>1, <2>1, WeightAdds, SumTyped
  <2>3. Total(r) = 0
    BY <1>1, <1>4, <2>2
  <2>4. \A i \in Search!Element : r[i] = 0
    BY <2>1, <2>3, TotalOfNone
  <2>5. \A i \in Search!Element : m[i] = s[i]
    BY <1>1, <2>1, <2>4 DEF Adds, Multiset
  <2> QED
    BY <1>1, <2>5, SameMultiset DEF s
<1> QED
  BY <1>3, <1>4

LEMMA SomeElement ==
  ASSUME NEW m \in Multiset, Search!Weight(m) > 0 \/ Total(m) > 0
  PROVE  \E x \in Search!Element : m[x] > 0
<1>1. CASE Total(m) > 0
  BY <1>1, TotalOfNone DEF Multiset
<1>2. CASE Search!Weight(m) > 0
  <2> SUFFICES ASSUME \A i \in Search!Element : m[i] = 0 PROVE FALSE
    BY DEF Multiset
  <2>1. m = Search!Empty
    BY EmptyIs, SameMultiset
  <2> QED
    BY <1>2, <2>1, WeightNone
<1> QED
  BY <1>1, <1>2

-----------------------------------------------------------------------------
(* The sums of a multiset                                                  *)

\* v is the weight of a part of m that holds elements of U only.
Part(m, v, U, k) ==
  /\ k \in Multiset /\ Search!Included(k, m) /\ Search!Weight(k) = v
  /\ \A i \in Search!Element \ U : k[i] = 0

Parts(m, v, U) == \E k : Part(m, v, U, k)

\* Copies of one more element.
LEMMA PartMore ==
  ASSUME NEW m \in Multiset, NEW s, NEW V \in SUBSET Search!Element,
         Parts(m, s, V), NEW i \in Search!Element, i \notin V,
         NEW c \in Nat, c <= m[i]
  PROVE  Parts(m, s + i * c, V \cup {i})
<1>1. PICK k : Part(m, s, V, k)
  BY DEF Parts
<1> DEFINE n == [e \in Search!Element |-> IF e = i THEN c ELSE k[e]]
<1>2. /\ n \in Multiset
      /\ \A e \in Search!Element : n[e] = IF e = i THEN c ELSE k[e]
  BY <1>1 DEF Multiset, Part
<1> HIDE DEF n
<1>3. Adds(n, k, Single(i, c))
  BY <1>1, <1>2, SingleIs DEF Adds, Multiset, Part
<1>4. Search!Weight(n) = s + i * c
  BY <1>1, <1>2, <1>3, SingleIs, WeightSingle, WeightAdds DEF Part
<1>5. Search!Included(n, m)
  BY <1>1, <1>2 DEF Search!Included, Part
<1>6. \A e \in Search!Element \ (V \cup {i}) : n[e] = 0
  BY <1>1, <1>2 DEF Part
<1>7. Part(m, s + i * c, V \cup {i}, n)
  BY <1>2, <1>4, <1>5, <1>6 DEF Part
<1> QED
  BY <1>7 DEF Parts

PartsWithout(m, v, U, i) ==
  \E c \in 0..m[i], s \in Nat : Parts(m, s, U \ {i}) /\ v = s + i * c

\* All copies of one element taken out.
LEMMA PartLess ==
  ASSUME NEW m \in Multiset, NEW v, NEW U \in SUBSET Search!Element,
         Parts(m, v, U), NEW i \in U
  PROVE  PartsWithout(m, v, U, i)
<1>1. PICK k : Part(m, v, U, k)
  BY DEF Parts
<1> DEFINE r == [e \in Search!Element |-> IF e = i THEN 0 ELSE k[e]]
           c == k[i]
<1>2. /\ r \in Multiset
      /\ \A e \in Search!Element : r[e] = IF e = i THEN 0 ELSE k[e]
  BY <1>1 DEF Multiset, Part
<1>3. c \in Nat /\ c <= m[i] /\ m[i] \in Nat /\ i \in Search!Element
  BY <1>1 DEF Multiset, Part, Search!Included
<1>4. Adds(k, r, Single(i, c))
  BY <1>1, <1>2, SingleIs DEF Adds, Multiset, Part
<1> HIDE DEF r, c
<1>5. v = Search!Weight(r) + i * c
  BY <1>1, <1>2, <1>3, <1>4, SingleIs, WeightSingle, WeightAdds DEF Part
<1>6. Search!Included(r, m)
  BY <1>1, <1>2 DEF Search!Included, Part, Multiset
<1>7. \A e \in Search!Element \ (U \ {i}) : r[e] = 0
  BY <1>1, <1>2 DEF Part
<1>8. Part(m, Search!Weight(r), U \ {i}, r)
  BY <1>2, <1>6, <1>7 DEF Part
<1>9. Parts(m, Search!Weight(r), U \ {i}) /\ Search!Weight(r) \in Nat
  BY <1>2, <1>8, WeightTyped DEF Parts
<1>10. c \in 0..m[i]
  BY <1>3
<1> QED
  BY <1>5, <1>9, <1>10 DEF PartsWithout

\* SubsetSums(m) holds the weights of the parts of m.
LEMMA SumsAre ==
  ASSUME NEW m \in Multiset
  PROVE  \A v : v \in Search!SubsetSums(m) <=>
           \E k \in Multiset : Search!Included(k, m) /\ Search!Weight(k) = v
<1>1. PICK g \in [SUBSET Search!Element -> SUBSET Nat] :
        SumsOf(g, m) /\ Search!SubsetSums(m) = g[Search!Element]
  BY SubsetSumsIs
<1>2. g[{}] = {0}
  BY <1>1 DEF SumsOf
<1>3. \A U \in SUBSET Search!Element :
        U # {} => g[U] = Spread(g[U \ {First(U)}], First(U), m[First(U)])
  BY <1>1 DEF SumsOf
<1> DEFINE B == {U \in SUBSET Search!Element :
                   \A v : v \in g[U] <=> Parts(m, v, U)}
<1>4. {} \in B
  <2>1. ASSUME NEW v, v \in g[{}] PROVE Parts(m, v, {})
    <3>1. Part(m, 0, {}, Search!Empty)
      BY EmptyIs DEF Part, Search!Included, Multiset
    <3> QED
      BY <1>2, <2>1, <3>1 DEF Parts
  <2>2. ASSUME NEW v, Parts(m, v, {}) PROVE v \in g[{}]
    <3>1. PICK k : Part(m, v, {}, k)
      BY <2>2 DEF Parts
    <3>2. k = Search!Empty
      BY <3>1, EmptyIs, SameMultiset DEF Part
    <3>3. v = 0
      BY <3>1, <3>2, EmptyIs DEF Part
    <3> QED
      BY <1>2, <3>3
  <2> QED
    BY <2>1, <2>2
<1>5. \A U \in SUBSET Search!Element :
        U # {} /\ U \ {First(U)} \in B => U \in B
  <2> SUFFICES ASSUME NEW U \in SUBSET Search!Element, U # {},
                      U \ {First(U)} \in B
               PROVE  \A v : v \in g[U] <=> Parts(m, v, U)
    OBVIOUS
  <2> DEFINE i == First(U)
             V == U \ {First(U)}
  <2>1. i \in U /\ i \in Search!Element /\ i \notin V
        /\ V \in SUBSET Search!Element /\ V \cup {i} = U
    BY DEF First
  <2>2. \A v : v \in g[V] <=> Parts(m, v, V)
    OBVIOUS
  <2>3. g[U] = Spread(g[V], i, m[i])
    BY <1>3
  <2>4. g[V] \in SUBSET Nat /\ V = U \ {i} /\ m[i] \in Nat
    BY <1>1, <2>1 DEF Multiset
  <2> HIDE DEF i, V, B
  <2>5. ASSUME NEW v, v \in g[U] PROVE Parts(m, v, U)
    <3>1. PICK s \in g[V], c \in 0..m[i] : v = s + i * c
      BY <2>3, <2>5 DEF Spread
    <3>2. c \in Nat /\ c <= m[i]
      BY <2>4
    <3>3. Parts(m, s, V)
      BY <2>2, Zenon
    <3>4. Parts(m, s + i * c, V \cup {i})
      BY <2>1, <3>2, <3>3, PartMore
    <3> QED
      BY <2>1, <3>1, <3>4
  <2>6. ASSUME NEW v, Parts(m, v, U) PROVE v \in g[U]
    <3> PartsWithout(m, v, U, i)
      BY <2>1, <2>6, PartLess
    <3>1. PICK c \in 0..m[i], s \in Nat :
            Parts(m, s, U \ {i}) /\ v = s + i * c
      BY DEF PartsWithout
    <3>2. s \in g[V]
      BY <2>2, <2>4, <3>1
    <3> QED
      BY <2>3, <3>1, <3>2 DEF Spread
  <2> QED
    BY <2>5, <2>6
<1>6. B \in SUBSET SUBSET Search!Element
  OBVIOUS
<1> HIDE DEF B
<1>7. Search!Element \in B
  BY <1>4, <1>5, <1>6, ElementInduction
<1>8. \A v : v \in Search!SubsetSums(m) <=> Parts(m, v, Search!Element)
  BY <1>1, <1>7 DEF B
<1>9. \A v : Parts(m, v, Search!Element) <=>
        \E k \in Multiset : Search!Included(k, m) /\ Search!Weight(k) = v
  BY DEF Parts, Part
<1> QED
  BY <1>8, <1>9, Zenon

LEMMA IncludedTrans ==
  ASSUME NEW m \in Multiset, NEW k \in Multiset, NEW n \in Multiset,
         Search!Included(m, k), Search!Included(k, n)
  PROVE  Search!Included(m, n)
<1> SUFFICES ASSUME NEW i \in Search!Element PROVE m[i] <= n[i]
  BY DEF Search!Included
<1>1. m[i] \in Nat /\ k[i] \in Nat /\ n[i] \in Nat
  BY DEF Multiset
<1>2. m[i] <= k[i] /\ k[i] <= n[i]
  BY DEF Search!Included
<1> QED
  BY <1>1, <1>2

LEMMA IncludedSelf ==
  ASSUME NEW m \in Multiset
  PROVE  Search!Included(m, m)
BY DEF Search!Included, Multiset

\* 0 and the weight are sums, and the others lie between.
LEMMA SumsEnds ==
  ASSUME NEW m \in Multiset
  PROVE  /\ 0 \in Search!SubsetSums(m)
         /\ Search!Weight(m) \in Search!SubsetSums(m)
         /\ \A v \in Search!SubsetSums(m) :
              v \in Nat /\ v <= Search!Weight(m)
<1>1. Search!Included(Search!Empty, m)
  BY EmptyIs DEF Search!Included, Multiset
<1>2. 0 \in Search!SubsetSums(m)
  BY <1>1, EmptyIs, SumsAre
<1>3. Search!Weight(m) \in Search!SubsetSums(m)
  BY IncludedSelf, SumsAre
<1>4. ASSUME NEW v \in Search!SubsetSums(m)
      PROVE  v \in Nat /\ v <= Search!Weight(m)
  <2>1. PICK k \in Multiset :
          Search!Included(k, m) /\ Search!Weight(k) = v
    BY SumsAre
  <2> QED
    BY <2>1, WeightTyped, WeightIncluded
<1> QED
  BY <1>2, <1>3, <1>4

LEMMA SumsMonotone ==
  ASSUME NEW m \in Multiset, NEW k \in Multiset, Search!Included(k, m)
  PROVE  Search!SubsetSums(k) \subseteq Search!SubsetSums(m)
<1> SUFFICES ASSUME NEW v \in Search!SubsetSums(k)
             PROVE  v \in Search!SubsetSums(m)
  OBVIOUS
<1>1. PICK n \in Multiset : Search!Included(n, k) /\ Search!Weight(n) = v
  BY SumsAre
<1>2. Search!Included(n, m)
  BY <1>1, IncludedTrans
<1> QED
  BY <1>1, <1>2, SumsAre

\* The difference of two nested parts of m is a sum of m.
LEMMA SumsDifference ==
  ASSUME NEW m \in Multiset, NEW k \in Multiset, NEW n \in Multiset,
         Search!Included(k, n), Search!Included(n, m)
  PROVE  Search!Weight(n) - Search!Weight(k) \in Search!SubsetSums(m)
<1> DEFINE r == Less(n, k)
<1>1. r \in Multiset /\ Adds(n, k, r)
  BY LessIs
<1>2. Search!Weight(n) - Search!Weight(k) = Search!Weight(r)
  BY WeightIncluded
<1> HIDE DEF r
<1>3. Search!Included(r, n)
  BY <1>1 DEF Search!Included, Adds, Multiset
<1>4. Search!Included(r, m)
  BY <1>1, <1>3, IncludedTrans
<1> QED
  BY <1>1, <1>2, <1>4, SumsAre

LEMMA SumsElement ==
  ASSUME NEW m \in Multiset, NEW x \in Search!Element, m[x] > 0
  PROVE  x \in Search!SubsetSums(m)
<1> DEFINE s == Single(x, 1)
<1>1. s \in Multiset /\ Search!Weight(s) = x
  <2>1. x \in Nat /\ x * 1 = x
    BY ElementPositive
  <2> QED
    BY <2>1, SingleIs, WeightSingle
<1>2. Search!Included(s, m)
  BY SingleIs DEF Search!Included, Multiset
<1> HIDE DEF s
<1> QED
  BY <1>1, <1>2, SumsAre

\* What SumsetAdd does to the bits.
LEMMA SumsPlus ==
  ASSUME NEW m \in Multiset, NEW x \in Search!Element
  PROVE  Search!SubsetSums(Search!Plus(m, x)) =
           Search!SubsetSums(m) \cup {v + x : v \in Search!SubsetSums(m)}
<1> DEFINE n == Search!Plus(m, x)
<1>1. n \in Multiset
      /\ \A i \in Search!Element : n[i] = IF i = x THEN m[i] + 1 ELSE m[i]
  BY PlusIs
<1> HIDE DEF n
<1>2. Search!Included(m, n)
  BY <1>1 DEF Search!Included, Multiset
<1>3. ASSUME NEW v \in Search!SubsetSums(m)
      PROVE  v + x \in Search!SubsetSums(n)
  <2>1. PICK k \in Multiset : Search!Included(k, m) /\ Search!Weight(k) = v
    BY SumsAre
  <2> DEFINE j == Search!Plus(k, x)
  <2>2. /\ j \in Multiset /\ Search!Weight(j) = v + x
        /\ \A i \in Search!Element :
             j[i] = IF i = x THEN k[i] + 1 ELSE k[i]
    BY <2>1, PlusIs, WeightPlus
  <2> HIDE DEF j
  <2>3. Search!Included(j, n)
    BY <1>1, <2>1, <2>2 DEF Search!Included, Multiset
  <2> QED
    BY <1>1, <2>2, <2>3, SumsAre
<1>4. ASSUME NEW v \in Search!SubsetSums(n), v \notin Search!SubsetSums(m)
      PROVE  \E w \in Search!SubsetSums(m) : v = w + x
  <2>1. PICK k \in Multiset : Search!Included(k, n) /\ Search!Weight(k) = v
    BY <1>1, SumsAre
  <2>2. ~ Search!Included(k, m)
    BY <1>4, <2>1, SumsAre
  <2>3. k[x] > m[x]
    BY <1>1, <2>1, <2>2 DEF Search!Included, Multiset
  <2>4. k[x] = m[x] + 1 /\ m[x] \in Nat /\ k[x] \in Nat
    BY <1>1, <2>1, <2>3 DEF Search!Included, Multiset
  <2> DEFINE j == [i \in Search!Element |-> IF i = x THEN m[x] ELSE k[i]]
  <2>5. /\ j \in Multiset
        /\ \A i \in Search!Element : j[i] = IF i = x THEN m[x] ELSE k[i]
    BY <2>4 DEF Multiset
  <2> HIDE DEF j
  <2>6. k = Search!Plus(j, x)
    <3>1. Search!Plus(j, x) \in Multiset
          /\ \A i \in Search!Element :
               Search!Plus(j, x)[i] = IF i = x THEN j[i] + 1 ELSE j[i]
      BY <2>5, PlusIs
    <3>2. \A i \in Search!Element : k[i] = Search!Plus(j, x)[i]
      BY <2>4, <2>5, <3>1
    <3> QED
      BY <3>1, <3>2, SameMultiset
  <2>7. v = Search!Weight(j) + x
    BY <2>1, <2>5, <2>6, WeightPlus
  <2>8. Search!Included(j, m)
    <3> SUFFICES ASSUME NEW i \in Search!Element PROVE j[i] <= m[i]
      BY DEF Search!Included
    <3>1. k[i] <= n[i] /\ m[i] \in Nat
      BY <2>1 DEF Search!Included, Multiset
    <3> QED
      BY <1>1, <2>5, <3>1
  <2> QED
    BY <2>5, <2>7, <2>8, SumsAre
<1>5. Search!SubsetSums(m) \subseteq Search!SubsetSums(n)
  BY <1>1, <1>2, SumsMonotone
<1> QED
  BY <1>3, <1>4, <1>5 DEF n

-----------------------------------------------------------------------------
(* No uncontestable pair weighs more than D * (D - 1)                      *)

Small(m) == \A i \in Search!Element : m[i] > 0 => i <= D

\* An uncontestable pair of multisets of elements up to D.
Pair(A, B) ==
  /\ A \in Multiset /\ B \in Multiset /\ Small(A) /\ Small(B)
  /\ Search!Weight(A) = Search!Weight(B)
  /\ Search!SubsetSums(A) \cap Search!SubsetSums(B) =
       {0, Search!Weight(A)}

\* A part k of m with one more element of m.
More(k, m) ==
  IF \E x \in Search!Element : k[x] < m[x]
  THEN Search!Plus(k, CHOOSE x \in Search!Element : k[x] < m[x])
  ELSE k

LEMMA MoreTyped ==
  ASSUME NEW k \in Multiset, NEW m \in Multiset
  PROVE  More(k, m) \in Multiset
<1>1. CASE \E x \in Search!Element : k[x] < m[x]
  BY <1>1, PlusIs DEF More
<1>2. CASE ~ \E x \in Search!Element : k[x] < m[x]
  BY <1>2 DEF More
<1> QED
  BY <1>1, <1>2

\* It is a part of m, heavier by that element.
LEMMA MoreIs ==
  ASSUME NEW k \in Multiset, NEW m \in Multiset,
         Search!Included(k, m), k # m
  PROVE  /\ Search!Included(k, More(k, m)) /\ Search!Included(More(k, m), m)
         /\ Total(More(k, m)) = Total(k) + 1
         /\ \E x \in Search!Element :
              m[x] > 0 /\ Search!Weight(More(k, m)) = Search!Weight(k) + x
<1>1. \E x \in Search!Element : k[x] < m[x]
  <2> SUFFICES ASSUME \A x \in Search!Element : ~(k[x] < m[x]) PROVE FALSE
    OBVIOUS
  <2>1. \A x \in Search!Element : k[x] = m[x]
    BY DEF Search!Included, Multiset
  <2> QED
    BY <2>1, SameMultiset
<1> DEFINE x == CHOOSE x \in Search!Element : k[x] < m[x]
<1>2. x \in Search!Element /\ k[x] < m[x]
  BY <1>1
<1>3. More(k, m) = Search!Plus(k, x)
  BY <1>1 DEF More
<1> HIDE DEF x
<1>4. /\ Total(More(k, m)) = Total(k) + 1
      /\ Search!Weight(More(k, m)) = Search!Weight(k) + x
  BY <1>2, <1>3, WeightPlus
<1>5. \A i \in Search!Element :
        More(k, m)[i] = IF i = x THEN k[i] + 1 ELSE k[i]
  BY <1>2, <1>3, PlusIs
<1>6. m[x] > 0
  BY <1>2 DEF Multiset
<1>7. Search!Included(k, More(k, m)) /\ Search!Included(More(k, m), m)
  BY <1>2, <1>5 DEF Search!Included, Multiset
<1> QED
  BY <1>2, <1>4, <1>6, <1>7

\* After n elements, the two weights are close to each other.
Balanced(A, B, a, b, n) ==
  /\ a \in Multiset /\ b \in Multiset
  /\ Search!Included(a, A) /\ Search!Included(b, B)
  /\ Total(a) + Total(b) = n
  /\ Search!Weight(a) - Search!Weight(b) \in (1 - D)..D

\* One more element, for the lighter of the two.
NextA(A, a, b) ==
  IF Search!Weight(a) <= Search!Weight(b) THEN More(a, A) ELSE a
NextB(B, a, b) ==
  IF Search!Weight(a) <= Search!Weight(b) THEN b ELSE More(b, B)

LEMMA BalancedStep ==
  ASSUME NEW A, NEW B, Pair(A, B), NEW a, NEW b, NEW n \in Nat,
         Balanced(A, B, a, b, n), n < Total(A) + Total(B)
  PROVE  /\ Balanced(A, B, NextA(A, a, b), NextB(B, a, b), n + 1)
         /\ Search!Included(a, NextA(A, a, b))
         /\ Search!Included(b, NextB(B, a, b))
<1>0. /\ A \in Multiset /\ B \in Multiset
      /\ Search!Weight(A) = Search!Weight(B) /\ Search!Weight(A) \in Nat
      /\ a \in Multiset /\ b \in Multiset
      /\ Search!Weight(a) \in Nat /\ Search!Weight(b) \in Nat
      /\ Search!Included(a, A) /\ Search!Included(b, B)
      /\ Total(a) + Total(b) = n /\ Total(a) \in Nat /\ Total(b) \in Nat
      /\ Total(A) \in Nat /\ Total(B) \in Nat
  BY WeightTyped, SumTyped DEF Pair, Balanced
<1>1. /\ Search!Weight(a) - Search!Weight(b) >= 1 - D
      /\ Search!Weight(a) - Search!Weight(b) <= D
      /\ D \in Nat /\ 3 <= D
  BY Search!DAssumption, <1>0 DEF Balanced
<1>2. /\ Search!Weight(a) <= Search!Weight(A)
      /\ Search!Weight(b) <= Search!Weight(B)
      /\ Search!Weight(b) = Search!Weight(B) => b = B
  BY <1>0, WeightIncluded
<1>5. /\ \A p : p = Total(a) + 1 => p + Total(b) = n + 1
      /\ \A p : p = Total(b) + 1 => Total(a) + p = n + 1
  <2> DEFINE t == Total(a)
             u == Total(b)
  <2>1. t \in Nat /\ u \in Nat /\ t + u = n
    BY <1>0
  <2> HIDE DEF t, u
  <2>2. (t + 1) + u = n + 1 /\ t + (u + 1) = n + 1
    BY <2>1
  <2> QED
    BY <2>2, Zenon DEF t, u
<1>3. CASE Search!Weight(a) <= Search!Weight(b)
  <2>1. a # A
    <3> SUFFICES ASSUME a = A PROVE FALSE
      OBVIOUS
    <3>1. Search!Weight(b) = Search!Weight(B)
      BY <1>0, <1>2, <1>3
    <3>2. b = B
      BY <1>2, <3>1
    <3> QED
      BY <1>0, <3>2
  <2> DEFINE c == More(a, A)
  <2>2. /\ c \in Multiset /\ Search!Included(a, c) /\ Search!Included(c, A)
        /\ Total(c) = Total(a) + 1
    BY <1>0, <2>1, MoreTyped, MoreIs
  <2>3. PICK x \in Search!Element :
          A[x] > 0 /\ Search!Weight(c) = Search!Weight(a) + x
    BY <1>0, <2>1, MoreIs
  <2> HIDE DEF c
  <2>4. x \in Nat /\ 1 <= x /\ x <= D
    BY <2>3, ElementPositive DEF Pair, Small
  <2>5. Search!Weight(c) - Search!Weight(b) \in (1 - D)..D
    BY <1>0, <1>1, <1>3, <2>3, <2>4
  <2>6. Total(c) + Total(b) = n + 1
    BY <1>0, <1>5, <2>2, Zenon
  <2>7. Balanced(A, B, c, b, n + 1)
    BY <1>0, <2>2, <2>5, <2>6 DEF Balanced
  <2>8. NextA(A, a, b) = c /\ NextB(B, a, b) = b
    BY <1>3 DEF NextA, NextB, c
  <2> QED
    BY <1>0, <2>2, <2>7, <2>8, IncludedSelf
<1>4. CASE ~(Search!Weight(a) <= Search!Weight(b))
  <2>1. b # B
    BY <1>0, <1>2, <1>4
  <2> DEFINE c == More(b, B)
  <2>2. /\ c \in Multiset /\ Search!Included(b, c) /\ Search!Included(c, B)
        /\ Total(c) = Total(b) + 1
    BY <1>0, <2>1, MoreTyped, MoreIs
  <2>3. PICK x \in Search!Element :
          B[x] > 0 /\ Search!Weight(c) = Search!Weight(b) + x
    BY <1>0, <2>1, MoreIs
  <2> HIDE DEF c
  <2>4. x \in Nat /\ 1 <= x /\ x <= D
    BY <2>3, ElementPositive DEF Pair, Small
  <2>5. Search!Weight(a) - Search!Weight(c) \in (1 - D)..D
    BY <1>0, <1>1, <1>4, <2>3, <2>4
  <2>6. Total(a) + Total(c) = n + 1
    BY <1>0, <1>5, <2>2, Zenon
  <2>7. Balanced(A, B, a, c, n + 1)
    BY <1>0, <2>2, <2>5, <2>6 DEF Balanced
  <2>8. NextA(A, a, b) = a /\ NextB(B, a, b) = c
    BY <1>4 DEF NextA, NextB, c
  <2> QED
    BY <1>0, <2>2, <2>7, <2>8, IncludedSelf
<1> QED
  BY <1>3, <1>4

\* The pairs of parts so reached, one for each number of elements.
Chain(A, B, f, N) ==
  /\ \A n \in 0..N : Balanced(A, B, f[n][1], f[n][2], n)
  /\ \A n \in 0..N, m \in 0..N : n <= m =>
       /\ Search!Included(f[n][1], f[m][1])
       /\ Search!Included(f[n][2], f[m][2])

LEMMA ChainExists ==
  ASSUME NEW A, NEW B, Pair(A, B)
  PROVE  \E f : Chain(A, B, f, Total(A) + Total(B))
<1> DEFINE X == Multiset \X Multiset
           step == [p \in X |-> <<NextA(A, p[1], p[2]), NextB(B, p[1], p[2])>>]
           e == <<Search!Empty, Search!Empty>>
           N == Total(A) + Total(B)
<1>1. A \in Multiset /\ B \in Multiset /\ N \in Nat
  BY SumTyped DEF Pair
<1>2. e \in X
  BY EmptyIs
<1>3. \A p \in X : step[p] = <<NextA(A, p[1], p[2]), NextB(B, p[1], p[2])>>
  OBVIOUS
<1>4. step \in [X -> X]
  <2>1. ASSUME NEW a \in Multiset, NEW b \in Multiset
        PROVE  NextA(A, a, b) \in Multiset /\ NextB(B, a, b) \in Multiset
    BY <1>1, MoreTyped DEF NextA, NextB
  <2> QED
    BY <2>1
<1> HIDE DEF step
<1>5. PICK f : Repeats(f, X, e, step)
  BY <1>2, <1>4, Recursion
<1>6. f[0] = e /\ \A n \in Nat : f[n] \in X /\ f[n + 1] = step[f[n]]
  BY <1>5 DEF Repeats
<1> DEFINE G(n) == Balanced(A, B, f[n][1], f[n][2], n)
           I(n, m) == /\ Search!Included(f[n][1], f[m][1])
                      /\ Search!Included(f[n][2], f[m][2])
<1>7. G(0)
  <2>1. Search!Included(Search!Empty, A) /\ Search!Included(Search!Empty, B)
    BY <1>1, EmptyIs DEF Search!Included, Multiset
  <2>2. 0 - 0 \in (1 - D)..D /\ 0 + 0 = 0
    BY Search!DAssumption
  <2> QED
    BY <1>6, <2>1, <2>2, EmptyIs DEF Balanced
<1>8. ASSUME NEW n \in Nat, n < N, G(n) PROVE G(n + 1) /\ I(n, n + 1)
  <2>1. f[n] = <<f[n][1], f[n][2]>> /\ f[n] \in X
    BY <1>6
  <2>2. /\ f[n + 1][1] = NextA(A, f[n][1], f[n][2])
        /\ f[n + 1][2] = NextB(B, f[n][1], f[n][2])
    BY <1>3, <1>6, <2>1
  <2> QED
    BY <1>8, <2>2, BalancedStep
<1> HIDE DEF G, I, N, X, e
<1>9. \A n \in 0..N : G(n)
  <2> DEFINE S == {n \in 0..N : ~G(n)}
  <2> SUFFICES ASSUME S # {} PROVE FALSE
    OBVIOUS
  <2>1. S \in SUBSET Nat
    BY <1>1
  <2>2. PICK n \in S : \A k \in S : n <= k
    BY <2>1, LeastNat
  <2>3. n \in Nat /\ n <= N /\ ~G(n)
    BY <1>1
  <2>4. n # 0
    BY <1>7, <2>3
  <2>5. n - 1 \in Nat /\ n - 1 < N /\ n - 1 \in 0..N /\ n - 1 + 1 = n
        /\ ~(n <= n - 1)
    BY <1>1, <2>3, <2>4
  <2>6. G(n - 1)
    BY <2>2, <2>5
  <2>7. G(n - 1 + 1)
    BY <1>8, <2>5, <2>6
  <2> QED
    BY <2>3, <2>5, <2>7
<1>10. \A n \in 0..N : f[n][1] \in Multiset /\ f[n][2] \in Multiset
  BY <1>9 DEF G, Balanced
<1>11. \A n, m \in 0..N : n <= m => I(n, m)
  <2> SUFFICES ASSUME NEW n \in 0..N PROVE \A m \in 0..N : n <= m => I(n, m)
    OBVIOUS
  <2> DEFINE S == {m \in 0..N : n <= m /\ ~I(n, m)}
  <2> SUFFICES ASSUME S # {} PROVE FALSE
    OBVIOUS
  <2>1. S \in SUBSET Nat
    BY <1>1
  <2>2. PICK m \in S : \A k \in S : m <= k
    BY <2>1, LeastNat
  <2>3. m \in Nat /\ m <= N /\ n <= m /\ ~I(n, m) /\ n \in Nat /\ m \in 0..N
    BY <1>1
  <2>4. m # n
    BY <1>10, <2>3, IncludedSelf DEF I
  <2> DEFINE j == m - 1
  <2>5. /\ j \in Nat /\ j < N /\ j \in 0..N /\ j + 1 = m
        /\ ~(m <= j) /\ n <= j
    BY <1>1, <2>3, <2>4
  <2> HIDE DEF j
  <2>6. I(n, j)
    BY <2>2, <2>5
  <2>7. I(j, m)
    BY <1>8, <1>9, <2>5
  <2>8. I(n, m)
    BY <1>10, <2>3, <2>5, <2>6, <2>7, IncludedTrans DEF I
  <2> QED
    BY <2>3, <2>8
<1>12. Chain(A, B, f, N)
  <2>1. \A n \in 0..N, m \in 0..N : n <= m =>
          /\ Search!Included(f[n][1], f[m][1])
          /\ Search!Included(f[n][2], f[m][2])
    BY <1>11 DEF I
  <2> QED
    BY <1>9, <2>1 DEF G, Chain
<1> QED
  BY <1>12 DEF N

\* Two links of the chain do not differ by the same weight on both sides,
\* unless they are its ends.
LEMMA ChainDistinct ==
  ASSUME NEW A, NEW B, Pair(A, B), NEW f, NEW N \in Nat,
         Chain(A, B, f, N), NEW n \in 0..N, NEW m \in 0..N, n < m,
         Search!Weight(f[n][1]) - Search!Weight(f[n][2]) =
           Search!Weight(f[m][1]) - Search!Weight(f[m][2])
  PROVE  m = Total(A) + Total(B)
<1> DEFINE a == f[n][1]
           b == f[n][2]
           c == f[m][1]
           d == f[m][2]
<1>1. /\ a \in Multiset /\ b \in Multiset /\ c \in Multiset /\ d \in Multiset
      /\ Search!Included(a, c) /\ Search!Included(b, d)
      /\ Search!Included(c, A) /\ Search!Included(d, B)
      /\ Total(a) + Total(b) = n /\ Total(c) + Total(d) = m
  BY DEF Chain, Balanced
<1>2. Search!Weight(a) - Search!Weight(b) = Search!Weight(c) - Search!Weight(d)
  OBVIOUS
<1> HIDE DEF a, b, c, d
<1>3. /\ A \in Multiset /\ B \in Multiset
      /\ Search!Weight(A) = Search!Weight(B)
  BY DEF Pair
<1>4. /\ Search!Weight(a) \in Nat /\ Search!Weight(b) \in Nat
      /\ Search!Weight(c) \in Nat /\ Search!Weight(d) \in Nat
      /\ Search!Weight(A) \in Nat
      /\ Total(a) \in Nat /\ Total(b) \in Nat
      /\ Total(c) \in Nat /\ Total(d) \in Nat
  BY <1>1, <1>3, WeightTyped, SumTyped
<1> DEFINE v == Search!Weight(c) - Search!Weight(a)
<1>5. v = Search!Weight(d) - Search!Weight(b)
  BY <1>2, <1>4
<1>6. v \in Search!SubsetSums(A) /\ v \in Search!SubsetSums(B)
  <2>1. v \in Search!SubsetSums(A)
    BY <1>1, <1>3, SumsDifference
  <2>2. Search!Weight(d) - Search!Weight(b) \in Search!SubsetSums(B)
    BY <1>1, <1>3, SumsDifference
  <2> QED
    BY <1>5, <2>1, <2>2
<1>7. v = 0 \/ v = Search!Weight(A)
  BY <1>6 DEF Pair
<1>8. CASE v = 0
  <2>1. /\ Search!Weight(a) = Search!Weight(c)
        /\ Search!Weight(b) = Search!Weight(d)
    BY <1>4, <1>5, <1>8
  <2>2. a = c /\ b = d
    BY <1>1, <2>1, WeightIncluded
  <2> QED
    BY <1>1, <2>2
<1>9. CASE v = Search!Weight(A)
  <2>1. /\ Search!Weight(c) <= Search!Weight(A)
        /\ Search!Weight(d) <= Search!Weight(B)
    BY <1>1, <1>3, WeightIncluded
  <2>2. /\ Search!Weight(c) = Search!Weight(A)
        /\ Search!Weight(d) = Search!Weight(B)
    BY <1>3, <1>4, <1>5, <1>9, <2>1
  <2>3. c = A /\ d = B
    BY <1>1, <1>3, <2>2, WeightIncluded
  <2> QED
    BY <1>1, <2>3
<1> QED
  BY <1>7, <1>8, <1>9

\* The two multisets have 2 * D elements at most.
LEMMA ChainShort ==
  ASSUME NEW A, NEW B, Pair(A, B)
  PROVE  Total(A) + Total(B) <= 2 * D
<1> DEFINE N == Total(A) + Total(B)
<1>1. N \in Nat /\ D \in Nat /\ 3 <= D
  BY SumTyped, Search!DAssumption DEF Pair
<1>2. PICK f : Chain(A, B, f, N)
  BY ChainExists
<1> SUFFICES ASSUME N > 2 * D PROVE FALSE
  BY <1>1
<1> DEFINE I == 0..(N - 1)
           T == (1 - D)..D
           g == [n \in I |->
                   Search!Weight(f[n][1]) - Search!Weight(f[n][2])]
<1> HIDE DEF N
<1>3. g \in [I -> T]
  <2> SUFFICES ASSUME NEW n \in I PROVE g[n] \in T
    OBVIOUS
  <2>1. n \in 0..N
    BY <1>1
  <2>2. Balanced(A, B, f[n][1], f[n][2], n)
    BY <1>2, <2>1 DEF Chain
  <2> QED
    BY <2>2 DEF Balanced
<1>4. IsFiniteSet(I) /\ Cardinality(I) = N
  <2> DEFINE h == N - 1
  <2>1. 0 \in Int /\ h \in Int /\ ~(0 > h) /\ h - 0 + 1 = N
    BY <1>1
  <2> HIDE DEF h
  <2>2. IsFiniteSet(0..h) /\ Cardinality(0..h) = N
    BY <2>1, FS_Interval
  <2> QED
    BY <2>2 DEF h
<1>5. IsFiniteSet(T) /\ Cardinality(T) = 2 * D
  <2> DEFINE l == 1 - D
  <2>1. l \in Int /\ D \in Int /\ ~(l > D) /\ D - l + 1 = 2 * D
    BY <1>1
  <2> HIDE DEF l
  <2>2. IsFiniteSet(l..D) /\ Cardinality(l..D) = 2 * D
    BY <2>1, FS_Interval
  <2> QED
    BY <2>2 DEF l
<1>6. Cardinality(T) < Cardinality(I)
  BY <1>1, <1>4, <1>5
<1>7. \A n \in I :
        g[n] = Search!Weight(f[n][1]) - Search!Weight(f[n][2])
  OBVIOUS
<1> HIDE DEF T, g
<1>8. \E n, m \in I : n # m /\ g[n] = g[m]
  <2> HIDE DEF I
  <2> QED
    BY <1>3, <1>4, <1>5, <1>6, FS_PigeonHole
<1>9. PICK n \in I, m \in I : n < m /\ g[n] = g[m]
  BY <1>8
<1>10. n \in 0..N /\ m \in 0..N /\ m # N
  BY <1>1
<1>11. Search!Weight(f[n][1]) - Search!Weight(f[n][2]) =
         Search!Weight(f[m][1]) - Search!Weight(f[m][2])
  BY <1>7, <1>9
<1>12. m = Total(A) + Total(B)
  <2> HIDE DEF I
  <2> QED
    BY <1>1, <1>2, <1>9, <1>10, <1>11, ChainDistinct
<1> QED
  BY <1>10, <1>12 DEF N

\* A multiset of elements up to c that weighs more than c * e has more than
\* e elements.
LEMMA HeavyIsMany ==
  ASSUME NEW m \in Multiset, NEW c \in Nat, NEW e \in Nat, c > 0,
         \A i \in Search!Element : m[i] > 0 => i <= c,
         Search!Weight(m) > c * e
  PROVE  Total(m) > e
<1>1. \A i \in Search!Element : Weighted(m)[i] <= c * m[i]
  <2> SUFFICES ASSUME NEW i \in Search!Element
               PROVE  i * m[i] <= c * m[i]
    BY WeightedTyped
  <2>1. i \in Nat /\ m[i] \in Nat
    BY ElementPositive DEF Multiset
  <2>2. CASE m[i] = 0
    BY <2>1, <2>2
  <2>3. CASE m[i] > 0
    <3>1. i <= c
      BY <2>3
    <3> QED
      BY <2>1, <3>1
  <2> QED
    BY <2>1, <2>2, <2>3
<1>2. Search!Weight(m) <= c * Total(m)
  BY <1>1, WeightedTyped, SumScaled
<1>3. Total(m) \in Nat /\ Search!Weight(m) \in Nat
  BY SumTyped, WeightTyped
<1> SUFFICES ASSUME Total(m) <= e PROVE FALSE
  BY <1>3
<1>4. c * Total(m) <= c * e /\ c * Total(m) \in Nat /\ c * e \in Nat
  BY <1>3, Times
<1> QED
  BY <1>2, <1>3, <1>4

LEMMA PairBounded ==
  ASSUME NEW A, NEW B, Pair(A, B)
  PROVE  Search!Weight(A) <= D * (D - 1)
<1>1. /\ A \in Multiset /\ B \in Multiset
      /\ Search!Weight(A) = Search!Weight(B) /\ Search!Weight(A) \in Nat
      /\ Total(A) \in Nat /\ Total(B) \in Nat
  BY WeightTyped, SumTyped DEF Pair
<1> DEFINE c == D - 1
<1>2. D \in Nat /\ 3 <= D /\ c \in Nat /\ c > 0 /\ D \in Search!Element
      /\ D = c + 1 /\ D # 0
  BY Search!DAssumption DEF Search!Element
<1>3. D * c \in Nat /\ D * c = c * D /\ D <= D * c
  BY <1>2
<1> SUFFICES ASSUME Search!Weight(A) > D * c PROVE FALSE
  BY <1>1, <1>3
<1> HIDE DEF c
<1>4. /\ \A i \in Search!Element : A[i] > 0 => i <= D
      /\ \A i \in Search!Element : B[i] > 0 => i <= D
  BY DEF Pair, Small
<1>5. Total(A) > c /\ Total(B) > c
  BY <1>1, <1>2, <1>4, HeavyIsMany
<1>6. A[D] = 0 \/ B[D] = 0
  <2> SUFFICES ASSUME A[D] > 0, B[D] > 0 PROVE FALSE
    BY <1>1, <1>2 DEF Multiset
  <2>1. D \in Search!SubsetSums(A) /\ D \in Search!SubsetSums(B)
    BY <1>1, <1>2, SumsElement
  <2>2. D = 0 \/ D = Search!Weight(A)
    BY <2>1 DEF Pair
  <2> QED
    BY <1>1, <1>2, <1>3, <2>2
<1>7. ASSUME NEW m \in Multiset, m[D] = 0,
             \A i \in Search!Element : m[i] > 0 => i <= D,
             Search!Weight(m) > D * c
      PROVE  Total(m) > D
  <2>1. ASSUME NEW i \in Search!Element, m[i] > 0 PROVE i <= c
    <3>1. i <= D /\ i # D /\ i \in Nat
      BY <1>7, <2>1, ElementPositive
    <3> QED
      BY <1>2, <3>1
  <2>2. Search!Weight(m) > c * D
    BY <1>3, <1>7
  <2> QED
    BY <1>2, <2>1, <2>2, HeavyIsMany
<1>8. Total(A) > D \/ Total(B) > D
  BY <1>1, <1>4, <1>6, <1>7
<1>9. Total(A) + Total(B) <= 2 * D
  BY ChainShort
<1> QED
  BY <1>1, <1>2, <1>5, <1>8, <1>9

-----------------------------------------------------------------------------
(* The multisets among which the greatest pair is looked for               *)

LEMMA Quotient ==
  ASSUME NEW q \in Nat, NEW i \in Nat \ {0}, NEW c \in Nat
  PROVE  c <= q \div i <=> i * c <= q
<1> DEFINE r == q % i
           d == q \div i
<1>1. q = i * d + r /\ r \in Nat /\ r < i /\ d \in Nat
  OBVIOUS
<1> HIDE DEF d, r
<1>2. ASSUME c <= d PROVE i * c <= q
  <2>1. i * c <= i * d /\ i * c \in Nat /\ i * d \in Nat
    BY <1>1, <1>2, Times
  <2> QED
    BY <1>1, <2>1
<1>3. ASSUME d < c PROVE ~(i * c <= q)
  <2>1. i * d + i <= i * c /\ i * c \in Nat /\ i * d \in Nat
    BY <1>1, <1>3, Times
  <2> QED
    BY <1>1, <2>1
<1> QED
  BY <1>1, <1>2, <1>3 DEF d

Limit == D * (D - 1)

\* m with any number of copies of i that keeps it within the limit.
Refilled(m, i) ==
  {[m EXCEPT ![i] = c] : c \in 0..(Limit - Search!Weight(m)) \div i}

\* The recursion behind Bounded.
BoundedOver(h) ==
  h = [U \in SUBSET (1..D) |->
         IF U = {} THEN {Search!Empty}
         ELSE UNION {Refilled(m, First(U)) : m \in h[U \ {First(U)}]}]

LEMMA LimitIs ==
  /\ D \in Nat /\ 3 <= D /\ Limit \in Nat /\ 2 * D <= Limit
  /\ 1..D \subseteq Search!Element
<1>1. D \in Nat /\ 3 <= D /\ D - 1 \in Nat
  BY Search!DAssumption
<1>2. D * (D - 1) \in Nat
  BY <1>1
<1>3. D * 2 <= D * (D - 1)
  <2>1. D \in Nat \ {0} /\ 2 \in Nat /\ 2 <= D - 1
    BY <1>1
  <2> HIDE DEF Limit
  <2>2. \A c, e \in Nat : c < e => D * c + D <= D * e
    BY <2>1, Times
  <2>3. CASE 2 = D - 1
    BY <2>3
  <2>4. CASE 2 < D - 1
    BY <1>1, <1>2, <2>2, <2>4
  <2> QED
    BY <1>1, <2>1, <2>3, <2>4
<1> QED
  BY <1>1, <1>2, <1>3, Search!DAssumption DEF Limit, Search!Element

LEMMA NumbersPicked ==
  /\ IsFiniteSet(1..D)
  /\ Picks([U \in SUBSET (1..D) |-> First(U)], 1..D)
  /\ \A U \in SUBSET (1..D) :
       U # {} => /\ First(U) \in U /\ First(U) \in 1..D
                 /\ U \ {First(U)} \in SUBSET (1..D)
<1>1. IsFiniteSet(1..D)
  BY LimitIs, FS_Interval
<1>2. \A U \in SUBSET (1..D) :
        U # {} => /\ First(U) \in U /\ First(U) \in 1..D
                  /\ U \ {First(U)} \in SUBSET (1..D)
  BY DEF First
<1>3. Picks([U \in SUBSET (1..D) |-> First(U)], 1..D)
  BY <1>2 DEF Picks
<1> QED
  BY <1>1, <1>2, <1>3

LEMMA RefilledTyped ==
  ASSUME NEW m \in Multiset, NEW i \in 1..D
  PROVE  Refilled(m, i) \in SUBSET Multiset
<1>1. i \in Search!Element
  BY LimitIs
<1>2. \A c \in Nat : [m EXCEPT ![i] = c] \in Multiset
  BY <1>1 DEF Multiset
<1>3. \A c \in 0..(Limit - Search!Weight(m)) \div i : c \in Nat
  OBVIOUS
<1> QED
  BY <1>2, <1>3 DEF Refilled

LEMMA BoundedRecursion ==
  \E h : /\ BoundedOver(h) /\ Search!Bounded = h[1..D]
         /\ h[{}] = {Search!Empty}
         /\ \A U \in SUBSET (1..D) :
              U # {} => h[U] = UNION {Refilled(m, First(U)) :
                                        m \in h[U \ {First(U)}]}
<1> DEFINE Y == SUBSET Multiset
           S == 1..D
           b == {Search!Empty}
           op == [p \in S \X Y |-> UNION {Refilled(m, p[1]) : m \in p[2]}]
           pick == [U \in SUBSET S |-> First(U)]
<1>1. ASSUME NEW i \in S, NEW M \in Y
      PROVE  /\ op[<<i, M>>] = UNION {Refilled(m, i) : m \in M}
             /\ op[<<i, M>>] \in Y
  <2>1. op[<<i, M>>] = UNION {Refilled(m, i) : m \in M}
    <3>1. <<i, M>> \in S \X Y
      OBVIOUS
    <3> HIDE DEF S, Y
    <3> QED
      BY <3>1
  <2>2. \A m \in M : Refilled(m, i) \in SUBSET Multiset
    BY RefilledTyped
  <2> HIDE DEF op
  <2> QED
    BY <2>1, <2>2
<1> HIDE DEF op
<1>2. b \in Y
  BY EmptyIs
<1>3. op \in [S \X Y -> Y]
  <2>1. \A p \in S \X Y : op[p] \in Y
    <3> SUFFICES ASSUME NEW p \in S \X Y PROVE op[p] \in Y
      OBVIOUS
    <3>1. p = <<p[1], p[2]>> /\ p[1] \in S /\ p[2] \in Y
      OBVIOUS
    <3>2. op[<<p[1], p[2]>>] \in Y
      BY <1>1, <3>1
    <3> QED
      BY <3>1, <3>2
  <2>2. op = [p \in S \X Y |-> op[p]]
    BY DEF op
  <2> QED
    BY <2>1, <2>2
<1>4. IsFiniteSet(S) /\ Picks(pick, S)
  BY NumbersPicked
<1>5. \A U \in SUBSET S : pick[U] = First(U)
  OBVIOUS
<1>6. \A U \in SUBSET S :
        U # {} => First(U) \in S /\ U \ {First(U)} \in SUBSET S
  BY NumbersPicked
<1> HIDE DEF Y, S, b, pick
<1>7. PICK g : Folds(g, op, b, pick, S) /\ \A U \in SUBSET S : g[U] \in Y
  BY <1>2, <1>3, <1>4, TypedFold
<1> DEFINE e(f, U) == IF U = {} THEN b
                      ELSE UNION {Refilled(m, First(U)) :
                                    m \in f[U \ {First(U)}]}
           Right(f) == f = [U \in SUBSET S |-> e(f, U)]
<1>8. Right(g)
  <2>1. g = [U \in SUBSET S |-> g[U]]
    BY <1>7 DEF Folds
  <2>2. ASSUME NEW U \in SUBSET S PROVE g[U] = e(g, U)
    <3>1. CASE U = {}
      BY <1>7, <3>1, FoldEmpty
    <3>2. CASE U # {}
      <4>1. g[U] = op[<<First(U), g[U \ {First(U)}]>>]
        BY <1>5, <1>7, <3>2, FoldAt
      <4>2. First(U) \in S /\ g[U \ {First(U)}] \in Y
        BY <1>6, <1>7, <3>2
      <4> QED
        BY <1>1, <3>2, <4>1, <4>2
    <3> QED
      BY <3>1, <3>2
  <2>3. [U \in SUBSET S |-> g[U]] = [U \in SUBSET S |-> e(g, U)]
    <3> HIDE DEF e
    <3> QED
      BY <2>2
  <2> HIDE DEF e
  <2> QED
    BY <2>1, <2>3
<1> HIDE DEF e, Right
<1> DEFINE h == CHOOSE f : BoundedOver(f)
<1>9. BoundedOver(h)
  <2>1. BoundedOver(g)
    BY <1>8 DEF Right, e, BoundedOver, S, b
  <2> QED
    BY <2>1
<1>10. Search!Bounded = h[1..D]
  BY DEF Search!Bounded, Search!FoldSet, Search!MapThenFoldSet, BoundedOver,
         First, Refilled, Limit
<1> HIDE DEF h
<1>11. \A U \in SUBSET S : h[U] = e(h, U)
  <2>1. h = [U \in SUBSET S |-> e(h, U)]
    BY <1>9 DEF BoundedOver, S, b, e
  <2> QED
    BY <2>1
<1>12. h[{}] = {Search!Empty}
  BY <1>11 DEF e, b
<1>13. \A U \in SUBSET (1..D) :
         U # {} => h[U] = UNION {Refilled(m, First(U)) :
                                   m \in h[U \ {First(U)}]}
  <2> SUFFICES ASSUME NEW U \in SUBSET (1..D), U # {}
               PROVE  h[U] = UNION {Refilled(m, First(U)) :
                                      m \in h[U \ {First(U)}]}
    OBVIOUS
  <2>1. h[U] = e(h, U)
    BY <1>11 DEF S
  <2> QED
    BY <2>1 DEF e
<1> QED
  BY <1>9, <1>10, <1>12, <1>13

\* A multiset of elements of U within the limit.
InLimit(m, U) ==
  /\ m \in Multiset /\ Search!Weight(m) <= Limit
  /\ \A i \in Search!Element \ U : m[i] = 0

LEMMA InLimitMore ==
  ASSUME NEW U \in SUBSET (1..D), NEW i \in U, NEW n
  PROVE  InLimit(n, U) <=> \E m : InLimit(m, U \ {i}) /\ n \in Refilled(m, i)
<1>1. i \in Search!Element /\ i \in Nat \ {0} /\ Limit \in Nat
  BY LimitIs, ElementPositive
<1>2. ASSUME NEW m, InLimit(m, U \ {i}), n \in Refilled(m, i)
      PROVE  InLimit(n, U)
  <2>1. PICK c \in 0..(Limit - Search!Weight(m)) \div i :
          n = [m EXCEPT ![i] = c]
    BY <1>2 DEF Refilled
  <2>2. m \in Multiset /\ Search!Weight(m) \in Nat /\ m[i] = 0
        /\ Search!Weight(m) <= Limit
    BY <1>1, <1>2, WeightTyped DEF InLimit
  <2>3. c \in Nat /\ c <= (Limit - Search!Weight(m)) \div i
    <3> DEFINE q == (Limit - Search!Weight(m)) \div i
    <3>1. q \in Int
      BY <1>1, <2>2
    <3> HIDE DEF q
    <3>2. c \in 0..q
      BY DEF q
    <3>3. c \in Nat /\ c <= q
      BY <3>1, <3>2
    <3> QED
      BY <3>3 DEF q
  <2>4. Limit - Search!Weight(m) \in Nat
    BY <1>1, <2>2
  <2>5. i * c <= Limit - Search!Weight(m)
    BY <1>1, <2>3, <2>4, Quotient
  <2>6. n \in Multiset
        /\ \A j \in Search!Element : n[j] = IF j = i THEN c ELSE m[j]
    BY <1>1, <2>1, <2>2, <2>3 DEF Multiset
  <2>7. Adds(n, m, Single(i, c))
    <3> SUFFICES ASSUME NEW j \in Search!Element
                 PROVE  n[j] = m[j] + Single(i, c)[j]
      BY DEF Adds
    <3>1. Single(i, c)[j] = IF j = i THEN c ELSE 0
      BY DEF Single
    <3>2. m[j] \in Nat /\ (j = i => m[j] = 0)
      BY <2>2 DEF Multiset
    <3>3. n[j] = IF j = i THEN c ELSE m[j]
      BY <2>6
    <3>4. CASE j = i
      BY <2>3, <3>1, <3>2, <3>3, <3>4
    <3>5. CASE j # i
      BY <3>1, <3>2, <3>3, <3>5
    <3> QED
      BY <3>4, <3>5
  <2>8. Search!Weight(n) = Search!Weight(m) + i * c
    BY <1>1, <2>2, <2>3, <2>6, <2>7, SingleIs, WeightSingle, WeightAdds
  <2>9. i * c \in Nat
    BY <1>1, <2>3
  <2>10. Search!Weight(n) <= Limit
    BY <1>1, <2>2, <2>5, <2>8, <2>9
  <2>11. \A j \in Search!Element \ U : n[j] = 0
    BY <1>2, <2>6 DEF InLimit
  <2> QED
    BY <2>6, <2>10, <2>11 DEF InLimit
<1>3. ASSUME InLimit(n, U)
      PROVE  \E m : InLimit(m, U \ {i}) /\ n \in Refilled(m, i)
  <2> DEFINE c == n[i]
             m == [n EXCEPT ![i] = 0]
  <2>1. n \in Multiset /\ Search!Weight(n) <= Limit /\ c \in Nat
    BY <1>1, <1>3 DEF InLimit, Multiset
  <2>2. m \in Multiset
        /\ \A j \in Search!Element : m[j] = IF j = i THEN 0 ELSE n[j]
    BY <1>1, <2>1 DEF Multiset
  <2>3. n = [m EXCEPT ![i] = c]
    BY <1>1, <2>1 DEF Multiset
  <2>4. Adds(n, m, Single(i, c))
    BY <1>1, <2>1, <2>2, SingleIs DEF Adds, Multiset
  <2> HIDE DEF m, c
  <2>5. Search!Weight(n) = Search!Weight(m) + i * c
    BY <1>1, <2>1, <2>2, <2>4, SingleIs, WeightSingle, WeightAdds
  <2>6. i * c \in Nat /\ Search!Weight(m) \in Nat /\ Search!Weight(n) \in Nat
    BY <1>1, <2>1, <2>2, WeightTyped
  <2>7. /\ i * c <= Limit - Search!Weight(m) /\ Search!Weight(m) <= Limit
        /\ Limit - Search!Weight(m) \in Nat
    BY <1>1, <2>1, <2>5, <2>6
  <2>8. c <= (Limit - Search!Weight(m)) \div i
    BY <1>1, <2>1, <2>7, Quotient
  <2>9. c \in 0..(Limit - Search!Weight(m)) \div i
    <3> DEFINE q == (Limit - Search!Weight(m)) \div i
    <3>1. q \in Int
      BY <1>1, <2>7
    <3> HIDE DEF q
    <3>2. c \in 0..q
      BY <2>1, <2>8, <3>1 DEF q
    <3> QED
      BY <3>2 DEF q
  <2>10. n \in Refilled(m, i)
    BY <2>3, <2>9 DEF Refilled
  <2>11. InLimit(m, U \ {i})
    BY <1>3, <2>2, <2>7 DEF InLimit
  <2> QED
    BY <2>10, <2>11
<1> QED
  BY <1>2, <1>3

\* Bounded holds the multisets of elements up to D of weight D * (D - 1) at
\* most.
LEMMA BoundedIs ==
  \A m : m \in Search!Bounded <=>
           m \in Multiset /\ Small(m) /\ Search!Weight(m) <= Limit
<1>1. PICK h : /\ BoundedOver(h) /\ Search!Bounded = h[1..D]
               /\ h[{}] = {Search!Empty}
               /\ \A U \in SUBSET (1..D) :
                    U # {} => h[U] = UNION {Refilled(m, First(U)) :
                                              m \in h[U \ {First(U)}]}
  BY BoundedRecursion
<1> DEFINE S == 1..D
           pick == [U \in SUBSET S |-> First(U)]
           B == {U \in SUBSET S : \A n : n \in h[U] <=> InLimit(n, U)}
<1>2. {} \in B
  <2>1. ASSUME NEW n PROVE n \in h[{}] <=> InLimit(n, {})
    <3>1. n \in h[{}] <=> n = Search!Empty
      BY <1>1
    <3>2. InLimit(Search!Empty, {})
      BY EmptyIs, LimitIs DEF InLimit
    <3>3. ASSUME InLimit(n, {}) PROVE n = Search!Empty
      BY <3>3, EmptyIs, SameMultiset DEF InLimit
    <3> QED
      BY <3>1, <3>2, <3>3
  <2> QED
    BY <2>1
<1>3. \A U \in SUBSET S : U # {} /\ U \ {pick[U]} \in B => U \in B
  <2> SUFFICES ASSUME NEW U \in SUBSET S, U # {}, U \ {First(U)} \in B,
                      NEW n
               PROVE  n \in h[U] <=> InLimit(n, U)
    OBVIOUS
  <2> DEFINE i == First(U)
             V == U \ {i}
  <2>1. i \in U /\ U \in SUBSET (1..D)
    BY NumbersPicked
  <2>2. \A m : m \in h[V] <=> InLimit(m, V)
    OBVIOUS
  <2>3. h[U] = UNION {Refilled(m, i) : m \in h[V]}
    BY <1>1
  <2> HIDE DEF i, B
  <2>4. n \in h[U] <=> \E m : m \in h[V] /\ n \in Refilled(m, i)
    <3> HIDE DEF V
    <3> QED
      BY <2>3
  <2>5. InLimit(n, U) <=> \E m : InLimit(m, U \ {i}) /\ n \in Refilled(m, i)
    BY <2>1, InLimitMore
  <2> QED
    BY <2>2, <2>4, <2>5, Zenon
<1>4. S \in B
  <2>1. B \in SUBSET SUBSET S
    OBVIOUS
  <2>2. IsFiniteSet(S) /\ Picks(pick, S)
    BY NumbersPicked
  <2> HIDE DEF B, S, pick
  <2>3. B = SUBSET S
    BY <1>2, <1>3, <2>1, <2>2, PickInduction
  <2> QED
    BY <2>3
<1>5. \A n : n \in Search!Bounded <=> InLimit(n, 1..D)
  BY <1>1, <1>4
<1>6. ASSUME NEW n \in Multiset
      PROVE  (\A i \in Search!Element \ (1..D) : n[i] = 0) <=> Small(n)
  <2>1. \A i \in Search!Element : i \in Nat /\ i >= 1 /\ n[i] \in Nat
    BY ElementPositive DEF Multiset
  <2>2. \A i \in Search!Element : i \in 1..D <=> i <= D
    BY <2>1, LimitIs
  <2> QED
    BY <2>1, <2>2 DEF Small
<1> QED
  BY <1>5, <1>6 DEF InLimit

-----------------------------------------------------------------------------
(* The pairs that may be found                                             *)

\* An uncontestable superset of the input, not completed by one element.
Wanted(A, B) ==
  /\ Pair(A, B)
  /\ Search!Included(input.a, A) /\ Search!Included(input.b, B)
  /\ ~ Search!CompletedByOne(<<A, B>>)

LEMMA UncontestableIs ==
  /\ \A p \in Search!Uncontestable :
       p = <<p[1], p[2]>> /\ Pair(p[1], p[2])
  /\ \A A, B : Pair(A, B) => <<A, B>> \in Search!Uncontestable
<1>1. ASSUME NEW p \in Search!Uncontestable
      PROVE  p = <<p[1], p[2]>> /\ Pair(p[1], p[2])
  <2>1. /\ p \in Search!Bounded \X Search!Bounded
        /\ Search!Weight(p[1]) = Search!Weight(p[2])
        /\ Search!SubsetSums(p[1]) \cap Search!SubsetSums(p[2])
             = {0, Search!Weight(p[1])}
    BY DEF Search!Uncontestable
  <2>2. /\ p = <<p[1], p[2]>>
        /\ p[1] \in Search!Bounded /\ p[2] \in Search!Bounded
    BY <2>1
  <2>3. /\ p[1] \in Multiset /\ Small(p[1])
        /\ p[2] \in Multiset /\ Small(p[2])
    BY <2>2, BoundedIs
  <2> QED
    BY <2>1, <2>2, <2>3 DEF Pair
<1>2. ASSUME NEW A, NEW B, Pair(A, B)
      PROVE  <<A, B>> \in Search!Uncontestable
  <2>1. /\ A \in Multiset /\ Small(A) /\ B \in Multiset /\ Small(B)
        /\ Search!Weight(A) = Search!Weight(B)
        /\ Search!SubsetSums(A) \cap Search!SubsetSums(B)
             = {0, Search!Weight(A)}
    BY <1>2 DEF Pair
  <2>2. Search!Weight(A) <= Limit
    BY <1>2, PairBounded DEF Limit
  <2>3. A \in Search!Bounded /\ B \in Search!Bounded
    BY <2>1, <2>2, BoundedIs
  <2> DEFINE p == <<A, B>>
  <2>4. p \in Search!Bounded \X Search!Bounded /\ p[1] = A /\ p[2] = B
    BY <2>3
  <2> HIDE DEF p
  <2>5. p \in Search!Uncontestable
    BY <2>1, <2>4 DEF Search!Uncontestable
  <2> QED
    BY <2>5 DEF p
<1> QED
  BY <1>1, <1>2

\* The value the greatest pair must have.
LEMMA GreatestIs ==
  ASSUME NEW w \in Nat,
         \A A, B : Wanted(A, B) => Search!Weight(A) <= w,
         w = 0 \/ \E A, B : Wanted(A, B) /\ Search!Weight(A) = w
  PROVE  w = Search!Greatest({p \in Search!Supersets :
                                ~ Search!CompletedByOne(p)})
<1> DEFINE R == {p \in Search!Supersets : ~ Search!CompletedByOne(p)}
           S == {Search!Weight(p[1]) : p \in R} \cup {0}
<1>1. \A p \in R : Wanted(p[1], p[2])
  <2> SUFFICES ASSUME NEW p \in R PROVE Wanted(p[1], p[2])
    OBVIOUS
  <2>1. /\ p \in Search!Uncontestable /\ ~ Search!CompletedByOne(p)
        /\ Search!Included(input.a, p[1]) /\ Search!Included(input.b, p[2])
    BY DEF Search!Supersets
  <2>2. p = <<p[1], p[2]>> /\ Pair(p[1], p[2])
    BY <2>1, UncontestableIs
  <2>3. ~ Search!CompletedByOne(<<p[1], p[2]>>)
    BY <2>1, <2>2, Zenon
  <2> QED
    BY <2>1, <2>2, <2>3 DEF Wanted
<1>2. ASSUME NEW A, NEW B, Wanted(A, B)
      PROVE  \E p \in R : p[1] = A
  <2> DEFINE p == <<A, B>>
  <2>1. p[1] = A /\ p[2] = B
    OBVIOUS
  <2>2. p \in Search!Uncontestable /\ ~ Search!CompletedByOne(p)
    BY <1>2, UncontestableIs DEF Wanted
  <2>3. Search!Included(input.a, A) /\ Search!Included(input.b, B)
    BY <1>2 DEF Wanted
  <2> HIDE DEF p
  <2>4. p \in Search!Supersets
    BY <2>1, <2>2, <2>3 DEF Search!Supersets
  <2> QED
    BY <2>1, <2>2, <2>4
<1>3. w \in S
  <2>1. CASE w = 0
    BY <2>1
  <2>2. CASE \E A, B : Wanted(A, B) /\ Search!Weight(A) = w
    BY <1>2, <2>2
  <2> QED
    BY <2>1, <2>2
<1>4. \A y \in S : w >= y /\ y \in Nat
  <2> SUFFICES ASSUME NEW p \in R
               PROVE  /\ w >= Search!Weight(p[1])
                      /\ Search!Weight(p[1]) \in Nat
    OBVIOUS
  <2>1. Wanted(p[1], p[2])
    BY <1>1
  <2>2. Search!Weight(p[1]) \in Nat /\ Search!Weight(p[1]) <= w
    BY <2>1, WeightTyped DEF Wanted, Pair
  <2> QED
    BY <2>2
<1> DEFINE x == Search!Max(S)
<1>5. Search!Greatest(R) = x
  BY DEF Search!Greatest
<1> HIDE DEF S, R
<1>6. x \in S /\ \A y \in S : x >= y
  BY <1>3, <1>4 DEF Search!Max
<1>7. x \in Nat /\ x >= w /\ w >= x
  BY <1>3, <1>4, <1>6
<1> HIDE DEF x
<1>8. x = w
  BY <1>7
<1> QED
  BY <1>5, <1>8 DEF R

\* The sums of copies of one element.
LEMMA SumsOfSingle ==
  ASSUME NEW x \in Search!Element, NEW c \in Nat,
         NEW v \in Search!SubsetSums(Single(x, c))
  PROVE  \E e \in Nat : e <= c /\ v = x * e
<1> DEFINE s == Single(x, c)
<1>1. s \in Multiset
      /\ \A i \in Search!Element : s[i] = IF i = x THEN c ELSE 0
  BY SingleIs
<1> HIDE DEF s
<1>2. PICK k \in Multiset : Search!Included(k, s) /\ Search!Weight(k) = v
  BY <1>1, SumsAre DEF s
<1> DEFINE e == k[x]
<1>3. e \in Nat /\ e <= c
  BY <1>1, <1>2 DEF Search!Included, Multiset
<1>4. \A i \in Search!Element : i # x => k[i] = 0
  BY <1>1, <1>2 DEF Search!Included, Multiset
<1>5. \A i \in Search!Element : k[i] = IF i = x THEN e ELSE 0
  BY <1>4
<1> HIDE DEF e
<1>6. k = Single(x, e)
  BY <1>3, <1>5, SingleIs, SameMultiset
<1> QED
  BY <1>2, <1>3, <1>6, WeightSingle

\* D - 1 copies of D and D copies of D - 1.
Wide == Single(D, D - 1)
Deep == Single(D - 1, D)

LEMMA WidePair ==
  /\ Pair(Wide, Deep) /\ Search!Weight(Wide) = Limit
  /\ Wide # Search!Empty /\ Deep # Search!Empty
  /\ \A j \in Search!Element : Wide # Single(j, 1)
<1> DEFINE c == D - 1
<1>1. /\ D \in Nat /\ 3 <= D /\ c \in Nat /\ c = D - 1 /\ D = c + 1
      /\ D \in Search!Element /\ c \in Search!Element
      /\ Limit \in Nat /\ 2 * D <= Limit
  <2>1. D \in 1..D /\ c \in 1..D
    BY LimitIs
  <2> QED
    BY <2>1, LimitIs
<1>2. Limit = D * c /\ D * c = c * D /\ Wide = Single(D, c)
      /\ Deep = Single(c, D)
  <2>1. D * c = c * D
    BY <1>1
  <2> QED
    BY <2>1 DEF Limit, Wide, Deep
<1> HIDE DEF c
<1>3. /\ Wide \in Multiset /\ Deep \in Multiset
      /\ Search!Weight(Wide) = Limit /\ Search!Weight(Deep) = Limit
      /\ Total(Wide) = c /\ Total(Deep) = D
  BY <1>1, <1>2, SingleIs, WeightSingle
<1>4. Small(Wide) /\ Small(Deep)
  BY <1>1, <1>2, SingleIs DEF Small
<1>5. ASSUME NEW v \in Search!SubsetSums(Wide) \cap Search!SubsetSums(Deep)
      PROVE  v = 0 \/ v = Limit
  <2>1. PICK e \in Nat : e <= c /\ v = D * e
    BY <1>1, <1>2, SumsOfSingle
  <2>2. PICK g \in Nat : g <= D /\ v = c * g
    BY <1>1, <1>2, SumsOfSingle
  <2>3. c * g = D * g - g
    <3>1. (D - 1) * g = D * g - g
      BY <1>1
    <3> QED
      BY <1>1, <3>1
  <2>4. D * e \in Nat /\ D * g \in Nat /\ D * 0 = 0 /\ D * 1 = D
    BY <1>1
  <2>5. D * e = D * g - g
    BY <2>1, <2>2, <2>3
  <2>6. CASE g <= e
    <3>1. D * g <= D * e
      BY <1>1, <2>6, Times
    <3>2. g = 0
      BY <2>4, <2>5, <3>1
    <3>3. v = 0
      BY <1>1, <2>2, <3>2
    <3> QED
      BY <3>3
  <2>7. CASE e < g
    <3>1. D * e + D <= D * g
      BY <1>1, <2>7, Times
    <3>2. g = D
      BY <1>1, <2>2, <2>4, <2>5, <3>1
    <3> QED
      BY <1>2, <2>2, <3>2
  <2> QED
    BY <2>6, <2>7
<1>6. /\ {0, Limit} \subseteq Search!SubsetSums(Wide)
      /\ {0, Limit} \subseteq Search!SubsetSums(Deep)
  BY <1>3, SumsEnds
<1>7. Pair(Wide, Deep)
  <2>1. Search!SubsetSums(Wide) \cap Search!SubsetSums(Deep) = {0, Limit}
    BY <1>5, <1>6
  <2> QED
    BY <1>3, <1>4, <2>1 DEF Pair
<1>8. Wide # Search!Empty /\ Deep # Search!Empty
  BY <1>1, <1>3, EmptyIs
<1>9. ASSUME NEW j \in Search!Element PROVE Wide # Single(j, 1)
  BY <1>1, <1>3, WeightSingle
<1> QED
  BY <1>3, <1>7, <1>8, <1>9

-----------------------------------------------------------------------------
(* The two sides of a frame                                                *)

\* The multiset s stands for: what was read, and what has been added.
Whole(s, m) == Search!Union(m, s.added)

\* s has come out of the input m by additions.
Side(s, m) ==
  /\ s.added \in Multiset /\ Small(s.added)
  /\ s.start = Search!SubsetSums(m)
  /\ s.sum = Search!Weight(Whole(s, m))
  /\ s.sums = Search!SubsetSums(Whole(s, m))

\* An element alone was added to s when it was no sum of g.
Lone(s, g) ==
  \A j \in Search!Element :
    s.added = Single(j, 1) /\ g.added = Search!Empty => j \notin g.sums

\* As long as s is empty, the other side gets one element at most.
Still(s, g, k) ==
  s.sum = 0 /\ g.added # Search!Empty =>
    k = Search!Empty /\ \E j \in Search!Element : Whole(g, k) = Single(j, 1)

Sided(s, m, g, k) ==
  /\ Side(s, m) /\ Side(g, k) /\ Lone(s, g) /\ Lone(g, s)
  /\ Still(s, g, k) /\ Still(g, s, m)

\* What s lacks of S are elements from l on.
Towards(s, m, S, l) ==
  /\ Search!Included(Whole(s, m), S)
  /\ \A e \in Search!Element : Whole(s, m)[e] < S[e] => l <= e

LEMMA WholeIs ==
  ASSUME NEW s, NEW m \in Multiset, Side(s, m)
  PROVE  /\ Whole(s, m) \in Multiset /\ s.added \in Multiset
         /\ Adds(Whole(s, m), m, s.added)
         /\ Search!Included(m, Whole(s, m))
         /\ s.sum = Search!Weight(Whole(s, m)) /\ s.sum \in Nat
         /\ s.sums = Search!SubsetSums(Whole(s, m))
<1>1. /\ s.added \in Multiset /\ s.sum = Search!Weight(Whole(s, m))
      /\ s.sums = Search!SubsetSums(Whole(s, m))
  BY DEF Side
<1>2. Whole(s, m) \in Multiset /\ Adds(Whole(s, m), m, s.added)
  BY <1>1, UnionIs DEF Whole
<1>3. Search!Included(m, Whole(s, m))
  BY <1>1, <1>2 DEF Adds, Multiset, Search!Included
<1>4. s.sum \in Nat
  BY <1>1, <1>2, WeightTyped
<1> QED
  BY <1>1, <1>2, <1>3, <1>4

\* A side whose sum is 0 is empty.
LEMMA NothingIs ==
  ASSUME NEW s, NEW m \in Multiset, Side(s, m), s.sum = 0
  PROVE  /\ m = Search!Empty /\ s.added = Search!Empty
         /\ Whole(s, m) = Search!Empty
<1>1. Whole(s, m) = Search!Empty
  BY WholeIs, WeightNone
<1>2. \A i \in Search!Element : m[i] = 0 /\ s.added[i] = 0
  BY <1>1, WholeIs, EmptyIs DEF Adds, Multiset
<1>3. m = Search!Empty /\ s.added = Search!Empty
  BY <1>2, WholeIs, EmptyIs, SameMultiset
<1> QED
  BY <1>1, <1>3

LEMMA SidedSwap ==
  ASSUME NEW s, NEW m, NEW g, NEW k, Sided(s, m, g, k)
  PROVE  Sided(g, k, s, m)
BY DEF Sided

LEMMA PairSwap ==
  ASSUME NEW A, NEW B, Pair(A, B)
  PROVE  Pair(B, A)
BY DEF Pair

\* An element goes to the smaller side.
LEMMA SideAdd ==
  ASSUME NEW s \in Sumset, NEW m \in Multiset, Side(s, m),
         NEW i \in Search!Element, i <= D
  PROVE  /\ Side(Search!SumsetAdd(s, i), m)
         /\ Whole(Search!SumsetAdd(s, i), m) = Search!Plus(Whole(s, m), i)
         /\ Search!SumsetAdd(s, i).added = Search!Plus(s.added, i)
         /\ Search!SumsetAdd(s, i).sum = s.sum + i
         /\ Search!SumsetAdd(s, i).last = i
<1> DEFINE t == Search!SumsetAdd(s, i)
<1>1. /\ t.added = Search!Plus(s.added, i) /\ t.sum = s.sum + i
      /\ t.last = i /\ t.start = s.start
      /\ t.sums = s.sums \cup {v + i : v \in s.sums}
  BY DEF Search!SumsetAdd, Sumset
<1> HIDE DEF t
<1>2. s.added \in Multiset /\ Small(s.added)
  BY DEF Side
<1>3. t.added \in Multiset
      /\ \A j \in Search!Element :
           t.added[j] = IF j = i THEN s.added[j] + 1 ELSE s.added[j]
  BY <1>1, <1>2, PlusIs
<1>4. Small(t.added)
  BY <1>2, <1>3 DEF Small
<1>5. Whole(t, m) = Search!Plus(Whole(s, m), i)
  <2>1. Whole(s, m) \in Multiset /\ Adds(Whole(s, m), m, s.added)
    BY WholeIs
  <2>2. Whole(t, m) \in Multiset /\ Adds(Whole(t, m), m, t.added)
    BY <1>3, UnionIs DEF Whole
  <2>3. Search!Plus(Whole(s, m), i) \in Multiset
        /\ \A j \in Search!Element :
             Search!Plus(Whole(s, m), i)[j] =
               IF j = i THEN Whole(s, m)[j] + 1 ELSE Whole(s, m)[j]
    BY <2>1, PlusIs
  <2>4. ASSUME NEW j \in Search!Element
        PROVE  Whole(t, m)[j] = Search!Plus(Whole(s, m), i)[j]
    <3>1. m[j] \in Nat /\ s.added[j] \in Nat
      BY <1>2 DEF Multiset
    <3>2. Whole(t, m)[j] = m[j] + t.added[j]
          /\ Whole(s, m)[j] = m[j] + s.added[j]
      BY <2>1, <2>2 DEF Adds
    <3>3. t.added[j] = IF j = i THEN s.added[j] + 1 ELSE s.added[j]
      BY <1>3
    <3>4. Search!Plus(Whole(s, m), i)[j] =
            IF j = i THEN Whole(s, m)[j] + 1 ELSE Whole(s, m)[j]
      BY <2>3
    <3>5. CASE j = i
      BY <3>1, <3>2, <3>3, <3>4, <3>5
    <3>6. CASE j # i
      BY <3>1, <3>2, <3>3, <3>4, <3>6
    <3> QED
      BY <3>5, <3>6
  <2> QED
    BY <2>2, <2>3, <2>4, SameMultiset
<1>6. /\ Search!Weight(Whole(t, m)) = Search!Weight(Whole(s, m)) + i
      /\ Search!SubsetSums(Whole(t, m)) =
           Search!SubsetSums(Whole(s, m))
             \cup {v + i : v \in Search!SubsetSums(Whole(s, m))}
  BY <1>5, WholeIs, WeightPlus, SumsPlus
<1>7. Side(t, m)
  <2>1. /\ s.start = Search!SubsetSums(m)
        /\ s.sum = Search!Weight(Whole(s, m))
        /\ s.sums = Search!SubsetSums(Whole(s, m))
    BY DEF Side
  <2>2. t.sum = Search!Weight(Whole(t, m))
    BY <1>1, <1>6, <2>1
  <2>3. t.sums = Search!SubsetSums(Whole(t, m))
    BY <1>1, <1>6, <2>1
  <2> QED
    BY <1>1, <1>3, <1>4, <2>1, <2>2, <2>3 DEF Side
<1> QED
  BY <1>1, <1>5, <1>7 DEF t

LEMMA SidedAdd ==
  ASSUME NEW s \in Sumset, NEW m \in Multiset, NEW g \in Sumset,
         NEW k \in Multiset, Sided(s, m, g, k), s.sum <= g.sum,
         NEW i \in Search!Element, i <= D, i \notin g.sums
  PROVE  Sided(Search!SumsetAdd(s, i), m, g, k)
<1> DEFINE t == Search!SumsetAdd(s, i)
<1>1. Side(s, m) /\ Side(g, k)
  BY DEF Sided
<1>2. /\ Side(t, m) /\ Whole(t, m) = Search!Plus(Whole(s, m), i)
      /\ t.added = Search!Plus(s.added, i) /\ t.sum = s.sum + i
  BY <1>1, SideAdd
<1> HIDE DEF t
<1>3. s.sum \in Nat /\ g.sum \in Nat /\ s.added \in Multiset /\ i \in Nat
      /\ 1 <= i
  BY <1>1, WholeIs, ElementPositive
<1>4. \A j \in Search!Element :
        t.added[j] = IF j = i THEN s.added[j] + 1 ELSE s.added[j]
  BY <1>2, <1>3, PlusIs
<1>5. t.added[i] > 0
  BY <1>3, <1>4 DEF Multiset
<1>6. Lone(t, g)
  <2> SUFFICES ASSUME NEW j \in Search!Element, t.added = Single(j, 1)
               PROVE  j \notin g.sums
    BY DEF Lone
  <2>1. i = j
    BY <1>5, SingleIs
  <2> QED
    BY <2>1
<1>7. Lone(g, t)
  BY <1>5, EmptyIs DEF Lone
<1>8. Still(t, g, k)
  BY <1>2, <1>3 DEF Still
<1>9. Still(g, t, m)
  <2> SUFFICES ASSUME g.sum = 0
               PROVE  m = Search!Empty /\ Whole(t, m) = Single(i, 1)
    BY DEF Still
  <2>1. s.sum = 0
    BY <1>3
  <2>2. m = Search!Empty /\ Whole(s, m) = Search!Empty
    BY <1>1, <2>1, NothingIs
  <2>3. Search!Plus(Search!Empty, i) = Single(i, 1)
    <3>1. \A j \in Search!Element :
            Search!Plus(Search!Empty, i)[j] = Single(i, 1)[j]
      BY PlusIs, SingleIs, EmptyIs
    <3> QED
      BY <3>1, PlusIs, SingleIs, EmptyIs, SameMultiset
  <2> QED
    BY <1>2, <2>2, <2>3
<1> QED
  BY <1>1, <1>2, <1>6, <1>7, <1>8, <1>9 DEF Sided, t

\* The pair <<S, G>> is neither completed by an element of S alone nor, for
\* empty inputs, the same element twice.
Open(m, k, S, G) ==
  /\ ~(m = Search!Empty /\ k = G /\ Total(S) = 1)
  /\ ~(/\ m = Search!Empty /\ k = Search!Empty
       /\ \E j \in Search!Element : S = Single(j, 1) /\ G = Single(j, 1))

\* The least element the smaller side lacks.
Lacks(s, m, S, e) ==
  /\ e \in Search!Element /\ Whole(s, m)[e] < S[e]
  /\ \A d \in Search!Element : Whole(s, m)[d] < S[d] => e <= d

\* On the way to an uncontestable pair, the smaller side lacks an element,
\* and the least one it lacks is not skipped.
LEMMA Onward ==
  ASSUME NEW s, NEW m \in Multiset, NEW g, NEW k \in Multiset,
         Sided(s, m, g, k), s.sum <= g.sum, s.sums \cap g.sums = {0},
         NEW S, NEW G, Pair(S, G), Search!Weight(S) > 0,
         NEW l, NEW h, Towards(s, m, S, l), Towards(g, k, G, h),
         Open(m, k, S, G)
  PROVE  \E e : Lacks(s, m, S, e) /\ l <= e /\ e <= D /\ e \notin g.sums
<1> DEFINE v == Whole(s, m)
           u == Whole(g, k)
           w == Search!Weight(S)
<1>1. Side(s, m) /\ Side(g, k)
  BY DEF Sided
<1>2. /\ v \in Multiset /\ u \in Multiset
      /\ s.sum = Search!Weight(v) /\ g.sum = Search!Weight(u)
      /\ s.sum \in Nat /\ g.sum \in Nat
      /\ s.sums = Search!SubsetSums(v) /\ g.sums = Search!SubsetSums(u)
  BY <1>1, WholeIs
<1>3. /\ S \in Multiset /\ G \in Multiset /\ Search!Weight(G) = w
      /\ w \in Nat /\ w > 0 /\ Small(S)
      /\ Search!SubsetSums(S) \cap Search!SubsetSums(G) = {0, w}
  BY WeightTyped DEF Pair
<1>4. Search!Included(v, S) /\ Search!Included(u, G)
  BY DEF Towards
<1>5. /\ g.sum <= w
      /\ g.sum = w => u = G
  BY <1>2, <1>3, <1>4, WeightIncluded
<1> HIDE DEF v, u, w
<1>6. v # S
  <2> SUFFICES ASSUME v = S PROVE FALSE
    OBVIOUS
  <2>1. s.sum = w
    BY <1>2 DEF w
  <2>2. g.sum = w
    BY <1>2, <1>3, <1>5, <2>1
  <2>3. w \in s.sums /\ w \in g.sums
    BY <1>2, <1>3, <1>5, <2>2, SumsEnds DEF w
  <2> QED
    BY <1>3, <2>3
<1>7. PICK e : Lacks(s, m, S, e)
  <2> DEFINE M == {d \in Search!Element : v[d] < S[d]}
  <2>1. M # {}
    <3> SUFFICES ASSUME \A d \in Search!Element : ~(v[d] < S[d]) PROVE FALSE
      OBVIOUS
    <3>1. \A d \in Search!Element : v[d] = S[d]
      BY <1>2, <1>3, <1>4 DEF Search!Included, Multiset
    <3> QED
      BY <1>2, <1>3, <1>6, <3>1, SameMultiset
  <2>2. M \in SUBSET Nat
    BY ElementPositive
  <2>3. \E e \in M : \A d \in M : e <= d
    <3> HIDE DEF M
    <3> QED
      BY <2>1, <2>2, LeastNat
  <2> QED
    BY <2>3 DEF Lacks, v
<1>8. /\ e \in Search!Element /\ v[e] < S[e] /\ l <= e /\ S[e] > 0
      /\ e \in Nat /\ 1 <= e
  <2>1. e \in Search!Element /\ v[e] < S[e]
    BY <1>7 DEF Lacks, v
  <2>2. l <= e
    BY <2>1 DEF Towards, v
  <2>3. v[e] \in Nat /\ S[e] \in Nat /\ e \in Nat /\ 1 <= e
    BY <1>2, <1>3, <2>1, ElementPositive DEF Multiset
  <2>4. S[e] > 0
    BY <2>1, <2>3
  <2> QED
    BY <2>1, <2>2, <2>3, <2>4
<1>9. e <= D
  BY <1>3, <1>8 DEF Small
<1>10. e \notin g.sums
  <2> SUFFICES ASSUME e \in g.sums PROVE FALSE
    OBVIOUS
  <2>1. e \in Search!SubsetSums(G)
    BY <1>2, <1>3, <1>4, SumsMonotone
  <2>2. e \in Search!SubsetSums(S)
    BY <1>3, <1>8, SumsElement
  <2>3. e = w
    BY <1>3, <1>8, <2>1, <2>2
  <2>4. S = Single(e, 1)
    BY <1>3, <1>8, <2>3, WeightOfOne DEF w
  <2>5. \A i \in Search!Element : v[i] = 0
    <3> SUFFICES ASSUME NEW i \in Search!Element PROVE v[i] = 0
      OBVIOUS
    <3>1. S[i] = IF i = e THEN 1 ELSE 0
      BY <1>8, <2>4, SingleIs
    <3>2. v[i] <= S[i] /\ v[i] \in Nat
      BY <1>2, <1>4 DEF Search!Included, Multiset
    <3> QED
      BY <1>8, <3>1, <3>2
  <2>6. s.sum = 0
    <3>1. v = Search!Empty
      BY <1>2, <2>5, EmptyIs, SameMultiset
    <3> QED
      BY <1>2, <3>1, EmptyIs
  <2>7. m = Search!Empty
    BY <1>1, <2>6, NothingIs
  <2>8. u = G
    <3>1. e <= g.sum
      BY <1>2, SumsEnds
    <3> QED
      BY <1>2, <1>3, <1>5, <2>3, <3>1
  <2>9. Total(S) = 1
    BY <1>8, <2>4, WeightSingle
  <2>10. CASE g.added = Search!Empty
    <3>1. \A i \in Search!Element : u[i] = k[i]
      BY <1>1, <2>10, WholeIs, EmptyIs DEF u, Adds, Multiset
    <3>2. k = G
      BY <1>2, <2>8, <3>1, SameMultiset
    <3> QED
      BY <2>7, <2>9, <3>2 DEF Open
  <2>11. CASE g.added # Search!Empty
    <3>1. PICK j \in Search!Element : k = Search!Empty /\ u = Single(j, 1)
      BY <2>6, <2>11 DEF Sided, Still, u
    <3>2. G = Single(j, 1)
      BY <2>8, <3>1
    <3>3. Search!Weight(G) = j
      <4>1. j \in Nat /\ j * 1 = j
        BY ElementPositive
      <4> QED
        BY <3>2, <4>1, WeightSingle
    <3>4. j = e
      BY <1>3, <2>3, <3>3
    <3> QED
      BY <1>8, <2>4, <2>7, <3>1, <3>2, <3>4 DEF Open
  <2> QED
    BY <2>10, <2>11
<1> QED
  BY <1>7, <1>8, <1>9, <1>10

-----------------------------------------------------------------------------
(* What the search has found, and what is still ahead                      *)

Input == [a : Multiset, b : Multiset]

\* The input a side started from, and the multiset it is on the way to; q
\* tells whether it started from A_0.
In(inp, q) == IF q THEN inp.a ELSE inp.b
Goal(q, A, B) == IF q THEN A ELSE B

SmallerOf(f) == IF f.a.sum > f.b.sum THEN f.b ELSE f.a
GreaterOf(f) == IF f.a.sum > f.b.sum THEN f.a ELSE f.b

\* q tells where the smaller side of the frame started.
Kept(inp, f, q) ==
  Sided(SmallerOf(f), In(inp, q), GreaterOf(f), In(inp, ~q))

\* The pair can still be reached from the frame.
Ahead(inp, f, q, A, B) ==
  /\ Kept(inp, f, q)
  /\ Towards(SmallerOf(f), In(inp, q), Goal(q, A, B), f.last)
  /\ Towards(GreaterOf(f), In(inp, ~q), Goal(~q, A, B), GreaterOf(f).last)

WantedFor(inp, A, B) ==
  /\ Pair(A, B)
  /\ Search!Included(inp.a, A) /\ Search!Included(inp.b, B)
  /\ ~(inp.a = Search!Empty /\ inp.b = B /\ Total(A) = 1)
  /\ ~(inp.b = Search!Empty /\ inp.a = A /\ Total(B) = 1)

Twice(inp, A, B) ==
  /\ inp.a = Search!Empty /\ inp.b = Search!Empty
  /\ \E j \in Search!Element : A = Single(j, 1) /\ B = Single(j, 1)

LEMMA WantedIs ==
  ASSUME NEW A, NEW B
  PROVE  Wanted(A, B) <=> WantedFor(input, A, B)
<1> DEFINE p == <<A, B>>
<1>1. p[1] = A /\ p[2] = B
  OBVIOUS
<1> HIDE DEF p
<1>2. Search!CompletedByOne(p) <=>
        \/ input.a = Search!Empty /\ input.b = B /\ Total(A) = 1
        \/ input.b = Search!Empty /\ input.a = A /\ Total(B) = 1
  BY <1>1 DEF Search!CompletedByOne, Total
<1> QED
  BY <1>2 DEF Wanted, WantedFor, p

LEMMA InIs ==
  ASSUME NEW inp \in Input, NEW q \in BOOLEAN
  PROVE  /\ In(inp, q) \in Multiset /\ In(inp, ~q) \in Multiset
         /\ In(inp, ~~q) = In(inp, q)
         /\ (~q) \in BOOLEAN
BY DEF Input, In

LEMMA FrameSides ==
  ASSUME NEW f \in Frames
  PROVE  /\ SmallerOf(f) \in Sumset /\ GreaterOf(f) \in Sumset
         /\ SmallerOf(f).sum \in Nat /\ GreaterOf(f).sum \in Nat
         /\ SmallerOf(f).sum <= GreaterOf(f).sum
         /\ f.a.sums \cap f.b.sums = SmallerOf(f).sums \cap GreaterOf(f).sums
<1>1. /\ f.a \in Sumset /\ f.b \in Sumset
      /\ f.a.sum \in Nat /\ f.b.sum \in Nat
  BY DEF Frames, Sumset
<1> QED
  BY <1>1 DEF SmallerOf, GreaterOf

LEMMA GoalPair ==
  ASSUME NEW A, NEW B, Pair(A, B), NEW q \in BOOLEAN
  PROVE  /\ Pair(Goal(q, A, B), Goal(~q, A, B))
         /\ Search!Weight(Goal(q, A, B)) = Search!Weight(A)
         /\ Goal(~~q, A, B) = Goal(q, A, B)
<1>1. CASE q
  BY <1>1 DEF Goal
<1>2. CASE ~q
  BY <1>2, PairSwap DEF Goal, Pair
<1> QED
  BY <1>1, <1>2

LEMMA OnwardFrame ==
  ASSUME NEW inp \in Input, NEW f \in Frames, NEW q \in BOOLEAN,
         NEW A, NEW B, Ahead(inp, f, q, A, B), WantedFor(inp, A, B),
         Search!Weight(A) > 0, ~Twice(inp, A, B),
         f.a.sums \cap f.b.sums = {0}
  PROVE  \E e : /\ Lacks(SmallerOf(f), In(inp, q), Goal(q, A, B), e)
                /\ f.last <= e /\ e <= D /\ e \notin GreaterOf(f).sums
<1> DEFINE s == SmallerOf(f)
           g == GreaterOf(f)
           m == In(inp, q)
           k == In(inp, ~q)
           S == Goal(q, A, B)
           G == Goal(~q, A, B)
<1>1. /\ m \in Multiset /\ k \in Multiset /\ Sided(s, m, g, k)
      /\ Towards(s, m, S, f.last) /\ Towards(g, k, G, g.last)
  BY InIs DEF Ahead, Kept
<1>2. s.sum <= g.sum /\ s.sums \cap g.sums = {0}
  BY FrameSides
<1>3. Pair(S, G) /\ Search!Weight(S) > 0
  BY GoalPair DEF WantedFor
<1>4. Open(m, k, S, G)
  <2>1. CASE q
    BY <2>1 DEF WantedFor, Twice, Open, In, Goal
  <2>2. CASE ~q
    BY <2>2 DEF WantedFor, Twice, Open, In, Goal
  <2> QED
    BY <2>1, <2>2
<1> HIDE DEF s, g, m, k, S, G
<1>5. \E e : Lacks(s, m, S, e) /\ f.last <= e /\ e <= D /\ e \notin g.sums
  BY <1>1, <1>2, <1>3, <1>4, Onward
<1> QED
  BY <1>5 DEF s, g, m, k, S, G

LEMMA TowardsAdd ==
  ASSUME NEW s \in Sumset, NEW m \in Multiset, Side(s, m),
         NEW S \in Multiset, NEW i, Lacks(s, m, S, i), i <= D,
         Search!Included(Whole(s, m), S)
  PROVE  Towards(Search!SumsetAdd(s, i), m, S, i)
<1> DEFINE t == Search!SumsetAdd(s, i)
<1>1. i \in Search!Element /\ Whole(s, m)[i] < S[i]
  BY DEF Lacks
<1>2. Whole(t, m) = Search!Plus(Whole(s, m), i)
  BY <1>1, SideAdd
<1>3. Whole(s, m) \in Multiset
  BY WholeIs
<1>4. \A j \in Search!Element :
        Whole(t, m)[j] = IF j = i THEN Whole(s, m)[j] + 1 ELSE Whole(s, m)[j]
  BY <1>1, <1>2, <1>3, PlusIs
<1> HIDE DEF t
<1>5. ASSUME NEW j \in Search!Element
      PROVE  /\ Whole(t, m)[j] <= S[j]
             /\ Whole(t, m)[j] < S[j] => Whole(s, m)[j] < S[j]
  <2>1. Whole(s, m)[j] \in Nat /\ S[j] \in Nat /\ Whole(s, m)[j] <= S[j]
    BY <1>3 DEF Multiset, Search!Included
  <2> QED
    BY <1>1, <1>4, <2>1
<1>6. Search!Included(Whole(t, m), S)
  BY <1>5 DEF Search!Included
<1>7. \A e \in Search!Element : Whole(t, m)[e] < S[e] => i <= e
  BY <1>5 DEF Lacks
<1> QED
  BY <1>6, <1>7 DEF Towards, t

\* A child of the frame f, for the element i.
Child(c, f, i) ==
  /\ c.a = Search!SumsetAdd(SmallerOf(f), i) /\ c.b = GreaterOf(f)
  /\ c.last = IF SmallerOf(f).sum + i <= GreaterOf(f).sum THEN i
              ELSE GreaterOf(f).last

LEMMA ChildAhead ==
  ASSUME NEW inp \in Input, NEW f \in Frames, NEW q \in BOOLEAN,
         Kept(inp, f, q), NEW i \in Search!Element, i <= D,
         i \notin GreaterOf(f).sums, NEW c, Child(c, f, i)
  PROVE  \E r \in BOOLEAN :
           /\ Kept(inp, c, r)
           /\ \A A, B :
                /\ Pair(A, B) /\ Ahead(inp, f, q, A, B)
                /\ Lacks(SmallerOf(f), In(inp, q), Goal(q, A, B), i)
                => Ahead(inp, c, r, A, B)
<1> DEFINE s == SmallerOf(f)
           g == GreaterOf(f)
           m == In(inp, q)
           k == In(inp, ~q)
           t == Search!SumsetAdd(s, i)
<1>1. /\ m \in Multiset /\ k \in Multiset /\ Sided(s, m, g, k)
      /\ s \in Sumset /\ g \in Sumset
      /\ s.sum \in Nat /\ g.sum \in Nat /\ s.sum <= g.sum
  BY InIs, FrameSides DEF Kept
<1>2. /\ c.a = t /\ c.b = g
      /\ c.last = IF s.sum + i <= g.sum THEN i ELSE g.last
  BY DEF Child
<1>3. i \notin g.sums
  OBVIOUS
<1>4. In(inp, ~~q) = m
  BY InIs
<1> HIDE DEF s, g, m, k
<1>5. Side(s, m)
  BY <1>1 DEF Sided
<1>6. Sided(t, m, g, k)
  BY <1>1, <1>3, SidedAdd
<1>7. t.sum = s.sum + i /\ t.last = i
  BY <1>1, <1>5, SideAdd
<1>8. i \in Nat
  BY ElementPositive
<1>9. ASSUME NEW A, NEW B, Pair(A, B), Ahead(inp, f, q, A, B),
             Lacks(s, m, Goal(q, A, B), i)
      PROVE  /\ Towards(t, m, Goal(q, A, B), i)
             /\ Towards(g, k, Goal(~q, A, B), g.last)
  <2>1. /\ Towards(s, m, Goal(q, A, B), f.last)
        /\ Towards(g, k, Goal(~q, A, B), g.last)
    BY <1>9 DEF Ahead, s, g, m, k
  <2>2. Goal(q, A, B) \in Multiset
    BY <1>9, GoalPair DEF Pair
  <2>3. Search!Included(Whole(s, m), Goal(q, A, B))
    BY <2>1 DEF Towards
  <2> HIDE DEF t
  <2>4. Towards(t, m, Goal(q, A, B), i)
    BY <1>1, <1>5, <1>9, <2>2, <2>3, TowardsAdd DEF t
  <2> QED
    BY <2>1, <2>4
<1> HIDE DEF t
<1>10. CASE t.sum <= g.sum
  <2>1. SmallerOf(c) = t /\ GreaterOf(c) = g /\ c.last = i
    BY <1>1, <1>2, <1>7, <1>8, <1>10 DEF SmallerOf, GreaterOf
  <2>2. Kept(inp, c, q)
    BY <1>6, <2>1 DEF Kept, m, k
  <2>3. ASSUME NEW A, NEW B, Pair(A, B), Ahead(inp, f, q, A, B),
               Lacks(s, m, Goal(q, A, B), i)
        PROVE  Ahead(inp, c, q, A, B)
    <3>1. /\ Towards(t, m, Goal(q, A, B), i)
          /\ Towards(g, k, Goal(~q, A, B), g.last)
      BY <1>9, <2>3
    <3> QED
      BY <2>1, <2>2, <3>1 DEF Ahead, m, k
  <2> QED
    BY <2>2, <2>3 DEF s, m
<1>11. CASE ~(t.sum <= g.sum)
  <2>1. SmallerOf(c) = g /\ GreaterOf(c) = t /\ c.last = g.last
    BY <1>1, <1>2, <1>7, <1>8, <1>11 DEF SmallerOf, GreaterOf
  <2> DEFINE r == ~q
  <2>2. r \in BOOLEAN /\ In(inp, r) = k /\ In(inp, ~r) = m
    BY <1>4 DEF k
  <2>3. Sided(g, k, t, m)
    BY <1>6, SidedSwap
  <2>4. \A A, B : Pair(A, B) =>
          /\ Goal(r, A, B) = Goal(~q, A, B)
          /\ Goal(~r, A, B) = Goal(q, A, B)
    BY GoalPair
  <2> HIDE DEF r
  <2>5. Kept(inp, c, r)
    BY <2>1, <2>2, <2>3 DEF Kept
  <2>6. ASSUME NEW A, NEW B, Pair(A, B), Ahead(inp, f, q, A, B),
               Lacks(s, m, Goal(q, A, B), i)
        PROVE  Ahead(inp, c, r, A, B)
    <3>1. /\ Towards(t, m, Goal(~r, A, B), i)
          /\ Towards(g, k, Goal(r, A, B), g.last)
      BY <1>9, <2>4, <2>6
    <3> QED
      BY <1>7, <2>1, <2>2, <2>5, <3>1 DEF Ahead
  <2> QED
    BY <2>2, <2>5, <2>6 DEF s, m
<1> QED
  BY <1>10, <1>11

\* The frame that goes on after the element i.
LEMMA LaterAhead ==
  ASSUME NEW inp \in Input, NEW f, NEW q \in BOOLEAN, NEW A, NEW B,
         Ahead(inp, f, q, A, B), NEW i \in Nat, NEW e, i < e,
         Lacks(SmallerOf(f), In(inp, q), Goal(q, A, B), e),
         NEW h, h.a = f.a, h.b = f.b, h.last = i + 1
  PROVE  Ahead(inp, h, q, A, B)
<1>1. SmallerOf(h) = SmallerOf(f) /\ GreaterOf(h) = GreaterOf(f)
  BY DEF SmallerOf, GreaterOf
<1>2. Kept(inp, h, q)
  BY <1>1 DEF Ahead, Kept
<1>3. Towards(SmallerOf(h), In(inp, q), Goal(q, A, B), h.last)
  <2> DEFINE w == Whole(SmallerOf(f), In(inp, q))
             S == Goal(q, A, B)
  <2>1. Search!Included(w, S)
    BY DEF Ahead, Towards
  <2>2. e \in Search!Element /\ \A d \in Search!Element : w[d] < S[d] => e <= d
    BY DEF Lacks
  <2> HIDE DEF w, S
  <2>3. ASSUME NEW d \in Search!Element, w[d] < S[d] PROVE i + 1 <= d
    <3>1. e <= d /\ e \in Nat /\ d \in Nat
      BY <2>2, <2>3, ElementPositive
    <3> QED
      BY <3>1
  <2> QED
    BY <1>1, <2>1, <2>3 DEF Towards, w, S
<1> QED
  BY <1>1, <1>2, <1>3 DEF Ahead

-----------------------------------------------------------------------------
(* The solution recorded at a leaf                                         *)

LEMMA SizesAlike ==
  \A S : Search!Cardinality(S) = Cardinality(S)
BY DEF Search!Cardinality, Cardinality

LEMMA TwoElements ==
  ASSUME NEW w \in Nat, w # 0
  PROVE  /\ IsFiniteSet({0, w}) /\ Cardinality({0, w}) = 2
         /\ \A X : IsFiniteSet(X) /\ Cardinality(X) = 2 /\ {0, w} \subseteq X
                   => X = {0, w}
<1> DEFINE one == {0}
           two == {0, w}
<1>1. IsFiniteSet(one) /\ Cardinality(one) = 1
  BY FS_Singleton
<1>2. two = one \cup {w} /\ w \notin one
  OBVIOUS
<1> HIDE DEF one
<1>3. IsFiniteSet(two) /\ Cardinality(two) = 2
  <2>1. IsFiniteSet(one \cup {w})
        /\ Cardinality(one \cup {w}) = Cardinality(one) + 1
    BY <1>1, <1>2, FS_AddElement
  <2>2. two = one \cup {w}
    BY <1>2
  <2> HIDE DEF two
  <2> QED
    BY <1>1, <2>1, <2>2
<1> HIDE DEF two
<1>4. ASSUME NEW X, IsFiniteSet(X), Cardinality(X) = 2, two \subseteq X
      PROVE  X = two
  <2> SUFFICES ASSUME NEW x \in X, x \notin two PROVE FALSE
    BY <1>4
  <2> DEFINE three == two \cup {x}
  <2>1. IsFiniteSet(three) /\ Cardinality(three) = Cardinality(two) + 1
    BY <1>3, FS_AddElement
  <2>2. three \subseteq X
    BY <1>4
  <2> HIDE DEF three
  <2>3. Cardinality(three) <= Cardinality(X)
    BY <1>4, <2>2, FS_Subset
  <2> QED
    BY <1>3, <1>4, <2>1, <2>3
<1> QED
  BY <1>3, <1>4 DEF two

LEMMA SumsFinite ==
  ASSUME NEW m \in Multiset
  PROVE  IsFiniteSet(Search!SubsetSums(m))
<1> DEFINE w == Search!Weight(m)
<1>1. w \in Nat /\ \A v \in Search!SubsetSums(m) : v \in Nat /\ v <= w
  BY WeightTyped, SumsEnds
<1> HIDE DEF w
<1>2. Search!SubsetSums(m) \subseteq 0..w
  BY <1>1
<1>3. IsFiniteSet(0..w)
  BY <1>1, FS_Interval
<1> QED
  BY <1>2, <1>3, FS_Subset

\* A leaf on the way to a wanted pair is that pair.
LEMMA LeafFrame ==
  ASSUME NEW inp \in Input, NEW f \in Frames, NEW q \in BOOLEAN,
         NEW A, NEW B, Ahead(inp, f, q, A, B), Pair(A, B),
         Search!Weight(A) > 0, f.a.sums \cap f.b.sums # {0}
  PROVE  /\ Search!IsSolution(SmallerOf(f), GreaterOf(f))
         /\ GreaterOf(f).sum = Search!Weight(A)
<1> DEFINE s == SmallerOf(f)
           g == GreaterOf(f)
           m == In(inp, q)
           k == In(inp, ~q)
           S == Goal(q, A, B)
           G == Goal(~q, A, B)
           w == Search!Weight(A)
           v == Whole(s, m)
           u == Whole(g, k)
<1>1. /\ m \in Multiset /\ k \in Multiset /\ Side(s, m) /\ Side(g, k)
      /\ Search!Included(v, S) /\ Search!Included(u, G)
  BY InIs DEF Ahead, Kept, Sided, Towards
<1>2. s.sums \cap g.sums # {0}
  BY FrameSides
<1>3. /\ S \in Multiset /\ G \in Multiset
      /\ Search!Weight(S) = w /\ Search!Weight(G) = w
      /\ Search!SubsetSums(S) \cap Search!SubsetSums(G) = {0, w}
  <2>1. Pair(S, G) /\ Search!Weight(S) = w
    BY GoalPair
  <2> HIDE DEF S, G, w
  <2> QED
    BY <2>1 DEF Pair
<1>4. w \in Nat /\ w # 0
  BY WeightTyped DEF Pair
<1> HIDE DEF s, g, m, k, S, G, w
<1>5. /\ v \in Multiset /\ u \in Multiset
      /\ s.sum = Search!Weight(v) /\ g.sum = Search!Weight(u)
      /\ s.sums = Search!SubsetSums(v) /\ g.sums = Search!SubsetSums(u)
      /\ s.sum \in Nat /\ g.sum \in Nat
  BY <1>1, WholeIs
<1> HIDE DEF v, u
<1>6. s.sums \cap g.sums \subseteq {0, w}
  BY <1>1, <1>3, <1>5, SumsMonotone
<1>7. 0 \in s.sums /\ 0 \in g.sums
  BY <1>5, SumsEnds
<1>8. w \in s.sums /\ w \in g.sums
  BY <1>2, <1>6, <1>7
<1>9. s.sum = w /\ g.sum = w
  <2>1. s.sum >= w /\ g.sum >= w
    BY <1>5, <1>8, SumsEnds
  <2>2. s.sum <= w /\ g.sum <= w
    BY <1>1, <1>3, <1>5, WeightIncluded
  <2> QED
    BY <1>4, <1>5, <2>1, <2>2
<1>10. s.sums \cap g.sums = {0, w}
  BY <1>6, <1>7, <1>8
<1>11. Search!IntersectionSize(s, g) = 2
  BY <1>4, <1>10, SizesAlike, TwoElements DEF Search!IntersectionSize
<1> QED
  BY <1>9, <1>11 DEF Search!IsSolution, s, g, w

\* Two inputs with the same sums, all of them 0 or w, are the same.
LEMMA SameSums ==
  ASSUME NEW m \in Multiset, NEW k \in Multiset, NEW w \in Nat,
         Search!SubsetSums(m) = Search!SubsetSums(k),
         Search!SubsetSums(m) \subseteq {0, w}
  PROVE  m = k
<1>1. ASSUME NEW n \in Multiset, Search!SubsetSums(n) \subseteq {0, w},
             n # Search!Empty
      PROVE  /\ w \in Search!Element /\ n = Single(w, 1)
             /\ w \in Search!SubsetSums(n)
  <2>1. Search!Weight(n) \in Nat /\ Search!Weight(n) # 0
    BY <1>1, WeightTyped, WeightNone
  <2>2. Search!Weight(n) = w
    BY <1>1, <2>1, SumsEnds
  <2>3. PICK x \in Search!Element : n[x] > 0
    BY <1>1, <2>1, SomeElement
  <2>4. x \in Search!SubsetSums(n) /\ x \in Nat /\ 1 <= x
    BY <1>1, <2>3, SumsElement, ElementPositive
  <2>5. x = w
    BY <1>1, <2>4
  <2> QED
    BY <1>1, <2>2, <2>3, <2>4, <2>5, WeightOfOne
<1>2. CASE m = Search!Empty /\ k = Search!Empty
  BY <1>2
<1>3. CASE m # Search!Empty /\ k # Search!Empty
  BY <1>1, <1>3
<1>4. ASSUME NEW n \in Multiset, n # Search!Empty,
             Search!SubsetSums(n) \subseteq {0, w}
      PROVE  Search!SubsetSums(n) # Search!SubsetSums(Search!Empty)
  <2>1. w \in Search!Element /\ w \in Search!SubsetSums(n)
    BY <1>1, <1>4
  <2>2. 1 <= w
    BY <2>1, ElementPositive
  <2>3. \A v \in Search!SubsetSums(Search!Empty) : v <= 0
    BY EmptyIs, SumsEnds
  <2> QED
    BY <2>1, <2>2, <2>3
<1> QED
  BY <1>2, <1>3, <1>4

\* The multisets built out of the added elements and the input.
LEMMA RecoverIs ==
  ASSUME NEW old \in Multiset, NEW s, NEW m \in Multiset, Side(s, m), Small(m)
  PROVE  /\ Search!Recover(old, s) \in Multiset
         /\ Search!Union(Search!Recover(old, s), m) \in Multiset
         /\ D < MAX_D /\ old[MAX_D] = 0 =>
              /\ Search!Union(Search!Recover(old, s), m) = Whole(s, m)
              /\ Search!Union(Search!Recover(old, s), m)[MAX_D] = 0
<1>1. s.added \in Multiset /\ Small(s.added)
  BY DEF Side
<1> DEFINE r == Search!Recover(old, s)
<1>2. \A i \in Search!Element :
        r[i] = s.added[i] + (IF i = MAX_D THEN old[i] ELSE 0)
  BY DEF Search!Recover
<1>3. r \in Multiset
  <2>1. \A i \in Search!Element :
          s.added[i] + (IF i = MAX_D THEN old[i] ELSE 0) \in Nat
    BY <1>1 DEF Multiset
  <2> QED
    BY <2>1 DEF Search!Recover, Multiset
<1> HIDE DEF r
<1>4. Search!Union(r, m) \in Multiset /\ Adds(Search!Union(r, m), r, m)
  BY <1>3, UnionIs
<1>5. ASSUME D < MAX_D, old[MAX_D] = 0
      PROVE  /\ Search!Union(r, m) = Whole(s, m)
             /\ Search!Union(r, m)[MAX_D] = 0
  <2>1. MAX_D \in Search!Element /\ ~(MAX_D <= D)
    BY <1>5, Search!DAssumption DEF Search!Element
  <2>2. m[MAX_D] = 0 /\ s.added[MAX_D] = 0
    BY <1>1, <2>1 DEF Small, Multiset
  <2>3. \A i \in Search!Element : r[i] = s.added[i]
    <3> SUFFICES ASSUME NEW i \in Search!Element PROVE r[i] = s.added[i]
      OBVIOUS
    <3>1. s.added[i] \in Nat
      BY <1>1 DEF Multiset
    <3>2. CASE i = MAX_D
      BY <1>2, <1>5, <3>1, <3>2
    <3>3. CASE i # MAX_D
      BY <1>2, <3>1, <3>3
    <3> QED
      BY <3>2, <3>3
  <2>4. Whole(s, m) \in Multiset /\ Adds(Whole(s, m), m, s.added)
    BY WholeIs
  <2>5. \A i \in Search!Element : Search!Union(r, m)[i] = Whole(s, m)[i]
    BY <1>1, <1>3, <1>4, <2>3, <2>4 DEF Adds, Multiset
  <2>6. Search!Union(r, m) = Whole(s, m)
    BY <1>4, <2>4, <2>5, SameMultiset
  <2>7. Search!Union(r, m)[MAX_D] = 0
    BY <1>4, <2>1, <2>2, <2>3 DEF Adds
  <2> QED
    BY <2>6, <2>7
<1> QED
  BY <1>3, <1>4, <1>5 DEF r

\* The pair of a solution.
LEMMA SolutionPair ==
  ASSUME NEW s, NEW m \in Multiset, NEW g, NEW k \in Multiset,
         Small(m), Small(k), Sided(s, m, g, k), Search!IsSolution(s, g),
         g.sum > 0
  PROVE  /\ Pair(Whole(s, m), Whole(g, k))
         /\ Search!Weight(Whole(s, m)) = g.sum
         /\ Search!Included(m, Whole(s, m)) /\ Search!Included(k, Whole(g, k))
         /\ ~(m = Search!Empty /\ k = Whole(g, k) /\ Total(Whole(s, m)) = 1)
         /\ Search!SubsetSums(m) \cap Search!SubsetSums(k) \subseteq {0, g.sum}
<1> DEFINE v == Whole(s, m)
           u == Whole(g, k)
           w == g.sum
<1>1. Side(s, m) /\ Side(g, k)
  BY DEF Sided
<1>2. /\ v \in Multiset /\ u \in Multiset
      /\ s.added \in Multiset /\ g.added \in Multiset
      /\ Adds(v, m, s.added) /\ Adds(u, k, g.added)
      /\ Search!Included(m, v) /\ Search!Included(k, u)
      /\ s.sum = Search!Weight(v) /\ w = Search!Weight(u) /\ w \in Nat
      /\ s.sums = Search!SubsetSums(v) /\ g.sums = Search!SubsetSums(u)
  BY <1>1, WholeIs
<1> HIDE DEF v, u
<1>3. w # 0 /\ s.sum = w /\ Cardinality(s.sums \cap g.sums) = 2
  BY <1>2, SizesAlike DEF Search!IsSolution, Search!IntersectionSize
<1>4. s.sums \cap g.sums = {0, w}
  <2>1. {0, w} \subseteq s.sums \cap g.sums
    BY <1>2, <1>3, SumsEnds
  <2>2. IsFiniteSet(s.sums \cap g.sums)
    <3>1. IsFiniteSet(s.sums)
      BY <1>2, SumsFinite
    <3> QED
      BY <3>1, FS_Subset
  <2> DEFINE X == s.sums \cap g.sums
  <2> HIDE DEF w, X
  <2> QED
    BY <1>2, <1>3, <2>1, <2>2, TwoElements DEF X
<1>5. Small(v) /\ Small(u)
  <2>1. Small(s.added) /\ Small(g.added)
    BY <1>1 DEF Side
  <2>2. ASSUME NEW n \in Multiset, NEW x \in Multiset, NEW y \in Multiset,
               Adds(n, x, y), Small(x), Small(y)
        PROVE  Small(n)
    BY <2>2 DEF Small, Adds, Multiset
  <2> QED
    BY <1>2, <2>1, <2>2
<1>6. Pair(v, u)
  BY <1>2, <1>3, <1>4, <1>5 DEF Pair
<1>7. ~(m = Search!Empty /\ k = u /\ Total(v) = 1)
  <2> SUFFICES ASSUME m = Search!Empty, k = u, Total(v) = 1 PROVE FALSE
    OBVIOUS
  <2>1. PICK j \in Search!Element : v[j] > 0
    BY <1>2, SomeElement
  <2>2. v = Single(j, 1)
    BY <1>2, <2>1, WeightOfOne
  <2>3. s.added = v
    <3>1. \A i \in Search!Element : s.added[i] = v[i]
      BY <1>2, EmptyIs DEF Adds, Multiset
    <3> QED
      BY <1>2, <3>1, SameMultiset
  <2>4. g.added = Search!Empty
    <3>1. ASSUME NEW i \in Search!Element PROVE g.added[i] = 0
      <4> DEFINE p == k[i]
                 r == g.added[i]
      <4>1. p \in Nat /\ r \in Nat
        BY <1>2 DEF Multiset
      <4>2. p = p + r
        BY <1>2 DEF Adds
      <4> HIDE DEF p, r
      <4>3. r = 0
        BY <4>1, <4>2
      <4> QED
        BY <4>3 DEF r
    <3> QED
      BY <1>2, <3>1, EmptyIs, SameMultiset
  <2>5. j \notin g.sums
    BY <2>2, <2>3, <2>4 DEF Sided, Lone
  <2>6. Search!Weight(v) = j
    <3>1. j \in Nat /\ j * 1 = j
      BY ElementPositive
    <3> QED
      BY <2>2, <3>1, WeightSingle
  <2> QED
    BY <1>2, <1>3, <1>4, <2>5, <2>6
<1>8. Search!SubsetSums(m) \cap Search!SubsetSums(k) \subseteq {0, w}
  <2>1. /\ Search!SubsetSums(m) \subseteq s.sums
        /\ Search!SubsetSums(k) \subseteq g.sums
    BY <1>2, SumsMonotone
  <2> QED
    BY <1>4, <2>1
<1> QED
  BY <1>2, <1>3, <1>6, <1>7, <1>8 DEF v, u

-----------------------------------------------------------------------------
(* The greatest solution is found                                          *)

\* The solution b is one of the wanted pairs, and recorded in full if the
\* last place of the arrays is left over.
SoundFor(inp, b) ==
  /\ b.sum \in Nat /\ b.a \in Multiset /\ b.b \in Multiset
  /\ D < MAX_D => b.a[MAX_D] = 0 /\ b.b[MAX_D] = 0
  /\ b.sum > 0 =>
       \E A, B : /\ WantedFor(inp, A, B) /\ Search!Weight(A) = b.sum
                 /\ D < MAX_D => b.a = A /\ b.b = B

\* Every wanted pair is outweighed or ahead of a frame.
CompleteFor(inp, z, w) ==
  \A A, B :
    WantedFor(inp, A, B) /\ Search!Weight(A) > 0 /\ ~Twice(inp, A, B) =>
      \/ Search!Weight(A) <= w
      \/ \E n \in 1..Len(z), q \in BOOLEAN : Ahead(inp, z[n], q, A, B)

KeptAll(inp, z) == \A n \in 1..Len(z) : \E q \in BOOLEAN : Kept(inp, z[n], q)

FoundInv ==
  /\ SearchInv
  /\ input \in Input /\ Small(input.a) /\ Small(input.b)
  /\ KeptAll(input, stack) /\ SoundFor(input, best)
  /\ CompleteFor(input, stack, best.sum)

\* The test by which solution_build tells the sides apart is right: sides
\* it confuses started from the same multiset.
LEMMA SidesTold ==
  ASSUME NEW inp \in Input, Small(inp.a), Small(inp.b),
         NEW s, NEW g, NEW q \in BOOLEAN,
         Sided(s, In(inp, q), g, In(inp, ~q)),
         Search!IsSolution(s, g), g.sum \in Nat, g.sum > 0
  PROVE  IF s.start = Search!SubsetSums(inp.a)
         THEN Sided(s, inp.a, g, inp.b) ELSE Sided(s, inp.b, g, inp.a)
<1>1. inp.a \in Multiset /\ inp.b \in Multiset
  BY DEF Input
<1>2. CASE q
  <2>1. Sided(s, inp.a, g, inp.b)
    BY <1>2 DEF In
  <2>2. s.start = Search!SubsetSums(inp.a)
    BY <2>1 DEF Sided, Side
  <2> QED
    BY <2>1, <2>2
<1>3. CASE ~q
  <2>1. Sided(s, inp.b, g, inp.a)
    BY <1>3 DEF In
  <2>2. CASE s.start # Search!SubsetSums(inp.a)
    BY <2>1, <2>2
  <2>3. CASE s.start = Search!SubsetSums(inp.a)
    <3>1. Search!SubsetSums(inp.b) = Search!SubsetSums(inp.a)
      BY <2>1, <2>3 DEF Sided, Side
    <3>2. Search!SubsetSums(inp.b) \cap Search!SubsetSums(inp.a)
            \subseteq {0, g.sum}
      BY <1>1, <2>1, SolutionPair
    <3>3. Search!SubsetSums(inp.b) \subseteq {0, g.sum}
      BY <3>1, <3>2
    <3>4. inp.b = inp.a
      BY <1>1, <3>1, <3>3, SameSums
    <3>5. Sided(s, inp.a, g, inp.b)
      BY <2>1, <3>4
    <3> QED
      BY <2>3, <3>5
  <2> QED
    BY <2>2, <2>3
<1> QED
  BY <1>2, <1>3

\* What a solution is for.
LEMMA SolutionWanted ==
  ASSUME NEW m \in Multiset, NEW k \in Multiset, Small(m), Small(k),
         NEW s, NEW g, Sided(s, m, g, k), Search!IsSolution(s, g),
         g.sum > 0
  PROVE  /\ \A inp : inp.a = m /\ inp.b = k =>
              WantedFor(inp, Whole(s, m), Whole(g, k))
         /\ \A inp : inp.a = k /\ inp.b = m =>
              WantedFor(inp, Whole(g, k), Whole(s, m))
         /\ Search!Weight(Whole(s, m)) = g.sum
         /\ Search!Weight(Whole(g, k)) = g.sum
<1>1. Search!IsSolution(g, s) /\ s.sum = g.sum
  <2>1. s.sums \cap g.sums = g.sums \cap s.sums
    OBVIOUS
  <2> QED
    BY <2>1 DEF Search!IsSolution, Search!IntersectionSize
<1>2. Sided(g, k, s, m)
  BY SidedSwap
<1>3. /\ Pair(Whole(s, m), Whole(g, k))
      /\ Search!Weight(Whole(s, m)) = g.sum
      /\ Search!Included(m, Whole(s, m)) /\ Search!Included(k, Whole(g, k))
      /\ ~(m = Search!Empty /\ k = Whole(g, k) /\ Total(Whole(s, m)) = 1)
  BY SolutionPair
<1>4. /\ Pair(Whole(g, k), Whole(s, m))
      /\ Search!Weight(Whole(g, k)) = g.sum
      /\ ~(k = Search!Empty /\ m = Whole(s, m) /\ Total(Whole(g, k)) = 1)
  BY <1>1, <1>2, SolutionPair
<1> QED
  BY <1>3, <1>4 DEF WantedFor

LEMMA RecordSound ==
  ASSUME NEW inp \in Input, Small(inp.a), Small(inp.b),
         NEW s, NEW g, NEW q \in BOOLEAN,
         Sided(s, In(inp, q), g, In(inp, ~q)), Search!IsSolution(s, g),
         NEW b, SoundFor(inp, b), g.sum \in Nat, g.sum > b.sum
  PROVE  /\ SoundFor(inp, Search!SolutionBuild(b, inp, s, g))
         /\ Search!SolutionBuild(b, inp, s, g).sum = g.sum
<1> DEFINE t == Search!SolutionBuild(b, inp, s, g)
<1>1. /\ inp.a \in Multiset /\ inp.b \in Multiset
      /\ inp = [a |-> inp.a, b |-> inp.b]
  BY DEF Input
<1>2. /\ b.sum \in Nat /\ b.a \in Multiset /\ b.b \in Multiset
      /\ D < MAX_D => b.a[MAX_D] = 0 /\ b.b[MAX_D] = 0
  BY DEF SoundFor
<1>3. g.sum > 0 /\ s.sum = g.sum
  BY <1>2 DEF Search!IsSolution
<1>4. CASE s.start = Search!SubsetSums(inp.a)
  <2>1. Sided(s, inp.a, g, inp.b)
    BY <1>3, <1>4, SidesTold
  <2>2. Side(s, inp.a) /\ Side(g, inp.b)
    BY <2>1 DEF Sided
  <2>3. /\ t.sum = g.sum
        /\ t.a = Search!Union(Search!Recover(b.a, s), inp.a)
        /\ t.b = Search!Union(Search!Recover(b.b, g), inp.b)
    BY <1>3, <1>4 DEF Search!SolutionBuild
  <2> HIDE DEF t
  <2>4. /\ t.a \in Multiset /\ t.b \in Multiset
        /\ D < MAX_D => /\ t.a = Whole(s, inp.a) /\ t.b = Whole(g, inp.b)
                        /\ t.a[MAX_D] = 0 /\ t.b[MAX_D] = 0
    BY <1>1, <1>2, <2>2, <2>3, RecoverIs
  <2>5. /\ WantedFor(inp, Whole(s, inp.a), Whole(g, inp.b))
        /\ Search!Weight(Whole(s, inp.a)) = g.sum
    <3> DEFINE m == inp.a
               k == inp.b
    <3>1. m \in Multiset /\ k \in Multiset /\ Small(m) /\ Small(k)
          /\ Sided(s, m, g, k) /\ m = inp.a /\ k = inp.b
      BY <1>1, <2>1
    <3> HIDE DEF m, k
    <3>2. WantedFor(inp, Whole(s, m), Whole(g, k))
          /\ Search!Weight(Whole(s, m)) = g.sum
      BY <1>3, <3>1, SolutionWanted
    <3> QED
      BY <3>1, <3>2
  <2> QED
    BY <2>3, <2>4, <2>5 DEF SoundFor, t
<1>5. CASE s.start # Search!SubsetSums(inp.a)
  <2>1. Sided(s, inp.b, g, inp.a)
    BY <1>3, <1>5, SidesTold
  <2>2. Side(s, inp.b) /\ Side(g, inp.a)
    BY <2>1 DEF Sided
  <2>3. /\ t.sum = g.sum
        /\ t.a = Search!Union(Search!Recover(b.b, g), inp.a)
        /\ t.b = Search!Union(Search!Recover(b.a, s), inp.b)
    BY <1>3, <1>5 DEF Search!SolutionBuild
  <2> HIDE DEF t
  <2>4. /\ t.a \in Multiset /\ t.b \in Multiset
        /\ D < MAX_D => /\ t.a = Whole(g, inp.a) /\ t.b = Whole(s, inp.b)
                        /\ t.a[MAX_D] = 0 /\ t.b[MAX_D] = 0
    BY <1>1, <1>2, <2>2, <2>3, RecoverIs
  <2>5. /\ WantedFor(inp, Whole(g, inp.a), Whole(s, inp.b))
        /\ Search!Weight(Whole(g, inp.a)) = g.sum
    <3> DEFINE m == inp.a
               k == inp.b
    <3>1. m \in Multiset /\ k \in Multiset /\ Small(m) /\ Small(k)
          /\ Sided(s, k, g, m) /\ m = inp.a /\ k = inp.b
      BY <1>1, <2>1
    <3> HIDE DEF m, k
    <3>2. WantedFor(inp, Whole(g, m), Whole(s, k))
          /\ Search!Weight(Whole(g, m)) = g.sum
      BY <1>3, <3>1, SolutionWanted
    <3> QED
      BY <3>1, <3>2
  <2> QED
    BY <2>3, <2>4, <2>5 DEF SoundFor, t
<1> QED
  BY <1>4, <1>5

\* The frames after a push: z in place of s, with the child of its last.
Pushed(s, z, i) ==
  /\ i \in Search!Element /\ i <= D /\ i \in Nat
  /\ i \notin GreaterOf(s[Len(s)]).sums
  /\ \A e \in Search!Element :
       s[Len(s)].last <= e /\ e <= D /\ e \notin GreaterOf(s[Len(s)]).sums
         => i <= e
  /\ Len(z) = Len(s) + 1
  /\ \A j \in 1..Len(s) : j # Len(s) => z[j] = s[j]
  /\ /\ z[Len(s)].a = s[Len(s)].a /\ z[Len(s)].b = s[Len(s)].b
     /\ z[Len(s)].last = i + 1
  /\ Child(z[Len(s) + 1], s[Len(s)], i)

LEMMA CurrentIs ==
  /\ Search!current = stack[Len(stack)]
  /\ Search!Smaller = SmallerOf(Search!current)
  /\ Search!Greater = GreaterOf(Search!current)
BY DEF Search!current, Search!Smaller, Search!Greater, Search!Swapped,
       SmallerOf, GreaterOf

LEMMA ExtendPushes ==
  ASSUME SearchInv, Search!Extend
  PROVE  \E i : Pushed(stack, stack', i)
<1> DEFINE n == Len(stack)
           i == Search!Min(Search!ToTry)
           c == Search!Frame(Search!SumsetAdd(Search!Smaller, i),
                             Search!Greater, Search!FirstElement(i))
           f == [stack[n] EXCEPT !.last = i + 1]
           s == [stack EXCEPT ![n] = f]
           z == stack'
<1>1. /\ stack \in Seq(Frames) /\ stack # <<>>
      /\ Search!ToTry # {}
      /\ z = [stack EXCEPT ![n].last = i + 1] \o <<c>>
  BY DEF SearchInv, Search!Extend
<1>2. [stack EXCEPT ![n].last = i + 1] = s
  OBVIOUS
<1>3. /\ n \in Nat \ {0} /\ n \in 1..n
      /\ Search!current \in Frames
      /\ Search!Smaller \in Sumset /\ Search!Greater \in Sumset
  BY <1>1, Current
<1>4. stack[n] \in Frames /\ stack[n] = Search!current
  BY <1>3, CurrentIs
<1>5. /\ i \in Search!ToTry /\ i \in 1..D /\ i \in Nat
      /\ \A e \in Search!ToTry : i <= e
  <2>1. Search!current.last \in Nat \ {0}
    BY <1>3 DEF Frames
  <2>2. Search!ToTry \in SUBSET Nat
    BY <2>1, DAssumption DEF Search!ToTry
  <2>3. i \in Search!ToTry
    BY <1>1, <2>2, MinIsMember
  <2>4. \E x \in Search!ToTry : \A y \in Search!ToTry : x <= y
    <3> PICK y \in Search!ToTry : TRUE
      BY <1>1
    <3> QED
      BY <2>2, LeastNat
  <2>5. \A e \in Search!ToTry : i <= e
    BY <2>4 DEF Search!Min
  <2> QED
    BY <2>1, <2>3, <2>5, DAssumption DEF Search!ToTry
<1>6. /\ f.a = stack[n].a /\ f.b = stack[n].b /\ f.last = i + 1
      /\ f \in Frames
  <2> HIDE DEF i
  <2> QED
    BY <1>4, <1>5 DEF Frames
<1> HIDE DEF f
<1>7. s \in Seq(Frames) /\ Len(s) = n
      /\ \A j \in 1..n : s[j] = IF j = n THEN f ELSE stack[j]
  BY <1>1, <1>3, <1>6, ExceptSeq
<1>8. c \in Frames
  <2>1. Search!Greater.last \in Nat \ {0}
    BY <1>3 DEF Sumset
  <2> HIDE DEF i
  <2>2. Search!FirstElement(i) \in Nat \ {0}
    BY <1>5, <2>1 DEF Search!FirstElement
  <2>3. Search!SumsetAdd(Search!Smaller, i) \in Sumset
    <3>1. /\ Search!Smaller.added \in Multiset
          /\ Search!Smaller.sums \in SUBSET Nat
          /\ Search!Smaller.sum \in Nat
      BY <1>3 DEF Sumset
    <3>2. i \in Search!Element
      BY <1>5, LimitIs
    <3>3. Search!Plus(Search!Smaller.added, i) \in Multiset
      BY <3>1, <3>2, PlusIs
    <3>4. (Search!Smaller.sums \cup {v + i : v \in Search!Smaller.sums})
            \in SUBSET Nat
      BY <1>5, <3>1
    <3>5. i \in Nat \ {0} /\ Search!Smaller.sum + i \in Nat
      BY <1>5, <3>1
    <3> QED
      BY <1>3, <3>3, <3>4, <3>5 DEF Search!SumsetAdd, Sumset
  <2> QED
    BY <1>3, <2>2, <2>3 DEF Search!Frame, Frames, Search!IsTrivial
<1>9. /\ c.a = Search!SumsetAdd(Search!Smaller, i) /\ c.b = Search!Greater
      /\ c.last = Search!FirstElement(i)
  BY DEF Search!Frame
<1> HIDE DEF c, s, i
<1>10. /\ Len(z) = n + 1 /\ z[n + 1] = c
       /\ \A j \in 1..n : z[j] = s[j]
  <2>1. <<c>> \in Seq(Frames) /\ Len(<<c>>) = 1 /\ <<c>>[1] = c
    BY <1>8
  <2>2. /\ Len(s \o <<c>>) = Len(s) + Len(<<c>>)
        /\ \A j \in 1..(Len(s) + Len(<<c>>)) :
             (s \o <<c>>)[j] = IF j <= Len(s) THEN s[j]
                               ELSE <<c>>[j - Len(s)]
    BY <1>7, <2>1, ConcatProperties
  <2>3. /\ n + 1 \in 1..(n + 1) /\ ~(n + 1 <= n) /\ (n + 1) - n = 1
        /\ \A j \in 1..n : j \in 1..(n + 1) /\ j <= n
    BY <1>3
  <2> QED
    BY <1>1, <1>2, <1>7, <2>1, <2>2, <2>3
<1>11. /\ z[n] = f /\ \A j \in 1..n : j # n => z[j] = stack[j]
  BY <1>3, <1>7, <1>10
<1>12. Child(z[n + 1], stack[n], i)
  BY <1>4, <1>9, <1>10, CurrentIs DEF Child, Search!FirstElement
<1>13. i \notin GreaterOf(stack[n]).sums
  BY <1>4, <1>5, CurrentIs DEF Search!ToTry
<1>14. \A e \in Search!Element :
         stack[n].last <= e /\ e <= D /\ e \notin GreaterOf(stack[n]).sums
           => i <= e
  <2> SUFFICES ASSUME NEW e \in Search!Element, stack[n].last <= e, e <= D,
                      e \notin GreaterOf(stack[n]).sums
               PROVE  i <= e
    OBVIOUS
  <2>1. e \in Nat /\ stack[n].last \in Nat /\ D \in Nat
    BY <1>4, ElementPositive, LimitIs DEF Frames
  <2>2. e \in Search!current.last..D
    BY <1>4, <2>1
  <2>3. e \in Search!ToTry
    BY <1>4, <2>2, CurrentIs DEF Search!ToTry
  <2> QED
    BY <1>5, <2>3
<1>15. i \in Search!Element /\ i <= D /\ i \in Nat
  BY <1>5, LimitIs
<1> QED
  BY <1>6, <1>10, <1>11, <1>12, <1>13, <1>14, <1>15 DEF Pushed

\* The frames after a pop.
Popped(s, z) ==
  /\ Len(z) = Len(s) - 1 /\ Len(s) \in Nat \ {0}
  /\ \A j \in 1..Len(s) : j # Len(s) => j \in 1..Len(z)
  /\ \A j \in 1..Len(z) : j \in 1..Len(s) /\ z[j] = s[j]

LEMMA PopPops ==
  ASSUME SearchInv, stack # <<>>, Search!Pop
  PROVE  Popped(stack, stack')
<1> DEFINE n == Len(stack)
           z == stack'
           m == n - 1
<1>1. /\ stack \in Seq(Frames) /\ z = SubSeq(stack, 1, m)
      /\ n \in Nat \ {0}
  BY Current DEF SearchInv, Search!Pop
<1>2. /\ m \in Nat /\ m \in Int /\ m - 1 + 1 = m
      /\ \A j \in 1..m : j \in 1..n
      /\ \A j \in 1..m : 1 + j - 1 = j
      /\ \A j \in 1..n : j # n => j \in 1..m
  <2>1. m \in Nat /\ m \in Int /\ m - 1 + 1 = m
    BY <1>1
  <2>2. \A j \in 1..m : j \in 1..n
    BY <1>1
  <2>3. \A j \in 1..m : 1 + j - 1 = j
    OBVIOUS
  <2>4. \A j \in 1..n : j # n => j \in 1..m
    BY <1>1
  <2> QED
    BY <2>1, <2>2, <2>3, <2>4
<1>3. Len(z) = m /\ \A j \in 1..m : z[j] = stack[j]
  <2>1. \A j \in 1..m : stack[j] \in Frames
    BY <1>1, <1>2, ElementOfSeq
  <2> HIDE DEF m
  <2>2. /\ Len(SubSeq(stack, 1, m)) = IF 1 <= m THEN m - 1 + 1 ELSE 0
        /\ \A j \in 1..m - 1 + 1 : SubSeq(stack, 1, m)[j] = stack[1 + j - 1]
    BY <1>2, <2>1, SubSeqProperties
  <2>3. (IF 1 <= m THEN m - 1 + 1 ELSE 0) = m
    BY <1>2
  <2> QED
    BY <1>1, <1>2, <2>2, <2>3
<1> HIDE DEF z
<1> QED
  BY <1>1, <1>2, <1>3 DEF Popped, z

LEMMA KeptSame ==
  ASSUME NEW inp, NEW f, NEW q, Kept(inp, f, q),
         NEW h, h.a = f.a, h.b = f.b
  PROVE  Kept(inp, h, q)
BY DEF Kept, SmallerOf, GreaterOf

\* Every frame but the last has only 0 in common, and so has the last one
\* if its flag says so.
LEMMA FrameTested ==
  ASSUME SearchInv, NEW j \in 1..Len(stack)
  PROVE  /\ stack[j] \in Frames
         /\ stack[j].intersect <=>
              stack[j].a.sums \cap stack[j].b.sums = {0}
<1>1. stack \in Seq(Frames) /\ Tested(stack)
  BY DEF SearchInv
<1>2. stack[j] \in Frames
  BY <1>1, ElementOfSeq
<1>3. stack[j].intersect = Search!IsTrivial(stack[j].a, stack[j].b)
  BY <1>1 DEF Tested
<1> QED
  BY <1>2, <1>3 DEF Search!IsTrivial

LEMMA FoundExtend ==
  ASSUME FoundInv, Search!Extend
  PROVE  FoundInv'
<1> DEFINE n == Len(stack)
           z == stack'
           f == stack[n]
<1>1. /\ SearchInv /\ input \in Input /\ Small(input.a) /\ Small(input.b)
      /\ KeptAll(input, stack) /\ SoundFor(input, best)
      /\ CompleteFor(input, stack, best.sum)
  BY DEF FoundInv
<1>2. stack # <<>> /\ Search!current.intersect /\ input' = input
      /\ best' = best
  BY DEF Search!Extend
<1>3. n \in Nat \ {0} /\ n \in 1..n
  BY <1>1, <1>2, Current
<1>4. f \in Frames /\ f.a.sums \cap f.b.sums = {0}
  BY <1>1, <1>2, <1>3, FrameTested, CurrentIs
<1>5. PICK i : Pushed(stack, z, i)
  BY <1>1, ExtendPushes
<1> HIDE DEF z, f
<1>6. /\ i \in Search!Element /\ i <= D /\ i \in Nat
      /\ i \notin GreaterOf(f).sums
      /\ \A e \in Search!Element :
           f.last <= e /\ e <= D /\ e \notin GreaterOf(f).sums => i <= e
      /\ Len(z) = n + 1
      /\ \A j \in 1..n : j # n => z[j] = stack[j]
      /\ z[n].a = f.a /\ z[n].b = f.b /\ z[n].last = i + 1
      /\ Child(z[n + 1], f, i)
  BY <1>5 DEF Pushed, f
<1>7. /\ \A j \in 1..(n + 1) : j \in 1..n \/ j = n + 1
      /\ \A j \in 1..n : j \in 1..(n + 1)
      /\ n + 1 \in 1..(n + 1)
  BY <1>3
<1>8. SearchInv'
  BY <1>1, ExtendInv
<1>9. KeptAll(input, z)
  <2> SUFFICES ASSUME NEW j \in 1..(n + 1)
               PROVE  \E q \in BOOLEAN : Kept(input, z[j], q)
    BY <1>6 DEF KeptAll
  <2>1. CASE j \in 1..n /\ j # n
    BY <1>1, <1>6, <2>1 DEF KeptAll
  <2>2. PICK q \in BOOLEAN : Kept(input, f, q)
    BY <1>1, <1>3 DEF KeptAll, f
  <2>3. CASE j = n
    <3>1. Kept(input, z[n], q)
      BY <1>6, <2>2, KeptSame
    <3> QED
      BY <2>3, <3>1
  <2>4. CASE j = n + 1
    <3>1. \E r \in BOOLEAN : Kept(input, z[n + 1], r)
      BY <1>1, <1>4, <1>6, <2>2, ChildAhead
    <3> QED
      BY <2>4, <3>1
  <2> QED
    BY <1>7, <2>1, <2>3, <2>4
<1>10. CompleteFor(input, z, best.sum)
  <2> SUFFICES ASSUME NEW A, NEW B, WantedFor(input, A, B),
                      Search!Weight(A) > 0, ~Twice(input, A, B),
                      ~(Search!Weight(A) <= best.sum)
               PROVE  \E j \in 1..Len(z), q \in BOOLEAN :
                        Ahead(input, z[j], q, A, B)
    BY DEF CompleteFor
  <2>1. PICK j \in 1..n, q \in BOOLEAN : Ahead(input, stack[j], q, A, B)
    BY <1>1 DEF CompleteFor
  <2>2. CASE j # n
    <3>1. z[j] = stack[j] /\ j \in 1..Len(z)
      BY <1>6, <1>7, <2>2
    <3> QED
      BY <2>1, <3>1
  <2>3. CASE j = n
    <3>1. Ahead(input, f, q, A, B)
      BY <2>1, <2>3 DEF f
    <3>2. PICK e : /\ Lacks(SmallerOf(f), In(input, q), Goal(q, A, B), e)
                   /\ f.last <= e /\ e <= D /\ e \notin GreaterOf(f).sums
      BY <1>1, <1>4, <3>1, OnwardFrame
    <3>3. e \in Search!Element
      BY <3>2 DEF Lacks
    <3>4. i <= e /\ e \in Nat
      BY <1>6, <3>2, <3>3, ElementPositive
    <3>5. CASE i < e
      <4>1. Ahead(input, z[n], q, A, B)
        BY <1>1, <1>6, <3>1, <3>2, <3>5, LaterAhead
      <4>2. n \in 1..Len(z)
        BY <1>3, <1>6, <1>7
      <4> QED
        BY <4>1, <4>2
    <3>6. CASE i = e
      <4>1. Kept(input, f, q) /\ Pair(A, B)
        BY <3>1 DEF Ahead, WantedFor
      <4>2. PICK r \in BOOLEAN :
              \A C, E :
                /\ Pair(C, E) /\ Ahead(input, f, q, C, E)
                /\ Lacks(SmallerOf(f), In(input, q), Goal(q, C, E), i)
                => Ahead(input, z[n + 1], r, C, E)
        BY <1>1, <1>4, <1>6, <4>1, ChildAhead
      <4>3. Ahead(input, z[n + 1], r, A, B)
        BY <3>1, <3>2, <3>6, <4>1, <4>2
      <4>4. n + 1 \in 1..Len(z)
        BY <1>6, <1>7
      <4> QED
        BY <4>3, <4>4
    <3> QED
      BY <1>6, <3>4, <3>5, <3>6
  <2> QED
    BY <2>2, <2>3
<1> QED
  BY <1>1, <1>2, <1>8, <1>9, <1>10 DEF FoundInv, z

\* The frame f is on the way to nothing that weighs more than v.
Spent(inp, f, v) ==
  \A A, B : \A q \in BOOLEAN :
    /\ WantedFor(inp, A, B) /\ Search!Weight(A) > 0 /\ ~Twice(inp, A, B)
    /\ Ahead(inp, f, q, A, B)
    => Search!Weight(A) <= v

\* A popped frame was on the way to nothing that is not outweighed.
LEMMA FoundPop ==
  ASSUME NEW inp, NEW s, NEW z, Popped(s, z),
         NEW w \in Nat, NEW v \in Nat, w <= v,
         KeptAll(inp, s), CompleteFor(inp, s, w),
         Spent(inp, s[Len(s)], v)
  PROVE  KeptAll(inp, z) /\ CompleteFor(inp, z, v)
<1>1. /\ \A j \in 1..Len(s) : j # Len(s) => j \in 1..Len(z)
      /\ \A j \in 1..Len(z) : j \in 1..Len(s) /\ z[j] = s[j]
  BY DEF Popped
<1>2. KeptAll(inp, z)
  BY <1>1 DEF KeptAll
<1>3. CompleteFor(inp, z, v)
  <2> SUFFICES ASSUME NEW A, NEW B, WantedFor(inp, A, B),
                      Search!Weight(A) > 0, ~Twice(inp, A, B),
                      ~(Search!Weight(A) <= v)
               PROVE  \E j \in 1..Len(z), q \in BOOLEAN :
                        Ahead(inp, z[j], q, A, B)
    BY DEF CompleteFor
  <2>1. Search!Weight(A) \in Nat
    BY WeightTyped DEF WantedFor, Pair
  <2>2. ~(Search!Weight(A) <= w)
    BY <2>1
  <2>3. PICK j \in 1..Len(s), q \in BOOLEAN : Ahead(inp, s[j], q, A, B)
    BY <2>2 DEF CompleteFor
  <2>4. j # Len(s)
    BY <2>3 DEF Spent
  <2>5. j \in 1..Len(z) /\ z[j] = s[j]
    BY <1>1, <2>4
  <2> QED
    BY <2>3, <2>5
<1> QED
  BY <1>2, <1>3

LEMMA FoundBacktrack ==
  ASSUME FoundInv, Search!Backtrack
  PROVE  FoundInv'
<1> DEFINE n == Len(stack)
           z == stack'
           f == stack[n]
<1>1. /\ SearchInv /\ input \in Input /\ Small(input.a) /\ Small(input.b)
      /\ KeptAll(input, stack) /\ SoundFor(input, best)
      /\ CompleteFor(input, stack, best.sum)
  BY DEF FoundInv
<1>2. /\ stack # <<>> /\ Search!current.intersect /\ Search!ToTry = {}
      /\ Search!Pop /\ input' = input /\ best' = best
  BY DEF Search!Backtrack
<1>3. SearchInv' /\ Popped(stack, z)
  BY <1>1, <1>2, PopInv, PopPops
<1>4. n \in 1..n
  BY <1>1, <1>2, Current
<1>5. f \in Frames /\ f.a.sums \cap f.b.sums = {0}
  BY <1>1, <1>2, <1>4, FrameTested, CurrentIs
<1>6. ASSUME NEW A, NEW B, NEW q \in BOOLEAN, WantedFor(input, A, B),
             Search!Weight(A) > 0, ~Twice(input, A, B),
             Ahead(input, f, q, A, B)
      PROVE  FALSE
  <2> HIDE DEF f
  <2>1. PICK e : /\ Lacks(SmallerOf(f), In(input, q), Goal(q, A, B), e)
                 /\ f.last <= e /\ e <= D /\ e \notin GreaterOf(f).sums
    BY <1>1, <1>5, <1>6, OnwardFrame
  <2>2. e \in Nat /\ f.last \in Nat /\ D \in Nat
    BY <1>5, <2>1, ElementPositive, LimitIs DEF Lacks, Frames
  <2>3. e \in f.last..D
    BY <2>1, <2>2
  <2>4. f = Search!current
    BY CurrentIs DEF f
  <2>5. e \in Search!ToTry
    BY <2>1, <2>3, <2>4, CurrentIs DEF Search!ToTry
  <2> QED
    BY <1>2, <2>5
<1>7. best.sum \in Nat /\ best.sum <= best.sum
  BY <1>1 DEF SoundFor
<1> HIDE DEF z
<1>8. KeptAll(input, z) /\ CompleteFor(input, z, best.sum)
  <2>1. Spent(input, f, best.sum)
    BY <1>6 DEF Spent
  <2>2. Spent(input, stack[Len(stack)], best.sum)
    BY <2>1
  <2> QED
    BY <1>1, <1>3, <1>7, <2>2, FoundPop
<1> QED
  BY <1>1, <1>2, <1>3, <1>8 DEF FoundInv, z

LEMMA FoundLeaf ==
  ASSUME FoundInv, Search!Leaf
  PROVE  FoundInv'
<1> DEFINE n == Len(stack)
           z == stack'
           f == stack[n]
           s == SmallerOf(f)
           g == GreaterOf(f)
           b == best'
<1>1. /\ SearchInv /\ input \in Input /\ Small(input.a) /\ Small(input.b)
      /\ KeptAll(input, stack) /\ SoundFor(input, best)
      /\ CompleteFor(input, stack, best.sum)
  BY DEF FoundInv
<1>2. /\ stack # <<>> /\ ~Search!current.intersect /\ Search!Pop
      /\ input' = input
      /\ b = IF Search!IsSolution(s, g) /\ g.sum > best.sum
             THEN Search!SolutionBuild(best, input, s, g) ELSE best
  BY CurrentIs DEF Search!Leaf
<1>3. SearchInv' /\ Popped(stack, z)
  BY <1>1, <1>2, PopInv, PopPops
<1>4. n \in 1..n
  BY <1>1, <1>2, Current
<1>5. f \in Frames /\ f.a.sums \cap f.b.sums # {0}
  BY <1>1, <1>2, <1>4, FrameTested, CurrentIs
<1>6. g.sum \in Nat /\ best.sum \in Nat
  BY <1>1, <1>5, FrameSides DEF SoundFor
<1>7. PICK q \in BOOLEAN : Kept(input, f, q)
  BY <1>1, <1>4 DEF KeptAll
<1>8. Sided(s, In(input, q), g, In(input, ~q))
  BY <1>7 DEF Kept
<1> HIDE DEF b, s, g
<1>9. /\ SoundFor(input, b) /\ best.sum <= b.sum /\ b.sum \in Nat
      /\ Search!IsSolution(s, g) => g.sum <= b.sum
  <2>1. CASE Search!IsSolution(s, g) /\ g.sum > best.sum
    <3>1. SoundFor(input, b) /\ b.sum = g.sum
      BY <1>1, <1>2, <1>6, <1>8, <2>1, RecordSound
    <3> QED
      BY <1>6, <2>1, <3>1
  <2>2. CASE ~(Search!IsSolution(s, g) /\ g.sum > best.sum)
    <3>1. b = best
      BY <1>2, <2>2
    <3> QED
      BY <1>1, <1>6, <2>2, <3>1
  <2> QED
    BY <2>1, <2>2
<1>10. ASSUME NEW A, NEW B, NEW r \in BOOLEAN, WantedFor(input, A, B),
              Search!Weight(A) > 0, Ahead(input, f, r, A, B)
       PROVE  Search!Weight(A) <= b.sum
  <2>1. Search!IsSolution(s, g) /\ g.sum = Search!Weight(A)
    <3>1. Pair(A, B)
      BY <1>10 DEF WantedFor
    <3> HIDE DEF f
    <3> QED
      BY <1>1, <1>5, <1>10, <3>1, LeafFrame DEF s, g
  <2> QED
    BY <1>9, <2>1
<1> HIDE DEF z
<1>11. KeptAll(input, z) /\ CompleteFor(input, z, b.sum)
  <2>1. Spent(input, f, b.sum)
    BY <1>10 DEF Spent
  <2>2. Spent(input, stack[Len(stack)], b.sum)
    BY <2>1
  <2> QED
    BY <1>1, <1>3, <1>6, <1>9, <2>2, FoundPop
<1> QED
  BY <1>1, <1>2, <1>3, <1>9, <1>11 DEF FoundInv, z, b

\* What is read from the input.
LEMMA StartSide ==
  ASSUME NEW m \in Multiset
  PROVE  /\ Side(Search!StartSumset(m), m)
         /\ Whole(Search!StartSumset(m), m) = m
         /\ Search!StartSumset(m).added = Search!Empty
         /\ Search!StartSumset(m).last = 1
<1> DEFINE s == Search!StartSumset(m)
<1>1. /\ s.added = Search!Empty /\ s.last = 1
      /\ s.sum = Search!Weight(m) /\ s.sums = Search!SubsetSums(m)
      /\ s.start = Search!SubsetSums(m)
  BY DEF Search!StartSumset
<1> HIDE DEF s
<1>2. Whole(s, m) = m
  <2>1. Whole(s, m) \in Multiset /\ Adds(Whole(s, m), m, s.added)
    BY <1>1, EmptyIs, UnionIs DEF Whole
  <2>2. \A i \in Search!Element : Whole(s, m)[i] = m[i]
    BY <1>1, <2>1, EmptyIs DEF Adds, Multiset
  <2> QED
    BY <2>1, <2>2, SameMultiset
<1>3. Small(s.added)
  BY <1>1, EmptyIs DEF Small
<1>4. Side(s, m)
  BY <1>1, <1>2, <1>3, EmptyIs DEF Side
<1> QED
  BY <1>1, <1>2, <1>4 DEF s

LEMMA FoundInit ==
  ASSUME Search!Init
  PROVE  FoundInv
<1>1. PICK m \in Search!Inputs, k \in Search!Inputs :
        input = [a |-> m, b |-> k]
  BY DEF Search!Init
<1>2. /\ m \in Multiset /\ k \in Multiset /\ Small(m) /\ Small(k)
  <2>1. ASSUME NEW n \in Search!Inputs PROVE n \in Multiset /\ Small(n)
    <3>1. /\ n \in [Search!Element -> 0..MaxInput]
          /\ \A i \in Search!Element : n[i] > 0 => i <= D
      BY DEF Search!Inputs
    <3>2. 0..MaxInput \subseteq Nat
      OBVIOUS
    <3> QED
      BY <3>1, <3>2 DEF Multiset, Small
  <2> QED
    BY <2>1
<1> DEFINE x == Search!StartSumset(m)
           y == Search!StartSumset(k)
           f == Search!Frame(x, y, 1)
<1>3. SearchInv
  BY SearchInit
<1>4. stack = <<f>> /\ best = Search!NoSolution
  BY <1>1 DEF Search!Init
<1>5. f.a = x /\ f.b = y /\ f.last = 1
  BY DEF Search!Frame
<1>6. /\ Side(x, m) /\ Whole(x, m) = m /\ x.added = Search!Empty /\ x.last = 1
      /\ Side(y, k) /\ Whole(y, k) = k /\ y.added = Search!Empty /\ y.last = 1
  BY <1>2, StartSide
<1> HIDE DEF x, y, f
<1>7. Len(stack) = 1 /\ stack[1] = f /\ \A j \in 1..1 : j = 1
  BY <1>4
<1>8. /\ input \in Input /\ input.a = m /\ input.b = k
  BY <1>1, <1>2 DEF Input
<1>9. Sided(x, m, y, k) /\ Sided(y, k, x, m)
  <2>1. Lone(x, y) /\ Lone(y, x)
    <3>1. \A j \in Search!Element : Search!Empty # Single(j, 1)
      BY EmptyIs, SingleIs
    <3> QED
      BY <1>6, <3>1 DEF Lone
  <2>2. Still(x, y, k) /\ Still(y, x, m)
    BY <1>6 DEF Still
  <2> QED
    BY <1>6, <2>1, <2>2 DEF Sided
<1>10. \E q \in BOOLEAN :
         /\ Kept(input, f, q)
         /\ \A A, B : WantedFor(input, A, B) => Ahead(input, f, q, A, B)
  <2>1. ASSUME NEW A, NEW B, WantedFor(input, A, B)
        PROVE  Towards(x, m, A, 1) /\ Towards(y, k, B, 1)
    <3>1. \A e \in Search!Element : 1 <= e
      BY ElementPositive
    <3>2. Search!Included(m, A) /\ Search!Included(k, B)
      BY <1>8, <2>1 DEF WantedFor
    <3> QED
      BY <1>6, <3>1, <3>2 DEF Towards
  <2>2. CASE x.sum > y.sum
    <3>1. SmallerOf(f) = y /\ GreaterOf(f) = x
      BY <1>5, <2>2 DEF SmallerOf, GreaterOf
    <3>2. Kept(input, f, FALSE)
      BY <1>8, <1>9, <3>1 DEF Kept, In
    <3>3. \A A, B : WantedFor(input, A, B) => Ahead(input, f, FALSE, A, B)
      BY <1>5, <1>6, <1>8, <2>1, <3>1, <3>2 DEF Ahead, In, Goal
    <3> QED
      BY <3>2, <3>3
  <2>3. CASE ~(x.sum > y.sum)
    <3>1. SmallerOf(f) = x /\ GreaterOf(f) = y
      BY <1>5, <2>3 DEF SmallerOf, GreaterOf
    <3>2. Kept(input, f, TRUE)
      BY <1>8, <1>9, <3>1 DEF Kept, In
    <3>3. \A A, B : WantedFor(input, A, B) => Ahead(input, f, TRUE, A, B)
      BY <1>5, <1>6, <1>8, <2>1, <3>1, <3>2 DEF Ahead, In, Goal
    <3> QED
      BY <3>2, <3>3
  <2> QED
    BY <2>2, <2>3
<1>11. KeptAll(input, stack) /\ CompleteFor(input, stack, best.sum)
  <2>1. 1 \in 1..Len(stack)
    BY <1>7
  <2>2. KeptAll(input, stack)
    BY <1>7, <1>10 DEF KeptAll
  <2>3. CompleteFor(input, stack, best.sum)
    BY <1>7, <1>10, <2>1 DEF CompleteFor
  <2> QED
    BY <2>2, <2>3
<1>12. SoundFor(input, best)
  <2>1. best.sum = 0 /\ best.a = Search!Empty /\ best.b = Search!Empty
    BY <1>4 DEF Search!NoSolution
  <2>2. MAX_D \in Search!Element
    BY Search!DAssumption DEF Search!Element
  <2> QED
    BY <2>1, <2>2, EmptyIs DEF SoundFor
<1> QED
  BY <1>2, <1>3, <1>8, <1>11, <1>12 DEF FoundInv

LEMMA FoundStep ==
  ASSUME FoundInv, [Search!Next]_(Search!vars)
  PROVE  FoundInv'
<1>1. CASE Search!Extend
  BY <1>1, FoundExtend
<1>2. CASE Search!Backtrack
  BY <1>2, FoundBacktrack
<1>3. CASE Search!Leaf
  BY <1>3, FoundLeaf
<1>4. CASE UNCHANGED Search!vars
  BY <1>4 DEF Search!vars, FoundInv, SearchInv
<1> QED
  BY <1>1, <1>2, <1>3, <1>4 DEF Search!Next

\* At the end nothing is ahead: the search has found a greatest pair.
LEMMA FoundGreatest ==
  ASSUME FoundInv, Search!Done
  PROVE  /\ best.sum = Search!Greatest({p \in Search!Supersets :
                                          ~ Search!CompletedByOne(p)})
         /\ D < MAX_D /\ best.sum > 0 =>
              <<best.a, best.b>> \in Search!Supersets
<1>1. /\ input \in Input /\ input.a \in Multiset /\ input.b \in Multiset
      /\ SoundFor(input, best) /\ CompleteFor(input, stack, best.sum)
      /\ best.sum \in Nat
  BY DEF FoundInv, SoundFor, Input
<1>2. \A A, B :
        WantedFor(input, A, B) /\ Search!Weight(A) > 0 /\ ~Twice(input, A, B)
          => Search!Weight(A) <= best.sum
  <2>1. ~ \E n : n \in 1..Len(stack)
    BY DEF Search!Done
  <2> QED
    BY <1>1, <2>1 DEF CompleteFor
<1>3. ASSUME NEW A, NEW B, Wanted(A, B)
      PROVE  Search!Weight(A) <= best.sum
  <2>1. WantedFor(input, A, B) /\ Search!Weight(A) \in Nat
    BY <1>3, WantedIs, WeightTyped DEF WantedFor, Pair
  <2>2. CASE Search!Weight(A) = 0
    BY <1>1, <2>2
  <2>3. CASE Search!Weight(A) > 0 /\ ~Twice(input, A, B)
    BY <1>2, <2>1, <2>3
  <2>4. CASE Twice(input, A, B)
    <3>1. input.a = Search!Empty /\ input.b = Search!Empty
      BY <2>4 DEF Twice
    <3>2. PICK j \in Search!Element : A = Single(j, 1)
      BY <2>4 DEF Twice
    <3>3. Search!Weight(A) <= Limit
      <4>1. j \in Nat /\ j * 1 = j /\ Search!Weight(A) = j * 1
        BY <3>2, ElementPositive, WeightSingle
      <4>2. A[j] > 0
        BY <3>2, SingleIs
      <4>3. j <= D
        BY <2>1, <4>2 DEF WantedFor, Pair, Small
      <4> QED
        BY <4>1, <4>3, LimitIs
    <3>4. WantedFor(input, Wide, Deep)
      <4>1. \A n \in Multiset : Search!Included(Search!Empty, n)
        BY EmptyIs DEF Search!Included, Multiset
      <4>2. Wide \in Multiset /\ Deep \in Multiset
        BY WidePair DEF Pair
      <4> QED
        BY <3>1, <4>1, <4>2, WidePair DEF WantedFor
    <3>5. ~Twice(input, Wide, Deep)
      BY WidePair DEF Twice
    <3>6. Limit <= best.sum
      BY <1>2, <3>4, <3>5, WidePair, LimitIs
    <3> QED
      BY <1>1, <2>1, <3>3, <3>6, LimitIs
  <2> QED
    BY <2>1, <2>2, <2>3, <2>4
<1>4. best.sum = 0 \/ \E A, B : Wanted(A, B) /\ Search!Weight(A) = best.sum
  BY <1>1, WantedIs DEF SoundFor
<1>5. ASSUME D < MAX_D, best.sum > 0
      PROVE  <<best.a, best.b>> \in Search!Supersets
  <2>1. WantedFor(input, best.a, best.b)
    BY <1>1, <1>5 DEF SoundFor
  <2> DEFINE p == <<best.a, best.b>>
  <2>2. p \in Search!Uncontestable
    BY <2>1, UncontestableIs DEF WantedFor
  <2>3. p[1] = best.a /\ p[2] = best.b
    OBVIOUS
  <2> HIDE DEF p
  <2>4. p \in Search!Supersets
    BY <2>1, <2>2, <2>3 DEF WantedFor, Search!Supersets
  <2> QED
    BY <2>4 DEF p
<1>6. best.sum = Search!Greatest({p \in Search!Supersets :
                                    ~ Search!CompletedByOne(p)})
  <2> DEFINE w == best.sum
  <2>1. w \in Nat /\ \A A, B : Wanted(A, B) => Search!Weight(A) <= w
    BY <1>1, <1>3
  <2>2. w = 0 \/ \E A, B : Wanted(A, B) /\ Search!Weight(A) = w
    BY <1>4
  <2> HIDE DEF w
  <2>3. w = Search!Greatest({p \in Search!Supersets :
                               ~ Search!CompletedByOne(p)})
    BY <2>1, <2>2, GreatestIs
  <2> QED
    BY <2>3 DEF w
<1> QED
  BY <1>5, <1>6

-----------------------------------------------------------------------------
(* What the search has found at its end                                    *)

LEMMA FoundAlways ==
  Spec => [](program = "search" => FoundInv)
<1> DEFINE Inv == program = "search" => FoundInv
<1>1. Init => Inv
  BY FoundInit DEF Init
<1>2. Inv /\ [Next]_vars => Inv'
  <2> SUFFICES ASSUME Inv, [Next]_vars, program' = "search"
               PROVE  FoundInv'
    OBVIOUS
  <2>1. program = "search" /\ [Search!Next]_(Search!vars)
    BY DEF Next, vars, search, Search!vars
  <2> QED
    BY <2>1, FoundStep
<1> QED
  BY <1>1, <1>2, PTL DEF Spec

\* For every d and every two multisets that are given: when the search ends,
\* the sum it has recorded is the greatest weight of two multisets over the
\* given ones that weigh the same and have no sums in common but 0 and that
\* weight; it is 0 when there are none.  Pairs in which one multiset was given
\* whole and the other, given empty, needs a single element are not counted:
\* the loop skips them (nonrecursive/main.c lines 56-57).
THEOREM GreatestSum ==
  Spec => [](program = "search" /\ Search!Done =>
               best.sum = Search!Greatest({p \in Search!Supersets :
                                             ~ Search!CompletedByOne(p)}))
<1>1. (program = "search" => FoundInv)
        => (program = "search" /\ Search!Done =>
              best.sum = Search!Greatest({p \in Search!Supersets :
                                            ~ Search!CompletedByOne(p)}))
  BY FoundGreatest
<1> QED
  BY <1>1, FoundAlways, PTL

\* Below the size of the arrays, and only there, the two multisets recorded
\* along with that sum are such a pair: with d = MAX_D the elements MAX_D of
\* an earlier record would be left in them (multiset_init, io.c lines 8-12).
THEOREM GreatestFound ==
  ASSUME D < MAX_D
  PROVE  Spec => []FindsGreatest
<1>1. (program = "search" => FoundInv) => FindsGreatest
  BY FoundGreatest DEF FindsGreatest, Search!FindsGreatest
<1> QED
  BY <1>1, FoundAlways, PTL

=============================================================================
