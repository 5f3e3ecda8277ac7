---------------------------- MODULE OfficeQueues ----------------------------
(***************************************************************************)
(* The queues of the office as they are stored: every customer has two     *)
(* neighbours without a direction, so that a queue is reversed by swapping *)
(* its ends and appended by joining four links.  Customers are named by    *)
(* their numbers, the ends of window k by -2k and -2k - 1; the pointers    *)
(* of customers who have left, which nothing reads, are nullptr.           *)
(***************************************************************************)
EXTENDS Integers, Sequences, SequencesExt

CONSTANTS
  Window,        \* 1 .. m
  MaxCustomers   \* bound on the customers of a day

VARIABLES
  l1, l2,        \* the neighbours of a customer or an end
  kolejki,       \* the head and the tail of each queue
  akt_numerek,   \* number of the next customer
  returned       \* customers the last call gave back

pointers == <<l1, l2>>
vars == <<pointers, kolejki, akt_numerek, returned>>

nullptr == -1
Customer == 0 .. MaxCustomers - 1
Node == Customer \cup UNION {{-2 * k, -2 * k - 1} : k \in Window}

Memory == [l1 |-> l1, l2 |-> l2]

\* create_list for every window.
create_list ==
  [l1 |-> [n \in Node |-> nullptr],
   l2 |-> [n \in Node |-> IF n \in Customer THEN nullptr
                          ELSE IF n % 2 = 0 THEN n - 1 ELSE n + 1]]

Ends == [k \in Window |-> [head |-> -2 * k, tail |-> -2 * k - 1]]

Init ==
  /\ l1 = create_list.l1 /\ l2 = create_list.l2
  /\ kolejki = Ends
  /\ akt_numerek = 0
  /\ returned = <<>>

-----------------------------------------------------------------------------
(* Operators on a memory m                                                 *)

\* nw takes the place of old next to el.
link(m, el, old, nw) ==
  IF el = nullptr THEN m
  ELSE IF m.l1[el] = old THEN [m EXCEPT !.l1[el] = nw]
  ELSE [m EXCEPT !.l2[el] = nw]

remove_elem(m, el) ==
  LET n == link(m, m.l1[el], el, m.l2[el]) IN link(n, n.l2[el], el, n.l1[el])

push_back(m, tail, el) ==
  LET last == m.l2[tail]
      n == link([m EXCEPT !.l1[el] = tail, !.l2[el] = last], last, tail, el)
  IN [n EXCEPT !.l2[tail] = el]

\* The neighbour of el that is not prev.
next(m, el, prev) == IF m.l1[el] # prev THEN m.l1[el] ELSE m.l2[el]

\* From el away from prev up to the other end of the list, over n customers
\* at most.
Walk(m, prev, el, tail, n) ==
  LET walk[i \in Nat] ==
        [p \in Int \X Int |->
           IF i = 0 \/ p[2] = tail \/ p[2] \notin Customer THEN <<>>
           ELSE <<p[2]>> \o walk[i - 1][<<p[2], next(m, p[2], p[1])>>]]
  IN walk[n][<<prev, el>>]

\* What delete_list returns of a queue: front, pop_front and so on.
Line(q) == Walk(Memory, q.head, l2[q.head], q.tail, akt_numerek)

\* One step further along the list, if it goes on.
Further(m, w) == LET x == next(m, Last(w), w[Len(w) - 1])
                 IN IF x = nullptr THEN w ELSE Append(w, x)

\* From both neighbours of i1 away from it, one step in turn each, until one
\* of the walks has come to i2, after MaxCustomers steps at most.
BothWays(m, i1, i2) ==
  LET Way == Seq(Node) \ {<<>>}
      walk[i \in Nat] ==
        [w \in Way \X Way |->
           IF Last(w[1]) = i2 THEN w[1]
           ELSE IF i = 0 \/ Last(w[2]) = i2 THEN w[2]
           ELSE walk[i - 1][<<Further(m, w[1]), Further(m, w[2])>>]]
  IN walk[MaxCustomers][<< <<i1, m.l1[i1]>>, <<i1, m.l2[i1]>> >>]

-----------------------------------------------------------------------------
(* The library                                                             *)

Becomes(m) == l1' = m.l1 /\ l2' = m.l2

\* The customers gone are out of the memory m.
Leave(m, gone) ==
  [p \in {"l1", "l2"} |-> [n \in Node |-> IF n \in gone THEN nullptr
                                         ELSE m[p][n]]]

nowy_interesant(k) ==
  /\ akt_numerek < MaxCustomers
  /\ Becomes(push_back(Memory, kolejki[k].tail, akt_numerek))
  /\ akt_numerek' = akt_numerek + 1
  /\ returned' = <<akt_numerek>>
  /\ UNCHANGED kolejki

obsluz(k) ==
  LET first == l2[kolejki[k].head]
  IN /\ IF first = kolejki[k].tail
        THEN UNCHANGED pointers /\ returned' = <<>>
        ELSE /\ Becomes(Leave(remove_elem(Memory, first), {first}))
             /\ returned' = <<first>>
     /\ UNCHANGED <<kolejki, akt_numerek>>

zmiana_okienka(i, k) ==
  /\ Becomes(push_back(remove_elem(Memory, i), kolejki[k].tail, i))
  /\ returned' = <<>>
  /\ UNCHANGED <<kolejki, akt_numerek>>

\* append(kolejki[k2], kolejki[k1]): the tail of the one and the head of the
\* other become the ends of the queue that is now empty.
zamkniecie_okienka(k1, k2) ==
  LET b == kolejki[k2].tail
      f == kolejki[k1].head
      m1 == link(Memory, l2[b], b, l2[f])
      m2 == link(m1, m1.l2[f], f, m1.l2[b])
  IN /\ Becomes([m2 EXCEPT !.l2[b] = f, !.l2[f] = b])
     /\ kolejki' = [kolejki EXCEPT ![k2].tail = kolejki[k1].tail,
                                   ![k1] = [head |-> f, tail |-> b]]
     /\ returned' = <<>>
     /\ UNCHANGED akt_numerek

\* As fast_track, from i2 back to i1.
fast_track_back(i1, i2) ==
  LET path == IF i1 = i2 THEN <<i1>> ELSE BothWays(Memory, i2, i1)
  IN /\ Becomes(Leave(FoldLeft(remove_elem, Memory, path), ToSet(path)))
     /\ returned' = path
     /\ UNCHANGED <<kolejki, akt_numerek>>

fast_track(i1, i2) ==
  LET path == IF i1 = i2 THEN <<i1>> ELSE BothWays(Memory, i1, i2)
  IN /\ Becomes(Leave(FoldLeft(remove_elem, Memory, path), ToSet(path)))
     /\ returned' = path
     /\ UNCHANGED <<kolejki, akt_numerek>>

naczelnik(k) ==
  /\ kolejki' = [kolejki EXCEPT ![k] = [head |-> @.tail, tail |-> @.head]]
  /\ returned' = <<>>
  /\ UNCHANGED <<pointers, akt_numerek>>

\* The office closes, and opens again.
zamkniecie_urzedu ==
  /\ returned' = FlattenSeq([k \in DOMAIN kolejki |-> Line(kolejki[k])])
  /\ Becomes(create_list) /\ kolejki' = Ends /\ akt_numerek' = 0

\* Customers the calls may name are those who stand in a queue (kol.h).
Standing(k) == Line(kolejki[k])

Next ==
  \/ \E k \in Window : nowy_interesant(k) \/ obsluz(k) \/ naczelnik(k)
  \/ \E k1, k2 \in Window : k1 # k2 /\ zamkniecie_okienka(k1, k2)
  \/ \E k1 \in Window : \E i \in ToSet(Standing(k1)) :
       \E k2 \in Window \ {k1} : zmiana_okienka(i, k2)
  \/ \E k \in Window : \E i, j \in DOMAIN Standing(k) :
       i <= j /\ fast_track(Standing(k)[i], Standing(k)[j])
  \/ zamkniecie_urzedu

Spec == Init /\ [][Next]_vars

-----------------------------------------------------------------------------
(* Properties                                                              *)

Promise == INSTANCE Queues WITH
  queue <- [k \in Window |-> Line(kolejki[k])], numer <- akt_numerek

\* However queues were reversed, joined and left, walking from the head of a
\* window past the neighbour one came from gives the customers in the order
\* that kol.h promises, and each call returns those it says, although no
\* node knows which of its neighbours is the next one (lines 34-41, 71-81,
\* 141-157).
ImplementsQueues == Promise!Spec

=============================================================================
