------------------------------- MODULE Queues -------------------------------
(***************************************************************************)
(* What the office promises (kol.h): a queue of numbered customers at      *)
(* every window, which can be joined, served, left for another one, moved  *)
(* to another window, served from one customer to another, and reversed.   *)
(***************************************************************************)
EXTENDS FiniteSets, Integers, Sequences, SequencesExt

CONSTANTS Window, MaxCustomers

VARIABLES queue, numer, returned

vars == <<queue, numer, returned>>

Init ==
  /\ queue = [k \in Window |-> <<>>]
  /\ numer = 0
  /\ returned = <<>>

Enter(k) ==
  /\ numer' = numer + 1
  /\ numer < MaxCustomers
  /\ returned' = <<numer>>
  /\ queue' = [queue EXCEPT ![k] = Append(@, numer)]

Serve(k) ==
  /\ \/ queue[k] = <<>> /\ returned' = <<>> /\ UNCHANGED queue
     \/ /\ queue[k] # <<>>
        /\ queue' = [queue EXCEPT ![k] = Tail(@)]
        /\ returned' = <<Head(queue[k])>>
  /\ UNCHANGED numer

\* The i-th customer at window from goes to window k.
Move(from, i, k) ==
  /\ UNCHANGED numer
  /\ from # k
  /\ returned' = <<>>
  /\ queue' = [queue EXCEPT ![from] = RemoveAt(@, i),
                           ![k] = Append(@, queue[from][i])]

CloseWindow(k1, k2) ==
  /\ UNCHANGED numer
  /\ k1 # k2
  /\ returned' = <<>>
  /\ queue' = [queue EXCEPT ![k1] = <<>>, ![k2] = @ \o queue[k1]]

\* The customers from the i-th to the j-th of a queue.
FastTrack(k, i, j) ==
  /\ UNCHANGED numer
  /\ returned' = SubSeq(queue[k], i, j)
  /\ queue' = [queue EXCEPT ![k] =
                 SubSeq(@, 1, i - 1) \o SubSeq(@, j + 1, Len(@))]

Turn(k) ==
  /\ UNCHANGED numer
  /\ returned' = <<>>
  /\ queue' = [queue EXCEPT ![k] = Reverse(@)]

\* Everybody who still stands, by window; the next day starts anew.
CloseOffice ==
  /\ returned' = FlattenSeq([k \in 1 .. Cardinality(Window) |-> queue[k]])
  /\ queue' = [k \in Window |-> <<>>]
  /\ numer' = 0

Next ==
  \/ \E k \in Window : Enter(k) \/ Serve(k) \/ Turn(k)
  \/ \E k1, k2 \in Window : CloseWindow(k1, k2)
  \/ \E k1, k2 \in Window : \E i \in DOMAIN queue[k1] : Move(k1, i, k2)
  \/ \E k \in Window : \E i, j \in DOMAIN queue[k] :
       i <= j /\ FastTrack(k, i, j)
  \/ CloseOffice

Spec == Init /\ [][Next]_vars

=============================================================================
