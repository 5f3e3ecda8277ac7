----------------------------- MODULE LifoStack -----------------------------
(***************************************************************************)
(* What the shared stack of the parallel hypothesis solver promises its    *)
(* threads: push and pop are atomic, last in first out, and pop returns    *)
(* nothing only when the stack is empty.                                   *)
(***************************************************************************)
EXTENDS Sequences

CONSTANTS Thread, Data, Null

VARIABLES
  items,   \* contents of the stack, top first
  got      \* what the last pop of each thread returned

Init ==
  /\ items = <<>>
  /\ got = [t \in Thread |-> Null]

Push(v) ==
  /\ items' = <<v>> \o items
  /\ UNCHANGED got

Pop(t) ==
  /\ items # <<>>
  /\ got' = [got EXCEPT ![t] = Head(items)]
  /\ items' = Tail(items)

PopNothing(t) ==
  /\ items = <<>>
  /\ got' = [got EXCEPT ![t] = Null]
  /\ UNCHANGED items

Next == (\E v \in Data : Push(v)) \/ (\E t \in Thread : Pop(t) \/ PopNothing(t))

Spec == Init /\ [][Next]_<<items, got>>
=============================================================================
