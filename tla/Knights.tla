------------------------------- MODULE Knights -------------------------------
(***************************************************************************)
(* Knights and their tournament.  Gold saturates at MAX_GOLD.  The first   *)
(* two pretenders fight; the winner takes what he can use of the loser and *)
(* goes to the back, the loser, or both after a tie, are eliminated.       *)
(***************************************************************************)
EXTENDS FiniteSets, Integers, Sequences, SequencesExt

CONSTANTS
  Entrant,         \* the knights that may be entered
  MAX_GOLD,
  MaxPretenders    \* bound on the length of a tournament

VARIABLES pretenders, eliminated

vars == <<pretenders, eliminated>>

Knight(gold, weapon, armour) ==
  [gold |-> gold, weapon |-> weapon, armour |-> armour]

TRAINEE_KNIGHT == Knight(0, 1, 1)

\* The sum of two numbers of type size_t, of which MAX_GOLD is the largest.
Plus(x, y) == IF x + y > MAX_GOLD THEN x + y - (MAX_GOLD + 1) ELSE x + y

\* A mutant: the sum is compared with the limit after it has wrapped around.
take_gold_sum_first(k, gold) ==
  [k EXCEPT !.gold = IF Plus(@, gold) < MAX_GOLD THEN Plus(@, gold)
                     ELSE MAX_GOLD]

take_gold(k, gold) ==
  [k EXCEPT !.gold = IF MAX_GOLD - gold > @ THEN Plus(@, gold) ELSE MAX_GOLD]

\* The two knights after winner += loser: gold and better pieces change
\* hands, what they replace is lost.
Plunder(winner, loser) ==
  LET better(piece) == winner[piece] < loser[piece]
      rich == take_gold(winner, loser.gold)
  IN [winner |-> [piece \in DOMAIN winner |->
                   IF piece # "gold" /\ better(piece) THEN loser[piece]
                   ELSE rich[piece]],
      loser |-> [piece \in DOMAIN loser |->
                  IF piece = "gold" \/ better(piece) THEN 0
                  ELSE loser[piece]]]

Unhurt(a, b) == a.armour >= b.weapon
Hurts(a, b) == a.weapon > b.armour

\* operator<=>: a is greater than b.
Greater(a, b) ==
  \/ Hurts(a, b) /\ Unhurt(a, b)
  \/ /\ Hurts(a, b) /\ Hurts(b, a)
     /\ \/ a.armour > b.armour
        \/ a.armour = b.armour /\ a.weapon > b.weapon

\* One round of play() on the lists of a tournament.
Fight(t) ==
  LET a == t.pretenders[1]
      b == t.pretenders[2]
      rest == SubSeq(t.pretenders, 3, Len(t.pretenders))
      Won(w, l) == LET after == Plunder(w, l)
                   IN [pretenders |-> Append(rest, after.winner),
                       eliminated |-> <<after.loser>> \o t.eliminated]
  IN IF Greater(a, b) THEN Won(a, b)
     ELSE IF Greater(b, a) THEN Won(b, a)
     ELSE [pretenders |-> rest, eliminated |-> <<a, b>> \o t.eliminated]

\* The lists after n rounds; every round eliminates somebody.
Fights(t) ==
  LET After[n \in Nat] ==
        IF n = 0 THEN t
        ELSE LET last == After[n - 1]
             IN IF Len(last.pretenders) < 2 THEN last ELSE Fight(last)
  IN After[Len(t.pretenders)]

Init == pretenders = <<TRAINEE_KNIGHT>> /\ eliminated = <<>>

Enter ==
  /\ Len(pretenders) < MaxPretenders
  /\ \E k \in Entrant : pretenders' = Append(pretenders, k)
  /\ eliminated' = <<>>

\* The knights who are not like k, in their order.
Others(ks, k) ==
  FoldLeft(LAMBDA left, p : IF p = k THEN left ELSE Append(left, p), <<>>, ks)

Withdraw ==
  /\ \E k \in Entrant : pretenders' = Others(pretenders, k)
  /\ eliminated' = <<>>

play ==
  LET end == Fights([pretenders |-> pretenders, eliminated |-> <<>>])
  IN pretenders' = end.pretenders /\ eliminated' = end.eliminated

Next == Enter \/ Withdraw \/ play

Spec == Init /\ [][Next]_vars

-----------------------------------------------------------------------------
(* Properties                                                              *)

Gold(ks) == FoldLeft(LAMBDA sum, k : sum + k.gold, 0, ks)
Best(ks, piece) == Max({ks[i][piece] : i \in DOMAIN ks})

\* A tournament loses no knight and makes no gold: it keeps all of it unless
\* somebody's purse is full, and no purse wraps around.  The best weapon and
\* the best armour stay with somebody, however many rounds it takes and
\* whoever loses his pieces on the way (lines 41, 129-137, 205-229).
NothingFromNothing ==
  [][play /\ pretenders # <<>> =>
       LET all == pretenders' \o eliminated'
       IN /\ Len(all) = Len(pretenders) /\ Len(pretenders') <= 1
          /\ \/ Gold(all) = Gold(pretenders)
             \/ /\ Gold(all) < Gold(pretenders)
                /\ MAX_GOLD \in {all[i].gold : i \in DOMAIN all}
          /\ \A piece \in {"weapon", "armour"} :
               Best(all, piece) = Best(pretenders, piece)]_vars

=============================================================================
