------------------------ MODULE ParallelSearchProofs ------------------------
(* Proofs about ParallelSearch: for every tree of calls and every number   *)
(* of threads no call is lost or made twice, and main prints the best sum. *)
EXTENDS ParallelSearch, FiniteSetTheorems, TLAPS

\* The calls a thread holds agree with its program counter.
HandsMatchPc ==
  \A t \in Thread :
    /\ local[t] # {} => pc[t] \in {"search", "offer"}
    /\ cur[t] # NoTask <=> pc[t] \in {"claim", "offer"}

\* Every call of a call already made is made or pending, and the root is.
NothingLost ==
  /\ Root \in explored \cup Pending
  /\ \A x \in explored : Children[x] \subseteq explored \cup Pending

\* Nothing is pending before the call that leads to it has been made.
NothingEarly ==
  \A x \in Task : \A c \in Children[x] :
    c \in explored \cup Pending => x \in explored

\* The threads' best sums cover the calls made, and come from calls.
BestCovers ==
  /\ \A x \in explored : \E t \in Thread : Value[x] <= best[t]
  /\ \A t \in Thread : best[t] = 0 \/ \E x \in Task : Value[x] = best[t]

\* main's result covers the threads it has joined, which have ended.
ResultCovers ==
  /\ \A t \in Thread : t <= joined => pc[t] = "exited" /\ best[t] <= result
  /\ result = 0 \/ \E x \in Task : Value[x] = result

\* Which tasks are where.
Places == NoTaskTwice /\ NothingLost /\ NothingEarly

\* NoTaskTwice is not inductive: that the children of a call are new needs
\* NothingEarly.  SearchComplete follows from NothingLost and TaskHasTaker
\* once nobody holds a task, ResultIsBest from it and the two covers.
IInv ==
  /\ TypeOK
  /\ HandsMatchPc
  /\ Places
  /\ TaskHasTaker
  /\ BestCovers
  /\ ResultCovers

-----------------------------------------------------------------------------
(* Type correctness.                                                       *)

\* The larger of two numbers is a number and bounds both.
LEMMA LargerNat ==
  ASSUME NEW x \in Nat, NEW y \in Nat
  PROVE  /\ Larger(x, y) \in Nat /\ Larger(x, y) \in {x, y}
         /\ x <= Larger(x, y) /\ y <= Larger(x, y)
  BY DEF Larger

\* Making a call keeps the fields it changes in their types.
LEMMA ExploreType ==
  ASSUME TypeOK, NEW t \in Thread, NEW x \in Task, NEW rest \in SUBSET Task,
         Explore(t, x, rest)
  PROVE  /\ explored' \subseteq Task
         /\ best' \in [Thread -> Nat]
         /\ local' \in [Thread -> SUBSET Task]
         /\ cur' \in [Thread -> Task \cup {NoTask}]
<1>1. best[t] \in Nat /\ Value[x] \in Nat
  BY ValueAssumption DEF TypeOK
<1>2. best' \in [Thread -> Nat]
  BY <1>1, LargerNat DEF Explore, TypeOK
<1>3. Children[x] \subseteq Task
  BY TreeAssumption
<1> QED
  BY <1>2, <1>3 DEF Explore, TypeOK

\* Only a thread with a task in its hand makes or pushes it.
LEMMA Hand ==
  ASSUME TypeOK, HandsMatchPc, NEW t \in Thread, pc[t] \in {"claim", "offer"}
  PROVE  cur[t] \in Task
  BY DEF TypeOK, HandsMatchPc

\* Every step of a thread keeps every field in its type.
LEMMA ThreadType ==
  ASSUME TypeOK, HandsMatchPc, NEW t \in Thread, ThreadStep(t)
  PROVE  TypeOK'
<1> USE DEF shared, private, main, GoTo, TypeOK
<1>1. CASE Pop(t)
  BY <1>1 DEF Pop
<1>2. CASE PopNothing(t) \/ Retry(t) \/ Exit(t)
  BY <1>2 DEF PopNothing, Retry, Exit
<1>3. CASE Claim(t)
  <2>1. cur[t] \in Task
    BY <1>3, Hand DEF Claim
  <2> QED
    BY <1>3, <2>1, ExploreType DEF Claim
<1>4. CASE Descend(t)
  <2>1. PICK x \in local[t] : Explore(t, x, local[t] \ {x})
    BY <1>4 DEF Descend
  <2>2. x \in Task /\ local[t] \ {x} \in SUBSET Task
    BY <2>1
  <2> QED
    BY <1>4, <2>1, <2>2, ExploreType DEF Descend
<1>5. CASE MakeFrame(t)
  BY <1>5 DEF MakeFrame
<1>6. CASE Push(t)
  <2>1. cur[t] \in Task
    BY <1>6, Hand DEF Push
  <2> QED
    BY <1>6, <2>1 DEF Push
<1>7. CASE TakeBack(t)
  <2>1. cur[t] \in Task /\ local[t] \in SUBSET Task
    BY <1>7, Hand DEF TakeBack
  <2> QED
    BY <1>7, <2>1, ExploreType DEF TakeBack
<1>8. CASE Release(t)
  BY <1>8 DEF Release
<1>11. CASE Announce(t)
  BY <1>11 DEF Announce
<1>9. CASE TestEmpty(t)
  BY <1>9 DEF TestEmpty
<1>10. CASE TestCount(t)
  BY <1>10 DEF TestCount
<1> QED
  BY <1>1, <1>2, <1>3, <1>4, <1>5, <1>6, <1>7, <1>8, <1>9, <1>10,
     <1>11 DEF ThreadStep

\* Joining a thread keeps every field in its type.
LEMMA JoinType == ASSUME TypeOK, Join PROVE TypeOK'
<1>1. joined + 1 \in Thread
  BY ThreadAssumption DEF TypeOK, Join, Thread
<1>2. Larger(result, best[joined + 1]) \in Nat
  BY <1>1, LargerNat DEF TypeOK
<1> QED
  BY <1>1, <1>2, ThreadAssumption
  DEF TypeOK, Join, shared, private, Thread

-----------------------------------------------------------------------------
(* Where the tasks are.                                                    *)

\* A task that moves between the stack and the hands of a thread is in one
\* place before and in one place after.
LEMMA MoveKeepsPlaces ==
  ASSUME Places, NEW t \in Thread, explored' = explored,
         \A u \in Thread \ {t} : local'[u] = local[u] /\ cur'[u] = cur[u],
         stack' \cup Held(t)' = stack \cup Held(t),
         stack' \cap Held(t)' = {}, cur'[t] \notin local'[t]
  PROVE  Places'
<1>1. \A u \in Thread \ {t} : Held(u)' = Held(u) /\ cur'[u] \notin local'[u]
  BY DEF Held, Places, NoTaskTwice
<1>2. Pending' = Pending
  BY <1>1 DEF Pending
<1>3. \A u \in Thread \ {t} : Held(u)' \cap (stack' \cup Held(t)') = {}
  BY <1>1 DEF Places, NoTaskTwice
<1>4. NoTaskTwice'
  <2>1. explored' \cap Pending' = {}
    BY <1>2 DEF Places, NoTaskTwice
  <2>2. ASSUME NEW v \in Thread
        PROVE  /\ stack' \cap Held(v)' = {} /\ cur'[v] \notin local'[v]
               /\ \A u \in Thread : u # v => Held(v)' \cap Held(u)' = {}
    BY <1>1, <1>3 DEF Places, NoTaskTwice
  <2> QED
    BY <2>1, <2>2 DEF NoTaskTwice
<1> QED
  BY <1>2, <1>4 DEF Places, NothingLost, NothingEarly

\* A call takes one task out of the hands of a thread and puts its children,
\* which are nowhere yet, there instead.
LEMMA ExploreKeepsPlaces ==
  ASSUME TypeOK, Places, NEW t \in Thread, NEW x \in Held(t), stack' = stack,
         explored' = explored \cup {x},
         \A u \in Thread \ {t} : local'[u] = local[u] /\ cur'[u] = cur[u],
         Held(t)' = (Held(t) \ {x}) \cup Children[x], cur'[t] = NoTask,
         NoTask \notin local'[t]
  PROVE  Places'
<1>1. \A u \in Thread \ {t} : Held(u)' = Held(u) /\ cur'[u] \notin local'[u]
  BY DEF Held, Places, NoTaskTwice
<1>2. x \in Task /\ x \in Pending /\ x \notin explored
  BY DEF TypeOK, Held, Pending, Places, NoTaskTwice
<1>3. Children[x] \cap (explored \cup Pending) = {}
  BY <1>2 DEF Places, NothingEarly
<1>4. x \notin stack /\ \A u \in Thread \ {t} : x \notin Held(u)
  BY DEF Places, NoTaskTwice
<1>5. Pending' = (Pending \ {x}) \cup Children[x]
  BY <1>1, <1>4 DEF Pending
<1>6. x \notin Children[x]
  BY <1>2, <1>3
<1>7. NoTaskTwice'
  <2>1. explored' \cap Pending' = {}
    BY <1>3, <1>5, <1>6 DEF Places, NoTaskTwice
  <2>2. stack' \cap Held(t)' = {} /\ cur'[t] \notin local'[t]
    BY <1>3 DEF Places, NoTaskTwice, Pending
  <2>3. \A u \in Thread \ {t} : Held(u)' \cap Held(t)' = {}
    BY <1>1, <1>3 DEF Places, NoTaskTwice, Pending
  <2>4. ASSUME NEW v \in Thread
        PROVE  /\ stack' \cap Held(v)' = {} /\ cur'[v] \notin local'[v]
               /\ \A u \in Thread : u # v => Held(v)' \cap Held(u)' = {}
    BY <1>1, <2>2, <2>3 DEF Places, NoTaskTwice
  <2> QED
    BY <2>1, <2>4 DEF NoTaskTwice
<1>8. NothingLost'
  BY <1>5 DEF Places, NothingLost
<1>9. NothingEarly'
  <2> SUFFICES ASSUME NEW y \in Task, NEW c \in Children[y],
                      c \in explored' \cup Pending'
               PROVE  y \in explored'
    BY DEF NothingEarly
  <2>1. CASE c \in Children[x]
    BY <1>2, <2>1, TreeAssumption
  <2>2. CASE c \in explored \cup Pending
    BY <2>2 DEF Places, NothingEarly
  <2> QED
    BY <1>2, <1>5, <2>1, <2>2
<1> QED
  BY <1>7, <1>8, <1>9 DEF Places

\* No step of a thread loses a task, duplicates it or makes a call early.
LEMMA ThreadPlaces ==
  ASSUME TypeOK, HandsMatchPc, Places, NEW t \in Thread, ThreadStep(t)
  PROVE  Places'
<1>1. NoTask \notin local[t] /\ NoTask \notin Task
  BY TreeAssumption DEF TypeOK
<1>2. CASE Pop(t)
  <2>1. PICK x \in stack : stack' = stack \ {x} /\ cur' = [cur EXCEPT ![t] = x]
    BY <1>2 DEF Pop
  <2>2. cur[t] = NoTask /\ x # NoTask /\ cur'[t] = x /\ local' = local
    BY <1>1, <1>2, <2>1 DEF Pop, GoTo, HandsMatchPc, TypeOK
  <2>3. Held(t) = local[t] /\ Held(t)' = local[t] \cup {x}
    BY <2>2 DEF Held
  <2>4. x \notin local[t] /\ stack \cap local[t] = {}
    BY <2>3 DEF Places, NoTaskTwice
  <2> QED
    BY <1>2, <2>1, <2>2, <2>3, <2>4, MoveKeepsPlaces DEF Pop, TypeOK
<1>3. CASE \/ PopNothing(t) \/ Retry(t) \/ Exit(t)
           \/ Release(t) \/ TestEmpty(t) \/ TestCount(t) \/ Announce(t)
  <2>1. stack' = stack /\ UNCHANGED private
    BY <1>3 DEF PopNothing, Retry, Exit, Release, TestEmpty, TestCount,
                Announce, shared
  <2> QED
    BY <2>1 DEF private, Places, NoTaskTwice, NothingLost, NothingEarly,
                Pending, Held
<1>4. CASE Claim(t) \/ TakeBack(t)
  <2>1. cur[t] \in Task /\ cur[t] # NoTask
    BY <1>1, <1>4, Hand DEF Claim, TakeBack, GoTo
  <2>2. PICK rest \in SUBSET Task :
          rest = local[t] /\ Explore(t, cur[t], rest) /\ stack' = stack
    <3>1. CASE Claim(t)
      BY <3>1 DEF Claim, GoTo, HandsMatchPc, TypeOK
    <3>2. CASE TakeBack(t)
      BY <3>2 DEF TakeBack, TypeOK, shared
    <3> QED
      BY <1>4, <3>1, <3>2
  <2>3. /\ explored' = explored \cup {cur[t]}
        /\ local'[t] = local[t] \cup Children[cur[t]] /\ cur'[t] = NoTask
        /\ \A u \in Thread \ {t} : local'[u] = local[u] /\ cur'[u] = cur[u]
    BY <2>2 DEF Explore, TypeOK
  <2>4. cur[t] \notin local[t]
    BY DEF Places, NoTaskTwice
  <2>5. /\ cur[t] \in Held(t)
        /\ Held(t)' = (Held(t) \ {cur[t]}) \cup Children[cur[t]]
    BY <2>1, <2>3, <2>4 DEF Held
  <2>6. NoTask \notin local'[t]
    BY <1>1, <2>1, <2>3, TreeAssumption
  <2> QED
    BY <2>2, <2>3, <2>5, <2>6, ExploreKeepsPlaces
<1>5. CASE Descend(t)
  <2>1. PICK x \in local[t] :
          Explore(t, x, local[t] \ {x}) /\ stack' = stack
    BY <1>5 DEF Descend, shared
  <2>2. cur[t] = NoTask
    BY <1>5 DEF Descend, GoTo, HandsMatchPc
  <2>3. /\ explored' = explored \cup {x}
        /\ local'[t] = (local[t] \ {x}) \cup Children[x] /\ cur'[t] = NoTask
        /\ \A u \in Thread \ {t} : local'[u] = local[u] /\ cur'[u] = cur[u]
    BY <2>1 DEF Explore, TypeOK
  <2>4. x \in Held(t) /\ Held(t)' = (Held(t) \ {x}) \cup Children[x]
    BY <1>1, <2>2, <2>3 DEF Held
  <2>5. x \in Task /\ NoTask \notin local'[t]
    BY <1>1, <2>3, TreeAssumption DEF TypeOK
  <2> QED
    BY <2>1, <2>3, <2>4, <2>5, ExploreKeepsPlaces
<1>6. CASE MakeFrame(t)
  <2>1. PICK x \in local[t] : /\ cur' = [cur EXCEPT ![t] = x]
                             /\ local' = [local EXCEPT ![t] = @ \ {x}]
    BY <1>6 DEF MakeFrame
  <2>2. cur[t] = NoTask /\ stack' = stack /\ explored' = explored
    BY <1>6 DEF MakeFrame, GoTo, HandsMatchPc, shared
  <2>3. /\ cur'[t] = x /\ local'[t] = local[t] \ {x}
        /\ \A u \in Thread \ {t} : local'[u] = local[u] /\ cur'[u] = cur[u]
    BY <2>1 DEF TypeOK
  <2>4. Held(t)' = Held(t)
    BY <1>1, <2>2, <2>3 DEF Held
  <2>5. stack \cap Held(t) = {}
    BY DEF Places, NoTaskTwice
  <2> QED
    BY <2>2, <2>3, <2>4, <2>5, MoveKeepsPlaces
<1>7. CASE Push(t)
  <2>1. cur[t] # NoTask /\ cur[t] \notin local[t]
    BY <1>7 DEF Push, GoTo, HandsMatchPc, Places, NoTaskTwice
  <2>2. /\ stack' = stack \cup {cur[t]} /\ explored' = explored
        /\ cur'[t] = NoTask /\ local' = local
        /\ \A u \in Thread \ {t} : cur'[u] = cur[u]
    BY <1>7 DEF Push, TypeOK
  <2>3. Held(t) = local[t] \cup {cur[t]} /\ Held(t)' = local[t]
    BY <2>1, <2>2 DEF Held
  <2>4. stack \cap Held(t) = {}
    BY DEF Places, NoTaskTwice
  <2> QED
    BY <1>1, <2>1, <2>2, <2>3, <2>4, MoveKeepsPlaces
<1> QED
  BY <1>2, <1>3, <1>4, <1>5, <1>6, <1>7 DEF ThreadStep

\* No step of a thread breaks the agreement of its hands with its counter.
LEMMA ThreadHands ==
  ASSUME TypeOK, HandsMatchPc, NEW t \in Thread, ThreadStep(t)
  PROVE  HandsMatchPc'
<1> DEFINE Good == /\ local'[t] # {} => pc'[t] \in {"search", "offer"}
                   /\ cur'[t] # NoTask <=> pc'[t] \in {"claim", "offer"}
<1>1. ASSUME NEW u \in Thread, u # t
      PROVE  pc'[u] = pc[u] /\ local'[u] = local[u] /\ cur'[u] = cur[u]
  <2> USE DEF GoTo, private, TypeOK
  <2>1. CASE Claim(t) \/ Descend(t) \/ TakeBack(t)
    BY <1>1, <2>1 DEF Claim, Descend, TakeBack, Explore
  <2>2. CASE Pop(t) \/ MakeFrame(t) \/ Push(t)
    BY <1>1, <2>2 DEF Pop, MakeFrame, Push
  <2>3. CASE \/ PopNothing(t) \/ Retry(t) \/ Exit(t)
             \/ Release(t) \/ TestEmpty(t) \/ TestCount(t) \/ Announce(t)
    BY <1>1, <2>3 DEF PopNothing, Retry, Exit, Release, TestEmpty, TestCount,
                      Announce
  <2> QED
    BY <2>1, <2>2, <2>3 DEF ThreadStep
<1> SUFFICES Good
  BY <1>1 DEF HandsMatchPc
<1>2. NoTask \notin Task
  BY TreeAssumption
<1>3. CASE Claim(t) \/ Descend(t) \/ TakeBack(t)
  BY <1>3 DEF Claim, Descend, TakeBack, Explore, GoTo, TypeOK
<1>4. CASE Pop(t)
  BY <1>2, <1>4 DEF Pop, GoTo, TypeOK, HandsMatchPc
<1>5. CASE MakeFrame(t)
  BY <1>2, <1>5 DEF MakeFrame, GoTo, TypeOK, HandsMatchPc
<1>6. CASE Push(t)
  BY <1>6 DEF Push, GoTo, TypeOK, HandsMatchPc
<1>7. CASE PopNothing(t) \/ Retry(t) \/ Exit(t) \/ Release(t) \/ Announce(t)
  BY <1>7 DEF PopNothing, Retry, Exit, Release, Announce, GoTo, private,
              TypeOK, HandsMatchPc
<1>8. CASE TestEmpty(t) \/ TestCount(t)
  <2>1. pc[t] \in {"empty", "count"} /\ UNCHANGED private
    BY <1>8 DEF TestEmpty, TestCount, GoTo
  <2>2. pc'[t] \in {"count", "announce", "pop"}
    BY <1>8 DEF TestEmpty, TestCount, GoTo, TypeOK
  <2> QED
    BY <2>1, <2>2 DEF private, HandsMatchPc
<1> QED
  BY <1>3, <1>4, <1>5, <1>6, <1>7, <1>8 DEF ThreadStep

\* No step of a thread leaves a task on the stack without a taker: only a
\* thread that finds the stack empty goes to test all_done.
LEMMA ThreadTaker ==
  ASSUME TypeOK, TaskHasTaker, NEW t \in Thread, ThreadStep(t)
  PROVE  TaskHasTaker'
<1> SUFFICES ASSUME stack' # {}
             PROVE  \E u \in Thread : pc'[u] \notin {"check", "exited"}
  BY DEF TaskHasTaker
<1>1. CASE PopNothing(t)
  BY <1>1 DEF PopNothing, shared
<1>2. CASE Exit(t)
  <2>1. pc[t] = "check" /\ stack # {} /\ pc' = [pc EXCEPT ![t] = "exited"]
    BY <1>2 DEF Exit, GoTo, shared
  <2>2. PICK u \in Thread : pc[u] \notin {"check", "exited"}
    BY <2>1 DEF TaskHasTaker
  <2> QED
    BY <2>1, <2>2 DEF TypeOK
<1>3. CASE \/ Pop(t) \/ Retry(t) \/ Claim(t) \/ Descend(t) \/ MakeFrame(t)
           \/ Push(t) \/ TakeBack(t) \/ Release(t) \/ Announce(t)
  BY <1>3 DEF Pop, Retry, Claim, Descend, MakeFrame, Push, TakeBack, Release,
              Announce, GoTo, TypeOK
<1>4. CASE TestEmpty(t) \/ TestCount(t)
  <2>1. pc'[t] \in {"count", "announce", "pop"}
    BY <1>4 DEF TestEmpty, TestCount, GoTo, TypeOK
  <2> QED
    BY <2>1
<1> QED
  BY <1>1, <1>2, <1>3, <1>4 DEF ThreadStep

\* Making a call raises the best sum of the thread to cover it.
LEMMA ExploreCovers ==
  ASSUME TypeOK, BestCovers, NEW t \in Thread, NEW x \in Task, NEW rest,
         Explore(t, x, rest)
  PROVE  BestCovers'
<1>1. best[t] \in Nat /\ Value[x] \in Nat
  BY ValueAssumption DEF TypeOK
<1>2. /\ best'[t] \in Nat /\ best'[t] \in {best[t], Value[x]}
      /\ best[t] <= best'[t] /\ Value[x] <= best'[t]
      /\ \A u \in Thread \ {t} : best'[u] = best[u]
      /\ explored' = explored \cup {x}
  BY <1>1, LargerNat DEF Explore, TypeOK
<1>3. ASSUME NEW y \in explored' PROVE \E u \in Thread : Value[y] <= best'[u]
  <2>1. CASE y = x
    BY <1>2, <2>1
  <2>2. CASE y \in explored
    <3>1. PICK u \in Thread : Value[y] <= best[u]
      BY <2>2 DEF BestCovers
    <3>2. best[u] \in Nat /\ Value[y] \in Nat
      BY <2>2, ValueAssumption DEF TypeOK
    <3> QED
      BY <1>1, <1>2, <3>1, <3>2
  <2> QED
    BY <1>2, <1>3, <2>1, <2>2
<1>4. ASSUME NEW u \in Thread
      PROVE  best'[u] = 0 \/ \E y \in Task : Value[y] = best'[u]
  BY <1>2 DEF BestCovers
<1> QED
  BY <1>3, <1>4 DEF BestCovers

\* A step of a thread keeps both covers: a thread that has ended takes none.
LEMMA ThreadCovers ==
  ASSUME TypeOK, HandsMatchPc, BestCovers, ResultCovers,
         NEW t \in Thread, ThreadStep(t)
  PROVE  BestCovers' /\ ResultCovers'
<1>1. BestCovers'
  <2>1. CASE Claim(t) \/ TakeBack(t)
    BY <2>1, Hand, ExploreCovers DEF Claim, TakeBack, GoTo
  <2>2. CASE Descend(t)
    <3>1. PICK x \in local[t] : Explore(t, x, local[t] \ {x})
      BY <2>2 DEF Descend
    <3>2. x \in Task
      BY DEF TypeOK
    <3> QED
      BY <3>1, <3>2, ExploreCovers
  <2>3. CASE ~(Claim(t) \/ TakeBack(t) \/ Descend(t))
    <3>1. UNCHANGED <<best, explored>>
      BY <2>3 DEF ThreadStep, Pop, PopNothing, Retry, Exit, MakeFrame, Push,
                  Release, TestEmpty, TestCount, Announce, private
    <3> QED
      BY <3>1 DEF BestCovers
  <2> QED
    BY <2>1, <2>2, <2>3
<1>2. pc[t] # "exited" /\ UNCHANGED main
  BY DEF ThreadStep, Pop, PopNothing, Retry, Exit, Claim, Descend, MakeFrame,
         Push, TakeBack, Release, TestEmpty, TestCount, Announce, GoTo
<1>3. \A u \in Thread \ {t} : pc'[u] = pc[u] /\ best'[u] = best[u]
  BY DEF ThreadStep, Pop, PopNothing, Retry, Exit, Claim, Descend, MakeFrame,
         Push, TakeBack, Release, TestEmpty, TestCount, Announce, GoTo,
         Explore, private, TypeOK
<1>4. ResultCovers'
  BY <1>2, <1>3 DEF ResultCovers, main
<1> QED
  BY <1>1, <1>4

\* Joining a thread: main's result covers one more.
LEMMA JoinKeeps ==
  ASSUME IInv, Join
  PROVE  IInv'
<1>1. TypeOK'
  BY JoinType DEF IInv
<1>2. UNCHANGED <<stack, pc, cur, local, best, explored>>
  BY DEF Join, shared, private
<1>3. HandsMatchPc' /\ Places' /\ TaskHasTaker' /\ BestCovers'
  BY <1>2 DEF IInv, HandsMatchPc, Places, NoTaskTwice, NothingLost,
              NothingEarly, Pending, Held, TaskHasTaker, BestCovers
<1>4. ResultCovers'
  <2> DEFINE new == joined + 1
  <2>1. /\ new \in Thread /\ pc[new] = "exited" /\ joined' = new
        /\ best[new] \in Nat /\ result \in Nat
    BY ThreadAssumption DEF IInv, TypeOK, Join, Thread
  <2>2. /\ result' \in Nat /\ result' \in {result, best[new]}
        /\ result <= result' /\ best[new] <= result'
    BY <2>1, LargerNat DEF Join
  <2>3. ASSUME NEW u \in Thread, u <= joined'
        PROVE  pc'[u] = "exited" /\ best'[u] <= result'
    <3>1. CASE u = new
      BY <1>2, <2>1, <2>2, <3>1
    <3>2. CASE u # new
      <4>1. u <= joined
        BY <2>1, <2>3, <3>2, ThreadAssumption DEF Thread, IInv, TypeOK
      <4>2. pc[u] = "exited" /\ best[u] <= result /\ best[u] \in Nat
        BY <4>1 DEF IInv, ResultCovers, TypeOK
      <4> QED
        BY <1>2, <2>1, <2>2, <4>2
    <3> QED
      BY <3>1, <3>2
  <2>4. result' = 0 \/ \E x \in Task : Value[x] = result'
    BY <2>1, <2>2 DEF IInv, BestCovers, ResultCovers
  <2> QED
    BY <2>3, <2>4 DEF ResultCovers
<1> QED
  BY <1>1, <1>3, <1>4 DEF IInv

-----------------------------------------------------------------------------
(* The theorems.                                                           *)

\* Initially the root is on the stack and every thread is about to pop it.
LEMMA InitIInv == Init => IInv
<1> SUFFICES ASSUME Init PROVE IInv
  OBVIOUS
<1> USE DEF Init
<1>1. TypeOK
  <2>1. joined \in 0..NThreads /\ waiting_computations \in Int
    BY ThreadAssumption
  <2>2. stack \subseteq Task /\ all_done \in BOOLEAN /\ explored \subseteq Task
    BY TreeAssumption
  <2>3. /\ pc \in [Thread -> {"pop", "check", "exited", "claim", "search",
                             "offer", "empty", "count", "announce"}]
        /\ cur \in [Thread -> Task \cup {NoTask}]
        /\ local \in [Thread -> SUBSET Task]
        /\ best \in [Thread -> Nat] /\ result \in Nat
    OBVIOUS
  <2> QED
    BY <2>1, <2>2, <2>3 DEF TypeOK
<1>2. HandsMatchPc
  BY DEF HandsMatchPc
<1>3. \A t \in Thread : Held(t) = {}
  BY DEF Held
<1>4. Pending = {Root}
  BY <1>3 DEF Pending
<1>5. Places
  BY <1>3, <1>4, TreeAssumption
  DEF Places, NoTaskTwice, NothingLost, NothingEarly
<1>6. 1 \in Thread
  BY ThreadAssumption DEF Thread
<1>7. TaskHasTaker
  BY <1>6 DEF TaskHasTaker
<1>8. BestCovers
  BY DEF BestCovers
<1>9. ResultCovers
  BY DEF ResultCovers, Thread
<1> QED
  BY <1>1, <1>2, <1>5, <1>7, <1>8, <1>9 DEF IInv

\* Every step preserves the inductive invariant.
LEMMA IInvStep == IInv /\ [Next]_vars => IInv'
<1> SUFFICES ASSUME IInv, [Next]_vars PROVE IInv'
  OBVIOUS
<1>1. ASSUME NEW t \in Thread, ThreadStep(t) PROVE IInv'
  BY <1>1, ThreadType, ThreadHands, ThreadPlaces, ThreadTaker, ThreadCovers
  DEF IInv
<1>2. CASE UNCHANGED vars
  <2>1. UNCHANGED <<stack, waiting_computations, all_done, pc, cur, local,
                    best, joined, result, explored>>
    BY <1>2 DEF vars, shared, private, main
  <2>2. Pending' = Pending /\ \A t \in Thread : Held(t)' = Held(t)
    BY <2>1 DEF Pending, Held
  <2> QED
    BY <2>1, <2>2
    DEF IInv, TypeOK, HandsMatchPc, Places, NoTaskTwice, NothingLost,
        NothingEarly, TaskHasTaker, BestCovers, ResultCovers
<1> QED
  BY <1>1, <1>2, JoinKeeps DEF Next, Finished

\* The inductive invariant holds throughout.
THEOREM Inductive == Spec => []IInv
  BY InitIInv, IInvStep, PTL DEF Spec

\* No call of the tree is ever in two hands or made twice.
THEOREM OnceOnly == Spec => []NoTaskTwice
<1>1. IInv => NoTaskTwice
  BY DEF IInv, Places
<1> QED
  BY <1>1, Inductive, PTL

\* A task on the stack always has a thread that will pop again.
THEOREM Taken == Spec => []TaskHasTaker
<1>1. IInv => TaskHasTaker
  BY DEF IInv
<1> QED
  BY <1>1, Inductive, PTL

\* Once every thread has ended nothing is pending and every call was made.
LEMMA AllMade == IInv => SearchComplete
<1> SUFFICES ASSUME IInv, \A t \in Thread : pc[t] = "exited"
             PROVE  explored = Task
  BY DEF SearchComplete
<1>1. stack = {}
  BY DEF IInv, TaskHasTaker
<1>2. \A t \in Thread : Held(t) = {}
  BY DEF IInv, HandsMatchPc, Held
<1>3. Pending = {}
  BY <1>1, <1>2 DEF Pending
<1>4. Root \in explored /\ \A x \in explored : Children[x] \subseteq explored
  BY <1>3 DEF IInv, Places, NothingLost
<1>5. explored \in SUBSET Task
  BY DEF IInv, TypeOK
<1> QED
  BY <1>4, <1>5, TreeAssumption

\* When every thread has ended, every call of the tree has been made.
THEOREM Complete == Spec => []SearchComplete
  BY AllMade, Inductive, PTL

\* main prints the sum of the best solution in the whole tree.
THEOREM Best == Spec => []ResultIsBest
<1>1. IInv => ResultIsBest
  <2> SUFFICES ASSUME IInv, joined = NThreads
               PROVE  /\ \A x \in Task : Value[x] <= result
                      /\ result = 0 \/ \E x \in Task : Value[x] = result
    BY DEF ResultIsBest
  <2>1. \A t \in Thread : pc[t] = "exited" /\ best[t] <= result
    BY ThreadAssumption DEF IInv, ResultCovers, Thread
  <2>2. explored = Task
    BY <2>1, AllMade DEF SearchComplete
  <2>3. ASSUME NEW x \in Task PROVE Value[x] <= result
    <3>1. PICK t \in Thread : Value[x] <= best[t]
      BY <2>2 DEF IInv, BestCovers
    <3>2. Value[x] \in Nat /\ best[t] \in Nat /\ result \in Nat
      BY ValueAssumption DEF IInv, TypeOK
    <3> QED
      BY <2>1, <3>1, <3>2
  <2> QED
    BY <2>3 DEF IInv, ResultCovers
<1> QED
  BY <1>1, Inductive, PTL

-----------------------------------------------------------------------------
(* The counter of the threads that wait.                                   *)

\* The threads that have not claimed a task.
Idle == {t \in Thread : pc[t] \notin {"search", "offer"}}

\* A step of a thread moves no other thread, and moves the counter with it.
LEMMA ThreadCounts ==
  ASSUME TypeOK, WaitingCounted, NEW t \in Thread, ThreadStep(t)
  PROVE  WaitingCounted'
<1>1. IsFiniteSet(Idle)
  <2>1. IsFiniteSet(Thread)
    BY ThreadAssumption, FS_Interval DEF Thread
  <2> QED
    BY <2>1, FS_Subset DEF Idle
<1>2. waiting_computations = Cardinality(Idle) /\ Cardinality(Idle) \in Nat
  BY <1>1, FS_CardinalityType DEF WaitingCounted, Idle
<1>3. \A u \in Thread : u # t => pc'[u] = pc[u]
  <2>1. \E from, to : GoTo(t, from, to)
    BY DEF ThreadStep, Pop, PopNothing, Retry, Exit, Claim, Descend,
           MakeFrame, Push, TakeBack, Release, TestEmpty, TestCount, Announce
  <2> QED
    BY <2>1 DEF GoTo, TypeOK
<1>4. CASE Claim(t)
  <2>1. pc[t] = "claim" /\ pc'[t] = "search"
    BY <1>4 DEF Claim, GoTo, TypeOK
  <2>2. t \in Idle /\ Idle' = Idle \ {t}
    BY <1>3, <2>1 DEF Idle
  <2>3. Cardinality(Idle') = Cardinality(Idle) - 1
    BY <1>1, <2>2, FS_RemoveElement
  <2>4. waiting_computations' = waiting_computations - 1
    BY <1>4 DEF Claim
  <2> QED
    BY <1>2, <2>3, <2>4 DEF WaitingCounted, Idle
<1>5. CASE Release(t)
  <2>1. pc[t] = "search" /\ pc'[t] = "empty"
    BY <1>5 DEF Release, GoTo, TypeOK
  <2>2. t \notin Idle /\ Idle' = Idle \cup {t}
    BY <1>3, <2>1 DEF Idle
  <2>3. Cardinality(Idle') = Cardinality(Idle) + 1
    BY <1>1, <2>2, FS_AddElement
  <2>4. waiting_computations' = waiting_computations + 1
    BY <1>5 DEF Release
  <2> QED
    BY <1>2, <2>3, <2>4 DEF WaitingCounted, Idle
<1>6. CASE ~ Claim(t) /\ ~ Release(t)
  <2>1. waiting_computations' = waiting_computations
    BY <1>6 DEF ThreadStep, Pop, PopNothing, Retry, Exit, Descend, MakeFrame,
       Push, TakeBack, TestEmpty, TestCount, Announce, shared
  <2>2. pc[t] \in {"search", "offer"} <=> pc'[t] \in {"search", "offer"}
    BY <1>6 DEF ThreadStep, TypeOK, GoTo, Pop, PopNothing, Retry, Exit,
       Descend, MakeFrame, Push, TakeBack, TestEmpty, TestCount, Announce
  <2>3. Idle' = Idle
    BY <1>3, <2>2 DEF Idle
  <2> QED
    BY <1>2, <2>1, <2>3 DEF WaitingCounted, Idle
<1> QED
  BY <1>4, <1>5, <1>6

\* The counter, which a thread changes in a step of its own, after it has
\* popped a task and after it has finished one, is at every moment the number
\* of the threads that have not claimed a task: it never goes below 0 nor
\* above the number of threads, at which the search is announced done.
THEOREM Counted == Spec => []WaitingCounted
<1>1. Init => WaitingCounted
  <2> SUFFICES ASSUME Init PROVE WaitingCounted
    OBVIOUS
  <2>1. Idle = 1 .. NThreads
    BY DEF Init, Idle, Thread
  <2>2. Cardinality(1 .. NThreads) = NThreads
    BY ThreadAssumption, FS_Interval
  <2> QED
    BY <2>1, <2>2 DEF Init, WaitingCounted, Idle
<1>2. IInv /\ WaitingCounted /\ [Next]_vars => WaitingCounted'
  <2> SUFFICES ASSUME IInv, WaitingCounted, [Next]_vars PROVE WaitingCounted'
    OBVIOUS
  <2>1. CASE Join \/ UNCHANGED vars
    BY <2>1 DEF Join, vars, shared, WaitingCounted
  <2> QED
    BY <2>1, ThreadCounts DEF Next, Finished, IInv
<1> QED
  BY <1>1, <1>2, Inductive, PTL DEF Spec
=============================================================================
