--------------------------- MODULE ParallelSearch ---------------------------
(***************************************************************************)
(* The parallel solver of the hypothesis verification task (Year2/         *)
(* Concurrent Programming/Task2, parallel/main.c).                         *)
(*                                                                         *)
(* The calls of recursive_solve form a tree: Task is the set of its        *)
(* arguments (a, b), Children[x] the pairs the loop of the call on x makes,*)
(* and Value[x] the sum of the solution that call finds, 0 when it finds   *)
(* none.  NThreads threads walk that tree.  A thread either descends into  *)
(* a child itself or, when some thread waits, pushes a copy of it on the   *)
(* shared stack.  The stack is taken as one atomic object whose order does *)
(* not matter; explored records the calls that were made.                  *)
(***************************************************************************)
EXTENDS Integers, FiniteSets

CONSTANTS
  NThreads,   \* input_data.t
  Task,       \* arguments of recursive_solve
  Root,       \* the pair read from the input
  Children,   \* Children[x]: calls made by the loop of the call on x
  Value,      \* Value[x]: sum of the solution the call on x finds, or 0
  NoTask      \* NULL

Thread == 1..NThreads

ASSUME ThreadAssumption == NThreads \in Nat \ {0}
\* The calls form a tree with root Root.
ASSUME TreeAssumption ==
  /\ Root \in Task /\ NoTask \notin Task
  /\ Children \in [Task -> SUBSET Task]
  /\ \A x \in Task : Root \notin Children[x]
  /\ \A x, y \in Task : x # y => Children[x] \cap Children[y] = {}
  /\ \A S \in SUBSET Task :
       Root \in S /\ (\A x \in S : Children[x] \subseteq S) => S = Task
ASSUME ValueAssumption == Value \in [Task -> Nat]

VARIABLES
  stack,                 \* tasks pushed and not yet popped
  waiting_computations,  \* threads without a task, as they count themselves
  all_done,              \* set by the thread that detects termination
  pc,                    \* what each thread does next
  cur,                   \* task a thread has popped, or is about to push
  local,                 \* calls the recursion of a thread has still to make
  best,                  \* sum of the best solution of each thread
  joined,                \* threads main has joined
  result,                \* best_solution.sum of main
  explored               \* calls of recursive_solve made so far

shared == <<stack, waiting_computations, all_done>>
private == <<cur, local, best, explored>>
main == <<joined, result>>
vars == <<shared, pc, private, main>>

Larger(x, y) == IF x > y THEN x ELSE y

\* main has pushed the first task and created the threads.
Init ==
  /\ stack = {Root}
  /\ waiting_computations = NThreads
  /\ all_done = FALSE
  /\ pc = [t \in Thread |-> "pop"]
  /\ cur = [t \in Thread |-> NoTask]
  /\ local = [t \in Thread |-> {}]
  /\ best = [t \in Thread |-> 0]
  /\ joined = 0
  /\ result = 0
  /\ explored = {}

GoTo(t, from, to) ==
  /\ pc[t] = from
  /\ pc' = [pc EXCEPT ![t] = to]

-----------------------------------------------------------------------------
(* blocking_pop.                                                           *)

\* pop returns a task.
Pop(t) ==
  /\ GoTo(t, "pop", "claim")
  /\ \E x \in stack :
       /\ stack' = stack \ {x}
       /\ cur' = [cur EXCEPT ![t] = x]
  /\ UNCHANGED <<waiting_computations, all_done, local, best, explored, main>>

\* Mutant of PopNothing: all_done is read before the stack.
PopNothingIfDone(t) ==
  /\ GoTo(t, "pop", "check")
  /\ stack = {} \/ all_done
  /\ UNCHANGED <<shared, private, main>>

\* pop returns NULL; all_done is read next.
PopNothing(t) ==
  /\ GoTo(t, "pop", "check")
  /\ stack = {}
  /\ UNCHANGED <<shared, private, main>>

\* blocking_pop yields and tries again.
Retry(t) ==
  /\ ~all_done
  /\ GoTo(t, "check", "pop")
  /\ UNCHANGED <<shared, private, main>>

\* blocking_pop returns NULL and the thread ends.
Exit(t) ==
  /\ all_done
  /\ GoTo(t, "check", "exited")
  /\ UNCHANGED <<shared, private, main>>

-----------------------------------------------------------------------------
(* recursive_solve and solve.                                              *)

\* The call on x: its solution is recorded, the calls it makes remain to be
\* made besides rest.
Explore(t, x, rest) ==
  /\ explored' = explored \cup {x}
  /\ best' = [best EXCEPT ![t] = Larger(@, Value[x])]
  /\ local' = [local EXCEPT ![t] = rest \cup Children[x]]
  /\ cur' = [cur EXCEPT ![t] = NoTask]

\* Mutant of Claim: the counter is not decremented.
ClaimUncounted(t) ==
  /\ GoTo(t, "claim", "search")
  /\ Explore(t, cur[t], {})
  /\ UNCHANGED <<shared, main>>

\* A popped task: the thread stops waiting and calls recursive_solve on it.
Claim(t) ==
  /\ GoTo(t, "claim", "search")
  /\ waiting_computations' = waiting_computations - 1
  /\ Explore(t, cur[t], {})
  /\ UNCHANGED <<stack, all_done, main>>

\* A child while nobody waits: the call is made here.
Descend(t) ==
  /\ GoTo(t, "search", "search")
  /\ waiting_computations <= 0
  /\ \E x \in local[t] : Explore(t, x, local[t] \ {x})
  /\ UNCHANGED <<shared, main>>

\* A child while somebody waits: a frame is copied for it.
MakeFrame(t) ==
  /\ GoTo(t, "search", "offer")
  /\ waiting_computations > 0
  /\ \E x \in local[t] :
       /\ cur' = [cur EXCEPT ![t] = x]
       /\ local' = [local EXCEPT ![t] = @ \ {x}]
  /\ UNCHANGED <<shared, best, explored, main>>

\* Mutant of Push: the child is pushed and also searched here.
PushAndDescend(t) ==
  /\ GoTo(t, "offer", "search")
  /\ waiting_computations > 0
  /\ stack' = stack \cup {cur[t]}
  /\ Explore(t, cur[t], local[t])
  /\ UNCHANGED <<waiting_computations, all_done, main>>

\* Somebody still waits: the frame is pushed.
Push(t) ==
  /\ GoTo(t, "offer", "search")
  /\ waiting_computations > 0
  /\ stack' = stack \cup {cur[t]}
  /\ cur' = [cur EXCEPT ![t] = NoTask]
  /\ UNCHANGED <<waiting_computations, all_done, local, best, explored, main>>

\* Nobody waits any more: the frame is freed and the call is made here.
TakeBack(t) ==
  /\ GoTo(t, "offer", "search")
  /\ waiting_computations <= 0
  /\ Explore(t, cur[t], local[t])
  /\ UNCHANGED <<shared, main>>

\* recursive_solve has returned to solve: the thread waits again.
Release(t) ==
  /\ local[t] = {}
  /\ GoTo(t, "search", "empty")
  /\ waiting_computations' = waiting_computations + 1
  /\ UNCHANGED <<stack, all_done, private, main>>

\* The first half of the termination test: is_empty(&stack).
TestEmpty(t) ==
  /\ GoTo(t, "empty", IF stack = {} THEN "count" ELSE "pop")
  /\ UNCHANGED <<shared, private, main>>

\* The second half of the test; the stack may have changed since.
TestCount(t) ==
  /\ GoTo(t, "count",
          IF waiting_computations = NThreads THEN "announce" ELSE "pop")
  /\ UNCHANGED <<shared, private, main>>

\* all_done is set, whatever the other threads have done since the test.
Announce(t) ==
  /\ GoTo(t, "announce", "pop")
  /\ all_done' = TRUE
  /\ UNCHANGED <<stack, waiting_computations, private, main>>

-----------------------------------------------------------------------------
(* main.                                                                   *)

\* Mutant of Join: the best solution of the last thread wins.
JoinLast ==
  /\ joined < NThreads
  /\ pc[joined + 1] = "exited"
  /\ joined' = joined + 1
  /\ result' = best[joined + 1]
  /\ UNCHANGED <<shared, pc, private>>

\* main joins the threads in order and keeps the best of their solutions.
Join ==
  /\ joined < NThreads
  /\ pc[joined + 1] = "exited"
  /\ joined' = joined + 1
  /\ result' = Larger(result, best[joined + 1])
  /\ UNCHANGED <<shared, pc, private>>

\* main prints the result and returns.
Finished ==
  /\ joined = NThreads
  /\ UNCHANGED vars

ThreadStep(t) ==
  \/ Pop(t) \/ PopNothing(t) \/ Retry(t) \/ Exit(t)
  \/ Claim(t) \/ Descend(t) \/ MakeFrame(t) \/ Push(t) \/ TakeBack(t)
  \/ Release(t) \/ TestEmpty(t) \/ TestCount(t) \/ Announce(t)

Next == Join \/ Finished \/ \E t \in Thread : ThreadStep(t)

\* The threads are preemptive: each of them keeps taking steps, and so does
\* main once a thread it waits for has ended.
Fairness ==
  /\ \A t \in Thread : WF_vars(ThreadStep(t))
  /\ WF_vars(Join)

Spec == Init /\ [][Next]_vars /\ Fairness

-----------------------------------------------------------------------------
(* Properties.                                                             *)

TypeOK ==
  /\ stack \subseteq Task
  /\ waiting_computations \in Int
  /\ all_done \in BOOLEAN
  /\ pc \in [Thread -> {"pop", "check", "exited", "claim", "search", "offer",
                        "empty", "count", "announce"}]
  /\ cur \in [Thread -> Task \cup {NoTask}]
  /\ local \in [Thread -> SUBSET Task]
  /\ best \in [Thread -> Nat]
  /\ joined \in 0..NThreads
  /\ result \in Nat
  /\ explored \subseteq Task

\* Calls thread t has taken on itself and not made yet.
Held(t) == local[t] \cup ({cur[t]} \ {NoTask})

Pending == stack \cup UNION {Held(t) : t \in Thread}

\* No task is ever in two hands, or made twice: whoever pushes, pops or takes
\* back, the stack, the threads and the calls already made share nothing.
NoTaskTwice ==
  /\ explored \cap Pending = {}
  /\ \A t \in Thread :
       /\ stack \cap Held(t) = {}
       /\ cur[t] \notin local[t]
       /\ \A u \in Thread : u # t => Held(t) \cap Held(u) = {}

\* Although all_done may be set while a popped task is not yet counted, a task
\* on the stack always has a thread that will pop again before it ends.
TaskHasTaker ==
  stack # {} => \E t \in Thread : pc[t] \notin {"check", "exited"}

\* When every thread has ended, every call of the tree has been made.
SearchComplete ==
  (\A t \in Thread : pc[t] = "exited") => explored = Task

\* main prints the sum of the best solution in the whole tree, whichever
\* thread found it.
ResultIsBest ==
  joined = NThreads =>
    /\ \A x \in Task : Value[x] <= result
    /\ result = 0 \/ \E x \in Task : Value[x] = result

\* waiting_computations counts the threads that have no task, except that a
\* thread that has just popped one is still counted.
WaitingCounted ==
  waiting_computations =
    Cardinality({t \in Thread : pc[t] \notin {"search", "offer"}})

\* The program ends: some thread always detects termination, although the
\* emptiness of the stack and the counter are read one after the other.
Terminates == <>(joined = NThreads)
=============================================================================
