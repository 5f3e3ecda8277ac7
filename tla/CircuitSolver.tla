--------------------------- MODULE CircuitSolver ----------------------------
(***************************************************************************)
(* The parallel circuit solver (Year2/Concurrent Programming/Task1,        *)
(* solution/ParallelCircuitSolver.java).                                   *)
(*                                                                         *)
(* One RecursiveSolve task per circuit node: submitted to a fixed pool of  *)
(* PoolSize workers, it evaluates a leaf, or submits its arguments, takes  *)
(* their results from its own channel, answers its parent as soon as the   *)
(* result is known and cancels the rest.  stop() is shutdownNow() of the   *)
(* pool: the queue is dropped, later submissions are rejected and the      *)
(* workers are interrupted one after another.                              *)
(*                                                                         *)
(* A node names its task, its Future, the worker running it and that       *)
(* worker's interrupt flag.  The cancellations that precede an answer are  *)
(* one step with it: they only reach tasks whose answers nobody reads.     *)
(***************************************************************************)
EXTENDS Integers, Sequences, FiniteSets

CONSTANTS
  Node,       \* nodes of all the circuits
  Root,       \* roots of the circuits given to solve
  Type,       \* Type[n]: the NodeType of n
  Args,       \* Args[n]: sequence of the arguments of n
  Threshold,  \* Threshold[n]: used by GT and LT nodes
  PoolSize,   \* workers of the pool, 64 * nThreads in the code
  MayStop,    \* whether a client may call stop()
  Slow        \* leaves whose evaluation may take for ever

SimpleArity(n) ==
  CASE Type[n] = "LEAF" -> Len(Args[n]) = 0
    [] Type[n] = "NOT" -> Len(Args[n]) = 1
    [] Type[n] = "IF" -> Len(Args[n]) = 3
    [] Type[n] \in {"AND", "OR"} -> Len(Args[n]) >= 2
    [] Type[n] \in {"GT", "LT"} -> Len(Args[n]) >= 1 /\ Threshold[n] >= 0

Children(n) == {Args[n][i] : i \in DOMAIN Args[n]}

\* The arguments of the constructors of SimpleNode and ThresholdNode, and
\* the trees the README requires: a node is the argument of one node at most.
ASSUME CircuitAssumption ==
  /\ IsFiniteSet(Node) /\ Root \subseteq Node
  /\ Type \in [Node -> {"LEAF", "NOT", "AND", "OR", "IF", "GT", "LT"}]
  /\ Args \in [Node -> Seq(Node)]
  /\ Threshold \in [Node -> Int]
  /\ \A n \in Node : SimpleArity(n)
  /\ \A n \in Node : Children(n) \cap Root = {} /\ n \notin Children(n)
  /\ \A n, m \in Node : \A i \in DOMAIN Args[n], j \in DOMAIN Args[m] :
       Args[n][i] = Args[m][j] => n = m /\ i = j
ASSUME SlowAssumption == Slow \subseteq {n \in Node : Type[n] = "LEAF"}
ASSUME PoolAssumption == PoolSize \in Nat \ {0} /\ MayStop \in BOOLEAN

VARIABLES
  value,     \* what each node evaluates to; the leaves are the input
  asked,     \* roots solve() was called with
  accept,    \* acceptComputations; when FALSE the pool is shut down
  pending,   \* tasks whose worker shutdownNow() has yet to interrupt
  queue,     \* the work queue of the pool
  pc,        \* where the task of each node is
  flag,      \* interrupt flag of the worker running the task
  next,      \* arguments the task has submitted
  box,       \* myChannel of each task
  seen,      \* results the task has taken from it
  answer     \* channel of the CircuitValue of each root

pool == <<accept, pending, queue>>
tasks == <<pc, flag, next, seen>>
channels == <<box, answer>>
vars == <<value, asked, pool, tasks, channels>>

Failure == [value |-> FALSE, index |-> -1]
NoAnswer == [value |-> FALSE, index |-> -2]

Active == {"eval", "submit", "take"}
Running == {n \in Node : pc[n] \in Active}

\* Position of a node among the arguments of its parent, from 0.
Index(n) ==
  IF n \in Root THEN 0
  ELSE (CHOOSE i \in UNION {DOMAIN Args[p] : p \in Node} :
          \E p \in Node : i \in DOMAIN Args[p] /\ Args[p][i] = n) - 1

-----------------------------------------------------------------------------
(* What a circuit evaluates to: the sequential solver of the demo.         *)

True(S, v) == {i \in S : v[i]}

\* Value of node n when its arguments have the values v[1], v[2], ...
Meaning(n, v) ==
  LET ones == Cardinality(True(DOMAIN v, v))
  IN  CASE Type[n] = "NOT" -> ~v[1]
        [] Type[n] = "AND" -> \A i \in DOMAIN v : v[i]
        [] Type[n] = "OR" -> \E i \in DOMAIN v : v[i]
        [] Type[n] = "IF" -> IF v[1] THEN v[2] ELSE v[3]
        [] Type[n] = "GT" -> ones > Threshold[n]
        [] Type[n] = "LT" -> ones < Threshold[n]

ArgValues(n, v) == [i \in DOMAIN Args[n] |-> v[Args[n][i]]]

\* The leaves have any value, the other nodes the value of their arguments.
Valuation ==
  {v \in [Node -> BOOLEAN] : \A n \in Node :
     Type[n] # "LEAF" => v[n] = Meaning(n, ArgValues(n, v))}

Init ==
  /\ value \in Valuation
  /\ asked = {}
  /\ accept = TRUE
  /\ pending = {}
  /\ queue = << >>
  /\ pc = [n \in Node |-> "idle"]
  /\ flag = [n \in Node |-> FALSE]
  /\ next = [n \in Node |-> 0]
  /\ box = [n \in Node |-> << >>]
  /\ seen = [n \in Node |-> << >>]
  /\ answer = [r \in Root |-> NoAnswer]

-----------------------------------------------------------------------------
(* What a task does with the results s it has taken so far.                *)

Wait == [kind |-> "wait", value |-> FALSE]      \* take another one
Fail == [kind |-> "fail", value |-> FALSE]      \* throw
Silent == [kind |-> "silent", value |-> FALSE]  \* end without an answer
Answer(v) == [kind |-> "answer", value |-> v]

Failed(s) == \E k \in DOMAIN s : s[k].index = -1
GotTrue(s) == Cardinality({k \in DOMAIN s : s[k].value /\ s[k].index # -1})
AllTaken(n, s) == Len(s) = Len(Args[n])

\* Mutant of VerdictNOT: the value of the argument is passed on.
VerdictNOTPlain(n, s) == IF s = << >> THEN Wait ELSE Answer(s[1].value)

\* solveNOT does not look at the index of what it takes.
VerdictNOT(n, s) == IF s = << >> THEN Wait ELSE Answer(~s[1].value)

VerdictAND(n, s) ==
  IF Failed(s) THEN Fail
  ELSE IF \E k \in DOMAIN s : ~s[k].value THEN Answer(FALSE)
  ELSE IF AllTaken(n, s) THEN Answer(TRUE)
  ELSE Wait

VerdictOR(n, s) ==
  IF Failed(s) THEN Fail
  ELSE IF \E k \in DOMAIN s : s[k].value THEN Answer(TRUE)
  ELSE IF AllTaken(n, s) THEN Answer(FALSE)
  ELSE Wait

\* Mutant of VerdictGT: one argument too few is enough.
VerdictGTEarly(n, s) ==
  IF Failed(s) THEN Fail
  ELSE IF GotTrue(s) >= Threshold[n] THEN Answer(TRUE)
  ELSE IF Len(Args[n]) - Len(s) + GotTrue(s) <= Threshold[n] THEN Answer(FALSE)
  ELSE Wait

\* Also before the first submission, when s is empty: the threshold may
\* be out of reach.
VerdictGT(n, s) ==
  IF Failed(s) THEN Fail
  ELSE IF GotTrue(s) > Threshold[n] THEN Answer(TRUE)
  ELSE IF Len(Args[n]) - Len(s) + GotTrue(s) <= Threshold[n] THEN Answer(FALSE)
  ELSE Wait

VerdictLT(n, s) ==
  IF Failed(s) THEN Fail
  ELSE IF GotTrue(s) >= Threshold[n] THEN Answer(FALSE)
  ELSE IF GotTrue(s) + Len(Args[n]) - Len(s) < Threshold[n] THEN Answer(TRUE)
  ELSE Wait

\* The last result solveIF has taken from its argument i is non-null.
Got(s, i) == \E k \in DOMAIN s : s[k].index = i
Of(s, i) == \E k \in DOMAIN s : s[k].index = i /\ s[k].value

\* Mutant of VerdictIF: the condition is always waited for.
VerdictIFPatient(n, s) ==
  IF Got(s, 0) /\ Of(s, 0) /\ Got(s, 1) THEN Answer(Of(s, 1))
  ELSE IF Got(s, 0) /\ ~Of(s, 0) /\ Got(s, 2) THEN Answer(Of(s, 2))
  ELSE IF AllTaken(n, s) THEN Silent
  ELSE Wait

\* solveIF skips failures, and gives up after three results.
VerdictIF(n, s) ==
  IF Got(s, 0) /\ Of(s, 0) /\ Got(s, 1) THEN Answer(Of(s, 1))
  ELSE IF Got(s, 0) /\ ~Of(s, 0) /\ Got(s, 2) THEN Answer(Of(s, 2))
  ELSE IF Got(s, 1) /\ Got(s, 2) /\ Of(s, 1) = Of(s, 2) THEN Answer(Of(s, 1))
  ELSE IF AllTaken(n, s) THEN Silent
  ELSE Wait

Verdict(n, s) ==
  CASE Type[n] = "NOT" -> VerdictNOT(n, s)
    [] Type[n] = "AND" -> VerdictAND(n, s)
    [] Type[n] = "OR" -> VerdictOR(n, s)
    [] Type[n] = "GT" -> VerdictGT(n, s)
    [] Type[n] = "LT" -> VerdictLT(n, s)
    [] Type[n] = "IF" -> VerdictIF(n, s)

\* Mutant of ToCancel: the arguments of a finished node run on.
ToCancelNothing(n, s) == {}

\* Mutant of ToCancel: the first result cancels the other arguments.
ToCancelEarly(n, s) == Children(n)

\* Arguments cancelled once the results s are taken.
ToCancel(n, s) ==
  CASE Type[n] = "NOT" -> {}
    [] Type[n] = "IF" ->
         IF Got(s, 0) THEN {IF Of(s, 0) THEN Args[n][3] ELSE Args[n][2]}
         ELSE IF VerdictIF(n, s).kind = "answer" THEN {Args[n][1]} ELSE {}
    [] OTHER -> IF Verdict(n, s) = Wait THEN {} ELSE Children(n)

-----------------------------------------------------------------------------
(* Pieces of the actions.                                                  *)

\* parentChannel.offer(m): to the channel of the parent of n, or to the
\* CircuitValue of the circuit.  The channels have room for every argument.
Offer(n, m) ==
  /\ answer' = IF n \in Root THEN [answer EXCEPT ![n] = m] ELSE answer
  /\ box' = [p \in Node |->
               IF n \in Children(p) THEN Append(box[p], m) ELSE box[p]]

\* The task of n goes on to there, after future.cancel(true) of the tasks C:
\* one still queued will never run, the worker of one running is interrupted.
Cancel(n, C, there) ==
  /\ pc' = [m \in Node |-> IF m = n THEN there
                           ELSE IF m \in C /\ pc[m] = "queued" THEN "over"
                           ELSE pc[m]]
  /\ flag' = [m \in Node |-> flag[m] \/ (m \in C /\ pc[m] \in Active)]

-----------------------------------------------------------------------------
(* The clients.                                                            *)

\* solve(): the root is submitted, or a BrokenCircuitValue returned.
Solve(r) ==
  /\ r \notin asked
  /\ asked' = asked \union {r}
  /\ IF accept THEN /\ queue' = Append(queue, r)
                    /\ pc' = [pc EXCEPT ![r] = "queued"]
                    /\ UNCHANGED answer
               ELSE /\ answer' = [answer EXCEPT ![r] = Failure]
                    /\ UNCHANGED <<queue, pc>>
  /\ UNCHANGED <<value, accept, pending, flag, next, seen, box>>

\* stop(): a second call returns at once.
Stop ==
  /\ MayStop /\ accept
  /\ accept' = FALSE
  /\ pending' = Running
  /\ pc' = [n \in Node |-> IF pc[n] = "queued" THEN "over" ELSE pc[n]]
  /\ queue' = << >>
  /\ UNCHANGED <<value, asked, flag, next, seen, channels>>

\* shutdownNow() interrupts the worker that ran n when stop() was called.
InterruptWorker(n) ==
  /\ n \in pending
  /\ pending' = pending \ {n}
  /\ flag' = [flag EXCEPT ![n] = @ \/ pc[n] \in Active]
  /\ UNCHANGED <<value, asked, accept, queue, pc, next, seen, channels>>

-----------------------------------------------------------------------------
(* A worker and its task.                                                  *)

\* A free worker takes the head of the queue; a cancelled task does nothing.
Start ==
  /\ queue # << >>
  /\ Cardinality(Running) < PoolSize
  /\ queue' = Tail(queue)
  /\ pc' = [pc EXCEPT ![Head(queue)] = IF @ = "queued" THEN "eval" ELSE @]
  /\ UNCHANGED <<value, asked, accept, pending, flag, next, seen, channels>>

\* run() of a leaf.
LeafReturns(n) ==
  /\ pc[n] = "eval" /\ Type[n] = "LEAF"
  /\ Offer(n, [value |-> value[n], index |-> Index(n)])
  /\ Cancel(n, {}, "over")
  /\ UNCHANGED <<value, asked, pool, next, seen>>

\* Mutant of EvalThrows: the failure is sent and the evaluation tried again.
EvalThrowsRetries(n) ==
  /\ pc[n] = "eval" /\ flag[n]
  /\ Offer(n, Failure)
  /\ flag' = [flag EXCEPT ![n] = FALSE]
  /\ UNCHANGED <<value, asked, pool, pc, next, seen>>

\* LeafNode.getValue() or getArgs() throws.
EvalThrows(n) ==
  /\ pc[n] = "eval" /\ flag[n]
  /\ Offer(n, Failure)
  /\ Cancel(n, {}, "over")
  /\ UNCHANGED <<value, asked, pool, next, seen>>

\* getArgs() returns: a trivial threshold is answered without submitting.
GetArgs(n) ==
  /\ pc[n] = "eval" /\ Type[n] # "LEAF"
  /\ LET v == Verdict(n, << >>)
     IN  IF v = Wait THEN Cancel(n, {}, "submit") /\ UNCHANGED channels
         ELSE /\ Cancel(n, {}, "over")
              /\ Offer(n, [value |-> v.value, index |-> Index(n)])
  /\ UNCHANGED <<value, asked, pool, next, seen>>

\* pool.submit of the next argument.
Submit(n) ==
  /\ pc[n] = "submit" /\ accept
  /\ LET m == Args[n][next[n] + 1]
         last == next[n] + 1 = Len(Args[n])
     IN  /\ queue' = Append(queue, m)
         /\ pc' = [pc EXCEPT ![m] = "queued",
                             ![n] = IF last THEN "take" ELSE "submit"]
  /\ next' = [next EXCEPT ![n] = @ + 1]
  /\ UNCHANGED <<value, asked, accept, pending, flag, seen, channels>>

\* pool.submit throws RejectedExecutionException, which nothing catches: the
\* task ends, and its parent gets no answer.
Reject(n) ==
  /\ pc[n] = "submit" /\ ~accept
  /\ Cancel(n, {}, "over")
  /\ UNCHANGED <<value, asked, pool, next, seen, channels>>

\* myChannel.take() and the body of the loop after it.
Take(n) ==
  /\ pc[n] = "take" /\ ~flag[n] /\ box[n] # << >>
  /\ LET s == Append(seen[n], Head(box[n]))
         v == Verdict(n, s)
         mine == [box EXCEPT ![n] = Tail(@)]
         m == IF v = Fail THEN Failure
              ELSE [value |-> v.value, index |-> Index(n)]
     IN  /\ seen' = [seen EXCEPT ![n] = s]
         /\ Cancel(n, ToCancel(n, s), IF v = Wait THEN "take" ELSE "over")
         /\ IF v \in {Wait, Silent}
            THEN box' = mine /\ UNCHANGED answer
            ELSE /\ box' = [p \in Node |-> IF n \in Children(p)
                              THEN Append(box[p], m) ELSE mine[p]]
                 /\ answer' = IF n \in Root THEN [answer EXCEPT ![n] = m]
                                            ELSE answer
  /\ UNCHANGED <<value, asked, pool, next>>

\* myChannel.take() throws: every argument is cancelled.
TakeThrows(n) ==
  /\ pc[n] = "take" /\ flag[n]
  /\ Cancel(n, Children(n), "over")
  /\ Offer(n, Failure)
  /\ UNCHANGED <<value, asked, pool, next, seen>>

Quiet == queue = << >> /\ Running = {}

\* Everything is asked and answered, or stopped, and the pool is idle.
Finished ==
  /\ asked = Root /\ Quiet /\ pending = {}
  /\ UNCHANGED vars

TaskStep(n) ==
  \/ LeafReturns(n) \/ EvalThrows(n) \/ GetArgs(n) \/ Submit(n) \/ Reject(n)
  \/ Take(n) \/ TakeThrows(n)

Next ==
  \/ \E r \in Root : Solve(r)
  \/ Stop
  \/ Start
  \/ \E n \in Node : InterruptWorker(n) \/ TaskStep(n)
  \/ Finished

\* Workers run, and shutdownNow() comes to its end; clients may never call.
\* The evaluation of a leaf may take arbitrary time but heeds interrupts.
Fairness ==
  /\ WF_vars(Start)
  /\ \A n \in Node : WF_vars(InterruptWorker(n))
  /\ \A n \in Node \ Slow : WF_vars(TaskStep(n))
  /\ \A n \in Slow : WF_vars(EvalThrows(n))

Spec == Init /\ [][Next]_vars /\ Fairness

-----------------------------------------------------------------------------
(* Properties.                                                             *)

\* What a task takes from its channel is the value of the argument it is
\* from, or a failure: early answers, cancellations and interrupts never
\* make a task answer with something else.  Nor does a task answer twice: a
\* channel of capacity args.length is never full, and no offer() is lost.
ResultsRight ==
  \A n \in Node :
    /\ Len(box[n]) + Len(seen[n]) <= Len(Args[n])
    /\ \A k \in DOMAIN box[n] :
         LET m == box[n][k]
         IN  m.index # -1 => /\ m.index + 1 \in DOMAIN Args[n]
                             /\ m.value = value[Args[n][m.index + 1]]

\* A client is given the value the sequential solver computes, if it is
\* given a value: "the semantics follow standard boolean logic" (README).
AnswerRight ==
  \A r \in Root : answer[r].index = 0 => answer[r].value = value[r]

\* Cancelling what is no longer needed never costs a client its answer:
\* only stop() makes getValue() throw.
FailureOnlyWhenStopped ==
  accept => \A r \in Root : answer[r] # Failure

\* When a task has ended, however it ended, no argument of it is left to run
\* to the end: it is not in the queue, and if it runs it is interrupted.
NoOrphans ==
  accept => \A n \in Node : pc[n] = "over" =>
    \A m \in Children(n) :
      pc[m] # "queued" /\ (pc[m] \in Active => flag[m])

\* "After calling stop(), all ongoing computations must terminate" (README):
\* every task ends, whatever the shutdown and the interrupts overtake.
StopTerminates == ~accept ~> Quiet

\* Evaluation is lazy: a circuit whose value does not depend on the slow
\* leaves is answered, even if their evaluation never ends.
Determined(r) ==
  \A v \in Valuation :
    (\A n \in Node \ Slow : Type[n] = "LEAF" => v[n] = value[n])
      => v[r] = value[r]

LazyAnswer ==
  \A r \in Root : r \in asked /\ Determined(r) ~> answer[r] # NoAnswer

=============================================================================
