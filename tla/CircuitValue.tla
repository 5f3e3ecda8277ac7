---------------------------- MODULE CircuitValue ----------------------------
(***************************************************************************)
(* ParallelCircuitValue.getValue() (Year2/Concurrent Programming/Task1,    *)
(* solution/ParallelCircuitValue.java), called by each of several client   *)
(* threads on the value of one circuit.  The solver puts at most one       *)
(* message into its channel.                                               *)
(*                                                                         *)
(* Not every access to isDone and result is made with the semaphore held.  *)
(* Each one is a step of its own, in program order, that sees the latest   *)
(* write; the Java memory model allows more than that.                     *)
(*                                                                         *)
(* ValueInit, ValueNext and ValueSpec are named for the class because      *)
(* CircuitProofs extends this module and CircuitSolver.                    *)
(***************************************************************************)
EXTENDS Integers, FiniteSets

CONSTANT
  Caller     \* threads that call getValue()

ASSUME CallerAssumption == IsFiniteSet(Caller)

VARIABLES
  sent,          \* the message of the solver
  delivered,     \* whether the solver has offered it
  channel,       \* the channel, of capacity one
  result,        \* field result
  isDone,        \* field isDone
  permits,       \* permits of the semaphore mutex
  at,            \* where each caller is in getValue()
  interrupted,   \* interrupt flag of each caller
  out,           \* how getValue() ended
  disturbed      \* whether an interrupt has made acquire() or take() throw

solver == <<sent, delivered>>
valueVars == <<solver, channel, result, isDone, permits, at, interrupted,
               out, disturbed>>

Null == [set |-> FALSE, ok |-> FALSE, value |-> FALSE]
Invalid == [set |-> TRUE, ok |-> FALSE, value |-> FALSE]   \* (false, -1)
Good(v) == [set |-> TRUE, ok |-> TRUE, value |-> v]        \* (v, index >= 0)
Wrapper == {Null, Invalid, Good(TRUE), Good(FALSE)}

Out(v) == IF v THEN "true" ELSE "false"

ValueInit ==
  /\ sent \in Wrapper \ {Null}
  /\ delivered = FALSE
  /\ channel = Null
  /\ result = Null
  /\ isDone = FALSE
  /\ permits = 1
  /\ at = [t \in Caller |-> "test"]
  /\ interrupted = [t \in Caller |-> FALSE]
  /\ out = [t \in Caller |-> "none"]
  /\ disturbed = FALSE

GoTo(t, from, to) ==
  /\ at[t] = from
  /\ at' = [at EXCEPT ![t] = to]

\* The task of the root offers its answer.
Deliver ==
  /\ ~delivered
  /\ delivered' = TRUE
  /\ channel' = sent
  /\ UNCHANGED <<sent, result, isDone, permits, at, interrupted, out,
                 disturbed>>

\* Some thread interrupts a caller.
Interrupt(t) ==
  /\ out[t] = "none"
  /\ interrupted' = [interrupted EXCEPT ![t] = TRUE]
  /\ UNCHANGED <<solver, channel, result, isDone, permits, at, out, disturbed>>

-----------------------------------------------------------------------------
(* getValue().                                                             *)

\* The first test of isDone.
Test(t) ==
  /\ GoTo(t, "test", IF isDone THEN "index" ELSE "acquire")
  /\ UNCHANGED <<solver, channel, result, isDone, permits, interrupted, out,
                 disturbed>>

\* Mutant of Acquire: the semaphore has permits for everyone.
AcquireAnyway(t) ==
  /\ ~interrupted[t]
  /\ GoTo(t, "acquire", "check")
  /\ UNCHANGED <<solver, channel, result, isDone, permits, interrupted, out,
                 disturbed>>

\* mutex.acquire() returns.
Acquire(t) ==
  /\ ~interrupted[t] /\ permits > 0
  /\ GoTo(t, "acquire", "check")
  /\ permits' = permits - 1
  /\ UNCHANGED <<solver, channel, result, isDone, interrupted, out, disturbed>>

\* Mutant of Check: no second test of isDone.
CheckNothing(t) ==
  /\ GoTo(t, "check", "take")
  /\ UNCHANGED <<solver, channel, result, isDone, permits, interrupted, out,
                 disturbed>>

\* The second test of isDone.
Check(t) ==
  /\ GoTo(t, "check", IF isDone THEN "release" ELSE "take")
  /\ UNCHANGED <<solver, channel, result, isDone, permits, interrupted, out,
                 disturbed>>

\* Mutant of TakeResult: isDone is set first.
TakeResultDone(t) ==
  /\ ~interrupted[t] /\ channel # Null
  /\ GoTo(t, "take", "done")
  /\ isDone' = TRUE
  /\ UNCHANGED <<solver, channel, result, permits, interrupted, out,
                 disturbed>>

\* channel.take() returns.
TakeResult(t) ==
  /\ ~interrupted[t] /\ channel # Null
  /\ GoTo(t, "take", "done")
  /\ result' = channel
  /\ channel' = Null
  /\ UNCHANGED <<solver, isDone, permits, interrupted, out, disturbed>>

SetDone(t) ==
  /\ GoTo(t, "done", "release")
  /\ isDone' = TRUE
  /\ UNCHANGED <<solver, channel, result, permits, interrupted, out,
                 disturbed>>

\* acquire() or take() throws: the catch block sets isDone ...
Throw(t) ==
  /\ interrupted[t]
  /\ GoTo(t, "acquire", "catch") \/ GoTo(t, "take", "catch")
  /\ interrupted' = [interrupted EXCEPT ![t] = FALSE]
  /\ disturbed' = TRUE
  /\ UNCHANGED <<solver, channel, result, isDone, permits, out>>

CatchDone(t) ==
  /\ GoTo(t, "catch", "fail")
  /\ isDone' = TRUE
  /\ UNCHANGED <<solver, channel, result, permits, interrupted, out,
                 disturbed>>

\* ... then result, for every caller.
CatchResult(t) ==
  /\ GoTo(t, "fail", "throw")
  /\ result' = Invalid
  /\ UNCHANGED <<solver, channel, isDone, permits, interrupted, out,
                 disturbed>>

\* Mutant of Release: the finally block releases only after an exception.
ReleaseNothing(t) ==
  \/ /\ GoTo(t, "release", "index")
     /\ UNCHANGED <<solver, channel, result, isDone, permits, interrupted, out,
                    disturbed>>
  \/ /\ GoTo(t, "throw", "end")
     /\ permits' = permits + 1
     /\ out' = [out EXCEPT ![t] = "thrown"]
     /\ UNCHANGED <<solver, channel, result, isDone, interrupted, disturbed>>

\* The finally block releases the semaphore, acquired or not.
Release(t) ==
  /\ \/ GoTo(t, "release", "index") /\ UNCHANGED out
     \/ GoTo(t, "throw", "end") /\ out' = [out EXCEPT ![t] = "thrown"]
  /\ permits' = permits + 1
  /\ UNCHANGED <<solver, channel, result, isDone, interrupted, disturbed>>

\* result.index() is read, of a null reference perhaps.
ReadIndex(t) ==
  /\ \/ result.ok /\ GoTo(t, "index", "value") /\ UNCHANGED out
     \/ /\ ~result.ok /\ GoTo(t, "index", "end")
        /\ out' = [out EXCEPT ![t] = IF result.set THEN "thrown" ELSE "null"]
  /\ UNCHANGED <<solver, channel, result, isDone, permits, interrupted,
                 disturbed>>

\* result.value() is read, from the field as it is by now.
ReadValue(t) ==
  /\ GoTo(t, "value", "end")
  /\ out' = [out EXCEPT ![t] = Out(result.value)]
  /\ UNCHANGED <<solver, channel, result, isDone, permits, interrupted,
                 disturbed>>

getValue(t) ==
  \/ Test(t) \/ Acquire(t) \/ Check(t) \/ TakeResult(t) \/ SetDone(t)
  \/ Throw(t) \/ CatchDone(t) \/ CatchResult(t) \/ Release(t)
  \/ ReadIndex(t) \/ ReadValue(t)

AllReturned == (\A t \in Caller : at[t] = "end") /\ UNCHANGED valueVars

ValueNext ==
  \/ Deliver
  \/ \E t \in Caller : Interrupt(t) \/ getValue(t)
  \/ AllReturned

\* The callers run.  A semaphore with waiting callers hands its permit to
\* one of them, and each caller acquires it once.
ValueSpec ==
  /\ ValueInit /\ [][ValueNext]_valueVars
  /\ \A t \in Caller : WF_valueVars(getValue(t))

-----------------------------------------------------------------------------
(* Properties.                                                             *)

Inside == {t \in Caller : at[t] \in {"check", "take", "done", "release"}}

\* "Return the computed value" (the comment of the last line): what
\* getValue() returns is the value the solver sent.
ReturnsTheAnswer ==
  \A t \in Caller : out[t] \in {"true", "false"} =>
    sent.ok /\ out[t] = Out(sent.value)

\* As long as no caller is interrupted in acquire() or take() that is so, and
\* a caller that skips the semaphore because isDone is set finds a result:
\* result is written before isDone, and nobody writes it again.
UndisturbedAnswer ==
  ~disturbed => ReturnsTheAnswer /\ (isDone => result.set)

\* "Semaphore to ensure only one thread can wait for computations": until an
\* interrupt at most one caller is between acquire() and release().
OneHandler == ~disturbed => \A t, u \in Inside : t = u

\* Whatever the interrupts did to the semaphore, two callers never wait on
\* the channel, which holds one message: the second would wait for ever.
NoDoubleTake ==
  \A t, u \in Caller : at[t] = "take" /\ at[u] = "take" => t = u

\* Once the solver has answered every call of getValue() ends.
EveryCallerReturns == delivered ~> \A t \in Caller : out[t] # "none"

=============================================================================
