# Verification of UW-Projects

TLA+ models, TLC runs and TLAPS proofs for the programs of this repository. The
repository is a collection of independent coursework programs, so there is no
single system to compose: each program is modelled on its own, and modules are
composed where a program's parts interact. The programs with the hardest
behaviour come first: a peer-to-peer clock protocol over UDP, a parallel search
on a lock-free stack, a parallel evaluator of Boolean circuits, and a game over
TCP between a server and its players. Sequential programs with state worth
losing follow: a gate library, linked lists without a direction, containers that
share their contents, a tournament.

Every file is in this directory. A module `X.tla` models code, `XProofs.tla`
holds theorems about it, `MCX.tla` and the `.cfg` files hold the instances TLC
checks, and `PROJECT.json` lists components, runs, mutants, theorems, hazards,
findings, and the source lines behind each definition.

## 1. Inventory

### Programs modelled here

**peer-time-sync** (`Year2/Computer Networks/Task1/peer time sync`). Equal
single-threaded processes ("nodes") exchange UDP datagrams. A node alternates
between the head of its main loop, where it sends SYNC_START every
`SYNC_SENDING_INTERVAL_MS` and lets two timers expire, and a `recvfrom` with a
timeout followed by one handler. Its state is `struct NodeContext`: the known
peers, its level (`synchronized`, 0 leader ... 255 unsynchronised), the node it
follows, its offset, and the fields of a syncing process in progress. Nodes
interact through messages only; an operator sends LEADER. Hard: loss, delay,
duplication and reordering of datagrams, timers that race late answers, five
places that reset different subsets of the fields. Correct when level, source
and offset agree with each other, when a syncing process only ever improves the
level, and when the offset is an estimate of the source's clock as of the
round the answer belongs to. *Parts:* joining (HELLO, HELLO_REPLY, CONNECT,
ACK_CONNECT), synchronisation, leadership, time queries. Joining has its own
state (`peers`, `pending_peers`) and its own hazards: HELLO is sent once, a node
may be restarted, and lists of peers are not read the way they are written.

**hypothesis verification** (`Year2/Concurrent Programming/Task2`). Three
programs that search for the greatest pair of "uncontestable" multisets. The
reference recurses; `nonrecursive` keeps an explicit stack of frames in a fixed
array; `parallel` lets threads split the recursion and hand each other calls over
a lock-free stack whose nodes come from `malloc`. Hard: the ABA problem,
termination detection from two separate reads, a frame that is offered and taken
back, the order of the explicit stack. Correct when the parallel program makes every
call exactly once, ends, and prints the best solution, and when the
nonrecursive program finds the reference's solution within its array.

**circuits** (`Year2/Concurrent Programming/Task1/circuits`). A solver runs one
task per node of a Boolean circuit on a fixed thread pool; a task waits on a
channel for its arguments, answers its parent as early as possible and cancels
the rest. `stop()` shuts the pool down. A client calls `getValue()`, maybe from
several threads. Hard: results in any order, cancellation racing submission,
interrupts at every blocking call, a bounded pool whose workers block, shared
fields read outside a semaphore. Correct when an answer equals the
sequential one, when early answers come and cancelled work ends, and when no
caller waits for ever.

**great approximator** (`Year2/Computer Networks/Task2`). A server hands each
player a polynomial; players change an approximation, point by point, with PUT
lines until M valid ones have been counted, and then all get SCORING. Server and
client are single-threaded `poll` loops over byte buffers. The server keeps a slot
per descriptor, a map of `Client` records, `received_puts`, and answers that wait
for their time; a client keeps two buffers, whether it may PUT, and lines typed too
early. Hard: answers that are late on purpose, PUTs that come before an answer,
clients that leave within a turn, descriptors that are reused, the end of a game
with answers under way, connections reset by a late line. Correct when PUTs are
counted once, a player that waits is never penalised and always answered, and the
game ends when it should.

**NAND gates** (`Year1/Computer Architecture and Operating Systems/Task1`). Gates
keep their input signals and, in the other direction, the gates they feed;
evaluation is a depth-first search that marks gates and is cancelled by a cycle or a
missing input. Hard: a gate connected to itself or twice to another, removal from
a vector while it is walked, marks left by a cancelled search.

**office queues** (`Year1/Introduction to Programming/Task4`). Linked lists whose
nodes do not know which neighbour comes next, so that reversing and appending
take constant time. Hard: every operation must replace the right one of two
pointers.

**binder** (`Year2/C++ Programming Course/Task5`). Notes under keys,
copy-on-write. Hard: when to copy, exceptions in the middle of an insertion,
references that outlive a copy.

**knight tournament** (`Year2/C++ Programming Course/Task3`). Knights fight in a
queue and plunder each other; gold saturates. Hard: an order that is not total,
who gives and who gets.

### Programs inventoried, not modelled

| program | state and operations | what is hard | what would make it correct |
|---|---|---|---|
| long division, CRC (`Computer Architecture/Task2-3`) | assembly over words and bytes | sign, overflow, `INT64_MIN` | quotient and remainder; the table equals bitwise division |
| previous in range, search with lies, three motels, arithmetic, origami (`Introduction to Programming/Task1-3, 5, 6`) | pure algorithms | boundaries | equality with a brute-force definition |
| trams (`Object-Oriented Programming/Task1`) | event queue (heap), trams, stops, passengers | capacity, order of events of one minute | passengers are conserved, capacities hold |
| stock market (`Object-Oriented Programming/Task2`) | order books, matching, order types, portfolios | expiry and cancellation of orders, funds at transaction time | money and shares are conserved; matching respects price and time |
| rest of the C++ course (medals, strqueue, poly, counters, funclist) | containers and small engines | saturation, event order | each equals its abstract data type |
| algorithms (ten small tasks, two big ones) | batch programs | off-by-one | equality with brute force |
| route editor (Django and TypeScript) | routes with ordered points, server-sent events, boards with paths | concurrent requests, lost events | the order of the points stays a permutation; each event is delivered |
| machine learning notebooks, static page | no state | none | none |

## 2. Modules

### peer-time-sync

* `PeerSync.tla`: every node, the network and the operator. The fields keep
  their names in `struct NodeContext`. `LoopHead(n)` is the head of the loop in
  its three parts (`SendSyncStart`, `LoseSync`, `TerminateSyncing`); a handler is
  one action per way it can end: `Desynchronize` and `StartSyncing`
  (`sync_start_handler`), `AnswerDelayRequest`, `DropLateResponse` and
  `Synchronize` (`delay_response_handler`), `BecomeLeader` and `StopLeading`
  (`leader_handler`); `RecvNothing` is a receive timeout or a message whose
  handler returns early or changes nothing; `LearnPeer` is what the join
  messages do to `peers`. Time is a global counter, and natural clocks differ
  by a constant because they all follow `steady_clock`.
* `PeerJoin.tla`: the same nodes while they get to know each other. One operator
  per handler, under its name in the code; `Start` sends the HELLO, `Crash` loses
  `peers` and `pending`. `net` keeps every datagram ever sent, and `Receive` may
  deliver each of them never, late, or again. `entry` is the size in bytes of an
  entry in the lists a node sends: 8 for a node of this program, always; 7, the size
  its reader expects, for a node that runs another program, so that the reader's
  code for lists with entries is exercised as well. `PeerSync` has of all this the one step `LearnPeer`.
* `SyncLevels.tla`: the abstract specification of levels and sources. `PeerSync`
  implements it (`ImplementsSyncLevels`, refinement mapping
  `hops <- synchronized`, `source <- sync_from`).
* `PeerSyncProofs.tla` and `PeerJoinProofs.tla`: the theorems.

### hypothesis verification

* `ParallelSearch.tla`: the threads of `parallel/main.c` on an abstract tree of
  calls. One action per shared access: `Pop`, `PopNothing`, `Claim`, `MakeFrame`,
  `Push`, `TakeBack`, `Release`, `TestEmpty`, `TestCount`, `Announce`. The stack is
  an atomic set here; that this is sound is what `TaggedStack` shows.
* `TaggedStack.tla`: `push` and `pop` themselves, one action per atomic
  operation, with addresses that `malloc` may hand out again and reads of freed
  nodes. `LifoStack.tla` is the stack they implement (`ImplementsLifo`).
* `ParallelSearchProofs.tla` and `TaggedStackProofs.tla`: the theorems.
* `Sumsets.tla`: multisets, sumsets and solutions as data; `NonrecursiveSearch.tla`:
  the loop of `nonrecursive/main.c`, one action per turn; `ReferenceSearch.tla`: the
  recursive reference (`Solve`, a RECURSIVE operator, in a module of its own
  because a module with theorems must not reach it).

### circuits

* `CircuitSolver.tla`: clients, the pool with its queue and its interrupts, and
  one task per node. `Verdict` says for each node type what a task does with the
  results taken so far, with one operator per method `solveNOT` ... `solveIF`;
  `Meaning` is the sequential solver of the demo. Actions: `Solve`, `Stop`,
  `InterruptWorker`, `Start`, `LeafReturns`, `EvalThrows`, `GetArgs`, `Submit`,
  `Reject`, `Take`, `TakeThrows`. Cancelling and offering at the end of a task
  are one step: the cancellations reach only tasks whose results nobody takes.
* `CircuitValue.tla`: `getValue()`, one action per access to a field, the
  semaphore or the channel, for several callers that may be interrupted.
* `CircuitProofs.tla`: the theorems about both.

### great approximator

* `ApproxProtocol.tla`: lines as records, what the patterns of `protocol.cpp`
  accept of them, and connections with two ends, lines under way and resets.
* `ApproxServer.tla`: the loop of the server. `Poll` accepts at most one player;
  then each slot is `HangUp`, `receive_messages` or `ReceiveFails`, or any number
  of turns of `parse_loop` (`handle_hello`, `handle_put`) followed by
  `DropSilent`, `KeepWaiting`, `KeepMadeUp`, `send_messages` or `SendFails`;
  `end_game` closes a game. `Exit` ends the process, on a signal or an exception that
  nobody catches. Time passes by `Tick`, and answers are due relative to the present.
* `ApproxClient.tla`: a turn of `run_client` as one step (`Turn`), `HungUp`, `Quit`,
  and `Say` for a program that is not this client and sends what it pleases.
* `ApproxGame.tla` composes them with `Reset`, states fairness and the properties.
  `ApproxGameProofs.tla`: its theorems.

### sequential programs and libraries

* `Nand.tla`: `nand_new`, `nand_delete`, `nand_connect_nand`,
  `nand_connect_signal`, and `nand_evaluate` as the search that it is, with its
  marks.
* `OfficeQueues.tla`: nodes, their two links and the ends of each window's list,
  with every operation of `kol.h`; `Queues.tla` is the abstract specification, a
  sequence per window, and `OfficeQueues` implements it (`ImplementsQueues`, whose
  refinement mapping reads each list from its head).
* `Binder.tla`: binders, the cells they share and the last reference read.
* `Knights.tla`: a tournament between calls of `play`, and `play` itself.
* `Programs.tla` puts these four and `NonrecursiveSearch` side by side: each
  behaviour takes the steps of one of them while the others rest, so that one run
  checks them all. `MCPrograms.tla` gives it the instance of that run and the
  comparison with `ReferenceSearch`; `ProgramsProofs.tla` holds the theorems, in
  which `Search!`, `Gates!`, `Binders!`, `Tournament!` and `Office!` name the
  definitions of the programs, and `ProgramResultsProofs.tla` those about what
  `nand_evaluate` and the search give.

## 3. Runs

A run is one instance of one module; `tlc -config <run>.cfg <module>` repeats it,
with the module `PROJECT.json` names for it. Deadlock checking is off where the
system may stop or the bounds end it: the `PeerSync` runs, which end at `MaxNow`;
`PeerJoin`, whose nodes may all be gone; the `Approx` runs, whose server and
players may have left; `CircuitSolverNot`.

| run | instance and bounds | what it shows |
|---|---|---|
| `PeerSyncPair` | two nodes that know each other, clocks 2 apart, LEADER at ticks 0 and 4, messages in flight for up to 1 tick, failing `sendto`, nodes descheduled before `recvfrom`, 8 ticks | fields of a node agree with each other whatever is lost, late or repeated; offsets are estimates of the source's clock |
| `PeerSyncLine` | three nodes a - b - c, one leader, immediate delivery or loss, 7 ticks | two hops; a node that changes its source moves closer to the leader; refinement of `SyncLevels` |
| `PeerJoin` | three nodes, each with any contact or none, two lives per node, failing `sendto`; or four nodes with one life; each node of this program (8 bytes per entry) or of one the reader understands (7); datagrams lost, late and repeated without bound | who does not know whom, and why; who knows whom in the end, exactly; no list names its reader |
| `ParallelSearch` | three threads, a tree of six calls of depth three | each call made once, nothing lost at termination, the best solution, termination under weak fairness |
| `TaggedStack` | three threads, three pushes, three addresses, seven tags | the lock-free stack implements the atomic one; no node is lost, shared or freed twice |
| `CircuitSolver` | IF(AND(4, 5), NOT(6), 7) with every value of the leaves, leaf 4 may never end, five workers | answers, laziness, cancellation, no answer dropped by a full channel |
| `CircuitSolverStop` | GT1(LT1(4), OR(5, 6)) and the leaf 7 on three workers, `stop()` at any time | what is answered is right under a shutdown and on a pool that is too small; every task ends |
| `CircuitSolverNot` | AND(NOT(3), 4) with `stop()` | *violated*: NOT turns a failure into an answer |
| `CircuitValue` | three callers, interrupts at any time | one handler, right answers until an interrupt, and no caller left waiting with interrupts |
| `ApproxGame` | an automatic player that stays, and one that types or is another program and may leave at any time; two points, games of two PUTs, two polynomials, one of which cannot be reached within the bounds of a PUT | PUTs counted once, no penalty for who waits, an exact approximation, every PUT answered, nothing owed at the end |
| `ApproxScoring` | the same | *violated*: players refuse the SCORING line of a game of two |
| `Programs` | multisets over 1..4 with inputs of at most two elements; three gates; two windows and four customers; two binders, keys and values; up to four knights of five kinds | the explicit stack finds what the recursion finds, in bounds; links and evaluations of gates; office queues are queues; binders do not see each other's changes; a tournament conserves gold, weapons and knights |

**Why the bounds are enough.** In `PeerSyncPair` all timers fire: a round of
SYNC_START goes out whenever more than 2 ticks have passed, a syncing process
expires after 1, a synchronisation after 3, and the second LEADER, at tick 4,
reaches a node that leads, follows, or is in the middle of a syncing process.
A DELAY_RESPONSE may arrive before, at and after the timeout, and, because nodes
stall, after the timers of its receiver should have run; with one tick of delay a
message is received after a later one. A source of level 2 needs a third node,
hence `PeerSyncLine`, in which c meets a by `LearnPeer` and changes its source.
`PeerJoin` needs three nodes for a list with an entry; with two lives a node meets
the datagrams of its earlier one. A list of two, which the reader gives up, takes
a fourth node, and so do two nodes that wait on each other for ever (four nodes
whose contacts form a ring). With a fourth node `Bound` in `MCPeerJoin` leaves out
restarts and failed sends; loss remains, because nothing has to be delivered. The
nodes but the fourth are symmetric: contacts and sizes range over all functions.
Six calls give `ParallelSearch` a task pushed while another is pending at two
depths, and three threads the race that matters: one thread sees the stack
empty, a second pops, a third reads the counter. Three addresses and three pushes
let an address be freed and handed out again while a third thread still holds
it. The circuits cover all node types, a grandchild, a threshold decided early on
each side, and a pool smaller than the number of tasks that wait. Three callers
give a reader, a waiter and an interrupted caller. Two players make the server
reuse a descriptor and serve two slots that hold the same one; an answer takes a
second, or none, so that it comes before, with and after the last PUT of a game;
with a PUT outside -5..5 and one beyond the points, every kind of refusal occurs.
With d = 4 every branch of the search occurs (stacks of several frames, swaps of
the two sides and backtracking over more than one frame included). Three gates
have cycles of each length, double edges and chains; four customers in two
queues allow appending a reversed queue to another and fast tracks out of its
middle.

**Mutants.** Every property of a passing run has a mutant in `PROJECT.json`: an
operator in the module that changes one definition the way a plausible
error would (`ResetSyncKeepsOffset`, `PopCasUntagged`, `ClaimUncounted`, ...), and
with which TLC finds the property violated.

**Scaled-down constants.** Timeouts are ticks with the order of the real ones
where it matters (`SYNC_TIMEOUT_MS` < `SYNC_LOSS_TIMEOUT_MS`); the pool has three
to five workers instead of `64 * nThreads`; the tag has seven values instead
of 2^32 and `TagAssumption` says why that is sound: it does not come round within a
pop; `MAX_D` is 3 or 5.

## 4. Fairness

* `PeerSync` has none. The network may lose everything, so nothing must happen;
  its properties are safety properties, the refinement of `SyncLevels` included.
* `ParallelSearch`: weak fairness of each thread and of `main`. Threads are
  preemptive and none of their steps blocks; `main` blocks in `thrd_join`,
  which returns once the thread has ended. A thread that retries a failed
  compare-and-swap is inside `TaggedStack`, where nothing is said about progress.
* `CircuitSolver`: a worker takes a queued task, a task runs, `shutdownNow()`
  comes to its end. The evaluation of a leaf in `Slow` is only fair once it is
  interrupted. Clients may never call `solve()` or `stop()`.
* `CircuitValue`: each caller runs. Weak fairness suffices for `acquire()`,
  because every caller acquires at most once and permits stay until taken.
* `ApproxGame`: the server's loop, time, and the turns of the steady automatic
  player. `poll` waits at most until the next answer is due, so the loop always
  goes on. Nothing is assumed of the other player, of `Stop`, or of a reset,
  which may get lost with the machine that sends it.
* `PeerJoin` and `Programs` have none: their properties are safety properties.

## 5. Proofs

`tlapm` checks the eight proof modules to the last leaf, with no constant fixed. The
assumptions are the named ASSUMEs of the modules. They type the constants and make
the sets of nodes, threads, players and addresses finite; beyond that, the calls of
`ParallelSearch` form a tree, the circuits of `CircuitSolver` have nodes of the
arity their class demands and no sharing, the tags of `TaggedStack` do not come round
within a run, and the PUTs a person types in `ApproxGame` are PUTs. The
theorem about binders assumes a finite set of binders, as every program has, and those
about gates finitely many addresses.

**PeerSyncProofs.** `TypeCorrect` is inductive by itself, with one lemma for the
loop head and one for the handlers. It contains that levels stay in 0..255. The other
invariants are not inductive one by one: `Synchronize` sets the level to the one
offered plus one, and that this is a level below 255 follows from what was
checked when the syncing process started, one or more messages earlier. So

    IInv == TypeOK /\ LevelMatchesSource /\ AttemptStaysWorthwhile
            /\ LeaderServesOwnClock /\ NeverFromItself

is proved inductive (`IInvStep`). The proof works node by node: `GoodAt(n)` is
what IInv says about n, `OtherNodes` that a node that does not move keeps it, and
then each handler is looked at for its own node only. `LevelCorrect`,
`AttemptCorrect` and `LeaderCorrect` follow. `LevelSteps` classifies every step
as a stutter, `Lead`, `Orphan` or `Follow`, which gives `Refinement`
(`Spec => Levels!Spec`), and `Switching` follows from that alone.

`OffsetCorrect` has an invariant of its own, `TimeInv`. The code cannot tell whose
DELAY_REQUEST a DELAY_RESPONSE answers, so the four timestamps of an offset may be
of two syncing processes. `Dated` says that a message carries the natural clock of its
sender and is at most `MaxDelay` old, `MeasuredAt(n)` that T1 was taken at most
`MaxDelay` before the process of n began, that T2 and T3 are the moment it began,
and that whatever may still answer it was asked for by then, hence sent at most
`MaxDelay` later. T4 is therefore at most `MaxDelay` off as well, and half the
sum of the two errors is what `HalfNear` bounds, whether the division rounds to
zero or down.

**ParallelSearchProofs.** `NoTaskTwice` and `SearchComplete` need each other's
missing half: a call that has not been made is pending or below one that is
(`NothingLost`), a call that is pending has not been made nor has anything below
it (`NothingEarly`); together with `HandsMatchPc` (who holds what at which
point of the program), `TaskHasTaker`, `BestCovers` and `ResultCovers` they are
inductive. `Complete` then needs an induction over the tree of calls, which
`TreeAssumption` makes available as a closure property: the set of calls made
contains the root and is closed under children, therefore it is everything.
`Best` adds that the best solutions of the threads cover the calls made.
That the termination test is not atomic costs nothing: a thread that sets
`all_done` too early leaves a thread that holds, or will pop, the task.
`Counted` says of the counter that test reads that it is the number of threads
that have not claimed a task (`WaitingCounted`); it rests on the finiteness
of the set of threads, and no run checks it.

**PeerJoinProofs.** `AsymmetryExplained` compares what two nodes know and have
pending, but the steps that change this are receipts of datagrams sent many
steps before. `Told` and `Started` therefore tie each datagram to its sender: who
sent a CONNECT still waits for the answer or knows the other by now, who answered
knows whom it answered, a HELLO goes to the contact. A node forgets an address it
waits for only when it learns it, or when a list names its reader or its sender;
`ListsAreNews` says that no list does. With these the invariant is inductive, one
lemma per handler; `Asymmetry` and `News` follow. The theorems hold for any finite
set of nodes, hence also for restarts among more than three.

**TaggedStackProofs.** The invariant describes the memory: `List` is a chain of
nodes without a cycle that ends with NULL (`Chain`), every address is free, in
the list, or held by exactly one thread (`NodesAccountedFor`), and the tag counts
the compare-and-swaps that succeeded (`TagCounts`), which bounds it. What makes `pop`
right is one conjunct of `HoldsRight`: a thread at its compare-and-swap whose copy
of the head is not out of date has read the next node of the present list, however
often the node was freed and used again since. `Linearizable` maps each successful
compare-and-swap to the operation of `LifoStack` and every other step to a stutter;
`TagOnlyGrows` is the fact that forbids ABA. Where a proof about lists needs
induction it takes the least index at which the claim fails (`LeastNat`).

**CircuitProofs: the solver.** `Sent` says that a node was sent at most one result of each
argument that has ended and, unless a NOT node can negate a failure, the
right one (`Faithful` is exactly the condition that the run `CircuitSolverNot`
shows to be needed); `NoOrphans`, that the arguments of a task that has ended are not
queued and are interrupted; `Undisturbed`, that before `stop()` nobody whose
result is wanted has been interrupted. A task submits its
arguments in order and each once (`ArgsInOrder`), which ties them together. The lemmas
about `Verdict` show, type by type, that a decision from some of the results is the
decision from all of them, by counting. `NoOfferLost` is not a property of a run by
itself: the mailbox of a node never holds more than it has arguments.

**CircuitProofs: the value of a circuit.** While nothing was interrupted and the result
is not there, the permit of the semaphore and the callers inside exclude each other
(`HandlerAlone`, `PermitOnce`), which is `OneCallerInside`. After an interrupt `finally`
releases a permit nobody holds, and that is over; still, only one caller can ever
wait on the channel, because the one that interrupts itself out of `acquire()` has
set `isDone` before it releases (`TakerAlone`, giving `OneCallerTakes`).
`ResultKept` says that until an interrupt a result once there is the solver's, which
gives `CallersGetTheAnswer`.

**ApproxGameProofs.** First the server. `ServerInv` says what the entries of `fds`,
the map and the sockets have to do with each other, descriptor -1 and descriptors
that were closed and used again included (`Sockets`, `Slots`), what is left to write at
which point of the loop (`Written`), and that the PUTs are counted (`PutsCounted`,
with lemmas on sums over the clients of a map, by least sets instead of
induction). `PutsAlwaysCounted` and `GameEndsPaid` follow. Then the players.
`AutomaticNeverPenalised` is far from inductive, since a PENALTY is the end of a
long exchange: player, connection, record and back. `PlayersInv` says that each
automatic player has *one turn* (`Turns`): a line under way to the server, an answer
that waits for its time, is under way, or is unread, or the right to put; and
never two of these. So there is at most one PUT to handle, and with nothing else
waiting `handle_put` never finds it early. The rest of `Courteous` says which
PUT it is (`Said`), that the COEFF the player has, or will read, is that of its
record (`Told`), and that the state of the record is the sum of the PUTs handled
(`StateExact`), which holds for the players of any number of slots, resets,
disconnections and endings of games. One lemma per action of the server and of the
players gives `PlayersInvariant`, and with it `AutomaticsWait` and
`AutomaticStatesExact`.

**ProgramsProofs: the stack of the search.** A frame is a pair of sumsets, and a child
adds an element of 1..d to the one of smaller sum. Call P the side that starts with
the smaller sum and Q the other. `History` follows the two sides through the frames on
the stack: each grows, and what was added in between is among its sums (`Grown`);
until P has caught up with Q, only P grows (`Early`), and from then on their sums stay
within d of each other (`Near`). All frames but the last have only 0 in common
(`Tested`). Two frames whose sums differ by the same amount would have added the same
amount to both sides, and that would be a second common sum of the later frame
(`StandingDiffers`); so after catching up there are at most 2d frames. Before that,
Q is the input, and its sums leave no gap of d: a greedy choice of copies gives a ladder
of sums with rungs less than d apart, any difference of which is a sum again
(`InputLaddered`, over the elements by least sets and over the folds by which
`SubsetSums` and `Weight` are defined). Two frames at the same distance above their
rungs would share a sum again; so there are at most d. `StackBounded` counts with the
pigeonhole principle: never more than 3d + 1 frames, whatever the input, of which the
array of MAX_D * MAX_D + 1 frames holds more than enough (`StackAlwaysFits`).

**ProgramsProofs: binders.** A binder that shares its cell has a use count of at least two
(`SharersAreCounted`, by cardinality), so whoever stores into a cell somebody else
holds has copied it before (`StoreKeeps`), and one of the `Cardinality(Binder) + 1`
cells is always free for the copy (`FreshCell`). `NoCallSeenElsewhere` then goes through
the operations, exceptions in the middle included, and gives the `BindersApart` that
the run `Programs` checks for two binders.

**ProgramsProofs: gates.** The invariant `NandInv` says of every pair of gates that one
is in the vector of outputs of the other as often as the other is among its inputs. An
operation that reconnects one input changes both counts alike (`Reconnected`), because
`vvector_remove_elem`, which moves the last element, takes out exactly one occurrence
(`Removed`), and the search before it finds one (`Found`). In between the operations
it does not hold: the loops of `nand_delete` are folds, and each has an invariant of its
own that counts the inputs, or outputs, it has not come to (`InputsGone`, `OutputsGone`,
over the recursions in `InputLoopIs` and `OutputLoopIs`; lemmas about folds are shared
with the search). After both nothing points to the gate that is freed (`DeleteKeeps`).
`ConnectionsAgree` concludes `LinksAgree` for any gates and any numbers of inputs
(`ArityAssumption`: the parameter of `nand_new` is unsigned).

**ProgramResultsProofs: gates.** What a gate means is defined by levels: nothing at level 0, and
above that from what its inputs mean one level below (`Means`, `Meant`). A level
that adds no gate is the last one that changes anything, so after as many levels as
there are gates `Meaning` is a fixed point of `Means` (`Stable`), and a set of gates of
which each waits for another of the set has no meaning (`WaitingUndefined`). The search
is followed through the loop over the inputs of a gate (`Round`) and through the depth
of its calls (`Searched`). Evaluated gates always have the value and the path they
mean. A gate visited and not evaluated is *gray*: as long as the search goes on the gray
gates are those on its path, and when it is cancelled every gray gate has a missing
input or waits for a gray gate, so none of them means anything (`Failed`, `Outcome`);
hence -1 is returned exactly when it must be. Each level of calls visits another gate,
which is why as many levels as gates are enough. Then the marks: every gate the search
has visited can be reached from the gates asked for through visited gates
(`SearchRooted`), and a gate that `clean` has unmarked has no input from a gate still
marked (`Swept`, `CleanSweeps`), so a gate that stayed marked in the end would be out of
reach of the gates asked for. `EvaluationsRight` concludes `EvaluationRight`, for any
number of gates, of inputs, and of gates asked for in one call. The loops are folds and
the recursions functions of a depth, whose existence is
proved (`Unrolled`, `LevelsExist`).

**ProgramResultsProofs: what the search finds.** `FindsGreatest` says what is recorded
at the end by exhaustion: the greatest of the uncontestable supersets of the input
that are not completed by a single element. The proof first gets the arithmetic of
multisets: `Weight` is a sum over the elements (`Total`), the folds of `SubsetSums`
give exactly the weights of the included multisets, and no uncontestable pair of
multisets of 1..d weighs more than d * (d - 1) (`PairBounded`: put their elements down one
by one so that the two sums stay within d of each other; two equal differences on the
way give a common sum, so there are at most 2d elements, which `ChainShort` counts by
the pigeonhole principle). So the bound of the definition leaves out no pair.

Then the search. `FoundInv` has three parts beside the `SearchInv` of the stack. In each
frame a side carries the weight and the sums of what was read and what was added, an
element that is all that was added was no sum of the other side (`Lone`), and a side
that is still empty has met one element at most (`Still`; both are in `Sided` and
`Kept`). What is recorded is sound (`SoundFor`). And the search is complete
(`CompleteFor`): any wanted pair that weighs more than what is recorded is *ahead* of
some frame, that is, it includes both sides, and what a side still lacks is not
below the element where its loop goes on (`Ahead`). In such a frame with nothing but 0
in common, the loop comes to the least element that the smaller side lacks and does not
skip it: as a sum of the greater side it would be a common sum of the pair
(`Onward`), unless that one element completes the pair, which is what `CompletedByOne`
takes out. If the loop adds that very element, the pair is ahead of the new frame, and if
an earlier one, still ahead of the old frame (`ChildAhead`, `LaterAhead`). A leaf that
a wanted pair is ahead of is that pair (`LeafFrame`), and what is recorded there is
read back rightly (`SolutionPair`). At the end no frame is left, so nothing wanted is
heavier than what is recorded (`FoundGreatest`). One kind of pair is ahead of no
frame, the same single element on both sides of an empty input (`Twice`); it is never
the greatest, since d copies of d - 1 and d - 1 copies of d weigh more (`WidePair`).
`GreatestSum` states the result on the sum for every d; `GreatestFound` concludes all
of `FindsGreatest` if d < MAX_D (section 6 says why).

**ProgramsProofs: knights.** `Fought` relates the lists in the middle of a tournament to
those it began with: as many knights, the same gold, or less and somebody with a full
purse, and the same best weapon and armour. `PlunderIs` says what changes hands in
one fight, `WonKeeps` that a fight keeps `Fought`: whoever has a full purse is, or
meets, the winner, whose purse is then full. `Gold` is a sum over a list, so a few lemmas
say what it is of two lists put together (`GoldConcat`). Every round leaves
fewer pretenders, so that a tournament of n knights is over after n rounds
(`FightsKeep`; `Recursion` shows that the rounds exist). `NothingIsLost` states
`NothingFromNothing` for any knights whose numbers are unsigned and whose gold is at
most MAX_GOLD (`KnightAssumption`).

**ProgramsProofs: office queues.** A customer has two neighbours and does not know which
is the next one, so the links alone do not say what a queue is. The invariant (`Stored`,
`Threaded`) is that for every window there is a sequence of nodes, from its head to its
tail with customers in between, whose neighbours link each other one way or the other
(`Thread`), and that the threads of two windows have no node in common. Each primitive
first gets a lemma on the memory (`LinkIs`, `RemoveIs`, `PushIs`, `JoinIs`) and
then one on threads (`RemoveKeeps`, `PushKeeps`, `JoinKeeps`; a thread backwards is
a thread, `BackKeeps`). The walks are recursions over a number, whose existence is
proved (`WalkExists`, `BothExist`). A walk from the head gives the
customers of the thread in order (`WalkThread`); of the two walks of `fast_track` the
one that leaves towards the other customer finds him, and the one that leaves the wrong
way ends at the end of the queue without meeting him (`BothThread`, by the walk
forwards and the walk on the thread backwards in lockstep). The loop that takes out
the customers found is a fold (`RemovesAll`, `RunRemoved`). `QueuesStep` puts together
what each call does to the promised sequences, and `QueuesImplemented` is the
refinement, for windows 1..m and any bound on the customers (`WindowAssumption`).

The proofs corrected one model: in `CircuitSolver` the conditions of the `Verdict`
operators overlapped and the first that holds was meant, as in the code, which a
CASE of TLA+ does not say; they are now nested as the code tests them. `ApproxGame`
was rewritten without a change of behaviour: lines are records, and the answers that
are due are a prefix of the sorted queue. In `OfficeQueues` the walks became recursions
over a number of steps, and `Queues` says at which place the customer who moves stands.
In `Nand` the search, the cleaning and the meaning of the gates became functions of the
depth of the recursion, of which the number of gates is enough; they were recursive
functions of the marks, of which nothing can be proved before they are known to exist.

## 6. What only TLC checks

* Liveness (`Terminates`, `LazyAnswer`, `StopTerminates`, `EveryCallerReturns`,
  `AutomaticAnswered`): outside the reach of the prover.
* `AgreesWithReference` compares with a RECURSIVE operator.
* For d = MAX_D the part of `FindsGreatest` on the recorded multisets is not proved, and
  does not hold: `multiset_init` leaves the last element as it was (io.c lines
  8-12), so a later record adds to the MAX_D of an earlier one. TLC finds that with
  D = MAX_D = 3 and 4; the run `Programs` has arrays larger than d. The sum is right
  there too (`GreatestSum`).
* `Acquainted` speaks of ENABLED.

## 7. Where code and documentation differ

Two differences have a run of their own (`findings` in `PROJECT.json`): NOT after
`stop()`, and SCORING for two players. The following were met while modelling.
The models take these steps, except those of `multiset_print`, which is not
modelled, but no run states a property about them:

peer-time-sync

* A node that loses its source keeps its offset and answers GET_TIME, as
  unsynchronised, with the clock of the source it has lost
  (peer-time-sync.cpp:653); the comment of the field says "(0) if not synced"
  (line 33).
* `hello_handler` sends 8 bytes per peer (line 205), with a 16-bit length (line 197)
  and a port that the length of the next entry overwrites, checks for 7, and
  `hello_reply_handler` expects 7, with an 8-bit length (lines 236, 243). A
  newcomer to a node that already has a peer therefore refuses the reply, so that
  among nodes of this program only the first newcomer learns its contact by the
  reply, and no CONNECT is ever sent; `Acquainted` states this exactly. With entries
  of 7 bytes the reader still does not step over the port (line 250) and gives up at
  the second entry.
* HELLO is sent once and a HELLO from a known peer is refused (line 179), so
  neither a lost datagram nor a restart is made good. Two nodes that wait on each
  other refuse each other's CONNECT (line 309); then only ACK_CONNECT helps. Nodes
  that joined a contact before it joined others are not told of those.
* The sync-loss timer is restarted by DELAY_RESPONSE only; the comment of
  `SYNC_LOSS_TIMEOUT_MS` (peer-time-sync.cpp:51-52) speaks of SYNC_START. With
  the answers lost, a node drops a source it keeps hearing from.
* SYNC_START and DELAY_RESPONSE carry the natural clock, so a node of level 2
  follows the raw clock of its source and not the leader's time.

hypothesis verification

* A pair of multisets that one more element would complete is never found,
  because the loop skips elements that are sums of the other multiset: for
  A0 = {}, B0 = {1, 2}, d = 3 the answer is 0, and {3}, {1, 2} is a solution. The
  recursive reference does the same, so the two programs agree.
* `multiset_print` stops before the element MAX_D (io.c:148, with the loop bound
  of line 10), although multisets hold elements up to MAX_D (io.h:53): with d =
  MAX_D it is not printed.

circuits

* A task keeps its worker while it waits for its arguments; a deep or wide
  circuit can fill the pool with waiting tasks, and is never answered.
* A task dropped or rejected by `stop()` offers nothing, so that a caller of
  `getValue()` on its root waits until it is interrupted.
* `getValue()` releases the semaphore in `finally` even when `acquire()` was
  interrupted; from then on two callers may be inside.
* After an interrupt `isDone` is set before `result`: a caller in between meets a null
  reference, and a result that was already there is replaced by a failure.
* A caller that is told `isDone` after an interrupt may be given false for a
  circuit that is true: the interrupted caller replaces the result
  (ParallelCircuitValue.java:28-48).

great approximator

* `receive_messages` returns true when it succeeds, and its caller goes on to the
  next slot then (approx-server.cpp:557): parsing waits for a turn without input, and
  a player that sends without a pause is never timed out. After a failure the
  caller uses descriptor -1, for which `operator[]` makes a client without a
  name; it is in every SCORING afterwards, which no player accepts.
* `send_messages` takes `fds` by value (line 276). When it fails the slot keeps a
  closed descriptor, which a new connection may get as well, and `end_game` reads
  an empty vector for it (line 343). A failed `send` also raises SIGPIPE, which
  nobody catches.
* When the COEFF file has no more lines `parse_coeff` throws (lines 390-395), and
  nobody catches it.
* A line that consists of `PUT` alone counts as a PUT (protocol.cpp:26) and is shorter
  than `PUT_SIZE`, so that `message.substr(PUT_SIZE)` throws where its PENALTY or
  BAD_PUT is made (approx-server.cpp:417, 432); the server ends. In the model every
  PUT the pattern refuses may be that line (`PutRefused`).
* In the first three seconds of the process a client that `operator[]` makes up, with
  a `connect_time` of 0, is not late with its HELLO (lines 574-576) and its slot waits for
  another turn (`KeepMadeUp`).
* A client puts K + 1 points although `K` is the number of values in STATE
  (approx-client.cpp:485); the last PUT is a BAD_PUT.
* A SCORING that is followed by a reset is lost (approx-client.cpp:185-192).

binder

* `valid_non_const_reference` is never set (binder.h:43), so a copy made after
  `read()` shares the note that can still be written to.
* When copying a value throws, the key stays in the map of a binder that is not
  shared (lines 95, 126, 128), against the strong guarantee that line 95
  promises; the next call with that key uses the end of the list as a note.
* `insert_after` on an empty binder does so as well (line 170).

## 8. Abstractions and assumptions

* `PeerSync`: joining is reduced to `LearnPeer`; sizes and byte order of messages
  are not modelled, a malformed message is `RecvNothing`. Natural clocks run at one
  rate (`steady_clock` of one machine, or of good ones).
  `OffsetTracksSource` assumes that no message is older than `MaxDelay`, which a
  real network does not promise; the offset is as good as that bound.
* `PeerJoin`: a restarted node keeps its address. The bytes that follow the port of
  the first entry are taken not to look like the length 4, which they would only
  with the high byte of the port equal to 4. `Acquainted` speaks of an end in which
  no datagram, delivered once more, would have an effect.
* `ParallelSearch`: what a call computes is in `Children` and `Value`; that these
  are those of `recursive_solve` is the subject of `NonrecursiveSearch`.
* `TaggedStack`: reads of freed memory return what is there by now, or garbage.
* `CircuitSolver`: cancelling and answering are one step (see section 2); the
  circuit is a tree, as Task1/README.md requires.
* `CircuitValue`: sequentially consistent memory. Its fields are plain, and the
  Java memory model would also allow a caller that skips the semaphore to see
  `isDone` before `result`; the consequence is the null reference of section 7.
* `ApproxGame`: seconds instead of milliseconds, a stream of whole lines (splitting
  a buffer loses no byte in `protocol.cpp`), sockets always writable, `accept`
  never fails, `DISCONNECT_TIMEOUT` is a constant (3 s in the code), the order of
  the players in SCORING is arbitrary. A turn of a client is one step, since it
  shares only its connection. Arguments and name resolution are left out.
* `Nand`: a failing allocation changes nothing and is left out, with the capacities
  of the vectors; values and critical paths live within one evaluation.
* `OfficeQueues`: customers and windows meet the preconditions of `kol.h`; pointers
  of customers who have left are cleared, since nothing reads them.
* `Binder`: a copy of a value may throw while a note is inserted (one that throws while
  a shared list is copied changes nothing); the model stops
  (`broken`) where the program's behaviour is undefined.
* `Knights`: the initial tournament is the default one and knights come one by one,
  which gives every list up to the bound.
* `Programs`: the programs share no state; running them side by side adds no
  behaviour and hides none.

## 9. Plan

1. **Composition** of `PeerJoin` with `PeerSync` in the place of `LearnPeer`.
2. **Stock market, trams, counters, string queues** as state machines with
   conservation properties, and the path rules of the route editor's boards.
3. **Pure algorithms** (previous in range, search with lies, the CRC table, three
   motels, the algorithm tasks with an invariant) against brute force.

### Not modelled

Programs without state of their own or outside integers: interval arithmetic and
origami (doubles with rounding and an epsilon), polynomial templates and
functional lists (types and closures), medals (regular expressions over a sorted
listing), argument parsing, sockets and error output of the network programs,
the demonstration classes of the circuits, long division (a single assembly
routine whose result could only be restated), notebooks and static pages. The
reason for each component is in `PROJECT.json`.
