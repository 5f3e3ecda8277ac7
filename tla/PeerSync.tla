------------------------------ MODULE PeerSync ------------------------------
(***************************************************************************)
(* Clock synchronisation of peer-time-sync (Year2/Computer Networks/Task1).*)
(*                                                                         *)
(* Every node is one single-threaded process that alternates between the   *)
(* head of its main loop, where it sends SYNC_START and lets its timers    *)
(* expire, and a blocking recvfrom whose message it handles.  pc records   *)
(* which of the two comes next.  A node's fields keep the names they have  *)
(* in struct NodeContext.                                                  *)
(*                                                                         *)
(* Time is a global tick counter; the natural clock of node n is           *)
(* now + Skew[n], because nodes start at different moments and            *)
(* steady_clock runs at one rate.  The network is UDP: a message in net    *)
(* may be received any number of times, in any order, or never, until      *)
(* MaxDelay ticks after it was sent.                                       *)
(***************************************************************************)
EXTENDS Integers, FiniteSets

CONSTANTS
  Node,             \* the processes, named by their address
  None,             \* an std::optional without a value
  Skew,             \* Skew[n]: natural clock of n when now = 0
  Acquainted,       \* Acquainted[n]: peers of n in the initial state
  Electable,        \* nodes an operator may send LEADER to
  CommandTimes,     \* moments at which LEADER may arrive (a bound for TLC)
  SyncTimeout,      \* SYNC_TIMEOUT_MS
  SyncLossTimeout,  \* SYNC_LOSS_TIMEOUT_MS
  SendInterval,     \* SYNC_SENDING_INTERVAL_MS
  LeaderTimeout,    \* LEADER_TIMEOUT_MS
  SendMayFail,      \* whether sendto may return an error
  MayStall,         \* whether a node may be descheduled at its loop head
  MaxDelay,         \* longest time a message may spend in the network
  MaxNow            \* bound on the time a run of TLC explores

\* Mutant of Unsync: one more than a uint8_t holds.
UnsyncTooHigh == 256

Unsync == 255       \* level of a node that follows nobody
MaxSource == 253    \* highest level a node may be followed at

ASSUME NodeAssumption == None \notin Node /\ None \notin Int
ASSUME TimeAssumption ==
  /\ Skew \in [Node -> Nat]
  /\ {SyncTimeout, SyncLossTimeout, SendInterval, LeaderTimeout,
      MaxDelay, MaxNow} \subseteq Nat
  /\ SendMayFail \in BOOLEAN /\ MayStall \in BOOLEAN
ASSUME TopologyAssumption ==
  /\ Acquainted \in [Node -> SUBSET Node]
  /\ \A n \in Node : n \notin Acquainted[n]
  /\ Electable \subseteq Node

VARIABLES
  now,                      \* global time, in ticks
  net,                      \* messages that may still be delivered
  pc,                       \* "loop": loop head next, "recv": in recvfrom
  peers,                    \* known peers
  offset,                   \* current offset
  synchronized,             \* own synchronisation level
  sync_from,                \* node we are synced from
  syncing_from,             \* node a syncing process is running with
  sync_synchronized,        \* level that node announced in its SYNC_START
  sync_times,               \* <<T1, T2, T3>> of the syncing process
  sync_attempt_from,        \* when that process was started
  sync_attempt_to,          \* last SYNC_START sent to each peer
  delay_requests_received,  \* DELAY_REQUEST already answered since then?
  last_sync_time,           \* when the current synchronisation was obtained
  leader_time,              \* when the node last became a leader
  last_sent_sync            \* last round of SYNC_START

progress == <<syncing_from, sync_synchronized, sync_times, sync_attempt_from>>
level    == <<offset, synchronized, sync_from, last_sync_time>>
sending  == <<sync_attempt_to, delay_requests_received>>
vars == <<now, net, pc, peers, progress, level, sending, leader_time,
          last_sent_sync>>

Clock(n) == now + Skew[n]

Optional(S) == S \cup {None}

Message ==
  [type : {"SYNC_START", "DELAY_RESPONSE"}, from : Node, to : Node,
   synchronized : 0..255, timestamp : Int, sent : Nat]
  \cup [type : {"DELAY_REQUEST"}, from : Node, to : Node, sent : Nat]

SyncStart(n, p) ==
  [type |-> "SYNC_START", from |-> n, to |-> p,
   synchronized |-> synchronized[n], timestamp |-> Clock(n), sent |-> now]

DelayRequest(n, p) ==
  [type |-> "DELAY_REQUEST", from |-> n, to |-> p, sent |-> now]

DelayResponse(n, p) ==
  [type |-> "DELAY_RESPONSE", from |-> n, to |-> p,
   synchronized |-> synchronized[n], timestamp |-> Clock(n), sent |-> now]

\* Peers a round of sendto reaches: an error skips one peer, not the rest.
SendOutcomes(S) == IF SendMayFail THEN SUBSET S ELSE {S}

\* Division of C++: the quotient is truncated towards zero.
Half(x) == IF x >= 0 THEN x \div 2 ELSE -((-x) \div 2)

Init ==
  /\ now = 0
  /\ net = {}
  /\ pc = [n \in Node |-> "loop"]
  /\ peers = Acquainted
  /\ offset = [n \in Node |-> 0]
  /\ synchronized = [n \in Node |-> Unsync]
  /\ sync_from = [n \in Node |-> None]
  /\ syncing_from = [n \in Node |-> None]
  /\ sync_synchronized = [n \in Node |-> None]
  /\ sync_times = [n \in Node |-> <<0, 0, 0>>]
  /\ sync_attempt_from = [n \in Node |-> None]
  /\ sync_attempt_to = [n \in Node |-> [p \in Node |-> None]]
  /\ delay_requests_received = [n \in Node |-> [p \in Node |-> FALSE]]
  /\ last_sync_time = [n \in Node |-> None]
  /\ leader_time = [n \in Node |-> None]
  /\ last_sent_sync = [n \in Node |-> 0]

-----------------------------------------------------------------------------
(* The head of the main loop.                                              *)

ShouldSync(n) ==
  /\ Clock(n) - last_sent_sync[n] > SendInterval
  /\ synchronized[n] < 254
  /\ synchronized[n] = 0 =>
       /\ leader_time[n] # None
       /\ Clock(n) - leader_time[n] > LeaderTimeout

SendSyncStart(n) ==
  IF ShouldSync(n)
  THEN \E reached \in SendOutcomes(peers[n]) :
         /\ net' = net \cup {SyncStart(n, p) : p \in reached}
         /\ sync_attempt_to' = [sync_attempt_to EXCEPT ![n] =
              [p \in Node |-> IF p \in reached THEN Clock(n) ELSE @[p]]]
         /\ delay_requests_received' = [delay_requests_received EXCEPT ![n] =
              [p \in Node |-> p \notin reached /\ @[p]]]
         /\ last_sent_sync' = [last_sent_sync EXCEPT ![n] = Clock(n)]
  ELSE UNCHANGED <<net, sending, last_sent_sync>>

SyncLost(n) ==
  /\ synchronized[n] # Unsync
  /\ sync_from[n] # None
  /\ last_sync_time[n] # None
  /\ Clock(n) - last_sync_time[n] > SyncLossTimeout

\* Mutant of LoseSync: a level lost by the timer is raised by one hop only.
LoseSyncOneHop(n) ==
  IF SyncLost(n)
  THEN /\ synchronized' = [synchronized EXCEPT ![n] = @ + 1]
       /\ last_sync_time' = [last_sync_time EXCEPT ![n] = None]
       /\ UNCHANGED <<offset, sync_from>>
  ELSE UNCHANGED level

\* Mutant of LoseSync: the node it was synced from is not forgotten.
LoseSyncKeepsSource(n) ==
  IF SyncLost(n)
  THEN /\ synchronized' = [synchronized EXCEPT ![n] = Unsync]
       /\ last_sync_time' = [last_sync_time EXCEPT ![n] = None]
       /\ UNCHANGED <<offset, sync_from>>
  ELSE UNCHANGED level

\* The offset is left as it was.
LoseSync(n) ==
  IF SyncLost(n)
  THEN /\ synchronized' = [synchronized EXCEPT ![n] = Unsync]
       /\ sync_from' = [sync_from EXCEPT ![n] = None]
       /\ last_sync_time' = [last_sync_time EXCEPT ![n] = None]
       /\ UNCHANGED offset
  ELSE UNCHANGED level

SyncingExpired(n) ==
  /\ syncing_from[n] # None
  /\ sync_attempt_from[n] # None
  /\ Clock(n) - sync_attempt_from[n] > SyncTimeout

\* Mutant of TerminateSyncing: the node it was syncing from is kept.
TerminateSyncingHalf(n) ==
  IF SyncingExpired(n)
  THEN /\ sync_attempt_from' = [sync_attempt_from EXCEPT ![n] = None]
       /\ sync_times' = [sync_times EXCEPT ![n] = <<0, 0, 0>>]
       /\ UNCHANGED <<syncing_from, sync_synchronized>>
  ELSE UNCHANGED progress

\* sync_synchronized keeps the level of the abandoned process.
TerminateSyncing(n) ==
  IF SyncingExpired(n)
  THEN /\ syncing_from' = [syncing_from EXCEPT ![n] = None]
       /\ sync_attempt_from' = [sync_attempt_from EXCEPT ![n] = None]
       /\ sync_times' = [sync_times EXCEPT ![n] = <<0, 0, 0>>]
       /\ UNCHANGED sync_synchronized
  ELSE UNCHANGED progress

LoopHead(n) ==
  /\ pc[n] = "loop"
  /\ pc' = [pc EXCEPT ![n] = "recv"]
  /\ SendSyncStart(n)
  /\ LoseSync(n)
  /\ TerminateSyncing(n)
  /\ UNCHANGED <<now, peers, leader_time>>

-----------------------------------------------------------------------------
(* recvfrom and the handlers.                                              *)

\* Node n leaves recvfrom; after the handler it is back at the loop head.
Resume(n) ==
  /\ pc[n] = "recv"
  /\ pc' = [pc EXCEPT ![n] = "loop"]

\* The receive timeout passes, or a message arrives whose handler changes no
\* state (GET_TIME, a message of wrong size, one from this node itself).
RecvNothing(n) ==
  /\ Resume(n)
  /\ UNCHANGED <<now, net, peers, progress, level, sending, leader_time,
                 last_sent_sync>>

Receive(n, m, type) ==
  /\ m.to = n
  /\ m.type = type
  /\ m.from # n
  /\ Resume(n)

\* One of HELLO, HELLO_REPLY, CONNECT and ACK_CONNECT adds a peer.
LearnPeer(n, p) ==
  /\ Resume(n)
  /\ p \notin peers[n] \cup {n}
  /\ peers' = [peers EXCEPT ![n] = @ \cup {p}]
  /\ UNCHANGED <<now, net, progress, level, sending, leader_time,
                 last_sent_sync>>

\* Mutant of ResetSync: the offset survives, as it does in LoseSync.
ResetSyncKeepsOffset(n, newLevel) ==
  /\ synchronized' = [synchronized EXCEPT ![n] = newLevel]
  /\ sync_from' = [sync_from EXCEPT ![n] = None]
  /\ syncing_from' = [syncing_from EXCEPT ![n] = None]
  /\ sync_synchronized' = [sync_synchronized EXCEPT ![n] = None]
  /\ sync_times' = [sync_times EXCEPT ![n] = <<0, 0, 0>>]
  /\ sync_attempt_from' = [sync_attempt_from EXCEPT ![n] = None]
  /\ UNCHANGED offset

\* The fields that give up a synchronisation or a leadership resets.
ResetSync(n, newLevel) ==
  /\ synchronized' = [synchronized EXCEPT ![n] = newLevel]
  /\ sync_from' = [sync_from EXCEPT ![n] = None]
  /\ offset' = [offset EXCEPT ![n] = 0]
  /\ syncing_from' = [syncing_from EXCEPT ![n] = None]
  /\ sync_synchronized' = [sync_synchronized EXCEPT ![n] = None]
  /\ sync_times' = [sync_times EXCEPT ![n] = <<0, 0, 0>>]
  /\ sync_attempt_from' = [sync_attempt_from EXCEPT ![n] = None]

\* A SYNC_START the handler looks at: known sender of a level to follow.
Eligible(n, m) ==
  /\ m.timestamp >= 0
  /\ m.from \in peers[n]
  /\ m.synchronized <= MaxSource

SourceGotWorse(n, m) ==
  m.from = sync_from[n] /\ m.synchronized >= synchronized[n]

\* Mutant of WorthFollowing: only the current source must improve.
WorthFollowingAnyone(n, m) ==
  m.from # sync_from[n] \/ m.synchronized < synchronized[n]

WorthFollowing(n, m) ==
  IF m.from = sync_from[n]
  THEN m.synchronized < synchronized[n]
  ELSE m.synchronized + 1 < synchronized[n]

\* sync_start_handler, when the node we are synced from is no better any more.
Desynchronize(n, m) ==
  /\ Receive(n, m, "SYNC_START")
  /\ Eligible(n, m)
  /\ SourceGotWorse(n, m)
  /\ ResetSync(n, Unsync)
  /\ UNCHANGED <<now, net, peers, last_sync_time, sending, leader_time,
                 last_sent_sync>>

\* sync_start_handler, when it starts (or restarts) a syncing process.
StartSyncing(n, m) ==
  /\ Receive(n, m, "SYNC_START")
  /\ Eligible(n, m)
  /\ WorthFollowing(n, m)
  /\ net' = net \cup {DelayRequest(n, m.from)}
  /\ sync_attempt_from' = [sync_attempt_from EXCEPT ![n] = Clock(n)]
  /\ sync_times' = [sync_times EXCEPT ![n] =
       <<m.timestamp, Clock(n), Clock(n)>>]
  /\ syncing_from' = [syncing_from EXCEPT ![n] = m.from]
  /\ sync_synchronized' = [sync_synchronized EXCEPT ![n] = m.synchronized]
  /\ UNCHANGED <<now, peers, level, sending, leader_time, last_sent_sync>>

\* delay_request_handler, when it answers.
AnswerDelayRequest(n, m) ==
  /\ Receive(n, m, "DELAY_REQUEST")
  /\ sync_attempt_to[n][m.from] # None
  /\ sync_attempt_to[n][m.from] + SyncTimeout >= Clock(n)
  /\ ~delay_requests_received[n][m.from]
  /\ delay_requests_received' =
       [delay_requests_received EXCEPT ![n][m.from] = TRUE]
  /\ net' = net \cup {DelayResponse(n, m.from)}
  /\ UNCHANGED <<now, peers, progress, level, sync_attempt_to, leader_time,
                 last_sent_sync>>

\* The DELAY_RESPONSE belongs to the syncing process as the handler sees it.
MatchesAttempt(n, m) ==
  m.from = syncing_from[n] /\ m.synchronized = sync_synchronized[n]

AttemptTimedOut(n) ==
  /\ sync_attempt_from[n] # None
  /\ sync_attempt_from[n] + SyncTimeout < Clock(n)

\* delay_response_handler, when the answer comes too late.
DropLateResponse(n, m) ==
  /\ Receive(n, m, "DELAY_RESPONSE")
  /\ MatchesAttempt(n, m)
  /\ AttemptTimedOut(n)
  /\ syncing_from' = [syncing_from EXCEPT ![n] = None]
  /\ sync_attempt_from' = [sync_attempt_from EXCEPT ![n] = None]
  /\ UNCHANGED <<now, net, peers, sync_synchronized, sync_times, level,
                 sending, leader_time, last_sent_sync>>

\* Mutant of NewOffset: T3 and T4 are swapped.
NewOffsetSwapped(n, m) ==
  LET t == IF m.timestamp < 0 THEN <<0, 0, 0>> ELSE sync_times[n]
  IN  Half(t[2] - t[1] + m.timestamp - t[3])

\* (T2 - T1 + T3 - T4) / 2; a negative T4 zeroes the other three first.
NewOffset(n, m) ==
  LET t == IF m.timestamp < 0 THEN <<0, 0, 0>> ELSE sync_times[n]
  IN  Half(t[2] - t[1] + t[3] - m.timestamp)

\* delay_response_handler, when the node is now synced from the sender.
Synchronize(n, m) ==
  /\ Receive(n, m, "DELAY_RESPONSE")
  /\ MatchesAttempt(n, m)
  /\ ~AttemptTimedOut(n)
  /\ offset' = [offset EXCEPT ![n] = NewOffset(n, m)]
  /\ sync_from' = [sync_from EXCEPT ![n] = m.from]
  /\ synchronized' = [synchronized EXCEPT ![n] = (m.synchronized + 1) % 256]
  /\ last_sync_time' = [last_sync_time EXCEPT ![n] = Clock(n)]
  /\ syncing_from' = [syncing_from EXCEPT ![n] = None]
  /\ sync_synchronized' = [sync_synchronized EXCEPT ![n] = None]
  /\ sync_times' = [sync_times EXCEPT ![n] = <<0, 0, 0>>]
  /\ sync_attempt_from' = [sync_attempt_from EXCEPT ![n] =
       IF m.timestamp < 0 THEN None ELSE @]
  /\ UNCHANGED <<now, net, peers, sending, leader_time, last_sent_sync>>

\* leader_handler for a LEADER message with level 0.
BecomeLeader(n) ==
  /\ n \in Electable /\ now \in CommandTimes
  /\ Resume(n)
  /\ synchronized[n] # 0
  /\ ResetSync(n, 0)
  /\ last_sync_time' = [last_sync_time EXCEPT ![n] = None]
  /\ leader_time' = [leader_time EXCEPT ![n] = Clock(n)]
  /\ UNCHANGED <<now, net, peers, sending, last_sent_sync>>

\* leader_handler for a LEADER message with level 255.
StopLeading(n) ==
  /\ n \in Electable /\ now \in CommandTimes
  /\ Resume(n)
  /\ synchronized[n] = 0
  /\ ResetSync(n, Unsync)
  /\ last_sync_time' = [last_sync_time EXCEPT ![n] = None]
  /\ UNCHANGED <<now, net, peers, sending, leader_time, last_sent_sync>>

-----------------------------------------------------------------------------
\* Time passes; messages older than MaxDelay are gone.  Handlers and loop
\* heads take no time, unless the process is descheduled between them.
Tick ==
  /\ now < MaxNow
  /\ MayStall \/ \A n \in Node : pc[n] = "recv"
  /\ now' = now + 1
  /\ net' = {m \in net : m.sent + MaxDelay > now}
  /\ UNCHANGED <<pc, peers, progress, level, sending, leader_time,
                 last_sent_sync>>

HandleMessage(n) ==
  \E m \in net :
    \/ Desynchronize(n, m)
    \/ StartSyncing(n, m)
    \/ AnswerDelayRequest(n, m)
    \/ DropLateResponse(n, m)
    \/ Synchronize(n, m)

NodeStep(n) ==
  \/ LoopHead(n)
  \/ RecvNothing(n)
  \/ HandleMessage(n)
  \/ BecomeLeader(n)
  \/ StopLeading(n)
  \/ \E p \in Node : LearnPeer(n, p)

Next == Tick \/ \E n \in Node : NodeStep(n)

Spec == Init /\ [][Next]_vars

(* Properties.                                                             *)

TypeOK ==
  /\ now \in Nat
  /\ net \subseteq Message
  /\ pc \in [Node -> {"loop", "recv"}]
  /\ peers \in [Node -> SUBSET Node]
  /\ offset \in [Node -> Int]
  /\ synchronized \in [Node -> 0..255]
  /\ sync_from \in [Node -> Optional(Node)]
  /\ syncing_from \in [Node -> Optional(Node)]
  /\ sync_synchronized \in [Node -> Optional(0..MaxSource)]
  /\ sync_times \in [Node -> Int \X Int \X Int]
  /\ sync_attempt_from \in [Node -> Optional(Int)]
  /\ sync_attempt_to \in [Node -> [Node -> Optional(Int)]]
  /\ delay_requests_received \in [Node -> [Node -> BOOLEAN]]
  /\ last_sync_time \in [Node -> Optional(Int)]
  /\ leader_time \in [Node -> Optional(Int)]
  /\ last_sent_sync \in [Node -> Int]

\* A node has a level between leader and unsynchronised exactly while it has
\* a node it is synced from: five handlers write the two fields separately.
LevelMatchesSource ==
  \A n \in Node : sync_from[n] # None <=> synchronized[n] \in 1..254

\* While a syncing process runs, the optionals delay_response_handler unwraps
\* have values, and the level on offer still improves on the node's own even
\* if that changed since the SYNC_START: the narrowing to uint8_t is exact.
AttemptStaysWorthwhile ==
  \A n \in Node : syncing_from[n] # None =>
    /\ sync_synchronized[n] # None /\ sync_attempt_from[n] # None
    /\ IF syncing_from[n] = sync_from[n]
       THEN sync_synchronized[n] < synchronized[n]
       ELSE sync_synchronized[n] + 1 < synchronized[n]

\* A leader follows nobody, is not about to, and serves its natural clock,
\* however the LEADER command interleaved with a syncing process.
LeaderServesOwnClock ==
  \A n \in Node : synchronized[n] = 0 =>
    /\ sync_from[n] = None /\ syncing_from[n] = None
    /\ offset[n] = 0 /\ last_sync_time[n] = None

\* A node that changes the node it is synced from moves strictly closer to a
\* leader, whatever happened between the SYNC_START and the DELAY_RESPONSE.
SwitchingImproves ==
  [][\A n \in Node :
       sync_from'[n] \notin {None, sync_from[n]}
         => synchronized'[n] < synchronized[n]]_vars

Levels == INSTANCE SyncLevels WITH hops <- synchronized, source <- sync_from

\* The levels and sources of the nodes behave as SyncLevels promises: every
\* loss, change or refresh of a synchronisation is one of its steps.
ImplementsSyncLevels == Levels!Spec

\* The offset measures the distance between the two natural clocks up to the
\* network delay, although a DELAY_RESPONSE may answer the DELAY_REQUEST of an
\* earlier syncing process and the code cannot tell.
OffsetTracksSource ==
  \A n \in Node : sync_from[n] # None =>
    offset[n] - (Skew[n] - Skew[sync_from[n]]) \in -MaxDelay..MaxDelay

=============================================================================
