--------------------------- MODULE PeerSyncProofs ---------------------------
(* Proofs about PeerSync: its invariants and its abstract specification,   *)
(* for every set of nodes, every topology and every value of the timers.   *)
EXTENDS PeerSync, TLAPS

\* A node never syncs with itself: main drops messages from its own address.
NeverFromItself == \A n \in Node : syncing_from[n] # n

\* None of the levels' invariants is inductive alone.  A DELAY_RESPONSE is
\* judged by the syncing process it ends, a syncing process by the level it
\* was started at, and a LEADER command may come between the two.
IInv ==
  /\ TypeOK
  /\ LevelMatchesSource
  /\ AttemptStaysWorthwhile
  /\ LeaderServesOwnClock
  /\ NeverFromItself

-----------------------------------------------------------------------------
(* Arithmetic and messages.                                                *)

\* Halving as C++ does stays within the integers.
LEMMA HalfInteger == ASSUME NEW x \in Int PROVE Half(x) \in Int
  BY DEF Half

\* The natural clock is an integer.
LEMMA ClockInteger ==
  ASSUME TypeOK, NEW n \in Node
  PROVE  Clock(n) \in Int
  BY TimeAssumption DEF TypeOK, Clock

\* The offset a DELAY_RESPONSE gives is an integer.
LEMMA NewOffsetInteger ==
  ASSUME TypeOK, NEW n \in Node, NEW m \in net, m.type = "DELAY_RESPONSE"
  PROVE  NewOffset(n, m) \in Int
<1> DEFINE t == IF m.timestamp < 0 THEN <<0, 0, 0>> ELSE sync_times[n]
<1>1. m.timestamp \in Int
  BY DEF TypeOK, Message
<1>2. sync_times[n] \in Int \X Int \X Int
  BY DEF TypeOK
<1>3. t \in Int \X Int \X Int
  BY <1>2
<1>4. t[2] - t[1] + t[3] - m.timestamp \in Int
  BY <1>1, <1>3
<1> QED
  BY <1>4, HalfInteger DEF NewOffset

\* The three messages a node sends are messages.
LEMMA SentMessages ==
  ASSUME TypeOK, NEW n \in Node, NEW p \in Node
  PROVE  {SyncStart(n, p), DelayRequest(n, p), DelayResponse(n, p)}
           \subseteq Message
<1>1. Clock(n) \in Int /\ now \in Nat /\ synchronized[n] \in 0..255
  BY ClockInteger DEF TypeOK
<1> QED
  BY <1>1 DEF SyncStart, DelayRequest, DelayResponse, Message

-----------------------------------------------------------------------------
(* Type correctness.                                                       *)

\* The head of the main loop keeps every field in its type.
LEMMA LoopHeadType ==
  ASSUME TypeOK, NEW n \in Node, LoopHead(n)
  PROVE  TypeOK'
<1>1. Clock(n) \in Int
  BY ClockInteger
<1>2. /\ net' \subseteq Message
      /\ sync_attempt_to' \in [Node -> [Node -> Optional(Int)]]
      /\ delay_requests_received' \in [Node -> [Node -> BOOLEAN]]
      /\ last_sent_sync' \in [Node -> Int]
  <2>1. CASE ShouldSync(n)
    <3>1. PICK reached \in SendOutcomes(peers[n]) :
            /\ net' = net \cup {SyncStart(n, p) : p \in reached}
            /\ sync_attempt_to' = [sync_attempt_to EXCEPT ![n] =
                 [p \in Node |-> IF p \in reached THEN Clock(n) ELSE @[p]]]
            /\ delay_requests_received' =
                 [delay_requests_received EXCEPT ![n] =
                   [p \in Node |-> p \notin reached /\ @[p]]]
            /\ last_sent_sync' = [last_sent_sync EXCEPT ![n] = Clock(n)]
      BY <2>1 DEF LoopHead, SendSyncStart
    <3>2. reached \subseteq Node
      BY DEF SendOutcomes, TypeOK
    <3>3. net' \subseteq Message
      BY <3>1, <3>2, SentMessages DEF TypeOK
    <3>4. sync_attempt_to' \in [Node -> [Node -> Optional(Int)]]
      BY <3>1, <1>1 DEF TypeOK, Optional
    <3>5. delay_requests_received' \in [Node -> [Node -> BOOLEAN]]
      BY <3>1 DEF TypeOK
    <3>6. last_sent_sync' \in [Node -> Int]
      BY <3>1, <1>1 DEF TypeOK
    <3> QED
      BY <3>3, <3>4, <3>5, <3>6
  <2>2. CASE ~ShouldSync(n)
    BY <2>2 DEF LoopHead, SendSyncStart, sending, TypeOK
  <2> QED
    BY <2>1, <2>2
<1>3. /\ offset' \in [Node -> Int]
      /\ synchronized' \in [Node -> 0..255]
      /\ sync_from' \in [Node -> Optional(Node)]
      /\ last_sync_time' \in [Node -> Optional(Int)]
  <2>1. CASE SyncLost(n)
    <3>1. /\ synchronized' = [synchronized EXCEPT ![n] = 255]
          /\ sync_from' = [sync_from EXCEPT ![n] = None]
          /\ last_sync_time' = [last_sync_time EXCEPT ![n] = None]
          /\ offset' = offset
      BY <2>1 DEF LoopHead, LoseSync, Unsync
    <3> QED
      BY <3>1 DEF TypeOK, Optional
  <2>2. CASE ~SyncLost(n)
    BY <2>2 DEF LoopHead, LoseSync, level, TypeOK
  <2> QED
    BY <2>1, <2>2
<1>4. /\ syncing_from' \in [Node -> Optional(Node)]
      /\ sync_synchronized' \in [Node -> Optional(0..MaxSource)]
      /\ sync_times' \in [Node -> Int \X Int \X Int]
      /\ sync_attempt_from' \in [Node -> Optional(Int)]
  <2>1. CASE SyncingExpired(n)
    <3>1. /\ syncing_from' = [syncing_from EXCEPT ![n] = None]
          /\ sync_attempt_from' = [sync_attempt_from EXCEPT ![n] = None]
          /\ sync_times' = [sync_times EXCEPT ![n] = <<0, 0, 0>>]
          /\ sync_synchronized' = sync_synchronized
      BY <2>1 DEF LoopHead, TerminateSyncing
    <3> QED
      BY <3>1 DEF TypeOK, Optional
  <2>2. CASE ~SyncingExpired(n)
    BY <2>2 DEF LoopHead, TerminateSyncing, progress, TypeOK
  <2> QED
    BY <2>1, <2>2
<1>5. /\ now' \in Nat
      /\ pc' \in [Node -> {"loop", "recv"}]
      /\ peers' \in [Node -> SUBSET Node]
      /\ leader_time' \in [Node -> Optional(Int)]
  BY DEF LoopHead, TypeOK
<1> QED
  BY <1>2, <1>3, <1>4, <1>5 DEF TypeOK

\* Giving up a synchronisation or a leadership keeps every field in its type.
LEMMA ResetSyncType ==
  ASSUME TypeOK, NEW n \in Node, NEW newLevel \in 0..255,
         ResetSync(n, newLevel)
  PROVE  /\ offset' \in [Node -> Int]
         /\ synchronized' \in [Node -> 0..255]
         /\ sync_from' \in [Node -> Optional(Node)]
         /\ syncing_from' \in [Node -> Optional(Node)]
         /\ sync_synchronized' \in [Node -> Optional(0..MaxSource)]
         /\ sync_times' \in [Node -> Int \X Int \X Int]
         /\ sync_attempt_from' \in [Node -> Optional(Int)]
  BY DEF ResetSync, TypeOK, Optional

\* Every handler keeps every field in its type.
LEMMA HandlerType ==
  ASSUME TypeOK, NEW n \in Node, NEW m \in net,
         \/ Desynchronize(n, m)
         \/ StartSyncing(n, m)
         \/ AnswerDelayRequest(n, m)
         \/ DropLateResponse(n, m)
         \/ Synchronize(n, m)
  PROVE  TypeOK'
<1>1. Clock(n) \in Int
  BY ClockInteger
<1>2. m \in Message
  BY DEF TypeOK
<1>3. m.from \in Node
  BY <1>2 DEF Message
<1>4. m.type = "DELAY_REQUEST"
        \/ (m.synchronized \in 0..255 /\ m.timestamp \in Int)
  BY <1>2 DEF Message
<1>5. CASE Desynchronize(n, m)
  <2>1. 255 \in 0..255 /\ ResetSync(n, 255)
    BY <1>5 DEF Desynchronize, Unsync
  <2>2. /\ pc' = [pc EXCEPT ![n] = "loop"]
        /\ UNCHANGED <<now, net, peers, last_sync_time, sending, leader_time,
                       last_sent_sync>>
    BY <1>5 DEF Desynchronize, Receive, Resume
  <2>3. /\ offset' \in [Node -> Int]
        /\ synchronized' \in [Node -> 0..255]
        /\ sync_from' \in [Node -> Optional(Node)]
        /\ syncing_from' \in [Node -> Optional(Node)]
        /\ sync_synchronized' \in [Node -> Optional(0..MaxSource)]
        /\ sync_times' \in [Node -> Int \X Int \X Int]
        /\ sync_attempt_from' \in [Node -> Optional(Int)]
    BY <2>1, ResetSyncType
  <2>4. pc' \in [Node -> {"loop", "recv"}]
    BY <2>2 DEF TypeOK
  <2> QED
    BY <2>2, <2>3, <2>4 DEF sending, TypeOK
<1>6. CASE StartSyncing(n, m)
  <2>1. m.synchronized \in 0..MaxSource /\ m.timestamp \in Int
    BY <1>4, <1>6 DEF StartSyncing, Receive, Eligible, MaxSource
  <2>2. DelayRequest(n, m.from) \in Message
    BY <1>3, SentMessages
  <2> QED
    BY <1>1, <1>3, <1>6, <2>1, <2>2
    DEF StartSyncing, Receive, Resume, level, sending, TypeOK, Optional
<1>7. CASE AnswerDelayRequest(n, m)
  <2>1. DelayResponse(n, m.from) \in Message
    BY <1>3, SentMessages
  <2> QED
    BY <1>7, <2>1
    DEF AnswerDelayRequest, Receive, Resume, progress, level, TypeOK
<1>8. CASE DropLateResponse(n, m)
  BY <1>8
  DEF DropLateResponse, Receive, Resume, level, sending, TypeOK, Optional
<1>9. CASE Synchronize(n, m)
  <2>1. NewOffset(n, m) \in Int
    BY <1>9, NewOffsetInteger DEF Synchronize, Receive
  <2>2. (m.synchronized + 1) % 256 \in 0..255
    BY <1>4, <1>9 DEF Synchronize, Receive
  <2> QED
    BY <1>1, <1>3, <1>9, <2>1, <2>2
    DEF Synchronize, Receive, Resume, sending, TypeOK, Optional
<1> QED
  BY <1>5, <1>6, <1>7, <1>8, <1>9

\* Every step keeps every field in its type.
LEMMA TypeStep == TypeOK /\ [Next]_vars => TypeOK'
<1> SUFFICES ASSUME TypeOK, [Next]_vars PROVE TypeOK'
  OBVIOUS
<1>1. ASSUME NEW n \in Node, BecomeLeader(n) \/ StopLeading(n)
      PROVE  TypeOK'
  <2>1. Clock(n) \in Int
    BY ClockInteger
  <2>2. PICK l \in 0..255 : ResetSync(n, l)
    BY <1>1 DEF BecomeLeader, StopLeading, Unsync
  <2>3. /\ pc' = [pc EXCEPT ![n] = "loop"]
        /\ last_sync_time' = [last_sync_time EXCEPT ![n] = None]
        /\ leader_time' \in {leader_time, [leader_time EXCEPT ![n] = Clock(n)]}
        /\ UNCHANGED <<now, net, peers, sending, last_sent_sync>>
    BY <1>1 DEF BecomeLeader, StopLeading, Resume
  <2>4. leader_time' \in [Node -> Optional(Int)]
    BY <2>1, <2>3 DEF TypeOK, Optional
  <2> QED
    BY <2>2, <2>3, <2>4, ResetSyncType DEF sending, TypeOK, Optional
<1>2. ASSUME NEW n \in Node, RecvNothing(n) PROVE TypeOK'
  BY <1>2
  DEF RecvNothing, Resume, progress, level, sending, TypeOK
<1>3. ASSUME NEW n \in Node, NEW p \in Node, LearnPeer(n, p) PROVE TypeOK'
  BY <1>3 DEF LearnPeer, Resume, progress, level, sending, TypeOK
<1>4. CASE Tick
  BY <1>4 DEF Tick, progress, level, sending, TypeOK
<1>5. CASE UNCHANGED vars
  BY <1>5 DEF vars, progress, level, sending, TypeOK
<1> QED
  BY <1>1, <1>2, <1>3, <1>4, <1>5, LoopHeadType, HandlerType
  DEF Next, NodeStep, HandleMessage

\* Type correctness: every field of every node keeps its C++ type; the levels
\* in particular stay within one byte.
THEOREM TypeCorrect == Spec => []TypeOK
<1>1. Init => TypeOK
  BY TopologyAssumption DEF Init, TypeOK, Optional, Unsync
<1> QED
  BY <1>1, TypeStep, PTL DEF Spec
-----------------------------------------------------------------------------
(* The inductive invariant.                                                *)

\* What a step of node n has to show: the fields of the others stay as they
\* are, and the invariants hold of n afterwards.
GoodAt(n) ==
  /\ sync_from[n] # None <=> synchronized[n] \in 1..254
  /\ syncing_from[n] # None =>
       /\ sync_synchronized[n] # None /\ sync_attempt_from[n] # None
       /\ IF syncing_from[n] = sync_from[n]
          THEN sync_synchronized[n] < synchronized[n]
          ELSE sync_synchronized[n] + 1 < synchronized[n]
  /\ synchronized[n] = 0 =>
       /\ sync_from[n] = None /\ syncing_from[n] = None
       /\ offset[n] = 0 /\ last_sync_time[n] = None
  /\ syncing_from[n] # n

\* The invariant says the same thing of every node.
LEMMA NodeByNode == IInv <=> TypeOK /\ \A n \in Node : GoodAt(n)
  BY DEF IInv, LevelMatchesSource, AttemptStaysWorthwhile,
         LeaderServesOwnClock, NeverFromItself, GoodAt

\* The same of the state after a step.
LEMMA NodeByNodeNext == IInv' <=> TypeOK' /\ \A n \in Node : GoodAt(n)'
  BY DEF IInv, LevelMatchesSource, AttemptStaysWorthwhile,
         LeaderServesOwnClock, NeverFromItself, GoodAt

\* A step that changes the fields of node n only disturbs n only.
LEMMA OtherNodes ==
  ASSUME TypeOK, NEW n \in Node, NEW k \in Node, k # n, GoodAt(k),
         \/ UNCHANGED <<progress, level>>
         \/ \E m \in net : \/ Desynchronize(n, m) \/ StartSyncing(n, m)
                          \/ DropLateResponse(n, m) \/ Synchronize(n, m)
         \/ BecomeLeader(n) \/ StopLeading(n) \/ LoopHead(n)
  PROVE  GoodAt(k)'
<1>1. /\ sync_from'[k] = sync_from[k]
      /\ synchronized'[k] = synchronized[k]
      /\ offset'[k] = offset[k]
      /\ last_sync_time'[k] = last_sync_time[k]
      /\ syncing_from'[k] = syncing_from[k]
      /\ sync_synchronized'[k] = sync_synchronized[k]
      /\ sync_attempt_from'[k] = sync_attempt_from[k]
  <2>1. CASE UNCHANGED <<progress, level>>
    BY <2>1 DEF progress, level
  <2>2. CASE \E l : ResetSync(n, l) /\ (last_sync_time' = last_sync_time
                \/ last_sync_time' = [last_sync_time EXCEPT ![n] = None])
    BY <2>2 DEF ResetSync, TypeOK
  <2>3. ASSUME NEW m \in net, StartSyncing(n, m) PROVE <1>1!:
    BY <2>3 DEF StartSyncing, level, TypeOK
  <2>4. ASSUME NEW m \in net, DropLateResponse(n, m) PROVE <1>1!:
    BY <2>4 DEF DropLateResponse, level, TypeOK
  <2>5. ASSUME NEW m \in net, Synchronize(n, m) PROVE <1>1!:
    BY <2>5 DEF Synchronize, TypeOK
  <2>6. CASE LoopHead(n)
    BY <2>6 DEF LoopHead, LoseSync, TerminateSyncing, level, progress, TypeOK
  <2>7. ASSUME NEW m \in net, Desynchronize(n, m) PROVE <1>1!:
    BY <2>2, <2>7 DEF Desynchronize
  <2>8. CASE BecomeLeader(n) \/ StopLeading(n)
    BY <2>2, <2>8 DEF BecomeLeader, StopLeading
  <2> QED
    BY <2>1, <2>3, <2>4, <2>5, <2>6, <2>7, <2>8
<1> QED
  BY <1>1 DEF GoodAt

\* The loop head: timers only raise the level or end the syncing process.
LEMMA LoopHeadGood ==
  ASSUME TypeOK, NEW n \in Node, GoodAt(n), LoopHead(n)
  PROVE  GoodAt(n)'
<1> DEFINE lost == SyncLost(n)
           expired == SyncingExpired(n)
<1>1. IF lost
      THEN synchronized'[n] = 255 /\ sync_from'[n] = None
      ELSE /\ synchronized'[n] = synchronized[n] /\ sync_from'[n] = sync_from[n]
           /\ last_sync_time'[n] = last_sync_time[n]
  BY DEF LoopHead, LoseSync, level, TypeOK, Unsync
<1>2. offset'[n] = offset[n]
  BY DEF LoopHead, LoseSync, level, TypeOK
<1>3. IF expired
      THEN syncing_from'[n] = None
      ELSE /\ syncing_from'[n] = syncing_from[n]
           /\ sync_attempt_from'[n] = sync_attempt_from[n]
  BY DEF LoopHead, TerminateSyncing, progress, TypeOK
<1>4. sync_synchronized'[n] = sync_synchronized[n]
  BY DEF LoopHead, TerminateSyncing, progress, TypeOK
<1>5. /\ sync_synchronized[n] \in Optional(0..MaxSource)
      /\ synchronized[n] \in 0..255
      /\ syncing_from[n] \in Optional(Node) /\ sync_from[n] \in Optional(Node)
  BY DEF TypeOK
<1>6. lost => sync_from[n] # None
  BY DEF SyncLost
<1> QED
  BY <1>1, <1>2, <1>3, <1>4, <1>5, <1>6, NodeAssumption
  DEF GoodAt, Optional, MaxSource

\* Giving up a synchronisation or a leadership ends the syncing process too.
LEMMA ResetSyncGood ==
  ASSUME TypeOK, NEW n \in Node, NEW l \in {0, 255}, ResetSync(n, l),
         l = 0 => last_sync_time'[n] = None
  PROVE  GoodAt(n)'
<1>1. /\ synchronized'[n] = l /\ sync_from'[n] = None
      /\ offset'[n] = 0 /\ syncing_from'[n] = None
  BY DEF ResetSync, TypeOK
<1> QED
  BY <1>1, NodeAssumption DEF GoodAt

\* The handlers: a syncing process is only started at a level worth
\* following, and a DELAY_RESPONSE only accepted at the level it was started at.
LEMMA HandlerGood ==
  ASSUME TypeOK, NEW n \in Node, GoodAt(n), NEW m \in net,
         \/ Desynchronize(n, m)
         \/ StartSyncing(n, m)
         \/ DropLateResponse(n, m)
         \/ Synchronize(n, m)
  PROVE  GoodAt(n)'
<1>1. /\ sync_synchronized[n] \in Optional(0..MaxSource)
      /\ synchronized[n] \in 0..255
      /\ syncing_from[n] \in Optional(Node) /\ sync_from[n] \in Optional(Node)
  BY DEF TypeOK
<1>2. m \in Message /\ m.from \in Node /\ m.from # n
  BY DEF TypeOK, Message, Desynchronize, StartSyncing, DropLateResponse,
         Synchronize, Receive
<1>3. CASE Desynchronize(n, m)
  <2>1. 255 \in {0, 255} /\ ResetSync(n, 255)
    BY <1>3 DEF Desynchronize, Unsync
  <2> QED
    BY <2>1, ResetSyncGood
<1>4. CASE StartSyncing(n, m)
  <2>1. m.synchronized \in 0..MaxSource
    BY <1>2, <1>4 DEF StartSyncing, Receive, Eligible, Message, MaxSource
  <2>2. /\ syncing_from'[n] = m.from
        /\ sync_synchronized'[n] = m.synchronized
        /\ sync_attempt_from'[n] = Clock(n)
        /\ UNCHANGED level
    BY <1>4 DEF StartSyncing, TypeOK
  <2>3. Clock(n) # None /\ m.synchronized # None
    BY <2>1, ClockInteger, NodeAssumption DEF MaxSource
  <2>4. WorthFollowing(n, m)
    BY <1>4 DEF StartSyncing
  <2> QED
    BY <1>1, <1>2, <2>1, <2>2, <2>3, <2>4
    DEF GoodAt, WorthFollowing, level, MaxSource
<1>5. CASE DropLateResponse(n, m)
  <2>1. syncing_from'[n] = None /\ UNCHANGED level
    BY <1>5 DEF DropLateResponse, TypeOK
  <2> QED
    BY <2>1, NodeAssumption DEF GoodAt, level
<1>6. CASE Synchronize(n, m)
  <2>1. m.synchronized \in 0..MaxSource
    BY <1>1, <1>2, <1>6, NodeAssumption
    DEF Synchronize, MatchesAttempt, GoodAt, Optional
  <2>2. /\ syncing_from'[n] = None /\ sync_from'[n] = m.from
        /\ synchronized'[n] = (m.synchronized + 1) % 256
    BY <1>6 DEF Synchronize, TypeOK
  <2>3. synchronized'[n] \in 1..254
    BY <2>1, <2>2 DEF MaxSource
  <2> QED
    BY <1>2, <2>2, <2>3, NodeAssumption DEF GoodAt
<1> QED
  BY <1>3, <1>4, <1>5, <1>6

\* Initially every node is unsynchronised and runs no syncing process.
LEMMA InitIInv == Init => IInv
<1> SUFFICES ASSUME Init PROVE IInv
  OBVIOUS
<1>1. TypeOK
  BY TopologyAssumption DEF Init, TypeOK, Optional, Unsync
<1>2. ASSUME NEW n \in Node PROVE GoodAt(n)
  BY <1>2, NodeAssumption DEF Init, GoodAt, Unsync
<1> QED
  BY <1>1, <1>2, NodeByNode

\* Every step preserves the inductive invariant.
LEMMA IInvStep == IInv /\ [Next]_vars => IInv'
<1> SUFFICES ASSUME IInv, [Next]_vars PROVE IInv'
  OBVIOUS
<1>1. TypeOK /\ TypeOK' /\ \A n \in Node : GoodAt(n)
  BY NodeByNode, TypeStep
<1>2. ASSUME UNCHANGED <<progress, level>>, NEW k \in Node PROVE GoodAt(k)'
  BY <1>1, <1>2 DEF progress, level, GoodAt
<1>3. ASSUME NEW n \in Node, LoopHead(n), NEW k \in Node PROVE GoodAt(k)'
  BY <1>1, <1>3, LoopHeadGood, OtherNodes
<1>4. ASSUME NEW n \in Node, NEW m \in net, NEW k \in Node,
             \/ Desynchronize(n, m)
             \/ StartSyncing(n, m)
             \/ DropLateResponse(n, m)
             \/ Synchronize(n, m)
      PROVE  GoodAt(k)'
  BY <1>1, <1>4, HandlerGood, OtherNodes
<1>5. ASSUME NEW n \in Node, NEW k \in Node, BecomeLeader(n) \/ StopLeading(n)
      PROVE  GoodAt(k)'
  <2>1. CASE k = n
    <3>1. PICK l \in {0, 255} : ResetSync(n, l)
      BY <1>5 DEF BecomeLeader, StopLeading, Unsync
    <3>2. last_sync_time'[n] = None
      BY <1>1, <1>5 DEF BecomeLeader, StopLeading, TypeOK
    <3> QED
      BY <1>1, <2>1, <3>1, <3>2, ResetSyncGood
  <2> QED
    BY <1>1, <1>5, <2>1, OtherNodes
<1>6. CASE UNCHANGED vars
  BY <1>1, <1>2, <1>6, NodeByNodeNext DEF vars
<1>7. CASE Tick
  BY <1>1, <1>2, <1>7, NodeByNodeNext DEF Tick
<1>8. ASSUME NEW n \in Node, NodeStep(n) PROVE IInv'
  <2>1. ASSUME NEW m \in net, AnswerDelayRequest(n, m)
        PROVE  UNCHANGED <<progress, level>>
    BY <2>1 DEF AnswerDelayRequest
  <2>2. ASSUME RecvNothing(n) \/ \E p \in Node : LearnPeer(n, p)
        PROVE  UNCHANGED <<progress, level>>
    BY <2>2 DEF RecvNothing, LearnPeer
  <2>3. ASSUME NEW k \in Node PROVE GoodAt(k)'
    BY <1>2, <1>3, <1>4, <1>5, <1>8, <2>1, <2>2 DEF NodeStep, HandleMessage
  <2> QED
    BY <1>1, <2>3, NodeByNodeNext
<1> QED
  BY <1>6, <1>7, <1>8 DEF Next

\* The inductive invariant holds throughout.
THEOREM Inductive == Spec => []IInv
  BY InitIInv, IInvStep, PTL DEF Spec

\* A node has a level between leader and unsynchronised exactly while it has
\* a node it is synced from.
THEOREM LevelCorrect == Spec => []LevelMatchesSource
<1>1. IInv => LevelMatchesSource
  BY DEF IInv
<1> QED
  BY <1>1, Inductive, PTL

\* A running syncing process always offers an improvement and has the values
\* delay_response_handler unwraps.
THEOREM AttemptCorrect == Spec => []AttemptStaysWorthwhile
<1>1. IInv => AttemptStaysWorthwhile
  BY DEF IInv
<1> QED
  BY <1>1, Inductive, PTL

\* A leader follows nobody, is not about to, and serves its natural clock.
THEOREM LeaderCorrect == Spec => []LeaderServesOwnClock
<1>1. IInv => LeaderServesOwnClock
  BY DEF IInv
<1> QED
  BY <1>1, Inductive, PTL

-----------------------------------------------------------------------------
(* Steps.                                                                  *)

\* One more hop than a better source: a level again, and no worse.
LEMMA NextHop ==
  ASSUME NEW k \in 0..253, NEW h \in 0..255
  PROVE  /\ k + 1 \in 1..254
         /\ k < h => k + 1 < h \/ k + 1 = h
OBVIOUS

\* What a step of node n does to its level and its source.
LEMMA LevelSteps ==
  ASSUME IInv, [Next]_vars
  PROVE  \/ UNCHANGED <<synchronized, sync_from>>
         \/ \E n \in Node : Levels!Lead(n) \/ Levels!Orphan(n)
         \/ \E n, p \in Node : Levels!Follow(n, p)
<1> DEFINE Goal == \/ UNCHANGED <<synchronized, sync_from>>
                   \/ \E n \in Node : Levels!Lead(n) \/ Levels!Orphan(n)
                   \/ \E n, p \in Node : Levels!Follow(n, p)
<1>1. TypeOK /\ \A n \in Node : GoodAt(n)
  BY NodeByNode
<1>2. ASSUME NEW n \in Node, LoopHead(n) PROVE Goal
  <2>1. CASE SyncLost(n)
    <3>1. /\ synchronized' = [synchronized EXCEPT ![n] = 255]
          /\ sync_from' = [sync_from EXCEPT ![n] = None]
      BY <1>2, <2>1 DEF LoopHead, LoseSync, Unsync
    <3>2. synchronized[n] # 255
      BY <2>1 DEF SyncLost, Unsync
    <3> QED
      BY <3>1, <3>2 DEF Levels!Orphan
  <2>2. CASE ~SyncLost(n)
    BY <1>2, <2>2 DEF LoopHead, LoseSync, level
  <2> QED
    BY <2>1, <2>2
<1>3. ASSUME NEW n \in Node, NEW m \in net, Desynchronize(n, m) PROVE Goal
  <2>1. synchronized[n] # 255
    <3>1. m.from \in Node /\ m.from = sync_from[n]
      BY <1>1, <1>3 DEF Desynchronize, SourceGotWorse, TypeOK, Message
    <3> QED
      BY <1>1, <3>1, NodeAssumption DEF GoodAt
  <2>2. /\ synchronized' = [synchronized EXCEPT ![n] = 255]
        /\ sync_from' = [sync_from EXCEPT ![n] = None]
    BY <1>3 DEF Desynchronize, ResetSync, Unsync
  <2> QED
    BY <2>1, <2>2 DEF Levels!Orphan
<1>4. ASSUME NEW n \in Node, BecomeLeader(n) PROVE Goal
  <2>1. synchronized[n] # 0
    BY <1>4 DEF BecomeLeader
  <2>2. /\ synchronized' = [synchronized EXCEPT ![n] = 0]
        /\ sync_from' = [sync_from EXCEPT ![n] = None]
    BY <1>4 DEF BecomeLeader, ResetSync
  <2> QED
    BY <2>1, <2>2 DEF Levels!Lead
<1>5. ASSUME NEW n \in Node, StopLeading(n) PROVE Goal
  <2>1. synchronized[n] # 255
    BY <1>5 DEF StopLeading
  <2>2. /\ synchronized' = [synchronized EXCEPT ![n] = 255]
        /\ sync_from' = [sync_from EXCEPT ![n] = None]
    BY <1>5 DEF StopLeading, ResetSync, Unsync
  <2> QED
    BY <2>1, <2>2 DEF Levels!Orphan
<1>6. ASSUME NEW n \in Node, NEW m \in net, Synchronize(n, m) PROVE Goal
  <2>1. m.from \in Node /\ m.from = syncing_from[n]
    BY <1>1, <1>6
    DEF Synchronize, MatchesAttempt, TypeOK, Message
  <2>2. m.synchronized = sync_synchronized[n] /\ m.synchronized \in 0..MaxSource
    BY <1>1, <1>6, <2>1, NodeAssumption
    DEF Synchronize, MatchesAttempt, GoodAt, TypeOK, Optional
  <2>3. synchronized[n] \in 0..255
    BY <1>1 DEF TypeOK
  <2>4. (m.synchronized + 1) % 256 = m.synchronized + 1
    BY <2>2 DEF MaxSource
  <2>5. /\ synchronized' = [synchronized EXCEPT ![n] = m.synchronized + 1]
        /\ sync_from' = [sync_from EXCEPT ![n] = m.from]
        /\ synchronized'[n] = m.synchronized + 1
    BY <1>1, <1>6, <2>4 DEF Synchronize, TypeOK
  <2>6. IF m.from = sync_from[n]
        THEN m.synchronized < synchronized[n]
        ELSE m.synchronized + 1 < synchronized[n]
    BY <1>1, <2>1, <2>2, NodeAssumption DEF GoodAt
  <2>7. m.from # n
    BY <1>6 DEF Synchronize, Receive
  <2>9. /\ synchronized'[n] \in 1..254
        /\ \/ synchronized'[n] < synchronized[n]
           \/ m.from = sync_from[n] /\ synchronized'[n] = synchronized[n]
    <3>1. /\ m.synchronized + 1 \in 1..254
          /\ \/ m.synchronized + 1 < synchronized[n]
             \/ m.from = sync_from[n] /\ m.synchronized + 1 = synchronized[n]
      <4>1. m.synchronized \in 0..253
        BY <2>2 DEF MaxSource
      <4>2. \/ m.synchronized + 1 < synchronized[n]
            \/ m.from = sync_from[n] /\ m.synchronized < synchronized[n]
        BY <2>2, <2>6
      <4>3. /\ m.synchronized + 1 \in 1..254
            /\ m.synchronized < synchronized[n]
                 => \/ m.synchronized + 1 < synchronized[n]
                    \/ m.synchronized + 1 = synchronized[n]
        BY <2>3, <4>1, NextHop
      <4> QED
        BY <4>2, <4>3, Zenon
    <3>2. synchronized'[n] = m.synchronized + 1
      BY <2>5
    <3> QED
      BY <3>1, <3>2
  <2>10. synchronized' = [synchronized EXCEPT ![n] = synchronized'[n]]
    BY <2>5
  <2>11. Levels!Follow(n, m.from)
    BY <2>5, <2>7, <2>9, <2>10 DEF Levels!Follow
  <2> QED
    BY <2>1, <2>11
<1>7. ASSUME NEW n \in Node, NEW m \in net,
             \/ StartSyncing(n, m) \/ AnswerDelayRequest(n, m)
             \/ DropLateResponse(n, m)
      PROVE  Goal
  BY <1>7 DEF StartSyncing, AnswerDelayRequest, DropLateResponse, level
<1>8. ASSUME NEW n \in Node, RecvNothing(n) \/ \E p \in Node : LearnPeer(n, p)
      PROVE  Goal
  BY <1>8 DEF RecvNothing, LearnPeer, level
<1>9. CASE Tick \/ UNCHANGED vars
  BY <1>9 DEF Tick, vars, level
<1> QED
  BY <1>2, <1>3, <1>4, <1>5, <1>6, <1>7, <1>8, <1>9
  DEF Next, NodeStep, HandleMessage

\* The levels and sources of the nodes implement SyncLevels.
THEOREM Refinement == Spec => ImplementsSyncLevels
<1>1. Init => Levels!Init
  BY DEF Init, Levels!Init, Unsync
<1>2. IInv /\ [Next]_vars => [Levels!Next]_<<synchronized, sync_from>>
  BY LevelSteps DEF Levels!Next
<1> QED
  BY <1>1, <1>2, Inductive, PTL DEF Spec, ImplementsSyncLevels, Levels!Spec

\* A node that changes its source moves strictly closer to a leader.
THEOREM Switching == Spec => SwitchingImproves
<1> DEFINE Improves ==
      \A n \in Node : sync_from'[n] \notin {None, sync_from[n]}
                       => synchronized'[n] < synchronized[n]
<1>1. IInv /\ [Next]_vars => [Improves]_vars
  <2> SUFFICES ASSUME IInv, [Next]_vars PROVE Improves
    OBVIOUS
  <2>1. TypeOK
    BY DEF IInv
  <2>2. CASE UNCHANGED <<synchronized, sync_from>>
    BY <2>2
  <2>3. ASSUME NEW n \in Node, Levels!Lead(n) \/ Levels!Orphan(n) PROVE Improves
    BY <2>1, <2>3 DEF Levels!Lead, Levels!Orphan, TypeOK
  <2>4. ASSUME NEW n \in Node, NEW p \in Node, Levels!Follow(n, p) PROVE Improves
    BY <2>1, <2>4 DEF Levels!Follow, TypeOK
  <2> QED
    BY <2>2, <2>3, <2>4, LevelSteps
<1> QED
  BY <1>1, Inductive, PTL DEF Spec, SwitchingImproves

-----------------------------------------------------------------------------
(* The offset.                                                             *)

\* Messages carry the natural clock of their sender and are not too old.
Dated ==
  \A m \in net :
    /\ m.sent <= now /\ now <= m.sent + MaxDelay
    /\ m.type # "DELAY_REQUEST" => m.timestamp = m.sent + Skew[m.from]

\* When the syncing process of n was started.
Begun(n) == sync_times[n][2] - Skew[n]

\* What node n has measured: T1 was taken at most MaxDelay before its process
\* began, and what may still answer it, although it may be the answer to an
\* earlier process, was asked for no later.
MeasuredAt(n) ==
  syncing_from[n] # None =>
    /\ sync_times[n][3] = sync_times[n][2]
    /\ Begun(n) <= now
    /\ sync_times[n][1] - Skew[syncing_from[n]]
         \in (Begun(n) - MaxDelay)..Begun(n)
    /\ \A m \in net : m.type = "DELAY_REQUEST" /\ m.from = n
                        => m.sent <= Begun(n)
    /\ \A m \in net : m.type = "DELAY_RESPONSE" /\ m.to = n
                        => m.sent <= Begun(n) + MaxDelay

OffsetAt(n) ==
  sync_from[n] # None =>
    offset[n] - (Skew[n] - Skew[sync_from[n]]) \in -MaxDelay..MaxDelay

TimeInv ==
  /\ TypeOK
  /\ Dated
  /\ \A n \in Node : MeasuredAt(n) /\ OffsetAt(n)

\* Truncated towards zero or not, half of twice d and a little more is d and
\* half of that little.
LEMMA HalfNear ==
  ASSUME NEW d \in Int, NEW e \in Int, NEW b \in Nat,
         -(2 * b) <= e, e <= 2 * b
  PROVE  Half(2 * d + e) - d \in -b..b
<1>1. CASE 2 * d + e >= 0
  <2>1. Half(2 * d + e) = (2 * d + e) \div 2
    BY <1>1 DEF Half
  <2> QED
    BY <2>1
<1>2. CASE 2 * d + e < 0
  <2>1. Half(2 * d + e) = -((-(2 * d + e)) \div 2)
    BY <1>2 DEF Half
  <2>2. (-(2 * d + e)) \div 2 - (-d) \in -b..b
    OBVIOUS
  <2> QED
    BY <2>1, <2>2
<1> QED
  BY <1>1, <1>2

\* The offset from the four timestamps of two messages that took at most
\* MaxDelay, the second of which may have been sent at most as long before
\* the process began.
LEMMA MeasuredOffset ==
  ASSUME TimeInv, NEW n \in Node, NEW m \in net, Synchronize(n, m)
  PROVE  NewOffset(n, m) - (Skew[n] - Skew[m.from]) \in -MaxDelay..MaxDelay
<1> DEFINE t == sync_times[n]
           x == Begun(n)
           d == Skew[n] - Skew[m.from]
           y == t[1] - Skew[m.from]
           e == (x - y) + (x - m.sent)
<1>1. /\ m \in Message /\ m.type = "DELAY_RESPONSE" /\ m.to = n
      /\ m.from = syncing_from[n] /\ t \in Int \X Int \X Int
  BY DEF TimeInv, TypeOK, Synchronize, Receive, MatchesAttempt
<1>2. /\ m.from \in Node /\ m.timestamp \in Int /\ m.sent \in Nat
      /\ Skew[n] \in Nat /\ Skew[m.from] \in Nat /\ MaxDelay \in Nat
      /\ now \in Nat
  BY <1>1, TimeAssumption DEF Message, TimeInv, TypeOK
<1>3. /\ m.timestamp = m.sent + Skew[m.from]
      /\ m.sent <= now /\ now <= m.sent + MaxDelay
  BY <1>1 DEF TimeInv, Dated
<1>4. /\ t[3] = t[2] /\ x <= now /\ y \in (x - MaxDelay)..x
      /\ m.sent <= x + MaxDelay
  BY <1>1, <1>2, NodeAssumption DEF TimeInv, MeasuredAt
<1>5. /\ t[1] \in Int /\ t[2] \in Int /\ x \in Int /\ y \in Int
      /\ x = t[2] - Skew[n]
  BY <1>1, <1>2 DEF Begun
<1>6. NewOffset(n, m) = Half(t[2] - t[1] + t[3] - m.timestamp)
  <2>1. ~(m.timestamp < 0)
    BY <1>2, <1>3
  <2> QED
    BY <2>1 DEF NewOffset
<1> HIDE DEF t, x
<1>7. t[2] - t[1] + t[3] - m.timestamp = 2 * d + e
  BY <1>2, <1>3, <1>4, <1>5
<1>8. /\ d \in Int /\ e \in Int
      /\ -(2 * MaxDelay) <= e /\ e <= 2 * MaxDelay
  BY <1>2, <1>3, <1>4, <1>5
<1> HIDE DEF d, e, y
<1>9. Half(2 * d + e) - d \in -MaxDelay..MaxDelay
  BY <1>2, <1>8, HalfNear
<1> QED
  BY <1>6, <1>7, <1>9 DEF d

\* Initially nothing was sent or measured.
LEMMA TimeInit == Init => TimeInv
<1> SUFFICES ASSUME Init PROVE TimeInv
  OBVIOUS
<1>1. TypeOK
  BY InitIInv DEF IInv
<1>2. net = {}
  BY DEF Init
<1>3. ASSUME NEW n \in Node
      PROVE  syncing_from[n] = None /\ sync_from[n] = None
  BY DEF Init
<1> QED
  BY <1>1, <1>2, <1>3 DEF TimeInv, Dated, MeasuredAt, OffsetAt

\* A message sent now is dated.
LEMMA SentNow ==
  ASSUME TimeInv, now' = now,
         \A m \in net' \ net : /\ m.sent = now
                               /\ m.type # "DELAY_REQUEST"
                                    => m.timestamp = Clock(m.from)
  PROVE  Dated'
<1>1. now \in Nat /\ MaxDelay \in Nat
  BY TimeAssumption DEF TimeInv, TypeOK
<1> QED
  BY <1>1 DEF TimeInv, Dated, Clock

\* What a step does not touch stays measured, unless it sends a request from
\* n or an answer to n that is not in time.
LEMMA StillMeasured ==
  ASSUME TimeInv, now' = now, NEW n \in Node,
         \/ syncing_from'[n] = None
         \/ /\ syncing_from'[n] = syncing_from[n]
            /\ sync_times'[n] = sync_times[n],
         \A m \in net' \ net :
           /\ m.type = "DELAY_REQUEST" => m.from # n
           /\ m.type = "DELAY_RESPONSE" /\ m.to = n
                /\ syncing_from[n] # None => m.sent <= Begun(n) + MaxDelay
  PROVE  MeasuredAt(n)'
BY DEF TimeInv, MeasuredAt, Begun

\* A step that keeps, or forgets, what n is synced from keeps its offset.
LEMMA StillNear ==
  ASSUME TimeInv, NEW n \in Node,
         \/ sync_from'[n] = None
         \/ sync_from'[n] = sync_from[n] /\ offset'[n] = offset[n]
  PROVE  OffsetAt(n)'
BY DEF TimeInv, OffsetAt

\* Steps that send nothing.
LEMMA QuietStep ==
  ASSUME TimeInv, TypeOK', now' = now, net' = net,
         \A k \in Node :
           /\ \/ syncing_from'[k] = None
              \/ /\ syncing_from'[k] = syncing_from[k]
                 /\ sync_times'[k] = sync_times[k]
           /\ OffsetAt(k)'
  PROVE  TimeInv'
<1>1. Dated'
  BY SentNow
<1>2. ASSUME NEW k \in Node PROVE MeasuredAt(k)'
  BY StillMeasured
<1> QED
  BY <1>1, <1>2 DEF TimeInv

LEMMA LoopHeadTimed ==
  ASSUME TimeInv, TypeOK', NEW n \in Node, LoopHead(n)
  PROVE  TimeInv'
<1> DEFINE M == {SyncStart(n, p) : p \in Node}
<1>1. now' = now /\ TypeOK
  BY DEF LoopHead, TimeInv
<1>2. net' \ net \subseteq M
  <2>1. CASE ShouldSync(n)
    <3>1. PICK reached \in SendOutcomes(peers[n]) :
            net' = net \cup {SyncStart(n, p) : p \in reached}
      BY <2>1 DEF LoopHead, SendSyncStart
    <3>2. reached \subseteq Node
      BY <1>1 DEF SendOutcomes, TypeOK
    <3> QED
      BY <3>1, <3>2
  <2>2. CASE ~ShouldSync(n)
    BY <2>2 DEF LoopHead, SendSyncStart
  <2> QED
    BY <2>1, <2>2
<1>3. \A m \in M : /\ m.type = "SYNC_START" /\ m.sent = now
                   /\ m.timestamp = Clock(m.from)
  BY DEF SyncStart
<1> HIDE DEF M
<1>4. Dated'
  BY <1>1, <1>2, <1>3, SentNow
<1>5. ASSUME NEW k \in Node
      PROVE  /\ \/ syncing_from'[k] = None
                \/ /\ syncing_from'[k] = syncing_from[k]
                   /\ sync_times'[k] = sync_times[k]
             /\ \/ sync_from'[k] = None
                \/ sync_from'[k] = sync_from[k] /\ offset'[k] = offset[k]
  <2>1. \/ syncing_from'[k] = None
        \/ /\ syncing_from'[k] = syncing_from[k]
           /\ sync_times'[k] = sync_times[k]
    <3>1. CASE SyncingExpired(n)
      BY <1>1, <3>1 DEF LoopHead, TerminateSyncing, TypeOK
    <3>2. CASE ~SyncingExpired(n)
      BY <1>1, <3>2 DEF LoopHead, TerminateSyncing, progress, TypeOK
    <3> QED
      BY <3>1, <3>2
  <2>2. \/ sync_from'[k] = None
        \/ sync_from'[k] = sync_from[k] /\ offset'[k] = offset[k]
    <3>1. CASE SyncLost(n)
      BY <1>1, <3>1 DEF LoopHead, LoseSync, TypeOK
    <3>2. CASE ~SyncLost(n)
      BY <1>1, <3>2 DEF LoopHead, LoseSync, level, TypeOK
    <3> QED
      BY <3>1, <3>2
  <2> QED
    BY <2>1, <2>2
<1>6. ASSUME NEW k \in Node PROVE MeasuredAt(k)' /\ OffsetAt(k)'
  BY <1>1, <1>2, <1>3, <1>5, StillMeasured, StillNear
<1> QED
  BY <1>4, <1>6 DEF TimeInv

LEMMA StartSyncingTimed ==
  ASSUME TimeInv, TypeOK', NEW n \in Node, NEW m \in net, StartSyncing(n, m)
  PROVE  TimeInv'
<1> DEFINE r == DelayRequest(n, m.from)
<1>1. /\ now' = now /\ net' = net \cup {r} /\ TypeOK
      /\ syncing_from' = [syncing_from EXCEPT ![n] = m.from]
      /\ sync_times' = [sync_times EXCEPT ![n] =
           <<m.timestamp, Clock(n), Clock(n)>>]
      /\ UNCHANGED level /\ m.type = "SYNC_START"
  BY DEF StartSyncing, Receive, TimeInv
<1>2. r.type = "DELAY_REQUEST" /\ r.sent = now /\ r.from = n
  BY DEF DelayRequest
<1> HIDE DEF r
<1>3. Dated'
  BY <1>1, <1>2, SentNow
<1>4. ASSUME NEW k \in Node PROVE OffsetAt(k)'
  BY <1>1, StillNear DEF level
<1>5. ASSUME NEW k \in Node, k # n PROVE MeasuredAt(k)'
  <2>1. /\ syncing_from'[k] = syncing_from[k]
        /\ sync_times'[k] = sync_times[k]
    BY <1>1, <1>5 DEF TypeOK
  <2> QED
    BY <1>1, <1>2, <1>5, <2>1, StillMeasured
<1>6. MeasuredAt(n)'
  <2>1. /\ m \in Message /\ m.from \in Node /\ m.sent \in Nat
        /\ m.timestamp = m.sent + Skew[m.from]
        /\ m.sent <= now /\ now <= m.sent + MaxDelay
    BY <1>1 DEF TimeInv, Dated, TypeOK, Message
  <2>2. /\ Skew[n] \in Nat /\ Skew[m.from] \in Nat /\ MaxDelay \in Nat
        /\ now \in Nat
    BY <1>1, <2>1, TimeAssumption DEF TypeOK
  <2>3. /\ syncing_from'[n] = m.from
        /\ sync_times'[n] = <<m.timestamp, Clock(n), Clock(n)>>
    BY <1>1 DEF TypeOK
  <2>4. /\ sync_times'[n][1] = m.sent + Skew[m.from]
        /\ sync_times'[n][2] = now + Skew[n]
        /\ sync_times'[n][3] = sync_times'[n][2]
    BY <2>1, <2>3 DEF Clock
  <2>5. Begun(n)' = now
    BY <2>2, <2>4 DEF Begun
  <2>6. sync_times'[n][1] - Skew[m.from] \in (now - MaxDelay)..now
    BY <2>1, <2>2, <2>4
  <2>7. \A l \in net' : l.sent \in Nat /\ l.sent <= now /\ l.sent <= now + MaxDelay
    <3>1. \A l \in net' : l.sent \in Nat
      BY DEF TypeOK, Message
    <3> QED
      BY <1>1, <1>3, <2>2, <3>1 DEF Dated
  <2> QED
    BY <1>1, <2>2, <2>3, <2>4, <2>5, <2>6, <2>7 DEF MeasuredAt
<1> QED
  BY <1>3, <1>4, <1>5, <1>6 DEF TimeInv

LEMMA AnswerTimed ==
  ASSUME TimeInv, TypeOK', NEW n \in Node, NEW m \in net,
         AnswerDelayRequest(n, m)
  PROVE  TimeInv'
<1> DEFINE r == DelayResponse(n, m.from)
<1>1. /\ now' = now /\ net' = net \cup {r} /\ TypeOK
      /\ UNCHANGED <<progress, level>> /\ m.type = "DELAY_REQUEST"
  BY DEF AnswerDelayRequest, Receive, TimeInv
<1>2. /\ r.type = "DELAY_RESPONSE" /\ r.sent = now /\ r.from = n
      /\ r.to = m.from /\ r.timestamp = Clock(n)
  BY DEF DelayResponse
<1> HIDE DEF r
<1>3. Dated'
  BY <1>1, <1>2, SentNow
<1>4. ASSUME NEW k \in Node, m.from = k, syncing_from[k] # None
      PROVE  now <= Begun(k) + MaxDelay
  <2>1. m.sent <= Begun(k) /\ now <= m.sent + MaxDelay
    BY <1>1, <1>4 DEF TimeInv, MeasuredAt, Dated
  <2>2. /\ m.sent \in Nat /\ now \in Nat /\ MaxDelay \in Nat
    BY <1>1, TimeAssumption DEF TypeOK, Message
  <2>3. Begun(k) \in Int
    <3>1. sync_times[k] \in Int \X Int \X Int /\ Skew[k] \in Nat
      BY <1>1, TimeAssumption DEF TypeOK
    <3> QED
      BY <3>1 DEF Begun
  <2> QED
    BY <2>1, <2>2, <2>3
<1>5. ASSUME NEW k \in Node PROVE MeasuredAt(k)' /\ OffsetAt(k)'
  <2>1. /\ syncing_from'[k] = syncing_from[k]
        /\ sync_times'[k] = sync_times[k]
        /\ sync_from'[k] = sync_from[k] /\ offset'[k] = offset[k]
    BY <1>1 DEF progress, level
  <2>2. MeasuredAt(k)'
    BY <1>1, <1>2, <1>4, <2>1, StillMeasured
  <2> QED
    BY <2>1, <2>2, StillNear
<1> QED
  BY <1>3, <1>5 DEF TimeInv

LEMMA SynchronizeTimed ==
  ASSUME TimeInv, TypeOK', NEW n \in Node, NEW m \in net, Synchronize(n, m)
  PROVE  TimeInv'
<1>1. /\ now' = now /\ net' = net /\ TypeOK
      /\ offset' = [offset EXCEPT ![n] = NewOffset(n, m)]
      /\ sync_from' = [sync_from EXCEPT ![n] = m.from]
      /\ syncing_from' = [syncing_from EXCEPT ![n] = None]
      /\ sync_times' = [sync_times EXCEPT ![n] = <<0, 0, 0>>]
  BY DEF Synchronize, TimeInv
<1>2. OffsetAt(n)'
  <2>1. offset'[n] = NewOffset(n, m) /\ sync_from'[n] = m.from
    BY <1>1 DEF TypeOK
  <2> QED
    BY <2>1, MeasuredOffset DEF OffsetAt
<1>3. ASSUME NEW k \in Node, k # n PROVE OffsetAt(k)'
  <2>1. sync_from'[k] = sync_from[k] /\ offset'[k] = offset[k]
    BY <1>1, <1>3 DEF TypeOK
  <2> QED
    BY <2>1, StillNear
<1>4. ASSUME NEW k \in Node
      PROVE  \/ syncing_from'[k] = None
             \/ /\ syncing_from'[k] = syncing_from[k]
                /\ sync_times'[k] = sync_times[k]
  BY <1>1 DEF TypeOK
<1> QED
  BY <1>1, <1>2, <1>3, <1>4, QuietStep

LEMMA TickTimed ==
  ASSUME TimeInv, TypeOK', Tick
  PROVE  TimeInv'
<1>1. /\ now' = now + 1 /\ net' = {m \in net : m.sent + MaxDelay > now}
      /\ UNCHANGED <<progress, level>>
  BY DEF Tick
<1>2. /\ now \in Nat /\ MaxDelay \in Nat
      /\ \A m \in net : m.sent \in Nat
      /\ \A k \in Node : Begun(k) \in Int
  BY TimeAssumption DEF TimeInv, TypeOK, Message, Begun
<1>3. Dated'
  BY <1>1, <1>2 DEF TimeInv, Dated
<1>4. ASSUME NEW k \in Node PROVE MeasuredAt(k)'
  <2>1. Begun(k)' = Begun(k)
    BY <1>1 DEF Begun, progress
  <2>2. MeasuredAt(k) /\ sync_times' = sync_times
        /\ syncing_from' = syncing_from
    BY <1>1 DEF TimeInv, progress
  <2>3. Begun(k) <= now => Begun(k) <= now + 1
    BY <1>2
  <2> QED
    BY <1>1, <2>1, <2>2, <2>3 DEF MeasuredAt
<1>5. ASSUME NEW k \in Node PROVE OffsetAt(k)'
  BY <1>1, StillNear DEF level
<1> QED
  BY <1>3, <1>4, <1>5 DEF TimeInv

\* Every step keeps what was measured.
LEMMA TimeStep == TimeInv /\ [Next]_vars => TimeInv'
<1> SUFFICES ASSUME TimeInv, [Next]_vars PROVE TimeInv'
  OBVIOUS
<1>1. TypeOK /\ TypeOK'
  BY TypeStep DEF TimeInv
<1>2. ASSUME now' = now, net' = net, UNCHANGED <<progress, level>>
      PROVE  TimeInv'
  BY <1>1, <1>2, QuietStep, StillNear DEF progress, level
<1>3. ASSUME NEW n \in Node, NEW l, ResetSync(n, l), now' = now, net' = net
      PROVE  TimeInv'
  <2>1. \A k \in Node :
          /\ \/ syncing_from'[k] = None
             \/ /\ syncing_from'[k] = syncing_from[k]
                /\ sync_times'[k] = sync_times[k]
          /\ \/ sync_from'[k] = None
             \/ sync_from'[k] = sync_from[k] /\ offset'[k] = offset[k]
    BY <1>1, <1>3 DEF ResetSync, TypeOK
  <2> QED
    BY <1>1, <1>3, <2>1, QuietStep, StillNear
<1>4. ASSUME NEW n \in Node, NEW m \in net, DropLateResponse(n, m)
      PROVE  TimeInv'
  <2>1. /\ syncing_from' = [syncing_from EXCEPT ![n] = None]
        /\ sync_times' = sync_times /\ UNCHANGED level
        /\ now' = now /\ net' = net
    BY <1>4 DEF DropLateResponse
  <2>2. \A k \in Node :
          /\ \/ syncing_from'[k] = None
             \/ /\ syncing_from'[k] = syncing_from[k]
                /\ sync_times'[k] = sync_times[k]
          /\ sync_from'[k] = sync_from[k] /\ offset'[k] = offset[k]
    BY <1>1, <2>1 DEF level, TypeOK
  <2> QED
    BY <1>1, <2>1, <2>2, QuietStep, StillNear
<1>5. ASSUME NEW n \in Node, HandleMessage(n) PROVE TimeInv'
  <2>1. PICK m \in net :
          \/ Desynchronize(n, m)
          \/ StartSyncing(n, m)
          \/ AnswerDelayRequest(n, m)
          \/ DropLateResponse(n, m)
          \/ Synchronize(n, m)
    BY <1>5 DEF HandleMessage
  <2>2. CASE Desynchronize(n, m)
    BY <1>3, <2>2 DEF Desynchronize
  <2> QED
    BY <1>1, <1>4, <2>1, <2>2, StartSyncingTimed, AnswerTimed,
       SynchronizeTimed
<1>6. ASSUME NEW n \in Node, NodeStep(n) PROVE TimeInv'
  <2>1. CASE LoopHead(n)
    BY <1>1, <2>1, LoopHeadTimed
  <2>2. CASE RecvNothing(n) \/ \E p \in Node : LearnPeer(n, p)
    BY <1>2, <2>2 DEF RecvNothing, LearnPeer
  <2>3. CASE BecomeLeader(n) \/ StopLeading(n)
    BY <1>3, <2>3 DEF BecomeLeader, StopLeading
  <2> QED
    BY <1>5, <1>6, <2>1, <2>2, <2>3 DEF NodeStep
<1>7. CASE UNCHANGED vars
  BY <1>2, <1>7 DEF vars
<1> QED
  BY <1>1, <1>6, <1>7, TickTimed DEF Next

\* The offset of a node that is synced from another one is the distance
\* between their two natural clocks up to MaxDelay, whatever the delays,
\* losses, repetitions and restarted processes: also the answer to an earlier
\* DELAY_REQUEST than the last, which nothing in the message tells apart.
THEOREM OffsetCorrect == Spec => []OffsetTracksSource
<1>1. TimeInv => OffsetTracksSource
  BY DEF TimeInv, OffsetAt, OffsetTracksSource
<1> QED
  BY <1>1, TimeInit, TimeStep, PTL DEF Spec
=============================================================================
