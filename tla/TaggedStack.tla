----------------------------- MODULE TaggedStack -----------------------------
(***************************************************************************)
(* The lock-free stack of the parallel hypothesis solver (Year2/Concurrent *)
(* Programming/Task2, parallel/main.c): a linked list whose head is        *)
(* replaced, together with a tag, by compare-and-swap.  Nodes come from    *)
(* malloc and go back with free, so that an address may be in use again    *)
(* while a slow pop still holds it, and that pop may read a freed node.    *)
(* The compare-and-swap is the weak one: it may fail without a reason.     *)
(***************************************************************************)
EXTENDS Integers, FiniteSets, SequencesExt

CONSTANTS
  Thread,   \* threads that share the stack
  Data,     \* payloads, each of which is pushed at most once
  Addr,     \* addresses malloc chooses from
  Null,     \* NULL
  Garbage,  \* contents of memory nobody has written
  Tags      \* number of values of the tag

ASSUME NullAssumption ==
  /\ Null \notin Data \cup Addr /\ Garbage \notin Data \cup Addr \cup {Null}
ASSUME FiniteAssumption ==
  IsFiniteSet(Thread) /\ IsFiniteSet(Data) /\ IsFiniteSet(Addr)
\* An int tag does not come round to the same value within one pop.
ASSUME TagAssumption == Tags \in Nat /\ Tags > 2 * Cardinality(Data)

VARIABLES
  stack,    \* the atomic Stack: tag and head
  heap,     \* the struct Node at each address
  live,     \* addresses malloc has returned and free has not got back
  pc,       \* what each thread does next
  node,     \* new_node of push
  prev,     \* prev of push and pop
  next,     \* next.head of pop
  popped,   \* what the last pop of the thread returned
  pushed    \* payloads already used

vars == <<stack, heap, live, pc, node, prev, next, popped, pushed>>

NextTag(s) == (s.tag + 1) % Tags

Init ==
  /\ stack = [tag |-> 0, head |-> Null]
  /\ heap = [a \in Addr |-> [data |-> Garbage, next |-> Garbage]]
  /\ live = {}
  /\ pc = [t \in Thread |-> "idle"]
  /\ node = [t \in Thread |-> Null]
  /\ prev = [t \in Thread |-> stack]
  /\ next = [t \in Thread |-> Null]
  /\ popped = [t \in Thread |-> Null]
  /\ pushed = {}

GoTo(t, from, to) ==
  /\ pc[t] = from
  /\ pc' = [pc EXCEPT ![t] = to]

-----------------------------------------------------------------------------
(* push.                                                                   *)

\* The new node is allocated and its data written.
Malloc(t) ==
  /\ GoTo(t, "idle", "push_load")
  /\ \E a \in Addr \ live, v \in Data \ pushed :
       /\ live' = live \cup {a}
       /\ heap' = [heap EXCEPT ![a] = [data |-> v, next |-> Garbage]]
       /\ node' = [node EXCEPT ![t] = a]
       /\ pushed' = pushed \cup {v}
  /\ UNCHANGED <<stack, prev, next, popped>>

\* prev is read, by atomic_load or by a compare-and-swap that fails.
PushLoad(t) ==
  /\ pc[t] \in {"push_load", "push_cas"}
  /\ pc' = [pc EXCEPT ![t] = "push_link"]
  /\ prev' = [prev EXCEPT ![t] = stack]
  /\ UNCHANGED <<stack, heap, live, node, next, popped, pushed>>

PushLink(t) ==
  /\ GoTo(t, "push_link", "push_cas")
  /\ heap' = [heap EXCEPT ![node[t]].next = prev[t].head]
  /\ UNCHANGED <<stack, live, node, prev, next, popped, pushed>>

\* Mutant of PushCas: the head is stored without a comparison.
PushStore(t) ==
  /\ GoTo(t, "push_cas", "idle")
  /\ stack' = [tag |-> NextTag(prev[t]), head |-> node[t]]
  /\ node' = [node EXCEPT ![t] = Null]
  /\ UNCHANGED <<heap, live, prev, next, popped, pushed>>

PushCas(t) ==
  /\ GoTo(t, "push_cas", "idle")
  /\ stack = prev[t]
  /\ stack' = [tag |-> NextTag(prev[t]), head |-> node[t]]
  /\ node' = [node EXCEPT ![t] = Null]
  /\ UNCHANGED <<heap, live, prev, next, popped, pushed>>

-----------------------------------------------------------------------------
(* pop.                                                                    *)

\* prev is read, by atomic_load or by a compare-and-swap that fails.
PopLoad(t) ==
  /\ pc[t] \in {"idle", "pop_cas"}
  /\ stack.head # Null
  /\ pc' = [pc EXCEPT ![t] = "pop_next"]
  /\ prev' = [prev EXCEPT ![t] = stack]
  /\ UNCHANGED <<stack, heap, live, node, next, popped, pushed>>

\* The same when the stack is empty: pop returns NULL.
PopNull(t) ==
  /\ pc[t] \in {"idle", "pop_cas"}
  /\ stack.head = Null
  /\ pc' = [pc EXCEPT ![t] = "idle"]
  /\ prev' = [prev EXCEPT ![t] = stack]
  /\ popped' = [popped EXCEPT ![t] = Null]
  /\ UNCHANGED <<stack, heap, live, node, next, pushed>>

\* prev.head->next is read.  The node may be free, or another node by now
\* that nobody has linked: what is read then may be anything.
PopNext(t) ==
  /\ GoTo(t, "pop_next", "pop_cas")
  /\ LET a == prev[t].head
     IN  \E x \in IF a \in live /\ heap[a].next # Garbage
                  THEN {heap[a].next}
                  ELSE Addr \cup {Null} :
           next' = [next EXCEPT ![t] = x]
  /\ UNCHANGED <<stack, heap, live, node, prev, popped, pushed>>

\* Mutant of PopCas: only the pointers are compared, as without a tag.
PopCasUntagged(t) ==
  /\ GoTo(t, "pop_cas", "pop_take")
  /\ stack.head = prev[t].head
  /\ stack' = [tag |-> NextTag(prev[t]), head |-> next[t]]
  /\ UNCHANGED <<heap, live, node, prev, next, popped, pushed>>

PopCas(t) ==
  /\ GoTo(t, "pop_cas", "pop_take")
  /\ stack = prev[t]
  /\ stack' = [tag |-> NextTag(prev[t]), head |-> next[t]]
  /\ UNCHANGED <<heap, live, node, prev, next, popped, pushed>>

\* The data is read and the node freed.
PopTake(t) ==
  /\ GoTo(t, "pop_take", "idle")
  /\ popped' = [popped EXCEPT ![t] = heap[prev[t].head].data]
  /\ live' = live \ {prev[t].head}
  /\ heap' = [heap EXCEPT ![prev[t].head] =
                            [data |-> Garbage, next |-> Garbage]]
  /\ UNCHANGED <<stack, node, prev, next, pushed>>

ThreadStep(t) ==
  \/ Malloc(t) \/ PushLoad(t) \/ PushLink(t) \/ PushCas(t)
  \/ PopLoad(t) \/ PopNull(t) \/ PopNext(t) \/ PopCas(t) \/ PopTake(t)

Next == \E t \in Thread : ThreadStep(t)

Spec == Init /\ [][Next]_vars

-----------------------------------------------------------------------------
(* Properties.                                                             *)

\* In memory h the walk from address a meets the nodes s, and then Beyond.
Met(h, a, s) ==
  \A i \in DOMAIN s : s[i] = IF i = 1 THEN a ELSE h[s[i - 1]].next
Beyond(h, a, s) == IF s = <<>> THEN a ELSE h[s[Len(s)]].next

\* The list at address a, or as much of it as there are addresses.
ListAt(h, a) ==
  CHOOSE s \in SeqOf(Addr, Cardinality(Addr)) :
    Met(h, a, s) /\ (Len(s) = Cardinality(Addr) \/ Beyond(h, a, s) \notin Addr)

List == ListAt(heap, stack.head)

\* The payloads in the list, and those the threads popped last.
Items == LET list == List IN [i \in DOMAIN list |-> heap[list[i]].data]
Got ==
  [t \in Thread |->
    IF pc[t] = "pop_take" THEN heap[prev[t].head].data ELSE popped[t]]

Lifo == INSTANCE LifoStack WITH items <- Items, got <- Got

\* The successful compare-and-swap makes push and pop atomic, although pop
\* reads freed and reused nodes before it.
ImplementsLifo == Lifo!Spec

\* The address thread t is responsible for: a node it has not yet linked, or
\* one it has unlinked and not yet freed.
Owned(t) ==
  ({node[t]} \ {Null}) \cup (IF pc[t] = "pop_take" THEN {prev[t].head} ELSE {})

\* Nothing is freed twice, lost or shared: each live node is either in the
\* list, once, or owned by one thread.
NodesAccountedFor ==
  LET list == List
      owned == UNION {Owned(t) : t \in Thread}
  IN  /\ \A i, j \in DOMAIN list : i # j => list[i] # list[j]
      /\ \A t, u \in Thread : t # u => Owned(t) \cap Owned(u) = {}
      /\ ToSet(list) \cap owned = {} /\ live = ToSet(list) \cup owned
=============================================================================
