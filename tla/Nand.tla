-------------------------------- MODULE Nand --------------------------------
(***************************************************************************)
(* The library of NAND gates.  A gate knows what is connected to each of   *)
(* its inputs, and keeps a vector of the gates its output goes to, in no   *)
(* order, one entry per connection.  Evaluation is a depth-first search    *)
(* that leaves its marks in the gates and wipes them afterwards.           *)
(***************************************************************************)
EXTENDS FiniteSets, Integers, Sequences, SequencesExt

CONSTANTS
  Gate,       \* addresses of gates, 1 .. n
  Arity,      \* Arity[g]: numbers of inputs a gate at that address may have
  MaxQueried  \* gates evaluated by one call

VARIABLES
  input_signals,   \* of the gates that exist
  output_signals,
  visited,         \* gates with the flag set
  evaluated,
  signal           \* the one Boolean signal inputs are connected to

links == <<input_signals, output_signals>>
marks == <<visited, evaluated>>
vars == <<links, marks, signal>>

Alive == DOMAIN input_signals
Null == [type |-> "n", object |-> 0]
Signal == [type |-> "b", object |-> 0]
FromGate(g) == [type |-> "g", object |-> g]

Init ==
  /\ input_signals = <<>>
  /\ output_signals = <<>>
  /\ visited = {} /\ evaluated = {}
  /\ signal \in BOOLEAN

-----------------------------------------------------------------------------
(* Vectors: an element is replaced by the last one.                        *)

vvector_find(v, g) == SelectInSeq(v, LAMBDA h : h = g)

\* As vvector_remove_elem, without moving the last element.
vvector_remove_last(v, n) == SubSeq(v, 1, Len(v) - 1)

\* An index that is not below the size is refused.
vvector_remove_elem(v, n) ==
  IF n \notin DOMAIN v THEN v
  ELSE SubSeq([v EXCEPT ![n] = v[Len(v)]], 1, Len(v) - 1)

-----------------------------------------------------------------------------
(* Connections                                                             *)

\* Vectors of outputs after input k of g has been disconnected.
disconnect_input(outputs, g, k) ==
  LET sig == input_signals[g][k]
  IN IF sig.type # "g" THEN outputs
     ELSE [outputs EXCEPT ![sig.object] =
             vvector_remove_elem(@, vvector_find(@, g))]

\* Inputs after the first input of the gate h that comes from g was reset.
disconnect_output(inputs, g, h) ==
  [inputs EXCEPT ![h] = [@ EXCEPT ![SelectInSeq(@,
     LAMBDA sig : sig = FromGate(g))] = Null]]

\* A field f of the gates that exist, with x for the new gate g.
With(f, g, x) == [h \in DOMAIN f \cup {g} |-> IF h = g THEN x ELSE f[h]]

\* malloc may fail; nothing is left behind then.
nand_new(g) ==
  /\ g \notin Alive
  /\ \E n \in Arity[g] :
       input_signals' = With(input_signals, g, [k \in 1 .. n |-> Null])
  /\ output_signals' = With(output_signals, g, <<>>)
  /\ visited' = visited \ {g} /\ evaluated' = evaluated \ {g}
  /\ UNCHANGED signal

\* The inputs one by one, then the outputs from the last to the first.
nand_delete(g) ==
  LET Inputs == DOMAIN input_signals[g]
      outputs == FoldLeft(LAMBDA o, k : disconnect_input(o, g, k),
                          output_signals, [k \in Inputs |-> k])
      own == [input_signals EXCEPT ![g] = [k \in Inputs |-> Null]]
      inputs == FoldRight(LAMBDA h, i : disconnect_output(i, g, h),
                          outputs[g], own)
      Rest == Alive \ {g}
  IN /\ g \in Alive
     /\ input_signals' = [h \in Rest |-> inputs[h]]
     /\ output_signals' = [h \in Rest |-> outputs[h]]
     /\ UNCHANGED <<marks, signal>>

\* The new output is entered before the old input is disconnected; the call
\* that cannot enlarge the vector changes nothing.
nand_connect_nand(g_out, g_in, k) ==
  /\ {g_out, g_in} \subseteq Alive /\ k \in DOMAIN input_signals[g_in]
  /\ LET pushed == [output_signals EXCEPT ![g_out] = Append(@, g_in)]
     IN output_signals' = disconnect_input(pushed, g_in, k)
  /\ input_signals' = [input_signals EXCEPT ![g_in][k] = FromGate(g_out)]
  /\ UNCHANGED <<marks, signal>>

nand_connect_signal(g, k) ==
  /\ g \in Alive /\ k \in DOMAIN input_signals[g]
  /\ output_signals' = disconnect_input(output_signals, g, k)
  /\ input_signals' = [input_signals EXCEPT ![g][k] = Signal]
  /\ UNCHANGED <<marks, signal>>

\* The caller changes the variable the signal is read from.
FlipSignal ==
  /\ signal' = ~signal
  /\ UNCHANGED <<links, marks>>

-----------------------------------------------------------------------------
(* Evaluation: operators on the fields m of the gates.  value and          *)
(* critical_path are written before they are read in every call, as long   *)
(* as no gate is still marked as evaluated, and are kept within it.        *)

Fields == [visited |-> visited, evaluated |-> evaluated,
           value |-> [g \in Gate |-> FALSE], path |-> [g \in Gate |-> 0]]

cancel_dfs(m, g) == [m EXCEPT !.path[g] = -1]

\* The output is true as soon as one input is false.
Join(m, g, in_value, in_path) ==
  [m EXCEPT !.value[g] = @ \/ ~in_value,
            !.path[g] = IF in_path + 1 > @ THEN in_path + 1 ELSE @]

FieldsOf == [visited : SUBSET Gate, evaluated : SUBSET Gate,
             value : [Gate -> BOOLEAN], path : [Gate -> Int]]

\* One round of the loop of evaluate for an input that comes from gate h, if
\* search[<<m, h>>] is what the recursive call makes of the fields m.  A
\* visited gate that is not evaluated lies on the path of the search.
handle_gate(m, g, h, search) ==
  IF h \in m.visited \ m.evaluated THEN cancel_dfs(m, g)
  ELSE LET n == IF h \in m.visited THEN m ELSE search[<<m, h>>]
       IN IF n.path[h] = -1 THEN cancel_dfs(n, g)
          ELSE Join(n, g, n.value[h], n.path[h])

\* One round of the loop of evaluate, which a cancelled search has left.
handle(m, g, sig, search) ==
  CASE m.path[g] = -1 -> m
    [] m.path[g] # -1 /\ sig.type = "n" -> cancel_dfs(m, g)
    [] m.path[g] # -1 /\ sig.type = "b" -> Join(m, g, signal, 0)
    [] m.path[g] # -1 /\ sig.type = "g" ->
         handle_gate(m, g, sig.object, search)

Enter(m, g) ==
  [m EXCEPT !.visited = @ \cup {g}, !.value[g] = FALSE, !.path[g] = 0]

Rounds(m, g, search) ==
  FoldLeft(LAMBDA n, sig : handle(n, g, sig, search), m, input_signals[g])

Finish(m, g) ==
  IF m.path[g] = -1 THEN m ELSE [m EXCEPT !.evaluated = @ \cup {g}]

\* evaluate and clean are written as what they make of the fields and a gate,
\* if search is what the recursive call does; d levels of calls are enough
\* for d gates, for no call enters a gate twice.
Untouched == [w \in FieldsOf \X Alive |-> w[1]]

evaluate_once(search) ==
  [w \in FieldsOf \X Alive |->
     Finish(Rounds(Enter(w[1], w[2]), w[2], search), w[2])]

evaluate[d \in Nat] ==
  IF d = 0 THEN Untouched ELSE evaluate_once(evaluate[d - 1])

unmark(m, g) ==
  [m EXCEPT !.visited = @ \ {g}, !.evaluated = @ \ {g}]

\* Cleans the visited ones of the gates that sigs come from.
Wipe(m, sigs, search) ==
  FoldLeft(LAMBDA n, sig : IF sig.type = "g" /\ sig.object \in n.visited
                           THEN search[<<n, sig.object>>] ELSE n,
           m, sigs)

\* As clean_once, without the inputs.
clean_top(search) == [w \in FieldsOf \X Alive |-> unmark(w[1], w[2])]

clean_once(search) ==
  [w \in FieldsOf \X Alive |->
     Wipe(unmark(w[1], w[2]), input_signals[w[2]], search)]

clean[d \in Nat] == IF d = 0 THEN Untouched ELSE clean_once(clean[d - 1])

\* One gate of the call.  A gate listed twice, or below one listed before, is
\* not searched again, and the first gate that cannot be evaluated ends the
\* loop.
Query(st, g) ==
  IF st.res = -1 THEN st
  ELSE LET m == IF g \in st.m.evaluated THEN st.m
                ELSE evaluate[Cardinality(Gate)][<<st.m, g>>]
       IN [m |-> m, s |-> Append(st.s, m.value[g]),
           res |-> IF m.path[g] = -1 \/ m.path[g] > st.res
                   THEN m.path[g] ELSE st.res]

\* What the call leaves in the gates and returns.
Evaluation(gs) ==
  LET done == FoldLeft(Query, [m |-> Fields, s |-> <<>>, res |-> 0], gs)
  IN [done EXCEPT !.m = Wipe(@, [i \in DOMAIN gs |-> FromGate(gs[i])],
                             clean[Cardinality(Gate)])]

Queries == UNION {[1 .. n -> Alive] : n \in 1 .. MaxQueried}

nand_evaluate ==
  /\ \E gs \in Queries : LET m == Evaluation(gs).m
                         IN visited' = m.visited /\ evaluated' = m.evaluated
  /\ UNCHANGED <<links, signal>>

Next ==
  \/ FlipSignal
  \/ \E g \in Gate : nand_new(g) \/ nand_delete(g)
  \/ \E g \in Alive : \E k \in DOMAIN input_signals[g] :
       nand_connect_signal(g, k) \/ \E h \in Alive : nand_connect_nand(h, g, k)
  \/ nand_evaluate

-----------------------------------------------------------------------------
(* Properties                                                              *)

\* The two directions of every connection agree: a gate is listed among the
\* outputs of another as often as its inputs come from it (lines 150-171,
\* 219-221, 239-246), whatever was connected over, to itself, twice, or
\* deleted, and nothing points to a gate that was deleted.
LinksAgree ==
  \A h \in Alive :
    /\ \A k \in DOMAIN input_signals[h] :
         input_signals[h][k].type = "g" => input_signals[h][k].object \in Alive
    /\ \A g \in Alive :
         Cardinality({j \in DOMAIN output_signals[g] :
                        output_signals[g][j] = h})
           = Cardinality({k \in DOMAIN input_signals[h] :
                            input_signals[h][k] = FromGate(g)})
    /\ ToSet(output_signals[h]) \subseteq Alive

Undefined == [value |-> FALSE, path |-> -1]

\* What a gate gets at an input, if F is what the gates mean.
Given(F, sig) ==
  CASE sig.type = "n" -> Undefined
    [] sig.type = "b" -> [value |-> signal, path |-> 0]
    [] sig.type = "g" -> F[sig.object]

Combined(In) ==
  IF Undefined \in In THEN Undefined
  ELSE [value |-> \E in \in In : ~in.value,
        path |-> Max({0} \cup {in.path + 1 : in \in In})]

\* What the gates mean, if F is what they mean one level less deep.
Means(F) ==
  [g \in Alive |-> Combined({Given(F, sig) : sig \in ToSet(input_signals[g])})]

\* What a gate means, to a given depth: undefined when an input is missing or
\* the depth does not suffice, which for the number of gates means a cycle.
Meant[d \in Nat] ==
  IF d = 0 THEN [g \in Alive |-> Undefined] ELSE Means(Meant[d - 1])

Meaning == Meant[Cardinality(Gate)]

\* An evaluation gives every gate asked for the value its circuit defines,
\* and the longest path, or -1 exactly when one of them has none (lines
\* 42-113, 265-299), and leaves no mark behind, cancelled searches included
\* (lines 115-132): a mark left in a gate would spoil a later evaluation.
EvaluationRight ==
  /\ visited = {} /\ evaluated = {}
  /\ \A gs \in Queries :
       LET got == Evaluation(gs)
           Path == {Meaning[g].path : g \in ToSet(gs)}
       IN IF -1 \in Path THEN got.res = -1
          ELSE /\ got.res = Max(Path)
               /\ got.s = [i \in DOMAIN gs |-> Meaning[gs[i]].value]

=============================================================================
