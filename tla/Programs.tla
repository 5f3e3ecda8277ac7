------------------------------ MODULE Programs ------------------------------
(***************************************************************************)
(* The sequential programs and libraries side by side: every behaviour     *)
(* takes the steps of one of them, and the others rest where they started. *)
(***************************************************************************)
EXTENDS Sumsets, Sequences, SequencesExt

CONSTANTS
  MaxInput,                    \* of NonrecursiveSearch
  Gate, Arity, MaxQueried,     \* of Nand
  Window, MaxCustomers,        \* of OfficeQueues
  Binder, Key, Value,          \* of Binder
  Entrant, MAX_GOLD, MaxPretenders   \* of Knights

ASSUME InputAssumption == MaxInput \in Nat

\* The number of inputs is unsigned (nand.c line 174), as that of the gates a
\* call evaluates (line 265); the addresses are finitely many.
ASSUME ArityAssumption ==
  /\ IsFiniteSet(Gate) /\ Arity \in [Gate -> SUBSET Nat]
  /\ MaxQueried \in Nat

\* The windows are numbered (kol.h line 30); the bound is a number.
ASSUME WindowAssumption ==
  /\ IsFiniteSet(Window) /\ Window = 1 .. Cardinality(Window)
  /\ MaxCustomers \in Nat

\* What a knight has is unsigned, and his gold at most MAX_GOLD (knights.h
\* lines 17, 74-76).
ASSUME KnightAssumption ==
  /\ MAX_GOLD \in Nat
  /\ Entrant \subseteq [gold : 0 .. MAX_GOLD, weapon : Nat, armour : Nat]

VARIABLES
  program,
  input, stack, best,
  input_signals, output_signals, visited, evaluated, signal,
  l1, l2, kolejki, akt_numerek, returned,
  content, cell, held, broken,
  pretenders, eliminated

Search == INSTANCE NonrecursiveSearch
Gates == INSTANCE Nand
Office == INSTANCE OfficeQueues
Binders == INSTANCE Binder
Tournament == INSTANCE Knights

Init ==
  /\ program \in {"search", "gates", "office", "binders", "tournament"}
  /\ IF program = "search" THEN Search!Init
     ELSE input = 0 /\ stack = <<>> /\ best = 0
  /\ Gates!Init /\ Office!Init /\ Binders!Init /\ Tournament!Init
  /\ program = "gates" \/ ~signal

search == <<input, stack, best>>
gates == <<input_signals, output_signals, visited, evaluated, signal>>
office == <<l1, l2, kolejki, akt_numerek, returned>>
binders == <<content, cell, held, broken>>
tournament == <<pretenders, eliminated>>

Next ==
  /\ UNCHANGED program
  /\ \/ /\ program = "search" /\ Search!Next
        /\ UNCHANGED <<gates, office, binders, tournament>>
     \/ /\ program = "gates" /\ Gates!Next
        /\ UNCHANGED <<search, office, binders, tournament>>
     \/ /\ program = "office" /\ Office!Next
        /\ UNCHANGED <<search, gates, binders, tournament>>
     \/ /\ program = "binders" /\ Binders!Next
        /\ UNCHANGED <<search, gates, office, tournament>>
     \/ /\ program = "tournament" /\ Tournament!Next
        /\ UNCHANGED <<search, gates, office, binders>>

vars == <<program, search, gates, office, binders, tournament>>

Spec == Init /\ [][Next]_vars

-----------------------------------------------------------------------------
(* The properties of the programs, each stated in its module               *)

StackFits == program = "search" => Search!StackFits
FindsGreatest == program = "search" => Search!FindsGreatest
LinksAgree == Gates!LinksAgree
EvaluationRight == Gates!EvaluationRight
ImplementsQueues == Office!ImplementsQueues
BindersApart == Binders!BindersApart
NothingFromNothing == Tournament!NothingFromNothing

=============================================================================
