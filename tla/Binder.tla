------------------------------- MODULE Binder -------------------------------
(***************************************************************************)
(* Binders of notes under keys that share their contents until one is      *)
(* changed.  A content is a list of notes and a map from keys to places in *)
(* the list, both freed with the last binder that holds them.  Copying a   *)
(* value may throw while a note is inserted.                               *)
(***************************************************************************)
EXTENDS FiniteSets, Integers, Sequences, SequencesExt

CONSTANTS
  Binder,  \* binder variables, 1 .. n
  Key,
  Value

VARIABLES
  content,  \* of each binder: the cell its two pointers share, or nullptr
  cell,     \* the notes and the keys of the map of each cell
  held,     \* the last reference read() gave and that is still valid
  broken    \* whether the end of a list was used as a note: the rest is
            \* undefined, and the model stops

vars == <<content, cell, held, broken>>

nullptr == 0
Cell == 1 .. Cardinality(Binder) + 1
Empty == [notes |-> <<>>, iters |-> {}]
NoReference == [cell |-> nullptr]

Keys(notes) == {notes[i].key : i \in DOMAIN notes}
Note(k, v) == [key |-> k, value |-> v]
Place(notes, k) == SelectInSeq(notes, LAMBDA n : n.key = k)

Init ==
  /\ content = [b \in Binder |-> nullptr]
  /\ cell = [c \in Cell |-> Empty]
  /\ held = NoReference
  /\ broken = FALSE

Of(b) == IF content[b] = nullptr THEN Empty ELSE cell[content[b]]
use_count(b) ==
  IF content[b] = nullptr THEN 0
  ELSE Cardinality({x \in Binder : content[x] = content[b]})

\* Contents nobody holds are freed, and references into them are void; so is
\* one to a note that is removed.
Collect(contents, cells) ==
  LET used == {contents[b] : b \in Binder}
  IN /\ content' = contents
     /\ cell' = [c \in Cell |-> IF c \in used THEN cells[c] ELSE Empty]
     /\ held' = IF held.cell \in used \ {nullptr}
                     /\ held.key \in Keys(cells[held.cell].notes)
                THEN held ELSE NoReference

\* Binder b gets the content new, in a cell of its own if it has none or has
\* to copy the one it shares.
Store(b, copied, new) ==
  LET c == IF copied \/ content[b] = nullptr
           THEN CHOOSE d \in Cell : \A x \in Binder : content[x] # d
           ELSE content[b]
  IN Collect([content EXCEPT ![b] = c], [cell EXCEPT ![c] = new])

\* A copy has the keys of the notes that were copied.
Copied(b, copied) ==
  IF copied THEN [notes |-> Of(b).notes, iters |-> Keys(Of(b).notes)]
  ELSE Of(b)

Undefined == broken' = TRUE /\ UNCHANGED <<content, cell, held>>

\* The key is in the map when emplace throws; only a list that is not yet the
\* binder's own is discarded.
Insert(b, k, place, v) ==
  LET copied == use_count(b) > 1
      old == Copied(b, copied)
  IN \/ /\ Store(b, copied, [notes |-> InsertAt(old.notes, place, Note(k, v)),
                             iters |-> old.iters \cup {k}])
        /\ UNCHANGED broken
     \/ /\ use_count(b) = 1
        /\ Store(b, FALSE, [old EXCEPT !.iters = @ \cup {k}])
        /\ UNCHANGED broken

insert_front(b, k, v) == k \notin Of(b).iters /\ Insert(b, k, 1, v)

\* A binder without a map is not asked for prev_k.
insert_after(b, prev_k, k, v) ==
  LET notes == Of(b).notes
  IN /\ k \notin Of(b).iters
     /\ content[b] # nullptr => prev_k \in Of(b).iters
     /\ IF prev_k \notin Keys(notes) THEN Undefined
        ELSE Insert(b, k, Place(notes, prev_k) + 1, v)

\* As Shared, comparing with the count before the call took its own pointer.
SharedByThree(b) == use_count(b) > 2

\* The call holds the content once more itself.
Shared(b) == use_count(b) + 1 > 2

Erase(b, k) ==
  LET copied == Shared(b)
      old == Copied(b, copied)
  IN /\ Store(b, copied, [notes |-> RemoveAt(old.notes, Place(old.notes, k)),
                          iters |-> old.iters \ {k}])
     /\ UNCHANGED broken

\* Line 186 looks at the map, line 205 at the list.
remove_front(b) ==
  /\ Of(b).iters # {}
  /\ IF Of(b).notes = <<>> THEN Undefined ELSE Erase(b, Head(Of(b).notes).key)

remove(b, k) ==
  /\ k \in Of(b).iters
  /\ IF k \notin Keys(Of(b).notes) THEN Undefined ELSE Erase(b, k)

\* read() that gives a reference to write through; valid_non_const_reference
\* stays FALSE, and later copies share the note.
read(b, k) ==
  LET copied == use_count(b) > 1
      new == Copied(b, copied)
      c == IF copied THEN CHOOSE d \in Cell : \A x \in Binder : content[x] # d
           ELSE content[b]
  IN /\ k \in new.iters
     /\ IF k \notin Keys(new.notes) THEN Undefined
        ELSE /\ content' = [content EXCEPT ![b] = c]
             /\ cell' = [cell EXCEPT ![c] = new]
             /\ held' = [cell |-> c, key |-> k]
             /\ UNCHANGED broken

\* The caller assigns to the reference.
Write(v) ==
  /\ held # NoReference
  /\ LET notes == cell[held.cell].notes
         i == Place(notes, held.key)
     IN cell' = [cell EXCEPT ![held.cell].notes[i].value = v]
  /\ UNCHANGED <<content, held, broken>>

\* Copying and moving into a binder, and clear().
Assign(a, b) ==
  Collect([content EXCEPT ![a] = content[b]], cell) /\ UNCHANGED broken

Move(a, b) ==
  /\ Collect([content EXCEPT ![a] = content[b], ![b] = nullptr], cell)
  /\ UNCHANGED broken

clear(b) ==
  Collect([content EXCEPT ![b] = nullptr], cell) /\ UNCHANGED broken

Change(b) ==
  \/ \E k \in Key, v \in Value : insert_front(b, k, v)
  \/ \E j, k \in Key, v \in Value : insert_after(b, j, k, v)
  \/ remove_front(b)
  \/ \E k \in Key : remove(b, k) \/ read(b, k)
  \/ clear(b)

Next ==
  /\ ~broken
  /\ \/ \E b \in Binder : Change(b)
     \/ \E v \in Value : Write(v)
     \/ \E a, b \in Binder : a # b /\ (Assign(a, b) \/ Move(a, b))

Spec == Init /\ [][Next]_vars

-----------------------------------------------------------------------------
(* Properties                                                              *)

\* A call on one binder is never seen through another (lines 106-123, 154-167,
\* 190-203, 228-242, 262-283): only moving changes two, and only a write
\* through a reference that was read before the binder was copied reaches
\* every binder that shares the note.
BindersApart ==
  [][\/ Cardinality({b \in Binder : Of(b).notes # Of(b)'.notes}) <= 1
     \/ \E a, b \in Binder : Move(a, b)
     \/ \E v \in Value : Write(v)]_vars

=============================================================================
