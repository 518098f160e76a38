-------------------------------- MODULE Trail --------------------------------
(***************************************************************************)
(* The trail as its clients use it: variables are bound one at a time,     *)
(* choice boxes, heads and unifications keep marks in their zeta, unwind   *)
(* to one of them, and forget it when they fail or are cut.  No copy of    *)
(* the bindings is kept.  A variable that has not been made yet is one     *)
(* that is free; the growth of the array behind the trail is left out.     *)
(***************************************************************************)
EXTENDS Bindings

CONSTANTS
  Vars,        \* the variable cells
  Named,       \* those that are not anonymous
  Terms,       \* what a variable can be bound to
  MaxMarks     \* the bound on the marks that are kept

ASSUME TrailAssumption == Free \notin Terms /\ Named \subseteq Vars /\ MaxMarks \in Nat

VARIABLES
  heap,        \* the cells and g_pl_trail
  marks        \* the marks that boxes keep, oldest first

vars == <<heap, marks>>

Heaps == [cells : [Vars -> [ref : Terms \cup {Free}, named : BOOLEAN]], trail : Seq(Vars)]

Init == heap = [cells |-> [c \in Vars |-> FreeCell(c \in Named)], trail |-> <<>>] /\ marks = <<>>

\* unify binds a variable that dereferencing has found free.  The mutated form
\* binds it again when it is bound.
Rebind == \E c \in Vars, t \in Terms : heap' = bind(heap, c, t) /\ marks' = marks
Bind == \E c \in Vars, t \in Terms :
          heap.cells[c].ref = Free /\ heap' = bind(heap, c, t) /\ marks' = marks

Mark == Len(marks) < MaxMarks /\ marks' = Append(marks, trail_mark(heap)) /\ heap' = heap

Unwind == \E k \in DOMAIN marks : heap' = trail_unwind(heap, marks[k]) /\ marks' = SubSeq(marks, 1, k)

Forget == \E k \in DOMAIN marks : marks' = SubSeq(marks, 1, k - 1) /\ heap' = heap

Next == Bind \/ Mark \/ Unwind \/ Forget

Spec == Init /\ [][Next]_vars

-----------------------------------------------------------------------------
(* Properties *)

\* Every variable has its type.
TypeOK == heap \in Heaps /\ marks \in Seq(Nat)

\* No variable is on the trail twice, and those on it are the named ones that are
\* bound: an anonymous variable is never unbound (prolog_unify.c: "Don't trail
\* anonymous wildcards").
TrailListsBound ==
  /\ \A i, j \in DOMAIN heap.trail : heap.trail[i] = heap.trail[j] => i = j
  /\ \A c \in Vars : (\E i \in DOMAIN heap.trail : heap.trail[i] = c)
                       <=> heap.cells[c].named /\ heap.cells[c].ref # Free

\* Marks are in the order of the trail, and none is above its top.
MarksInOrder ==
  /\ \A k \in DOMAIN marks : marks[k] <= Len(heap.trail)
  /\ \A k, l \in DOMAIN marks : k <= l => marks[k] <= marks[l]

\* The named variables as they were when the trail had n entries: those trailed
\* since are free.
AsOf(n) == [c \in Named |-> IF c \in Trailed(heap, n) THEN Free ELSE heap.cells[c].ref]

\* The trail keeps what copies of the store would keep: whatever was bound since
\* a mark, unwinding to it brings back the named variables as they were there
\* (prolog_unify.c: "to restore the variable environment before retrying or
\* signalling failure").
Copies == INSTANCE Checkpoints
            WITH Names <- Named, store <- [c \in Named |-> heap.cells[c].ref],
                 saved <- [k \in DOMAIN marks |-> AsOf(marks[k])]
RestoresCopies == Copies!Spec
=============================================================================
