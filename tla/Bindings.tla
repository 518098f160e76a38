------------------------------ MODULE Bindings ------------------------------
(***************************************************************************)
(* Variable bindings of the Prolog engine (frontend/prolog/prolog_unify.c):*)
(* a store of variable cells and the trail that remembers which of them to *)
(* unbind.  A cell is bound by pointing it at a term; it is on the trail   *)
(* unless it is an anonymous variable (slot -1), which is not "named".     *)
(***************************************************************************)
EXTENDS Integers, Sequences

CONSTANT Free    \* the content of a cell that nothing has bound

NoBindings == [cells |-> <<>>, trail |-> <<>>]

\* term_new_var, and the n variables of pl_env_new: new cells.
FreeCell(named)   == [ref |-> Free, named |-> named]
NewCell(h, named) == [h EXCEPT !.cells = Append(@, FreeCell(named))]
NewEnv(h, n)      == [h EXCEPT !.cells = @ \o [i \in 1 .. n |-> FreeCell(TRUE)]]

trail_mark(h) == Len(h.trail)

\* bind: anonymous cells are not trailed.  The mutated form takes a cell that
\* another variable may share for an anonymous one.
Untrailed(h, c, t) ==
  [cells |-> [h.cells EXCEPT ![c].ref = t],
   trail |-> IF h.cells[c].named /\ t.is # "var" THEN Append(h.trail, c) ELSE h.trail]
bind(h, c, t) ==
  [cells |-> [h.cells EXCEPT ![c].ref = t],
   trail |-> IF h.cells[c].named THEN Append(h.trail, c) ELSE h.trail]

\* The cells that trail_unwind unbinds, and the trail that it leaves; a mark that
\* lies above the top unwinds nothing.  The mutated form leaves the lowest entry
\* bound.
Trailed(h, mark) == {h.trail[i] : i \in mark + 1 .. Len(h.trail)}
OneTooFew(h, mark) ==
  [cells |-> [c \in DOMAIN h.cells |->
                IF c \in Trailed(h, mark + 1) THEN [h.cells[c] EXCEPT !.ref = Free] ELSE h.cells[c]],
   trail |-> IF mark < Len(h.trail) THEN SubSeq(h.trail, 1, mark) ELSE h.trail]
trail_unwind(h, mark) ==
  [cells |-> [c \in DOMAIN h.cells |->
                IF c \in Trailed(h, mark) THEN [h.cells[c] EXCEPT !.ref = Free] ELSE h.cells[c]],
   trail |-> IF mark < Len(h.trail) THEN SubSeq(h.trail, 1, mark) ELSE h.trail]
=============================================================================
