----------------------------- MODULE PrologTerms -----------------------------
(***************************************************************************)
(* What the Prolog engine does by going down into a term or a goal: terms  *)
(* from expressions (pl_runtime.c), unification (prolog_unify.c), and the  *)
(* boxes of a body goal (pl_broker.c).  TermsOf, UnifyAll and GoalBox are  *)
(* the values of the parameters of PrologBoxes.                            *)
(***************************************************************************)
EXTENDS PrologBoxes, SequencesExt

\* pl_unified_term_from_expr: the term of expression e in the clause variables
\* env, with the cells of its anonymous variables added to the heap.
RECURSIVE TermOf(_, _, _), TermsOf(_, _, _)
TermOf(e, env, h) ==
  CASE e.is = "var"  -> [t |-> env[e.var], h |-> h]
    [] e.is = "wild" -> [t |-> Cell(Len(h.cells) + 1), h |-> NewCell(h, FALSE)]
    [] e.is = "atom" -> [t |-> Term("atom", e.name, <<>>, 0), h |-> h]
    [] e.is = "fun"  -> LET r == TermsOf(e.args, env, h)
                        IN [t |-> Term("fun", e.name, r.t, 0), h |-> r.h]
TermsOf(es, env, h) ==
  IF es = <<>> THEN [t |-> <<>>, h |-> h]
  ELSE LET r == TermOf(Head(es), env, h)
           s == TermsOf(Tail(es), env, r.h)
       IN [t |-> <<r.t>> \o s.t, h |-> s.h]

RECURSIVE term_deref(_, _)
term_deref(t, h) ==
  IF t.is = "var" /\ h.cells[t.cell].ref # Free THEN term_deref(h.cells[t.cell].ref, h) ELSE t

\* unify: what it has bound before it fails stays bound.
RECURSIVE unify(_, _, _), UnifyAll(_, _, _)
unify(t1, t2, h) ==
  LET a == term_deref(t1, h)
      b == term_deref(t2, h)
  IN CASE a = b         -> [ok |-> TRUE, h |-> h]
       [] a # b /\ a.is = "var" -> [ok |-> TRUE, h |-> bind(h, a.cell, b)]
       [] a # b /\ a.is # "var" /\ b.is = "var" -> [ok |-> TRUE, h |-> bind(h, b.cell, a)]
       [] OTHER -> IF a.is = "fun" /\ b.is = "fun" /\ a.name = b.name /\ Len(a.args) = Len(b.args)
                   THEN UnifyAll(a.args, b.args, h)
                   ELSE [ok |-> FALSE, h |-> h]
UnifyAll(ts, us, h) ==
  IF ts = <<>> THEN [ok |-> TRUE, h |-> h]
  ELSE LET r == unify(Head(ts), Head(us), h)
       IN IF r.ok THEN UnifyAll(Tail(ts), Tail(us), r.h) ELSE r

-----------------------------------------------------------------------------
(* The boxes of a goal *)

\* pl_box_alt of the goals ids and, on their right, the box s.id.  The mutated
\* form makes a disjunction of its right side twice.
AltTwice(s, ids) == New(s, [BoxOf("alt") EXCEPT !.kids = <<s.id, s.id>>])
RECURSIVE AltWith(_, _)
AltWith(s, ids) ==
  IF ids = <<>> THEN s ELSE AltWith(New(s, [BoxOf("alt") EXCEPT !.kids = <<Last(ids), s.id>>]), Front(ids))

\* pl_box_choice_call: an argument that is the anonymous variable gets a cell
\* that is trailed.
RECURSIVE ArgsOf(_, _, _)
ArgsOf(es, env, h) ==
  IF es = <<>> THEN [t |-> <<>>, h |-> h]
  ELSE LET r == IF Head(es).is = "wild" THEN [t |-> Cell(Len(h.cells) + 1), h |-> NewCell(h, TRUE)]
                ELSE TermOf(Head(es), env, h)
           s == ArgsOf(Tail(es), env, r.h)
       IN [t |-> <<r.t>> \o s.t, h |-> s.h]

\* pl_box_goal_from_ir: "->" is a conjunction, an if-then-else a disjunction.
RECURSIVE GoalBox(_, _, _), GoalBoxes(_, _, _)
GoalBox(s, g, env) ==
  CASE g.is \in {"true", "fail", "cut"} -> New(s, BoxOf(g.is))
    [] g.is \in {"unify", "is", "not"}  -> New(s, [BoxOf(g.is) EXCEPT !.goal = g, !.env = env])
    [] g.is \in {"and", "ifthen"} -> LET r == GoalBoxes(s, g.kids, env) IN CatList(r.s, r.ids)
    [] g.is = "or" ->
         LET r == GoalBoxes(s, g.kids, env) IN AltWith([r.s EXCEPT !.id = Last(r.ids)], Front(r.ids))
    [] g.is = "call" ->
         LET r == ArgsOf(g.args, env, s.heap) IN New([s EXCEPT !.heap = r.h], Choice(g.pred, r.t))
GoalBoxes(s, gs, env) ==
  IF gs = <<>> THEN [s |-> s, ids |-> <<>>]
  ELSE LET t == GoalBox(s, Head(gs), env)
           r == GoalBoxes(t, Tail(gs), env)
       IN [s |-> r.s, ids |-> <<t.id>> \o r.ids]
=============================================================================
