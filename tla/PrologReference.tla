--------------------------- MODULE PrologReference ---------------------------
(***************************************************************************)
(* What a Prolog goal answers, as a function: the solutions of a list of   *)
(* goals in the order of the search.  Backtracking is going back to a      *)
(* store of bindings that was kept: nothing is undone.                     *)
(***************************************************************************)
EXTENDS PrologTerms

\* A goal with the variables of its clause and the level of the call that chose
\* the clause, where a cut in it takes effect.
Pending(g, env, level) == [goal |-> g, env |-> env, level |-> level]
WithEnv(gs, env, level) == [i \in DOMAIN gs |-> Pending(gs[i], env, level)]

\* The solutions of the goals gs from the store h, and the level of a cut that has
\* been executed on the way: alternatives that were open at that level or are
\* younger are not tried.  n is the youngest level.
RECURSIVE Answers(_, _, _), AnyOf(_, _)
\* The first alternatives, up to and with the one that cuts.
AnyOf(Alternative(_), m) ==
  LET RECURSIVE Try(_)
      Try(i) == IF i > m THEN [sols |-> <<>>, cut |-> 0]
                ELSE LET r == Alternative(i)
                     IN IF r.cut # 0 THEN r
                        ELSE LET s == Try(i + 1) IN [sols |-> r.sols \o s.sols, cut |-> s.cut]
  IN Try(1)

None == [sols |-> <<>>, cut |-> 0]

Answers(gs, h, n) ==
  IF gs = <<>> THEN [sols |-> <<h>>, cut |-> 0]
  ELSE
    LET p    == Head(gs)
        g    == p.goal
        rest == Tail(gs)
        ts   == TermsOf(g.args, p.env, h)
        u    == unify(ts.t[1], ts.t[2], ts.h)
        Alternative(i) == Answers(<<Pending(g.kids[i], p.env, p.level)>> \o rest, h, n)
        Clause(i) ==
          LET c   == prog.preds[g.pred][i]
              env == [k \in 1 .. c.nvars |-> Cell(Len(ts.h.cells) + k)]
              hs  == TermsOf(c.head, env, NewEnv(ts.h, c.nvars))
              m   == UnifyAll(ts.t, hs.t, hs.h)
          IN IF m.ok THEN Answers(WithEnv(c.body, env, n + 1) \o rest, m.h, n + 1) ELSE None
    IN CASE g.is = "true" -> Answers(rest, h, n)
         [] g.is = "fail" -> None
         [] g.is \in {"unify", "is"} -> IF u.ok THEN Answers(rest, u.h, n) ELSE None
         [] g.is = "cut" ->
              LET r == Answers(rest, h, n)
              IN [r EXCEPT !.cut = IF @ = 0 \/ p.level < @ THEN p.level ELSE @]
         [] g.is \in {"and", "ifthen"} -> Answers(WithEnv(g.kids, p.env, p.level) \o rest, h, n)
         [] g.is = "or" -> AnyOf(Alternative, Len(g.kids))
         [] g.is = "not" ->
              IF Answers(<<Pending(g.kids[1], p.env, n + 1)>>, h, n + 1).sols = <<>>
              THEN Answers(rest, h, n) ELSE None
         [] g.is = "call" ->
              LET r == AnyOf(Clause, Len(prog.preds[g.pred]))
              IN [r EXCEPT !.cut = IF @ > n THEN 0 ELSE @]

\* The call of the program's main predicate, whose arguments are variables.
MainGoal == [is |-> "call", pred |-> prog.main, kids |-> <<>>,
             args |-> [i \in DOMAIN MainArgs(prog) |-> [is |-> "var", var |-> i]]]
Start    == NewEnv(NoBindings, Len(MainArgs(prog)))
Solutions == Answers(<<Pending(MainGoal, MainArgs(prog), 0)>>, Start, 1).sols

\* A term with its variables replaced by what they are bound to.
RECURSIVE Resolved(_, _)
Resolved(t, h) ==
  LET d == term_deref(t, h)
  IN CASE d.is = "var" -> Term("var", "", <<>>, 0)
       [] d.is = "fun" -> Term("fun", d.name, [i \in DOMAIN d.args |-> Resolved(d.args[i], h)], 0)
       [] OTHER -> d
AnswerIn(h) == [i \in DOMAIN MainArgs(prog) |-> Resolved(Cell(i), h)]

\* Programs for which the boxes promise the search of Prolog: a cut has nothing to
\* its left that could be resumed, a disjunction does not contain builtins that
\* bind, nothing commits with "->", and anonymous variables stand where they are
\* trailed.
RECURSIVE Inside(_)
Inside(g) == {g} \cup UNION {Inside(g.kids[i]) : i \in DOMAIN g.kids}
Deep(g)   == Inside(g) \ {g}
PlainBody(b) ==
  /\ \A i \in DOMAIN b :
       /\ b[i].is = "cut" => i = 1
       /\ \A d \in Deep(b[i]) : d.is # "cut" /\ (b[i].is = "or" => d.is # "is")
       /\ \A d \in Inside(b[i]) :
            /\ d.is # "ifthen"
            /\ \A j \in DOMAIN d.args : d.args[j].is = "fun" => \A k \in DOMAIN d.args[j].args : d.args[j].args[k].is # "wild"
            /\ d.is = "not" => \A j \in DOMAIN d.kids[1].args : d.kids[1].args[j].is # "wild"
Plain == \A p \in DOMAIN prog.preds : \A i \in DOMAIN prog.preds[p] : PlainBody(prog.preds[p][i].body)

\* The goal is answered with the first solution of the search, or with failure
\* when there is none: that the bindings of abandoned branches are undone, each
\* alternative is tried once and in order, and cuts end what they should end, all
\* show in it.
FirstSolution ==
  Plain => /\ phase = "yes" => Solutions # <<>> /\ AnswerIn(heap) = AnswerIn(Solutions[1])
           /\ phase = "no"  => Solutions = <<>>
=============================================================================
