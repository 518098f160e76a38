------------------------------ MODULE MCProlog ------------------------------
(* Programs with facts for several predicates, and clauses over them made of *)
(* conjunction, disjunction, negation, unification, is/2 and cuts.  None makes *)
(* a term that contains itself: unify has no occurs check.                   *)
EXTENDS PrologReference
MCFree == [is |-> "free"]

V(i)    == [is |-> "var", var |-> i]
W       == [is |-> "wild"]
At(a)   == [is |-> "atom", name |-> a]
Fn(f, es) == [is |-> "fun", name |-> f, args |-> es]

Goal(is, args, kids, pred) == [is |-> is, args |-> args, kids |-> kids, pred |-> pred]
Tr        == Goal("true", <<>>, <<>>, "")
Fl        == Goal("fail", <<>>, <<>>, "")
Cut       == Goal("cut", <<>>, <<>>, "")
Eq(x, y)  == Goal("unify", <<x, y>>, <<>>, "")
Is(x, y)  == Goal("is", <<x, y>>, <<>>, "")
Or(g, k)  == Goal("or", <<>>, <<g, k>>, "")
And(g, k) == Goal("and", <<>>, <<g, k>>, "")
P(p, es)  == Goal("call", es, <<>>, p)
Naf(g)    == Goal("not", <<>>, <<g>>, "")

Clause(n, head, body) == [nvars |-> n, head |-> head, body |-> body]
Fact(head) == Clause(0, head, <<>>)
X == V(1)
Y == V(2)
Z == V(3)

\* d/1 and e/2 are facts, c/1 cuts before it tries its body, l/1 goes through a
\* list, m/2 is member/2.
Base == [d |-> <<Fact(<<At("a")>>), Fact(<<At("b")>>)>>,
         e |-> <<Fact(<<At("a"), At("b")>>), Clause(1, <<X, X>>, <<>>), Fact(<<At("b"), At("c")>>)>>,
         c |-> <<Clause(1, <<At("a")>>, <<Cut, P("d", <<X>>)>>),
                 Clause(1, <<X>>, <<Eq(X, At("b"))>>), Clause(1, <<X>>, <<Cut, P("d", <<X>>), Fl>>),
                 Fact(<<At("c")>>)>>,
         m |-> <<Clause(1, <<X, Fn(".", <<X, W>>)>>, <<>>),
                 Clause(2, <<X, Fn(".", <<W, Y>>)>>, <<P("m", <<X, Y>>)>>)>>]

List == Fn(".", <<At("b"), Fn(".", <<At("a"), At("nil")>>)>>)

Tests == {Eq(X, At("b")), Eq(X, Y), Eq(Fn("g", <<X, At("b")>>), Fn("g", <<At("b"), Y>>)), Is(Y, At("b")), Fl, P("e", <<X, At("c")>>)}
Gens  == {P("d", <<X>>), P("e", <<X, Y>>), P("c", <<X>>), P("c", <<Y>>), P("m", <<X, List>>), P("e", <<W, X>>),
          Or(Eq(X, At("a")), P("d", <<Y>>)), Or(And(P("d", <<X>>), Eq(Y, X)), Eq(X, At("c"))),
          Naf(P("e", <<X, At("a")>>)), Naf(P("d", <<Y>>)), Naf(P("d", <<At("c")>>)), Tr, Or(Is(X, At("a")), Is(X, At("b")))}
Bodies == {<<g, h, t>> : g \in Gens, h \in Gens, t \in Tests}
            \cup {<<g, Cut, t>> : g \in Gens, t \in Tests} \cup {<<Cut, g, t>> : g \in Gens, t \in Tests}

WithMain(B) == {[preds |-> [main |-> <<Clause(2, <<X, Y>>, b), Fact(<<At("z"), W>>)>>] @@ Base, main |-> "main"] : b \in B}
\* The same bodies one call further down, resumed by what follows them.
Called == {<<P("s", <<X, Y>>), t>> : t \in {Eq(X, At("b")), P("d", <<Y>>), Fl}}
WithSub(B) == {[preds |-> [main |-> <<Clause(2, <<X, Y>>, m)>>,
                           s |-> <<Clause(2, <<X, Y>>, b), Fact(<<At("b"), At("b")>>)>>] @@ Base,
                main |-> "main"] : b \in B, m \in Called}

MCProgram == WithMain(Bodies) \cup WithSub({<<g, h>> : g \in Gens, h \in Gens \cup Tests \cup {Cut}})

\* main calls s, whose cut stands behind a goal that is resumed.
CutProgram == {[preds |-> [main |-> <<Clause(2, <<X, Y>>, <<P("s", <<X>>), Eq(X, At("z"))>>), Fact(<<At("z"), W>>)>>,
                           s |-> <<Clause(1, <<X>>, <<P("d", <<X>>), Cut>>)>>] @@ Base, main |-> "main"]}
=============================================================================
