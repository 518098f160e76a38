------------------------------ MODULE Patterns ------------------------------
(***************************************************************************)
(* Building patterns and programs for the model-checking modules: the      *)
(* constructors lay a pattern tree out as the sequence of its boxes, root  *)
(* first.                                                                  *)
(***************************************************************************)
EXTENDS Integers, Sequences

Blank == [fn |-> "eps", kids |-> <<>>, text |-> <<>>, chars |-> {}, num |-> 0,
          var |-> "X", kind |-> "NM_VAR", immediate |-> FALSE]

Prim(f)      == <<[Blank EXCEPT !.fn = f]>>
Lit(t)       == <<[Blank EXCEPT !.fn = "lit", !.text = t]>>
OfSet(f, S)  == <<[Blank EXCEPT !.fn = f, !.chars = S]>>
OfNum(f, k)  == <<[Blank EXCEPT !.fn = f, !.num = k]>>
Atp(v)       == <<[Blank EXCEPT !.fn = "atp", !.var = v]>>

Shifted(p, k) == [i \in DOMAIN p |-> [p[i] EXCEPT !.kids = [j \in DOMAIN p[i].kids |-> p[i].kids[j] + k]]]

Over(b, p)    == <<[b EXCEPT !.kids = <<2>>]>> \o Shifted(p, 1)
Both(f, p, q) == <<[Blank EXCEPT !.fn = f, !.kids = <<2, Len(p) + 2>>]>>
                   \o Shifted(p, 1) \o Shifted(q, Len(p) + 1)

Cat(p, q)  == Both("seq", p, q)
\* FENCE(P)
Fence(p)   == Cat(p, Prim("fence"))
Alt(p, q)  == Both("alt", p, q)
Arbno(p)   == Over([Blank EXCEPT !.fn = "arbno"], p)
Not(p)     == Over([Blank EXCEPT !.fn = "not"], p)
Interr(p)  == Over([Blank EXCEPT !.fn = "interr"], p)
Dot(p, v)  == Over([Blank EXCEPT !.fn = "cap", !.var = v], p)
Dollar(p, v)  == Over([Blank EXCEPT !.fn = "cap", !.var = v, !.immediate = TRUE], p)
DotCall(p, v) == Over([Blank EXCEPT !.fn = "cap", !.var = v, !.kind = "NM_CALL"], p)
DollarCall(p, v) == Over([Blank EXCEPT !.fn = "cap", !.var = v, !.kind = "NM_CALL", !.immediate = TRUE], p)

\* All texts of n characters over S.
Texts(S, n) == [1 .. n -> S]

Statement(t, p) == [sub |-> t, pat |-> p, anchor |-> FALSE, has_repl |-> TRUE, repl |-> <<"r">>,
                    home |-> TRUE]

\* Every pattern of P on every subject of T.
Cross(T, P) == {Statement(t, p) : t \in T, p \in P}
=============================================================================
