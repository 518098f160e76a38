------------------------------ MODULE MCResume ------------------------------
(* Statements whose result depends on more than the pattern: ARBNO resumed   *)
(* by a box after it that fails, captures that call functions, at once or at *)
(* the commit, and SUCCEED, with which a search may go on for ever.          *)
EXTENDS ByrdBoxes, Patterns
MCChars == {"a", "b", "r"}
MCVars  == {"X", "Y"}
A       == Lit(<<"a">>)
L       == OfNum("len", 1)
Bodies  == {A, OfSet("any", {"a", "b"}), Cat(A, Lit(<<"b">>)), Alt(Lit(<<"a", "b">>), A), L}
Tails   == {Lit(<<"b">>), OfNum("rpos", 0), Prim("fail"), Cat(L, OfNum("rpos", 0))}
Resumed == Cross(Texts({"a", "b"}, 2) \cup Texts({"a", "b"}, 3), {Cat(Arbno(p), q) : p \in Bodies, q \in Tails})

Caps    == {Dot(L, "X"), Dot(L, "Y"), Dot(A, "X"), DotCall(L, "Y"), DotCall(Prim("arb"), "X"), Dollar(L, "Y"),
            DollarCall(A, "Y"), DollarCall(Prim("arb"), "X"), Alt(DotCall(A, "X"), Dot(L, "X")), Atp("X")}
Guards  == {Prim("eps"), Prim("succeed"), Alt(A, Prim("succeed"))}
Calling == Cross({<<"a", "a", "b">>, <<"b", "a", "a">>, <<"b", "b">>},
                 {Cat(Cat(p, q), r) : p \in Caps, q \in Caps, r \in Caps}
                   \cup {Cat(Cat(g, p), q) : g \in Guards, p \in Caps, q \in Caps})
MCProgram == Resumed \cup Calling

\* A statement without SUCCEED ends: of ARBNO's repetitions each resumption
\* takes one away, whatever the span that it returns holds.
ResumptionEnds == (\A n \in Box : Pat[n].fn # "succeed") => <>(phase = "done")
=============================================================================
