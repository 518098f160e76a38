------------------------------ MODULE MCMatch ------------------------------
(* Statements whose result the reference search tells: small patterns built  *)
(* of captures, concatenation and alternation; every primitive, before and   *)
(* after every other, and resumed; ARBNO where nothing resumes it, and tests *)
(* by NOT and INTERR before boxes that can fail.  Left out is where the boxes *)
(* do something else than the repository says: BAL before a parenthesis that *)
(* nothing closes; FENCE resumed while there is something left to try;       *)
(* ABORT beside an alternative.                                              *)
EXTENDS MatchReference, Patterns
MCChars == {"a", "b", "(", ")", "r"}
MCVars  == {"X", "Y"}
A == Lit(<<"a">>)

\* Patterns of up to three boxes, some of them captured.
Small == {A, Lit(<<"a", "b">>), Prim("arb"), OfNum("len", 1)}
Caps  == {Dot(p, "X") : p \in Small} \cup {Dollar(p, "Y") : p \in {Prim("arb"), A}} \cup {Atp("Y")}
Two   == {Cat(p, q) : p \in Small \cup Caps, q \in Small} \cup {Alt(p, q) : p \in Small, q \in Small \cup Caps}
Three == {Cat(p, q) : p \in Two, q \in Small} \cup {Cat(p, q) : p \in Small, q \in Two}
           \cup {Dot(p, "X") : p \in Two}
Structured == Cross(Texts({"a", "b"}, 0) \cup Texts({"a", "b"}, 3), Three)

\* Primitives; RPOS and FAIL after them make the search go on.
Leaves   == {Lit(<<"a", "b">>), OfSet("any", {"a"}), OfSet("notany", {"a"}), OfSet("span", {"a", ")"}),
             OfSet("brk", {"b", ")"}), OfSet("breakx", {"b"}), OfNum("len", 2), OfNum("pos", 1),
             OfNum("rpos", 1), OfNum("tab", 2), OfNum("rtab", 1), Prim("bal"), Prim("eps"),
             Prim("fence"), Prim("fail"), Prim("abort")}
Tails    == {OfNum("rpos", 0), Prim("fail"), Prim("rem")}
Subjects == Texts({"a", "b"}, 3) \cup {<<"(", "a", ")", "b">>, <<"a", ")", "b">>, <<"(", "(", ")", ")">>}
Free     == Leaves \ {Prim("fence")}
Scanned  == Cross(Subjects, {Cat(Cat(p, q), t) : p \in Free, q \in Free, t \in Tails}
                              \cup {Cat(Cat(p, Prim("fence")), Prim("rem")) : p \in Free})
Fenced   == {Cat(Cat(Prim("fence"), p), t) : p \in Leaves, t \in Tails}
              \cup {Cat(Cat(p, Prim("fence")), t) : p \in Leaves, t \in Tails}
Anchored == {[s EXCEPT !.anchor = TRUE] :
               s \in Cross(Subjects, Fenced \cup {Cat(p, t) : p \in Leaves, t \in Tails})}
NoHome   == {[s EXCEPT !.home = FALSE] : s \in Cross({<<>>}, Leaves \ {OfNum("tab", 2)})}
NoRepl   == {[s EXCEPT !.has_repl = FALSE] : s \in Cross({<<"b", "a">>}, Leaves)}

\* Repetitions and tests.
Bodies  == {A, OfSet("any", {"a", "b"}), OfSet("span", {"b"}), Cat(A, Lit(<<"b">>)), Alt(Lit(<<"a", "b">>), A),
            OfNum("len", 2), Prim("eps"), Cat(OfNum("pos", 0), A)}
Tests   == UNION {{Not(p), Interr(p)} : p \in Bodies \cup {Prim("arb"), Dot(Prim("fail"), "X")}}
Starts  == {OfNum("len", 1), Prim("arb"), Dot(A, "X"), OfNum("pos", 1)}
Repeats == {Arbno(p) : p \in Bodies} \cup {Arbno(Arbno(p)) : p \in Bodies} \cup {Dot(Arbno(p), "Y") : p \in Bodies}
Repeated == Cross(UNION {Texts({"a", "b"}, n) : n \in {0, 3, 4}},
                  Repeats \cup {Cat(p, q) : p \in Starts, q \in Repeats}
                          \cup {Cat(p, q) : p \in Tests, q \in Starts})

MCProgram == Structured \cup Scanned \cup Anchored \cup NoHome \cup NoRepl \cup Repeated
=============================================================================
