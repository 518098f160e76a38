---------------------------- MODULE MCDivergence ----------------------------
(* Alternation as the repository's documents describe it: a statement whose  *)
(* match needs a later alternative after an earlier one has matched.         *)
EXTENDS MatchReference, Patterns
MCChars == {"a", "b", "c", "r"}
MCVars  == {"X"}

AltProgram ==
  {Statement(<<"a", "b", "c">>, Cat(Alt(Lit(<<"a">>), Lit(<<"a", "b">>)), Lit(<<"c">>)))}

\* The ends of all matches of box n at d, alternation trying every child
\* (README.md:53-54; bb_alt of runtime/js tries the later children at beta).
RECURSIVE Ends(_, _)
Ends(n, d) ==
  CASE Pat[n].fn = "seq" -> UNION {Ends(Pat[n].kids[2], e) : e \in Ends(Pat[n].kids[1], d)}
    [] Pat[n].fn = "alt" -> UNION {Ends(Pat[n].kids[i], d) : i \in DOMAIN Pat[n].kids}
    [] OTHER             -> LeafEnds(Pat[n], d)
\* A statement fails only when the pattern matches nowhere in the subject
\* (README.md:61 of the back ends: "The semantics are identical").
CompleteSearch == result.outcome = "F" => \A p \in 0 .. Sigmalen : Ends(1, p) = {}
=============================================================================
