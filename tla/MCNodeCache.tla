----------------------------- MODULE MCNodeCache -----------------------------
(* Patterns that share nodes, more of them cacheable than there are slots, *)
(* with colliding keys, one of them hashed to the last slot.               *)
EXTENDS NodeCache

MCKind == [a |-> "chr", b |-> "chr", ab |-> "or", rep |-> "arbno", call |-> "callcap",
           x |-> "dsar", y |-> "var", abx |-> "or", pair |-> "cat", one |-> "cat",
           cap |-> "nme", capb |-> "or", two |-> "or", deep |-> "cat"]

MCNodes == DOMAIN MCKind

MCKids == [n \in MCNodes |->
    CASE n = "ab" -> <<"a", "b">> [] n = "rep" -> <<"a">> [] n \in {"call", "cap"} -> <<"a">>
      [] n = "abx" -> <<"a", "x">> [] n = "pair" -> <<"ab", "call">> [] n = "one" -> <<"ab">>
      [] n = "two" -> <<"capb", "capb">> [] n = "capb" -> <<"cap", "b">>
      [] n = "deep" -> <<"x", "y", "call">> [] OTHER -> <<>>]

MCHash == [n \in MCNodes |->
    CASE n \in {"a", "pair"} -> 3 [] n \in {"ab", "call"} -> 2 [] OTHER -> 0]
=============================================================================
