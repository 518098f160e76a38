--------------------------- MODULE MatchReference ---------------------------
(***************************************************************************)
(* What a pattern matches, as a function: the solutions of a box at a      *)
(* cursor, in the order in which backtracking produces them.  The boxes    *)
(* compute it one solution at a time with one shared cursor and one shared *)
(* naming list; here nothing is shared.  BAL, FENCE and ABORT mean what    *)
(* the repository says of them, which is not always what their boxes do.   *)
(***************************************************************************)
EXTENDS ByrdBoxes, SequencesExt

\* A solution: the cursor it ends at and the captures it makes.
Sol(d, caps) == [end |-> d, caps |-> caps]

\* The end of the whole search, at every position of the subject: "immediate match
\* failure, no backtracking" of ABORT, and "no backtrack across fence" of a bare
\* FENCE that is resumed.  Nothing is listed after it.
Stop == Sol(-1, <<>>)
Stops(s) == s # <<>> /\ s[1] = Stop
Upto(s)  == LET cuts == {i \in DOMAIN s : s[i] = Stop}
            IN IF cuts = {} THEN s ELSE SubSeq(s, 1, Min(cuts))

\* Where a box without children can end when it starts at d, by what its kind
\* says of the characters in between.
Between(d, e) == {Char(p) : p \in d .. e - 1}
Balanced(d, e) ==
  LET count(c, k) == Cardinality({p \in d .. k - 1 : Char(p) = c})
  IN count("(", e) = count(")", e) /\ \A k \in d .. e : count(")", k) <= count("(", k)
LeafEnds(b, d) ==
  LET stop(e) == e < Sigmalen /\ Char(e) \in b.chars
  IN {e \in d .. Sigmalen :
        CASE b.fn = "lit"    -> SubSeq(Sigma, d + 1, e) = b.text
          [] b.fn = "any"    -> e = d + 1 /\ Between(d, e) \subseteq b.chars
          [] b.fn = "notany" -> e = d + 1 /\ Between(d, e) \cap b.chars = {}
          [] b.fn = "span"   -> e > d /\ Between(d, e) \subseteq b.chars /\ ~ stop(e)
          [] b.fn = "brk"    -> Between(d, e) \cap b.chars = {} /\ stop(e)
          [] b.fn = "breakx" -> e > d /\ Between(d, e) \cap b.chars = {} /\ stop(e)
          [] b.fn = "len"    -> e - d = b.num
          [] b.fn = "pos"    -> e = d /\ d = b.num
          [] b.fn = "rpos"   -> e = d /\ d + b.num = Sigmalen
          [] b.fn = "tab"    -> e = b.num
          [] b.fn = "rtab"   -> e + b.num = Sigmalen
          [] b.fn = "rem"    -> e = Sigmalen
          [] b.fn = "bal"    -> Balanced(d, e) /\ \A f \in e + 1 .. Sigmalen : ~ Balanced(d, f)
          [] b.fn \in {"eps", "fence", "succeed"} -> e = d
          [] b.fn \in {"fail", "abort"} -> FALSE}

\* bb_arbno repeats the first solution of its body as long as the cursor moves;
\* "first" is the body's first solution at a cursor, as a sequence of one or none.
\* The chain is listed with the greediest repetition first.
RECURSIVE Chain(_, _, _)
Chain(First(_), d, caps) ==
  LET s == First(d)
  IN IF Stops(s) THEN s
     ELSE IF s = <<>> \/ s[1].end = d THEN <<Sol(d, caps)>>
     ELSE Upto(Chain(First, s[1].end, caps \o s[1].caps) \o <<Sol(d, caps)>>)

\* A FENCE has its solution, and stops the search when it is asked for another.
RECURSIVE Sols(_, _)
Sols(n, d) ==
  LET b      == Pat[n]
      sub(i) == Sols(b.kids[i], d)
      first(e) == LET s == Sols(b.kids[1], e) IN IF s = <<>> THEN s ELSE <<s[1]>>
      then(l)  == IF l = Stop THEN <<Stop>>
                  ELSE LET s == Sols(b.kids[2], l.end)
                       IN [i \in DOMAIN s |-> IF s[i] = Stop THEN Stop ELSE Sol(s[i].end, l.caps \o s[i].caps)]
      take(s)  == IF s = Stop THEN Stop ELSE Sol(s.end, Append(s.caps, Entry(n, Span(d, s.end - d))))
  IN CASE b.fn \in {"fence", "abort"} -> [i \in 1 .. Cardinality(LeafEnds(b, d)) |-> Sol(d, <<>>)] \o <<Stop>>
       [] b.fn \in LeafFn \ {"fence", "abort"} -> SetToSeq({Sol(e, <<>>) : e \in LeafEnds(b, d)})
       [] b.fn = "atp"    -> <<Sol(d, <<>>)>>
       [] b.fn = "arb"    -> [k \in 1 .. Sigmalen - d + 1 |-> Sol(d + k - 1, <<>>)]
       [] b.fn = "seq"    -> Upto(FlattenSeq([l \in DOMAIN sub(1) |-> then(sub(1)[l])]))
       [] b.fn = "alt"    -> LET able == {i \in DOMAIN b.kids : sub(i) # <<>>}
                             IN IF able = {} THEN <<>> ELSE sub(Min(able))
       [] b.fn = "arbno"  -> Chain(first, d, <<>>)
       [] b.fn \in {"not", "interr"} ->
            IF Stops(sub(1)) THEN <<Stop>>
            ELSE IF (sub(1) = <<>>) = (b.fn = "not") THEN <<Sol(d, <<>>)>> ELSE <<>>
       [] b.fn = "cap"    -> [i \in DOMAIN sub(1) |-> take(sub(1)[i])]

\* The first scan position at which the search finds something; unless that is its
\* end, the first solution there is the match.
Positions == {p \in IF stmt.anchor THEN {0} ELSE 0 .. Sigmalen : Sols(1, p) # <<>>}
Matches   == Positions # {} /\ ~ Stops(Sols(1, Min(Positions)))
Hit   == Min(Positions)
Found == Sols(1, Hit)[1]

\* exec_stmt succeeds exactly if the pattern matches somewhere, at the first
\* position where it does, with the first solution there and the conditional
\* captures of that solution, in the order of the pattern, on the naming list.  (BAL
\* takes "the maximal balanced prefix", bb_boxes.c:390; FENCE and ABORT end the match,
\* bb_boxes.c:712, stmt_exec.c:873, README.md:66.)
FirstMatch ==
  /\ phase = "commit" => /\ Matches
                         /\ result.start = Hit
                         /\ result.end = Found.end
                         /\ nam = SelectSeq(Found.caps, LAMBDA e : ~ Pat[e.box].immediate)
  /\ result.outcome = "F" => ~ Matches \/ Homeless

\* A variable that only "." names ends as the last capture of the match, and
\* keeps its value when there is none; one that a single "$" assigns holds that
\* capture of the match, whatever the tries before it assigned; the subject ends
\* with the matched text, and nothing else, replaced.
EffectOfMatch ==
  phase = "done" =>
    LET lost       == ~ Matches \/ Homeless
        writers(v) == {n \in Box : Pat[n].fn \in {"cap", "atp"} /\ Pat[n].var = v}
        caps(v)    == IF lost THEN <<>> ELSE SelectSeq(Found.caps, LAMBDA e : e.var = v)
    IN /\ \A v \in Vars :
            /\ (\A n \in writers(v) : Pat[n].fn = "cap" /\ ~ Pat[n].immediate)
                 => nv[v] = IF caps(v) = <<>> THEN Unset ELSE Text(Last(caps(v)).span)
            /\ Cardinality(writers(v)) = 1 /\ caps(v) # <<>> => nv[v] = Text(Last(caps(v)).span)
       /\ result.value = IF lost \/ ~ stmt.has_repl THEN Sigma
                         ELSE SubSeq(Sigma, 1, Hit) \o stmt.repl \o SubSeq(Sigma, Found.end + 1, Sigmalen)
=============================================================================
