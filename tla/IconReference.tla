---------------------------- MODULE IconReference ----------------------------
(***************************************************************************)
(* What loops over generators are to give, without boxes: the sequence of  *)
(* values of every expression and, from it, what the bodies of nested      *)
(* loops are given, in order.  A value comes with what x is when it is     *)
(* given.                                                                  *)
(***************************************************************************)
EXTENDS IconGenerators

Val(v, x) == [v |-> v, x |-> x]
Each(s, F(_)) == FlattenSeq([i \in DOMAIN s |-> F(s[i])])

\* A sequence up to the first element that fails.
UpTo(s, OK(_)) ==
  LET i == SelectInSeq(s, LAMBDA e : ~ OK(e)) IN IF i = 0 THEN s ELSE SubSeq(s, 1, i - 1)

Count(lo, hi, by) ==
  IF by > 0 THEN (IF hi < lo THEN 0 ELSE (hi - lo) \div by + 1)
  ELSE IF lo < hi THEN 0 ELSE (lo - hi) \div (-by) + 1
Series(lo, hi, by, x) == [i \in 1 .. Count(lo, hi, by) |-> Val(lo + (i - 1) * by, x)]

RECURSIVE Values(_, _)
Values(n, x) ==
  LET V(i)  == Values(Kid(n, i), x)
      V1(i) == V(i)[1].v
      Capped(s) == SubSeq(s, 1, IF Len(s) < NestedMax THEN Len(s) ELSE NestedMax)
      Pairs == Each(V(1), LAMBDA l : Each(Values(Kid(n, 2), l.x),
                                          LAMBDA r : <<[res |-> Op(Node(n).op, l.v, r.v), x |-> r.x]>>))
      Good(p) == p.res.val # Fail
      Result(p) == <<Val(p.res.val[1], p.x)>>
  IN CASE Node(n).fn = "int"   -> <<Val(Node(n).n, x)>>
       [] Node(n).fn = "var"   -> <<Val(x, x)>>
       [] Node(n).fn = "to"    -> Each(Capped(V(1)), LAMBDA l :
                                    Each(Capped(V(2)), LAMBDA h : Series(l.v, h.v, 1, x)))
       [] Node(n).fn = "by"    -> Series(V1(1), V1(2), V1(3), x)
       [] Node(n).fn = "list"  -> [i \in DOMAIN list |-> Val(list[i], x)]
       [] Node(n).fn = "proc"  -> Series(V1(1), V1(2), 1, x) \o [i \in DOMAIN Returns(n) |-> Val(Returns(n)[i], x)]
       [] Node(n).fn = "alt"   -> V(1) \o V(2)
       [] Node(n).fn = "limit" -> SubSeq(V(1), 1, IF V1(2) < Len(V(1)) THEN V1(2) ELSE Len(V(1)))
       [] Node(n).fn = "set"   -> Each(V(1), LAMBDA p : <<Val(p.v, p.v)>>)
       [] Node(n).fn = "call"  -> V(1)
       [] Node(n).fn = "bang"  -> SelectSeq(V(1), LAMBDA p : Called(p.v) # Fail)
       [] Node(n).op = "less"  -> Each(SelectSeq(Pairs, Good), Result)
       [] OTHER                -> Each(UpTo(Pairs, Good), Result)

\* What the bodies from loop k inwards are given.
RECURSIVE Bodies(_, _)
Bodies(k, x) ==
  LET code  == prog.loops[k]
      all   == Values(code.root, x)
      last  == SelectInSeq(all, LAMBDA p : code.act.do = "break" /\ p.v = code.act.n)
      ticks == IF last = 0 THEN all ELSE SubSeq(all, 1, last)
      xin(p) == IF code.form = "assign" THEN p.v ELSE p.x
  IN Each(ticks, LAMBDA p : <<<<k, p.v>>>> \o
                            (IF k = Len(prog.loops) THEN <<>> ELSE Bodies(k + 1, xin(p))))

(* The bodies are given the values the expressions have, in their order, each once
   and none left out: operands resumed and started again, bounds collected beforehand,
   a limit, a break, a procedure that is suspended between two values
   (icn_eval_gen, icn_bb_* and E_EVERY). *)
Delivers ==
  (\A n \in DOMAIN prog.nodes : Node(n).fn # "key") =>
    LET ref == Bodies(1, 3)
    IN IsPrefix(out, ref) /\ (at = "done" => out = ref)
=============================================================================
