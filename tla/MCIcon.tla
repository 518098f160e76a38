------------------------------- MODULE MCIcon -------------------------------
(* Instances of IconReference for TLC.  An expression is a tree; Place numbers it. *)
EXTENDS IconReference

E(fn, kids, op, n) == [fn |-> fn, kids |-> kids, op |-> op, n |-> n]
I(n)         == E("int", <<>>, "", n)
X            == E("var", <<>>, "", 0)
To(a, b)     == E("to", <<a, b>>, "", 0)
By(a, b, c)  == E("by", <<I(a), I(b), I(c)>>, "", 0)
KeyOf        == E("key", <<>>, "", 0)
L            == E("list", <<>>, "", 0)
Alt(a, b)    == E("alt", <<a, b>>, "", 0)
Lim(a, n)    == E("limit", <<a, I(n)>>, "", 0)
Bin(op, a, b) == E("binop", <<a, b>>, op, 0)
Set(a)       == E("set", <<a>>, "", 0)
Fnc(fn, a)   == E(fn, <<a>>, "", 0)
Proc(a, b)   == E("proc", <<I(a), I(b)>>, "fail", 0)
ProcR(a, b)  == E("proc", <<I(a), I(b)>>, "return", 9)

RECURSIVE Place(_, _)
Place(e, nodes) ==
  LET kids == FoldLeft(LAMBDA acc, k : LET m == Place(k, acc.nodes)
                                       IN [nodes |-> m, at |-> Append(acc.at, Len(m))],
                       [nodes |-> nodes, at |-> <<>>], e.kids)
  IN Append(kids.nodes, [e EXCEPT !.kids = kids.at])

None == [do |-> "none", n |-> 0]
Do(what) == [do |-> what, n |-> 0]
BreakAt(n) == [do |-> "break", n |-> n]

\* Two keys collide; two chains stay empty.
MCHash == [k \in Keys |-> IF k = 3 THEN 3 ELSE 1]

\* "every e ... " and two of them, one in the body of the other.
Every(e, form, act) ==
  LET ns == Place(e, <<>>)
  IN [nodes |-> ns, keys |-> <<>>, loops |-> <<[root |-> Len(ns), form |-> form, act |-> act]>>]
Twice(e, form, act, d, form2, act2) ==
  LET ns == Place(e, <<>>)
      ms == Place(d, ns)
  IN [nodes |-> ms, keys |-> <<>>, loops |-> <<[root |-> Len(ns), form |-> form, act |-> act],
                               [root |-> Len(ms), form |-> form2, act |-> act2]>>]

EveryKey(ks) == [Every(KeyOf, "plain", Do("edit")) EXCEPT !.keys = ks]

\* Generators that are no procedure and do not set x.
Ranges == {To(I(1), I(3)), To(I(2), I(1)), By(5, 1, -2), By(1, 4, 2), To(Alt(I(1), I(2)), I(2)),
           To(To(I(1), I(3)), Alt(I(3), I(2))), To(I(1), To(I(2), I(1))), L}
Combined == {Alt(I(1), X), Alt(To(I(1), I(2)), By(3, 1, -1)), Alt(To(I(2), I(1)), L), Lim(To(I(1), I(3)), 2),
             Lim(Alt(I(4), I(5)), 0), Lim(Bin("less", To(I(1), I(3)), To(I(1), I(3))), 2),
             Bin("add", To(I(1), I(2)), To(I(1), I(2))), Bin("less", To(I(1), I(3)), To(I(2), I(3))),
             Bin("div", By(6, 4, -1), By(2, 0, -1)), Bin("add", X, To(I(1), I(2))),
             Bin("less", Bin("add", To(I(0), I(1)), To(I(0), I(2))), Alt(I(2), I(1))),
             Bin("add", Lim(To(I(1), I(3)), 2), To(Alt(I(2), I(1)), I(2))),
             Bin("add", To(I(1), I(3)), Fnc("call", To(I(1), I(3)))),
             Bin("add", Fnc("bang", Alt(I(2), I(3))), Fnc("bang", To(I(1), I(2)))),
             Fnc("call", To(I(1), I(3))), Fnc("bang", To(I(1), I(3))),
             Bin("less", Alt(To(I(1), I(2)), I(0)), Alt(I(1), I(2))),
             Alt(Bin("div", I(4), By(2, 0, -1)), I(7))}
Setting == {Bin("less", I(2), Set(To(I(1), I(4)))), Bin("add", Set(To(I(1), I(3))), X)}
Procs   == {Proc(1, 3), ProcR(1, 2), Proc(2, 1), ProcR(2, 1), Alt(ProcR(1, 2), I(4)),
            Alt(I(4), Proc(1, 2)), Lim(Proc(1, 3), 2), Bin("add", ProcR(1, 2), To(I(1), I(2))),
            Bin("add", I(1), ProcR(1, 2)), Fnc("bang", Proc(1, 3)), Fnc("call", ProcR(1, 3)),
            Bin("less", ProcR(1, 3), I(9)), To(Proc(1, 2), I(2))}

IconPrograms ==
  {Every(e, "plain", a) : e \in Ranges \cup Combined, a \in {None, Do("call"), BreakAt(3)}}
  \cup {Every(e, "plain", None) : e \in Setting \cup Procs}
  \cup {Every(e, "assign", BreakAt(2)) : e \in Ranges}
  \cup {Every(L, f, Do("put")) : f \in {"plain", "assign"}}
  \cup {EveryKey(ks) : ks \in {<<1, 2>>, <<3>>, <<2, 3, 1>>}}
  \cup {Twice(e, "plain", BreakAt(2), d, "plain", BreakAt(4)) : e \in Ranges, d \in Ranges \cup Combined}
  \cup {Twice(e, "assign", None, d, "plain", None) :
          e \in {To(I(1), I(3)), Alt(I(1), L)}, d \in {To(X, I(3)), Bin("add", X, L), Alt(X, I(2))}}
  \cup {Twice(e, "plain", BreakAt(2), d, "plain", None) : e \in {To(I(1), I(2)), L}, d \in Procs}
==============================================================================
