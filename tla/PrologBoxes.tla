----------------------------- MODULE PrologBoxes -----------------------------
(***************************************************************************)
(* The Prolog engine (frontend/prolog/pl_broker.c): one goal, run by       *)
(* bb_broker in its BB_ONCE mode over a graph of boxes.  The boxes are     *)
(* entered and left through the four ports, as those of a pattern are, but *)
(* they are made while the goal runs: a choice builds the boxes of its     *)
(* clause when it tries it, and a body goal builds its box when it is      *)
(* entered, once the head has made the variables of the clause.  A step is *)
(* what a box does between two calls.                                      *)
(***************************************************************************)
EXTENDS Integers, Sequences, Functions, Bindings

(***************************************************************************)
(* A program is [preds, main]: preds maps a predicate to the sequence of   *)
(* its clauses [nvars, head, body].  An expression is a variable of its    *)
(* clause, the anonymous variable, an atom or a compound; a goal is        *)
(* [is, args, kids, pred] (prolog_lower.c).  What goes down into terms and *)
(* goals is a parameter, and defined in PrologTerms.                       *)
(***************************************************************************)
CONSTANTS
  Program,             \* the programs: their predicates and the one that is run
  MakeTerms(_, _, _),  \* the terms of expressions in an environment and a heap
  UnifyArgs(_, _, _),  \* the unification of two lists of terms in a heap
  MakeGoal(_, _, _)    \* the boxes of a goal in an environment, added to a state

IsSeq(s) == s \in Seq(Range(s))

ASSUME PrologAssumption ==
  \A p \in Program :
    /\ p.main \in DOMAIN p.preds /\ 1 \in DOMAIN p.preds[p.main]
    /\ \A d \in DOMAIN p.preds :
         /\ IsSeq(p.preds[d])
         /\ \A i \in DOMAIN p.preds[d] : IsSeq(p.preds[d][i].head) /\ IsSeq(p.preds[d][i].body)

VARIABLES
  prog,      \* the program
  phase,     \* "run" while bb_broker waits for the root, then "yes" or "no"
  boxes,     \* the boxes made so far
  heap,      \* g_pl_trail and the variable cells
  ctl,       \* the port of the box in control
  calls,     \* the C stack: boxes waiting for a child, innermost first
  cutflag,   \* g_pl_cur_cut_flag: the choice whose cut field it points to, or 0
  open,      \* history: the boxes entered at alpha that have not failed since, in that order
  hist       \* history: what has become of each box

vars == <<prog, phase, boxes, heap, ctl, calls, cutflag, open, hist>>

-----------------------------------------------------------------------------
(* Terms, and their unification *)

Term(is, name, args, cell) == [is |-> is, name |-> name, args |-> args, cell |-> cell]
Cell(c) == Term("var", "", <<>>, c)

\* unify as the boxes use it: a failure is undone to where it began.
Unified(t1, t2, h) ==
  LET r == UnifyArgs(<<t1>>, <<t2>>, h)
  IN IF r.ok THEN r ELSE [ok |-> FALSE, h |-> trail_unwind(r.h, trail_mark(h))]

-----------------------------------------------------------------------------
(* Building boxes; a state s has the boxes, the heap and the box made last *)

BoxOf(fn) == [fn |-> fn, kids |-> <<>>, goal |-> <<>>, env |-> <<>>, args |-> <<>>, pred |-> "",
              head |-> 0, mark |-> 0, fired |-> FALSE, phase |-> 0, ci |-> 0, cut |-> FALSE]

New(s, b) == [s EXCEPT !.boxes = Append(@, b), !.id = Len(s.boxes) + 1]

\* pl_box_cat_list: folds from the left, so that the left child of every box of
\* the chain but the first is the one before it.
CatList(s, ids) ==
  LET n     == Len(s.boxes)
      chain == [i \in 1 .. Len(ids) - 1 |->
                  [BoxOf("cat") EXCEPT !.kids = <<IF i = 1 THEN ids[1] ELSE n + i - 1, ids[i + 1]>>]]
  IN IF ids = <<>> THEN New(s, BoxOf("true"))
     ELSE [s EXCEPT !.boxes = @ \o chain, !.id = IF Len(ids) = 1 THEN ids[1] ELSE n + Len(ids) - 1]

\* pl_box_choice: an OR-box over the clauses of a predicate.
Choice(pred, args) == [BoxOf("choice") EXCEPT !.pred = pred, !.args = args]

\* pl_box_clause: the head, then a deferred box for every goal of the body.
ClauseBox(s, clause, args) ==
  LET n    == Len(s.boxes) + 1
      body == [i \in DOMAIN clause.body |-> [BoxOf("deferred") EXCEPT !.goal = clause.body[i], !.head = n]]
      all  == <<[BoxOf("head") EXCEPT !.goal = clause, !.args = args]>> \o body
  IN CatList([s EXCEPT !.boxes = @ \o all], [i \in DOMAIN all |-> n + i - 1])

-----------------------------------------------------------------------------
(* Ports, calls and returns *)

Entered == ctl.port \in {"alpha", "beta"}
Me   == IF Entered THEN ctl.box ELSE Head(calls).box
Rest == IF Entered THEN calls ELSE Tail(calls)
My   == boxes[Me]

EnteredAt(port, fns) == phase = "run" /\ ctl.port = port /\ boxes[ctl.box].fn \in fns
BackAt(port, fn, at) == /\ phase = "run" /\ ctl.port = port /\ calls # <<>>
                        /\ boxes[Head(calls).box].fn = fn /\ Head(calls).at = at

\* The history of a box: the cells, the height of the trail and its place among
\* the open boxes at its last alpha, how many those were at its last exit, and
\* the port it left by.
Unseen == [refs |-> <<>>, mark |-> 0, from |-> 0, to |-> 0, exit |-> "none"]
Begun(h, n) == [refs |-> h.cells, mark |-> trail_mark(h), from |-> n, to |-> 0, exit |-> "none"]

\* The last conjunct of a step: Me calls box k, or returns; bs and h are the boxes
\* and the heap that the step leaves.
Enter(k, port, frame, bs, h) ==
  /\ boxes' = bs /\ heap' = h
  /\ calls' = <<frame>> \o Rest
  /\ ctl' = [port |-> port, box |-> k]
  /\ hist' = [i \in DOMAIN bs |->
                IF i = k /\ port = "alpha" THEN Begun(h, Len(open) + 1)
                ELSE IF i \in DOMAIN hist THEN hist[i] ELSE Unseen]
  /\ open' = IF port = "alpha" THEN Append(open, k) ELSE open
Call(k, port, at) == Enter(k, port, [box |-> Me, at |-> at, saved |-> 0], boxes, heap)
Leave(port, bs, h) ==
  /\ boxes' = bs /\ heap' = h
  /\ calls' = Rest
  /\ ctl' = [port |-> port, box |-> Me]
  /\ hist' = [hist EXCEPT ![Me].exit = port, ![Me].to = Len(open)]
  /\ open' = IF port = "omega" THEN SubSeq(open, 1, hist[Me].from - 1) ELSE open
Pass == Leave(ctl.port, boxes, heap)
Exit(port) == Leave(port, boxes, heap)
Verdict(ok) == IF ok THEN "gamma" ELSE "omega"

-----------------------------------------------------------------------------
(* Boxes that call no other *)

\* true, fail and a builtin: is/2 binds its left side.
TrueAlpha == EnteredAt("alpha", {"true"}) /\ Exit("gamma") /\ UNCHANGED cutflag
FailAlpha == EnteredAt("alpha", {"fail"}) /\ Exit("omega") /\ UNCHANGED cutflag

BuiltinAlpha ==
  /\ EnteredAt("alpha", {"is"})
  /\ LET ts == MakeTerms(My.goal.args, My.env, heap)
         r  == Unified(ts.t[1], ts.t[2], ts.h)
     IN Leave(Verdict(r.ok), boxes, r.h)
  /\ UNCHANGED cutflag

\* At beta none of them, nor the cut, undoes anything.
LeafBeta == EnteredAt("beta", {"true", "fail", "is", "not", "cut"}) /\ Exit("omega") /\ UNCHANGED cutflag

UnifyAlpha ==
  /\ EnteredAt("alpha", {"unify"})
  /\ LET ts == MakeTerms(My.goal.args, My.env, heap)
         r  == Unified(ts.t[1], ts.t[2], ts.h)
     IN Leave(Verdict(r.ok), [boxes EXCEPT ![Me].mark = trail_mark(heap), ![Me].fired = r.ok], r.h)
  /\ UNCHANGED cutflag

\* The head of a clause makes the variables of the clause and unifies argument
\* by argument.
HeadAlpha ==
  /\ EnteredAt("alpha", {"head"})
  /\ LET n   == My.goal.nvars
         env == [i \in 1 .. n |-> Cell(Len(heap.cells) + i)]
         ts  == MakeTerms(My.goal.head, env, NewEnv(heap, n))
         r   == UnifyArgs(My.args, ts.t, ts.h)
         done == IF r.ok THEN r.h ELSE trail_unwind(r.h, trail_mark(heap))
     IN Leave(Verdict(r.ok),
              [boxes EXCEPT ![Me].mark = trail_mark(heap), ![Me].fired = r.ok, ![Me].env = env], done)
  /\ UNCHANGED cutflag

\* Both undo their bindings at beta; the mutated form leaves them.
BetaKeeps ==
  /\ EnteredAt("beta", {"unify", "head"})
  /\ Exit("omega")
  /\ UNCHANGED cutflag
UnifyBeta ==
  /\ EnteredAt("beta", {"unify", "head"})
  /\ Leave("omega", [boxes EXCEPT ![Me].fired = FALSE],
           IF My.fired THEN trail_unwind(heap, My.mark) ELSE heap)
  /\ UNCHANGED cutflag

\* The cut tells the choice that g_pl_cur_cut_flag points to; while a goal runs,
\* the pointer is never null.
CutAlpha ==
  /\ EnteredAt("alpha", {"cut"})
  /\ Leave("gamma", [boxes EXCEPT ![cutflag].cut = TRUE], heap)
  /\ UNCHANGED cutflag

-----------------------------------------------------------------------------
(* Conjunction, disjunction, negation, and the goals of a body *)

CatAlpha      == EnteredAt("alpha", {"cat"}) /\ Call(My.kids[1], "alpha", "left") /\ UNCHANGED cutflag
CatBeta       == EnteredAt("beta", {"cat"}) /\ Call(My.kids[2], "beta", "right") /\ UNCHANGED cutflag
CatLeftGamma  == BackAt("gamma", "cat", "left") /\ Call(My.kids[2], "alpha", "right") /\ UNCHANGED cutflag
CatLeftOmega  == BackAt("omega", "cat", "left") /\ Pass /\ UNCHANGED cutflag
CatRightGamma == BackAt("gamma", "cat", "right") /\ Pass /\ UNCHANGED cutflag
\* The mutated form does not retry the left goal.
CatGivesUp    == BackAt("omega", "cat", "right") /\ Pass /\ UNCHANGED cutflag
CatRightOmega == BackAt("omega", "cat", "right") /\ Call(My.kids[1], "beta", "left") /\ UNCHANGED cutflag

AltAlpha == EnteredAt("alpha", {"alt"}) /\ Call(My.kids[1], "alpha", "first") /\ UNCHANGED cutflag
AltBeta ==
  /\ EnteredAt("beta", {"alt"})
  /\ \/ My.phase = 0 /\ Call(My.kids[1], "beta", "again")
     \/ My.phase = 2 /\ Call(My.kids[2], "beta", "second")
  /\ UNCHANGED cutflag
AltLeftGamma ==
  /\ BackAt("gamma", "alt", "first") \/ BackAt("gamma", "alt", "again")
  /\ Leave("gamma", [boxes EXCEPT ![Me].phase = IF Head(calls).at = "first" THEN 0 ELSE @], heap)
  /\ UNCHANGED cutflag
\* The mutated forms leave the phase as it is, give it the value 1 of the comment,
\* and start the left branch again.
LeftExhausted == BackAt("omega", "alt", "first") \/ BackAt("omega", "alt", "again")
AltForgets  == LeftExhausted /\ Call(My.kids[2], "alpha", "second") /\ UNCHANGED cutflag
AltPhaseOne ==
  /\ LeftExhausted
  /\ Enter(My.kids[2], "alpha", [box |-> Me, at |-> "second", saved |-> 0],
           [boxes EXCEPT ![Me].phase = 1], heap)
  /\ UNCHANGED cutflag
AltRestarts == LeftExhausted /\ Call(My.kids[1], "alpha", "first") /\ UNCHANGED cutflag
AltLeftOmega ==
  /\ LeftExhausted
  /\ Enter(My.kids[2], "alpha", [box |-> Me, at |-> "second", saved |-> 0],
           [boxes EXCEPT ![Me].phase = 2], heap)
  /\ UNCHANGED cutflag
AltRight ==
  /\ BackAt("gamma", "alt", "second") \/ BackAt("omega", "alt", "second")
  /\ Pass
  /\ UNCHANGED cutflag

\* \+ runs a user predicate once, through a broker of its own, and undoes it.
NotAlpha ==
  /\ EnteredAt("alpha", {"not"})
  /\ LET g == My.goal.kids[1]
         r == MakeTerms(g.args, My.env, heap)
         s == New([boxes |-> boxes, heap |-> r.h, id |-> 0], Choice(g.pred, r.t))
     IN Enter(s.id, "alpha", [box |-> Me, at |-> "not", saved |-> 0],
              [s.boxes EXCEPT ![Me].mark = trail_mark(heap)], s.heap)
  /\ UNCHANGED cutflag
NotBack ==
  /\ BackAt("gamma", "not", "not") \/ BackAt("omega", "not", "not")
  /\ Leave(Verdict(ctl.port = "omega"), boxes, trail_unwind(heap, My.mark))
  /\ UNCHANGED cutflag

\* A deferred goal builds its box anew at every alpha.
DeferredAlpha ==
  /\ EnteredAt("alpha", {"deferred"})
  /\ LET s == MakeGoal([boxes |-> boxes, heap |-> heap, id |-> 0], My.goal, boxes[My.head].env)
     IN Enter(s.id, "alpha", [box |-> Me, at |-> "inner", saved |-> 0],
              [s.boxes EXCEPT ![Me].kids = <<s.id>>], s.heap)
  /\ UNCHANGED cutflag
DeferredBeta == EnteredAt("beta", {"deferred"}) /\ Call(My.kids[1], "beta", "inner") /\ UNCHANGED cutflag
DeferredBack ==
  /\ BackAt("gamma", "deferred", "inner") \/ BackAt("omega", "deferred", "inner")
  /\ Pass
  /\ UNCHANGED cutflag

-----------------------------------------------------------------------------
(* The choice between the clauses of a predicate *)

Clauses(b) == prog.preds[b.pred]

\* The head of the loop over the clauses.  b is the choice, with the fields that
\* the step has assigned, saved the cut target it found.
Loop(b, saved) ==
  \/ /\ b.ci < Len(Clauses(b)) /\ ~ b.cut
     /\ LET s == ClauseBox([boxes |-> boxes, heap |-> trail_unwind(heap, b.mark), id |-> 0],
                           Clauses(b)[b.ci + 1], b.args)
        IN Enter(s.id, "alpha", [box |-> Me, at |-> "clause", saved |-> saved],
                 [s.boxes EXCEPT ![Me] = [b EXCEPT !.kids = <<s.id>>]], s.heap)
     /\ cutflag' = Me
  \/ /\ b.ci >= Len(Clauses(b)) \/ b.cut
     /\ cutflag' = saved
     /\ Leave("omega", [boxes EXCEPT ![Me] = b], trail_unwind(heap, b.mark))

ChoiceAlpha ==
  /\ EnteredAt("alpha", {"choice"})
  /\ Loop([My EXCEPT !.mark = trail_mark(heap), !.ci = 0, !.cut = FALSE], cutflag)

\* The clause that has succeeded is resumed before the choice has installed
\* itself as the target of the cut.
ChoiceBeta == EnteredAt("beta", {"choice"}) /\ Call(My.kids[1], "beta", "resume") /\ UNCHANGED cutflag
ChoiceResumed == BackAt("gamma", "choice", "resume") /\ Pass /\ UNCHANGED cutflag
ChoiceExhausted == BackAt("omega", "choice", "resume") /\ Loop([My EXCEPT !.ci = @ + 1], cutflag)

\* Its mutated form leaves the cut target installed.
ChoiceStays ==
  /\ BackAt("gamma", "choice", "clause")
  /\ Pass
  /\ UNCHANGED cutflag
ChoiceGamma ==
  /\ BackAt("gamma", "choice", "clause")
  /\ cutflag' = Head(calls).saved
  /\ Pass
ChoiceOmega ==
  /\ BackAt("omega", "choice", "clause")
  /\ Loop([My EXCEPT !.ci = @ + 1], Head(calls).saved)

-----------------------------------------------------------------------------
(* bb_broker *)

\* The variables of the goal are the arguments of the root.
MainArgs(p) == [i \in 1 .. Len(p.preds[p.main][1].head) |-> Cell(i)]

Init ==
  /\ prog \in Program
  /\ phase = "run"
  /\ boxes = <<Choice(prog.main, MainArgs(prog))>>
  /\ heap = NewEnv(NoBindings, Len(MainArgs(prog)))
  /\ ctl = [port |-> "alpha", box |-> 1]
  /\ calls = <<>>
  /\ cutflag = 0
  /\ open = <<1>>
  /\ hist = <<Begun(heap, 1)>>

\* BB_ONCE: the first solution is the only one.
Answer ==
  /\ phase = "run" /\ ~ Entered /\ calls = <<>>
  /\ phase' = IF ctl.port = "gamma" THEN "yes" ELSE "no"
  /\ UNCHANGED <<prog, boxes, heap, ctl, calls, cutflag, open, hist>>

BoxStep ==
  /\ \/ TrueAlpha \/ FailAlpha \/ BuiltinAlpha \/ LeafBeta
     \/ UnifyAlpha \/ HeadAlpha \/ UnifyBeta \/ CutAlpha
     \/ CatAlpha \/ CatBeta \/ CatLeftGamma \/ CatLeftOmega \/ CatRightGamma \/ CatRightOmega
     \/ AltAlpha \/ AltBeta \/ AltLeftGamma \/ AltLeftOmega \/ AltRight
     \/ NotAlpha \/ NotBack \/ DeferredAlpha \/ DeferredBeta \/ DeferredBack
     \/ ChoiceAlpha \/ ChoiceBeta \/ ChoiceResumed \/ ChoiceExhausted \/ ChoiceGamma \/ ChoiceOmega
  /\ UNCHANGED <<prog, phase>>

Done == phase # "run" /\ UNCHANGED vars

Next == BoxStep \/ Answer \/ Done

Spec == Init /\ [][Next]_vars
\* Weak fairness of the steps, which are enabled exactly while the goal runs: the
\* C code goes on until bb_broker returns.
FairSpec == Spec /\ ([]<>(phase # "run") \/ []<><<BoxStep \/ Answer>>_vars)

-----------------------------------------------------------------------------
(* Properties *)

FnName == {"true", "fail", "is", "unify", "head", "cut", "cat", "alt", "not", "deferred", "choice"}
Place  == {"left", "right", "first", "again", "second", "not", "inner", "clause", "resume"}
Id     == DOMAIN boxes

\* Every variable has its type.
TypeOK ==
  /\ phase \in {"run", "yes", "no"}
  /\ \A i \in Id : /\ boxes[i].fn \in FnName /\ Range(boxes[i].kids) \subseteq Id
                   /\ boxes[i].head \in Id \cup {0} /\ boxes[i].mark \in Nat /\ boxes[i].ci \in Nat
                   /\ boxes[i].fired \in BOOLEAN /\ boxes[i].cut \in BOOLEAN /\ boxes[i].phase \in {0, 2}
  /\ \A c \in DOMAIN heap.cells : heap.cells[c].named \in BOOLEAN
  /\ heap.trail \in Seq(DOMAIN heap.cells)
  /\ ctl \in [port : {"alpha", "beta", "gamma", "omega"}, box : Id]
  /\ calls \in Seq([box : Id, at : Place, saved : Id \cup {0}])
  /\ cutflag \in Id \cup {0}
  /\ open \in Seq(Id) /\ DOMAIN hist = Id

Exits(port, fns) == phase = "run" /\ ctl.port = port /\ boxes[ctl.box].fn \in fns

\* The boxes of a body goal are new, and form a tree: pl_box_goal_from_ir shares
\* none of them, gives a conjunction and a disjunction two children and a call a
\* predicate of the program, leaves the fields of their runs zero, and returns the
\* box that none of them has as a child.
NewTree(bs, root) ==
  LET new == Len(boxes) + 1 .. Len(bs)
  IN /\ IsSeq(bs) /\ root \in new
     /\ Len(boxes) <= Len(bs) /\ \A i \in Id : bs[i] = boxes[i]
     /\ \A i \in new :
          /\ DOMAIN bs[i] = DOMAIN BoxOf("true")
          /\ bs[i].fn \in FnName \ {"head", "deferred"}
          /\ bs[i].head = 0 /\ bs[i].mark = 0 /\ bs[i].phase = 0 /\ bs[i].ci = 0
          /\ bs[i].fired = FALSE /\ bs[i].cut = FALSE
          /\ DOMAIN bs[i].kids = 1 .. (IF bs[i].fn \in {"cat", "alt"} THEN 2 ELSE 0)
          /\ \A a \in DOMAIN bs[i].kids :
               /\ bs[i].kids[a] \in new \ {root}
               /\ \A j \in new : \A b \in DOMAIN bs[j].kids :
                    bs[i].kids[a] = bs[j].kids[b] => i = j /\ a = b
GoalsBuilt ==
  /\ \A i \in Id : boxes[i].fn = "choice" => boxes[i].pred \in DOMAIN prog.preds
  /\ Exits("alpha", {"deferred"}) =>
       LET s == MakeGoal([boxes |-> boxes, heap |-> heap, id |-> 0], My.goal, boxes[My.head].env)
       IN NewTree(s.boxes, s.id)

\* A heap; what unifying does to it: it binds free cells, and every named one that
\* it binds is trailed.  What making terms does: it adds cells.
IsHeap(h) ==
  /\ h = [cells |-> h.cells, trail |-> h.trail] /\ IsSeq(h.cells) /\ IsSeq(h.trail)
  /\ \A c \in DOMAIN h.cells : /\ h.cells[c] = [ref |-> h.cells[c].ref, named |-> h.cells[c].named]
                              /\ h.cells[c].named \in BOOLEAN
  /\ \A i \in DOMAIN h.trail : h.trail[i] \in DOMAIN h.cells
Binds(h, h2) ==
  /\ IsHeap(h2) /\ Len(h.cells) <= Len(h2.cells) /\ Len(h.trail) <= Len(h2.trail)
  /\ \A i \in DOMAIN h.trail : h2.trail[i] = h.trail[i]
  /\ \A c \in DOMAIN h.cells :
       /\ h2.cells[c].named = h.cells[c].named
       /\ h.cells[c].named => IF c \in Trailed(h2, Len(h.trail)) THEN h.cells[c].ref = Free
                              ELSE h2.cells[c] = h.cells[c]
Makes(h, h2) == Binds(h, h2) /\ h2.trail = h.trail

\* Whatever a box makes and unifies, the trail tells how to undo it.
BindingsTrailed ==
  /\ Exits("alpha", {"is", "unify"}) =>
       LET ts == MakeTerms(My.goal.args, My.env, heap)
           r  == UnifyArgs(<<ts.t[1]>>, <<ts.t[2]>>, ts.h)
       IN Makes(heap, ts.h) /\ Binds(ts.h, r.h) /\ r.ok \in BOOLEAN
  /\ Exits("alpha", {"head"}) =>
       LET n   == My.goal.nvars
           env == [i \in 1 .. n |-> Cell(Len(heap.cells) + i)]
           ts  == MakeTerms(My.goal.head, env, NewEnv(heap, n))
           r   == UnifyArgs(My.args, ts.t, ts.h)
       IN Makes(heap, ts.h) /\ Binds(ts.h, r.h) /\ r.ok \in BOOLEAN
  /\ Exits("alpha", {"not"}) => Makes(heap, MakeTerms(My.goal.kids[1].args, My.env, heap).h)
  /\ Exits("alpha", {"deferred"}) =>
       Makes(heap, MakeGoal([boxes |-> boxes, heap |-> heap, id |-> 0], My.goal, boxes[My.head].env).heap)

\* A predicate, a head or a unification that fails, and a negation that succeeds,
\* leaves every variable that existed at its alpha as it was there, whatever ran
\* between.  (What is/2 binds is left to them: it undoes nothing at beta.)
FailureUnbinds ==
  Exits("omega", {"choice", "head", "unify"}) \/ Exits("gamma", {"not"}) =>
    \A c \in DOMAIN hist[ctl.box].refs :
      heap.cells[c].named => heap.cells[c] = hist[ctl.box].refs[c]

\* Backtracking is chronological: a box is resumed only after it has succeeded,
\* and when every box entered since has failed.  A body goal runs only while the
\* head of its clause has its variables: cenv is freed at the head's beta.
ResumedAfterGamma ==
  /\ phase = "run" /\ ctl.port = "beta" =>
       hist[ctl.box].exit = "gamma" /\ hist[ctl.box].to = Len(open)
  /\ Exits("alpha", {"deferred"}) => boxes[boxes[ctl.box].head].fired

\* The cut target is the choice that is trying a clause from the start, the
\* innermost of them: whatever a clause calls gives it back.
CutTargetRestored ==
  LET trying == {i \in DOMAIN calls : calls[i].at = "clause"}
  IN \/ trying = {} /\ cutflag = 0
     \/ \E i \in trying : cutflag = calls[i].box /\ \A j \in trying : i <= j

\* A cut tells the choice whose clause it stands in, which is the innermost that
\* waits for a clause (pl_broker.c: "cut terminates exactly the predicate whose
\* clause body contains the cut - never leaking to a parent OR-box").
CutHitsOwner ==
  EnteredAt("alpha", {"cut"}) =>
    cutflag = Head(SelectSeq(calls, LAMBDA f : f.at \in {"clause", "resume"})).box

\* The goal is answered.
Termination == <>(phase # "run")
=============================================================================
