--------------------------- MODULE IconGenerators ---------------------------
(***************************************************************************)
(* Icon's generators (frontend/icon/icon_gen.c, runtime/interp/            *)
(* icn_runtime.c) and the "every" loops that drive them (E_EVERY of        *)
(* driver/interp.c).  A generator is a box as in ByrdBoxes: entered at     *)
(* alpha it gives its first value, at beta the next, and it fails when it  *)
(* has no more.  A box calls its operands' boxes and nothing comes between, *)
(* so one entry of the outermost box is one step; between two entries runs *)
(* the body of the loop, which may change what the boxes read, or contain  *)
(* another loop.                                                           *)
(*                                                                         *)
(* A procedure that suspends is a coroutine on a C stack of its own, but   *)
(* its variables are in icn_frame_stack, which it shares with everybody:   *)
(* its frame stays there while it is suspended.                            *)
(*                                                                         *)
(* The state of the box of key(T) is KeyTable's, with the table.           *)
(***************************************************************************)
EXTENDS KeyTable, SequencesExt

CONSTANTS
  Program,     \* the programs: nested loops over expressions
  NestedMax,   \* ICN_TO_NESTED_MAX
  FrameMax,    \* ICN_FRAME_MAX
  MaxList      \* bound: how long the list gets

ASSUME IconAssumption ==
  /\ {NestedMax, FrameMax} \subseteq Nat \ {0} /\ MaxList \in Nat

(***************************************************************************)
(* A program is [nodes, loops, keys]: it inserts the keys and then runs    *)
(* the loops.  A node is [fn, kids, op, n]; a loop, the                    *)
(* outermost first, [root, form, act]: "every root do" or "every x := root *)
(* do", with a body that is the next loop and then the act.                *)
(***************************************************************************)
VARIABLES
  prog,
  at,        \* where the interpreter is: "enter", "check", "act", "resume", "done", "wild"
  loops,     \* the loops under way, the outermost first
  boxes,     \* the state of the box of every node
  frames,    \* icn_frame_stack, the first is main's
  depth,     \* icn_frame_depth
  active,    \* icn_active_ss: the procedure box that a suspend yields to, or 0
  staged,    \* icn_coro_stage: the procedure box built last
  list,      \* the list that "!L" goes through
  out        \* what the bodies were given: the loop and the value

vars == <<prog, at, loops, boxes, frames, depth, active, staged, list, out, keyVars>>

Node(n) == prog.nodes[n]
Kid(n, i) == Node(n).kids[i]
Fail == <<>>    \* FAILDESCR; a value v is <<v>>

\* What a step of the boxes reads and changes.
Now == [boxes |-> boxes, frames |-> frames, depth |-> depth, active |-> active,
        staged |-> staged, place |-> place, given |-> given, kept |-> kept, wild |-> FALSE]
Becomes(s) == /\ boxes' = s.boxes /\ frames' = s.frames /\ depth' = s.depth
              /\ active' = s.active /\ staged' = s.staged
              /\ place' = s.place /\ given' = s.given /\ kept' = s.kept

\* IcnFrame: the first variable of a procedure and its limit, for main the first
\* is x; and the flags that return and break set.
Frame(a, b) == [env |-> <<a, b>>, returning |-> FALSE, value |-> Fail, loop_break |-> FALSE]

Scalar(n)   == Node(n).fn \in {"int", "var"}
Value(n, s) == IF Node(n).fn = "int" THEN Node(n).n ELSE s.frames[s.depth].env[1]

Given(v, n, z, s) == [val |-> v, s |-> [s EXCEPT !.boxes[n] = z]]

-----------------------------------------------------------------------------
(* Ranges, lists and tables *)

icn_bb_to(n, port, s) ==
  LET z   == s.boxes[n]
      cur == IF port = "alpha" THEN z.lo ELSE z.cur + 1
  IN Given(IF cur > z.hi THEN Fail ELSE <<cur>>, n, [z EXCEPT !.cur = cur], s)

icn_bb_to_by(n, port, s) ==
  LET z    == s.boxes[n]
      cur  == IF port = "alpha" THEN z.lo ELSE z.cur + z.by
      over == IF z.by < 0 THEN cur < z.hi ELSE cur > z.hi
  IN Given(IF over THEN Fail ELSE <<cur>>, n, [z EXCEPT !.cur = cur], s)

\* The bounds were generated when the box was built: every low one, with every
\* high one.
RECURSIVE Within(_)
Within(z) ==
  LET last == z.hi = Len(z.his)
      lo   == IF last THEN z.lo + 1 ELSE z.lo
  IN IF z.lo > Len(z.los) \/ z.cur <= z.his[z.hi] THEN z
     ELSE Within([z EXCEPT !.lo = lo, !.hi = IF last THEN 1 ELSE @ + 1,
                           !.cur = IF lo > Len(z.los) THEN @ ELSE z.los[lo]])

icn_bb_to_nested(n, port, s) ==
  LET z == s.boxes[n]
      y == Within(IF port = "alpha" THEN [z EXCEPT !.lo = 1, !.hi = 1, !.cur = z.los[1]]
                  ELSE [z EXCEPT !.cur = @ + 1])
  IN IF z.los = <<>> \/ z.his = <<>> THEN Given(Fail, n, z, s)
     ELSE Given(IF y.lo > Len(y.los) THEN Fail ELSE <<y.cur>>, n, y, s)

\* !L, which looks at the list at every entry.
icn_bb_list_iterate(n, port, s) ==
  LET pos == IF port = "alpha" THEN 1 ELSE s.boxes[n].pos + 1
  IN IF list = <<>> THEN Given(Fail, n, s.boxes[n], s)
     ELSE Given(IF pos > Len(list) THEN Fail ELSE <<list[pos]>>, n, [pos |-> pos], s)

\* key(T), whose state and history are those of KeyTable.
icn_bb_tbl_key_iterate(port, s) ==
  LET z == IF port = "alpha" THEN First ELSE Following(s.place)
  IN [val |-> Yield(z),
      s |-> [s EXCEPT !.place = z,
                      !.given = IF port = "alpha" THEN Yield(z) ELSE @ \o Yield(z),
                      !.kept = IF port = "alpha" THEN Present(table) ELSE @]]

-----------------------------------------------------------------------------
(* Procedures: x := lo; while x <= hi do suspend x do x := x + 1; then return or fail *)

Returns(n) == IF Node(n).op = "return" THEN <<Node(n).n>> ELSE Fail
Wild(s) == [s EXCEPT !.wild = TRUE]

\* The procedure is over: its frame goes and the coroutine is exhausted.
Finished(n, v, s) ==
  [s EXCEPT !.depth = @ - 1, !.active = 0, !.boxes[n].yielded = v, !.boxes[n].exhausted = TRUE]

\* icn_call_proc, from the test of its loop on.  A suspend yields to whatever box
\* is the active one; with none it does nothing, and the loop is not tried again.
RunProc(n, s) ==
  LET f == s.frames[s.depth]
      ends == Finished(n, Returns(n), s)
  IN CASE f.returning -> Finished(n, f.value, s)
       [] ~ f.returning /\ f.loop_break -> Finished(n, Fail, s)
       [] OTHER -> IF f.env[1] > f.env[2] \/ s.active = 0 THEN ends
                   ELSE IF s.active = n THEN [s EXCEPT !.boxes[n].yielded = <<f.env[1]>>]
                   ELSE Wild(s)

\* Building a procedure's box stages its call; the mutated form forgets to.
NotStaged(n, s) == s
Staged(n, s)    == [s EXCEPT !.staged = n]

\* icn_proc_trampoline takes the call that was staged last, whosever it is.
Start(n, s) ==
  LET t == [s EXCEPT !.boxes[n].started = TRUE]
  IN IF s.staged # n THEN Wild(t)
     ELSE IF s.depth = FrameMax
     THEN [t EXCEPT !.active = 0, !.boxes[n].yielded = Fail, !.boxes[n].exhausted = TRUE]
     ELSE RunProc(n, [t EXCEPT !.active = n, !.depth = @ + 1, !.frames[s.depth + 1] = s.boxes[n].frame])

\* Resumed behind its suspend, whose do clause counts x up.
Resumed(n, s) == RunProc(n, [s EXCEPT !.frames[s.depth].env[1] = @ + 1])

\* An entry at alpha does not start a procedure again.
icn_bb_suspend(n, port, s) ==
  LET z == s.boxes[n]
      t == IF port = "alpha" /\ ~ z.started THEN Start(n, s)
           ELSE IF z.exhausted THEN s ELSE Resumed(n, s)
      y == t.boxes[n]
  IN IF z.exhausted /\ z.returned THEN [val |-> Fail, s |-> s]
     ELSE Given(y.yielded, n, [y EXCEPT !.returned = y.exhausted /\ y.yielded # Fail], t)


-----------------------------------------------------------------------------
(* Boxes with operands *)

RECURSIVE Enter(_, _, _), Advanced(_, _), Applied(_, _), Bang(_, _, _)

\* Not a variable: a value at alpha, nothing more.
icn_lazy_box(n, port, s) ==
  [val |-> IF port = "alpha" THEN <<Value(n, s)>> ELSE Fail, s |-> s]

icn_bb_alternate(n, port, s) ==
  LET z == s.boxes[n]
      w == IF port = "alpha" THEN 1 ELSE z.which
      r == Enter(Kid(n, w), port, [s EXCEPT !.boxes[n] = [which |-> w]])
  IN IF r.val # Fail \/ w = 2 THEN r
     ELSE Enter(Kid(n, 2), "alpha", [r.s EXCEPT !.boxes[n] = [which |-> 2]])

icn_bb_limit(n, port, s) ==
  LET z == s.boxes[n]
      r == Enter(Kid(n, 1), port, s)
      count == IF port = "alpha" THEN 1 ELSE z.count + 1
  IN IF z.max <= 0 \/ (port = "beta" /\ z.count >= z.max) THEN [val |-> Fail, s |-> s]
     ELSE Given(r.val, n, [z EXCEPT !.count = IF r.val = Fail THEN count - 1 ELSE count], r.s)

\* icn_binop_apply: the value of the operation, and whether its failure is that of
\* a comparison, which is retried.
Op(op, l, r) ==
  CASE op = "add"  -> [val |-> <<l + r>>, retry |-> FALSE]
    [] op = "div"  -> [val |-> IF r = 0 THEN Fail ELSE <<l \div r>>, retry |-> FALSE]
    [] op = "less" -> [val |-> IF l < r THEN <<r>> ELSE Fail, retry |-> TRUE]

Left(n, v, s)  == [s EXCEPT !.boxes[n].left = v]
Right(n, v, s) == [s EXCEPT !.boxes[n].right = v]

\* The next left value, with the right operand from its start; in the mutated form
\* from where it is.
RightNotRestarted(n, s) ==
  LET l == Enter(Kid(n, 1), "beta", s)
      r == Enter(Kid(n, 2), "beta", Left(n, l.val, l.s))
  IN IF l.val = Fail THEN [ok |-> FALSE, more |-> FALSE, s |-> l.s]
     ELSE [ok |-> r.val # Fail, more |-> TRUE, s |-> Right(n, r.val, r.s)]
NextLeft(n, s) ==
  LET l == Enter(Kid(n, 1), "beta", s)
      r == Enter(Kid(n, 2), "alpha", Left(n, l.val, l.s))
  IN IF l.val = Fail THEN [ok |-> FALSE, more |-> FALSE, s |-> l.s]
     ELSE [ok |-> r.val # Fail, more |-> TRUE, s |-> Right(n, r.val, r.s)]

\* Resumed: the next pair of values.
Advanced(n, s) ==
  LET r == Enter(Kid(n, 2), "beta", s)
      p == NextLeft(n, r.s)
  IN IF r.val # Fail THEN [ok |-> TRUE, s |-> Right(n, r.val, r.s)]
     ELSE IF p.ok \/ ~ p.more THEN [ok |-> p.ok, s |-> p.s]
     ELSE Advanced(n, p.s)

\* The operation on the pair at hand, and on the next ones while a comparison fails.
Applied(n, s) ==
  LET z == s.boxes[n]
      o == Op(Node(n).op, z.left[1], z.right[1])
      r == Enter(Kid(n, 2), "beta", s)
      p == NextLeft(n, r.s)
  IN IF o.val # Fail \/ ~ o.retry THEN [val |-> o.val, s |-> s]
     ELSE IF r.val # Fail THEN Applied(n, Right(n, r.val, r.s))
     ELSE IF p.ok THEN Applied(n, p.s) ELSE [val |-> Fail, s |-> p.s]

icn_bb_binop_gen(n, port, s) ==
  LET l == Enter(Kid(n, 1), "alpha", s)
      r == Enter(Kid(n, 2), "alpha", Left(n, l.val, l.s))
      a == Advanced(n, s)
  IN IF port = "beta"
     THEN IF a.ok THEN Applied(n, a.s) ELSE [val |-> Fail, s |-> a.s]
     ELSE IF l.val = Fail THEN l
     ELSE IF r.val = Fail THEN r ELSE Applied(n, Right(n, r.val, r.s))

\* x := e writes x in the current frame before it hands the value on.
icn_bb_assign_gen(n, port, s) ==
  LET r == Enter(Kid(n, 1), port, s)
  IN IF r.val = Fail THEN r
     ELSE [r EXCEPT !.s.frames[r.s.depth].env[1] = r.val[1]]

\* write(e) hands on what it writes.
icn_bb_fnc_gen(n, port, s) == Enter(Kid(n, 1), port, s)

\* A procedure of the program that fails on 2 and returns what else it is given; its
\* frame is above all others and gone again.
Called(v) == IF v = 2 THEN Fail ELSE <<v>>

\* f ! e: a call that fails is passed over.
Bang(n, port, s) ==
  LET r == Enter(Kid(n, 1), port, s)
  IN IF r.val = Fail THEN r
     ELSE IF Called(r.val[1]) = Fail THEN Bang(n, "beta", r.s)
     ELSE [r EXCEPT !.val = Called(r.val[1])]
icn_bb_bang_binary(n, port, s) == Bang(n, port, s)

Nested(n) == ~ Scalar(Kid(n, 1)) \/ ~ Scalar(Kid(n, 2))

\* Entering the box of node n.
Enter(n, port, s) ==
  CASE Scalar(n)            -> icn_lazy_box(n, port, s)
    [] Node(n).fn = "to"    -> IF Nested(n) THEN icn_bb_to_nested(n, port, s) ELSE icn_bb_to(n, port, s)
    [] Node(n).fn = "by"    -> icn_bb_to_by(n, port, s)
    [] Node(n).fn = "list"  -> icn_bb_list_iterate(n, port, s)
    [] Node(n).fn = "key"   -> icn_bb_tbl_key_iterate(port, s)
    [] Node(n).fn = "proc"  -> icn_bb_suspend(n, port, s)
    [] Node(n).fn = "alt"   -> icn_bb_alternate(n, port, s)
    [] Node(n).fn = "limit" -> icn_bb_limit(n, port, s)
    [] Node(n).fn = "binop" -> icn_bb_binop_gen(n, port, s)
    [] Node(n).fn = "set"   -> icn_bb_assign_gen(n, port, s)
    [] Node(n).fn = "call"  -> icn_bb_fnc_gen(n, port, s)
    [] Node(n).fn = "bang"  -> icn_bb_bang_binary(n, port, s)

-----------------------------------------------------------------------------
(* icn_eval_gen: the boxes of an expression, built when the loop is entered *)

RECURSIVE Built(_, _), Collected(_, _, _)

\* The values of a bound of "to", all of them at once; r is what its last entry gave.
Collected(n, vs, r) ==
  IF r.val = Fail \/ Len(vs) = NestedMax THEN [vs |-> vs, s |-> r.s]
  ELSE Collected(n, vs \o r.val, Enter(n, "beta", r.s))
Bounds(n, s) ==
  IF Scalar(n) THEN [vs |-> <<Value(n, s)>>, s |-> s]
  ELSE Collected(n, <<>>, Enter(n, "alpha", Built(n, s)))

\* With the bounds of "to" at hand, and what generating them has changed.
Between(n, los, his) ==
  [his.s EXCEPT !.boxes[n] = [los |-> los.vs, his |-> his.vs, lo |-> 1, hi |-> 1, cur |-> 0]]
From(n, los) == Between(n, los, Bounds(Kid(n, 2), los.s))

Built(n, s) ==
  LET V(i)  == Value(Kid(n, i), s)
      With(z, t) == [t EXCEPT !.boxes[n] = z]
  IN CASE Scalar(n) \/ Node(n).fn = "key" -> s
       [] Node(n).fn = "to" ->
            IF Nested(n) THEN From(n, Bounds(Kid(n, 1), s))
            ELSE With([lo |-> V(1), hi |-> V(2), cur |-> 0], s)
       [] Node(n).fn = "by"   -> With([lo |-> V(1), hi |-> V(2), by |-> V(3), cur |-> 0], s)
       [] Node(n).fn = "list" -> With([pos |-> 1], s)
       [] Node(n).fn = "proc" ->
            With([frame |-> Frame(V(1), V(2)), started |-> FALSE, exhausted |-> FALSE,
                  returned |-> FALSE, yielded |-> Fail], Staged(n, s))
       [] Node(n).fn = "alt"   -> With([which |-> 1], Built(Kid(n, 2), Built(Kid(n, 1), s)))
       [] Node(n).fn = "limit" -> LET t == Built(Kid(n, 1), s)
                                  IN With([max |-> Value(Kid(n, 2), t), count |-> 0], t)
       [] Node(n).fn = "binop" -> With([left |-> Fail, right |-> Fail], Built(Kid(n, 2), Built(Kid(n, 1), s)))
       [] Node(n).fn \in {"set", "call", "bang"} -> Built(Kid(n, 1), s)

-----------------------------------------------------------------------------
(* The loops *)

Loop == Last(loops)
Code == prog.loops[Len(loops)]
Cur  == frames[depth]    \* ICN_CUR

Init ==
  /\ prog \in Program
  /\ at = "enter" /\ loops = <<>> /\ out = <<>>
  /\ boxes = [n \in DOMAIN prog.nodes |-> <<>>]
  /\ frames = [d \in 1 .. FrameMax |-> Frame(3, 0)]
  /\ depth = 1 /\ active = 0 /\ staged = 0
  /\ list = <<4, 5>>
  /\ table = FoldLeft(Added, NewTable, prog.keys)
  /\ place = Nowhere /\ given = <<>> /\ kept = {}

\* E_EVERY: builds the boxes and enters the outermost at alpha.
EnterLoop ==
  /\ at = "enter"
  /\ LET root == prog.loops[Len(loops) + 1].root
     IN \E b \in {Built(root, Now)} : \E r \in {Enter(root, "alpha", b)} :
          /\ Becomes(r.s)
          /\ loops' = Append(loops, [caller |-> b.depth, val |-> r.val, saved |-> b.depth])
          /\ at' = IF r.s.wild THEN "wild" ELSE "check"
  /\ UNCHANGED <<prog, list, table, out>>

\* The test of the loop: ICN_CUR is the frame that is on top now, a suspended
\* procedure's if the generator left one there.
GoesOn == Loop.val # Fail /\ ~ Cur.returning /\ ~ Cur.loop_break

Tick ==
  /\ at = "check" /\ GoesOn
  /\ out' = Append(out, <<Len(loops), Loop.val[1]>>)
  /\ loops' = [loops EXCEPT ![Len(loops)].saved = depth]
  /\ \/ Code.form = "plain" /\ depth' = Loop.caller /\ UNCHANGED frames
     \/ /\ Code.form = "assign" /\ UNCHANGED depth
        /\ frames' = [frames EXCEPT ![depth].env[1] = Loop.val[1]]
  /\ at' = IF Len(loops) < Len(prog.loops) THEN "enter" ELSE "act"
  /\ UNCHANGED <<prog, boxes, active, staged, list, keyVars>>

\* The loop is over; the loop around it goes on with the rest of its body.
LeaveLoop ==
  /\ at = "check" /\ ~ GoesOn
  /\ frames' = [frames EXCEPT ![depth].loop_break = FALSE]
  /\ loops' = Front(loops)
  /\ at' = IF Len(loops) = 1 THEN "done" ELSE "act"
  /\ UNCHANGED <<prog, boxes, depth, active, staged, list, out, keyVars>>

Acts(what) == at = "act" /\ Code.act.do = what
Breaks     == Code.act.do = "break" /\ Loop.val[1] = Code.act.n

\* The rest of the body does nothing (more) that matters here.
Pass ==
  /\ at = "act" /\ ~ Breaks /\ Code.act.do # "call" /\ at' = "resume"
  /\ UNCHANGED <<prog, loops, boxes, frames, depth, active, staged, list, out, keyVars>>

Break ==
  /\ at = "act" /\ Breaks /\ at' = "resume"
  /\ frames' = [frames EXCEPT ![depth].loop_break = TRUE]
  /\ UNCHANGED <<prog, loops, boxes, depth, active, staged, list, out, keyVars>>

\* A procedure that returns: its frame is the next one, and is cleared first.
Call ==
  /\ Acts("call") /\ at' = "resume"
  /\ frames' = IF depth = FrameMax THEN frames
               ELSE [frames EXCEPT ![depth + 1] = [Frame(8, 0) EXCEPT !.returning = TRUE, !.value = <<9>>]]
  /\ UNCHANGED <<prog, loops, boxes, depth, active, staged, list, out, keyVars>>

Put ==
  /\ Acts("put") /\ Len(list) < MaxList
  /\ list' = Append(list, Len(list) + 4)
  /\ UNCHANGED <<prog, at, loops, boxes, frames, depth, active, staged, out, keyVars>>

\* insert(T, k) or delete(T, k).
Edit ==
  /\ Acts("edit") /\ \E k \in Keys : Insert(k) \/ Delete(k)
  /\ UNCHANGED <<prog, at, loops, boxes, frames, depth, active, staged, list, out>>

\* After the body: the frames are as the generator left them, and it is resumed
\* unless the flags of the frame on top say that the loop is over.
Resume ==
  /\ at = "resume"
  /\ LET d == IF Code.form = "plain" THEN Loop.saved ELSE depth
     IN IF frames[d].returning \/ frames[d].loop_break
        THEN /\ depth' = d /\ at' = "check"
             /\ UNCHANGED <<loops, boxes, frames, active, staged, place, given, kept>>
        ELSE \E r \in {Enter(Code.root, "beta", [Now EXCEPT !.depth = d])} :
             /\ Becomes(r.s)
             /\ loops' = [loops EXCEPT ![Len(loops)].val = r.val]
             /\ at' = IF r.s.wild THEN "wild" ELSE "check"
  /\ UNCHANGED <<prog, list, table, out>>

Done == at \in {"done", "wild"} /\ UNCHANGED vars

Next ==
  \/ EnterLoop \/ Tick \/ LeaveLoop \/ Resume
  \/ Pass \/ Break \/ Call \/ Put \/ Edit
  \/ Done

Spec == Init /\ [][Next]_vars

-----------------------------------------------------------------------------

(* A coroutine is entered with the call that was staged for it ("wild" is not
   among the places), and there is always a frame. *)
TypeOK ==
  /\ at \in {"enter", "check", "act", "resume", "done"}
  /\ depth \in 1 .. FrameMax /\ {active, staged} \subseteq {0} \cup DOMAIN prog.nodes
  /\ Len(loops) \in 0 .. Len(prog.loops) /\ Len(list) \in 2 .. MaxList
=============================================================================
