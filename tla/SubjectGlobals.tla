--------------------------- MODULE SubjectGlobals ---------------------------
(***************************************************************************)
(* The globals of a match (bb_box.h): Sigma, the subject; Omega, the last  *)
(* scan position; Delta, the cursor; Sigmalen, the length of the subject.  *)
(* exec_stmt (stmt_exec.c) assigns them for its match and nothing gives    *)
(* them back when it ends, so whatever runs statements in the middle of a  *)
(* match must save them: call_user_function (driver/interp.c) saves four,  *)
(* EXPVAL_fn (eval_code.c) three.  The EVAL builtin runs a pattern that it *)
(* is given as a statement on the null string, and saves none.             *)
(* call_depth counts the frames that function calls hold in call_stack.    *)
(***************************************************************************)
EXTENDS Integers, Sequences, FiniteSets

CONSTANTS
  Subjects,       \* the subjects of statements
  MaxFrames,      \* the depth of the C stack
  CallStackMax,   \* CALL_STACK_MAX, the frames of call_stack
  PatternEvalIn   \* the activities in which the program evaluates a pattern

Global == {"Sigma", "Omega", "Delta", "Sigmalen"}

ASSUME SubjectGlobalsAssumption ==
  /\ \A s \in Subjects : s \in Seq(STRING)
  /\ <<>> \in Subjects
  /\ MaxFrames \in Nat /\ CallStackMax \in Nat
  /\ PatternEvalIn \subseteq {"scan", "commit", "eval"}

VARIABLES
  g,            \* the four globals
  frames,       \* the C stack, the innermost activity last
  call_depth    \* of the program's functions; &FNCLEVEL

vars == <<g, frames, call_depth>>

\* An activity: a match looking for a solution or assigning its captures, an
\* expression under EXPVAL_fn, a function under call_user_function.  The last two
\* keep what they saved; of a match, own is history: the globals as this match
\* alone would have them, and lost the globals that a pattern evaluated under
\* EVAL may have changed behind its back.
Frame(doing, saved) == [doing |-> doing, saved |-> saved, own |-> saved, lost |-> {}]

Top       == frames[Len(frames)]
Doing(D)  == frames # <<>> /\ Top.doing \in D
Matching  == Doing({"scan", "commit"})
InProgram == frames = <<>> \/ Doing({"function"})
Room      == Len(frames) < MaxFrames
Popped    == SubSeq(frames, 1, Len(frames) - 1)
SetTop(f) == [frames EXCEPT ![Len(frames)] = f]

\* Phase 1 of exec_stmt, with Omega clamped under &ANCHOR, and position 0.
Started(s, anchor) ==
  [Sigma |-> s, Omega |-> IF anchor THEN 0 ELSE Len(s), Delta |-> 0, Sigmalen |-> Len(s)]

Init ==
  /\ g = Started(<<>>, FALSE)
  /\ frames = <<>>
  /\ call_depth = 0

-----------------------------------------------------------------------------
(* exec_stmt *)

Statement(s, anchor) ==
  /\ InProgram /\ Room
  /\ g' = Started(s, anchor)
  /\ frames' = Append(frames, Frame("scan", g'))
  /\ UNCHANGED call_depth

\* Where the boxes may put the cursor.
Reach == 0 .. g.Sigmalen

\* BB_SCAN and the boxes move the cursor.
Move(d) ==
  /\ Doing({"scan"})
  /\ d \in Reach
  /\ g' = [g EXCEPT !.Delta = d]
  /\ frames' = SetTop([Top EXCEPT !.own.Delta = d])
  /\ UNCHANGED call_depth

\* exec_stmt's saved copy of Omega comes back when BB_SCAN returns.
Unclamped(r) == [r EXCEPT !.Omega = Len(Top.own.Sigma)]

MatchFails ==
  /\ Doing({"scan"})
  /\ g' = Unclamped(g)
  /\ frames' = Popped
  /\ UNCHANGED call_depth

MatchSucceeds ==
  /\ Doing({"scan"})
  /\ g' = Unclamped(g)
  /\ frames' = SetTop([Top EXCEPT !.doing = "commit", !.own = Unclamped(@), !.lost = @ \ {"Omega"}])
  /\ UNCHANGED call_depth

\* The captures are assigned and the match, up to Omega, is replaced.
StatementEnds ==
  /\ Doing({"commit"})
  /\ frames' = Popped
  /\ UNCHANGED <<g, call_depth>>

-----------------------------------------------------------------------------
(* What runs in the middle of a match *)

\* A function takes a frame of call_stack; its mutated form takes none.
NotDeeper == call_depth
Deeper    == call_depth + 1

\* call_user_function.  Without a frame left the call fails, changing nothing.
CallFunction ==
  /\ InProgram \/ Matching \/ Doing({"eval"})
  /\ Room
  /\ call_depth < CallStackMax
  /\ call_depth' = Deeper
  /\ frames' = Append(frames, Frame("function", g))
  /\ UNCHANGED g

\* The globals come back; the mutated form does not save Delta.
RestoredButDelta(saved) == [saved EXCEPT !.Delta = g.Delta]
Restored(saved)         == saved

FunctionReturns ==
  /\ Doing({"function"})
  /\ g' = Restored(Top.saved)
  /\ call_depth' = call_depth - 1
  /\ frames' = Popped

\* EXPVAL_fn.
Evaluate ==
  /\ InProgram \/ Matching \/ Doing({"eval"})
  /\ Room
  /\ frames' = Append(frames, Frame("eval", g))
  /\ UNCHANGED <<g, call_depth>>

Evaluated ==
  /\ Doing({"eval"})
  /\ g' = [Top.saved EXCEPT !.Sigmalen = g.Sigmalen]
  /\ frames' = Popped
  /\ UNCHANGED call_depth

\* EVAL of a pattern: exec_stmt on the null string.  Of the matches that wait
\* for it one lost all globals or, beyond an expression, the one not saved there.
EvalPattern(anchor) ==
  /\ Doing(PatternEvalIn) /\ Room
  /\ UNCHANGED call_depth
  /\ g' = Started(<<>>, anchor)
  /\ LET above(i, d) == \E j \in i + 1 .. Len(frames) : frames[j].doing = d
         hit(i) == CASE above(i, "function") -> {}
                     [] ~ above(i, "function") /\ above(i, "eval") -> {"Sigmalen"}
                     [] OTHER -> Global
         seen == [i \in DOMAIN frames |-> [frames[i] EXCEPT !.lost = @ \cup hit(i)]]
     IN frames' = Append(seen, Frame("scan", g'))

\* A runtime error drops the C stack (longjmp) and restores nothing.
RuntimeError ==
  /\ frames # <<>>
  /\ frames' = <<>>
  /\ UNCHANGED <<g, call_depth>>

Next ==
  \/ \E s \in Subjects, anchor \in BOOLEAN : Statement(s, anchor)
  \/ \E d \in 0 .. g.Sigmalen + 1 : Move(d)
  \/ MatchFails \/ MatchSucceeds \/ StatementEnds
  \/ CallFunction \/ FunctionReturns \/ Evaluate \/ Evaluated
  \/ \E anchor \in BOOLEAN : EvalPattern(anchor)
  \/ RuntimeError

Spec == Init /\ [][Next]_vars

-----------------------------------------------------------------------------
(* Properties *)

Globals   == [Sigma : Subjects, Omega : Nat, Delta : Nat, Sigmalen : Nat]
FrameType == [doing : {"scan", "commit", "function", "eval"}, saved : Globals, own : Globals,
              lost : SUBSET Global]

\* Every variable has its type, and the cursor is within the longest subject.
TypeOK ==
  /\ g \in Globals
  /\ frames \in Seq(FrameType)
  /\ call_depth \in 0 .. CallStackMax
  /\ \E s \in Subjects : g.Delta <= Len(s)

\* A match finds the globals as it left them, whatever ran in the middle of it
\* (call_user_function: a recursive exec_stmt "doesn't clobber the caller's"
\* globals), except those lost to EVAL: a pattern evaluated in a function costs
\* the caller nothing, one evaluated in an expression only Sigmalen.
GlobalsKept == Matching => \A x \in Global \ Top.lost : g[x] = Top.own[x]

\* Every function that has not returned holds a frame of call_stack of its own,
\* whatever errors there were before it was called.
Nesting == Cardinality({i \in DOMAIN frames : frames[i].doing = "function"})
CallFramesHeld == Nesting <= call_depth
=============================================================================
