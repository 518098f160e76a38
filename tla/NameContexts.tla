---------------------------- MODULE NameContexts ----------------------------
(***************************************************************************)
(* The contexts of the naming list (runtime/x86/snobol4_nmd.c) under       *)
(* nested matches.  A match pushes its conditional captures on the current *)
(* context; a function that it calls, or an expression that it evaluates,  *)
(* may run whole statements with contexts of their own before the outer    *)
(* match goes on.  exec_stmt (stmt_exec.c) and EXPVAL_fn (eval_code.c)     *)
(* enter and leave the contexts, NAME_commit assigns the captures.         *)
(***************************************************************************)
EXTENDS Integers, Sequences, NamList

CONSTANTS
  Vars, Values,
  Functions,    \* of each function, the variables it saves: its name, parameters and locals
  MaxFrames,    \* the depth of the C stack
  MaxNames,     \* the captures waiting in all contexts
  MaxChain      \* the contexts in the chain, those lost by errors included

ASSUME NameContextsAssumption ==
  /\ Values # {}
  /\ Functions \subseteq SUBSET Vars
  /\ MaxFrames \in Nat /\ MaxNames \in Nat /\ MaxChain \in Nat \ {0}

VARIABLES
  frames,   \* the C stack, the innermost activity last
  chain,    \* the contexts from the root to g_ctx_current
  nv,       \* the variables of the program
  ref       \* history: the variables, had no assignment been left out

vars == <<frames, chain, nv, ref>>

Entry == [kind : NameKind, var : Vars, val : Values]

\* An activity of the C stack: a match looking for a solution, a match assigning
\* its captures (slot is the loop variable of NAME_commit), an expression under
\* EXPVAL_fn, or a function of the program.  ctx is the context it works with,
\* saved the values of the variables L that a function saves; names is history:
\* the captures that the match has made.
Frame(doing, ctx, L) ==
  [doing |-> doing, ctx |-> ctx, slot |-> 1, names |-> <<>>, saved |-> [v \in L |-> nv[v]]]

Front(s)   == SubSeq(s, 1, Len(s) - 1)
Final(s)   == s[Len(s)]
Doing(d)   == frames # <<>> /\ Final(frames).doing = d
InProgram  == frames = <<>> \/ Doing("function")
Top        == Final(frames)
Replacing(s, e) == [s EXCEPT ![Len(s)] = e]

\* NAME_ctx_enter; NAME_ctx_leave never leaves the root.  Its mutated form
\* forgets to unlink the context.
NAME_ctx_enter == Append(chain, <<>>)
Unlinked == chain
NAME_ctx_leave == IF Len(chain) = 1 THEN chain ELSE Front(chain)

Names    == Final(chain)
Pending  == chain[Top.ctx]      \* what NAME_commit walks: its local ctx
InCommit == Doing("commit") /\ Top.slot <= Len(Pending)
AtCall   == InCommit /\ Pending[Top.slot].kind = "NM_CALL"

\* Where code of the program runs, and where a pattern, an expression or a
\* function can start: there, in a match, and where NAME_commit calls.
Running  == InProgram \/ Doing("eval")
MayStart == Running \/ Doing("match") \/ AtCall

\* The number of captures that wait in contexts of the C stack.
Waiting[n \in 0 .. Len(chain)] == IF n = 0 THEN 0 ELSE Waiting[n - 1] + Len(chain[n])

Init ==
  /\ frames = <<>>
  /\ chain = << <<>> >>
  /\ \E w \in Values : nv = [v \in Vars |-> w]
  /\ ref = nv

-----------------------------------------------------------------------------
(* The program and the activities it nests *)

Room == Len(frames) < MaxFrames

\* A statement or an expression assigns a variable.
Assign(v, w) ==
  /\ Running
  /\ nv' = [nv EXCEPT ![v] = w]
  /\ ref' = [ref EXCEPT ![v] = w]
  /\ UNCHANGED <<frames, chain>>

\* exec_stmt enters a context for its match: the one of a statement, or of a
\* pattern that EVAL is given.
Match ==
  /\ MayStart /\ Room /\ Len(chain) < MaxChain
  /\ chain' = NAME_ctx_enter
  /\ frames' = Append(frames, Frame("match", Len(chain) + 1, {}))
  /\ UNCHANGED <<nv, ref>>

\* EXPVAL_fn: the program, an expression, a deferred expression of the pattern, or
\* an argument of the function that NAME_commit is about to call.
Evaluate ==
  /\ MayStart /\ Room /\ Len(chain) < MaxChain
  /\ chain' = NAME_ctx_enter
  /\ frames' = Append(frames, Frame("eval", Len(chain) + 1, {}))
  /\ UNCHANGED <<nv, ref>>

Evaluated ==
  /\ Doing("eval")
  /\ chain' = NAME_ctx_leave
  /\ frames' = Front(frames)
  /\ UNCHANGED <<nv, ref>>

\* call_user_function: the program, an expression, a box of the pattern or
\* NAME_commit calls a function, which saves the variables L and sets them.
Bound(f, L, w) == [v \in Vars |-> IF v \in L THEN w ELSE f[v]]

CallFunction(L, w) ==
  /\ MayStart /\ Room
  /\ frames' = Append(frames, Frame("function", Len(chain), L))
  /\ nv' = Bound(nv, L, w)
  /\ ref' = Bound(ref, L, w)
  /\ UNCHANGED chain

\* What the function saved comes back.  (Where a function is called, nv and ref
\* agree: SkippingIsInvisible.)
Restored(f) == [v \in Vars |-> IF v \in DOMAIN Top.saved THEN Top.saved[v] ELSE f[v]]

FunctionReturns ==
  /\ Doing("function")
  /\ frames' = Front(frames)
  /\ nv' = Restored(nv)
  /\ ref' = Restored(ref)
  /\ UNCHANGED chain

\* A runtime error drops the C stack down to the statement loop (longjmp) and
\* leaves the contexts linked and the saved variables lost; to assign a capture
\* raises none.
RuntimeError ==
  /\ frames # <<>> /\ MayStart
  /\ frames' = <<>>
  /\ UNCHANGED <<chain, nv, ref>>

-----------------------------------------------------------------------------
(* A match: the boxes push and pop, "$" and @ assign at once *)

Push(e) ==
  /\ Doing("match")
  /\ Waiting[Len(chain)] < MaxNames
  /\ chain' = Replacing(chain, NAME_push(Names, e))
  /\ frames' = Replacing(frames, [Top EXCEPT !.names = NAME_push(@, e)])
  /\ UNCHANGED <<nv, ref>>

Pop ==
  /\ Doing("match")
  /\ chain' = Replacing(chain, NAME_pop(Names))
  /\ frames' = Replacing(frames, [Top EXCEPT !.names = NAME_pop(@)])
  /\ UNCHANGED <<nv, ref>>

AssignNow(v, w) ==
  /\ Doing("match")
  /\ nv' = [nv EXCEPT ![v] = w]
  /\ ref' = [ref EXCEPT ![v] = w]
  /\ UNCHANGED <<frames, chain>>

\* The match fails, or its replacement has no home.
MatchFails ==
  /\ Doing("match")
  /\ chain' = NAME_ctx_leave
  /\ frames' = Front(frames)
  /\ UNCHANGED <<nv, ref>>

MatchSucceeds ==
  /\ Doing("match")
  /\ frames' = Replacing(frames, [Top EXCEPT !.doing = "commit"])
  /\ UNCHANGED <<chain, nv, ref>>

-----------------------------------------------------------------------------
(* NAME_commit *)

NextSlot == frames' = Replacing(frames, [Top EXCEPT !.slot = @ + 1])

\* A plain entry that a later one overwrites is skipped.
Skip ==
  /\ InCommit
  /\ Superseded(Pending, Top.slot)
  /\ ref' = [ref EXCEPT ![Pending[Top.slot].var] = Pending[Top.slot].val]
  /\ NextSlot
  /\ UNCHANGED <<chain, nv>>

\* A plain entry is assigned; of a call, the cell that the function returned.
Fire ==
  /\ InCommit
  /\ ~ Superseded(Pending, Top.slot)
  /\ nv' = [nv EXCEPT ![Pending[Top.slot].var] = Pending[Top.slot].val]
  /\ ref' = [ref EXCEPT ![Pending[Top.slot].var] = Pending[Top.slot].val]
  /\ NextSlot
  /\ UNCHANGED chain

\* The function failed: no cell to assign.
CallFails ==
  /\ AtCall
  /\ NextSlot
  /\ UNCHANGED <<chain, nv, ref>>

\* The list is empty, and exec_stmt leaves the context.
CommitDone ==
  /\ Doing("commit")
  /\ Top.slot > Len(Pending)
  /\ chain' = NAME_ctx_leave
  /\ frames' = Front(frames)
  /\ UNCHANGED <<nv, ref>>

Next ==
  \/ \E v \in Vars, w \in Values : Assign(v, w) \/ AssignNow(v, w)
  \/ \E L \in Functions, w \in Values : CallFunction(L, w)
  \/ Match \/ Evaluate \/ Evaluated \/ FunctionReturns \/ RuntimeError
  \/ \E e \in Entry : Push(e)
  \/ Pop \/ MatchFails \/ MatchSucceeds
  \/ Skip \/ Fire \/ CallFails \/ CommitDone

Spec == Init /\ [][Next]_vars

-----------------------------------------------------------------------------
(* Properties *)

FrameType == [doing : {"match", "commit", "eval", "function"}, ctx : Nat, slot : Nat \ {0},
              names : Seq(Entry), saved : UNION {[L -> Values] : L \in SUBSET Vars}]

\* Every variable has its type.
TypeOK ==
  /\ frames \in Seq(FrameType)
  /\ chain \in Seq(Seq(Entry)) /\ chain # <<>>
  /\ nv \in [Vars -> Values]
  /\ ref \in [Vars -> Values]

\* The captures waiting for a match are those that this match has made: what
\* runs nested in it, with its own matches, commits and failures, neither adds
\* to them nor takes from them ("the inner ctx sees only its own pushes, and
\* outer entries are unreachable", stmt_exec.c).
OwnNames ==
  \A i \in 1 .. Len(frames) :
    frames[i].doing \in {"match", "commit"} =>
      frames[i].ctx <= Len(chain) /\ chain[frames[i].ctx] = frames[i].names

\* Leaving out superseded captures never shows: whenever the program runs, in a
\* function called from the middle of NAME_commit too, and whenever a match
\* looks for a solution, every variable has the value that assigning all
\* captures in order would have given it.
SkippingIsInvisible == MayStart => nv = ref
=============================================================================
