----------------------------- MODULE ByrdBoxes -----------------------------
(***************************************************************************)
(* One pattern-match statement of the SNOBOL4 runtime: exec_stmt drives    *)
(* the graph of Byrd boxes that bb_build made of the pattern over the      *)
(* subject (runtime/x86/stmt_exec.c, bb_broker.c, bb_boxes.c).             *)
(*                                                                         *)
(* A box is a C function entered at its alpha or its beta port; it returns *)
(* through gamma with a span of the subject, or through omega.  All boxes  *)
(* move one cursor and push on one naming list, and each keeps a private   *)
(* state zeta.  A step of the model is what a box does between two calls:  *)
(* from its entry to the call of a child or to its return, or from the     *)
(* return of a child onwards.                                              *)
(***************************************************************************)
EXTENDS Integers, Sequences, FiniteSets, NamList

CONSTANTS
  Chars,      \* the characters of subjects and patterns
  Vars,       \* the variables that patterns assign
  Program     \* the statements, see StatementOK

(***************************************************************************)
(* A statement has a subject, a pattern, the setting of &ANCHOR and, if it *)
(* has a replacement, the characters that replace the match; home tells    *)
(* whether there is a variable to write the subject back to.  A pattern is *)
(* a sequence of boxes, the root first, whose kids are positions further   *)
(* on; of text, chars, num, var, kind and immediate every kind of box      *)
(* reads what it needs.                                                    *)
(***************************************************************************)
LeafFn == {"lit", "any", "notany", "span", "brk", "breakx", "len", "pos", "rpos", "tab",
           "rtab", "rem", "bal", "eps", "fence", "succeed", "fail", "abort"}
BoxFn  == LeafFn \cup {"arb", "atp", "seq", "alt", "arbno", "not", "interr", "cap"}

BoxDef == [fn : BoxFn, kids : Seq(Nat), text : Seq(Chars), chars : SUBSET Chars,
           num : Nat, var : Vars, kind : NameKind, immediate : BOOLEAN]

PatternOK(pat) ==
  /\ pat \in Seq(BoxDef) /\ pat # <<>>
  /\ \A n \in DOMAIN pat :
       /\ \A i \in DOMAIN pat[n].kids : pat[n].kids[i] \in n + 1 .. Len(pat)
       /\ pat[n].fn = "seq" => Len(pat[n].kids) = 2
       /\ pat[n].fn = "alt" => Len(pat[n].kids) >= 1
       /\ pat[n].fn \in {"arbno", "not", "interr", "cap"} => Len(pat[n].kids) = 1
       /\ \A m \in DOMAIN pat : \A i \in DOMAIN pat[m].kids, j \in DOMAIN pat[n].kids :
            pat[m].kids[i] = pat[n].kids[j] => m = n /\ i = j    \* a box has a state of its own

StatementOK(s) == /\ s.sub \in Seq(Chars)
                  /\ PatternOK(s.pat)
                  /\ s.anchor \in BOOLEAN
                  /\ s.has_repl \in BOOLEAN
                  /\ s.repl \in Seq(Chars)
                  /\ s.home \in BOOLEAN
                  /\ ~ s.home => s.sub = <<>>    \* neither subj_name nor subj_var

ASSUME ProgramAssumption == \A s \in Program : StatementOK(s)

VARIABLES
  stmt,     \* the statement
  phase,    \* where exec_stmt is
  scan,     \* the loop variable of BB_SCAN
  Delta,    \* the cursor
  zeta,     \* the private state of every box
  ctl,      \* the port of the box in control, and the span it returns
  calls,    \* the C stack: the boxes waiting for a child, innermost first
  nam,      \* the naming list of this match
  slot,     \* the loop variable of NAME_commit
  nv,       \* the variables
  result,   \* match_start, match_end, the subject written back, the outcome
  hist      \* history: each box's cursor and naming list at alpha and at its last exit

machine == <<scan, Delta, zeta, ctl, calls, hist>>
vars    == <<stmt, phase, slot, nam, nv, result, machine>>

Sigma    == stmt.sub
Sigmalen == Len(Sigma)
Omega    == IF stmt.anchor THEN 0 ELSE Sigmalen   \* clamped under &ANCHOR
Pat      == stmt.pat
Box      == DOMAIN Pat
Char(p)  == Sigma[p + 1]                                   \* the cursor counts from zero

\* Spans carry the position and the length that a box computed, not the text.
Span(a, k) == [at |-> a, len |-> k]

\* Values of variables: a captured text, a cursor stored by @var, or nothing yet.
Unset   == [is |-> "unset", at |-> 0, len |-> 0]
Text(s) == [is |-> "text", at |-> s.at, len |-> s.len]
CursorAt(d) == [is |-> "cursor", at |-> d, len |-> 0]

-----------------------------------------------------------------------------
(* What the boxes without children match *)

\* The number of characters from d on that lie in S.
Run(d, S) ==
  LET ends == {k \in 0 .. Sigmalen : d + k >= Sigmalen \/ Char(d + k) \notin S}
  IN CHOOSE k \in ends : \A j \in ends : k <= j

\* bb_bal stops at the first closing parenthesis that nothing has opened.
BalRun(d) ==
  LET count(c, k) == Cardinality({i \in 0 .. k - 1 : Char(d + i) = c})
      ends == {k \in 0 .. Sigmalen : \/ d + k >= Sigmalen
                                     \/ Char(d + k) = ")" /\ count("(", k) = count(")", k)}
  IN CHOOSE k \in ends : \A j \in ends : k <= j

\* The length that box b matches at cursor d: a set of one length or of none.
Extent(b, d) ==
  CASE b.fn = "lit"    -> {k \in {Len(b.text)} : d + k <= Sigmalen /\ SubSeq(Sigma, d + 1, d + k) = b.text}
    [] b.fn = "any"    -> {k \in {1} : d < Sigmalen /\ Char(d) \in b.chars}
    [] b.fn = "notany" -> {k \in {1} : d < Sigmalen /\ Char(d) \notin b.chars}
    [] b.fn = "span"   -> {k \in {Run(d, b.chars)} : k > 0}
    [] b.fn = "brk"    -> {k \in {Run(d, Chars \ b.chars)} : d + k < Sigmalen}
    [] b.fn = "breakx" -> {k \in {Run(d, Chars \ b.chars)} : k > 0 /\ d + k < Sigmalen}
    [] b.fn = "len"    -> {k \in {b.num} : d + k <= Sigmalen}
    [] b.fn = "pos"    -> {k \in {0} : d = b.num}
    [] b.fn = "rpos"   -> {k \in {0} : d = Sigmalen - b.num}
    [] b.fn = "tab"    -> {k \in {b.num - d} : d <= b.num}
    [] b.fn = "rtab"   -> {k \in {Sigmalen - b.num - d} : d <= Sigmalen - b.num}
    [] b.fn = "rem"    -> {Sigmalen - d}
    [] b.fn = "bal"    -> {BalRun(d)}
    [] b.fn \in {"eps", "fence", "succeed"} -> {0}
    [] b.fn \in {"fail", "abort"} -> {}

\* How far box b moves the cursor back at beta; z is its private state.  The
\* mutated form forgets what the scanning boxes have saved.
UndoFixed(b, z) ==
  CASE b.fn = "lit"               -> Len(b.text)
    [] b.fn \in {"any", "notany"} -> 1
    [] b.fn = "len"               -> b.num
    [] OTHER                      -> 0
Undo(b, z) ==
  CASE b.fn = "lit"               -> Len(b.text)
    [] b.fn \in {"any", "notany"} -> 1
    [] b.fn = "len"               -> b.num
    [] b.fn \in {"span", "brk", "breakx", "bal", "tab", "rtab"} -> z.delta
    [] OTHER                      -> 0

-----------------------------------------------------------------------------
(* Ports, calls and returns *)

Entered == ctl.port \in {"alpha", "beta"}
\* The box whose code runs: the one entered, or the one its child returned to.
Me   == IF Entered THEN ctl.box ELSE Head(calls).box
Rest == IF Entered THEN calls ELSE Tail(calls)

EnteredAt(port, fns) == phase = "match" /\ ctl.port = port /\ Pat[ctl.box].fn \in fns
\* The child called at the place named "at" has returned through the port.
BackAt(port, fn, at) == /\ phase = "match" /\ ctl.port = port /\ calls # <<>>
                        /\ Pat[Head(calls).box].fn = fn
                        /\ Head(calls).at = at

\* The last conjunct of a step: Me calls its i-th child, or returns.  Delta',
\* nam' are determined before it.
Call(i, port, at) ==
  LET k == Pat[Me].kids[i]
  IN /\ calls' = <<[box |-> Me, at |-> at]>> \o Rest
     /\ ctl' = [port |-> port, box |-> k, span |-> Span(0, 0)]
     /\ hist' = IF port = "alpha"
                THEN [hist EXCEPT ![k] = [cursor |-> Delta', nam |-> nam', exit |-> "none",
                                          end |-> Delta', out |-> nam']]
                ELSE hist
Return(port, span) ==
  /\ calls' = Rest
  /\ ctl' = [port |-> port, box |-> Me, span |-> span]
  /\ hist' = [hist EXCEPT ![Me].exit = port, ![Me].end = Delta', ![Me].out = nam']
Gamma(span) == Return("gamma", span)
OmegaExit   == Return("omega", Span(0, 0))

\* Me assigns field f of its private state.
Set(f, v) == zeta' = [zeta EXCEPT ![Me][f] = v]

-----------------------------------------------------------------------------
(* Boxes without children *)

LeafAlpha ==
  /\ EnteredAt("alpha", LeafFn)
  /\ UNCHANGED <<nam, nv>>
  /\ LET fits == Extent(Pat[Me], Delta)
     IN \/ /\ fits = {}
           /\ UNCHANGED <<Delta, zeta>>
           /\ OmegaExit
        \/ \E k \in fits : /\ Delta' = Delta + k
                           /\ Set("delta", k)
                           /\ Gamma(Span(Delta, k))

\* bb_succeed succeeds again at beta; all others undo their advance and fail.
LeafBeta ==
  /\ EnteredAt("beta", LeafFn)
  /\ UNCHANGED <<zeta, nam, nv>>
  /\ \/ /\ Pat[Me].fn = "succeed"
        /\ UNCHANGED Delta
        /\ Gamma(Span(Delta, 0))
     \/ /\ Pat[Me].fn # "succeed"
        /\ Delta' = Delta - Undo(Pat[Me], zeta[Me])
        /\ OmegaExit

ArbAlpha ==
  /\ EnteredAt("alpha", {"arb"})
  /\ zeta' = [zeta EXCEPT ![Me].count = 0, ![Me].start = Delta]
  /\ UNCHANGED <<Delta, nam, nv>>
  /\ Gamma(Span(Delta, 0))

\* Whether a match may end at d; the mutated form is off by one.
InReachByOne(d) == d <= Sigmalen + 1
InReach(d)      == d <= Sigmalen

\* One character more than before.
NextCount(n) == zeta[n].count + 1

ArbBeta ==
  /\ EnteredAt("beta", {"arb"})
  /\ LET start == zeta[Me].start
         count == NextCount(Me)
     IN /\ Set("count", count)
        /\ UNCHANGED <<nam, nv>>
        /\ \/ /\ ~ InReach(start + count)
              /\ UNCHANGED Delta
              /\ OmegaExit
           \/ /\ InReach(start + count)
              /\ Delta' = start + count
              /\ Gamma(Span(start, count))

\* @var stores the cursor at once.
AtpAlpha ==
  /\ EnteredAt("alpha", {"atp"})
  /\ nv' = [nv EXCEPT ![Pat[Me].var] = CursorAt(Delta)]
  /\ UNCHANGED <<Delta, zeta, nam>>
  /\ Gamma(Span(Delta, 0))

AtpBeta ==
  /\ EnteredAt("beta", {"atp"})
  /\ UNCHANGED <<Delta, zeta, nam, nv>>
  /\ OmegaExit

-----------------------------------------------------------------------------
(* Concatenation *)

SeqAlpha ==
  /\ EnteredAt("alpha", {"seq"})
  /\ Set("matched", Span(Delta, 0))
  /\ UNCHANGED <<Delta, nam, nv>>
  /\ Call(1, "alpha", "left")

SeqBeta ==
  /\ EnteredAt("beta", {"seq"})
  /\ UNCHANGED <<Delta, zeta, nam, nv>>
  /\ Call(2, "beta", "right")

\* What bb_seq remembers of its left child: the mutated form adds it to the span
\* of an earlier try ("left result replaces, not accumulates").
Accumulated(n, span) == Span(zeta[n].matched.at, zeta[n].matched.len + span.len)
Replaced(n, span)    == span

SeqLeftGamma ==
  /\ BackAt("gamma", "seq", "left")
  /\ Set("matched", Replaced(Me, ctl.span))
  /\ UNCHANGED <<Delta, nam, nv>>
  /\ Call(2, "alpha", "right")

SeqLeftOmega ==
  /\ BackAt("omega", "seq", "left")
  /\ UNCHANGED <<Delta, zeta, nam, nv>>
  /\ OmegaExit

SeqRightGamma ==
  /\ BackAt("gamma", "seq", "right")
  /\ UNCHANGED <<Delta, zeta, nam, nv>>
  /\ Gamma(Span(zeta[Me].matched.at, zeta[Me].matched.len + ctl.span.len))

\* The mutated form of SeqRightOmega does not retry the left child.
SeqGivesUp ==
  /\ BackAt("omega", "seq", "right")
  /\ UNCHANGED <<Delta, zeta, nam, nv>>
  /\ OmegaExit

SeqRightOmega ==
  /\ BackAt("omega", "seq", "right")
  /\ UNCHANGED <<Delta, zeta, nam, nv>>
  /\ Call(1, "beta", "left")

-----------------------------------------------------------------------------
(* Alternation: beta retries the alternative that succeeded, and no other *)

AltAlpha ==
  /\ EnteredAt("alpha", {"alt"})
  /\ zeta' = [zeta EXCEPT ![Me].start = Delta, ![Me].current = 1]
  /\ UNCHANGED <<Delta, nam, nv>>
  /\ Call(1, "alpha", "alpha")

\* The alternative to resume; the mutated form resumes the first one always.
FirstKid(n)   == 1
CurrentKid(n) == zeta[n].current

AltBeta ==
  /\ EnteredAt("beta", {"alt"})
  /\ UNCHANGED <<Delta, zeta, nam, nv>>
  /\ Call(CurrentKid(Me), "beta", "beta")

AltGamma ==
  /\ BackAt("gamma", "alt", "alpha") \/ BackAt("gamma", "alt", "beta")
  /\ UNCHANGED <<Delta, zeta, nam, nv>>
  /\ Gamma(ctl.span)

AltNext ==
  /\ BackAt("omega", "alt", "alpha")
  /\ Set("current", zeta[Me].current + 1)
  /\ UNCHANGED <<nam, nv>>
  /\ \/ /\ zeta[Me].current >= Len(Pat[Me].kids)
        /\ UNCHANGED Delta
        /\ OmegaExit
     \/ /\ zeta[Me].current < Len(Pat[Me].kids)
        /\ Delta' = zeta[Me].start
        /\ Call(zeta[Me].current + 1, "alpha", "alpha")

AltOmega ==
  /\ BackAt("omega", "alt", "beta")
  /\ UNCHANGED <<Delta, zeta, nam, nv>>
  /\ OmegaExit

-----------------------------------------------------------------------------
(* Repetition: greedy; one frame per repetition, the first for none *)

Frame(m, d) == [matched |-> m, start |-> d]
Top(frames) == frames[Len(frames)]

ArbnoAlpha ==
  /\ EnteredAt("alpha", {"arbno"})
  /\ Set("frames", <<Frame(Span(Delta, 0), Delta)>>)
  /\ UNCHANGED <<Delta, nam, nv>>
  /\ Call(1, "alpha", "try")

\* One frame less; the mutated form does not decrement depth.
Kept(frames)    == frames
Unwound(frames) == SubSeq(frames, 1, Len(frames) - 1)

\* The span returned from beta is a local variable nothing has assigned: it may
\* hold any span, and the null span is read as failure.
ArbnoBeta ==
  /\ EnteredAt("beta", {"arbno"})
  /\ UNCHANGED <<nam, nv>>
  /\ LET depth == Len(zeta[Me].frames) - 1
     IN \/ /\ depth <= 0
           /\ UNCHANGED <<Delta, zeta>>
           /\ OmegaExit
        \/ /\ depth > 0
           /\ Set("frames", Unwound(zeta[Me].frames))
           /\ Delta' = zeta[Me].frames[depth].start
           /\ \/ OmegaExit
              \/ \E a, k \in 0 .. Sigmalen : Gamma(Span(a, k))

\* The frame of one repetition more.
NextFrame(n, span) ==
  LET m == Top(zeta[n].frames).matched IN Frame(Span(m.at, m.len + span.len), Delta)

\* The mutated form of ArbnoStall tries the body again instead of stopping.
ArbnoRetry ==
  /\ BackAt("gamma", "arbno", "try")
  /\ Delta = Top(zeta[Me].frames).start
  /\ UNCHANGED <<Delta, zeta, nam, nv>>
  /\ Call(1, "alpha", "try")

\* The body has not moved the cursor: no further repetition.
ArbnoStall ==
  /\ BackAt("gamma", "arbno", "try")
  /\ Delta = Top(zeta[Me].frames).start
  /\ UNCHANGED <<Delta, zeta, nam, nv>>
  /\ Gamma(Top(zeta[Me].frames).matched)

ArbnoRepeat ==
  /\ BackAt("gamma", "arbno", "try")
  /\ Delta # Top(zeta[Me].frames).start
  /\ Set("frames", Append(zeta[Me].frames, NextFrame(Me, ctl.span)))
  /\ UNCHANGED <<Delta, nam, nv>>
  /\ Call(1, "alpha", "try")

ArbnoOmega ==
  /\ BackAt("omega", "arbno", "try")
  /\ UNCHANGED <<Delta, zeta, nam, nv>>
  /\ Gamma(Top(zeta[Me].frames).matched)

-----------------------------------------------------------------------------
(* Negation and interrogation: the child is asked once and its match dropped *)

AskAlpha ==
  /\ EnteredAt("alpha", {"not", "interr"})
  /\ Set("start", Delta)
  /\ UNCHANGED <<Delta, nam, nv>>
  /\ Call(1, "alpha", "ask")

AskBeta ==
  /\ EnteredAt("beta", {"not", "interr"})
  /\ UNCHANGED <<Delta, zeta, nam, nv>>
  /\ OmegaExit

\* bb_not succeeds when the child fails, bb_interr when it succeeds, where the
\* child was asked.
Asked(n) == zeta[n].start
AskBack(fn, succeeds) ==
  /\ UNCHANGED <<zeta, nam, nv>>
  /\ \/ /\ BackAt(succeeds, fn, "ask")
        /\ Delta' = Asked(Me)
        /\ Gamma(Span(Delta', 0))
     \/ /\ \E port \in {"gamma", "omega"} \ {succeeds} : BackAt(port, fn, "ask")
        /\ UNCHANGED Delta
        /\ OmegaExit

-----------------------------------------------------------------------------
(* Capture: "$" assigns at every gamma, "." pushes on the naming list *)

Entry(n, span) == [kind |-> Pat[n].kind, var |-> Pat[n].var, span |-> span, box |-> n]

\* name_commit_value: assign the variable, or the cell that the called function
\* returns; a function that fails returns none.
Commit(e, done) ==
  \/ done /\ nv' = [nv EXCEPT ![e.var] = Text(e.span)]
  \/ ~ done /\ e.kind = "NM_CALL" /\ UNCHANGED nv

\* The mutated form of CapAlpha keeps the flag it finds ("cache poisoning").
CapAlphaStale ==
  /\ EnteredAt("alpha", {"cap"})
  /\ UNCHANGED <<Delta, zeta, nam, nv>>
  /\ Call(1, "alpha", "child")

CapAlpha ==
  /\ EnteredAt("alpha", {"cap"})
  /\ Set("pending", FALSE)
  /\ UNCHANGED <<Delta, nam, nv>>
  /\ Call(1, "alpha", "child")

\* Undo the push of the last gamma; the mutated form leaves it.
LeavePending == UNCHANGED <<nam, zeta>>
DropPending ==
  \/ /\ ~ Pat[Me].immediate /\ zeta[Me].pending
     /\ nam' = NAME_pop(nam)
     /\ Set("pending", FALSE)
  \/ /\ Pat[Me].immediate \/ ~ zeta[Me].pending
     /\ UNCHANGED <<nam, zeta>>

CapBeta ==
  /\ EnteredAt("beta", {"cap"})
  /\ DropPending
  /\ UNCHANGED <<Delta, nv>>
  /\ Call(1, "beta", "child")

CapOmega ==
  /\ BackAt("omega", "cap", "child")
  /\ DropPending
  /\ UNCHANGED <<Delta, nv>>
  /\ OmegaExit

\* The mutated form assigns without waiting for the match to be found.
CapPushAssigns ==
  /\ BackAt("gamma", "cap", "child")
  /\ ~ Pat[Me].immediate
  /\ nv' = [nv EXCEPT ![Pat[Me].var] = Text(ctl.span)]
  /\ nam' = NAME_push(nam, Entry(Me, ctl.span))
  /\ Set("pending", TRUE)
  /\ UNCHANGED Delta
  /\ Gamma(ctl.span)

CapPush ==
  /\ BackAt("gamma", "cap", "child")
  /\ ~ Pat[Me].immediate
  /\ nam' = NAME_push(nam, Entry(Me, ctl.span))
  /\ Set("pending", TRUE)
  /\ UNCHANGED <<Delta, nv>>
  /\ Gamma(ctl.span)

\* A called function that fails makes the capture fail.
CapAssign ==
  /\ BackAt("gamma", "cap", "child")
  /\ Pat[Me].immediate
  /\ UNCHANGED <<Delta, zeta, nam>>
  /\ \/ Commit(Entry(Me, ctl.span), TRUE) /\ Gamma(ctl.span)
     \/ Commit(Entry(Me, ctl.span), FALSE) /\ OmegaExit

BoxStep ==
  /\ \/ LeafAlpha \/ LeafBeta
     \/ ArbAlpha \/ ArbBeta
     \/ AtpAlpha \/ AtpBeta
     \/ SeqAlpha \/ SeqBeta \/ SeqLeftGamma \/ SeqLeftOmega \/ SeqRightGamma \/ SeqRightOmega
     \/ AltAlpha \/ AltBeta \/ AltGamma \/ AltNext \/ AltOmega
     \/ ArbnoAlpha \/ ArbnoBeta \/ ArbnoStall \/ ArbnoRepeat \/ ArbnoOmega
     \/ AskAlpha \/ AskBeta \/ AskBack("not", "omega") \/ AskBack("interr", "gamma")
     \/ CapAlpha \/ CapBeta \/ CapOmega \/ CapPush \/ CapAssign
  /\ UNCHANGED <<stmt, phase, scan, slot, result>>

-----------------------------------------------------------------------------
(* exec_stmt *)

\* The zeroed memory of a new box; the mutated form is not zeroed.
RawState(dirty) ==
  [delta |-> 0, count |-> -1, start |-> 0, current |-> 0, matched |-> Span(0, 0),
   frames |-> <<>>, pending |-> dirty]
FreshState(dirty) ==
  [delta |-> 0, count |-> 0, start |-> 0, current |-> 0, matched |-> Span(0, 0),
   frames |-> <<>>, pending |-> dirty]

\* bb_build has made the boxes; a root copied from the node cache may carry
\* the flags of an earlier match.
Init ==
  /\ stmt \in Program
  /\ phase = "scan"
  /\ scan = 0
  /\ Delta = 0
  /\ \E dirty \in BOOLEAN : zeta = [n \in Box |-> FreshState(dirty /\ Pat[n].fn = "cap")]
  /\ ctl = [port |-> "none", box |-> 1, span |-> Span(0, 0)]
  /\ calls = <<>>
  /\ nam = <<>>
  /\ slot = 1
  /\ nv = [v \in Vars |-> Unset]
  /\ result = [outcome |-> "none", start |-> 0, end |-> 0, value |-> Sigma]
  /\ hist = [n \in Box |-> [cursor |-> 0, nam |-> <<>>, exit |-> "none", end |-> 0, out |-> <<>>]]

\* BB_SCAN enters the root at the next position.
TryPosition ==
  /\ phase = "scan"
  /\ scan <= Omega
  /\ phase' = "match"
  /\ Delta' = scan
  /\ ctl' = [port |-> "alpha", box |-> 1, span |-> Span(0, 0)]
  /\ hist' = [hist EXCEPT ![1] = [cursor |-> scan, nam |-> nam, exit |-> "none",
                             end |-> scan, out |-> nam]]
  /\ UNCHANGED <<stmt, scan, zeta, calls, nam, slot, nv, result>>

PositionFails ==
  /\ phase = "match"
  /\ ctl.port = "omega"
  /\ calls = <<>>
  /\ phase' = "scan"
  /\ scan' = scan + 1
  /\ UNCHANGED <<stmt, Delta, zeta, ctl, calls, nam, slot, nv, result, hist>>

\* No position is left; NAME_ctx_leave drops the naming list.
MatchFails ==
  /\ phase = "scan"
  /\ scan > Omega
  /\ phase' = "done"
  /\ nam' = <<>>
  /\ result' = [result EXCEPT !.outcome = "F"]
  /\ UNCHANGED <<stmt, slot, nv, machine>>

Homeless == stmt.has_repl /\ ~ stmt.home

\* A replacement without a home for the subject fails, and nothing is assigned.
MatchUnused ==
  /\ phase = "match"
  /\ ctl.port = "gamma"
  /\ calls = <<>>
  /\ Homeless
  /\ phase' = "done"
  /\ nam' = <<>>
  /\ result' = [result EXCEPT !.outcome = "F"]
  /\ UNCHANGED <<stmt, slot, nv, machine>>

\* scan_body_fn_u9 computes the start of the match from its length.
MatchFound ==
  /\ phase = "match"
  /\ ctl.port = "gamma"
  /\ calls = <<>>
  /\ ~ Homeless
  /\ phase' = "commit"
  /\ slot' = 1
  /\ result' = [result EXCEPT !.start = Delta - ctl.span.len, !.end = Delta]
  /\ UNCHANGED <<stmt, nam, nv, machine>>

CommitSlot ==
  /\ phase = "commit"
  /\ slot <= Len(nam)
  /\ slot' = slot + 1
  /\ \/ Superseded(nam, slot) /\ UNCHANGED nv
     \/ ~ Superseded(nam, slot) /\ \E done \in BOOLEAN : Commit(nam[slot], done)
  /\ UNCHANGED <<stmt, phase, nam, result, machine>>

\* NAME_commit is over: NAME_ctx_leave, flush_pending_captures.
CommitDone ==
  /\ phase = "commit"
  /\ slot > Len(nam)
  /\ phase' = "replace"
  /\ nam' = <<>>
  /\ zeta' = [n \in Box |-> [zeta[n] EXCEPT !.pending = FALSE]]
  /\ UNCHANGED <<stmt, scan, Delta, ctl, calls, slot, nv, result, hist>>

\* Omega when BB_SCAN is over and exec_stmt has put its saved copy back; the
\* mutated form stays clamped under &ANCHOR.
StillClamped  == Omega
OmegaRestored == Sigmalen

\* Phase 5: the text before the match, the replacement, the text after it.  A
\* length below zero is passed to memcpy as it is.
Replace ==
  /\ phase = "replace"
  /\ phase' = "done"
  /\ LET before == result.start
         after  == OmegaRestored - result.end
     IN \/ /\ ~ stmt.has_repl
           /\ result' = [result EXCEPT !.outcome = "S"]
        \/ /\ stmt.has_repl
           /\ before >= 0 /\ after >= 0
           /\ result' = [result EXCEPT !.outcome = "S",
                           !.value = SubSeq(Sigma, 1, before) \o stmt.repl
                                       \o SubSeq(Sigma, result.end + 1, OmegaRestored)]
        \/ /\ stmt.has_repl
           /\ before < 0 \/ after < 0
           /\ result' = [result EXCEPT !.outcome = "undefined"]
  /\ UNCHANGED <<stmt, slot, nam, nv, machine>>

ExecStep == TryPosition \/ PositionFails \/ MatchFails \/ MatchUnused
              \/ MatchFound \/ CommitSlot \/ CommitDone \/ Replace

Done == phase = "done" /\ UNCHANGED vars

Next == BoxStep \/ ExecStep \/ Done

Spec == Init /\ [][Next]_vars
FairSpec == Spec /\ WF_vars(BoxStep \/ ExecStep)

-----------------------------------------------------------------------------
(* Properties *)

SpanType  == [at : Int, len : Nat]
ZetaType  == [delta : Int, count : Nat, start : Int, current : Nat, matched : SpanType,
              frames : Seq([matched : SpanType, start : Int]), pending : BOOLEAN]
EntryType == [kind : NameKind, var : Vars, span : SpanType, box : Box]
ValueType == [is : {"unset", "text", "cursor"}, at : Int, len : Int]
CallType  == [box : Box, at : {"left", "right", "alpha", "beta", "try", "ask", "child"}]

\* Every variable has its type.
TypeOK ==
  /\ phase \in {"scan", "match", "commit", "replace", "done"}
  /\ scan \in Nat /\ slot \in Nat /\ Delta \in Int
  /\ zeta \in [Box -> ZetaType]
  /\ ctl \in [port : {"none", "alpha", "beta", "gamma", "omega"}, box : Box, span : SpanType]
  /\ calls \in Seq(CallType)
  /\ nam \in Seq(EntryType)
  /\ nv \in [Vars -> ValueType]
  /\ result \in [outcome : {"none", "S", "F", "undefined"}, start : Int, end : Int, value : Seq(Chars)]
  /\ hist \in [Box -> [cursor : Int, nam : Seq(EntryType), exit : {"none", "gamma", "omega"},
                      end : Int, out : Seq(EntryType)]]

Exits(port) == phase = "match" /\ ctl.port = port

\* Some boxes fail with the cursor ahead of where their alpha found it, and what
\* is resumed before them is led astray.  A set of boxes is closed off if it has
\* none of them, all kids of its boxes, and is resumed from within only.
Strays(n) == \/ Pat[n].fn \in {"arb", "rem", "not", "arbno"}
             \/ Pat[n].fn = "cap" /\ Pat[n].immediate /\ Pat[n].kind = "NM_CALL"
KidsOf(n) == {Pat[n].kids[i] : i \in DOMAIN Pat[n].kids}
ClosedOff(S) == /\ \A n \in S : ~ Strays(n) /\ KidsOf(n) \subseteq S
                /\ \A n \in Box \ S : KidsOf(n) \cap S # {} => Pat[n].fn \in {"arbno", "not", "interr"}
Undisturbed  == UNION {S \in SUBSET Box : ClosedOff(S)}

\* A box that fails leaves the cursor where its alpha found it (README.md:51,
\* "omega: Match failed - restore cursor, propagate back"), so that the box that
\* is resumed or tried next starts at the right place.
CursorRestored == Exits("omega") /\ ctl.box \in Undisturbed => Delta = hist[ctl.box].cursor

\* The span a box returns runs from the cursor at its alpha to the cursor now,
\* so that the spans bb_seq concatenates are contiguous (bb_box.h) and the
\* start of the match is the scan position (scan_body_fn_u9).
SpanIsMatch ==
  Exits("gamma") => LET from == hist[ctl.box].cursor IN ctl.span = Span(from, Delta - from)

\* The cursor never leaves the subject.
CursorInSubject == phase = "match" => Delta \in 0 .. Sigmalen

\* A box that fails has taken back every push made since its alpha: "There is
\* never leftover pushed state once a box has backtracked or failed out".
NamesUnwound == Exits("omega") => nam = hist[ctl.box].nam

\* A capture that pops finds its own push on top: bb_cap pops without a handle,
\* because "every intervening peer/child push has already been popped".
PopsOwnPush ==
  /\ EnteredAt("beta", {"cap"}) \/ BackAt("omega", "cap", "child")
  /\ ~ Pat[Me].immediate
  /\ zeta[Me].pending
  => nam # <<>> /\ nam[Len(nam)].box = Me

\* A box is resumed at beta only when its last exit was gamma, so the state its
\* beta reads is the one its last success left.
ResumedAfterGamma == Exits("beta") => hist[ctl.box].exit = "gamma"

\* At every gamma of an ARBNO the frames rise, and its cursor is where the last
\* one begins, if its body restores the cursor when it fails: the next beta will
\* put the cursor to the frame before ("beta unwinds stack").
FramesFollowCursor ==
  Exits("gamma") /\ Pat[ctl.box].fn = "arbno" =>
    LET frames == zeta[ctl.box].frames
    IN /\ KidsOf(ctl.box) \subseteq Undisturbed => Delta = Top(frames).start
       /\ \A i \in 1 .. Len(frames) - 1 : frames[i].start < frames[i + 1].start

\* A function called by a capture at commit finds the variables captured before
\* it assigned: the "NM_CALL barrier" of NAME_commit's forward search.
CallSeesCaptures ==
  phase = "commit" /\ slot <= Len(nam) /\ nam[slot].kind = "NM_CALL" =>
    \A i \in 1 .. slot - 1 :
      \/ nam[i].kind = "NM_CALL"
      \/ \E j \in i + 1 .. slot - 1 : nam[j].var = nam[i].var
      \/ nv[nam[i].var] = Text(nam[i].span)

\* The statement keeps its promise about the variables of the program: nothing
\* but immediate assignments while it matches, the captures of the match after
\* it and in order, nothing of an attempt that failed, one replacement at the end
\* (stmt_exec.c: a conditional capture is
\* "only committed when the entire enclosing pattern succeeds").
Waiting(list) == [i \in DOMAIN list |-> [var   |-> list[i].var, calls |-> list[i].kind = "NM_CALL",
                                         text  |-> Text(list[i].span)]]
Promise == INSTANCE Statement WITH
  atonce  <- {Pat[n].var : n \in {m \in Box : Pat[m].immediate \/ Pat[m].fn = "atp"}},
  Entries <- [var : Vars, calls : BOOLEAN, text : ValueType],
  doing   <- CASE phase \in {"scan", "match"} -> "matching" [] phase = "commit" -> "assigning"
               [] phase = "replace" -> "replacing" [] phase = "done" -> "done",
  waiting <- Waiting(IF phase = "commit" THEN SubSeq(nam, slot, Len(nam)) ELSE nam),
  cells   <- nv, subject <- result.value, outcome <- result.outcome
KeepsPromise == Promise!Spec

\* exec_stmt returns: with or without a match, the statement ends.
Termination == <>(phase = "done")
=============================================================================
