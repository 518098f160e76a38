------------------------------ MODULE Statement ------------------------------
(***************************************************************************)
(* What a pattern-match statement promises about the program's variables,  *)
(* whatever its pattern does on the way (stmt_exec.c, "PHASES", and "only  *)
(* committed when the entire enclosing pattern succeeds").  While it       *)
(* matches, "$" and "@" assign at once, and "." captures only wait; a      *)
(* match that is not found leaves nothing of them.  Once it is found the   *)
(* waiting captures are assigned in their order, and then the subject is   *)
(* replaced, once.                                                         *)
(***************************************************************************)
EXTENDS Integers, Sequences

CONSTANT Entries    \* captures [var, calls, text]

VARIABLES
  atonce,      \* the variables that "$" and "@" assign in this statement
  doing,       \* "matching", "assigning", "replacing" or "done"
  waiting,     \* the captures still to be assigned
  cells,       \* the variables of the program
  subject,     \* the variable that the subject came from
  outcome      \* "none", "S", "F" or "undefined"

vars == <<atonce, doing, waiting, cells, subject, outcome>>

Init == /\ doing = "matching"
        /\ waiting = <<>>
        /\ outcome = "none"

\* A step of the match: at most one variable assigned at once, or captures added
\* or dropped at the end of those that wait.
IsFrontOf(s, t) == Len(s) <= Len(t) /\ \A i \in DOMAIN s : s[i] = t[i]
Match ==
  /\ doing = "matching" /\ doing' = "matching"
  /\ \/ /\ waiting' = waiting
        /\ \E v \in atonce : \A u \in DOMAIN cells \ {v} : cells'[u] = cells[u]
     \/ /\ cells' = cells
        /\ IsFrontOf(waiting, waiting') \/ IsFrontOf(waiting', waiting)
        /\ waiting' \in Seq(Entries)
  /\ UNCHANGED <<atonce, subject, outcome>>

GiveUp ==
  /\ doing = "matching" /\ doing' = "done"
  /\ waiting' = <<>> /\ outcome' = "F"
  /\ UNCHANGED <<atonce, cells, subject>>

Succeed ==
  /\ doing = "matching" /\ doing' = "assigning"
  /\ UNCHANGED <<atonce, waiting, cells, subject, outcome>>

\* Whether the oldest capture may be left out: a later one assigns the variable
\* before a function could look at it.
Hidden == \E j \in 2 .. Len(waiting) :
            /\ waiting[j].var = waiting[1].var
            /\ \A k \in 1 .. j : ~ waiting[k].calls

AssignOldest ==
  /\ doing = "assigning" /\ waiting # <<>>
  /\ waiting' = Tail(waiting)
  /\ \/ cells' = [cells EXCEPT ![waiting[1].var] = waiting[1].text]
     \/ (Hidden \/ waiting[1].calls) /\ cells' = cells
  /\ UNCHANGED <<atonce, doing, subject, outcome>>

Assigned ==
  /\ doing = "assigning" /\ waiting = <<>> /\ doing' = "replacing"
  /\ UNCHANGED <<atonce, waiting, cells, subject, outcome>>

Finish ==
  /\ doing = "replacing" /\ doing' = "done"
  /\ outcome' \in {"S", "undefined"}
  /\ UNCHANGED <<atonce, waiting, cells>>

Next == Match \/ GiveUp \/ Succeed \/ AssignOldest \/ Assigned \/ Finish

Spec == Init /\ [][Next]_vars
=============================================================================
