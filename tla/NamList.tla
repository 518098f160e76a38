------------------------------ MODULE NamList ------------------------------
(***************************************************************************)
(* A naming list (runtime/x86/snobol4_nmd.c): the stack on which the       *)
(* conditional captures of a match wait for its success.  An entry holds   *)
(* the lvalue (NAME_t: a kind and its target) and the captured text.       *)
(* NAME_commit walks the list from the oldest entry on; the walk is a      *)
(* sequence of steps in the modules that use these operators, because a    *)
(* NM_CALL entry runs a function of the program.                           *)
(***************************************************************************)
EXTENDS Integers, Sequences

NameKind == {"NM_VAR", "NM_PTR", "NM_CALL"}

NAME_push(nam, e) == Append(nam, e)
NAME_pop(nam)     == IF nam = <<>> THEN nam ELSE SubSeq(nam, 1, Len(nam) - 1)

\* same_var_target: two entries that assign the same variable.
SameTarget(e, f) == e.kind = f.kind /\ e.kind \in {"NM_VAR", "NM_PTR"} /\ e.var = f.var

\* NAME_commit's forward search: entry i is overwritten by a later entry
\* before any function is called, so it is not fired.  The mutated form
\* looks beyond a function call.
NoBarrier(nam, i)  == \E j \in i + 1 .. Len(nam) : SameTarget(nam[i], nam[j])
Superseded(nam, i) ==
  \E j \in i + 1 .. Len(nam) :
    /\ SameTarget(nam[i], nam[j])
    /\ \A k \in i + 1 .. j : nam[k].kind # "NM_CALL"
=============================================================================
