----------------------------- MODULE Checkpoints -----------------------------
(***************************************************************************)
(* What backtracking promises of the bindings (prolog_unify.c: "so that    *)
(* backtracking can undo them"): a store of variables, each bound at most  *)
(* once, copies of it taken at choice points, and going back to a copy.    *)
(***************************************************************************)
EXTENDS Integers, Sequences

CONSTANTS Names, Terms, Free

VARIABLES
  store,    \* what every variable is bound to, or Free
  saved     \* the copies that can be gone back to, oldest first

Init == store = [x \in Names |-> Free] /\ saved = <<>>

Assign == \E x \in Names, t \in Terms :
            store[x] = Free /\ store' = [store EXCEPT ![x] = t] /\ saved' = saved
Save   == saved' = Append(saved, store) /\ store' = store
\* The copy stays, for the next alternative of its choice point; younger ones go.
Restore == \E k \in DOMAIN saved : store' = saved[k] /\ saved' = SubSeq(saved, 1, k)
Drop    == \E k \in DOMAIN saved : saved' = SubSeq(saved, 1, k - 1) /\ store' = store

Next == Assign \/ Save \/ Restore \/ Drop

Spec == Init /\ [][Next]_<<store, saved>>
=============================================================================
