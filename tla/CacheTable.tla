----------------------------- MODULE CacheTable -----------------------------
(***************************************************************************)
(* The table behind the cache of built patterns (runtime/x86/stmt_exec.c): *)
(* open addressing with linear probing, keyed by pattern node.  Keys are   *)
(* never deleted one by one; the table is emptied as a whole.              *)
(***************************************************************************)
EXTENDS Naturals

CONSTANTS
    Nodes,        \* the keys, nodes of patterns
    Cap, Hash,    \* the number of slots, and the slot where a key belongs
    None          \* the null pointer

ASSUME CacheTableAssumption ==
    /\ None \notin Nodes
    /\ Cap \in Nat \ {0} /\ Hash \in [Nodes -> 0..Cap - 1]

VARIABLE cache    \* g_node_cache

EmptySlot == [key |-> None, template |-> <<>>]

Probe(p) == [i \in 1..Cap |-> (Hash[p] + i - 1) % Cap]

(* The slot of the key or the first empty one on its way; none in a full   *)
(* table without the key.                                                  *)
cache_find(c, p) ==
    LET stops == {i \in 1..Cap : c[Probe(p)[i]].key \in {p, None}}
    IN {Probe(p)[i] : i \in {j \in stops : \A k \in stops : j <= k}}

Hit(c, p) == \E s \in cache_find(c, p) : c[s].key = p

Template(c, p) == LET s == CHOOSE t \in cache_find(c, p) : TRUE IN c[s].template

InsertInFirstFree(c, p, box) ==       \* for a mutant: not where the probing looks
    [s \in DOMAIN c |->
        IF c[s].key = None /\ \A t \in 0..s - 1 : c[t].key # None
        THEN [key |-> p, template |-> box] ELSE c[s]]

cache_insert(c, p, box) ==
    [s \in DOMAIN c |->
        IF s \in cache_find(c, p) /\ c[s].key = None
        THEN [key |-> p, template |-> box] ELSE c[s]]

TemplatesReset(c) ==                  \* for a mutant: the keys stay
    [s \in DOMAIN c |-> [c[s] EXCEPT !.template = <<>>]]

cache_reset(c) == [s \in DOMAIN c |-> EmptySlot]

(* cache_find stops at the first empty slot, so a key must have no empty   *)
(* slot between its own and where it belongs, or it would be built and     *)
(* cached twice.                                                           *)
SlotsReachable ==
    \A s \in 0..Cap - 1 : cache[s].key # None => cache_find(cache, cache[s].key) = {s}
=============================================================================
