------------------------------ MODULE KeyTable ------------------------------
(***************************************************************************)
(* Icon's key(T) (icn_bb_tbl_key_iterate, frontend/icon/icon_gen.c) over a *)
(* table whose entries come and go while it runs.  The table is a hash     *)
(* table of chains (TBBLK_t, runtime/x86/snobol4.c).  The generator keeps  *)
(* a bucket and a pointer to an entry between two values, with nothing     *)
(* that would tell it of a change: the body of the loop may delete the     *)
(* entry it stands on, the one behind it, or insert before both.           *)
(*                                                                         *)
(* A deleted entry is garbage, kept by whoever points to it, with the link *)
(* it had when it was taken out of its chain.                              *)
(***************************************************************************)
EXTENDS Integers, Sequences, Functions

CONSTANTS
  Keys,        \* the keys, as strings: what _tbl_hash and strcmp look at
  Buckets,     \* TABLE_BUCKETS
  Hash,        \* _tbl_hash
  MaxCells     \* bound: how many entries are ever made

ASSUME KeyTableAssumption ==
  /\ Buckets \in Nat \ {0} /\ Hash \in [Keys -> 1 .. Buckets]
  /\ MaxCells \in Nat

VARIABLES
  table,     \* the heads of the chains, and all entries there have been
  place,     \* the generator's bucket and entry, 0 the null pointer
  given,     \* history: the keys it gave since it was entered at alpha
  kept       \* history: the keys that have been in the table since then

keyVars == <<table, place, given, kept>>

Key(c)  == table.cell[c].key
Link(c) == table.cell[c].next

\* The entries from c on along the links: the least set that holds c and the
\* entry behind each of its own.
Closed(t, S) == \A i \in S : t.cell[i].next \in S \cup {0}
Chain(t, c)  ==
  {d \in DOMAIN t.cell :
     \A S \in SUBSET DOMAIN t.cell : c \in S \cup {0} /\ Closed(t, S) => d \in S}

Found(t, k) == {c \in Chain(t, t.head[Hash[k]]) : t.cell[c].key = k}
Present(t)  == {k \in Keys : Found(t, k) # {}}

-----------------------------------------------------------------------------
(* The table *)

NewTable == [head |-> [b \in 1 .. Buckets |-> 0], cell |-> <<>>]

\* A new key goes to the head of its chain.
Added(t, k) ==
  [head |-> [t.head EXCEPT ![Hash[k]] = Len(t.cell) + 1],
   cell |-> Append(t.cell, [key |-> k, next |-> t.head[Hash[k]]])]

\* Entry d leaves the chain of its key and keeps its own link.
Removed(t, k, d) ==
  LET Past(c) == IF c = d THEN t.cell[d].next ELSE c
  IN [head |-> [t.head EXCEPT ![Hash[k]] = Past(@)],
      cell |-> [i \in DOMAIN t.cell |->
                  IF i \in Chain(t, t.head[Hash[k]])
                  THEN [t.cell[i] EXCEPT !.next = Past(@)] ELSE t.cell[i]]]

\* insert(T, k), and T[k] := v of a new key.  For a key that is there they change
\* its value only.
Insert(k) ==
  /\ Found(table, k) = {} /\ Len(table.cell) < MaxCells
  /\ table' = Added(table, k)
  /\ UNCHANGED <<place, given, kept>>

\* delete(T, k); without such a key it does nothing.
Delete(k) ==
  /\ \E d \in Found(table, k) : table' = Removed(table, k, d)
  /\ kept' = kept \ {k}
  /\ UNCHANGED <<place, given>>

-----------------------------------------------------------------------------
(* The generator *)

\* Past the empty buckets, to the last if all are.
Later(b) == {c \in b + 1 .. Buckets : table.head[c] # 0}
Filled(z) ==
  IF z.entry # 0 THEN z
  ELSE IF Later(z.bucket) = {} THEN [bucket |-> Buckets, entry |-> 0]
  ELSE LET b == CHOOSE b \in Later(z.bucket) : \A c \in Later(z.bucket) : b <= c
       IN [bucket |-> b, entry |-> table.head[b]]

\* The entry behind the one where the generator stands, whether that is still in the
\* table or not; the mutated form starts the bucket again.
Rewound(z) == IF z.entry = 0 THEN 0 ELSE table.head[z.bucket]
Behind(z)  == IF z.entry = 0 THEN 0 ELSE Link(z.entry)

Yield(z) == IF z.entry = 0 THEN <<>> ELSE <<Key(z.entry)>>

First        == Filled([bucket |-> 1, entry |-> table.head[1]])
Following(z) == Filled([z EXCEPT !.entry = Behind(z)])

Alpha ==
  /\ place' = First
  /\ given' = Yield(First) /\ kept' = Present(table)
  /\ UNCHANGED table

Beta ==
  /\ place' = Following(place)
  /\ given' = given \o Yield(Following(place))
  /\ UNCHANGED <<table, kept>>

-----------------------------------------------------------------------------

\* A generator that has found nothing in a new table.
Nowhere == [bucket |-> Buckets, entry |-> 0]
KeyInit == table = NewTable /\ place = Nowhere /\ given = <<>> /\ kept = {}
KeyNext == Alpha \/ Beta \/ \E k \in Keys : Insert(k) \/ Delete(k)
KeySpec == KeyInit /\ [][KeyNext]_keyVars

(* key(T) gives no key twice, even one that was deleted and inserted again, and when
   it fails it has given every key that stayed in the table all the time, whatever
   was inserted and deleted since it began (icn_bb_tbl_key_iterate, table_set_descr,
   and delete of interp.c). *)
KeysOnce ==
  /\ IsInjective(given)
  /\ place.entry = 0 => kept \subseteq Range(given)
=============================================================================
