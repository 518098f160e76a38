-------------------------- MODULE CacheTableProofs --------------------------
(***************************************************************************)
(* Proofs about the table of built patterns, for every number of slots,    *)
(* every hash function and every order of insertions, however they         *)
(* collide, wrap around, or find the table full.                           *)
(***************************************************************************)
EXTENDS CacheTable, TLAPS

(* What the builders and the driver do with the table; a template is any box.   *)
TableInit == cache = [s \in 0 .. Cap - 1 |-> EmptySlot]

TableNext == \/ \E p \in Nodes : \E box : cache' = cache_insert(cache, p, box)
             \/ cache' = cache_reset(cache)

TableSpec == TableInit /\ [][TableNext]_cache

(* Probing for p meets neither p nor an empty slot before its i-th step.        *)
Passes(c, p, i) == \A k \in 1 .. i - 1 : c[Probe(p)[k]].key \notin {p, None}

Table(c)     == DOMAIN c = 0 .. Cap - 1 /\ \A s \in 0 .. Cap - 1 : c[s].key \in Nodes \cup {None}
Reachable(c) == \A s \in 0 .. Cap - 1 : c[s].key # None =>
                   \E i \in 1 .. Cap : Probe(c[s].key)[i] = s /\ Passes(c, c[s].key, i)

IInv == Table(cache) /\ Reachable(cache)

LEMMA ProbeInTable ==
  ASSUME NEW p \in Nodes, NEW i \in 1 .. Cap
  PROVE  Probe(p)[i] \in 0 .. Cap - 1
  <1>1. Hash[p] \in Nat /\ Cap \in Nat \ {0}
    BY CacheTableAssumption
  <1>2. \A n \in Nat : n % Cap \in 0 .. Cap - 1
    BY <1>1
  <1>3. Hash[p] + i - 1 \in Nat
    BY <1>1
  <1> QED BY <1>2, <1>3 DEF Probe

(* The slot found is the first on the way that has the key or nothing.          *)
LEMMA FindFirst ==
  ASSUME NEW c, NEW p \in Nodes, NEW i \in 1 .. Cap,
         c[Probe(p)[i]].key \in {p, None}, Passes(c, p, i)
  PROVE  cache_find(c, p) = {Probe(p)[i]}
  <1> DEFINE stops == {j \in 1 .. Cap : c[Probe(p)[j]].key \in {p, None}}
             first == {j \in stops : \A k \in stops : j <= k}
  <1>1. i \in stops
    OBVIOUS
  <1>2. \A k \in stops : i <= k
    BY CacheTableAssumption DEF Passes
  <1>3. \A j \in first : j = i
    BY <1>1, <1>2, CacheTableAssumption
  <1>4. first = {i}
    BY <1>1, <1>2, <1>3
  <1>5. cache_find(c, p) = {Probe(p)[j] : j \in first}
    BY DEF cache_find
  <1> QED BY <1>4, <1>5

LEMMA FoundIsFirst ==
  ASSUME NEW c, NEW p \in Nodes, NEW s \in cache_find(c, p)
  PROVE  \E i \in 1 .. Cap : Probe(p)[i] = s /\ Passes(c, p, i)
  <1> DEFINE stops == {j \in 1 .. Cap : c[Probe(p)[j]].key \in {p, None}}
  <1>1. PICK i \in stops : Probe(p)[i] = s /\ \A k \in stops : i <= k
    BY DEF cache_find
  <1>2. Passes(c, p, i)
    BY <1>1, CacheTableAssumption DEF Passes
  <1> QED BY <1>1, <1>2

LEMMA ReachableFound ==
  ASSUME NEW c, Table(c), Reachable(c), NEW s \in 0 .. Cap - 1, c[s].key # None
  PROVE  cache_find(c, c[s].key) = {s}
  <1>1. c[s].key \in Nodes
    BY DEF Table
  <1>2. PICK i \in 1 .. Cap : Probe(c[s].key)[i] = s /\ Passes(c, c[s].key, i)
    BY DEF Reachable
  <1> QED BY <1>1, <1>2, FindFirst

(* An insertion fills an empty slot at the end of the key's own way, and no     *)
(* other key's way leads through an empty slot.                                 *)
LEMMA InsertKeeps ==
  ASSUME NEW c, Table(c), Reachable(c), NEW p \in Nodes, NEW box
  PROVE  Table(cache_insert(c, p, box)) /\ Reachable(cache_insert(c, p, box))
  <1> DEFINE d == cache_insert(c, p, box)
             filled(s) == s \in cache_find(c, p) /\ c[s].key = None
  <1>1. DOMAIN d = 0 .. Cap - 1
    BY DEF cache_insert, Table
  <1>2. \A s \in 0 .. Cap - 1 : d[s].key = IF filled(s) THEN p ELSE c[s].key
    BY DEF cache_insert, Table
  <1> HIDE DEF d
  <1>3. Table(d)
    BY <1>1, <1>2 DEF Table
  <1>4. ASSUME NEW s \in 0 .. Cap - 1, d[s].key # None
        PROVE  \E i \in 1 .. Cap : Probe(d[s].key)[i] = s /\ Passes(d, d[s].key, i)
    <2> DEFINE q == d[s].key
    <2>1. q \in Nodes
      BY <1>3, <1>4 DEF Table
    <2>2. PICK i \in 1 .. Cap : Probe(q)[i] = s /\ Passes(c, q, i)
      <3>1. CASE filled(s)
        <4>1. q = p
          BY <3>1, <1>2
        <4> QED BY <3>1, <4>1, FoundIsFirst
      <3>2. CASE ~ filled(s)
        <4>1. q = c[s].key /\ c[s].key # None
          BY <3>2, <1>2, <1>4
        <4> QED BY <4>1 DEF Reachable
      <3> QED BY <3>1, <3>2
    <2>3. ASSUME NEW k \in 1 .. i - 1 PROVE d[Probe(q)[k]].key \notin {q, None}
      <3>1. k \in 1 .. Cap
        BY CacheTableAssumption
      <3>2. Probe(q)[k] \in 0 .. Cap - 1
        BY <2>1, <3>1, ProbeInTable
      <3>3. c[Probe(q)[k]].key \notin {q, None}
        BY <2>2 DEF Passes
      <3> QED BY <1>2, <3>2, <3>3
    <2>4. Passes(d, q, i)
      BY <2>3 DEF Passes
    <2> QED BY <2>2, <2>4
  <1>5. Reachable(d)
    BY <1>4 DEF Reachable
  <1> QED BY <1>3, <1>5 DEF d

LEMMA EmptyTable ==
  ASSUME NEW c, DOMAIN c = 0 .. Cap - 1, \A s \in 0 .. Cap - 1 : c[s] = EmptySlot
  PROVE  Table(c) /\ Reachable(c)
  BY DEF Table, Reachable, EmptySlot

LEMMA NextIInv == IInv /\ [TableNext]_cache => IInv'
  <1> SUFFICES ASSUME IInv, [TableNext]_cache PROVE Table(cache') /\ Reachable(cache')
    BY DEF IInv, Table, Reachable, Passes
  <1>1. ASSUME NEW p \in Nodes, NEW box, cache' = cache_insert(cache, p, box)
        PROVE  Table(cache') /\ Reachable(cache')
    BY <1>1, InsertKeeps DEF IInv
  <1>2. CASE cache' = cache_reset(cache)
    <2>1. DOMAIN cache' = 0 .. Cap - 1 /\ \A s \in 0 .. Cap - 1 : cache'[s] = EmptySlot
      BY <1>2 DEF cache_reset, IInv, Table
    <2> QED BY <2>1, EmptyTable
  <1>3. CASE UNCHANGED cache
    BY <1>3 DEF IInv
  <1> QED BY <1>1, <1>2, <1>3 DEF TableNext

\* Every key in the table is found where it is, by probing that stops at the first
\* empty slot: no pattern is built and cached a second time while it is cached.
THEOREM KeysFound == TableSpec => []SlotsReachable
  <1>1. TableInit => IInv
    <2> SUFFICES ASSUME TableInit PROVE IInv
      OBVIOUS
    <2>1. DOMAIN cache = 0 .. Cap - 1 /\ \A s \in 0 .. Cap - 1 : cache[s] = EmptySlot
      BY DEF TableInit
    <2> QED BY <2>1, EmptyTable DEF IInv
  <1>2. IInv => SlotsReachable
    BY ReachableFound DEF IInv, SlotsReachable
  <1> QED BY <1>1, <1>2, NextIInv, PTL DEF TableSpec
=============================================================================
