--------------------------- MODULE KeyTableProofs ---------------------------
(***************************************************************************)
(* key(T) gives every key once, for any keys, any hash function, and any   *)
(* order of insertions and deletions.  A chain is a least closed set, so   *)
(* what a change of links does to it is shown with closed sets and needs   *)
(* no induction.                                                           *)
(***************************************************************************)
EXTENDS KeyTable, SequenceTheorems, WellFoundedInduction, TLAPS

(* The table: links lead to older entries of the same bucket, and behind an    *)
(* entry, in the table or not, there is none with its key.                     *)
Sound(t) ==
  /\ t.cell \in Seq([key : Keys, next : Nat])
  /\ t.head \in [1 .. Buckets -> 0 .. Len(t.cell)]
  /\ \A i \in DOMAIN t.cell : t.cell[i].next < i
  /\ \A i \in DOMAIN t.cell : t.cell[i].next # 0 => Hash[t.cell[t.cell[i].next].key] = Hash[t.cell[i].key]
  /\ \A b \in 1 .. Buckets : t.head[b] # 0 => Hash[t.cell[t.head[b]].key] = b
  /\ \A i \in DOMAIN t.cell : \A j \in Chain(t, t.cell[i].next) : t.cell[j].key # t.cell[i].key

(* What the generator has before it when it stands on z.                       *)
Ahead(t, z) == IF z.entry = 0 THEN {} ELSE Chain(t, t.cell[z.entry].next)

(* The generator: it gave no key of a later bucket and none of an entry before *)
(* it, and a key that stayed is either given or still to come.                 *)
Stands(t, z) ==
  /\ z \in [bucket : 1 .. Buckets, entry : 0 .. Len(t.cell)]
  /\ z.entry # 0 => Hash[t.cell[z.entry].key] = z.bucket
  /\ z.entry = 0 => z.bucket = Buckets

Once(t, z, g) ==
  /\ g \in Seq(Keys) /\ IsInjective(g)
  /\ \A i \in DOMAIN g : Hash[g[i]] <= z.bucket
  /\ \A i \in DOMAIN g : \A j \in Ahead(t, z) : t.cell[j].key # g[i]

ToCome(t, z, k) == \E c \in Found(t, k) : z.bucket < Hash[k] \/ c \in Ahead(t, z)

Right(t, z, g, K) ==
  /\ Stands(t, z) /\ Once(t, z, g) /\ K \subseteq Keys
  /\ \A k \in K : k \in Range(g) \/ ToCome(t, z, k)

IInv == Sound(table) /\ Right(table, place, given, kept)

-----------------------------------------------------------------------------
(* Chains *)

CellType == [key : Keys, next : Nat]

LEMMA SoundCell ==
  ASSUME NEW t, Sound(t), NEW i \in DOMAIN t.cell
  PROVE  /\ Len(t.cell) \in Nat /\ DOMAIN t.cell = 1 .. Len(t.cell)
         /\ t.cell[i] \in CellType /\ t.cell[i].next \in 0 .. i - 1
         /\ t.cell[i].next \in DOMAIN t.cell \cup {0}
         /\ t.cell[i].key \in Keys /\ Hash[t.cell[i].key] \in 1 .. Buckets
  <1>1. t.cell \in Seq(CellType)
    BY DEF Sound, CellType
  <1>2. Len(t.cell) \in Nat /\ DOMAIN t.cell = 1 .. Len(t.cell) /\ t.cell[i] \in CellType
    BY <1>1
  <1>3. t.cell[i].next < i
    BY DEF Sound
  <1> QED BY <1>2, <1>3, KeyTableAssumption DEF CellType

LEMMA ChainCells ==
  ASSUME NEW t, NEW c
  PROVE  Chain(t, c) \subseteq DOMAIN t.cell
  BY DEF Chain

(* A chain lies in every closed set that has its first entry.                  *)
LEMMA ChainLeast ==
  ASSUME NEW t, NEW c, NEW S \in SUBSET DOMAIN t.cell, c \in S \cup {0}, Closed(t, S)
  PROVE  Chain(t, c) \subseteq S
  BY DEF Chain

LEMMA NoChain ==
  ASSUME NEW t
  PROVE  Chain(t, 0) = {}
  <1>1. Closed(t, {})
    BY DEF Closed
  <1> QED BY <1>1, ChainLeast

LEMMA ChainClosed ==
  ASSUME NEW t, Sound(t), NEW c
  PROVE  Closed(t, Chain(t, c))
  <1> SUFFICES ASSUME NEW i \in Chain(t, c), t.cell[i].next # 0
               PROVE  t.cell[i].next \in Chain(t, c)
    BY DEF Closed
  <1>1. i \in DOMAIN t.cell
    BY ChainCells
  <1>2. t.cell[i].next \in DOMAIN t.cell
    BY <1>1, SoundCell
  <1>3. ASSUME NEW S \in SUBSET DOMAIN t.cell, c \in S \cup {0}, Closed(t, S)
        PROVE  t.cell[i].next \in S
    <2>1. i \in S
      BY <1>3, ChainLeast
    <2> QED BY <1>3, <2>1 DEF Closed
  <1> QED BY <1>2, <1>3 DEF Chain

LEMMA ChainFirst ==
  ASSUME NEW t, NEW c \in DOMAIN t.cell, c # 0
  PROVE  c \in Chain(t, c)
  BY DEF Chain

(* An entry, and the chain behind it.                                          *)
LEMMA ChainStep ==
  ASSUME NEW t, Sound(t), NEW c \in DOMAIN t.cell
  PROVE  /\ Chain(t, t.cell[c].next) \subseteq Chain(t, c)
         /\ Chain(t, c) \subseteq {c} \cup Chain(t, t.cell[c].next)
  <1> DEFINE n == t.cell[c].next
  <1>1. c # 0 /\ n \in DOMAIN t.cell \cup {0}
    BY SoundCell
  <1>2. c \in Chain(t, c)
    BY <1>1, ChainFirst
  <1>3. n \in Chain(t, c) \cup {0}
    BY <1>2, ChainClosed DEF Closed
  <1>4. Chain(t, n) \subseteq Chain(t, c)
    BY <1>3, ChainCells, ChainClosed, ChainLeast
  <1>5. {c} \cup Chain(t, n) \in SUBSET DOMAIN t.cell
    BY ChainCells
  <1>6. n \in Chain(t, n) \cup {0}
    BY <1>1, ChainFirst
  <1>7. Closed(t, {c} \cup Chain(t, n))
    BY <1>6, ChainClosed DEF Closed
  <1> QED BY <1>4, <1>5, <1>7, ChainLeast

(* All entries of a chain belong to the bucket of its first.                   *)
LEMMA ChainBucket ==
  ASSUME NEW t, Sound(t), NEW c, NEW b, c # 0 => c \in DOMAIN t.cell /\ Hash[t.cell[c].key] = b
  PROVE  \A j \in Chain(t, c) : Hash[t.cell[j].key] = b
  <1> DEFINE S == {j \in DOMAIN t.cell : Hash[t.cell[j].key] = b}
  <1>1. ASSUME NEW j \in S
        PROVE  t.cell[j].next \in S \cup {0}
    BY SoundCell DEF Sound
  <1>2. Closed(t, S)
    BY <1>1 DEF Closed
  <1>3. c \in S \cup {0}
    OBVIOUS
  <1>4. Chain(t, c) \subseteq S
    BY <1>2, <1>3, ChainLeast
  <1> QED BY <1>4

LEMMA HeadBucket ==
  ASSUME NEW t, Sound(t), NEW b \in 1 .. Buckets
  PROVE  /\ t.head[b] \in 0 .. Len(t.cell)
         /\ \A j \in Chain(t, t.head[b]) : Hash[t.cell[j].key] = b
  <1>1. t.head[b] \in 0 .. Len(t.cell)
    BY DEF Sound
  <1>2. DOMAIN t.cell = 1 .. Len(t.cell) /\ Len(t.cell) \in Nat
    BY DEF Sound
  <1>3. t.head[b] # 0 => t.head[b] \in DOMAIN t.cell /\ Hash[t.cell[t.head[b]].key] = b
    BY <1>1, <1>2 DEF Sound
  <1> QED BY <1>1, <1>3, ChainBucket

LEMMA FoundCell ==
  ASSUME NEW t, Sound(t), NEW k \in Keys, NEW c \in Found(t, k)
  PROVE  /\ c \in DOMAIN t.cell /\ t.cell[c].key = k
         /\ c \in Chain(t, t.head[Hash[k]]) /\ Hash[k] \in 1 .. Buckets
  BY ChainCells, KeyTableAssumption DEF Found

-----------------------------------------------------------------------------
(* An entry more: the old chains stay *)

LEMMA ChainExtended ==
  ASSUME NEW t, NEW u, Sound(t), Len(u.cell) \in Nat, DOMAIN u.cell = 1 .. Len(u.cell),
         Len(u.cell) = Len(t.cell) + 1,
         \A i \in DOMAIN t.cell : u.cell[i] = t.cell[i],
         NEW c \in DOMAIN t.cell \cup {0}
  PROVE  Chain(u, c) = Chain(t, c)
  <1>1. Len(t.cell) \in Nat /\ DOMAIN t.cell = 1 .. Len(t.cell)
    BY DEF Sound
  <1>2. DOMAIN t.cell \subseteq DOMAIN u.cell
    BY <1>1
  <1>3. ASSUME NEW S \in SUBSET DOMAIN t.cell
        PROVE  Closed(t, S) <=> Closed(u, S)
    BY DEF Closed
  <1>4. c \in Chain(t, c) \cup {0}
    BY <1>1, ChainFirst
  <1>5. Closed(u, Chain(t, c)) /\ Chain(t, c) \in SUBSET DOMAIN u.cell
    BY <1>2, <1>3, ChainClosed, ChainCells
  <1>6. Chain(u, c) \subseteq Chain(t, c)
    BY <1>4, <1>5, ChainLeast
  <1>7. ASSUME NEW S \in SUBSET DOMAIN u.cell, c \in S \cup {0}, Closed(u, S)
        PROVE  Chain(t, c) \subseteq S
    <2> DEFINE R == S \cap DOMAIN t.cell
    <2>1. ASSUME NEW i \in R
          PROVE  t.cell[i].next \in R \cup {0}
      <3>1. u.cell[i].next \in S \cup {0}
        BY <1>7 DEF Closed
      <3>2. t.cell[i].next \in DOMAIN t.cell \cup {0}
        BY SoundCell
      <3> QED BY <3>1, <3>2
    <2>2. Closed(t, R) /\ c \in R \cup {0}
      BY <1>7, <2>1 DEF Closed
    <2> QED BY <2>2, ChainLeast
  <1>8. Chain(t, c) \subseteq Chain(u, c)
    <2> SUFFICES ASSUME NEW x \in Chain(t, c) PROVE x \in Chain(u, c)
      OBVIOUS
    <2>1. x \in DOMAIN u.cell
      BY <1>2, ChainCells
    <2> QED BY <1>7, <2>1 DEF Chain
  <1> QED BY <1>6, <1>8

(* The new entry is the head of its chain, with the old chain behind it.       *)
LEMMA AddedCells ==
  ASSUME NEW t, Sound(t), NEW k \in Keys
  PROVE  LET u == Added(t, k)
             n == Len(t.cell) + 1
             h == t.head[Hash[k]]
         IN /\ n \in Nat /\ n \notin DOMAIN t.cell /\ DOMAIN u.cell = DOMAIN t.cell \cup {n}
            /\ Len(u.cell) = n /\ u.cell \in Seq(CellType) /\ DOMAIN u.cell = 1 .. n
            /\ \A i \in DOMAIN t.cell : u.cell[i] = t.cell[i]
            /\ u.cell[n] = [key |-> k, next |-> h] /\ h \in DOMAIN t.cell \cup {0}
            /\ u.head \in [1 .. Buckets -> 0 .. n]
            /\ u.head[Hash[k]] = n /\ Hash[k] \in 1 .. Buckets
            /\ \A b \in 1 .. Buckets \ {Hash[k]} : u.head[b] = t.head[b]
  <1> DEFINE u == Added(t, k)
             n == Len(t.cell) + 1
             h == t.head[Hash[k]]
             e == [key |-> k, next |-> h]
  <1>1. t.cell \in Seq(CellType) /\ Hash[k] \in 1 .. Buckets
    BY KeyTableAssumption DEF Sound, CellType
  <1>2. t.head \in [1 .. Buckets -> 0 .. Len(t.cell)] /\ Len(t.cell) \in Nat
        /\ DOMAIN t.cell = 1 .. Len(t.cell)
    BY DEF Sound
  <1>3. h \in 0 .. Len(t.cell) /\ e \in CellType
    <2>1. h \in 0 .. Len(t.cell)
      BY <1>1, <1>2
    <2>2. h \in Nat
      BY <1>2, <2>1
    <2> QED BY <2>1, <2>2 DEF CellType
  <1>4. u.cell = Append(t.cell, e) /\ u.head = [t.head EXCEPT ![Hash[k]] = n]
    BY DEF Added
  <1>5. u.cell \in Seq(CellType) /\ Len(u.cell) = n /\ u.cell[n] = e
        /\ \A i \in 1 .. Len(t.cell) : u.cell[i] = t.cell[i]
    BY <1>1, <1>3, <1>4
  <1>6. DOMAIN u.cell = 1 .. n
    BY <1>5
  <1>7. u.head \in [1 .. Buckets -> 0 .. n] /\ u.head[Hash[k]] = n
        /\ \A b \in 1 .. Buckets \ {Hash[k]} : u.head[b] = t.head[b]
    <2>1. n \in 0 .. n /\ 0 .. Len(t.cell) \subseteq 0 .. n
      BY <1>2
    <2>2. t.head \in [1 .. Buckets -> 0 .. n]
      BY <1>2, <2>1
    <2> HIDE DEF n
    <2> QED BY <1>1, <1>4, <2>1, <2>2
  <1> HIDE DEF e
  <1>8. DOMAIN u.cell = DOMAIN t.cell \cup {n} /\ n \notin DOMAIN t.cell /\ n \in Nat
        /\ h \in DOMAIN t.cell \cup {0}
    BY <1>2, <1>3, <1>6
  <1> QED BY <1>1, <1>2, <1>5, <1>6, <1>7, <1>8 DEF e

LEMMA AddedChains ==
  ASSUME NEW t, Sound(t), NEW k \in Keys, NEW c \in DOMAIN t.cell \cup {0}
  PROVE  Chain(Added(t, k), c) = Chain(t, c)
  <1> DEFINE u == Added(t, k)
  <1>1. /\ Len(u.cell) \in Nat /\ DOMAIN u.cell = 1 .. Len(u.cell)
        /\ Len(u.cell) = Len(t.cell) + 1
        /\ \A i \in DOMAIN t.cell : u.cell[i] = t.cell[i]
    <2> DEFINE n == Len(t.cell) + 1
    <2>1. n \in Nat /\ Len(u.cell) = n /\ DOMAIN u.cell = 1 .. n
          /\ \A i \in DOMAIN t.cell : u.cell[i] = t.cell[i]
      BY AddedCells
    <2> QED BY <2>1
  <1> HIDE DEF u
  <1>2. Chain(u, c) = Chain(t, c)
    BY <1>1, ChainExtended
  <1> QED BY <1>2 DEF u

LEMMA AddedSound ==
  ASSUME NEW t, Sound(t), NEW k \in Keys, Found(t, k) = {}
  PROVE  Sound(Added(t, k))
  <1> DEFINE u == Added(t, k)
             n == Len(t.cell) + 1
             h == t.head[Hash[k]]
  <1>1. /\ n \in Nat /\ n \notin DOMAIN t.cell /\ DOMAIN u.cell = DOMAIN t.cell \cup {n}
        /\ Len(u.cell) = n /\ u.cell \in Seq(CellType) /\ DOMAIN u.cell = 1 .. n
        /\ \A i \in DOMAIN t.cell : u.cell[i] = t.cell[i]
        /\ u.cell[n] = [key |-> k, next |-> h] /\ h \in DOMAIN t.cell \cup {0}
        /\ u.head \in [1 .. Buckets -> 0 .. n]
        /\ u.head[Hash[k]] = n /\ Hash[k] \in 1 .. Buckets
        /\ \A b \in 1 .. Buckets \ {Hash[k]} : u.head[b] = t.head[b]
    BY AddedCells
  <1>2. \A c \in DOMAIN t.cell \cup {0} : Chain(u, c) = Chain(t, c)
    BY AddedChains
  <1>3. DOMAIN t.cell = 1 .. Len(t.cell) /\ Len(t.cell) \in Nat
    BY DEF Sound
  <1> HIDE DEF u
  <1>4. \A i \in DOMAIN u.cell : u.cell[i].next < i
    <2>1. \A i \in DOMAIN t.cell : u.cell[i].next < i
      BY <1>1 DEF Sound
    <2>2. u.cell[n].next < n
      BY <1>1, <1>3
    <2> QED BY <1>1, <2>1, <2>2
  <1>5. \A i \in DOMAIN u.cell : u.cell[i].next # 0 =>
          Hash[u.cell[u.cell[i].next].key] = Hash[u.cell[i].key]
    <2>1. ASSUME NEW i \in DOMAIN t.cell, t.cell[i].next # 0
          PROVE  Hash[u.cell[u.cell[i].next].key] = Hash[u.cell[i].key]
      <3>1. t.cell[i].next \in DOMAIN t.cell
        BY <2>1, SoundCell
      <3>2. u.cell[i] = t.cell[i] /\ u.cell[t.cell[i].next] = t.cell[t.cell[i].next]
        BY <1>1, <3>1
      <3> QED BY <2>1, <3>2 DEF Sound
    <2>2. h # 0 => Hash[t.cell[h].key] = Hash[k]
      BY <1>1 DEF Sound
    <2> QED BY SMTT(60), <1>1, <2>1, <2>2
  <1>6. ASSUME NEW b \in 1 .. Buckets, u.head[b] # 0
        PROVE  Hash[u.cell[u.head[b]].key] = b
    <2>1. CASE b = Hash[k]
      BY <1>1, <2>1
    <2>2. CASE b # Hash[k]
      <3>1. u.head[b] = t.head[b] /\ t.head[b] \in DOMAIN t.cell
        BY <1>1, <1>3, <1>6, <2>2, HeadBucket
      <3>2. Hash[t.cell[t.head[b]].key] = b
        BY <1>6, <3>1 DEF Sound
      <3> QED BY <1>1, <3>1, <3>2
    <2> QED BY <2>1, <2>2
  <1>7. ASSUME NEW i \in DOMAIN u.cell, NEW j \in Chain(u, u.cell[i].next)
        PROVE  u.cell[j].key # u.cell[i].key
    <2>1. CASE i \in DOMAIN t.cell
      <3>1. u.cell[i] = t.cell[i] /\ t.cell[i].next \in DOMAIN t.cell \cup {0}
        BY <1>1, <2>1, SoundCell
      <3>2. j \in Chain(t, t.cell[i].next)
        BY <1>2, <1>7, <3>1
      <3>3. j \in DOMAIN t.cell /\ t.cell[j].key # t.cell[i].key
        BY <2>1, <3>2, ChainCells DEF Sound
      <3> QED BY <1>1, <3>1, <3>3
    <2>2. CASE i = n
      <3>1. j \in Chain(t, h)
        BY <1>1, <1>2, <1>7, <2>2
      <3>2. j \in DOMAIN t.cell /\ t.cell[j].key # k
        BY <3>1, ChainCells DEF Found
      <3> QED BY <1>1, <2>2, <3>2
    <2> QED BY <1>1, <2>1, <2>2
  <1>8. Sound(u)
    BY <1>1, <1>4, <1>5, <1>6, <1>7 DEF Sound, CellType
  <1> QED BY <1>8 DEF u

(* What was found is found still, and what lies ahead is the same.             *)
LEMMA AddedFound ==
  ASSUME NEW t, Sound(t), NEW k \in Keys, Found(t, k) = {}, NEW m \in Keys
  PROVE  Found(t, m) \subseteq Found(Added(t, k), m)
  <1> DEFINE u == Added(t, k)
             n == Len(t.cell) + 1
             h == t.head[Hash[k]]
  <1>1. /\ n \in DOMAIN u.cell /\ DOMAIN u.cell = DOMAIN t.cell \cup {n}
        /\ \A i \in DOMAIN t.cell : u.cell[i] = t.cell[i]
        /\ u.cell[n] = [key |-> k, next |-> h] /\ h \in DOMAIN t.cell \cup {0}
        /\ u.head[Hash[k]] = n
        /\ \A b \in 1 .. Buckets \ {Hash[k]} : u.head[b] = t.head[b]
    BY AddedCells
  <1>2. Sound(u) /\ \A c \in DOMAIN t.cell \cup {0} : Chain(u, c) = Chain(t, c)
    BY AddedChains, AddedSound
  <1> HIDE DEF u
  <1>3. Chain(t, h) \subseteq Chain(u, u.head[Hash[k]])
    BY <1>1, <1>2, ChainStep
  <1>4. ASSUME NEW b \in 1 .. Buckets
        PROVE  Chain(t, t.head[b]) \subseteq Chain(u, u.head[b])
    <2>1. t.head[b] \in DOMAIN t.cell \cup {0}
      <3>1. DOMAIN t.cell = 1 .. Len(t.cell) /\ Len(t.cell) \in Nat
        BY DEF Sound
      <3> QED BY <3>1, HeadBucket
    <2> QED BY <1>1, <1>2, <1>3, <2>1
  <1>5. \A c \in Found(t, m) : c \in Found(u, m)
    <2> SUFFICES ASSUME NEW c \in Found(t, m) PROVE c \in Found(u, m)
      OBVIOUS
    <2>1. c \in DOMAIN t.cell /\ t.cell[c].key = m /\ c \in Chain(t, t.head[Hash[m]])
          /\ Hash[m] \in 1 .. Buckets
      BY FoundCell
    <2> QED BY <1>1, <1>4, <2>1 DEF Found
  <1> QED BY <1>5 DEF u

-----------------------------------------------------------------------------
(* An entry less: links to it lead past it, and it keeps its own               *)

LEMMA RemovedCells ==
  ASSUME NEW t, Sound(t), NEW k \in Keys, NEW d \in Found(t, k)
  PROVE  LET u == Removed(t, k, d)
         IN /\ d \in DOMAIN t.cell /\ t.cell[d].key = k
            /\ u.cell \in Seq(CellType) /\ Len(u.cell) = Len(t.cell)
            /\ DOMAIN u.cell = DOMAIN t.cell
            /\ \A i \in DOMAIN t.cell : u.cell[i].key = t.cell[i].key
            /\ \A i \in DOMAIN t.cell : \/ u.cell[i].next = t.cell[i].next
                                        \/ t.cell[i].next = d /\ u.cell[i].next = t.cell[d].next
            /\ u.cell[d].next = t.cell[d].next
            /\ u.head \in [1 .. Buckets -> 0 .. Len(t.cell)]
            /\ \A b \in 1 .. Buckets : \/ u.head[b] = t.head[b]
                                       \/ t.head[b] = d /\ u.head[b] = t.cell[d].next
  <1> DEFINE u == Removed(t, k, d)
             Past(c) == IF c = d THEN t.cell[d].next ELSE c
             In(i) == i \in Chain(t, t.head[Hash[k]])
  <1>1. d \in DOMAIN t.cell /\ t.cell[d].key = k /\ Hash[k] \in 1 .. Buckets
    BY FoundCell
  <1>2. /\ u.head = [t.head EXCEPT ![Hash[k]] = Past(@)]
        /\ u.cell = [i \in DOMAIN t.cell |->
                       IF In(i) THEN [t.cell[i] EXCEPT !.next = Past(@)] ELSE t.cell[i]]
    BY DEF Removed
  <1>3. DOMAIN t.cell = 1 .. Len(t.cell) /\ Len(t.cell) \in Nat
        /\ t.head \in [1 .. Buckets -> 0 .. Len(t.cell)]
    BY DEF Sound
  <1>4. \A i \in DOMAIN t.cell : t.cell[i] \in CellType /\ t.cell[i].next \in 0 .. i - 1
    BY SoundCell
  <1> HIDE DEF u, In
  <1>5. ASSUME NEW i \in DOMAIN t.cell
        PROVE  /\ u.cell[i] \in CellType /\ u.cell[i].key = t.cell[i].key
               /\ \/ u.cell[i].next = t.cell[i].next
                  \/ t.cell[i].next = d /\ u.cell[i].next = t.cell[d].next
    <2>1. t.cell[i] \in CellType /\ t.cell[d] \in CellType
      BY <1>1, <1>4
    <2>2. CASE In(i)
      <3>1. u.cell[i] = [t.cell[i] EXCEPT !.next = Past(@)]
        BY <1>2, <2>2
      <3>2. u.cell[i] = [key |-> t.cell[i].key, next |-> Past(t.cell[i].next)]
        BY <2>1, <3>1 DEF CellType
      <3> QED BY <2>1, <3>2 DEF CellType
    <2>3. CASE ~ In(i)
      <3>1. u.cell[i] = t.cell[i]
        BY <1>2, <2>3
      <3> QED BY <2>1, <3>1
    <2> QED BY <2>2, <2>3
  <1>6. u.cell[d].next = t.cell[d].next
    <2>1. t.cell[d].next # d
      BY <1>1, <1>3, <1>4
    <2> QED BY <1>1, <1>5, <2>1
  <1>7. DOMAIN u.cell = DOMAIN t.cell
    BY <1>2
  <1>8. u.cell \in Seq(CellType) /\ Len(u.cell) = Len(t.cell)
    <2>1. u.cell \in [1 .. Len(t.cell) -> CellType]
      BY <1>2, <1>3, <1>5
    <2> QED BY <1>3, <2>1
  <1>9. u.head \in [1 .. Buckets -> 0 .. Len(t.cell)]
        /\ \A b \in 1 .. Buckets : \/ u.head[b] = t.head[b]
                                   \/ t.head[b] = d /\ u.head[b] = t.cell[d].next
    <2>1. t.cell[d].next \in 0 .. Len(t.cell)
      BY <1>1, <1>3, <1>4
    <2> QED BY <1>1, <1>2, <1>3, <2>1
  <1> QED BY <1>1, <1>5, <1>6, <1>7, <1>8, <1>9 DEF u

(* A chain loses the entry and nothing else.                                   *)
LEMMA RemovedChains ==
  ASSUME NEW t, Sound(t), NEW k \in Keys, NEW d \in Found(t, k), NEW c \in DOMAIN t.cell \cup {0}
  PROVE  /\ Chain(Removed(t, k, d), c) \subseteq Chain(t, c)
         /\ Chain(t, c) \subseteq {d} \cup Chain(Removed(t, k, d), c)
  <1> DEFINE u == Removed(t, k, d)
  <1>1. /\ d \in DOMAIN t.cell /\ DOMAIN u.cell = DOMAIN t.cell
        /\ \A i \in DOMAIN t.cell : \/ u.cell[i].next = t.cell[i].next
                                    \/ t.cell[i].next = d /\ u.cell[i].next = t.cell[d].next
        /\ u.cell[d].next = t.cell[d].next
    BY RemovedCells
  <1> HIDE DEF u
  <1>2. c \in Chain(t, c) \cup {0}
    <2>1. CASE c = 0
      BY <2>1
    <2>2. CASE c # 0
      BY <2>2, ChainFirst
    <2> QED BY <2>1, <2>2
  <1>3. ASSUME NEW S \in SUBSET DOMAIN t.cell, Closed(t, S)
        PROVE  Closed(u, S)
    <2> SUFFICES ASSUME NEW i \in S PROVE u.cell[i].next \in S \cup {0}
      BY DEF Closed
    <2>1. t.cell[i].next \in S \cup {0}
      BY <1>3 DEF Closed
    <2>2. d \in S => t.cell[d].next \in S \cup {0}
      BY <1>3 DEF Closed
    <2>3. t.cell[i].next = d => d \in S
      BY <2>1, <1>1, SoundCell
    <2> QED BY <1>1, <2>1, <2>2, <2>3
  <1>4. Chain(u, c) \subseteq Chain(t, c)
    <2>1. Chain(t, c) \in SUBSET DOMAIN u.cell /\ Closed(u, Chain(t, c))
      BY <1>1, <1>3, ChainCells, ChainClosed
    <2> QED BY <1>2, <2>1, ChainLeast
  <1>5. ASSUME NEW S \in SUBSET DOMAIN u.cell, c \in S \cup {0}, Closed(u, S)
        PROVE  Chain(t, c) \subseteq {d} \cup S
    <2>1. CASE \A i \in S : u.cell[i].next = t.cell[i].next
      <3>1. Closed(t, S)
        BY <1>5, <2>1 DEF Closed
      <3> QED BY <1>1, <1>5, <3>1, ChainLeast
    <2>2. CASE \E i \in S : u.cell[i].next # t.cell[i].next
      <3>1. t.cell[d].next \in S \cup {0}
        BY <1>1, <1>5, <2>2 DEF Closed
      <3>2. ASSUME NEW i \in {d} \cup S
            PROVE  t.cell[i].next \in {d} \cup S \cup {0}
        BY <1>1, <1>5, <3>1 DEF Closed
      <3>3. Closed(t, {d} \cup S) /\ {d} \cup S \in SUBSET DOMAIN t.cell
        BY <1>1, <3>2 DEF Closed
      <3> QED BY <1>5, <3>3, ChainLeast
    <2> QED BY <2>1, <2>2
  <1>6. Chain(t, c) \subseteq {d} \cup Chain(u, c)
    <2> SUFFICES ASSUME NEW x \in Chain(t, c), x # d PROVE x \in Chain(u, c)
      OBVIOUS
    <2>1. x \in DOMAIN u.cell
      BY <1>1, ChainCells
    <2> QED BY <1>5, <2>1 DEF Chain
  <1> QED BY <1>4, <1>6 DEF u

(* The same for a pointer that led to it, before and after.                    *)
LEMMA RemovedPast ==
  ASSUME NEW t, Sound(t), NEW k \in Keys, NEW d \in Found(t, k),
         NEW c \in DOMAIN t.cell \cup {0}, NEW e, e = c \/ (c = d /\ e = t.cell[d].next)
  PROVE  /\ e \in DOMAIN t.cell \cup {0}
         /\ Chain(Removed(t, k, d), e) \subseteq Chain(t, c)
         /\ Chain(t, c) \subseteq {d} \cup Chain(Removed(t, k, d), e)
  <1>1. d \in DOMAIN t.cell /\ t.cell[d].next \in DOMAIN t.cell \cup {0}
    BY FoundCell, SoundCell
  <1>2. CASE e = c
    BY <1>2, RemovedChains
  <1>3. CASE c = d /\ e = t.cell[d].next
    <2>1. e \in DOMAIN t.cell \cup {0}
      BY <1>1, <1>3
    <2>2. Chain(Removed(t, k, d), e) \subseteq Chain(t, e)
          /\ Chain(t, e) \subseteq {d} \cup Chain(Removed(t, k, d), e)
      BY <2>1, RemovedChains
    <2>3. Chain(t, e) \subseteq Chain(t, c) /\ Chain(t, c) \subseteq {d} \cup Chain(t, e)
      BY <1>1, <1>3, ChainStep
    <2> QED BY <2>1, <2>2, <2>3
  <1> QED BY <1>2, <1>3

LEMMA RemovedSound ==
  ASSUME NEW t, Sound(t), NEW k \in Keys, NEW d \in Found(t, k)
  PROVE  Sound(Removed(t, k, d))
  <1> DEFINE u == Removed(t, k, d)
             Moved(c, e) == e = c \/ (c = d /\ e = t.cell[d].next)
  <1>1. /\ d \in DOMAIN t.cell /\ t.cell[d].key = k
        /\ u.cell \in Seq(CellType) /\ Len(u.cell) = Len(t.cell)
        /\ DOMAIN u.cell = DOMAIN t.cell
        /\ \A i \in DOMAIN t.cell : u.cell[i].key = t.cell[i].key
        /\ \A i \in DOMAIN t.cell : Moved(t.cell[i].next, u.cell[i].next)
        /\ u.head \in [1 .. Buckets -> 0 .. Len(t.cell)]
        /\ \A b \in 1 .. Buckets : Moved(t.head[b], u.head[b])
    BY RemovedCells
  <1>2. \A c \in DOMAIN t.cell \cup {0} : \A e : Moved(c, e) =>
          e \in DOMAIN t.cell \cup {0} /\ Chain(u, e) \subseteq Chain(t, c)
    BY RemovedPast
  <1>3. DOMAIN t.cell = 1 .. Len(t.cell) /\ Len(t.cell) \in Nat
    BY DEF Sound
  <1> HIDE DEF u
  (* Whatever bucket the entry at a pointer has, the one it is moved to has.   *)
  <1>4. ASSUME NEW c \in DOMAIN t.cell \cup {0}, NEW e, Moved(c, e), e # 0
        PROVE  c # 0 /\ Hash[u.cell[e].key] = Hash[t.cell[c].key]
    <2>1. CASE e = c
      BY <1>1, <1>4, <2>1
    <2>2. CASE c = d /\ e = t.cell[d].next
      <3>1. Hash[t.cell[e].key] = Hash[t.cell[d].key]
        BY <1>1, <1>4, <2>2 DEF Sound
      <3> QED BY <1>1, <1>2, <1>3, <1>4, <2>2, <3>1
    <2> QED BY <1>4, <2>1, <2>2
  <1>5. ASSUME NEW i \in DOMAIN t.cell
        PROVE  /\ u.cell[i].next < i
               /\ u.cell[i].next # 0 => Hash[u.cell[u.cell[i].next].key] = Hash[u.cell[i].key]
               /\ \A j \in Chain(u, u.cell[i].next) : u.cell[j].key # u.cell[i].key
    <2>1. Moved(t.cell[i].next, u.cell[i].next) /\ t.cell[i].next \in DOMAIN t.cell \cup {0}
          /\ t.cell[i].next \in 0 .. i - 1
      BY <1>1, SoundCell
    <2>2. u.cell[i].next < i
      <3>1. t.cell[d].next \in 0 .. d - 1
        BY <1>1, SoundCell
      <3> QED BY SMTT(60), <1>1, <1>3, <2>1, <3>1
    <2>3. ASSUME u.cell[i].next # 0
          PROVE  Hash[u.cell[u.cell[i].next].key] = Hash[u.cell[i].key]
      <3>1. t.cell[i].next # 0 /\ Hash[u.cell[u.cell[i].next].key] = Hash[t.cell[t.cell[i].next].key]
        BY <1>4, <2>1, <2>3
      <3> QED BY <1>1, <3>1 DEF Sound
    <2>4. ASSUME NEW j \in Chain(u, u.cell[i].next)
          PROVE  u.cell[j].key # u.cell[i].key
      <3>1. j \in Chain(t, t.cell[i].next)
        BY <1>2, <2>1
      <3>2. j \in DOMAIN t.cell /\ t.cell[j].key # t.cell[i].key
        BY <3>1, ChainCells DEF Sound
      <3> QED BY <1>1, <3>2
    <2> QED BY <2>2, <2>3, <2>4
  <1>6. ASSUME NEW b \in 1 .. Buckets
        PROVE  /\ u.head[b] \in 0 .. Len(t.cell)
               /\ u.head[b] # 0 => Hash[u.cell[u.head[b]].key] = b
    <2>1. t.head[b] \in DOMAIN t.cell \cup {0}
      BY <1>3, HeadBucket
    <2>2. u.head[b] \in DOMAIN t.cell \cup {0}
      BY <1>1, <1>2, <2>1
    <2>3. ASSUME u.head[b] # 0
          PROVE  Hash[u.cell[u.head[b]].key] = b
      <3>1. t.head[b] # 0 /\ Hash[u.cell[u.head[b]].key] = Hash[t.cell[t.head[b]].key]
        BY <1>1, <1>4, <2>1, <2>3
      <3> QED BY <3>1 DEF Sound
    <2> QED BY <1>3, <2>2, <2>3
  <1>7. u.head \in [1 .. Buckets -> 0 .. Len(u.cell)]
    BY <1>1
  <1>8. Sound(u)
    BY <1>1, <1>5, <1>6, <1>7 DEF Sound, CellType
  <1> QED BY <1>8 DEF u

(* Other keys are found still, and what lay ahead lies ahead but the entry.    *)
LEMMA RemovedFound ==
  ASSUME NEW t, Sound(t), NEW k \in Keys, NEW d \in Found(t, k), NEW m \in Keys \ {k}
  PROVE  Found(t, m) \subseteq Found(Removed(t, k, d), m) /\ d \notin Found(t, m)
  <1> DEFINE u == Removed(t, k, d)
  <1>1. /\ t.cell[d].key = k /\ DOMAIN u.cell = DOMAIN t.cell
        /\ \A i \in DOMAIN t.cell : u.cell[i].key = t.cell[i].key
        /\ \A b \in 1 .. Buckets : \/ u.head[b] = t.head[b]
                                   \/ t.head[b] = d /\ u.head[b] = t.cell[d].next
    BY RemovedCells
  <1>2. ASSUME NEW c \in Found(t, m)
        PROVE  c \in Found(u, m) /\ c # d
    <2>1. c \in DOMAIN t.cell /\ t.cell[c].key = m /\ c \in Chain(t, t.head[Hash[m]])
          /\ Hash[m] \in 1 .. Buckets
      BY FoundCell
    <2>2. t.head[Hash[m]] \in DOMAIN t.cell \cup {0}
      <3>1. DOMAIN t.cell = 1 .. Len(t.cell) /\ Len(t.cell) \in Nat
        BY DEF Sound
      <3> QED BY <2>1, <3>1, HeadBucket
    <2>3. Chain(t, t.head[Hash[m]]) \subseteq {d} \cup Chain(u, u.head[Hash[m]])
      <3>1. \A p \in DOMAIN t.cell \cup {0} : \A e : e = p \/ (p = d /\ e = t.cell[d].next) =>
              Chain(t, p) \subseteq {d} \cup Chain(u, e)
        BY RemovedPast
      <3> HIDE DEF u
      <3> DEFINE p == t.head[Hash[m]]
                 e == u.head[Hash[m]]
      <3>2. p \in DOMAIN t.cell \cup {0} /\ (e = p \/ (p = d /\ e = t.cell[d].next))
        BY <1>1, <2>1, <2>2
      <3> HIDE DEF p, e
      <3>3. Chain(t, p) \subseteq {d} \cup Chain(u, e)
        BY <3>1, <3>2
      <3> QED BY <3>3 DEF p, e
    <2> HIDE DEF u
    <2> QED BY <1>1, <2>1, <2>3 DEF Found
  <1> QED BY <1>2

-----------------------------------------------------------------------------
(* The generator *)

LEMMA AheadBucket ==
  ASSUME NEW t, Sound(t), NEW z, Stands(t, z)
  PROVE  /\ z.bucket \in 1 .. Buckets /\ z.entry \in 0 .. Len(t.cell)
         /\ z.entry # 0 => z.entry \in DOMAIN t.cell
         /\ Ahead(t, z) \subseteq DOMAIN t.cell
         /\ \A j \in Ahead(t, z) : Hash[t.cell[j].key] = z.bucket
  <1>1. z.bucket \in 1 .. Buckets /\ z.entry \in 0 .. Len(t.cell)
    BY DEF Stands
  <1>2. Len(t.cell) \in Nat /\ DOMAIN t.cell = 1 .. Len(t.cell)
    BY DEF Sound
  <1>3. z.entry # 0 => z.entry \in DOMAIN t.cell
    BY <1>1, <1>2
  <1>4. CASE z.entry = 0
    BY <1>1, <1>4 DEF Ahead
  <1>5. CASE z.entry # 0
    <2> DEFINE e == z.entry
               n == t.cell[e].next
    <2>1. e \in DOMAIN t.cell /\ Hash[t.cell[e].key] = z.bucket /\ n \in DOMAIN t.cell \cup {0}
      BY <1>3, <1>5, SoundCell DEF Stands
    <2>2. n # 0 => n \in DOMAIN t.cell /\ Hash[t.cell[n].key] = z.bucket
      BY <2>1 DEF Sound
    <2>3. \A j \in Chain(t, n) : Hash[t.cell[j].key] = z.bucket
      BY <2>2, ChainBucket
    <2>4. Ahead(t, z) = Chain(t, n)
      BY <1>5 DEF Ahead
    <2> QED BY <1>1, <1>3, <2>3, <2>4, ChainCells
  <1> QED BY <1>4, <1>5

(* One key more, that was not given.                                           *)
LEMMA GivenMore ==
  ASSUME NEW g \in Seq(Keys), IsInjective(g), NEW k \in Keys, k \notin Range(g)
  PROVE  /\ g \o <<k>> \in Seq(Keys) /\ IsInjective(g \o <<k>>)
         /\ Range(g \o <<k>>) = Range(g) \cup {k}
         /\ \A i \in DOMAIN (g \o <<k>>) : (g \o <<k>>)[i] \in Range(g) \cup {k}
  <1> DEFINE h == g \o <<k>>
             n == Len(g) + 1
  <1>1. /\ h \in Seq(Keys) /\ n \in Nat /\ Len(g) \in Nat /\ DOMAIN g = 1 .. Len(g)
        /\ DOMAIN h = 1 .. n /\ h[n] = k /\ \A i \in 1 .. Len(g) : h[i] = g[i]
    OBVIOUS
  <1> HIDE DEF h
  <1>2. DOMAIN h = DOMAIN g \cup {n} /\ n \notin DOMAIN g
    BY <1>1
  <1>3. Range(h) = Range(g) \cup {k}
    BY <1>1, <1>2 DEF Range
  <1>4. IsInjective(h)
    BY <1>1, <1>2 DEF IsInjective, Range
  <1>5. \A i \in DOMAIN h : h[i] \in Range(g) \cup {k}
    BY <1>1, <1>2 DEF Range
  <1> QED BY <1>1, <1>3, <1>4, <1>5 DEF h

(* It comes to stand on entry e of bucket b, whose key it gives; what is still *)
(* to come is e, behind e, or in a later bucket.                               *)
LEMMA StandsOnNext ==
  ASSUME NEW t, Sound(t), NEW g \in Seq(Keys), IsInjective(g), NEW K \in SUBSET Keys,
         NEW b \in 1 .. Buckets, NEW e \in DOMAIN t.cell, Hash[t.cell[e].key] = b,
         \A i \in DOMAIN g : Hash[g[i]] <= b,
         \A i \in DOMAIN g : \A j \in Chain(t, e) : t.cell[j].key # g[i],
         \A k \in K : k \in Range(g) \/ \E c \in Found(t, k) : b < Hash[k] \/ c \in Chain(t, e)
  PROVE  Right(t, [bucket |-> b, entry |-> e], g \o <<t.cell[e].key>>, K)
  <1> DEFINE z == [bucket |-> b, entry |-> e]
             k == t.cell[e].key
             h == g \o <<k>>
             n == t.cell[e].next
  <1>1. e \in 0 .. Len(t.cell) /\ e # 0 /\ k \in Keys
    BY SoundCell
  <1>2. z.bucket = b /\ z.entry = e /\ Ahead(t, z) = Chain(t, n)
    BY <1>1 DEF Ahead
  <1>3. Chain(t, n) \subseteq Chain(t, e) /\ Chain(t, e) \subseteq {e} \cup Chain(t, n)
        /\ e \in Chain(t, e)
    BY <1>1, ChainStep, ChainFirst
  <1>4. k \notin Range(g)
    BY <1>3 DEF Range
  <1>5. h \in Seq(Keys) /\ IsInjective(h) /\ Range(h) = Range(g) \cup {k}
        /\ \A i \in DOMAIN h : h[i] \in Range(g) \cup {k}
    BY <1>1, <1>4, GivenMore
  <1>6. Stands(t, z)
    BY <1>1 DEF Stands
  <1> HIDE DEF z, h
  <1>7. \A x \in Range(g) : Hash[x] <= b /\ \A j \in Chain(t, e) : t.cell[j].key # x
    BY DEF Range
  <1>8. \A j \in Chain(t, n) : t.cell[j].key # k
    BY DEF Sound
  <1>9. b <= b
    BY KeyTableAssumption
  <1>10. Once(t, z, h)
    BY <1>2, <1>3, <1>5, <1>7, <1>8, <1>9 DEF Once
  <1>11. ASSUME NEW x \in K
         PROVE  x \in Range(h) \/ ToCome(t, z, x)
    <2>1. CASE x \in Range(g)
      BY <1>5, <2>1
    <2>2. CASE \E c \in Found(t, x) : b < Hash[x] \/ c \in Chain(t, e)
      <3>1. PICK c \in Found(t, x) : b < Hash[x] \/ c \in Chain(t, e)
        BY <2>2
      <3>2. t.cell[c].key = x
        BY FoundCell
      <3>3. CASE c = e
        BY <1>5, <3>2, <3>3
      <3>4. CASE c # e
        BY <1>2, <1>3, <3>1, <3>4 DEF ToCome
      <3> QED BY <3>3, <3>4
    <2> QED BY <2>1, <2>2
  <1>12. Right(t, z, h, K)
    BY <1>6, <1>10, <1>11 DEF Right
  <1> QED BY <1>12 DEF z, h

(* A key found in a later bucket makes that bucket one of the later ones.      *)
LEMMA FoundLater ==
  ASSUME Sound(table), NEW k \in Keys, Found(table, k) # {}, NEW b \in 0 .. Buckets, b < Hash[k]
  PROVE  Hash[k] \in Later(b)
  <1>1. PICK c \in Found(table, k) : TRUE
    OBVIOUS
  <1>2. c \in Chain(table, table.head[Hash[k]]) /\ Hash[k] \in 1 .. Buckets
    BY FoundCell
  <1>3. table.head[Hash[k]] # 0
    BY <1>2, NoChain
  <1> QED BY <1>2, <1>3, KeyTableAssumption DEF Later

(* With every key given that stayed, it has come to its end.                   *)
LEMMA StandsAtEnd ==
  ASSUME NEW t, Sound(t), NEW g \in Seq(Keys), IsInjective(g), NEW K \in SUBSET Keys, K \subseteq Range(g)
  PROVE  Right(t, [bucket |-> Buckets, entry |-> 0], g, K)
  <1> DEFINE z == [bucket |-> Buckets, entry |-> 0]
  <1>1. Buckets \in 1 .. Buckets /\ 0 \in 0 .. Len(t.cell)
    BY KeyTableAssumption DEF Sound
  <1>2. Stands(t, z)
    BY <1>1 DEF Stands
  <1>3. \A i \in DOMAIN g : Hash[g[i]] <= Buckets
    <2>1. \A i \in DOMAIN g : g[i] \in Keys
      OBVIOUS
    <2> QED BY <2>1, KeyTableAssumption
  <1>4. Ahead(t, z) = {}
    BY DEF Ahead
  <1>5. Once(t, z, g)
    BY <1>3, <1>4 DEF Once
  <1>6. \A k \in K : k \in Range(g)
    OBVIOUS
  <1> QED BY <1>2, <1>5, <1>6 DEF Right

(* It comes to bucket c, the first later one that is not empty.                *)
LEMMA StandsOnHead ==
  ASSUME Sound(table), NEW g \in Seq(Keys), IsInjective(g), NEW K \in SUBSET Keys,
         NEW b \in 0 .. Buckets, \A i \in DOMAIN g : Hash[g[i]] <= b,
         \A k \in K : k \in Range(g) \/ (Found(table, k) # {} /\ b < Hash[k]),
         NEW c \in Later(b), \A d \in Later(b) : c <= d
  PROVE  Right(table, [bucket |-> c, entry |-> table.head[c]],
               g \o <<table.cell[table.head[c]].key>>, K)
  <1> DEFINE e == table.head[c]
  <1>1. c \in 1 .. Buckets /\ b < c /\ e # 0
    BY KeyTableAssumption DEF Later
  <1>2. e \in DOMAIN table.cell /\ Hash[table.cell[e].key] = c
        /\ \A j \in Chain(table, e) : Hash[table.cell[j].key] = c
    <2>1. DOMAIN table.cell = 1 .. Len(table.cell) /\ Len(table.cell) \in Nat
      BY DEF Sound
    <2>2. e \in 0 .. Len(table.cell) /\ \A j \in Chain(table, e) : Hash[table.cell[j].key] = c
      BY <1>1, HeadBucket
    <2>3. Hash[table.cell[e].key] = c
      BY <1>1 DEF Sound
    <2> QED BY <1>1, <2>1, <2>2, <2>3
  <1>3. \A i \in DOMAIN g : Hash[g[i]] <= c /\ Hash[g[i]] # c
    <2>1. \A i \in DOMAIN g : g[i] \in Keys /\ Hash[g[i]] \in 1 .. Buckets
      BY KeyTableAssumption
    <2> QED BY <1>1, <2>1, KeyTableAssumption
  <1>4. \A i \in DOMAIN g : \A j \in Chain(table, e) : table.cell[j].key # g[i]
    BY <1>2, <1>3
  <1>5. ASSUME NEW k \in K
        PROVE  k \in Range(g) \/ \E d \in Found(table, k) : c < Hash[k] \/ d \in Chain(table, e)
    <2> SUFFICES ASSUME k \notin Range(g)
                 PROVE  \E d \in Found(table, k) : c < Hash[k] \/ d \in Chain(table, e)
      OBVIOUS
    <2>1. PICK d \in Found(table, k) : TRUE
      OBVIOUS
    <2>2. d \in Chain(table, table.head[Hash[k]]) /\ Hash[k] \in 1 .. Buckets
      BY FoundCell
    <2>3. Hash[k] \in Later(b)
      BY FoundLater
    <2>4. c < Hash[k] \/ c = Hash[k]
      BY <1>1, <2>2, <2>3, KeyTableAssumption
    <2> QED BY <2>1, <2>2, <2>4
  <1> HIDE DEF e
  <1>6. Right(table, [bucket |-> c, entry |-> e], g \o <<table.cell[e].key>>, K)
    BY <1>1, <1>2, <1>3, <1>4, <1>5, StandsOnNext
  <1> QED BY <1>6 DEF e

LEMMA FirstLater ==
  ASSUME NEW b \in 0 .. Buckets, Later(b) # {}
  PROVE  \E c \in Later(b) : \A d \in Later(b) : c <= d
  <1>1. IsWellFoundedOn(OpToRel(<, Nat), Nat)
    BY NatLessThanWellFounded
  <1>2. Later(b) \subseteq Nat
    BY KeyTableAssumption DEF Later
  <1>3. PICK c \in Later(b) : \A d \in Later(b) : ~ (<<d, c>> \in OpToRel(<, Nat))
    BY <1>1, <1>2, WFMin, Zenon
  <1>4. ASSUME NEW d \in Later(b)
        PROVE  c <= d
    <2>1. c \in Nat /\ d \in Nat
      BY <1>2
    <2>2. ~ (d < c)
      BY <1>3, <2>1 DEF OpToRel
    <2> QED BY <2>1, <2>2
  <1> QED BY <1>4

(* From the end of bucket b, all keys given being of that or earlier ones, it  *)
(* goes past the empty buckets.                                                *)
LEMMA GoesOn ==
  ASSUME Sound(table), NEW g \in Seq(Keys), IsInjective(g), NEW K \in SUBSET Keys,
         NEW b \in 0 .. Buckets, \A i \in DOMAIN g : Hash[g[i]] <= b,
         \A k \in K : k \in Range(g) \/ (Found(table, k) # {} /\ b < Hash[k])
  PROVE  /\ Later(b) = {} => LET z == [bucket |-> Buckets, entry |-> 0]
                             IN Right(table, z, g \o Yield(z), K)
         /\ \A c \in Later(b) : (\A d \in Later(b) : c <= d) =>
              LET z == [bucket |-> c, entry |-> table.head[c]]
              IN Right(table, z, g \o Yield(z), K)
  <1>1. ASSUME Later(b) = {}, NEW z, z = [bucket |-> Buckets, entry |-> 0]
        PROVE  Right(table, z, g \o Yield(z), K)
    <2>1. K \subseteq Range(g)
      BY <1>1, FoundLater
    <2>2. Right(table, z, g, K)
      BY <1>1, <2>1, StandsAtEnd
    <2>3. g \o Yield(z) = g
      BY <1>1, ConcatEmptySeq DEF Yield
    <2> QED BY <2>2, <2>3
  <1>2. ASSUME NEW c \in Later(b), \A d \in Later(b) : c <= d,
               NEW z, z = [bucket |-> c, entry |-> table.head[c]]
        PROVE  Right(table, z, g \o Yield(z), K)
    <2>1. table.head[c] # 0
      BY DEF Later
    <2>2. Yield(z) = <<table.cell[table.head[c]].key>>
      BY <1>2, <2>1 DEF Yield, Key
    <2> QED BY <1>2, <2>2, StandsOnHead
  <1> QED BY <1>1, <1>2

(* The box goes to z, and on if that is the end of a bucket.                   *)
LEMMA GoesTo ==
  ASSUME Sound(table), NEW g \in Seq(Keys), IsInjective(g), NEW K \in SUBSET Keys,
         NEW b \in 1 .. Buckets, \A i \in DOMAIN g : Hash[g[i]] <= b,
         NEW e \in DOMAIN table.cell \cup {0}, e # 0 => Hash[table.cell[e].key] = b,
         \A i \in DOMAIN g : \A j \in Chain(table, e) : table.cell[j].key # g[i],
         \A k \in K : k \in Range(g) \/ \E c \in Found(table, k) : b < Hash[k] \/ c \in Chain(table, e)
  PROVE  LET z == Filled([bucket |-> b, entry |-> e]) IN Right(table, z, g \o Yield(z), K)
  <1>1. CASE e # 0
    <2> DEFINE z == [bucket |-> b, entry |-> e]
    <2>1. Filled(z) = z /\ Yield(z) = <<table.cell[e].key>>
      BY <1>1 DEF Filled, Yield, Key
    <2>2. Right(table, z, g \o <<table.cell[e].key>>, K)
      BY <1>1, StandsOnNext
    <2> QED BY <2>1, <2>2
  <1>2. CASE e = 0
    <2>1. Chain(table, e) = {}
      BY <1>2, NoChain
    <2>2. b \in 0 .. Buckets /\ \A k \in K : k \in Range(g) \/ (Found(table, k) # {} /\ b < Hash[k])
      BY <2>1, KeyTableAssumption
    <2>3. CASE Later(b) = {}
      <3>1. Filled([bucket |-> b, entry |-> e]) = [bucket |-> Buckets, entry |-> 0]
        BY <1>2, <2>3 DEF Filled
      <3>2. LET z == [bucket |-> Buckets, entry |-> 0] IN Right(table, z, g \o Yield(z), K)
        BY <2>2, <2>3, GoesOn
      <3> QED BY <3>1, <3>2
    <2>4. CASE Later(b) # {}
      <3> DEFINE c == CHOOSE c \in Later(b) : \A d \in Later(b) : c <= d
      <3>1. c \in Later(b) /\ \A d \in Later(b) : c <= d
        BY <2>2, <2>4, FirstLater
      <3>2. Filled([bucket |-> b, entry |-> e]) = [bucket |-> c, entry |-> table.head[c]]
        BY <1>2, <2>4 DEF Filled
      <3> HIDE DEF c
      <3>3. LET z == [bucket |-> c, entry |-> table.head[c]] IN Right(table, z, g \o Yield(z), K)
        BY <2>2, <3>1, GoesOn
      <3> QED BY <3>2, <3>3
    <2> QED BY <2>3, <2>4
  <1> QED BY <1>1, <1>2

LEMMA AlphaKeeps ==
  ASSUME IInv, Alpha
  PROVE  IInv'
  <1> DEFINE h == table.head[1]
             K == Present(table)
             z == Filled([bucket |-> 1, entry |-> h])
  <1>1. Sound(table) /\ 1 \in 1 .. Buckets /\ K \in SUBSET Keys
    BY KeyTableAssumption DEF IInv, Present
  <1>2. h \in DOMAIN table.cell \cup {0} /\ (h # 0 => Hash[table.cell[h].key] = 1)
    <2>1. DOMAIN table.cell = 1 .. Len(table.cell) /\ Len(table.cell) \in Nat
      BY <1>1 DEF Sound
    <2>2. h \in 0 .. Len(table.cell)
      BY <1>1, HeadBucket
    <2> QED BY <1>1, <2>1, <2>2 DEF Sound
  <1>3. ASSUME NEW k \in K
        PROVE  \E c \in Found(table, k) : 1 < Hash[k] \/ c \in Chain(table, h)
    <2>1. PICK c \in Found(table, k) : TRUE
      BY DEF Present
    <2>2. c \in Chain(table, table.head[Hash[k]]) /\ Hash[k] \in 1 .. Buckets
      BY <1>1, FoundCell
    <2>3. Hash[k] = 1 \/ 1 < Hash[k]
      BY <2>2
    <2> QED BY <2>1, <2>2, <2>3
  <1>4. <<>> \in Seq(Keys) /\ IsInjective(<<>>)
    BY DEF IsInjective
  <1>5. place' = z /\ given' = Yield(z) /\ kept' = K /\ table' = table
    BY DEF Alpha, First
  <1> HIDE DEF h, K
  <1>6. \A i \in DOMAIN <<>> : FALSE
    OBVIOUS
  <1>7. Right(table, z, <<>> \o Yield(z), K)
    <2> DEFINE g == <<>>
    <2>1. g \in Seq(Keys) /\ IsInjective(g) /\ \A i \in DOMAIN g : FALSE
      BY <1>4, <1>6
    <2> HIDE DEF g
    <2>2. Right(table, z, g \o Yield(z), K)
      BY <1>1, <1>2, <1>3, <2>1, GoesTo
    <2> QED BY <2>2 DEF g
  <1> HIDE DEF z
  <1>8. <<>> \o Yield(z) = Yield(z)
    BY DEF Yield
  <1>9. Right(table, place', given', K)
    BY <1>5, <1>7, <1>8
  <1> QED BY <1>1, <1>5, <1>9 DEF IInv

LEMMA BetaKeeps ==
  ASSUME IInv, Beta
  PROVE  IInv'
  <1> DEFINE e == Behind(place)
             b == place.bucket
             z == Filled([bucket |-> b, entry |-> e])
  <1>1. Sound(table) /\ Stands(table, place) /\ Once(table, place, given) /\ kept \in SUBSET Keys
        /\ \A k \in kept : k \in Range(given) \/ ToCome(table, place, k)
    BY DEF IInv, Right
  <1>2. b \in 1 .. Buckets /\ (place.entry # 0 => place.entry \in DOMAIN table.cell)
        /\ \A j \in Ahead(table, place) : Hash[table.cell[j].key] = b
    BY <1>1, AheadBucket
  <1>3. e \in DOMAIN table.cell \cup {0} /\ Chain(table, e) = Ahead(table, place)
    <2>1. CASE place.entry = 0
      BY <2>1, NoChain DEF Behind, Ahead
    <2>2. CASE place.entry # 0
      BY <1>1, <1>2, <2>2, SoundCell DEF Behind, Ahead, Link
    <2> QED BY <2>1, <2>2
  <1>4. e # 0 => Hash[table.cell[e].key] = b
    <2> SUFFICES ASSUME e # 0 PROVE Hash[table.cell[e].key] = b
      OBVIOUS
    <2> HIDE DEF e
    <2>1. e \in Chain(table, e)
      BY <1>3, ChainFirst
    <2> QED BY <1>2, <1>3, <2>1
  <1>5. place' = z /\ kept' = kept /\ table' = table /\ given' = given \o Yield(z)
    <2>1. [place EXCEPT !.entry = Behind(place)] = [bucket |-> b, entry |-> e]
      BY <1>1 DEF Stands
    <2>2. Following(place) = z
      BY <2>1 DEF Following
    <2> HIDE DEF z
    <2> QED BY <2>2 DEF Beta
  <1> HIDE DEF e
  <1>6. /\ given \in Seq(Keys) /\ IsInjective(given)
        /\ \A i \in DOMAIN given : Hash[given[i]] <= b
        /\ \A i \in DOMAIN given : \A j \in Chain(table, e) : table.cell[j].key # given[i]
    BY <1>1, <1>3 DEF Once
  <1>7. \A k \in kept : k \in Range(given)
                        \/ \E c \in Found(table, k) : b < Hash[k] \/ c \in Chain(table, e)
    BY <1>1, <1>3 DEF ToCome
  <1>8. Right(table, z, given \o Yield(z), kept)
    BY <1>1, <1>2, <1>3, <1>4, <1>6, <1>7, GoesTo
  <1> HIDE DEF z
  <1> QED BY <1>1, <1>5, <1>8 DEF IInv

LEMMA InsertKeeps ==
  ASSUME IInv, NEW k \in Keys, Insert(k)
  PROVE  IInv'
  <1> DEFINE u == Added(table, k)
  <1>1. Sound(table) /\ Stands(table, place) /\ Once(table, place, given) /\ kept \subseteq Keys
        /\ \A m \in kept : m \in Range(given) \/ ToCome(table, place, m)
    BY DEF IInv, Right
  <1>2. Found(table, k) = {} /\ table' = u /\ place' = place /\ given' = given /\ kept' = kept
    BY DEF Insert
  <1>3. Sound(u)
    BY <1>1, <1>2, AddedSound
  <1>4. /\ Len(u.cell) = Len(table.cell) + 1 /\ \A i \in DOMAIN table.cell : u.cell[i] = table.cell[i]
    BY <1>1, AddedCells
  <1>5. \A c \in DOMAIN table.cell \cup {0} : Chain(u, c) = Chain(table, c)
    BY <1>1, AddedChains
  <1>6. \A m \in Keys : Found(table, m) \subseteq Found(u, m)
    BY <1>1, <1>2, AddedFound
  <1> HIDE DEF u
  <1>7. place.entry # 0 => place.entry \in DOMAIN table.cell
    BY <1>1, AheadBucket
  <1>8. Ahead(u, place) = Ahead(table, place)
    <2>1. CASE place.entry = 0
      BY <2>1 DEF Ahead
    <2>2. CASE place.entry # 0
      <3>1. u.cell[place.entry] = table.cell[place.entry]
            /\ table.cell[place.entry].next \in DOMAIN table.cell \cup {0}
        BY <1>1, <1>4, <1>7, <2>2, SoundCell
      <3> QED BY <1>5, <2>2, <3>1 DEF Ahead
    <2> QED BY <2>1, <2>2
  <1>9. Stands(u, place)
    <2>1. Len(table.cell) \in Nat
      BY <1>1 DEF Sound
    <2>2. place \in [bucket : 1 .. Buckets, entry : 0 .. Len(u.cell)]
      <3>1. 0 .. Len(table.cell) \subseteq 0 .. Len(u.cell)
        BY <1>4, <2>1
      <3> QED BY <1>1, <3>1 DEF Stands
    <2> QED BY <1>1, <1>4, <1>7, <2>2 DEF Stands
  <1>10. Once(u, place, given)
    <2>1. \A j \in Ahead(table, place) : u.cell[j] = table.cell[j]
      BY <1>1, <1>4, AheadBucket
    <2> QED BY <1>1, <1>8, <2>1 DEF Once
  <1>11. \A m \in kept : m \in Range(given) \/ ToCome(u, place, m)
    BY <1>1, <1>6, <1>8 DEF ToCome
  <1> QED BY <1>1, <1>2, <1>3, <1>9, <1>10, <1>11 DEF IInv, Right

LEMMA DeleteKeeps ==
  ASSUME IInv, NEW k \in Keys, Delete(k)
  PROVE  IInv'
  <1>1. Sound(table) /\ Stands(table, place) /\ Once(table, place, given) /\ kept \subseteq Keys
        /\ \A m \in kept : m \in Range(given) \/ ToCome(table, place, m)
    BY DEF IInv, Right
  <1>2. PICK d \in Found(table, k) : table' = Removed(table, k, d)
    BY DEF Delete
  <1> DEFINE u == Removed(table, k, d)
  <1>3. table' = u /\ place' = place /\ given' = given /\ kept' = kept \ {k}
    BY <1>2 DEF Delete
  <1>4. Sound(u)
    BY <1>1, RemovedSound
  <1>5. /\ d \in DOMAIN table.cell /\ Len(u.cell) = Len(table.cell)
        /\ \A i \in DOMAIN table.cell : u.cell[i].key = table.cell[i].key
        /\ \A i \in DOMAIN table.cell : \/ u.cell[i].next = table.cell[i].next
                                        \/ table.cell[i].next = d /\ u.cell[i].next = table.cell[d].next
    BY <1>1, RemovedCells
  <1>6. \A c \in DOMAIN table.cell \cup {0} : \A e :
          e = c \/ (c = d /\ e = table.cell[d].next) =>
            Chain(u, e) \subseteq Chain(table, c) /\ Chain(table, c) \subseteq {d} \cup Chain(u, e)
    BY <1>1, RemovedPast
  <1>7. \A m \in Keys \ {k} : Found(table, m) \subseteq Found(u, m) /\ d \notin Found(table, m)
    BY <1>1, RemovedFound
  <1> HIDE DEF u
  <1>8. place.entry # 0 => place.entry \in DOMAIN table.cell
    BY <1>1, AheadBucket
  <1>9. Ahead(u, place) \subseteq Ahead(table, place) /\ Ahead(table, place) \subseteq {d} \cup Ahead(u, place)
    <2>1. CASE place.entry = 0
      BY <2>1 DEF Ahead
    <2>2. CASE place.entry # 0
      <3> DEFINE c == table.cell[place.entry].next
                 e == u.cell[place.entry].next
      <3>1. c \in DOMAIN table.cell \cup {0}
        BY <1>1, <1>8, <2>2, SoundCell
      <3>2. e = c \/ (c = d /\ e = table.cell[d].next)
        BY <1>5, <1>8, <2>2
      <3>3. Ahead(table, place) = Chain(table, c) /\ Ahead(u, place) = Chain(u, e)
        BY <2>2 DEF Ahead
      <3> HIDE DEF c, e
      <3> QED BY <1>6, <3>1, <3>2, <3>3
    <2> QED BY <2>1, <2>2
  <1>10. Stands(u, place)
    BY <1>1, <1>5, <1>8 DEF Stands
  <1>11. Once(u, place, given)
    <2>1. \A j \in Ahead(u, place) : j \in Ahead(table, place) /\ u.cell[j].key = table.cell[j].key
      BY <1>1, <1>5, <1>9, AheadBucket
    <2> QED BY <1>1, <2>1 DEF Once
  <1>12. ASSUME NEW m \in kept \ {k}
         PROVE  m \in Range(given) \/ ToCome(u, place, m)
    BY <1>1, <1>7, <1>9 DEF ToCome
  <1> QED BY <1>1, <1>3, <1>4, <1>10, <1>11, <1>12 DEF IInv, Right

LEMMA InitRight ==
  ASSUME KeyInit
  PROVE  IInv
  <1>1. table = [head |-> [b \in 1 .. Buckets |-> 0], cell |-> <<>>]
        /\ place = [bucket |-> Buckets, entry |-> 0] /\ given = <<>> /\ kept = {}
    BY DEF KeyInit, NewTable, Nowhere
  <1>2. table.cell \in Seq([key : Keys, next : Nat]) /\ Len(table.cell) = 0 /\ DOMAIN table.cell = {}
    BY <1>1
  <1>3. \A b \in 1 .. Buckets : table.head[b] = 0
    BY <1>1
  <1>4. table.head \in [1 .. Buckets -> 0 .. Len(table.cell)]
    BY <1>1, <1>2
  <1>5. Sound(table)
    BY <1>2, <1>3, <1>4 DEF Sound
  <1>6. given \in Seq(Keys) /\ IsInjective(given)
    BY <1>1 DEF IsInjective
  <1>7. Right(table, place, given, kept)
    BY <1>1, <1>5, <1>6, StandsAtEnd
  <1> QED BY <1>5, <1>7 DEF IInv

-----------------------------------------------------------------------------
(* The chains and the generator's place stay sound under every insertion,      *)
(* deletion and resumption.                                                    *)
THEOREM KeyTableInvariance == KeySpec => []IInv
  <1>1. IInv /\ [KeyNext]_keyVars => IInv'
    <2> SUFFICES ASSUME IInv, [KeyNext]_keyVars PROVE IInv'
      OBVIOUS
    <2>1. CASE Alpha
      BY <2>1, AlphaKeeps
    <2>2. CASE Beta
      BY <2>2, BetaKeeps
    <2>3. ASSUME NEW k \in Keys, Insert(k)
          PROVE  IInv'
      BY <2>3, InsertKeeps
    <2>4. ASSUME NEW k \in Keys, Delete(k)
          PROVE  IInv'
      BY <2>4, DeleteKeeps
    <2>5. CASE UNCHANGED keyVars
      BY <2>5 DEF keyVars, IInv
    <2> QED BY <2>1, <2>2, <2>3, <2>4, <2>5 DEF KeyNext
  <1> QED BY <1>1, InitRight, PTL DEF KeySpec

(* key(T) gives no key twice and, when it fails, has given every key that      *)
(* stayed in the table since it began (icn_bb_tbl_key_iterate).                *)
THEOREM KeysGivenOnce == KeySpec => []KeysOnce
  <1>1. IInv => KeysOnce
    <2> SUFFICES ASSUME IInv PROVE KeysOnce
      OBVIOUS
    <2>1. Sound(table) /\ Stands(table, place) /\ Once(table, place, given) /\ kept \subseteq Keys
          /\ \A k \in kept : k \in Range(given) \/ ToCome(table, place, k)
      BY DEF IInv, Right
    <2>2. ASSUME place.entry = 0, NEW k \in kept
          PROVE  k \in Range(given)
      <3>1. place.bucket = Buckets /\ Ahead(table, place) = {}
        BY <2>1, <2>2 DEF Stands, Ahead
      <3>2. ~ (Buckets < Hash[k])
        BY <2>1, KeyTableAssumption
      <3> QED BY <2>1, <3>1, <3>2 DEF ToCome
    <2> QED BY <2>1, <2>2 DEF KeysOnce, Once
  <1> QED BY <1>1, KeyTableInvariance, PTL
=============================================================================
