--------------------------- MODULE BoxPoolProofs ---------------------------
(***************************************************************************)
(* Proofs about the executable-memory pool, for every page size, slab size *)
(* and set of buffer sizes.                                                *)
(***************************************************************************)
EXTENDS BoxPool, TLAPS

-----------------------------------------------------------------------------
(* Page arithmetic *)

Aligned(p) == p % PageSize = 0

\* A multiple of the page size is the product of its page number.
LEMMA AlignedIsProduct ==
  ASSUME NEW p \in Nat, Aligned(p)
  PROVE  p = (p \div PageSize) * PageSize /\ p \div PageSize \in Nat
  BY PageSizeAssumption DEF Aligned

LEMMA ProductIsAligned ==
  ASSUME NEW k \in Nat
  PROVE  k * PageSize \in Nat /\ Aligned(k * PageSize) /\ (k * PageSize) \div PageSize = k
  BY PageSizeAssumption DEF Aligned

\* Rounding up yields a page boundary, at most one page further on.
LEMMA PageCeilBounds ==
  ASSUME NEW p \in Nat
  PROVE  PageCeil(p) \in Nat /\ p <= PageCeil(p) /\ PageCeil(p) < p + PageSize /\ Aligned(PageCeil(p))
  <1>1. PageCeil(p) \in Nat /\ p <= PageCeil(p) /\ PageCeil(p) < p + PageSize
    BY PageSizeAssumption DEF PageCeil
  <1>2. (p + PageSize - 1) \div PageSize \in Nat
    BY PageSizeAssumption
  <1>3. Aligned(PageCeil(p))
    BY <1>2, ProductIsAligned DEF PageCeil
  <1> QED BY <1>1, <1>3

\* Rounding up preserves order.
LEMMA PageCeilMonotone ==
  ASSUME NEW p \in Nat, NEW q \in Nat, p <= q
  PROVE  PageCeil(p) <= PageCeil(q)
  <1> DEFINE c == (p + PageSize - 1) \div PageSize
             d == (q + PageSize - 1) \div PageSize
  <1>1. c \in Nat /\ d \in Nat /\ c <= d
    BY PageSizeAssumption
  <1>2. c * PageSize <= d * PageSize
    <2> HIDE DEF c, d
    <2> QED BY <1>1, PageSizeAssumption
  <1> QED BY <1>2 DEF PageCeil

\* A page boundary rounds up to itself: no byte lies strictly between it and
\* the result that is less than a page away.
LEMMA PageCeilOfAligned ==
  ASSUME NEW p \in Nat, Aligned(p)
  PROVE  PageCeil(p) = p
  <1> DEFINE k == p \div PageSize
             c == (p + PageSize - 1) \div PageSize
  <1>1. p = k * PageSize /\ k \in Nat
    BY AlignedIsProduct
  <1>2. c \in Nat /\ c * PageSize = PageCeil(p)
    BY PageSizeAssumption DEF PageCeil
  <1>3. k * PageSize <= c * PageSize /\ c * PageSize < k * PageSize + PageSize
    BY <1>1, <1>2, PageCeilBounds
  <1> HIDE DEF k, c
  <1>4. k <= c /\ c < k + 1
    BY <1>1, <1>2, <1>3, PageSizeAssumption
  <1>5. c = k
    BY <1>1, <1>2, <1>4
  <1> QED BY <1>1, <1>2, <1>5

LEMMA AlignedSum ==
  ASSUME NEW p \in Nat, NEW q \in Nat, Aligned(p), Aligned(q)
  PROVE  Aligned(p + q)
  <1> DEFINE k == p \div PageSize
             m == q \div PageSize
  <1>1. p = k * PageSize /\ q = m * PageSize /\ k \in Nat /\ m \in Nat
    BY AlignedIsProduct
  <1> HIDE DEF k, m
  <1>2. p + q = (k + m) * PageSize
    BY <1>1, PageSizeAssumption
  <1> QED BY <1>1, <1>2, ProductIsAligned

\* A reservation is a positive whole number of pages and holds the size.
LEMMA AllocBytesBounds ==
  ASSUME NEW size \in Sizes
  PROVE  /\ size \in Nat \ {0}
         /\ AllocBytes(size) \in Nat
         /\ size <= AllocBytes(size)
         /\ Aligned(AllocBytes(size))
  <1>1. size \in Nat \ {0}
    BY SizesAssumption
  <1>2. AllocBytes(size) = PageCeil(size)
    BY DEF AllocBytes, PageCeil
  <1> QED BY <1>1, <1>2, PageCeilBounds

\* Rounding down stays at or below, on a page boundary.
LEMMA PageFloorOfAligned ==
  ASSUME NEW p \in Nat, Aligned(p)
  PROVE  PageFloor(p) = p
  BY AlignedIsProduct DEF PageFloor

-----------------------------------------------------------------------------
(* Type correctness *)

LEMMA ProtectType ==
  ASSUME NEW lo, NEW hi, NEW mode \in {"RW", "RX"}, prot \in [Page -> {"RW", "RX"}]
  PROVE  Protect(lo, hi, mode) \in [Page -> {"RW", "RX"}]
  BY DEF Protect

\* Dropping one element of a sequence of buffers leaves a sequence of buffers.
LEMMA RemoveType ==
  ASSUME NEW s \in Seq(Buffer), NEW i \in 1 .. Len(s)
  PROVE  SubSeq(s, 1, i - 1) \o SubSeq(s, i + 1, Len(s)) \in Seq(Buffer)
  <1>1. SubSeq(s, 1, i - 1) \in Seq(Buffer)
    OBVIOUS
  <1>2. SubSeq(s, i + 1, Len(s)) \in Seq(Buffer)
    OBVIOUS
  <1> QED BY <1>1, <1>2

LEMMA InitTypeOK == Init => TypeOK
  <1> SUFFICES ASSUME Init PROVE TypeOK
    OBVIOUS
  <1>1. prot \in [Page -> {"RW", "RX"}]
    BY DEF Init
  <1>2. live \in Seq(Buffer)
    BY DEF Init
  <1>3. pool_base \in {"NULL", "slab"} /\ pool_top \in 0 .. PoolSize /\ aborted \in Abort
    BY PoolSizeAssumption DEF Init, Abort
  <1> QED BY <1>1, <1>2, <1>3 DEF TypeOK

LEMMA NextTypeOK == TypeOK /\ [Next]_vars => TypeOK'
  <1> SUFFICES ASSUME TypeOK, [Next]_vars PROVE TypeOK'
    OBVIOUS
  <1>0. /\ pool_base \in {"NULL", "slab"} /\ pool_top \in 0 .. PoolSize /\ pool_top \in Nat
        /\ prot \in [Page -> {"RW", "RX"}] /\ live \in Seq(Buffer) /\ aborted \in Abort
    BY PoolSizeAssumption DEF TypeOK
  <1>1. CASE PoolInit
    <2>1. /\ pool_base' = "slab" /\ pool_top' = 0 /\ live' = live /\ aborted' = aborted
          /\ prot' = [p \in Page |-> "RW"]
      BY <1>1 DEF PoolInit
    <2>2. prot' \in [Page -> {"RW", "RX"}]
      BY <2>1
    <2> QED BY <1>0, <2>1, <2>2, PoolSizeAssumption DEF TypeOK
  <1>2. ASSUME NEW size \in Sizes, Alloc(size) PROVE TypeOK'
    <2> DEFINE start == PageCeil(pool_top)
               end   == start + AllocBytes(size)
               new   == [buf |-> start, size |-> size, sealed |-> 0]
    <2>1. start \in Nat /\ end \in Nat /\ start <= end
      <3>1. start \in Nat
        BY <1>0, PageCeilBounds
      <3>2. AllocBytes(size) \in Nat
        BY AllocBytesBounds
      <3> QED BY <3>1, <3>2
    <2>2. new \in Buffer
      BY <2>1, PoolSizeAssumption DEF Buffer
    <2>3. pool_base' = pool_base /\ prot' = prot
      BY <1>2 DEF Alloc, Fits
    <2>4. aborted' \in Abort
      BY <1>0, <1>2 DEF Alloc, Abort, Fits
    <2>5. \/ pool_top' = pool_top /\ live' = live
          \/ end <= PoolSize /\ pool_top' = end /\ live' = Append(live, new)
      BY <1>2 DEF Alloc, Fits
    <2> HIDE DEF end, new
    <2>6. pool_top' \in 0 .. PoolSize
      BY <1>0, <2>1, <2>5 DEF end
    <2>7. live' \in Seq(Buffer)
      BY <1>0, <2>2, <2>5
    <2> QED BY <1>0, <2>3, <2>4, <2>6, <2>7 DEF TypeOK
  <1>3. ASSUME NEW i \in 1 .. Len(live), NEW n \in 1 .. live[i].size, Seal(i, n)
        PROVE  TypeOK'
    <2>1. live[i] \in Buffer
      BY <1>0
    <2>2. prot' \in [Page -> {"RW", "RX"}]
      BY <1>0, <1>3, ProtectType DEF Seal
    <2>3. live' = [live EXCEPT ![i].sealed = n] /\ UNCHANGED <<pool_base, pool_top, aborted>>
      BY <1>3 DEF Seal
    <2>4. n \in Nat
      BY <2>1, SizesAssumption DEF Buffer
    <2>5. [live[i] EXCEPT !.sealed = n] \in Buffer
      BY <2>1, <2>4 DEF Buffer
    <2>6. live' \in Seq(Buffer)
      BY <1>0, <2>3, <2>5
    <2> QED BY <1>0, <2>2, <2>3, <2>6 DEF TypeOK
  <1>4. ASSUME NEW i \in 1 .. Len(live), Free(i) PROVE TypeOK'
    <2>1. live[i].buf \in Nat /\ AllocBytes(live[i].size) \in Nat
      <3>1. live[i] \in Buffer
        BY <1>0
      <3>2. live[i].buf \in Nat /\ live[i].size \in Sizes
        BY <3>1 DEF Buffer
      <3> QED BY <3>2, AllocBytesBounds
    <2>2. pool_base' = pool_base /\ aborted' \in Abort
      BY <1>0, <1>4 DEF Free, Abort
    <2>3. CASE live[i].buf + AllocBytes(live[i].size) # pool_top
      BY <1>0, <1>4, <2>2, <2>3 DEF Free, IsTop, TypeOK
    <2>4. CASE live[i].buf + AllocBytes(live[i].size) = pool_top
      <3>1. /\ pool_top' = live[i].buf
            /\ prot' = Protect(live[i].buf, live[i].buf + AllocBytes(live[i].size), "RW")
            /\ live' = SubSeq(live, 1, i - 1) \o SubSeq(live, i + 1, Len(live))
        BY <1>4, <2>4 DEF Free, IsTop, Unseal
      <3>2. pool_top' \in 0 .. PoolSize
        BY <1>0, <2>1, <2>4, <3>1, PoolSizeAssumption
      <3>3. live' \in Seq(Buffer)
        BY <1>0, <3>1, RemoveType
      <3>4. prot' \in [Page -> {"RW", "RX"}]
        BY <1>0, <3>1, ProtectType
      <3> QED BY <1>0, <2>2, <3>2, <3>3, <3>4 DEF TypeOK
    <2> QED BY <2>3, <2>4
  <1>5. CASE PoolDestroy
    <2>1. live' = <<>> /\ pool_base' = "NULL" /\ pool_top' = 0 /\ prot' = prot /\ aborted' = aborted
      BY <1>5 DEF PoolDestroy
    <2>2. live' \in Seq(Buffer)
      BY <2>1
    <2> QED BY <1>0, <2>1, <2>2, PoolSizeAssumption DEF TypeOK
  <1>6. CASE UNCHANGED vars
    BY <1>0, <1>6 DEF vars, TypeOK
  <1> QED BY <1>1, <1>2, <1>3, <1>4, <1>5, <1>6 DEF Next

\* Every variable of the pool keeps its type, whatever its clients do.
THEOREM TypeCorrect == Spec => []TypeOK
  BY InitTypeOK, NextTypeOK, PTL DEF Spec

-----------------------------------------------------------------------------
(* Safety *)

EndOf(b) == b.buf + AllocBytes(b.size)

\* The stack of buffers climbs through the slab in page-aligned, disjoint steps.
Stacked ==
  /\ Aligned(pool_top)
  /\ \A i \in 1 .. Len(live) : Aligned(live[i].buf) /\ EndOf(live[i]) <= pool_top
  /\ \A i, j \in 1 .. Len(live) : i < j => EndOf(live[i]) <= live[j].buf

\* Pages above the bump pointer are read-write: what bb_free must re-establish.
FreePagesWritable ==
  pool_base = "slab" => \A p \in Page : pool_top <= p => prot[p] = "RW"

\* Without a slab there are no buffers.
NoSlabNoBuffer == pool_base = "NULL" => live = <<>>

\* What has been sealed lies inside its buffer.
SealedWithinBuffer == \A i \in 1 .. Len(live) : live[i].sealed <= live[i].size

\* The inductive invariant.
IInv == /\ TypeOK
        /\ Stacked
        /\ FreePagesWritable
        /\ NoSlabNoBuffer
        /\ SealedWithinBuffer
        /\ OpenBufferWritable
        /\ SealedCodeExecutable

LEMMA BufferFacts ==
  ASSUME NEW b \in Buffer
  PROVE  /\ b.buf \in Nat /\ b.size \in Sizes /\ b.size \in Nat /\ b.sealed \in Nat
         /\ EndOf(b) \in Nat /\ b.buf + b.size <= EndOf(b) /\ b.buf < EndOf(b)
  <1>1. b.buf \in Nat /\ b.size \in Sizes /\ b.sealed \in Nat
    BY PoolSizeAssumption DEF Buffer
  <1>2. b.size \in Nat \ {0} /\ AllocBytes(b.size) \in Nat /\ b.size <= AllocBytes(b.size)
    BY <1>1, AllocBytesBounds
  <1> QED BY <1>1, <1>2 DEF EndOf

LEMMA PageFacts ==
  ASSUME NEW p \in Page
  PROVE  p \in Nat /\ Aligned(p)
  BY PoolSizeAssumption DEF Page, Aligned

LEMMA InitIInv == Init => IInv
  <1> SUFFICES ASSUME Init PROVE IInv
    OBVIOUS
  <1>1. TypeOK
    BY InitTypeOK
  <1>2. Aligned(0)
    BY PageSizeAssumption DEF Aligned
  <1>3. pool_top = 0 /\ live = <<>> /\ pool_base = "NULL"
    BY DEF Init
  <1> QED BY <1>1, <1>2, <1>3 DEF IInv, Stacked, FreePagesWritable, NoSlabNoBuffer, SealedWithinBuffer,
                                  OpenBufferWritable, SealedCodeExecutable

\* The invariant speaks of these variables only.
LEMMA Unmoved ==
  ASSUME IInv, TypeOK', UNCHANGED <<pool_base, pool_top, prot, live>>
  PROVE  IInv'
  <1>1. Stacked'
    BY DEF IInv, Stacked, EndOf, AllocBytes, Aligned
  <1>2. FreePagesWritable' /\ NoSlabNoBuffer' /\ SealedWithinBuffer'
    BY DEF IInv, FreePagesWritable, NoSlabNoBuffer, SealedWithinBuffer
  <1>3. OpenBufferWritable'
    BY DEF IInv, OpenBufferWritable, PagesOf, AllocBytes
  <1>4. SealedCodeExecutable'
    BY DEF IInv, SealedCodeExecutable, CodeOf
  <1> QED BY <1>1, <1>2, <1>3, <1>4 DEF IInv

\* A new buffer starts at the bump pointer, on pages that were free.
LEMMA AllocIInv ==
  ASSUME IInv, NEW size \in Sizes, Alloc(size), TypeOK'
  PROVE  IInv'
  <1> DEFINE start == PageCeil(pool_top)
             end   == start + AllocBytes(size)
             new   == [buf |-> start, size |-> size, sealed |-> 0]
  <1>1. pool_top \in Nat /\ Aligned(pool_top) /\ live \in Seq(Buffer)
    BY PoolSizeAssumption DEF IInv, TypeOK, Stacked
  <1>2. start = pool_top
    BY <1>1, PageCeilOfAligned
  <1>3. end \in Nat /\ Aligned(end) /\ start <= end
    <2>1. AllocBytes(size) \in Nat /\ Aligned(AllocBytes(size))
      BY AllocBytesBounds
    <2>2. Aligned(pool_top + AllocBytes(size))
      BY <1>1, <2>1, AlignedSum
    <2>3. end = pool_top + AllocBytes(size)
      BY <1>2
    <2> HIDE DEF start, end
    <2>4. end \in Nat /\ start <= end
      BY <1>1, <1>2, <2>1, <2>3
    <2> QED BY <2>2, <2>3, <2>4
  <1>4. CASE end > PoolSize \/ pool_base = "NULL"
    <2>1. \/ pool_base = "slab" /\ end <= PoolSize
          \/ UNCHANGED <<pool_top, live>>
      BY DEF Alloc, Fits
    <2>2. UNCHANGED <<pool_base, prot>>
      BY DEF Alloc, Fits
    <2> HIDE DEF start, end
    <2>3. UNCHANGED <<pool_base, pool_top, prot, live>>
      BY <1>3, <1>4, <2>1, <2>2, PoolSizeAssumption
    <2> QED BY <2>3, Unmoved
  <1>5. CASE end <= PoolSize /\ pool_base = "slab"
    <2>1. /\ pool_top' = end /\ live' = Append(live, new)
          /\ pool_base = "slab" /\ UNCHANGED <<pool_base, prot>>
      BY <1>3, <1>5, PoolSizeAssumption DEF Alloc, Fits
    <2>2. /\ Len(live') = Len(live) + 1
          /\ live'[Len(live) + 1] = new
          /\ \A i \in 1 .. Len(live) : live'[i] = live[i]
      BY <1>1, <2>1
    <2> HIDE DEF start, end
    <2>3. EndOf(new) = end /\ new.buf = start /\ new.sealed = 0
      BY DEF EndOf, end
    <2>4. Stacked'
      <3>1. \A i \in 1 .. Len(live) : Aligned(live[i].buf) /\ EndOf(live[i]) \in Nat
                                      /\ EndOf(live[i]) <= pool_top
        BY <1>1, BufferFacts DEF IInv, Stacked
      <3>2. Aligned(pool_top')
        BY <1>3, <2>1
      <3>3. \A i \in 1 .. Len(live') : Aligned(live'[i].buf) /\ EndOf(live'[i]) <= pool_top'
        BY <1>1, <1>2, <1>3, <2>1, <2>2, <2>3, <3>1
      <3>4. \A i, j \in 1 .. Len(live') : i < j => EndOf(live'[i]) <= live'[j].buf
        BY <1>1, <1>2, <2>2, <2>3, <3>1 DEF IInv, Stacked
      <3> QED BY <3>2, <3>3, <3>4 DEF Stacked, EndOf, Aligned, AllocBytes
    <2>5. FreePagesWritable'
      <3>1. \A p \in Page : p \in Nat
        BY PageFacts
      <3> QED BY <1>1, <1>2, <1>3, <2>1, <3>1 DEF IInv, FreePagesWritable
    <2>6. NoSlabNoBuffer'
      BY <2>1 DEF NoSlabNoBuffer
    <2>7. OpenBufferWritable'
      <3>1. \A p \in PagesOf(new) : prot[p] = "RW"
        BY <1>2, <2>1, <2>3 DEF IInv, FreePagesWritable, PagesOf
      <3> QED BY <1>1, <2>1, <2>2, <3>1 DEF IInv, OpenBufferWritable, PagesOf, AllocBytes
    <2>8. SealedCodeExecutable'
      <3>1. CodeOf(new) = {}
        BY <1>1, <1>2, <2>3, PageFacts DEF CodeOf
      <3> QED BY <1>1, <2>1, <2>2, <3>1 DEF IInv, SealedCodeExecutable, CodeOf
    <2>9. SealedWithinBuffer'
      <3>1. size \in Nat /\ new.size = size
        BY SizesAssumption
      <3> QED BY <1>1, <2>2, <2>3, <3>1 DEF IInv, SealedWithinBuffer
    <2> QED BY <2>4, <2>5, <2>6, <2>7, <2>8, <2>9 DEF IInv
  <1> QED BY <1>3, <1>4, <1>5, PoolSizeAssumption DEF IInv, TypeOK

\* Sealing changes the protection of the buffer's own pages only.
LEMMA SealIInv ==
  ASSUME IInv, NEW i \in 1 .. Len(live), NEW n \in 1 .. live[i].size, Seal(i, n), TypeOK'
  PROVE  IInv'
  <1> DEFINE b == live[i]
             hi == PageCeil(b.buf + n)
  <1>1. live \in Seq(Buffer) /\ b \in Buffer /\ pool_top \in Nat
    BY PoolSizeAssumption DEF IInv, TypeOK
  <1>2. b.buf \in Nat /\ b.size \in Nat /\ EndOf(b) \in Nat /\ b.buf + b.size <= EndOf(b) /\ n \in Nat /\ n <= b.size
    BY <1>1, BufferFacts
  <1>3. Aligned(b.buf) /\ EndOf(b) <= pool_top
    BY DEF IInv, Stacked
  <1>4. PageFloor(b.buf) = b.buf
    BY <1>2, <1>3, PageFloorOfAligned
  <1>5. hi \in Nat /\ b.buf + n <= hi /\ hi <= EndOf(b)
    <2>1. b.buf + n \in Nat /\ b.buf + n <= EndOf(b)
      BY <1>2
    <2>2. hi \in Nat /\ b.buf + n <= hi /\ hi < b.buf + n + PageSize /\ Aligned(hi)
      BY <2>1, PageCeilBounds
    <2>3. Aligned(EndOf(b))
      BY <1>1, <1>2, <1>3, AllocBytesBounds, AlignedSum, BufferFacts DEF EndOf
    <2>4. PageCeil(EndOf(b)) = EndOf(b)
      BY <1>2, <2>3, PageCeilOfAligned
    <2>5. PageCeil(b.buf + n) <= PageCeil(EndOf(b))
      BY <2>1, <1>2, PageCeilMonotone
    <2> QED BY <2>2, <2>4, <2>5
  <1>6. /\ prot' = [p \in Page |-> IF b.buf <= p /\ p < hi THEN "RX" ELSE prot[p]]
        /\ live' = [live EXCEPT ![i].sealed = n]
        /\ b.sealed = 0
        /\ UNCHANGED <<pool_base, pool_top>>
    BY <1>4 DEF Seal, Protect
  <1> HIDE DEF hi
  <1>7. /\ Len(live') = Len(live)
        /\ \A k \in 1 .. Len(live) : /\ live'[k].buf = live[k].buf /\ live'[k].size = live[k].size
                                     /\ EndOf(live'[k]) = EndOf(live[k])
                                     /\ k # i => live'[k] = live[k]
        /\ live'[i].sealed = n
    <2>1. Len(live') = Len(live) /\ live'[i] = [b EXCEPT !.sealed = n]
          /\ \A k \in 1 .. Len(live) : k # i => live'[k] = live[k]
      BY <1>1, <1>6
    <2>2. live'[i].buf = b.buf /\ live'[i].size = b.size /\ live'[i].sealed = n
      BY <1>1, <2>1 DEF Buffer
    <2>3. \A k \in 1 .. Len(live) : live'[k].buf = live[k].buf /\ live'[k].size = live[k].size
      BY <2>1, <2>2
    <2> QED BY <2>1, <2>2, <2>3 DEF EndOf
  <1> HIDE DEF b
  <1>8. \A k \in 1 .. Len(live) : k # i =>
           EndOf(live[k]) <= live[i].buf \/ EndOf(live[i]) <= live[k].buf
    BY <1>1 DEF IInv, Stacked
  <1>9. \A k \in 1 .. Len(live) : live[k].buf \in Nat /\ EndOf(live[k]) \in Nat
                                  /\ live[k].sealed \in Nat /\ live[k].sealed <= live[k].size
                                  /\ live[k].size \in Nat
                                  /\ live[k].buf + live[k].size <= EndOf(live[k])
    BY <1>1, BufferFacts DEF IInv, SealedWithinBuffer
  <1>10. Stacked'
    BY <1>6, <1>7 DEF IInv, Stacked, EndOf, AllocBytes, Aligned
  <1>11. FreePagesWritable'
    BY <1>1, <1>2, <1>3, <1>5, <1>6, PageFacts DEF IInv, FreePagesWritable
  <1>12. NoSlabNoBuffer'
    BY <1>1, <1>6, <1>7 DEF IInv, NoSlabNoBuffer
  <1>13. SealedWithinBuffer'
    BY <1>2, <1>7 DEF IInv, SealedWithinBuffer, b
  <1>14. ASSUME NEW k \in 1 .. Len(live), k # i, NEW p \in Page,
                live[k].buf <= p, p < EndOf(live[k])
         PROVE  prot'[p] = prot[p]
    BY SMTT(60), <1>1, <1>2, <1>5, <1>6, <1>8, <1>9, <1>14, PageFacts DEF b
  <1>15. OpenBufferWritable'
    <2> SUFFICES ASSUME NEW k \in 1 .. Len(live), live'[k].sealed = 0, NEW p \in PagesOf(live'[k])
                 PROVE  prot'[p] = "RW"
      BY <1>7 DEF OpenBufferWritable, PagesOf, AllocBytes
    <2>1. k # i
      BY <1>2, <1>7
    <2>2. p \in Page /\ live[k].buf <= p /\ p < EndOf(live[k])
      BY <1>7 DEF PagesOf, EndOf
    <2>3. prot[p] = "RW"
      BY <1>7, <2>1, <2>2 DEF IInv, OpenBufferWritable, PagesOf, EndOf
    <2> QED BY <1>14, <2>1, <2>2, <2>3
  <1>16. SealedCodeExecutable'
    <2> SUFFICES ASSUME NEW k \in 1 .. Len(live), NEW p \in CodeOf(live'[k])
                 PROVE  prot'[p] = "RX"
      BY <1>7 DEF SealedCodeExecutable, CodeOf
    <2>1. p \in Page /\ p \in Nat /\ live[k].buf <= p /\ p < live[k].buf + live'[k].sealed
      BY <1>7, PageFacts DEF CodeOf
    <2>2. CASE k = i
      BY <1>2, <1>5, <1>6, <1>7, <2>1, <2>2 DEF b
    <2>3. CASE k # i
      <3>1. live'[k] = live[k]
        BY <1>7, <2>3
      <3>2. p < EndOf(live[k])
        <4>1. p < live[k].buf + live[k].sealed
          BY <2>1, <3>1
        <4>2. /\ live[k].buf \in Nat /\ EndOf(live[k]) \in Nat /\ live[k].sealed \in Nat
              /\ live[k].size \in Nat /\ live[k].sealed <= live[k].size
              /\ live[k].buf + live[k].size <= EndOf(live[k])
          BY <1>9
        <4> QED BY <2>1, <4>1, <4>2
      <3>3. prot[p] = "RX"
        BY <2>1, <3>1 DEF IInv, SealedCodeExecutable, CodeOf
      <3> QED BY <1>14, <2>1, <2>3, <3>2, <3>3
    <2> QED BY <2>2, <2>3
  <1> QED BY <1>10, <1>11, <1>12, <1>13, <1>15, <1>16 DEF IInv

\* Only the topmost buffer passes the LIFO check; its pages come back as RW.
LEMMA FreeIInv ==
  ASSUME IInv, NEW i \in 1 .. Len(live), Free(i), TypeOK'
  PROVE  IInv'
  <1> DEFINE b == live[i]
  <1>1. live \in Seq(Buffer) /\ b \in Buffer /\ pool_top \in Nat
    BY PoolSizeAssumption DEF IInv, TypeOK
  <1>2. CASE EndOf(b) # pool_top
    <2>1. UNCHANGED <<pool_base, pool_top, prot, live>>
      BY <1>2 DEF Free, IsTop, EndOf
    <2> QED BY <2>1, Unmoved
  <1>3. CASE EndOf(b) = pool_top
    <2>1. /\ pool_top' = b.buf
          /\ prot' = [p \in Page |-> IF b.buf <= p /\ p < EndOf(b) THEN "RW" ELSE prot[p]]
          /\ live' = SubSeq(live, 1, i - 1) \o SubSeq(live, i + 1, Len(live))
          /\ UNCHANGED pool_base
      BY <1>3 DEF Free, IsTop, Unseal, Protect, EndOf
    <2>2. \A k \in 1 .. Len(live) : live[k].buf \in Nat /\ EndOf(live[k]) \in Nat
                                    /\ live[k].buf < EndOf(live[k])
                                    /\ live[k].sealed \in Nat /\ live[k].sealed <= live[k].size
                                    /\ live[k].buf + live[k].size <= EndOf(live[k])
                                    /\ live[k].size \in Nat
      BY <1>1, BufferFacts DEF IInv, SealedWithinBuffer
    <2>3. i = Len(live)
      <3>1. ASSUME i < Len(live) PROVE FALSE
        <4>1. Len(live) \in 1 .. Len(live)
          BY <1>1
        <4>2. EndOf(b) <= live[Len(live)].buf /\ EndOf(live[Len(live)]) <= pool_top
          BY <3>1, <4>1 DEF IInv, Stacked
        <4> QED BY <1>1, <1>3, <2>2, <4>1, <4>2
      <3> QED BY <1>1, <3>1
    <2>4. /\ Len(live') = Len(live) - 1
          /\ \A k \in 1 .. Len(live') : k \in 1 .. Len(live) /\ k < i /\ live'[k] = live[k]
      BY <1>1, <2>1, <2>3
    <2> HIDE DEF b
    <2>5. \A k \in 1 .. Len(live') : EndOf(live[k]) <= b.buf
      BY <2>4 DEF IInv, Stacked, b
    <2>6. ASSUME NEW k \in 1 .. Len(live'), NEW p \in Page, p < EndOf(live[k])
          PROVE  prot'[p] = prot[p]
      <3>1. p \in Nat /\ b.buf \in Nat /\ EndOf(live[k]) \in Nat /\ EndOf(live[k]) <= b.buf
        BY <2>2, <2>4, <2>5, PageFacts DEF b
      <3>2. p < b.buf
        BY <2>6, <3>1
      <3> QED BY <2>1, <3>1, <3>2
    <2>7. Stacked'
      <3>1. Aligned(b.buf)
        BY DEF IInv, Stacked, b
      <3>2. \A k \in 1 .. Len(live') : Aligned(live[k].buf)
        BY <2>4 DEF IInv, Stacked
      <3>3. \A k, m \in 1 .. Len(live') : k < m => EndOf(live[k]) <= live[m].buf
        BY <2>4 DEF IInv, Stacked
      <3>4. Aligned(pool_top')
        BY <2>1, <3>1
      <3>5. \A k \in 1 .. Len(live') : Aligned(live'[k].buf) /\ EndOf(live'[k]) <= pool_top'
        BY <2>1, <2>4, <2>5, <3>2
      <3>6. \A k, m \in 1 .. Len(live') : k < m => EndOf(live'[k]) <= live'[m].buf
        BY <2>4, <3>3
      <3> QED BY <3>4, <3>5, <3>6 DEF Stacked, EndOf, AllocBytes, Aligned
    <2>8. FreePagesWritable'
      <3>1. \A p \in Page : p \in Nat
        BY PageFacts
      <3>2. b.buf \in Nat /\ EndOf(b) \in Nat
        BY <2>2 DEF b
      <3> QED BY <1>3, <2>1, <3>1, <3>2 DEF IInv, FreePagesWritable, b
    <2>9. NoSlabNoBuffer'
      BY <2>1, <2>4 DEF IInv, NoSlabNoBuffer
    <2>10. SealedWithinBuffer'
      BY <2>4 DEF IInv, SealedWithinBuffer
    <2>11. OpenBufferWritable'
      <3> SUFFICES ASSUME NEW k \in 1 .. Len(live'), live[k].sealed = 0, NEW p \in PagesOf(live[k])
                   PROVE  prot'[p] = "RW"
        BY <2>4 DEF OpenBufferWritable, PagesOf, AllocBytes
      <3>1. p \in Page /\ p < EndOf(live[k])
        BY DEF PagesOf, EndOf
      <3>2. prot[p] = "RW"
        BY <2>4 DEF IInv, OpenBufferWritable
      <3> QED BY <2>6, <3>1, <3>2
    <2>12. SealedCodeExecutable'
      <3> SUFFICES ASSUME NEW k \in 1 .. Len(live'), NEW p \in CodeOf(live[k])
                   PROVE  prot'[p] = "RX"
        BY <2>4 DEF SealedCodeExecutable, CodeOf
      <3>1. p \in Page /\ p \in Nat /\ p < live[k].buf + live[k].sealed
        BY PageFacts DEF CodeOf
      <3>2. p < EndOf(live[k])
        <4>1. k \in 1 .. Len(live)
          BY <2>4
        <4>2. /\ live[k].buf \in Nat /\ EndOf(live[k]) \in Nat /\ live[k].sealed \in Nat
              /\ live[k].size \in Nat /\ live[k].sealed <= live[k].size
              /\ live[k].buf + live[k].size <= EndOf(live[k])
          BY <2>2, <4>1
        <4> QED BY <3>1, <4>1, <4>2
      <3>3. prot[p] = "RX"
        BY <2>4 DEF IInv, SealedCodeExecutable
      <3> QED BY <2>6, <3>1, <3>2, <3>3
    <2> QED BY <2>7, <2>8, <2>9, <2>10, <2>11, <2>12 DEF IInv
  <1> QED BY <1>2, <1>3

\* With no buffers and a bump pointer at zero there is little to say.
LEMMA EmptyIInv ==
  ASSUME TypeOK', live' = <<>>, pool_top' = 0, FreePagesWritable'
  PROVE  IInv'
  <1>1. Aligned(0)
    BY PageSizeAssumption DEF Aligned
  <1>2. Stacked'
    BY <1>1 DEF Stacked, Aligned
  <1>3. NoSlabNoBuffer' /\ SealedWithinBuffer' /\ OpenBufferWritable' /\ SealedCodeExecutable'
    BY DEF NoSlabNoBuffer, SealedWithinBuffer, OpenBufferWritable, SealedCodeExecutable
  <1> QED BY <1>2, <1>3 DEF IInv

LEMMA NextIInv == IInv /\ [Next]_vars => IInv'
  <1> SUFFICES ASSUME IInv, [Next]_vars PROVE IInv'
    OBVIOUS
  <1>1. TypeOK'
    BY NextTypeOK DEF IInv
  <1>2. CASE PoolInit
    <2>1. live' = <<>> /\ pool_top' = 0 /\ FreePagesWritable'
      BY <1>2 DEF PoolInit, IInv, NoSlabNoBuffer, FreePagesWritable
    <2> QED BY <1>1, <2>1, EmptyIInv
  <1>3. ASSUME NEW size \in Sizes, Alloc(size) PROVE IInv'
    BY <1>1, <1>3, AllocIInv
  <1>4. ASSUME NEW i \in 1 .. Len(live), NEW n \in 1 .. live[i].size, Seal(i, n) PROVE IInv'
    BY <1>1, <1>4, SealIInv
  <1>5. ASSUME NEW i \in 1 .. Len(live), Free(i) PROVE IInv'
    BY <1>1, <1>5, FreeIInv
  <1>6. CASE PoolDestroy
    <2>1. live' = <<>> /\ pool_top' = 0 /\ FreePagesWritable'
      BY <1>6 DEF PoolDestroy, FreePagesWritable
    <2> QED BY <1>1, <2>1, EmptyIInv
  <1>7. CASE UNCHANGED vars
    BY <1>1, <1>7, Unmoved DEF vars
  <1> QED BY <1>2, <1>3, <1>4, <1>5, <1>6, <1>7 DEF Next

LEMMA IInvImpliesNoSharedPage == IInv => NoSharedPage
  <1> SUFFICES ASSUME IInv, NEW i \in 1 .. Len(live), NEW j \in 1 .. Len(live), i # j,
                      NEW p \in Page, p \in PagesOf(live[i]), p \in PagesOf(live[j])
               PROVE  FALSE
    BY DEF NoSharedPage, PagesOf
  <1>1. live \in Seq(Buffer)
    BY DEF IInv, TypeOK
  <1>2. live[i].buf \in Nat /\ EndOf(live[i]) \in Nat /\ live[j].buf \in Nat /\ EndOf(live[j]) \in Nat
    BY <1>1, BufferFacts
  <1>3. EndOf(live[i]) <= live[j].buf \/ EndOf(live[j]) <= live[i].buf
    BY <1>1 DEF IInv, Stacked
  <1>4. /\ p \in Nat /\ live[i].buf <= p /\ p < EndOf(live[i])
        /\ live[j].buf <= p /\ p < EndOf(live[j])
    BY PageFacts DEF PagesOf, EndOf
  <1> QED BY <1>2, <1>3, <1>4

\* Live buffers never share a page, so one client's bb_seal or bb_free cannot
\* change the protection of another client's code.
THEOREM PagesExclusive == Spec => []NoSharedPage
  BY InitIInv, NextIInv, IInvImpliesNoSharedPage, PTL DEF Spec

\* A buffer under construction is writable and sealed code stays executable
\* until its owner frees it, through any recycling of pages.
THEOREM ProtectionCorrect == Spec => [](OpenBufferWritable /\ SealedCodeExecutable)
  <1>1. IInv => OpenBufferWritable /\ SealedCodeExecutable
    BY DEF IInv
  <1> QED BY InitIInv, NextIInv, <1>1, PTL DEF Spec

\* Code that bb_seal has made executable stays so until its owner frees it, also
\* when the slab's pages are recycled by bb_free around it.
THEOREM CodeExecutable == Spec => []SealedCodeExecutable
  BY ProtectionCorrect, PTL
=============================================================================
