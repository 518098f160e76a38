------------------------------ MODULE BoxPool ------------------------------
(***************************************************************************)
(* The executable-memory pool of the live Byrd-box builder                 *)
(* (runtime/x86/bb_pool.c).  Its clients, the emitters of bb_build.c and   *)
(* bb_flat.c, hold any number of buffers, seal each at most once with the  *)
(* bytes they emitted, and free with the size they allocated with; whether *)
(* they free in order is left open, because bb_free checks it.             *)
(*                                                                         *)
(* Addresses are byte offsets from the start of the slab.  Protection is   *)
(* kept per page, which is the granularity of mprotect.                    *)
(***************************************************************************)
EXTENDS Integers, Sequences

CONSTANTS
  PageSize,     \* sysconf(_SC_PAGESIZE)
  PoolSize,     \* BB_POOL_SIZE, in bytes
  Sizes         \* the sizes clients ask bb_alloc for (BUF_SIZE, *_TRAM_SIZE, FLAT_BUF_MAX)

ASSUME PageSizeAssumption == PageSize \in Nat \ {0}
ASSUME PoolSizeAssumption == PoolSize \in Nat
ASSUME WholePages         == PoolSize % PageSize = 0
ASSUME SizesAssumption    == Sizes \subseteq Nat \ {0}

VARIABLES
  pool_base,    \* "slab" once mmap has succeeded, "NULL" before and after destroy
  pool_top,     \* the bump pointer
  prot,         \* protection of every page of the slab
  live,         \* stack of the buffers the clients hold
  aborted       \* why the process called abort(), or "no"

vars == <<pool_base, pool_top, prot, live, aborted>>

-----------------------------------------------------------------------------
(* Page arithmetic *)

PageFloor(p) == (p \div PageSize) * PageSize
PageCeil(p)  == ((p + PageSize - 1) \div PageSize) * PageSize

\* The bytes bb_alloc reserves and bb_free gives back for a size.
AllocBytes(size) == ((size + PageSize - 1) \div PageSize) * PageSize

Page    == {p \in 0 .. PoolSize : p % PageSize = 0 /\ p < PoolSize}  \* by start address
Abort   == {"no", "not initialised", "exhausted", "lifo"}
Buffer  == [buf : Nat, size : Sizes, sealed : Nat]

\* mprotect(lo, hi - lo, mode)
Protect(lo, hi, mode) ==
  [p \in Page |-> IF lo <= p /\ p < hi THEN mode ELSE prot[p]]

\* bb_alloc's check against pool_limit; without it the bump pointer leaves the slab.
Unlimited(end) == TRUE
Fits(end)      == end <= PoolSize

\* bb_free's LIFO check; without it a buffer in the middle of the pool is rewound to.
AnyOrder(end) == TRUE
IsTop(end)    == end = pool_top

\* bb_free makes the pages writable again; without it they stay as they were sealed.
KeepProtection(lo, hi) == prot
Unseal(lo, hi)         == Protect(lo, hi, "RW")

-----------------------------------------------------------------------------
Init == /\ pool_base = "NULL"
        /\ pool_top = 0
        /\ prot = [p \in Page |-> "RW"]
        /\ live = <<>>
        /\ aborted = "no"

\* bb_pool_init: idempotent, maps a fresh read-write slab.
PoolInit ==
  /\ aborted = "no"
  /\ pool_base = "NULL"
  /\ pool_base' = "slab"
  /\ pool_top' = 0
  /\ prot' = [p \in Page |-> "RW"]
  /\ UNCHANGED <<live, aborted>>

\* bb_alloc: start on a page of its own, or abort when there is no slab or it
\* is used up.
Alloc(size) ==
  LET start == PageCeil(pool_top)
      end   == start + AllocBytes(size)
  IN /\ aborted = "no"
     /\ \/ /\ pool_base = "NULL"
           /\ aborted' = "not initialised"
           /\ UNCHANGED <<pool_top, live>>
        \/ /\ pool_base = "slab"
           /\ ~ Fits(end)
           /\ aborted' = "exhausted"
           /\ UNCHANGED <<pool_top, live>>
        \/ /\ pool_base = "slab"
           /\ Fits(end)
           /\ pool_top' = end
           /\ live' = Append(live, [buf |-> start, size |-> size, sealed |-> 0])
           /\ UNCHANGED aborted
     /\ UNCHANGED <<pool_base, prot>>

\* bb_seal: the client has emitted nbytes of code into its buffer i.
Seal(i, nbytes) ==
  LET b == live[i]
  IN /\ aborted = "no"
     /\ b.sealed = 0
     /\ nbytes <= b.size
     /\ prot' = Protect(PageFloor(b.buf), PageCeil(b.buf + nbytes), "RX")
     /\ live' = [live EXCEPT ![i].sealed = nbytes]
     /\ UNCHANGED <<pool_base, pool_top, aborted>>

\* bb_free of buffer i: rewind the bump pointer and give the pages back as RW,
\* or abort when i is not the most recent allocation.
Free(i) ==
  LET b   == live[i]
      end == b.buf + AllocBytes(b.size)
  IN /\ aborted = "no"
     /\ \/ /\ ~ IsTop(end)
           /\ aborted' = "lifo"
           /\ UNCHANGED <<pool_top, prot, live>>
        \/ /\ IsTop(end)
           /\ pool_top' = b.buf
           /\ prot' = Unseal(b.buf, end)
           /\ live' = SubSeq(live, 1, i - 1) \o SubSeq(live, i + 1, Len(live))
           /\ UNCHANGED aborted
     /\ UNCHANGED pool_base

\* bb_pool_destroy: the slab goes, and with it every buffer.
PoolDestroy ==
  /\ aborted = "no"
  /\ pool_base = "slab"
  /\ pool_base' = "NULL"
  /\ pool_top' = 0
  /\ live' = <<>>
  /\ UNCHANGED <<prot, aborted>>

Next == \/ PoolInit
        \/ \E size \in Sizes : Alloc(size)
        \/ \E i \in 1 .. Len(live) : \E n \in 1 .. live[i].size : Seal(i, n)
        \/ \E i \in 1 .. Len(live) : Free(i)
        \/ PoolDestroy

Spec == Init /\ [][Next]_vars

-----------------------------------------------------------------------------
(* Properties *)

\* Every variable has its type; the protections cover exactly the slab's pages.
TypeOK == /\ pool_base \in {"NULL", "slab"}
          /\ pool_top \in 0 .. PoolSize
          /\ prot \in [Page -> {"RW", "RX"}]
          /\ live \in Seq(Buffer)
          /\ aborted \in Abort

\* The pages buffer b owns, and those of them that hold sealed code.
PagesOf(b) == {p \in Page : b.buf <= p /\ p < b.buf + AllocBytes(b.size)}
CodeOf(b)  == {p \in Page : b.buf <= p /\ p < b.buf + b.sealed}

\* No two live buffers share a page (bb_alloc: "Page-aligning ensures no two
\* live allocations ever share a page"), so sealing one cannot seal another.
NoSharedPage ==
  \A i, j \in 1 .. Len(live) : i # j => PagesOf(live[i]) \cap PagesOf(live[j]) = {}

\* A buffer the client is still emitting into is writable throughout: a page
\* recycled by bb_free from sealed code must have come back as read-write.
OpenBufferWritable ==
  \A i \in 1 .. Len(live) :
    live[i].sealed = 0 => \A p \in PagesOf(live[i]) : prot[p] = "RW"

\* Code that has been sealed stays executable, whatever is allocated, sealed
\* or freed after it.
SealedCodeExecutable ==
  \A i \in 1 .. Len(live) : \A p \in CodeOf(live[i]) : prot[p] = "RX"
=============================================================================
