------------------------------ MODULE MCBoxPool ------------------------------
(* A slab of four 4-byte pages; buffers smaller than, equal to and larger    *)
(* than a page, so that a sealed prefix may end inside a buffer.             *)
EXTENDS BoxPool
MCPageSize == 4
MCPoolSize == 16
MCSizes    == {3, 4, 6}
=============================================================================
