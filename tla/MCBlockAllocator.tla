-------------------------- MODULE MCBlockAllocator --------------------------
(***************************************************************************)
(* Requests of 200 and 300 bytes become blocks of 256 and 512.             *)
(***************************************************************************)
EXTENDS BlockAllocator, TLC

CONSTANTS t1, t2, t3, p1, p2, p3, p4

MCSizes == {200, 300}

Symmetry == Permutations({t1, t2, t3}) \cup Permutations({p1, p2, p3, p4})
=============================================================================
