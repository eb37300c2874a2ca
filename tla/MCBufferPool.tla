---------------------------- MODULE MCBufferPool ----------------------------
(***************************************************************************)
(* Requests of 200 and 300 bytes use the buckets of 256 and 512; the limit *)
(* leaves room for three small buffers.                                    *)
(***************************************************************************)
EXTENDS BufferPool, TLC

CONSTANTS t1, t2, d1, p1, p2, p3

MCSizes == {200, 300}

Symmetry == Permutations({t1, t2}) \cup Permutations({p1, p2, p3})
=============================================================================
