---------------------------- MODULE ThreadBlock ----------------------------
(***************************************************************************)
(* What the kernels for one row share: a block of threads, in warps that   *)
(* run in lockstep between the shuffles of a warp reduction, and           *)
(* __syncthreads between the warps                                         *)
(* (csrc/include/cudaforge/engine/sampling.h,                              *)
(* csrc/kernels/cuda/fused_rmsnorm.cu).                                    *)
(*                                                                         *)
(* What a warp does between two barriers is one step.  stage[w] counts the *)
(* barriers that warp w has arrived at; it is past the last of them when   *)
(* every warp has arrived there.                                           *)
(***************************************************************************)
EXTENDS Integers

CONSTANT WarpSize  \* WARP_SIZE

ASSUME ThreadBlockAssumption == WarpSize \in Nat \ {0}

RoundedUp(n, d) == (n + d - 1) \div d

(* warp_id = tid / WARP_SIZE *)
WarpOf(tid) == tid \div WarpSize

(* The warps that the device runs for a block: the last may be short. *)
Warps(block) == 0..(RoundedUp(block, WarpSize) - 1)

(* The items of the loop "for (i = tid; i < n; i += blockDim.x)", for all  *)
(* threads of a warp together.                                             *)
ItemsOf(w, n, block) == {i \in 0..(n - 1) : WarpOf(i % block) = w}

(* (the first warp does not wait for the others) *)
FirstRunsAhead(stage, w) == w = 0 \/ \A v \in DOMAIN stage : stage[v] >= stage[w]

(* __syncthreads *)
Synced(stage, w) == \A v \in DOMAIN stage : stage[v] >= stage[w]

(* The slots of shared memory that the lanes of warp 0 fold after a        *)
(* barrier: tid < blockDim.x / WARP_SIZE.                                  *)
FoldedSlots(block) == {t \in 0..(WarpSize - 1) : t < block \div WarpSize}
=============================================================================
