---------------------------- MODULE FusedRMSNorm ----------------------------
(***************************************************************************)
(* fused_rmsnorm_kernel and its launcher                                   *)
(* (csrc/kernels/cuda/fused_rmsnorm.cu): one block adds a row of the input *)
(* to the residual, in place, and puts the normalised row out.             *)
(*                                                                         *)
(* Elements are small integers.  A normalised element is the pair of the   *)
(* residual it was made from and the sum of squares it was divided by; the *)
(* weight, epsilon, the root and the rounding to half are not modelled.    *)
(***************************************************************************)
EXTENDS ThreadBlock, FiniteSets, FiniteSetsExt

CONSTANTS
  NormRows,      \* rows of input and residual: integers by column, from 0 on
  VecSize,   \* VEC_SIZE, the elements of one vector access
  MaxBlock   \* the block size of a long row, 256 in the code

ASSUME NormAssumption ==
  /\ {VecSize, MaxBlock} \subseteq Nat \ {0}
  /\ MaxBlock % WarpSize = 0 /\ MaxBlock \div WarpSize <= WarpSize
  /\ \A row \in NormRows :
       /\ IsFiniteSet(DOMAIN row)
       /\ row \in [0..(Cardinality(DOMAIN row) - 1) -> Int]

VARIABLES
  params,     \* hidden_dim, input and residual of the launch
  res_row,    \* the residual in device memory
  out_row,    \* the output
  norm_stage, \* barriers each warp has arrived at; 3 when it has returned
  norm_mem,   \* s_mem
  s_inv_rms   \* shared: the sum of squares it was computed from

normVars == <<params, res_row, out_row, norm_stage, norm_mem, s_inv_rms>>

NoParams == [hidden_dim |-> 0, input |-> <<>>, residual |-> <<>>]

NormInit ==
  /\ params = NoParams
  /\ res_row = <<>>
  /\ out_row = <<>>
  /\ norm_stage = <<>>
  /\ norm_mem = <<>>
  /\ s_inv_rms = 0

-----------------------------------------------------------------------------
(* (a block that is not rounded up to whole warps) *)
UnroundedBlock(hidden_dim) ==
  IF hidden_dim \div VecSize < MaxBlock
  THEN Max({WarpSize, hidden_dim \div VecSize})
  ELSE MaxBlock

(* One thread for each vector of a short row, in whole warps. *)
BlockFor(hidden_dim) ==
  IF hidden_dim \div VecSize < MaxBlock
  THEN Max({WarpSize, RoundedUp(hidden_dim \div VecSize, WarpSize) * WarpSize})
  ELSE MaxBlock

(* launch_fused_rmsnorm throws unless the row consists of whole vectors. *)
LaunchNorm(input, residual) ==
  LET hidden_dim == Cardinality(DOMAIN input)
      warps == Warps(BlockFor(hidden_dim))
  IN  /\ params = NoParams
      /\ DOMAIN input = DOMAIN residual /\ hidden_dim % VecSize = 0
      /\ params' = [hidden_dim |-> hidden_dim, input |-> input, residual |-> residual]
      /\ res_row' = residual
      /\ out_row' = [c \in DOMAIN input |-> <<>>]
      /\ norm_stage' = [w \in warps |-> 0]
      /\ norm_mem' = [w \in warps |-> 0]
      /\ s_inv_rms' = 0

Block == BlockFor(params.hidden_dim)

(* The elements of the vectors that the threads of a warp visit. *)
ColumnsOf(w) ==
  UNION {(i * VecSize)..(i * VecSize + VecSize - 1) :
           i \in ItemsOf(w, params.hidden_dim \div VecSize, Block)}

Past(w, s) == norm_stage' = [norm_stage EXCEPT ![w] = s]

(* Phase 1 and the reduction within the warp: each thread adds its vectors *)
(* in place and stores the squares of its warp in shared memory.           *)
AddResidual(w) ==
  LET sum(c) == params.input[c] + res_row[c]
  IN  /\ norm_stage[w] = 0
      /\ res_row' = [c \in DOMAIN res_row |->
                       IF c \in ColumnsOf(w) THEN sum(c) ELSE res_row[c]]
      /\ norm_mem' = [norm_mem EXCEPT ![w] =
           MapThenSumSet(LAMBDA c : sum(c) * sum(c), ColumnsOf(w))]
      /\ Past(w, 1)
      /\ UNCHANGED <<params, out_row, s_inv_rms>>

(* block_reduce_sum after its barrier, and the store of thread 0. *)
ReduceSquares(w) ==
  /\ norm_stage[w] = 1 /\ Synced(norm_stage, w)
  /\ s_inv_rms' =
       IF w = 0 THEN MapThenSumSet(LAMBDA t : norm_mem[t], FoldedSlots(Block))
                ELSE s_inv_rms
  /\ Past(w, 2)
  /\ UNCHANGED <<params, res_row, out_row, norm_mem>>

(* Phase 3 *)
Normalise(w) ==
  /\ norm_stage[w] = 2 /\ Synced(norm_stage, w)
  /\ out_row' = [c \in DOMAIN out_row |->
       IF c \in ColumnsOf(w) THEN <<res_row[c], s_inv_rms>> ELSE out_row[c]]
  /\ Past(w, 3)
  /\ UNCHANGED <<params, res_row, norm_mem, s_inv_rms>>

NormNext ==
  \/ \E input, residual \in NormRows : LaunchNorm(input, residual)
  \/ \E w \in DOMAIN norm_stage : AddResidual(w) \/ ReduceSquares(w) \/ Normalise(w)

NormSpec == NormInit /\ [][NormNext]_normVars

-----------------------------------------------------------------------------
NormTypeOK ==
  /\ params = NoParams \/ {params.input, params.residual} \subseteq NormRows
  /\ \A w \in DOMAIN norm_stage : norm_stage[w] \in 0..3
  /\ s_inv_rms \in Nat

(* When the block has returned, the residual is the sum of the two rows    *)
(* and every element of the output is normalised with the squares of the   *)
(* whole row: each element counts once, however the warps interleave and   *)
(* whichever block size the launcher takes.                                *)
RowNormalised ==
  LET added == [c \in DOMAIN params.input |-> params.input[c] + params.residual[c]]
      squares == MapThenSumSet(LAMBDA c : added[c] * added[c], DOMAIN added)
  IN  params # NoParams /\ (\A w \in DOMAIN norm_stage : norm_stage[w] = 3) =>
        /\ res_row = added
        /\ out_row = [c \in DOMAIN added |-> <<added[c], squares>>]
=============================================================================
