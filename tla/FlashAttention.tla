--------------------------- MODULE FlashAttention ---------------------------
(***************************************************************************)
(* Attention with online softmax, for one row of queries:                  *)
(* flash_attn_v2_ampere_kernel (csrc/kernels/cuda/flash_attn_v2.cu) and    *)
(* _flash_attn_v2_fwd_kernel (csrc/kernels/triton/flash_attn_triton.py).   *)
(* Both go over the keys in tiles and correct the maximum, the denominator *)
(* and the accumulator that they carry along.                              *)
(*                                                                         *)
(* Scores are small integers and expf is taken times Power[MaxScore], so   *)
(* every rescaling is exact.  The accumulator is the weight that each      *)
(* value vector has in it; the CUDA kernel divides it by the denominator   *)
(* after every tile and undoes this in the next one, which is left out     *)
(* here.  Tiles of queries and of keys have the same size.                 *)
(*                                                                         *)
(* The rows of the CUDA kernel's shared memory that a partial tile leaves  *)
(* alone hold what was there before.  Its load loop runs over 16 times the *)
(* rows of a tile: in a sequence longer than a tile, rows of K land in the *)
(* tile of V, unordered with the rows of V itself (and others beyond the   *)
(* shared memory of the block, which is not modelled).                     *)
(***************************************************************************)
EXTENDS Exponential, FiniteSets, FiniteSetsExt

CONSTANTS
  Tile,         \* BLOCK_M and BLOCK_N
  MaxLen,       \* bound on seq_len
  MaxScore,     \* scores are 0..MaxScore
  MaskedScores, \* whether launches may leave keys of a tile out of a row
  StrayRows     \* whether rows of K that the CUDA load loop copies beyond
                \* their tile may land in the tile of V

ASSUME AttentionAssumption ==
  /\ {Tile, MaxLen, MaxScore} \subseteq Nat \ {0} /\ 2 * MaxScore <= MaxExponent
  /\ {MaskedScores, StrayRows} \subseteq BOOLEAN

VARIABLES
  attn,     \* the launch: kernel, seq_len, is_causal, row, scores of the row
  k_tile,   \* the tile that is next
  smem_v,   \* which vector each row of the tile of V in shared memory is
  m_prev,   \* running maximum; NoScore for -1e20 and -inf
  l_prev,   \* running denominator
  o_acc,    \* weight of each vector in the accumulator
  written   \* which columns of the row have been stored, modulo 4

attnVars == <<attn, k_tile, smem_v, m_prev, l_prev, o_acc, written>>

Keys == 0..(MaxLen - 1)
Stray == MaxLen    \* a vector that is no row of V: zeros, rows of K, leftovers
Vectors == Keys \cup {Stray}
TileRows == 0..(Tile - 1)
NoScore == -1

NoAttention == [kernel |-> "cuda", seq_len |-> 0, is_causal |-> FALSE, row |-> 0,
                scores |-> <<>>]

AttnInit ==
  /\ attn = NoAttention
  /\ k_tile = 0
  /\ smem_v = [n \in TileRows |-> Stray]
  /\ m_prev = NoScore
  /\ l_prev = 0
  /\ o_acc = [v \in Vectors |-> 0]
  /\ written = {}

-----------------------------------------------------------------------------
TilesFor(n) == (n + Tile - 1) \div Tile

(* Without MaskedScores, launches that the kernels get wrong are left out: *)
(* a key that is masked by its position, or missing from a partial tile,   *)
(* has the score 0 instead of none.  The Triton kernel does mask by        *)
(* position.                                                               *)
Supported(kernel, seq_len, causal, row) ==
  \/ MaskedScores
  \/ seq_len % Tile = 0 /\ (causal => row % Tile = Tile - 1)
  \/ kernel = "triton" /\ causal

LaunchAttention(kernel, seq_len, causal, row, scores) ==
  /\ attn = NoAttention
  /\ Supported(kernel, seq_len, causal, row)
  /\ attn' = [kernel |-> kernel, seq_len |-> seq_len, is_causal |-> causal,
              row |-> row, scores |-> scores]
  /\ UNCHANGED <<k_tile, smem_v, m_prev, l_prev, o_acc, written>>

(* launch_flash_attn_v2 *)
LaunchCuda(seq_len, causal, row, scores) ==
  LaunchAttention("cuda", seq_len, causal, row, scores)

(* flash_attn_triton *)
LaunchTriton(seq_len, causal, row, scores) ==
  LaunchAttention("triton", seq_len, causal, row, scores)

Position(n) == k_tile * Tile + n

(* max_k_tiles: a causal row needs no tile beyond that of its own query. *)
MaxKTiles ==
  IF attn.is_causal
  THEN Min({(attn.row \div Tile) + 1, TilesFor(attn.seq_len)})
  ELSE TilesFor(attn.seq_len)

Looping == attn # NoAttention /\ k_tile < MaxKTiles

Behind(n) == attn.is_causal /\ Position(n) > attn.row

(* What a row of the tile of V may hold after the load of the CUDA kernel. *)
LoadedByCuda(n) ==
  (IF Position(n) < attn.seq_len THEN {Position(n)} ELSE {smem_v[n]})
    \cup (IF StrayRows /\ Position(n) + Tile < attn.seq_len THEN {Stray} ELSE {})

(* s_scores after step 3; what the loop skips keeps its initial 0. *)
CudaScore(n) ==
  IF Position(n) >= attn.seq_len \/ Behind(n) THEN 0 ELSE attn.scores[Position(n)]

(* s_max, over the keys that the loop does not skip *)
CudaMax ==
  Max({NoScore} \cup {attn.scores[Position(n)] :
        n \in {i \in TileRows : Position(i) < attn.seq_len /\ ~Behind(i)}})

(* Padding has the score 0, as its row of K is loaded as zeros; a key      *)
(* behind the query has none.                                              *)
TritonScore(n) ==
  IF Behind(n) THEN NoScore
  ELSE IF Position(n) < attn.seq_len THEN attn.scores[Position(n)] ELSE 0

TritonMax == Max({TritonScore(n) : n \in TileRows})

LoadedByTriton(n) == IF Position(n) < attn.seq_len THEN Position(n) ELSE Stray

-----------------------------------------------------------------------------
(* expf(score - m_curr) *)
Weight(score, m) == IF score = NoScore THEN 0 ELSE Power[score - m + MaxScore]

(* (the accumulator keeps the scale of the previous maximum) *)
NotRescaled(x, m) == x

(* x * alpha, alpha = expf(m_prev - m_curr) *)
Rescaled(x, m) == IF m_prev = NoScore THEN 0 ELSE x \div Power[m - m_prev]

(* The online update with the scores of a tile and the vectors they weigh. *)
Update(score, vector, tile_max) ==
  LET m == Max({m_prev, tile_max})
      added(v) == MapThenSumSet(LAMBDA n : Weight(score[n], m),
                                {n \in TileRows : vector[n] = v})
  IN  /\ m_prev' = m
      /\ l_prev' = Rescaled(l_prev, m)
           + MapThenSumSet(LAMBDA n : Weight(score[n], m), TileRows)
      /\ o_acc' = [v \in Vectors |-> Rescaled(o_acc[v], m) + added(v)]
      /\ k_tile' = k_tile + 1

(* Steps 2 to 5 of the CUDA kernel, between two barriers. *)
CudaTile ==
  /\ Looping /\ attn.kernel = "cuda"
  /\ \E loaded \in [TileRows -> Vectors] :
       /\ \A n \in TileRows : loaded[n] \in LoadedByCuda(n)
       /\ smem_v' = loaded
       /\ Update([n \in TileRows |-> CudaScore(n)], loaded, CudaMax)
  /\ UNCHANGED <<attn, written>>

TritonTile ==
  /\ Looping /\ attn.kernel = "triton"
  /\ Update([n \in TileRows |-> TritonScore(n)],
            [n \in TileRows |-> LoadedByTriton(n)], TritonMax)
  /\ UNCHANGED <<attn, smem_v, written>>

Store(columns) ==
  /\ ~Looping /\ written = {}
  /\ written' = columns
  /\ UNCHANGED <<attn, k_tile, smem_v, m_prev, l_prev, o_acc>>

(* A thread of the CUDA kernel has every fourth column of its row, and     *)
(* only the first BLOCK_M threads, one for each row, store theirs.         *)
CudaStore ==
  /\ attn # NoAttention /\ attn.kernel = "cuda"
  /\ Store({attn.row % 4})

TritonStore ==
  /\ attn # NoAttention /\ attn.kernel = "triton"
  /\ Store(0..3)

AttnNext ==
  \/ \E seq_len \in 1..MaxLen, causal \in BOOLEAN :
       \E row \in 0..(seq_len - 1), scores \in [0..(seq_len - 1) -> 0..MaxScore] :
         \/ LaunchCuda(seq_len, causal, row, scores)
         \/ LaunchTriton(seq_len, causal, row, scores)
  \/ CudaTile \/ CudaStore
  \/ TritonTile \/ TritonStore

AttnSpec == AttnInit /\ [][AttnNext]_attnVars

-----------------------------------------------------------------------------
AttnTypeOK ==
  /\ k_tile \in 0..TilesFor(MaxLen)
  /\ smem_v \in [TileRows -> Vectors]
  /\ m_prev \in NoScore..MaxScore
  /\ l_prev \in Nat /\ o_acc \in [Vectors -> Nat]

(* The keys that the query may attend to *)
Visible(n) == n < attn.seq_len /\ (attn.is_causal => n <= attn.row)

(* The stored row is the softmax over the visible keys, computed at once:  *)
(* each value vector weighs its share of the exponentials and nothing else *)
(* weighs anything, in whichever order the maxima of the tiles come.       *)
RowIsSoftmax ==
  LET exponential(n) == IF Visible(n) THEN Power[attn.scores[n]] ELSE 0
      total == MapThenSumSet(exponential, Keys)
  IN  written # {} =>
        /\ l_prev > 0 /\ o_acc[Stray] = 0
        /\ \A n \in Keys : o_acc[n] * total = exponential(n) * l_prev

(* All columns of the row are stored ("O", flash_attn_v2.h). *)
WholeRowStored == written \in {{}, 0..3}
=============================================================================
