---------------------------- MODULE Int4Weights ----------------------------
(***************************************************************************)
(* Quantised weights: calibration, conversion and packing of a row         *)
(* (cudaforge/quantization.py), and the unpacking of a column by           *)
(* _int4_dequant_gemm_kernel (csrc/kernels/triton/int4_dequant_triton.py). *)
(*                                                                         *)
(* The two do not meet in the code: pack_int4_gemm makes bytes of two      *)
(* signed levels along a row, the kernel reads words of eight unsigned     *)
(* levels along a column, packed by its caller as the test of the          *)
(* repository does (tests/unit/test_int4_dequant.py:6-15).                 *)
(*                                                                         *)
(* A weight is an integer; a scale is the exact quotient of the greatest   *)
(* absolute weight and qmax, kept as the former.  The products with the    *)
(* activations are left out: an element of B is known by its level and the *)
(* group whose scale multiplies it.                                        *)
(***************************************************************************)
EXTENDS Integers, Sequences, FiniteSetsExt

CONSTANTS
  Length,      \* weights in a row, K of a column; even
  MaxWeight,   \* bound on the absolute weight
  Levels,      \* unsigned levels of a column
  GroupSize,   \* GROUP_SIZE
  BlockK,      \* BLOCK_K
  WordLevels,  \* levels of one word, 8 in the code
  ZeroPoints   \* zero points of callers; the kernel ignores its argument

ASSUME WeightsAssumption ==
  /\ {Length, MaxWeight, GroupSize, BlockK, WordLevels} \subseteq Nat \ {0}
  /\ Length % 2 = 0
  /\ Levels \subseteq 0..15 /\ ZeroPoints \subseteq 0..15

VARIABLES
  format,    \* "none", "int8" or "int4" of a row, or "column"
  weights,   \* the row, or the levels of the column
  zero,      \* the zero point of the column
  max_val,   \* numerator of the scale of the row
  packed,    \* the packed tensor
  element,   \* per position, what comes back; NoElement until then
  k_block    \* the tile of K the kernel is at

weightVars == <<format, weights, zero, max_val, packed, element, k_block>>

Positions == 0..(Length - 1)
NoElement == <<>>

WeightsInit ==
  /\ format = "none"
  /\ weights = <<>>
  /\ zero = 0
  /\ max_val = 0
  /\ packed = <<>>
  /\ element = [p \in Positions |-> NoElement]
  /\ k_block = 0

-----------------------------------------------------------------------------
Bits(f) == IF f = "int8" THEN 8 ELSE 4

Qmax(f) == 2 ^ (Bits(f) - 1) - 1

Abs(n) == IF n < 0 THEN -n ELSE n

(* compute_minmax_scale: symmetric, one scale for the row. *)
Calibrate(f, row) ==
  /\ format = "none"
  /\ format' = f
  /\ weights' = row
  /\ max_val' = Max({Abs(row[p]) : p \in Positions})
  /\ UNCHANGED <<zero, packed, element, k_block>>

(* torch.round: to the nearest integer, ties to the even one. *)
Round(n, d) ==
  LET down == (2 * n + d) \div (2 * d)
  IN  IF (2 * n + d) % (2 * d) = 0 /\ down % 2 = 1 THEN down - 1 ELSE down

Clamped(n, low, high) == Min({Max({n, low}), high})

(* A row of zeros has the scale 1e-8, which makes its levels zero too. *)
Level(p) ==
  IF max_val = 0 THEN 0
  ELSE Clamped(Round(weights[p] * Qmax(format), max_val),
               -(2 ^ (Bits(format) - 1)), Qmax(format))

(* quantize_int8 *)
QuantizeInt8 ==
  /\ format = "int8" /\ packed = <<>>
  /\ packed' = [p \in Positions |-> Level(p)]
  /\ UNCHANGED <<format, weights, zero, max_val, element, k_block>>

DequantizeInt8 ==
  /\ format = "int8" /\ packed # <<>> /\ element[0] = NoElement
  /\ element' = [p \in Positions |-> <<packed[p], 0>>]
  /\ UNCHANGED <<format, weights, zero, max_val, packed, k_block>>

(* pack_int4_gemm: levels are moved to 0..15, even positions are the low   *)
(* halves of the bytes.                                                    *)
PackInt4 ==
  /\ format = "int4" /\ packed = <<>>
  /\ packed' = [b \in 0..(Length \div 2 - 1) |->
                  ((Level(2 * b) + 8) % 16) + 16 * ((Level(2 * b + 1) + 8) % 16)]
  /\ UNCHANGED <<format, weights, zero, max_val, element, k_block>>

UnpackInt4 ==
  /\ format = "int4" /\ packed # <<>> /\ element[0] = NoElement
  /\ element' = [p \in Positions |->
       <<(IF p % 2 = 0 THEN packed[p \div 2] % 16
                       ELSE (packed[p \div 2] \div 16) % 16) - 8, 0>>]
  /\ UNCHANGED <<format, weights, zero, max_val, packed, k_block>>

-----------------------------------------------------------------------------
(* A column in the layout of B_quant, with scales by group: the caller's.  *)
Column(levels, z) ==
  /\ format = "none"
  /\ format' = "column"
  /\ weights' = levels
  /\ zero' = z
  /\ packed' = [j \in 0..((Length - 1) \div WordLevels) |->
       MapThenSumSet(
         LAMBDA i : IF j * WordLevels + i \in Positions
                    THEN levels[j * WordLevels + i] * 16 ^ i ELSE 0,
         0..(WordLevels - 1))]
  /\ UNCHANGED <<max_val, element, k_block>>

(* (the shift counts from the other end of the word) *)
NibbleFromTop(word, k) == (word \div 16 ^ (WordLevels - 1 - (k % WordLevels))) % 16

Nibble(word, k) == (word \div 16 ^ (k % WordLevels)) % 16

(* One iteration over K: every element of the tile is multiplied by the    *)
(* scale of the group that the tile begins in.                             *)
DequantTile ==
  /\ format = "column" /\ k_block * BlockK < Length
  /\ element' = [p \in Positions |->
       IF p \div BlockK = k_block
       THEN <<Nibble(packed[p \div WordLevels], p), (k_block * BlockK) \div GroupSize>>
       ELSE element[p]]
  /\ k_block' = k_block + 1
  /\ UNCHANGED <<format, weights, zero, max_val, packed>>

WeightsNext ==
  \/ \E f \in {"int8", "int4"}, row \in [Positions -> (-MaxWeight)..MaxWeight] :
       Calibrate(f, row)
  \/ QuantizeInt8 \/ DequantizeInt8
  \/ PackInt4 \/ UnpackInt4
  \/ \E levels \in [Positions -> Levels], z \in ZeroPoints : Column(levels, z)
  \/ DequantTile

WeightsSpec == WeightsInit /\ [][WeightsNext]_weightVars

-----------------------------------------------------------------------------
WeightsTypeOK ==
  /\ format \in {"none", "int8", "int4", "column"}
  /\ zero \in ZeroPoints \cup {0} /\ max_val \in 0..MaxWeight
  /\ \A p \in Positions : element[p] = NoElement \/ Len(element[p]) = 2

(* A row comes back within half a step of its scale, the packing included: *)
(* rounding is the only loss, nothing is clamped away and no two weights   *)
(* change places.  A column comes back level by level, less the zero       *)
(* point, each with the scale of its own group.                            *)
WeightsRecovered ==
  \A p \in Positions : element[p] # NoElement =>
    IF format = "column"
    THEN element[p] = <<weights[p] - zero, p \div GroupSize>>
    ELSE 2 * Abs(element[p][1] * max_val - weights[p] * Qmax(format)) <= max_val
=============================================================================
