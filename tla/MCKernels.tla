------------------------------ MODULE MCKernels ------------------------------
(***************************************************************************)
(* The work on the device: the metadata of a batch on its way there, the   *)
(* kernels for a row (sampling, normalisation, attention), the rotary      *)
(* embedding, the weights they are given and the calibration of scales.    *)
(* They share nothing: each runs with the others in their initial states.  *)
(*                                                                         *)
(* Staging: two sequences of one to three blocks of two tokens; a row has  *)
(* at most two blocks, so a sequence of three is too long.  Warps have two *)
(* threads, blocks two warps; tiles of attention have two keys.  The       *)
(* rotary embedding has tensors with gaps, more heads of queries than of   *)
(* keys and the reverse, and an odd head_dim; histograms have up to eight  *)
(* bins, merged into three.                                                *)
(***************************************************************************)
EXTENDS KVMetadataStaging, FusedSampling, FusedRMSNorm, FlashAttention,
        Int4Weights, RotaryEmbedding, HistogramCalibration, TLC

CONSTANTS s1, s2, stream1, stream2

MCPower == [x \in 0..4 |-> 2 ^ x]

MCTables ==
  {[blocks |-> <<7>>, filled |-> 1], [blocks |-> <<5, 6>>, filled |-> 2],
   [blocks |-> <<5, 6, 7>>, filled |-> 1]}

MCRows ==
  UNION {[0..(h - 1) -> {0, 1}] : h \in {1, 2, 3, 4}}
    \cup {[c \in 0..5 |-> c], [c \in 0..5 |-> c % 3]}
    \cup {[c \in 0..9 |-> c], [c \in 0..9 |-> c % 3]}

MCBatches == {<<>>, <<s1>>, <<s1, s2>>, <<s2, s1>>}

MCStrides(b, s, h) == [b |-> b, s |-> s, h |-> h, d |-> 1]

MCRopeLaunches ==
  {[batch |-> 2, seq_len |-> 2, head_dim |-> 2, heads |-> [q |-> 1, k |-> 1],
    strides |-> [q |-> MCStrides(4, 2, 2), k |-> MCStrides(5, 2, 2)]],
   [batch |-> 1, seq_len |-> 2, head_dim |-> 6, heads |-> [q |-> 2, k |-> 1],
    strides |-> [q |-> MCStrides(24, 12, 6), k |-> MCStrides(12, 6, 6)]],
   [batch |-> 1, seq_len |-> 2, head_dim |-> 7, heads |-> [q |-> 1, k |-> 2],
    strides |-> [q |-> MCStrides(14, 7, 7), k |-> MCStrides(28, 7, 14)]]}

MCHistograms ==
  {<<1>>, <<1, 1>>, <<9, 0, 5, 2, 0, 0, 3, 1>>} \cup [1..7 -> {0, 1}]

Symmetry == Permutations({stream1, stream2})

StagingAtRest == StagingInit /\ UNCHANGED stagingVars
SamplingAtRest == SamplingInit /\ UNCHANGED samplingVars
NormAtRest == NormInit /\ UNCHANGED normVars
AttnAtRest == AttnInit /\ UNCHANGED attnVars
WeightsAtRest == WeightsInit /\ UNCHANGED weightVars
RopeAtRest == RopeInit /\ UNCHANGED ropeVars
CalibrationAtRest == CalibrationInit /\ UNCHANGED calibrationVars

AllInit ==
  /\ StagingInit /\ SamplingInit /\ NormInit /\ AttnInit /\ WeightsInit
  /\ RopeInit /\ CalibrationInit

AllNext ==
  \/ /\ SamplingAtRest /\ NormAtRest /\ AttnAtRest /\ WeightsAtRest /\ RopeAtRest
     /\ CalibrationAtRest /\ StagingNext
  \/ /\ StagingAtRest /\ NormAtRest /\ AttnAtRest /\ WeightsAtRest /\ RopeAtRest
     /\ CalibrationAtRest /\ SamplingNext
  \/ /\ StagingAtRest /\ SamplingAtRest /\ AttnAtRest /\ WeightsAtRest /\ RopeAtRest
     /\ CalibrationAtRest /\ NormNext
  \/ /\ StagingAtRest /\ SamplingAtRest /\ NormAtRest /\ WeightsAtRest /\ RopeAtRest
     /\ CalibrationAtRest /\ AttnNext
  \/ /\ StagingAtRest /\ SamplingAtRest /\ NormAtRest /\ AttnAtRest /\ RopeAtRest
     /\ CalibrationAtRest /\ WeightsNext
  \/ /\ StagingAtRest /\ SamplingAtRest /\ NormAtRest /\ AttnAtRest /\ WeightsAtRest
     /\ CalibrationAtRest /\ RopeNext
  \/ /\ StagingAtRest /\ SamplingAtRest /\ NormAtRest /\ AttnAtRest /\ WeightsAtRest
     /\ RopeAtRest /\ CalibrationNext

AllSpec ==
  AllInit
    /\ [][AllNext]_<<stagingVars, samplingVars, normVars, attnVars, weightVars,
                    ropeVars, calibrationVars>>
=============================================================================
