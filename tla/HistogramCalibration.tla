------------------------ MODULE HistogramCalibration ------------------------
(***************************************************************************)
(* QuantizationCalibrator.compute_kl_divergence_scale                      *)
(* (cudaforge/quantization.py): a threshold for activations, from their    *)
(* histogram.  For every number i of bins kept, what lies above is added   *)
(* to the last one, the i bins are merged into target_bins, a bin on a     *)
(* border by shares, and expanded again.                                   *)
(*                                                                         *)
(* Shares are counted in parts of 1/target_bins, which is exact.  The      *)
(* divergence of the two distributions is any of Divergences; clipping to  *)
(* [1e-12, 1] and normalising before it are left out.                      *)
(***************************************************************************)
EXTENDS Integers, Sequences, SequencesExt, FiniteSetsExt

CONSTANTS
  Histograms,   \* sequences of counts; bin k of the code is entry k + 1
  target_bins,
  Divergences   \* values of kl_div

ASSUME CalibrationAssumption ==
  /\ target_bins \in Nat \ {0}
  /\ \A h \in Histograms : h \in Seq(Nat) /\ h # <<>>
  /\ Divergences \subseteq Nat

VARIABLES
  histogram,   \* counts by bin, from 0; <<>> before the call
  kept,        \* i, the number of bins kept
  merged,      \* quantized_bins of the last i, in 1/target_bins
  expanded,    \* its q: a merged bin and the number of bins it is spread over
  kl_divs,     \* history: kl_div by i
  best,        \* best_kl and the i of best_threshold
  done         \* whether best_threshold was returned

calibrationVars == <<histogram, kept, merged, expanded, kl_divs, best, done>>

Infinity == 1000000

(* best_threshold is edges[-1] until a better one is found, and then the   *)
(* middle of bin i. *)
LastEdge == -1

CalibrationInit ==
  /\ histogram = <<>> /\ kept = target_bins
  /\ merged = <<>> /\ expanded = <<>> /\ kl_divs = <<>>
  /\ best = [kl |-> Infinity, at |-> LastEdge] /\ done = FALSE

Total(h, bins) == FoldSet(LAMBDA k, sum : h[k] + sum, 0, bins)

(* The zero bin is emptied. *)
StartCalibration(h) ==
  /\ histogram = <<>>
  /\ histogram' = [k \in 0..(Len(h) - 1) |-> IF k = 0 THEN 0 ELSE h[k + 1]]
  /\ UNCHANGED <<kept, merged, expanded, kl_divs, best, done>>

-----------------------------------------------------------------------------
(* One threshold. *)
Above == {k \in DOMAIN histogram : k >= kept - 1}

reference_dist ==
  [k \in 0..(kept - 1) |->
     IF k = kept - 1 THEN Total(histogram, Above) ELSE histogram[k]]

(* Merged bin j covers start..end, here in 1/target_bins of a bin. *)
start(j) == j * kept
end(j) == (j + 1) * kept
start_idx(j) == start(j) \div target_bins
end_idx(j) == (end(j) + target_bins - 1) \div target_bins

Covered(j) == {k \in start_idx(j)..(end_idx(j) - 1) : k < kept}

(* (a bin on a border counts for both sides in full) *)
WholeBin(j, k) == target_bins

Share(j, k) ==
  target_bins
    - (IF k = start_idx(j) THEN start(j) - start_idx(j) * target_bins ELSE 0)
    - (IF k = end_idx(j) - 1 THEN end_idx(j) * target_bins - end(j) ELSE 0)

Merged(j) ==
  FoldSet(LAMBDA k, sum : reference_dist[k] * Share(j, k) + sum, 0, Covered(j))

Filled(j) == {k \in Covered(j) : reference_dist[k] > 0}

(* Later bins j overwrite what earlier ones wrote to a bin of both. *)
Expanded(k) ==
  LET writers == {j \in 0..(target_bins - 1) : k \in Filled(j)} IN
  IF writers = {} THEN [mass |-> 0, over |-> 1]
  ELSE [mass |-> Merged(Max(writers)), over |-> Cardinality(Filled(Max(writers)))]

TryThreshold(kl_div) ==
  /\ histogram # <<>> /\ ~done
  /\ Total(histogram, DOMAIN histogram) > 0 /\ kept < Cardinality(DOMAIN histogram)
  /\ merged' = [j \in 0..(target_bins - 1) |-> Merged(j)]
  /\ expanded' = [k \in 0..(kept - 1) |-> Expanded(k)]
  /\ kl_divs' = [i \in DOMAIN kl_divs \cup {kept} |-> IF i = kept THEN kl_div ELSE kl_divs[i]]
  /\ best' = IF kl_div < best.kl THEN [kl |-> kl_div, at |-> kept] ELSE best
  /\ kept' = kept + 1
  /\ UNCHANGED <<histogram, done>>

ReturnThreshold ==
  /\ histogram # <<>> /\ ~done
  /\ Total(histogram, DOMAIN histogram) > 0 => kept >= Cardinality(DOMAIN histogram)
  /\ done' = TRUE
  /\ UNCHANGED <<histogram, kept, merged, expanded, kl_divs, best>>

CalibrationNext ==
  \/ \E h \in Histograms : StartCalibration(h)
  \/ \E kl_div \in Divergences : TryThreshold(kl_div)
  \/ ReturnThreshold

CalibrationSpec == CalibrationInit /\ [][CalibrationNext]_calibrationVars

-----------------------------------------------------------------------------
CalibrationTypeOK ==
  /\ \A k \in DOMAIN histogram : histogram[k] \in Nat
  /\ kept >= target_bins /\ DOMAIN kl_divs = target_bins..(kept - 1)
  /\ best.at \in {LastEdge} \cup DOMAIN kl_divs /\ done \in BOOLEAN

(* compute_kl_divergence_scale compares the histogram with a "quantized/    *)
(* dequantized INT8 distribution" (quantization.py:84): whatever the ratio *)
(* of the numbers of bins, merging loses and doubles nothing, outliers and *)
(* bins on a border included, and expanding fills the bins that were       *)
(* filled and no other; the threshold returned is the first of the best,   *)
(* or the last edge if none was tried.                                     *)
MassKept ==
  /\ merged # <<>> =>
       Total(merged, DOMAIN merged) = target_bins * Total(histogram, DOMAIN histogram)
  /\ \A k \in DOMAIN expanded :
       expanded[k].mass > 0 <=>
         \E b \in DOMAIN histogram :
           histogram[b] > 0 /\ (b = k \/ (k = kept - 2 /\ b >= k))
  /\ done => IF DOMAIN kl_divs = {} THEN best.at = LastEdge
             ELSE /\ \A i \in DOMAIN kl_divs : kl_divs[i] >= kl_divs[best.at]
                  /\ \A i \in DOMAIN kl_divs : i < best.at => kl_divs[i] > kl_divs[best.at]
=============================================================================
