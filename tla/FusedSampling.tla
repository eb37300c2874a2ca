--------------------------- MODULE FusedSampling ---------------------------
(***************************************************************************)
(* fused_sampling_kernel and its launcher                                  *)
(* (csrc/include/cudaforge/engine/sampling.h): one block samples the token *)
(* of one row of logits.  Two reductions go through the same shared        *)
(* memory, first the maximum, then the sum of the exponentials.            *)
(*                                                                         *)
(* Logits are small integers, already scaled by the temperature.  expf is  *)
(* taken times Power[MaxLogit], and curand_uniform is draw / DrawSteps,    *)
(* draw in 1..DrawSteps (its interval is open at 0), so the comparison     *)
(* with the cumulated probability is exact.  Rows do not interact.         *)
(***************************************************************************)
EXTENDS ThreadBlock, Exponential, FiniteSets, FiniteSetsExt

CONSTANTS
  BlockDim,   \* block_size of the launcher, a multiple of WarpSize
  vocab_size,
  MaxLogit,   \* logits are 0..MaxLogit
  DrawSteps,  \* draws are 1..DrawSteps
  TopKs       \* values of top_k, which the kernel takes and does not use

ASSUME SamplingAssumption ==
  /\ {BlockDim, vocab_size, MaxLogit, DrawSteps} \subseteq Nat \ {0}
  /\ 2 * MaxLogit <= MaxExponent
  /\ TopKs \subseteq 1..vocab_size
  /\ BlockDim % WarpSize = 0 /\ BlockDim \div WarpSize <= WarpSize

VARIABLES
  launch,      \* the row: logits, whether the temperature is 0, draw, top_k
  stage,       \* barriers each warp has arrived at; 5 when it has returned
  s_mem,       \* shared memory by index, also beyond what the launcher asks for
  s_max_val,   \* shared
  s_sum_val,   \* shared
  max_logit,   \* register: s_max_val as each warp has read it
  output_token

samplingVars ==
  <<launch, stage, s_mem, s_max_val, s_sum_val, max_logit, output_token>>

Vocab == 0..(vocab_size - 1)
Threads == 0..(BlockDim - 1)
BlockWarps == Warps(BlockDim)
Unwritten == 0
NoToken == -1
Lowest == -1  \* -FLT_MAX

NoLaunch == [logits |-> [i \in Vocab |-> 0], greedy |-> FALSE, draw |-> 0, top_k |-> 1]

SamplingInit ==
  /\ launch = NoLaunch
  /\ stage = [w \in BlockWarps |-> 5]
  /\ s_mem = [t \in Threads |-> Unwritten]
  /\ s_max_val = Unwritten
  /\ s_sum_val = Unwritten
  /\ max_logit = [w \in BlockWarps |-> Unwritten]
  /\ output_token = NoToken

-----------------------------------------------------------------------------
(* launch_fused_sampling *)
LaunchSampling(logits, greedy, draw, top_k) ==
  /\ launch = NoLaunch /\ output_token = NoToken
  /\ launch' = [logits |-> logits, greedy |-> greedy, draw |-> draw, top_k |-> top_k]
  /\ stage' = [w \in BlockWarps |-> 0]
  /\ UNCHANGED <<s_mem, s_max_val, s_sum_val, max_logit, output_token>>

Logits(w) == {launch.logits[i] : i \in ItemsOf(w, vocab_size, BlockDim)}

Arrive(w, s) == stage' = [stage EXCEPT ![w] = s]

(* Step 1: the maximum of a warp, into its slot. *)
FindMax(w) ==
  /\ stage[w] = 0
  /\ s_mem' = [s_mem EXCEPT ![w] = Max(Logits(w) \cup {Lowest})]
  /\ Arrive(w, 1)
  /\ UNCHANGED <<launch, s_max_val, s_sum_val, max_logit, output_token>>

(* Warp 0 folds the slots; thread 0 stores the result for all. *)
ReduceMax(w) ==
  /\ stage[w] = 1 /\ Synced(stage, w)
  /\ s_max_val' = IF w = 0 THEN Max({s_mem[t] : t \in FoldedSlots(BlockDim)})
                           ELSE s_max_val
  /\ Arrive(w, 2)
  /\ UNCHANGED <<launch, s_mem, s_sum_val, max_logit, output_token>>

(* The greedy branch stores the best logit of every thread, at the index   *)
(* of the thread.                                                          *)
StoreBest(w) ==
  /\ stage[w] = 2 /\ Synced(stage, w) /\ launch.greedy
  /\ s_mem' = [t \in Threads |->
       IF WarpOf(t) # w THEN s_mem[t]
       ELSE Max({launch.logits[i] : i \in {j \in Vocab : j % BlockDim = t}}
                  \cup {Lowest})]
  /\ max_logit' = [max_logit EXCEPT ![w] = s_max_val]
  /\ Arrive(w, 3)
  /\ UNCHANGED <<launch, s_max_val, s_sum_val, output_token>>

(* Thread 0 then scans the row itself and keeps the first of equal logits. *)
PickBest(w) ==
  /\ stage[w] = 3 /\ Synced(stage, w) /\ launch.greedy
  /\ output_token' =
       IF w # 0 THEN output_token
       ELSE Min({i \in Vocab : \A j \in Vocab : launch.logits[j] <= launch.logits[i]})
  /\ Arrive(w, 5)
  /\ UNCHANGED <<launch, s_mem, s_max_val, s_sum_val, max_logit>>

Exp(x) == Power[x + MaxLogit]

(* Step 2: the sum of the exponentials of a warp, into the same slots. *)
SumExp(w) ==
  /\ stage[w] = 2 /\ Synced(stage, w) /\ ~launch.greedy
  /\ max_logit' = [max_logit EXCEPT ![w] = s_max_val]
  /\ s_mem' = [s_mem EXCEPT ![w] =
       MapThenSumSet(LAMBDA i : Exp(launch.logits[i] - s_max_val),
                     ItemsOf(w, vocab_size, BlockDim))]
  /\ Arrive(w, 3)
  /\ UNCHANGED <<launch, s_max_val, s_sum_val, output_token>>

ReduceSum(w) ==
  /\ stage[w] = 3 /\ Synced(stage, w) /\ ~launch.greedy
  /\ s_sum_val' =
       IF w = 0 THEN MapThenSumSet(LAMBDA t : s_mem[t], FoldedSlots(BlockDim))
                ELSE s_sum_val
  /\ Arrive(w, 4)
  /\ UNCHANGED <<launch, s_mem, s_max_val, max_logit, output_token>>

(* Step 3: thread 0 takes the first token whose cumulated probability      *)
(* reaches the draw, the last token if none does.                          *)
Cdf(i) == MapThenSumSet(LAMBDA j : Exp(launch.logits[j] - max_logit[0]), 0..i)

Drawn(sum) ==
  LET reached == {i \in Vocab : launch.draw * sum <= DrawSteps * Cdf(i)}
  IN  IF reached = {} THEN vocab_size - 1 ELSE Min(reached)

Select(w) ==
  /\ stage[w] = 4 /\ Synced(stage, w)
  /\ output_token' = IF w = 0 THEN Drawn(s_sum_val) ELSE output_token
  /\ Arrive(w, 5)
  /\ UNCHANGED <<launch, s_mem, s_max_val, s_sum_val, max_logit>>

SamplingNext ==
  \/ \E logits \in [Vocab -> 0..MaxLogit], greedy \in BOOLEAN,
        draw \in 1..DrawSteps, top_k \in TopKs : LaunchSampling(logits, greedy, draw, top_k)
  \/ \E w \in BlockWarps :
       \/ FindMax(w) \/ ReduceMax(w)
       \/ StoreBest(w) \/ PickBest(w)
       \/ SumExp(w) \/ ReduceSum(w) \/ Select(w)

SamplingSpec == SamplingInit /\ [][SamplingNext]_samplingVars

-----------------------------------------------------------------------------
SamplingTypeOK ==
  /\ stage \in [BlockWarps -> 0..5]
  /\ s_max_val \in Lowest..MaxLogit
  /\ output_token \in Vocab \cup {NoToken}

Launched == launch # NoLaunch
Returned == \A w \in BlockWarps : stage[w] = 5

(* What the row asks for, computed without a maximum and without shared    *)
(* memory: the first token of the greatest logit, or the token whose share *)
(* of the probability holds the draw.                                      *)
Exponentials(tokens) == MapThenSumSet(LAMBDA i : Power[launch.logits[i]], tokens)

Wanted ==
  IF launch.greedy
  THEN CHOOSE i \in Vocab :
         /\ \A j \in Vocab : launch.logits[j] <= launch.logits[i]
         /\ \A j \in 0..(i - 1) : launch.logits[j] < launch.logits[i]
  ELSE CHOOSE i \in Vocab :
         /\ launch.draw * Exponentials(Vocab) <= DrawSteps * Exponentials(0..i)
         /\ launch.draw * Exponentials(Vocab) > DrawSteps * Exponentials(0..(i - 1))

(* The block samples the token that the probabilities of the row give to   *)
(* its draw ("Softmax Multinomial Sampling"), however its warps interleave *)
(* on the shared memory that the two reductions use in turn.               *)
SampledAsDrawn == Launched /\ Returned => output_token = Wanted

(* "Fused Temperature + Top-K + Top-P + Softmax Multinomial Sampling":     *)
(* the token is one of the top_k.                                          *)
SampledWithinTopK ==
  Launched /\ Returned =>
    Cardinality({j \in Vocab : launch.logits[j] > launch.logits[output_token]})
      < launch.top_k

(* The launcher asks for shared_mem_bytes of shared memory, one float for  *)
(* each warp; nothing is stored beyond.                                    *)
SharedStoresFit ==
  \A t \in Threads : t >= BlockDim \div WarpSize => s_mem[t] = Unwritten
=============================================================================
