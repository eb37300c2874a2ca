--------------------------- MODULE TargetDecoding ---------------------------
(***************************************************************************)
(* What speculative decoding promises: the text grows by one token at a    *)
(* time, each one a token that the target model could have generated after *)
(* the text so far, until the end of sequence token.                       *)
(*                                                                         *)
(* A model maps the last token of the text to the weights of the next one: *)
(* probabilities in units of one over the sum of the weights.              *)
(***************************************************************************)
EXTENDS Naturals, Sequences, SequencesExt

CONSTANTS
  VocabSize,  \* vocab_size; tokens are its indices
  Eos,        \* eos_token_id
  Models,     \* the models a run picks the target from
  Prompt      \* the last token of the prompt

Tokens == 0..(VocabSize - 1)
Weights == [Tokens -> Nat]

ASSUME DecodingAssumption ==
  /\ VocabSize \in Nat \ {0} /\ Eos \in Tokens
  /\ Models \subseteq [Tokens -> Weights]
  /\ \A m \in Models, t \in Tokens : \E u \in Tokens : m[t][u] > 0
  /\ Prompt \in Tokens \ {Eos}

VARIABLES
  target,  \* the model
  greedy,  \* whether decoding takes the token of highest probability
  text

(* std::max_element: the first of the largest. *)
Argmax(w) ==
  CHOOSE t \in Tokens :
    \A u \in Tokens : w[u] <= w[t] /\ (w[u] = w[t] => t <= u)

Support(w) == {t \in Tokens : w[t] > 0}

Allowed(w) == IF greedy THEN {Argmax(w)} ELSE Support(w)

DecodingInit == target \in Models /\ greedy \in BOOLEAN /\ text = <<Prompt>>

Decode ==
  /\ Last(text) # Eos
  /\ \E t \in Allowed(target[Last(text)]) : text' = Append(text, t)
  /\ UNCHANGED <<target, greedy>>

DecodingSpec == DecodingInit /\ [][Decode]_<<target, greedy, text>>
=============================================================================
