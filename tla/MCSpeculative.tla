---------------------------- MODULE MCSpeculative ----------------------------
(***************************************************************************)
(* The two implementations of speculative decoding, the one of the C++     *)
(* scheduler and the one in Python.  They share nothing: one runs while    *)
(* the other is at rest, in one of its initial states.                     *)
(*                                                                         *)
(* Three tokens, 0 ends the sequence, and all models that give probability *)
(* 0, 1/2 or 1 after the tokens 1 and 2, with one choice of what follows   *)
(* the token 0.  A batch has two rows.                                     *)
(***************************************************************************)
EXTENDS SpeculativeVerification, SpeculativeStep

Halves == {w \in [Tokens -> 0..2] : Cumulative(w, VocabSize - 1) = 2}

AllModels(after0) ==
  {[t \in Tokens |-> IF t = 0 THEN after0 ELSE m[t]] : m \in [1..2 -> Halves]}

MCModels == AllModels([t \in Tokens |-> IF t = 1 THEN 2 ELSE 0])
MCRunners == AllModels([t \in Tokens |-> IF t = 2 THEN 0 ELSE 1])

(* Draws of the generator, its zero left out. *)
MCDraws == 1..D

ModelAtRest == CHOOSE m \in Models : TRUE
RunnerAtRest == CHOOSE m \in Runners : TRUE

VerificationAtRest ==
  /\ target = ModelAtRest /\ draft = ModelAtRest /\ greedy = FALSE
  /\ text = <<Prompt>> /\ phase = "idle"

StepAtRest ==
  /\ target_runner = RunnerAtRest /\ draft_runner = RunnerAtRest
  /\ step_phase = "draft" /\ total_draft_tokens = 0
  /\ draft_tokens_list = [b \in Rows |-> <<>>]

BothInit ==
  \/ StepAtRest /\ StepInit /\ Init
  \/ VerificationAtRest /\ Init /\ StepInit

BothNext ==
  \/ StepAtRest /\ Next /\ UNCHANGED stepVars
  \/ VerificationAtRest /\ StepNext /\ UNCHANGED vars

BothSpec == BothInit /\ [][BothNext]_<<vars, stepVars>>
=============================================================================
