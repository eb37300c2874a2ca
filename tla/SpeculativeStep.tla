--------------------------- MODULE SpeculativeStep ---------------------------
(***************************************************************************)
(* SpeculativeEngine.step of cudaforge/speculative.py: k tokens drafted    *)
(* for every row of a batch, one pass of the target model, and a loop that *)
(* accepts position i for all rows or rejects it for all rows.  Every      *)
(* iteration is one step; the caller appends what step() returns.          *)
(*                                                                         *)
(* A model maps the last token of a row to the weights of the next one.    *)
(* What matters of a draw is what it can choose: the sampled token is any  *)
(* one of positive weight.                                                 *)
(***************************************************************************)
EXTENDS Naturals, Sequences, SequencesExt

CONSTANTS
  Rows,        \* rows of the batch
  Vocabulary,  \* tokens
  Runners,     \* the models a run picks target and draft from
  FirstToken,  \* the last token of every prompt
  k,           \* num_speculative_tokens
  MaxSteps     \* bound: steps of a run

ASSUME StepAssumption ==
  /\ Rows # {} /\ FirstToken \in Vocabulary
  /\ Runners \subseteq [Vocabulary -> [Vocabulary -> Nat]]
  /\ k \in Nat \ {0} /\ MaxSteps \in Nat

VARIABLES
  target_runner, draft_runner,  \* the two models
  input_ids,
  step_phase,                   \* "draft", "verify", "bonus" or "return"
  draft_tokens_list,            \* row by row
  accepted_tokens_list,         \* row by row
  num_accepted,
  rejected,                     \* whether the loop has ended by break
  total_draft_tokens,
  total_accepted_tokens

models == <<target_runner, draft_runner>>
totals == <<total_draft_tokens, total_accepted_tokens>>
stepVars == <<models, input_ids, step_phase, draft_tokens_list,
              accepted_tokens_list, num_accepted, rejected, totals>>

StepInit ==
  /\ target_runner \in Runners /\ draft_runner \in Runners
  /\ input_ids = [b \in Rows |-> <<FirstToken>>]
  /\ step_phase = "draft"
  /\ draft_tokens_list = [b \in Rows |-> <<>>]
  /\ accepted_tokens_list = [b \in Rows |-> <<>>]
  /\ num_accepted = 0 /\ rejected = FALSE
  /\ total_draft_tokens = 0 /\ total_accepted_tokens = 0

-----------------------------------------------------------------------------
Positive(w) == {t \in DOMAIN w : w[t] > 0}

(* The rows of a matrix of tokens, where row b has one of choices[b]. *)
EachFrom(choices) ==
  {c \in [Rows -> Vocabulary] : \A b \in Rows : c[b] \in choices[b]}

(* The last token of row b before the candidate of this iteration. *)
BeforeCandidate(b) ==
  IF num_accepted = 0 THEN Last(input_ids[b])
                      ELSE draft_tokens_list[b][num_accepted]

(* Phase 1, one forward pass of the draft model. *)
DraftToken ==
  /\ step_phase = "draft" /\ total_draft_tokens < k * MaxSteps
  /\ \E c \in EachFrom([b \in Rows |->
          Positive(draft_runner[Last(input_ids[b] \o draft_tokens_list[b])])]) :
       draft_tokens_list' = [b \in Rows |-> Append(draft_tokens_list[b], c[b])]
  /\ step_phase' = IF \A b \in Rows : Len(draft_tokens_list'[b]) = k
                   THEN "verify" ELSE "draft"
  /\ UNCHANGED <<models, input_ids, accepted_tokens_list, num_accepted,
                 rejected, totals>>

(* Phase 3.  A draw can accept a row when its candidate has any weight in  *)
(* the target, and reject it when it has no more there than in the draft.  *)
CanAccept(b) ==
  LET c == draft_tokens_list[b][num_accepted + 1]
  IN  target_runner[BeforeCandidate(b)][c] > 0

CanReject(b) ==
  LET c == draft_tokens_list[b][num_accepted + 1]
  IN  target_runner[BeforeCandidate(b)][c] <= draft_runner[BeforeCandidate(b)][c]

Put(c) ==
  /\ accepted_tokens_list' = [b \in Rows |-> Append(accepted_tokens_list[b], c[b])]
  /\ num_accepted' = num_accepted + 1

(* (one row that accepts is enough) *)
AnyRow == \E b \in Rows : CanAccept(b)

AllRows == \A b \in Rows : CanAccept(b)

AcceptCandidate ==
  /\ step_phase = "verify" /\ AllRows
  /\ Put([b \in Rows |-> draft_tokens_list[b][num_accepted + 1]])
  /\ step_phase' = IF num_accepted' = k THEN "bonus" ELSE "verify"
  /\ UNCHANGED <<models, input_ids, draft_tokens_list, rejected, totals>>

(* clamp(target - draft, min = 0), or the target where that is nothing     *)
Modified(p, q) ==
  LET more == {t \in Vocabulary : p[t] > q[t]}
  IN  IF more = {} THEN Positive(p) ELSE more

(* One row rejects, and all rows get a replacement.  The loop breaks; what *)
(* follows looks at num_accepted alone.                                    *)
RejectCandidate ==
  /\ step_phase = "verify" /\ \E b \in Rows : CanReject(b)
  /\ \E c \in EachFrom([b \in Rows |->
                Modified(target_runner[BeforeCandidate(b)],
                         draft_runner[BeforeCandidate(b)])]) :
       Put(c)
  /\ rejected' = TRUE
  /\ step_phase' = IF num_accepted' = k THEN "bonus" ELSE "return"
  /\ UNCHANGED <<models, input_ids, draft_tokens_list, totals>>

(* num_accepted = k: one more, from the logits after the last candidate;   *)
(* top-p leaves any of the tokens of positive weight, and at least one.    *)
SampleBonus ==
  /\ step_phase = "bonus"
  /\ \E c \in EachFrom([b \in Rows |->
          Positive(target_runner[draft_tokens_list[b][k]])]) : Put(c)
  /\ step_phase' = "return"
  /\ UNCHANGED <<models, input_ids, draft_tokens_list, rejected, totals>>

(* The totals, and the result, which the caller appends to input_ids. *)
Finish ==
  /\ step_phase = "return"
  /\ total_draft_tokens' = total_draft_tokens + k
  /\ total_accepted_tokens' = total_accepted_tokens + num_accepted
  /\ input_ids' = [b \in Rows |-> input_ids[b] \o accepted_tokens_list[b]]
  /\ draft_tokens_list' = [b \in Rows |-> <<>>]
  /\ accepted_tokens_list' = [b \in Rows |-> <<>>]
  /\ num_accepted' = 0 /\ rejected' = FALSE
  /\ step_phase' = "draft"
  /\ UNCHANGED models

StepNext == DraftToken \/ AcceptCandidate \/ RejectCandidate \/ SampleBonus \/ Finish

StepSpec == StepInit /\ [][StepNext]_stepVars

-----------------------------------------------------------------------------
(* Every variable has its type; the rows of a batch stay of equal length.  *)
StepTypeOK ==
  /\ step_phase \in {"draft", "verify", "bonus", "return"}
  /\ num_accepted \in 0..(k + 1) /\ rejected \in BOOLEAN
  /\ {total_draft_tokens, total_accepted_tokens} \subseteq Nat
  /\ \A b, c \in Rows :
       /\ {input_ids[b], draft_tokens_list[b], accepted_tokens_list[b]}
            \subseteq Seq(Vocabulary)
       /\ Len(input_ids[b]) = Len(input_ids[c])
       /\ Len(accepted_tokens_list[b]) = num_accepted

(* Token number j of a row is one that the target model could have put     *)
(* after the tokens before it.                                             *)
Follows(b, j) ==
  LET row == input_ids[b] \o accepted_tokens_list[b]
      at == Len(input_ids[b]) + j
  IN  target_runner[row[at - 1]][row[at]] > 0

(* In each row every accepted and every replaced token follows the text as *)
(* the target model has it, whichever row it was that rejected; so does    *)
(* the bonus token of a round without a rejection.                         *)
CheckedTokensFollow ==
  \A b \in Rows : \A j \in 1..num_accepted :
    j <= k \/ ~rejected => Follows(b, j)

(* "If all K tokens were accepted, sample additional token from final      *)
(* target position": the additional token too follows the text.            *)
BonusFollows ==
  \A b \in Rows : num_accepted = k + 1 => Follows(b, k + 1)

(* The "overall token acceptance rate ratio" is at most one. *)
RatioAtMostOne == total_accepted_tokens <= total_draft_tokens
=============================================================================
