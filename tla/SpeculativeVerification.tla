----------------------- MODULE SpeculativeVerification -----------------------
(***************************************************************************)
(* SpeculativeEngine of csrc/src/scheduler/speculative.cpp: the target     *)
(* model verifies K drafted tokens in one pass, by rejection sampling      *)
(* (verify_candidates) or by its argmax (verify_candidates_greedy).  Every *)
(* iteration of the loop is one step.  A caller drafts K tokens from the   *)
(* draft model, evaluates the target model on all of their prefixes, and   *)
(* appends what the call returns to the text.                              *)
(*                                                                         *)
(* A draw of uniform_real_distribution is a number of D-ths, one of Draws; *)
(* D is a multiple of every sum of weights, so that counting draws counts  *)
(* probabilities.                                                          *)
(***************************************************************************)
EXTENDS TargetDecoding, FiniteSets, FiniteSetsExt

CONSTANTS
  K,        \* number of draft tokens
  D,
  Draws,    \* the draws r, as r / D
  MaxText   \* bound: no round begins with a longer text

ASSUME VerificationAssumption ==
  K \in Nat \ {0} /\ D \in Nat \ {0} /\ Draws \subseteq 0..D /\ MaxText \in Nat

VARIABLES
  draft,         \* the draft model
  phase,         \* "idle", "verify" in the loop, "verified" when it returned
  draft_tokens,
  accepted,      \* result.accepted_tokens
  final_token    \* result.final_token, once it is set

vars == <<target, greedy, text, draft, phase, draft_tokens, accepted, final_token>>

Init ==
  /\ DecodingInit
  /\ draft \in Models
  /\ phase = "idle"
  /\ draft_tokens = <<>> /\ accepted = <<>> /\ final_token = Eos

-----------------------------------------------------------------------------
(* sample_from_distribution: the first token whose cumulative probability  *)
(* reaches the draw, or the last one.                                      *)
Cumulative(w, t) == MapThenSumSet(LAMBDA u : w[u], 0..t)

Sample(w, r) ==
  LET reached == {t \in Tokens :
                    r * Cumulative(w, VocabSize - 1) <= D * Cumulative(w, t)}
  IN  IF reached = {} THEN VocabSize - 1 ELSE Min(reached)

(* (the difference in either direction) *)
Distance(p, q) == [t \in Tokens |-> IF p[t] > q[t] THEN p[t] - q[t] ELSE q[t] - p[t]]

(* sample_adjusted_distribution: what the target has more than the draft,  *)
(* or the target when that is nothing.                                     *)
Adjusted(p, q) ==
  LET more == [t \in Tokens |-> IF p[t] > q[t] THEN p[t] - q[t] ELSE 0]
  IN  IF Support(more) = {} THEN p ELSE more

(* r <= min(1, p / q), the ratio being 0 when q is *)
Accepts(p, q, c, r) == IF q[c] > 0 THEN r * q[c] <= D * p[c] ELSE r = 0

-----------------------------------------------------------------------------
(* The token before position i of the draft, i from 1 to K + 1. *)
Before(i) == IF i = 1 THEN Last(text) ELSE draft_tokens[i - 1]

At == Len(accepted) + 1

(* The caller drafts and calls. *)
Propose ==
  /\ phase = "idle" /\ Last(text) # Eos /\ Len(text) <= MaxText
  /\ \E d \in [1..K -> Tokens] :
       /\ \A i \in 1..K : draft[IF i = 1 THEN Last(text) ELSE d[i - 1]][d[i]] > 0
       /\ draft_tokens' = d
  /\ accepted' = <<>>
  /\ phase' = "verify"
  /\ UNCHANGED <<target, greedy, text, draft, final_token>>

Verifying == phase = "verify" /\ At <= K

(* (the loop goes on after an end of sequence) *)
AcceptAndGoOn ==
  /\ accepted' = Append(accepted, draft_tokens[At])
  /\ UNCHANGED <<target, greedy, text, draft, draft_tokens, phase, final_token>>

(* The token is accepted; the end of sequence ends the loop. *)
Accept ==
  /\ accepted' = Append(accepted, draft_tokens[At])
  /\ IF draft_tokens[At] = Eos
     THEN phase' = "verified" /\ final_token' = Eos
     ELSE UNCHANGED <<phase, final_token>>
  /\ UNCHANGED <<target, greedy, text, draft, draft_tokens>>

Return(t) ==
  /\ final_token' = t
  /\ phase' = "verified"
  /\ UNCHANGED <<target, greedy, text, draft, draft_tokens, accepted>>

(* verify_candidates *)
Verify(r) ==
  /\ ~greedy /\ Verifying
  /\ LET p == target[Before(At)]
         q == draft[Before(At)]
     IN  \/ Accepts(p, q, draft_tokens[At], r) /\ Accept
         \/ /\ ~Accepts(p, q, draft_tokens[At], r)
            /\ \E s \in Draws : Return(Sample(Adjusted(p, q), s))

LastDrafted == draft_tokens[K]

Bonus(s) ==
  /\ ~greedy /\ phase = "verify" /\ At = K + 1
  /\ Return(Sample(target[LastDrafted], s))

(* verify_candidates_greedy *)
VerifyGreedy ==
  /\ greedy /\ Verifying
  /\ LET best == Argmax(target[Before(At)])
     IN  \/ draft_tokens[At] = best /\ Accept
         \/ draft_tokens[At] # best /\ Return(best)

BonusGreedy ==
  /\ greedy /\ phase = "verify" /\ At = K + 1
  /\ Return(Argmax(target[LastDrafted]))

(* The tokens of a round: an end of sequence that was accepted is the last *)
(* one, although final_token repeats it.                                   *)
Output ==
  accepted \o IF phase = "verified" /\ (accepted = <<>> \/ Last(accepted) # Eos)
              THEN <<final_token>> ELSE <<>>

(* The caller takes them. *)
Commit ==
  /\ phase = "verified"
  /\ text' = text \o Output
  /\ accepted' = <<>> /\ draft_tokens' = <<>> /\ final_token' = Eos
  /\ phase' = "idle"
  /\ UNCHANGED <<target, greedy, draft>>

-----------------------------------------------------------------------------
Next ==
  \/ Propose
  \/ \E r \in Draws : Verify(r)
  \/ \E s \in Draws : Bonus(s)
  \/ VerifyGreedy \/ BonusGreedy
  \/ Commit

Spec == Init /\ [][Next]_vars

-----------------------------------------------------------------------------
(* Every variable has its type; a result has no more than K accepted       *)
(* tokens, and each of them was drafted.                                   *)
TypeOK ==
  /\ target \in Models /\ draft \in Models
  /\ text \in Seq(Tokens) /\ final_token \in Tokens
  /\ phase \in {"idle", "verify", "verified"}
  /\ draft_tokens \in {<<>>} \cup [1..K -> Tokens]
  /\ accepted \in Seq(Tokens) /\ IsPrefix(accepted, draft_tokens)

(* Token by token the rounds decode as the target model alone would: the   *)
(* corrected token, the bonus token and the early end included             *)
(* ("verified tokens accepted by the target model", speculative.h).        *)
Target == INSTANCE TargetDecoding WITH text <- text \o Output
DecodesAsTarget == Target!DecodingSpec

(* The probability that one iteration puts out x is the target model's,    *)
(* whatever the draft model is: over the tokens it drafts, the draws of    *)
(* the test and the draws of the replacement.                              *)
Mass(p, q, x) ==
  LET Tests(c) == Cardinality({r \in 1..D : Accepts(p, q, c, r)})
      Replaced == Cardinality({s \in 1..D : Sample(Adjusted(p, q), s) = x})
  IN  q[x] * Tests(x) * D
        + MapThenSumSet(LAMBDA c : q[c] * (D - Tests(c)) * Replaced, Tokens)

OutputFollowsTarget ==
  phase = "verify" => \A last, x \in Tokens :
    Mass(target[last], draft[last], x) = target[last][x] * D * D

(* final_token is the "corrected token sampled on first rejection or bonus *)
(* token" (speculative.h): a round has one token more than it accepted.    *)
FinalIsAnotherToken ==
  phase = "verified" => Len(Output) = Len(accepted) + 1
=============================================================================
