------------------------- MODULE EvaluationMetrics -------------------------
(***************************************************************************)
(* The scores of the evaluation platform: AccuracyEvaluator                *)
(* (eval_platform/pipelines/accuracy_eval.py: evaluate,                    *)
(* compute_perplexity, evaluate_correctness, _lcs_length) and              *)
(* ParetoFrontierCalculator (eval_platform/statistics/pareto.py).          *)
(*                                                                         *)
(* Fractions are counted in parts of 1/Unit, exact for the lengths in use; *)
(* cross_entropy is replaced by a cost for every position.  Rounding of    *)
(* floating-point numbers is left out.                                     *)
(***************************************************************************)
EXTENDS Integers, Sequences, SequencesExt, FiniteSets, FiniteSetsExt

CONSTANTS
  TokenSeqs,   \* the sequences of tokens that are compared
  MaxSamples,  \* bound: pairs of sequences of an evaluation
  CostSeqs,    \* costs by position, Ignored where target_ids is ignore_index
  Unit,        \* what fractions are counted in
  MetricSets,  \* dictionaries of metrics: metric -> value
  MaxPoints,   \* bound: points of a frontier
  objectives   \* metric -> "maximize" or "minimize"

Ignored == -100

Divides(d, n) == n % d = 0

ASSUME MetricsAssumption ==
  /\ {MaxSamples, MaxPoints} \subseteq Nat /\ Unit \in Nat \ {0}
  /\ \A s, t \in TokenSeqs :
       \A n \in {Len(s), Len(s) + Len(t)} \ {0} : Divides(n, Unit)
  /\ \A m \in MetricSets : \A n \in DOMAIN m : m[n] \in Int
  /\ IsFiniteSet(DOMAIN objectives)

VARIABLES
  samples,   \* pairs of a generated and a reference sequence
  scored,    \* how many the loop of evaluate_correctness has seen
  sums,      \* its sums: exact, tokens, rouge (in 1/Unit)
  result,    \* what evaluate returned
  points,    \* what compute_pareto_frontier is given
  frontier   \* its result: is_pareto_optimal and the distance by point

metricVars == <<samples, scored, sums, result, points, frontier>>

NoSums == [exact |-> 0, tokens |-> 0, rouge |-> 0]
NoFrontier == <<>>
NoScore == [metric |-> "none", num_samples |-> 0]

MetricsInit ==
  /\ samples = <<>> /\ scored = 0 /\ sums = NoSums /\ result = NoScore
  /\ points = <<>> /\ frontier = NoFrontier

-----------------------------------------------------------------------------
(* _lcs_length: the table, row by row. *)
(* (a mismatch looks at one neighbour only) *)
AboveOnly(above, before) == above

Better(above, before) == IF above >= before THEN above ELSE before

lcs_length(s, t) ==
  LET dp[i \in 0..Len(s), j \in 0..Len(t)] ==
        IF i = 0 \/ j = 0 THEN 0
        ELSE IF s[i] = t[j] THEN dp[i - 1, j - 1] + 1
        ELSE Better(dp[i - 1, j], dp[i, j - 1])
  IN dp[Len(s), Len(t)]

LongerOf(s, t) == IF Len(s) >= Len(t) THEN Len(s) ELSE Len(t)

Matches(s, t) == {i \in DOMAIN s \cap DOMAIN t : s[i] = t[i]}

TokenAccuracy(s, t) ==
  IF DOMAIN s \cap DOMAIN t = {} THEN 0
  ELSE (Cardinality(Matches(s, t)) * Unit) \div LongerOf(s, t)

(* 2 * prec * rec / (prec + rec), with prec and rec over the two lengths *)
RougeF1(s, t) ==
  IF lcs_length(s, t) = 0 THEN 0
  ELSE (2 * lcs_length(s, t) * Unit) \div (Len(s) + Len(t))

(* evaluate_correctness: the loop over the pairs.  The means are the sums  *)
(* over the number of pairs. *)
AddSample(gen, ref) ==
  /\ points = <<>> /\ result = NoScore /\ Len(samples) < MaxSamples
  /\ samples' = Append(samples, <<gen, ref>>)
  /\ UNCHANGED <<scored, sums, result, points, frontier>>

ScoreSample ==
  LET gen == samples[scored + 1][1]
      ref == samples[scored + 1][2]
  IN
  /\ scored < Len(samples)
  /\ sums' = [exact |-> sums.exact + IF gen = ref THEN 1 ELSE 0,
              tokens |-> sums.tokens + TokenAccuracy(gen, ref),
              rouge |-> sums.rouge + RougeF1(gen, ref)]
  /\ scored' = scored + 1
  /\ UNCHANGED <<samples, result, points, frontier>>

-----------------------------------------------------------------------------
(* compute_perplexity: the cost of the positions that are not ignored and  *)
(* their number; the mean is NaN when there is none. *)
Counted(costs) == SelectSeq(costs, LAMBDA c : c # Ignored)

compute_perplexity(costs) ==
  [cost |-> FoldSeq(LAMBDA c, sum : c + sum, 0, Counted(costs)),
   tokens |-> Len(Counted(costs)),
   nan |-> Counted(costs) = <<>>]

(* evaluate, with logits or sequences, both or none: the perplexity is     *)
(* exp(cost / tokens) and never 0.0, so it is the metric if it is there;   *)
(* the number of samples is that of the sequences if they are there. *)
Evaluate(logits, sequences, costs) ==
  LET perplexity == compute_perplexity(costs) IN
  /\ result = NoScore /\ points = <<>> /\ scored = Len(samples)
  /\ samples # <<>> => sequences
  /\ result' = [metric |-> CASE logits /\ perplexity.nan -> "nan"
                             [] logits /\ ~perplexity.nan -> "perplexity"
                             [] ~logits /\ sequences -> "exact_match"
                             [] OTHER -> "zero",
                num_samples |-> CASE sequences -> Len(samples)
                                  [] ~sequences /\ logits -> perplexity.tokens
                                  [] OTHER -> 0]
  /\ UNCHANGED <<samples, scored, sums, points, frontier>>

-----------------------------------------------------------------------------
(* compute_pareto_frontier *)
Metric(p, name) == IF name \in DOMAIN points[p] THEN points[p][name] ELSE 0

Criterion(p, name) ==
  IF objectives[name] = "maximize" THEN Metric(p, name) ELSE -Metric(p, name)

(* (a point that is as good as another one counts as better) *)
AsGood(q, p) == \A n \in DOMAIN objectives : Criterion(q, n) >= Criterion(p, n)

Dominates(q, p) ==
  /\ \A n \in DOMAIN objectives : Criterion(q, n) >= Criterion(p, n)
  /\ \E n \in DOMAIN objectives : Criterion(q, n) > Criterion(p, n)

(* The points still optimal after the first i: a point is only compared    *)
(* with points that were not found dominated before. *)
Optimal ==
  LET kept[i \in 0..Len(points)] ==
        IF i = 0 THEN DOMAIN points
        ELSE IF \E q \in kept[i - 1] \ {i} : Dominates(q, i)
             THEN kept[i - 1] \ {i} ELSE kept[i - 1]
  IN kept[Len(points)]

Spread(name) ==
  LET values == {Criterion(p, name) : p \in DOMAIN points} IN
  IF Max(values) = Min(values) THEN 1 ELSE Max(values) - Min(values)

(* The square of the distance of the normalised points, times the square   *)
(* of the product of all spreads. *)
Distance(p, q) ==
  LET Others(n) == FoldFunction( *, 1, [m \in DOMAIN objectives \ {n} |-> Spread(m)])
      Apart(n) == (Criterion(p, n) - Criterion(q, n)) * Others(n)
  IN SumFunction([n \in DOMAIN objectives |-> Apart(n) * Apart(n)])

AddPoint(metrics) ==
  /\ samples = <<>> /\ result = NoScore
  /\ frontier = NoFrontier /\ Len(points) < MaxPoints
  /\ points' = Append(points, metrics)
  /\ UNCHANGED <<samples, scored, sums, result, frontier>>

Compute ==
  /\ points # <<>> /\ frontier = NoFrontier
  /\ frontier' = [p \in DOMAIN points |->
       [optimal |-> p \in Optimal,
        distance |-> IF p \in Optimal THEN 0
                     ELSE Min({Distance(q, p) : q \in Optimal})]]
  /\ UNCHANGED <<samples, scored, sums, result, points>>

MetricsNext ==
  \/ \E gen, ref \in TokenSeqs : AddSample(gen, ref)
  \/ ScoreSample
  \/ \E costs \in CostSeqs, sequences \in BOOLEAN : Evaluate(TRUE, sequences, costs)
  \/ \E sequences \in BOOLEAN : Evaluate(FALSE, sequences, <<>>)
  \/ \E metrics \in MetricSets : AddPoint(metrics)
  \/ Compute

MetricsSpec == MetricsInit /\ [][MetricsNext]_metricVars
-----------------------------------------------------------------------------
MetricsTypeOK ==
  /\ samples \in Seq(TokenSeqs \X TokenSeqs) /\ scored \in 0..Len(samples)
  /\ \A n \in DOMAIN sums : sums[n] \in Nat
  /\ points \in Seq(MetricSets)
  /\ frontier # NoFrontier => DOMAIN frontier = DOMAIN points

(* The longest common subsequence by its definition. *)
CommonSubsequence(s, t, I) ==
  \E f \in [I -> DOMAIN t] :
    /\ \A i \in I : t[f[i]] = s[i]
    /\ \A i, j \in I : i < j => f[i] < f[j]

LongestCommon(s, t) ==
  Max({Cardinality(I) : I \in {I \in SUBSET DOMAIN s : CommonSubsequence(s, t, I)}})

(* evaluate_correctness "evaluates Exact Match (EM) and ROUGE-L F1 scores  *)
(* across token ID sequences" (accuracy_eval.py:147): the table of         *)
(* _lcs_length gives the F1 of the longest common subsequence; as long as  *)
(* no sequence is empty the exact matches are at most the token accuracy,  *)
(* that at most the F1, and one of them is perfect exactly if all are.     *)
ScoresConsistent ==
  LET seen == SubSeq(samples, 1, scored)
      Total(Score(_, _)) == FoldSeq(LAMBDA p, sum : Score(p[1], p[2]) + sum, 0, seen)
      F1(s, t) == IF LongestCommon(s, t) = 0 THEN 0
                  ELSE (2 * LongestCommon(s, t) * Unit) \div (Len(s) + Len(t))
  IN
  /\ sums.rouge = Total(F1)
  /\ (\A p \in Range(seen) : <<>> \notin {p[1], p[2]}) =>
       /\ sums.exact * Unit <= sums.tokens /\ sums.tokens <= sums.rouge
       /\ \A n \in {"tokens", "rouge"} :
            sums[n] = scored * Unit <=> sums.exact = scored

Beaten(p) ==
  \E q \in DOMAIN points :
    /\ \A n \in DOMAIN objectives : Criterion(q, n) >= Criterion(p, n)
    /\ \E n \in DOMAIN objectives : Criterion(q, n) # Criterion(p, n)

(* compute_pareto_frontier "computes the Pareto-optimal frontier set from  *)
(* benchmark observation points" (pareto.py:32), although a point is only  *)
(* compared with those still optimal: the points it marks are those that   *)
(* no point dominates, they have distance 0 and only they have.            *)
FrontierExact ==
  \A p \in DOMAIN frontier :
    /\ frontier[p].optimal <=> ~Beaten(p)
    /\ frontier[p].distance = 0 <=> frontier[p].optimal
=============================================================================
