--------------------------- MODULE BenchmarkGate ---------------------------
(***************************************************************************)
(* The gate of the continuous integration: RegressionRunner                *)
(* (benchmarks/regression_runner.py) runs three benchmarks and compares a  *)
(* metric of each with its baseline; the third one is the simulation of a  *)
(* scheduler (benchmarks/suite/bench_continuous_batch.py).                 *)
(*                                                                         *)
(* The measured values of a benchmark are any of Values; of the first two  *)
(* benchmarks only that they measure or raise is modelled.  A process that *)
(* ends by an exception has exit code 1.                                   *)
(***************************************************************************)
EXTENDS Integers, Sequences, SequencesExt, FiniteSets, FiniteSetsExt

CONSTANTS
  Baselines,        \* contents of baseline_metrics.json: metric -> target
  Values,           \* what is measured
  Workloads,        \* sequences of requests: prompt_len and gen_len
  threshold_pct,
  max_batch_size,
  max_token_budget

Metrics == <<"flash_attn_p50_ms", "alloc_latency_p50_us", "throughput_tokens_per_sec">>

ASSUME GateAssumption ==
  /\ Values \subseteq Nat /\ {threshold_pct, max_token_budget} \subseteq Nat
  /\ max_batch_size \in Nat \ {0}
  /\ \A b \in Baselines : DOMAIN b \subseteq Range(Metrics) /\ Range(b) \subseteq Nat
  /\ \A w \in Workloads :
       /\ w \in Seq(Range(w))
       /\ \A i \in DOMAIN w : {w[i].prompt_len, w[i].gen_len} \subseteq Nat

VARIABLES
  baselines,   \* the baselines this process has loaded
  requests,    \* the requests of the simulation
  bench,       \* the benchmark to run next, 1 to 3; 0 before the baselines
               \* are loaded, 4 after the last
  waiting,     \* waiting_queue: numbers of requests
  running,     \* running_batch: the tokens left by request
  completed,   \* completed_requests, a set
  rounds,      \* rounds of the simulation
  actual,      \* history: the metrics measured so far
  all_passed,
  exit         \* exit code, or Open

gateVars == <<baselines, requests, bench, waiting, running, completed, rounds,
              actual, all_passed, exit>>
simulation == <<waiting, running, completed, rounds>>

Open == -1

GateInit ==
  /\ baselines = <<>> /\ requests = <<>> /\ bench = 0
  /\ waiting = <<>> /\ running = <<>> /\ completed = {} /\ rounds = 0
  /\ actual = <<>> /\ all_passed = TRUE /\ exit = Open

-----------------------------------------------------------------------------
(* RegressionRunner(...) loads the baselines or raises FileNotFoundError;  *)
(* the requests are those the simulation will queue. *)
Load(content, work) ==
  /\ bench = 0 /\ exit = Open
  /\ baselines' = content /\ requests' = work
  /\ waiting' = [i \in DOMAIN work |-> i]
  /\ bench' = 1
  /\ UNCHANGED <<running, completed, rounds, actual, all_passed, exit>>

(* verify_metric: delta_pct against the threshold, multiplied out; a       *)
(* metric without a baseline passes, a target of 0 is divided by.          *)
lower_is_better(b) == b # 3

Raises(b) == Metrics[b] \in DOMAIN baselines /\ baselines[Metrics[b]] = 0

Passes(b, value) ==
  \/ Metrics[b] \notin DOMAIN baselines
  \/ LET target == baselines[Metrics[b]]
         delta == (value - target) * 100
     IN IF lower_is_better(b) THEN delta <= threshold_pct * target
                              ELSE delta >= -threshold_pct * target

(* run_all, one benchmark at a time, and sys.exit. *)
Exit(passed) == IF passed THEN 0 ELSE 1

Verify(value) ==
  /\ ~Raises(bench)
  /\ actual' = Append(actual, value)
  /\ all_passed' = (all_passed /\ Passes(bench, value))
  /\ bench' = bench + 1
  /\ exit' = IF bench = 3 THEN Exit(all_passed') ELSE Open
  /\ UNCHANGED <<baselines, requests, simulation>>

MeasureLatency(value) == exit = Open /\ bench \in {1, 2} /\ Verify(value)

Abort ==
  /\ exit' = 1
  /\ UNCHANGED <<baselines, requests, bench, simulation, actual, all_passed>>

(* No file of baselines, no CUDA device, or a target of 0. *)
BenchmarkRaises == exit = Open /\ bench < 3 /\ Abort

-----------------------------------------------------------------------------
(* A round of the simulation: requests are admitted from the head as long  *)
(* as the batch and its prompts stay within bounds; then all running       *)
(* requests generate a token. *)
PromptTokens(ids) ==
  SumFunctionOnSet([i \in DOMAIN requests |-> requests[i].prompt_len], ids)

First(n) == {waiting[i] : i \in 1..n}

(* (the budget is never used up) *)
Below(tokens) == tokens < max_token_budget

WithinBudget(tokens) == tokens <= max_token_budget

Admissible(n) ==
  /\ Cardinality(DOMAIN running) + n <= max_batch_size
  /\ WithinBudget(PromptTokens(DOMAIN running) + PromptTokens(First(n)))

Admitted == Max({n \in 0..Len(waiting) : n = 0 \/ Admissible(n)})

(* The tokens left after the round of those in the batch. *)
Decoded ==
  [i \in DOMAIN running \cup First(Admitted) |->
     (IF i \in DOMAIN running THEN running[i] ELSE requests[i].gen_len) - 1]

still_running == {i \in DOMAIN Decoded : Decoded[i] > 0}

SimulationRound ==
  /\ exit = Open /\ bench = 3
  /\ waiting # <<>> \/ DOMAIN running # {}
  /\ waiting' = SubSeq(waiting, Admitted + 1, Len(waiting))
  /\ running' = [i \in still_running |-> Decoded[i]]
  /\ completed' = completed \cup (DOMAIN Decoded \ still_running)
  /\ rounds' = rounds + 1
  /\ UNCHANGED <<baselines, requests, bench, actual, all_passed, exit>>

SimulationIsOver ==
  exit = Open /\ bench = 3 /\ waiting = <<>> /\ DOMAIN running = {}

(* statistics.quantiles needs two rounds. *)
MeasureSimulation(value) == SimulationIsOver /\ rounds >= 2 /\ Verify(value)

SimulationRaises == SimulationIsOver /\ (rounds < 2 \/ Raises(3)) /\ Abort

GateNext ==
  \/ \E content \in Baselines, work \in Workloads : Load(content, work)
  \/ \E value \in Values : MeasureLatency(value) \/ MeasureSimulation(value)
  \/ BenchmarkRaises \/ SimulationRound \/ SimulationRaises

GateSpec == GateInit /\ [][GateNext]_gateVars

-----------------------------------------------------------------------------
GateTypeOK ==
  /\ bench \in 0..4 /\ exit \in {Open, 0, 1} /\ all_passed \in BOOLEAN
  /\ Range(waiting) \cup completed \cup DOMAIN running = DOMAIN requests
  /\ Len(waiting) + Cardinality(completed) + Cardinality(DOMAIN running) = Len(requests)

(* RegressionRunner "detects performance degradation in latency,           *)
(* throughput, or kernel execution" (regression_runner.py:14) and the      *)
(* simulation of "admission control, and token budget scheduling"          *)
(* (bench_continuous_batch.py:16) ends: each of its rounds generates a     *)
(* token or completes a request, so there are at most as many as tokens;   *)
(* exit code 0 means that all benchmarks ran, the simulation to the end,   *)
(* and that no metric with a baseline is worse than it by more than the    *)
(* threshold.  Needs prompts within the budget.                            *)
Worse(b) ==
  /\ Metrics[b] \in DOMAIN baselines
  /\ LET loss == IF b = 3 THEN baselines[Metrics[b]] - actual[b]
                          ELSE actual[b] - baselines[Metrics[b]]
     IN loss * 100 > threshold_pct * baselines[Metrics[b]]

GateEndsHonestly ==
  /\ rounds <= SumFunction([i \in DOMAIN requests |-> Max({1, requests[i].gen_len})])
  /\ exit = 0 =>
       /\ Len(actual) = 3 /\ completed = DOMAIN requests
       /\ ~\E b \in 1..3 : Worse(b)
  /\ exit = 1 /\ bench = 4 => \E b \in 1..3 : Worse(b)
=============================================================================
