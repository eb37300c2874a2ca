--------------------------- MODULE BenchmarkSuite ---------------------------
(***************************************************************************)
(* EvaluationOrchestrator.run_end_to_end_benchmark                         *)
(* (eval_platform/orchestrator.py) and ErrorAnalyzer                       *)
(* (eval_platform/workloads/error_analysis.py), on top of the experiment   *)
(* log: one run of the suite is one run of the logger, whose actions the   *)
(* suite takes in its own order.  Processes, each with its orchestrator    *)
(* and logger, run suites at the same time into one store.                 *)
(*                                                                         *)
(* Latencies are left out (EventTiming has their measurement), and of the  *)
(* report the rates are kept as numbers of samples: the code divides each  *)
(* by the number of all samples.  A text is a member of Texts;             *)
(* normalize_text maps it to the one that stands for all its spellings.    *)
(***************************************************************************)
EXTENDS ExperimentTracking

CONSTANTS
  Texts,   \* outputs and references
  Normal,  \* normalize_text
  Inputs   \* arguments of a suite: num_latency_runs, samples (references),
           \* baseline_outputs, quantized_outputs; an empty one is also None

ASSUME SuiteAssumption ==
  /\ Normal \in [Texts -> Texts]
  /\ \A t \in Texts : Normal[Normal[t]] = Normal[t]
  /\ \A i \in Inputs :
       /\ i.num_latency_runs \in Nat
       /\ {i.samples, i.baseline, i.quantized} \subseteq Seq(Texts)

VARIABLE suite  \* the suite each process runs or ran last

suiteVars == <<trackingVars, suite>>

NoReport == <<>>

NoSuite == [pc |-> "none", input |-> <<>>, profiled |-> 0, report |-> NoReport]

SuiteInit == TrackingInit /\ suite = [l \in Loggers |-> NoSuite]

At(l, pc) == suite[l].pc = pc

Goto(l, pc) == suite' = [suite EXCEPT ![l].pc = pc]

Running(l) == suite[l].pc \in {"parameters", "profile", "analysis", "return"}

-----------------------------------------------------------------------------
(* ErrorAnalyzer *)
Correct(output, reference) == Normal[output] = Normal[reference]

Category(reference, base, quant) ==
  CASE Correct(base, reference) /\ ~Correct(quant, reference) -> "QUANT_DIVERGENCE"
    [] ~Correct(base, reference) /\ ~Correct(quant, reference) -> "NONE_PASSED"
    [] ~Correct(base, reference) /\ Correct(quant, reference) -> "REASONING_DRIFT"
    [] OTHER -> "NONE"

(* analyze_quantization_drift over the samples that zip() yields. *)
Zipped(i) ==
  1..FoldSet(LAMBDA n, least : IF n < least THEN n ELSE least, Len(i.samples),
             {Len(i.baseline), Len(i.quantized)})

InCategory(i, category) ==
  {s \in Zipped(i) : Category(i.samples[s], i.baseline[s], i.quantized[s]) = category}

Report(i) ==
  LET base == Cardinality({s \in Zipped(i) : Correct(i.baseline[s], i.samples[s])})
      quant == Cardinality({s \in Zipped(i) : Correct(i.quantized[s], i.samples[s])})
  IN [total |-> Len(i.samples), baseline |-> base, quantized |-> quant,
      degradation |-> base - quant,
      counts |-> [c \in {"QUANT_DIVERGENCE", "REASONING_DRIFT", "NONE_PASSED"} |->
                    Cardinality(InCategory(i, c))],
      failed |-> InCategory(i, "QUANT_DIVERGENCE") \cup InCategory(i, "NONE_PASSED")]

(* (the lengths are not compared) *)
AnyLengths(i) == TRUE

SameLengths(i) == Len(i.samples) = Len(i.baseline) /\ Len(i.samples) = Len(i.quantized)

-----------------------------------------------------------------------------
(* The suite. *)
StartSuite(l, input) ==
  /\ ~Running(l)
  /\ StartRun(l, "eval_suite", 42)
  /\ suite' = [suite EXCEPT ![l] = [NoSuite EXCEPT !.pc = "parameters", !.input = input]]

LogParameters(l) ==
  At(l, "parameters") /\ Log(l, "parameters") /\ Goto(l, "profile")

Profile(l) ==
  /\ At(l, "profile") /\ suite[l].profiled < suite[l].input.num_latency_runs
  /\ suite' = [suite EXCEPT ![l].profiled = @ + 1]
  /\ UNCHANGED trackingVars

(* compute_distribution refuses an empty list of latencies. *)
Summarise(l) ==
  /\ At(l, "profile") /\ suite[l].profiled = suite[l].input.num_latency_runs
  /\ suite[l].profiled > 0
  /\ Log(l, "latency") /\ Goto(l, "analysis")

ToAnalyse(i) == i.samples # <<>> /\ i.baseline # <<>> /\ i.quantized # <<>>

Analyse(l) ==
  LET i == suite[l].input IN
  /\ At(l, "analysis")
  /\ IF ToAnalyse(i)
     THEN /\ SameLengths(i)
          /\ Log(l, "accuracy")
          /\ suite' = [suite EXCEPT ![l].pc = "return", ![l].report = Report(i)]
     ELSE Goto(l, "return") /\ UNCHANGED trackingVars

ReturnResult(l) == At(l, "return") /\ Leave(l, "returned") /\ Goto(l, "returned")

(* step_fn raises, or one of the two ValueErrors. *)
Raise(l) ==
  LET i == suite[l].input IN
  /\ \/ At(l, "profile") /\ suite[l].profiled < i.num_latency_runs
     \/ At(l, "profile") /\ i.num_latency_runs = 0
     \/ At(l, "analysis") /\ ToAnalyse(i) /\ ~SameLengths(i)
  /\ Leave(l, "raised") /\ Goto(l, "raised")

Interrupt(l) == Running(l) /\ Leave(l, "interrupted") /\ Goto(l, "interrupted")

Kill(l) == Running(l) /\ Die(l) /\ Goto(l, "died")

SuiteNext ==
  \/ Tick /\ UNCHANGED suite
  \/ \E l \in Loggers :
       \/ \E input \in Inputs : StartSuite(l, input)
       \/ LogParameters(l) \/ Profile(l) \/ Summarise(l) \/ Analyse(l)
       \/ ReturnResult(l) \/ Raise(l) \/ Interrupt(l) \/ Kill(l)

SuiteSpec == SuiteInit /\ [][SuiteNext]_suiteVars

-----------------------------------------------------------------------------
(* Types, and that a suite is inside of its run exactly while it runs. *)
SuiteTypeOK ==
  /\ TrackingTypeOK
  /\ \A l \in Loggers :
       /\ suite[l].profiled \in Nat
       /\ suite[l] # NoSuite =>
            suite[l].input \in Inputs /\ (Running(l) <=> context[l] # <<>>)

(* run_end_to_end_benchmark "executes complete end-to-end evaluation       *)
(* lifecycle with automated logging" (orchestrator.py:72): whoever got a   *)
(* result finds a manifest of its run_id with SUCCESS, the parameters, the *)
(* latencies and, exactly if the result has a report, the accuracy; who    *)
(* got an exception finds FAILED, whatever other processes ran meanwhile.  *)
(* Of a report, every sample is in one category, the degradation is what   *)
(* quantization broke less what it repaired, and the failed samples are    *)
(* those the quantized model misses.                                       *)
ReportAddsUp(r) ==
  /\ r.degradation = r.counts["QUANT_DIVERGENCE"] - r.counts["REASONING_DRIFT"]
  /\ r.baseline + r.counts["REASONING_DRIFT"] + r.counts["NONE_PASSED"] = r.total
  /\ Cardinality(r.failed) = r.total - r.quantized

ResultMatchesManifest ==
  \A l \in Loggers : suite[l].pc \in {"returned", "raised"} =>
    LET m == store[<<runs[current[l]].id, "run_manifest.json">>]
        r == suite[l].report
    IN
    /\ m.complete
    /\ m.status = IF At(l, "returned") THEN "SUCCESS" ELSE "FAILED"
    /\ At(l, "returned") =>
         m.data = {"parameters", "latency"} \cup (IF r = NoReport THEN {} ELSE {"accuracy"})
    /\ r # NoReport => ReportAddsUp(r)
=============================================================================
