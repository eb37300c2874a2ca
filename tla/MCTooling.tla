------------------------------ MODULE MCTooling ------------------------------
(***************************************************************************)
(* What measures, evaluates and logs: the kernel dispatcher, the           *)
(* experiment log, alone and under the benchmark suite, timing with        *)
(* events, Nsight, the scores and the regression gate.  They share nothing *)
(* (but the suite its log): each runs with the others in their initial     *)
(* states.                                                                 *)
(*                                                                         *)
(* Two threads tune two keys with three variants; two processes log two    *)
(* runs within two seconds; two coroutines time three sections; two        *)
(* profilers profile twice each; two pairs of sequences are scored and     *)
(* frontiers have up to three points.                                      *)
(***************************************************************************)
EXTENDS KernelDispatcher, BenchmarkSuite, EventTiming, NsightProfiling,
        EvaluationMetrics, BenchmarkGate, TLC

CONSTANTS t1, t2, v1, v2, v3, l1, l2, u1, u2, p1, p2

Symmetry ==
  Permutations({t1, t2}) \cup Permutations({v1, v2, v3}) \cup Permutations({l1, l2})

MCTexts == {"a", "A", "b"}
MCNormal == [t \in MCTexts |-> IF t = "A" THEN "a" ELSE t]

MCInput(n, s, b, q) ==
  [num_latency_runs |-> n, samples |-> s, baseline |-> b, quantized |-> q]

MCInputs ==
  {MCInput(n, <<>>, <<>>, <<>>) : n \in {0, 2}}
    \cup {MCInput(1, <<"a", "b">>, b, q) :
            b \in {<<"A", "b">>, <<"b", "b">>}, q \in {<<"a", "a">>, <<"b">>, <<"a", "b">>}}

MCLaunch(kernel, ns, pct) == [kernel |-> kernel, values |-> [ns |-> ns, pct |-> pct]]

MCCommands ==
  {<<>>, <<MCLaunch("gemm", 5, 1)>>,
   <<MCLaunch("gemm", 3, 2), MCLaunch("rope", 4, NotANumber),
     MCLaunch("gemm", 6, NotANumber)>>}

MCTargetMetrics == <<"ns", "pct">>

MCTokenSeqs ==
  {<<>>, <<1>>, <<1, 2>>, <<2, 1>>, <<2, 1, 2>>, <<1, 1, 2, 2>>, <<2, 2, 1, 2>>}

MCCostSeqs == {<<Ignored>>, <<2, Ignored>>}

MCMetricSets == UNION {[S -> 0..2] : S \in {{"tps", "ms"}, {"tps"}}}

MCObjectives ==
  [n \in {"tps", "ms"} |-> IF n = "tps" THEN "maximize" ELSE "minimize"]

MCRequest(prompt, gen) == [prompt_len |-> prompt, gen_len |-> gen]

MCWorkloads ==
  {<<>>, <<MCRequest(3, 1)>>}
    \cup {<<MCRequest(2, a), MCRequest(3, b), MCRequest(1, 2)>> : a, b \in 0..3}

MCBaselines ==
  UNION {[S -> {20}] : S \in SUBSET Range(Metrics)} \cup {[m \in Range(Metrics) |-> 0]}

DispatcherAtRest == Init /\ UNCHANGED vars
LogAtRest == SuiteInit /\ UNCHANGED suiteVars
TimingAtRest == TimingInit /\ UNCHANGED timingVars
NsightAtRest == NsightInit /\ UNCHANGED nsightVars
MetricsAtRest == MetricsInit /\ UNCHANGED metricVars
GateAtRest == GateInit /\ UNCHANGED gateVars

(* A process either runs the suite or logs on its own. *)
OnlySuites == \A r \in DOMAIN runs : runs[r].begun[1] = "eval_suite"
NoSuites == \A l \in Loggers : suite[l] = NoSuite

LogNext ==
  \/ OnlySuites /\ SuiteNext
  \/ NoSuites /\ TrackingNext /\ UNCHANGED suite

AllInit ==
  /\ Init /\ SuiteInit /\ TimingInit /\ NsightInit /\ MetricsInit /\ GateInit

AllNext ==
  \/ /\ LogAtRest /\ TimingAtRest /\ NsightAtRest /\ MetricsAtRest /\ GateAtRest
     /\ Next
  \/ /\ DispatcherAtRest /\ TimingAtRest /\ NsightAtRest /\ MetricsAtRest /\ GateAtRest
     /\ LogNext
  \/ /\ DispatcherAtRest /\ LogAtRest /\ NsightAtRest /\ MetricsAtRest /\ GateAtRest
     /\ TimingNext
  \/ /\ DispatcherAtRest /\ LogAtRest /\ TimingAtRest /\ MetricsAtRest /\ GateAtRest
     /\ NsightNext
  \/ /\ DispatcherAtRest /\ LogAtRest /\ TimingAtRest /\ NsightAtRest /\ GateAtRest
     /\ MetricsNext
  \/ /\ DispatcherAtRest /\ LogAtRest /\ TimingAtRest /\ NsightAtRest /\ MetricsAtRest
     /\ GateNext

AllSpec ==
  AllInit
    /\ [][AllNext]_<<vars, suiteVars, timingVars, nsightVars, metricVars, gateVars>>
=============================================================================
