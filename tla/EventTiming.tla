----------------------------- MODULE EventTiming -----------------------------
(***************************************************************************)
(* Timing with CUDA events: CUDAEventTracer and profile_section            *)
(* (profiling/cuda_event_tracer.py), CUDAEventProfiler.benchmark           *)
(* (cudaforge/profiler.py) and LatencyEvaluator.profile_generation_loop    *)
(* (eval_platform/pipelines/latency_eval.py).                              *)
(*                                                                         *)
(* The host launches kernels and records events into the current stream;   *)
(* the device works the stream off later.  Time is the number of kernels   *)
(* the device has executed, so the time between two events says which      *)
(* kernels lie between them.  An event that was recorded (again) has no    *)
(* time until the device reaches it, and elapsed_time then raises.  Users  *)
(* of the tracer are coroutines of one thread.  Statistics over the times  *)
(* are left out.                                                           *)
(***************************************************************************)
EXTENDS Integers, Sequences, SequencesExt, FiniteSets

CONSTANTS
  Users,          \* coroutines with sections of the tracer
  Tags,           \* tags of sections
  MaxSections,    \* bound: sections of a run
  MaxKernels,     \* bound: kernels of a call, and of all sections together
  warmup_iters,   \* calls before those that are timed (of the generation
                  \* loop: warmup_runs times min(gen_len, 4) steps)
  profile_iters,  \* calls benchmark() times
  gen_len,        \* steps of the generation loop
  enable_sync,    \* enable_cuda_sync
  SharedTags      \* whether sections of one tag overlap

ASSUME TimingAssumption ==
  /\ {MaxSections, MaxKernels, warmup_iters, profile_iters, gen_len} \subseteq Nat
  /\ {enable_sync, SharedTags} \subseteq BOOLEAN

VARIABLES
  stream,    \* enqueued: kernels and <<"start" or "end", pair of events>>
  executed,  \* kernels the device has executed
  stamp,     \* the time of every event that has one
  launched,  \* history: kernels launched
  cost,      \* history: kernels of every section or call, or a guess so far
  events,    \* the tracer's pairs of events by tag
  open,      \* the sections each coroutine is inside of, the innermost last
  client,    \* who uses the device: "tracer", "benchmark", "generation", or
             \* "nobody" so far
  calls,     \* calls made so far by the two loops
  elapsed    \* the last result: times by pair or call, or that it raised

timingVars == <<stream, executed, stamp, launched, cost, events, open, client,
                calls, elapsed>>
device == <<stream, executed, stamp>>

NoTimes == <<>>

Result(times, hasRaised) ==
  [times |-> times, raised |-> hasRaised,
   busy |-> \E u \in Users : open[u] # <<>>]  \* busy is history

NoResult == [times |-> NoTimes, raised |-> FALSE, busy |-> FALSE]

TimingInit ==
  /\ stream = <<>> /\ executed = 0 /\ stamp = NoTimes
  /\ launched = 0 /\ cost = <<>>
  /\ events = NoTimes
  /\ open = [u \in Users |-> <<>>]
  /\ client = "nobody"
  /\ calls = 0 /\ elapsed = NoResult

-----------------------------------------------------------------------------
(* The device takes the next item of the stream. *)
Without(e) == [f \in DOMAIN stamp \ {e} |-> stamp[f]]

Stamped(e) ==
  [f \in DOMAIN stamp \cup {e} |-> IF f = e THEN executed ELSE stamp[f]]

Kernel == <<"kernel", 0>>

Execute ==
  /\ stream # <<>>
  /\ stream' = Tail(stream)
  /\ IF Head(stream) = Kernel
     THEN executed' = executed + 1 /\ UNCHANGED stamp
     ELSE stamp' = Stamped(Head(stream)) /\ UNCHANGED executed
  /\ UNCHANGED <<launched, cost, events, open, client, calls, elapsed>>

(* torch.cuda.synchronize() returns. *)
Synchronized == stream = <<>>

Kernels(k) == [i \in 1..k |-> Kernel]

Record(e) == stream' = Append(stream, e) /\ stamp' = Without(e) /\ UNCHANGED executed

Reached(pair) == {<<"start", pair>>, <<"end", pair>>} \subseteq DOMAIN stamp

elapsed_time(pair) == stamp[<<"end", pair>>] - stamp[<<"start", pair>>]

TimesOf(pairs) ==
  IF \A pair \in pairs : Reached(pair)
  THEN Result([pair \in pairs |-> elapsed_time(pair)], FALSE)
  ELSE Result(NoTimes, TRUE)

-----------------------------------------------------------------------------
Uses(who) == client \in {"nobody", who} /\ client' = who

(* The tracer. *)
PairsOf(tag) == IF tag \in DOMAIN events THEN events[tag] ELSE <<>>

IsOpen(tag) == \E u \in Users : \E i \in DOMAIN open[u] : open[u][i].tag = tag

(* start, and the entry of profile_section *)
Start(u, tag) ==
  LET pair == Len(cost) + 1 IN
  /\ Uses("tracer") /\ pair <= MaxSections
  /\ SharedTags \/ ~IsOpen(tag)
  /\ Record(<<"start", pair>>)
  /\ events' = [t \in DOMAIN events \cup {tag} |->
                  IF t = tag THEN Append(PairsOf(t), pair) ELSE events[t]]
  /\ open' = [open EXCEPT ![u] = Append(@, [tag |-> tag, pair |-> pair])]
  /\ cost' = Append(cost, launched)
  /\ UNCHANGED <<launched, calls, elapsed>>

(* A kernel inside of a section. *)
Launch(u) ==
  /\ open[u] # <<>> /\ launched < MaxKernels
  /\ stream' = Append(stream, Kernel)
  /\ launched' = launched + 1
  /\ UNCHANGED <<executed, stamp, cost, events, open, client, calls, elapsed>>

(* (the first pair of the tag) *)
PairOfOldest(tag) == Head(events[tag])

(* stop takes the last pair of the tag. *)
PairToStop(tag) == Last(events[tag])

(* stop, on every way out of profile_section; it raises after a reset. *)
Stop(u) ==
  LET section == Last(open[u]) IN
  /\ open[u] # <<>>
  /\ open' = [open EXCEPT ![u] = Front(@)]
  /\ cost' = [cost EXCEPT ![section.pair] = launched - @]
  /\ IF section.tag \in DOMAIN events
     THEN Record(<<"end", PairToStop(section.tag)>>)
     ELSE UNCHANGED device
  /\ UNCHANGED <<launched, events, client, calls, elapsed>>

(* synchronize_and_calculate, and reset *)
Calculate ==
  /\ client = "tracer" /\ DOMAIN events # {}
  /\ enable_sync => Synchronized
  /\ elapsed' = TimesOf(UNION {Range(events[t]) : t \in DOMAIN events})
  /\ UNCHANGED <<device, launched, cost, events, open, client, calls>>

Reset ==
  /\ client = "tracer"
  /\ events' = NoTimes /\ elapsed' = NoResult
  /\ UNCHANGED <<device, launched, cost, open, client, calls>>

-----------------------------------------------------------------------------
(* A call of the two loops, with k kernels, between the events of a pair.  *)
Timed(pair, k) ==
  /\ stream' = stream \o <<<<"start", pair>>>> \o Kernels(k) \o <<<<"end", pair>>>>
  /\ stamp' = [f \in DOMAIN stamp \ {<<"start", pair>>, <<"end", pair>>} |-> stamp[f]]
  /\ cost' = Append(cost, k)

Untimed(k) == stream' = stream \o Kernels(k) /\ UNCHANGED <<stamp, cost>>

(* benchmark: the warm-up, the device drained after it; then all calls, a  *)
(* pair of events for each; then the times. *)
Benchmark(k) ==
  /\ Uses("benchmark") /\ calls < warmup_iters + profile_iters
  /\ calls = warmup_iters => Synchronized
  /\ IF calls < warmup_iters THEN Untimed(k) ELSE Timed(calls + 1 - warmup_iters, k)
  /\ calls' = calls + 1 /\ launched' = launched + k
  /\ UNCHANGED <<executed, events, open, elapsed>>

BenchmarkReport ==
  /\ client = "benchmark" /\ calls = warmup_iters + profile_iters
  /\ elapsed = NoResult
  /\ Synchronized
  /\ elapsed' = TimesOf(1..profile_iters)
  /\ UNCHANGED <<device, launched, cost, events, open, client, calls>>

(* profile_generation_loop: one pair of events for all steps, so every     *)
(* step is read before the next one; step 0 (ttft_ms) is run in any case. *)
Steps == IF gen_len = 0 THEN 1 ELSE gen_len

(* (no synchronize before the next step) *)
ReadLate == TRUE

StepIsRead == Len(elapsed.times) = Len(cost)

GenerationStep(k) ==
  /\ Uses("generation") /\ calls < warmup_iters + Steps
  /\ calls = warmup_iters => Synchronized
  /\ StepIsRead
  /\ IF calls < warmup_iters THEN Untimed(k) ELSE Timed(1, k)
  /\ calls' = calls + 1 /\ launched' = launched + k
  /\ UNCHANGED <<executed, events, open, elapsed>>

ReadStep ==
  /\ client = "generation" /\ Len(elapsed.times) < Len(cost)
  /\ Synchronized
  /\ elapsed' = [elapsed EXCEPT !.times = Append(@, elapsed_time(1))]
  /\ UNCHANGED <<device, launched, cost, events, open, client, calls>>

-----------------------------------------------------------------------------
TimingNext ==
  \/ Execute
  \/ \E u \in Users : Launch(u) \/ Stop(u) \/ \E tag \in Tags : Start(u, tag)
  \/ Calculate \/ Reset
  \/ \E k \in 0..MaxKernels : Benchmark(k) \/ GenerationStep(k)
  \/ BenchmarkReport \/ ReadStep

TimingSpec == TimingInit /\ [][TimingNext]_timingVars

-----------------------------------------------------------------------------
(* Types, and that what is open is on the way to be stopped. *)
TimingTypeOK ==
  /\ DOMAIN stamp \subseteq {"start", "end"} \X DOMAIN (cost \o <<0>>)
  /\ \A e \in DOMAIN stamp : stamp[e] \in 0..executed
  /\ executed + Len(SelectSeq(stream, LAMBDA i : i = Kernel)) = launched
  /\ \A t \in DOMAIN events : Range(events[t]) \subseteq DOMAIN cost
  /\ elapsed.raised \in BOOLEAN

(* profile_section is there "to measure GPU section latency via CUDA       *)
(* events" (cuda_event_tracer.py:87) though the device runs behind the     *)
(* host: every time that is reported is that of the kernels launched       *)
(* inside of the section, call or step it is reported for, and, unless a   *)
(* section is still open, elapsed_time finds every event reached.          *)
EachCallTimed ==
  /\ \A i \in DOMAIN elapsed.times : elapsed.times[i] = cost[i]
  /\ elapsed.raised => elapsed.busy
=============================================================================
