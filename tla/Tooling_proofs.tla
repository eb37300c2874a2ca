--------------------------- MODULE Tooling_proofs ---------------------------
(***************************************************************************)
(* Proofs about the autotuner, the profiler, the experiment log and the    *)
(* suite that logs to it, the Pareto frontier and the regression gate.     *)
(*                                                                         *)
(* KernelDispatcher, for any threads, keys, variants and measurements.     *)
(* That a thread tunes a key once follows from what its counter says of    *)
(* the cache: a thread that has stored a winner finds some winner in the   *)
(* cache until it is cleared, and a thread that is tuning has not stored   *)
(* one.  The first part needs that no tuning elects the empty name, hence  *)
(* the invariant on best_latency_ms.                                       *)
(*                                                                         *)
(* NsightProfiling, for any profilers, commands, launches and metrics,     *)
(* under the two conditions ReportOfOwnRun names: a directory for each     *)
(* profiler, and rows that are not cut.  The inductive invariant says that *)
(* the rows in the file and those ncu has still to write are together the  *)
(* rows of the profiler's own command; what _parse_ncu_csv makes of the    *)
(* rows of a command is arithmetic on their positions.                     *)
(*                                                                         *)
(* ExperimentTracking and BenchmarkSuite, for any loggers, files and       *)
(* texts.  A run_id belongs to one run, and a run that is open to one      *)
(* logger; so nobody else writes below the run_id of an open run, whose    *)
(* manifest is written once, when it is left.  The suite adds what has     *)
(* been logged at each place of it.                                        *)
(*                                                                         *)
(* EventTiming, for any number of kernels and of sections with different   *)
(* tags.  What an event's time will be is settled when it is recorded: by  *)
(* the kernels launched before it.  The inductive invariant gives every    *)
(* event this time, whether the device has reached it or not, and says of  *)
(* the clients' pairs that they lie around the kernels of their section.   *)
(*                                                                         *)
(* The Pareto frontier of EvaluationMetrics, for any finite set of         *)
(* objectives.  To dominate is a strict order; so of the points that       *)
(* dominate a given one, one that the fewest dominate is not dominated     *)
(* and stays on the list, whatever has been dropped before.                *)
(*                                                                         *)
(* BenchmarkGate, for any baselines, requests and bounds under which every *)
(* prompt fits.  The queue is what is left of the requests in their order, *)
(* and the tokens left shrink in every round, because an idle batch admits *)
(* the head of the queue.                                                  *)
(***************************************************************************)
EXTENDS KernelDispatcher, NsightProfiling, BenchmarkSuite, EventTiming,
        EvaluationMetrics, BenchmarkGate, SequenceTheorems, FiniteSetTheorems,
        SumTheorems, TLAPS


Calls == [pc : {"ready", "tune", "dispatch", "launched", "threw"},
          key : Keys, candidates : SUBSET Variants,
          winner : Variants \cup {NoVariant}, best : Latencies \cup {Infinite}]

IsTable == measured = [t \in Threads |-> measured[t]]

Types ==
  /\ cache \in [Keys -> Variants \cup {NoVariant}]
  /\ call \in [Threads -> Calls]
  /\ tuned \in [Threads -> [Keys -> Nat]]
  /\ IsTable
  /\ \A t \in Threads :
       /\ DOMAIN measured[t] \subseteq call[t].candidates
       /\ \A v \in DOMAIN measured[t] : measured[t][v] \in Latencies
       /\ call[t].pc \in {"dispatch", "launched"} => call[t].winner # NoVariant

(* best_latency_ms is the least measurement of the loop so far. *)
BestKept(t) ==
  /\ call[t].pc = "tune" => call[t].candidates # {}
  /\ call[t].pc = "tune" /\ DOMAIN measured[t] = {} =>
       call[t].best = Infinite
  /\ call[t].pc \in {"tune", "dispatch", "launched"}
     /\ DOMAIN measured[t] # {} =>
       /\ call[t].winner \in DOMAIN measured[t]
       /\ measured[t][call[t].winner] = call[t].best
       /\ \A v \in DOMAIN measured[t] : call[t].best <= measured[t][v]

(* The counter of tunings against the cache. *)
TunedOnce(t) ==
  \A k \in Keys :
    /\ tuned[t][k] <= 1
    /\ tuned[t][k] # 0 => cache[k] # NoVariant
    /\ call[t].pc = "tune" /\ call[t].key = k => tuned[t][k] = 0

IInv == Types /\ \A t \in Threads : BestKept(t) /\ TunedOnce(t)

-----------------------------------------------------------------------------
(* A measurement is an integer below the initial value of the minimum. *)
LEMMA LatencyFacts ==
  /\ Infinite \in Nat
  /\ \A l \in Latencies : l \in Nat /\ l < Infinite
BY DispatcherAssumption

(* The initial state satisfies the invariant. *)
LEMMA InitIInv == Init => IInv
<1> SUFFICES ASSUME Init PROVE IInv
  OBVIOUS
<1>1. Ready \in Calls /\ Ready.pc = "ready"
  BY DispatcherAssumption DEF Ready, Calls
<1>2. DOMAIN Nothing = {}
  BY DEF Nothing
<1>3. Types
  BY <1>1, <1>2 DEF Init, Types, IsTable
<1>4. \A t \in Threads : BestKept(t)
  BY <1>1 DEF Init, BestKept
<1>5. \A t \in Threads : TunedOnce(t)
  BY <1>1 DEF Init, TunedOnce
<1> QED
  BY <1>3, <1>4, <1>5 DEF IInv
-----------------------------------------------------------------------------
(* A lookup tunes only what it did not find. *)
LEMMA LookupStep ==
  ASSUME IInv, NEW t \in Threads, NEW k \in Keys,
         NEW candidates \in SUBSET Variants, Lookup(t, k, candidates)
  PROVE  IInv'
<1> DEFINE pc == AfterLookup(cache[k], candidates)
<1> USE DEF IInv
<1>1. /\ pc \in {"dispatch", "threw", "tune"}
      /\ pc = "dispatch" => cache[k] # NoVariant
      /\ pc = "tune" => cache[k] = NoVariant /\ candidates # {}
  BY DEF AfterLookup
<1>2. call'[t] = [pc |-> pc, key |-> k, candidates |-> candidates,
                  winner |-> cache[k], best |-> Infinite]
  BY DEF Lookup, Types, IsTable
<1>3. DOMAIN measured'[t] = {}
  BY DEF Lookup, Types, IsTable, Nothing
<1>4. \A u \in Threads \ {t} : call'[u] = call[u] /\ measured'[u] = measured[u]
  BY DEF Lookup, Types, IsTable
<1>5. Types'
  <2>1. call'[t] \in Calls
    BY <1>1, <1>2 DEF Calls, Types
  <2> QED
    BY <1>1, <1>2, <1>3, <1>4, <2>1 DEF Lookup, Types, IsTable
<1>6. \A u \in Threads : BestKept(u)'
  BY <1>1, <1>2, <1>3, <1>4 DEF BestKept
<1>7. \A u \in Threads : TunedOnce(u)'
  BY <1>1, <1>2, <1>4 DEF Lookup, TunedOnce, Types
<1> QED
  BY <1>5, <1>6, <1>7

(* The minimum and its candidate move together. *)
LEMMA MeasureStep ==
  ASSUME IInv, NEW t \in Threads, NEW v \in Variants,
         NEW latency \in Latencies, Measure(t, v, latency)
  PROVE  IInv'
<1> USE DEF IInv
<1>1. /\ DOMAIN measured'[t] = DOMAIN measured[t] \cup {v}
      /\ v \in call[t].candidates /\ v \notin DOMAIN measured[t]
      /\ measured'[t][v] = latency
      /\ \A w \in DOMAIN measured[t] : measured'[t][w] = measured[t][w]
  BY DEF Measure, Types, IsTable
<1>2. /\ call[t].pc = "tune" /\ call'[t].pc = "tune"
      /\ call'[t].key = call[t].key
      /\ call'[t].candidates = call[t].candidates
      /\ call'[t] \in Calls
      /\ IsFaster(latency, call[t].best)
           => call'[t].winner = v /\ call'[t].best = latency
      /\ ~IsFaster(latency, call[t].best)
           => call'[t].winner = call[t].winner /\ call'[t].best = call[t].best
  BY DEF Measure, Types, Calls
<1>3. \A u \in Threads \ {t} : call'[u] = call[u] /\ measured'[u] = measured[u]
  BY DEF Measure, Types, IsTable
<1>4. Types'
  <2>1. call' \in [Threads -> Calls]
    BY <1>2 DEF Measure, Types
  <2>2. IsTable'
    BY DEF Measure, Types, IsTable
  <2>3. \A u \in Threads :
          /\ DOMAIN measured'[u] \subseteq call'[u].candidates
          /\ \A w \in DOMAIN measured'[u] : measured'[u][w] \in Latencies
    BY <1>1, <1>2, <1>3 DEF Types
  <2>4. \A u \in Threads :
          call'[u].pc \in {"dispatch", "launched"} => call'[u].winner # NoVariant
    BY <1>2, <1>3 DEF Types
  <2>5. cache' = cache /\ tuned' = tuned
    BY DEF Measure
  <2> QED
    BY <2>1, <2>2, <2>3, <2>4, <2>5 DEF Types
<1>5. BestKept(t)'
  <2>1. \A w \in DOMAIN measured[t] : measured[t][w] \in Nat
    BY LatencyFacts DEF Types
  <2>2. call[t].best \in Nat /\ latency \in Nat /\ latency < Infinite
    BY LatencyFacts DEF Types, Calls
  <2>3. CASE IsFaster(latency, call[t].best)
    BY <1>1, <1>2, <2>1, <2>2, <2>3 DEF BestKept, IsFaster
  <2>4. CASE ~IsFaster(latency, call[t].best)
    BY <1>1, <1>2, <2>1, <2>2, <2>4 DEF BestKept, IsFaster
  <2> QED
    BY <2>3, <2>4
<1>6. \A u \in Threads \ {t} : BestKept(u)'
  BY <1>3 DEF BestKept
<1>7. \A u \in Threads : TunedOnce(u)'
  BY <1>2, <1>3 DEF Measure, TunedOnce, Types
<1> QED
  BY <1>4, <1>5, <1>6, <1>7

(* The winner of a tuning is stored, and is not the empty name. *)
LEMMA StoreStep ==
  ASSUME IInv, NEW t \in Threads, Store(t)
  PROVE  IInv'
<1> DEFINE k == call[t].key
<1> USE DEF IInv
<1>1. /\ call[t].pc = "tune" /\ k \in Keys
      /\ DOMAIN measured[t] = call[t].candidates
      /\ call[t].candidates # {} /\ call[t].candidates \subseteq Variants
      /\ call[t].winner \in Variants
  BY DEF Store, Types, Calls, BestKept
<1>2. call[t].winner # NoVariant
  BY <1>1, DispatcherAssumption
<1>3. /\ call'[t] \in Calls /\ call'[t].pc = "dispatch"
      /\ call'[t].key = k /\ call'[t].candidates = call[t].candidates
      /\ call'[t].winner = call[t].winner /\ call'[t].best = call[t].best
  BY DEF Store, Types, Calls
<1>4. \A u \in Threads \ {t} : call'[u] = call[u] /\ tuned'[u] = tuned[u]
  BY DEF Store, Types
<1>5. /\ cache' \in [Keys -> Variants \cup {NoVariant}]
      /\ cache'[k] = call[t].winner
      /\ \A j \in Keys \ {k} : cache'[j] = cache[j]
  BY <1>1 DEF Store, Types
<1>6. /\ tuned[t] \in [Keys -> Nat] /\ tuned' \in [Threads -> [Keys -> Nat]]
      /\ tuned'[t][k] = tuned[t][k] + 1
      /\ \A j \in Keys \ {k} : tuned'[t][j] = tuned[t][j]
  <2> DEFINE row == OneMore(tuned[t], k)
  <2>1. tuned[t] \in [Keys -> Nat]
    BY DEF Types
  <2>2. /\ row \in [Keys -> Nat] /\ row[k] = tuned[t][k] + 1
        /\ \A j \in Keys \ {k} : row[j] = tuned[t][j]
    BY <1>1, <2>1 DEF OneMore
  <2>3. tuned' = [tuned EXCEPT ![t] = row]
    BY DEF Store
  <2> HIDE DEF row
  <2>4. tuned'[t] = row /\ tuned' \in [Threads -> [Keys -> Nat]]
    BY <2>2, <2>3 DEF Types
  <2> QED
    BY <2>1, <2>2, <2>4
<1>7. Types'
  <2>1. call' \in [Threads -> Calls]
    BY <1>3 DEF Store, Types
  <2> QED
    BY <1>2, <1>3, <1>4, <1>5, <1>6, <2>1 DEF Store, Types, IsTable
<1>8. \A u \in Threads : BestKept(u)'
  BY <1>1, <1>3, <1>4 DEF Store, BestKept
<1>9. TunedOnce(t)'
  BY <1>1, <1>2, <1>3, <1>5, <1>6 DEF TunedOnce
<1>10. \A u \in Threads \ {t} : TunedOnce(u)'
  BY <1>2, <1>4, <1>5 DEF TunedOnce
<1> QED
  BY <1>7, <1>8, <1>9, <1>10

(* Steps that only move a thread out of the tuning. *)
LEMMA LeaveStep ==
  ASSUME IInv, NEW t \in Threads,
         MeasureThrows(t) \/ Dispatch(t)
  PROVE  IInv'
<1> USE DEF IInv
<1>1. /\ call'[t] \in Calls /\ call'[t].pc \in {"threw", "launched"}
      /\ call'[t].key = call[t].key
      /\ call'[t].candidates = call[t].candidates
      /\ call'[t].winner = call[t].winner /\ call'[t].best = call[t].best
      /\ call'[t].pc = "launched" => call[t].pc = "dispatch"
  BY DEF MeasureThrows, Dispatch, Types, Calls
<1>2. /\ cache' = cache /\ measured' = measured /\ tuned' = tuned
      /\ \A u \in Threads \ {t} : call'[u] = call[u]
  BY DEF MeasureThrows, Dispatch, Types
<1>3. Types'
  <2>1. call' \in [Threads -> Calls]
    BY <1>1 DEF MeasureThrows, Dispatch, Types
  <2> QED
    BY <1>1, <1>2, <2>1 DEF Types, IsTable
<1>4. \A u \in Threads : BestKept(u)'
  BY <1>1, <1>2 DEF BestKept
<1>5. \A u \in Threads : TunedOnce(u)'
  BY <1>1, <1>2 DEF TunedOnce
<1> QED
  BY <1>3, <1>4, <1>5

LEMMA ReturnStep ==
  ASSUME IInv, NEW t \in Threads, Return(t)
  PROVE  IInv'
<1> USE DEF IInv
<1>1. Ready \in Calls /\ Ready.pc = "ready"
  BY DispatcherAssumption DEF Ready, Calls
<1>2. call'[t] = Ready /\ DOMAIN measured'[t] = {}
  BY DEF Return, Types, IsTable, Nothing
<1>3. \A u \in Threads \ {t} : call'[u] = call[u] /\ measured'[u] = measured[u]
  BY DEF Return, Types, IsTable
<1>4. Types'
  BY <1>1, <1>2, <1>3 DEF Return, Types, IsTable
<1>5. \A u \in Threads : BestKept(u)'
  BY <1>1, <1>2, <1>3 DEF BestKept
<1>6. \A u \in Threads : TunedOnce(u)'
  BY <1>1, <1>2, <1>3 DEF Return, TunedOnce
<1> QED
  BY <1>4, <1>5, <1>6

LEMMA ClearStep == ASSUME IInv, clear_cache PROVE IInv'
BY DEF IInv, clear_cache, Types, IsTable, BestKept, TunedOnce

-----------------------------------------------------------------------------
(* The invariant holds in every reachable state. *)
THEOREM InductiveInvariant == Spec => []IInv
<1>1. IInv /\ [Next]_vars => IInv'
  <2> SUFFICES ASSUME IInv, [Next]_vars PROVE IInv'
    OBVIOUS
  <2>1. CASE UNCHANGED vars
    BY <2>1 DEF vars, IInv, Types, IsTable, BestKept, TunedOnce
  <2>2. CASE clear_cache
    BY <2>2, ClearStep
  <2>3. ASSUME NEW t \in Threads,
               \/ \E k \in Keys, candidates \in SUBSET Variants :
                    Lookup(t, k, candidates)
               \/ \E v \in Variants, latency \in Latencies :
                    Measure(t, v, latency)
               \/ MeasureThrows(t) \/ Store(t) \/ Dispatch(t) \/ Return(t)
        PROVE  IInv'
    BY <2>3, LookupStep, MeasureStep, StoreStep, LeaveStep, ReturnStep
  <2> QED
    BY <2>1, <2>2, <2>3 DEF Next
<1> QED
  BY InitIInv, <1>1, PTL DEF Spec

(* The types, and that a call about to launch has a winner. *)
THEOREM TypeCorrect == Spec => []TypeOK
<1>1. IInv => TypeOK
  BY DEF IInv, Types, TypeOK, Calls
<1> QED
  BY InductiveInvariant, <1>1, PTL

(* What a thread launches after tuning was the fastest of its candidates   *)
(* by its own measurements, in whatever order the map yields them.         *)
THEOREM FastestElected == Spec => []ElectsFastest
<1>1. IInv => ElectsFastest
  BY DEF IInv, BestKept, ElectsFastest
<1> QED
  BY InductiveInvariant, <1>1, PTL

(* However many threads race between the lookup and the store, none tunes  *)
(* a key twice before the cache is cleared.                                *)
THEOREM TunedAtMostOnce == Spec => []OneTuningEach
<1>1. IInv => OneTuningEach
  BY DEF IInv, TunedOnce, OneTuningEach
<1> QED
  BY InductiveInvariant, <1>1, PTL

-----------------------------------------------------------------------------
Columns == Len(target_metrics)

RowSeqs(work) == Seq(Range(RowsOf(work)))

(* The invariant. *)
Records ==
  profile = [p \in Profilers |->
    [pc |-> profile[p].pc, work |-> profile[p].work, rows |-> profile[p].rows,
     calls |-> profile[p].calls, report |-> profile[p].report]]

FileOfOwnRun ==
  \A p \in Profilers : profile[p].pc = "ncu" =>
    /\ profile[p].work \in Commands /\ p \in DOMAIN csv
    /\ csv[p] \in RowSeqs(profile[p].work)
    /\ profile[p].rows \in RowSeqs(profile[p].work)
    /\ csv[p] \o profile[p].rows = RowsOf(profile[p].work)

ReportOfOwnRows ==
  \A p \in Profilers : profile[p].pc = "done" =>
    /\ profile[p].work \in Commands
    /\ profile[p].report = Parsed(RowsOf(profile[p].work))

NsightInv == Records /\ FileOfOwnRun /\ ReportOfOwnRows

-----------------------------------------------------------------------------
(* A set of positions that is not empty has a last one. *)
LEMMA LastPosition ==
  ASSUME NEW n \in Nat, NEW S \in SUBSET (1..n), S # {}
  PROVE  Max(S) \in S /\ \A i \in S : Max(S) >= i
<1> DEFINE T == {m \in Nat : n - m \in S}
<1>1. S \subseteq Int /\ \A i \in S : i <= n
  OBVIOUS
<1>2. T \subseteq Nat /\ \A i \in S : n - i \in T
  BY <1>1
<1>3. T # {}
  BY <1>2
<1>4. PICK m \in T : \A k \in T : ~(<<k, m>> \in NatLess)
  BY <1>2, <1>3, WFMin, NatLessIsWellFounded
<1>5. \A k \in T : m <= k
  <2> SUFFICES ASSUME NEW k \in T PROVE m <= k
    OBVIOUS
  <2>1. k \in Nat /\ m \in Nat /\ ~(<<k, m>> \in NatLess)
    BY <1>2, <1>4
  <2>2. ~(k < m)
    BY <2>1, NatLessIsLess
  <2> QED BY <2>1, <2>2
<1>6. n - m \in S
  BY <1>4
<1>7. \A j \in S : n - m >= j
  <2> SUFFICES ASSUME NEW j \in S PROVE n - m >= j
    OBVIOUS
  <2>1. m \in Nat /\ j \in Int
    BY <1>1, <1>2
  <2>2. m <= n - j
    BY <1>2, <1>5
  <2> QED BY <2>1, <2>2
<1> HIDE DEF T
<1> QED BY <1>6, <1>7 DEF Max

(* Division of positions into launches and metrics. *)
LEMMA Division ==
  ASSUME NEW q \in Nat, NEW n \in Nat \ {0}, NEW r \in 0..(n - 1)
  PROVE  (q * n + r) \div n = q /\ (q * n + r) % n = r
OBVIOUS

LEMMA DivisionMonotonic ==
  ASSUME NEW n \in Nat \ {0}, NEW a \in Nat, NEW b \in Nat, a <= b
  PROVE  a \div n <= b \div n
OBVIOUS

LEMMA DivisionBounded ==
  ASSUME NEW n \in Nat \ {0}, NEW L \in Nat, NEW a \in 0..(L * n - 1)
  PROVE  a \div n \in 0..(L - 1) /\ a % n \in 0..(n - 1)
OBVIOUS

-----------------------------------------------------------------------------
(* The rows of a command are its launches one after the other, each with   *)
(* all columns. *)
LEMMA CommandShape ==
  ASSUME NEW work \in Commands
  PROVE  /\ Columns \in Nat \ {0} /\ Len(work) \in Nat
         /\ DOMAIN work = 1..Len(work)
         /\ Range(work) = {work[j] : j \in 1..Len(work)}
         /\ \A j \in 1..Len(work) : work[j].kernel # Short
         /\ DOMAIN target_metrics = 1..Columns
<1>1. Columns \in Nat \ {0} /\ DOMAIN target_metrics = 1..Columns
  BY NsightAssumption DEF Columns
<1>2. work \in Seq(Range(work)) /\ \A launch \in Range(work) : launch.kernel # Short
  BY CommandAssumption
<1>3. Len(work) \in Nat /\ DOMAIN work = 1..Len(work)
  BY <1>2
<1>4. Range(work) = {work[j] : j \in 1..Len(work)}
  BY <1>3 DEF Range
<1> QED BY <1>1, <1>2, <1>3, <1>4

LEMMA RowsShape ==
  ASSUME NEW work \in Commands
  PROVE  /\ Len(work) * Columns \in Nat
         /\ DOMAIN RowsOf(work) = 1..(Len(work) * Columns)
         /\ RowsOf(work) \in RowSeqs(work)
<1>1. Len(work) * Columns \in Nat
  BY CommandShape
<1>2. DOMAIN RowsOf(work) = 1..(Len(work) * Columns)
  BY DEF RowsOf, Columns
<1>3. RowsOf(work) = [i \in 1..(Len(work) * Columns) |-> RowsOf(work)[i]]
  BY DEF RowsOf, Columns
<1>4. \A i \in 1..(Len(work) * Columns) : RowsOf(work)[i] \in Range(RowsOf(work))
  BY <1>2 DEF Range
<1> QED BY <1>1, <1>2, <1>3, <1>4 DEF RowSeqs

(* The launch and the column of a row. *)
LEMMA RowAt ==
  ASSUME NEW work \in Commands, NEW i \in 1..(Len(work) * Columns)
  PROVE  LET j == ((i - 1) \div Columns) + 1
             c == ((i - 1) % Columns) + 1
         IN /\ j \in 1..Len(work) /\ c \in 1..Columns
            /\ RowsOf(work)[i].kernel = work[j].kernel
            /\ RowsOf(work)[i].metric = target_metrics[c]
            /\ RowsOf(work)[i].value = work[j].values[target_metrics[c]]
<1>1. i - 1 \in 0..(Len(work) * Columns - 1)
  BY RowsShape
<1>2. (i - 1) \div Columns \in 0..(Len(work) - 1) /\ (i - 1) % Columns \in 0..(Columns - 1)
  BY <1>1, CommandShape, DivisionBounded
<1>3. ((i - 1) \div Columns) + 1 \in 1..Len(work) /\ ((i - 1) % Columns) + 1 \in 1..Columns
  BY <1>2, CommandShape
<1> QED BY <1>3 DEF RowsOf, Columns

(* The row of a launch and a column. *)
LEMMA RowOf ==
  ASSUME NEW work \in Commands, NEW j \in 1..Len(work), NEW c \in 1..Columns
  PROVE  LET i == (j - 1) * Columns + c
         IN /\ i \in 1..(Len(work) * Columns)
            /\ (i - 1) \div Columns = j - 1 /\ (i - 1) % Columns = c - 1
<1>1. Columns \in Nat \ {0} /\ Len(work) \in Nat
  BY CommandShape
<1>2. ((j - 1) * Columns + (c - 1)) \div Columns = j - 1
      /\ ((j - 1) * Columns + (c - 1)) % Columns = c - 1
  <2>1. j - 1 \in Nat /\ c - 1 \in 0..(Columns - 1)
    BY <1>1
  <2> QED BY <1>1, <2>1, Division
<1>3. (j - 1) * Columns \in Nat /\ (j - 1) * Columns + Columns = j * Columns
  BY <1>1
<1>4. j * Columns <= Len(work) * Columns
  BY <1>1
<1> QED BY <1>1, <1>2, <1>3, <1>4

(* What the parser keeps of a kernel and a metric is that of the last      *)
(* launch of the kernel.                                                   *)
LEMMA LastOfCommand ==
  ASSUME NEW work \in Commands, NEW m \in Range(target_metrics),
         NEW l \in 1..Len(work)
  PROVE  LastValue(RowsOf(work), work[l].kernel, m)
           = Value([value |-> LastLaunch(work, work[l].kernel).values[m]])
<1> DEFINE k == work[l].kernel
           rows == RowsOf(work)
           launches == {j \in DOMAIN work : work[j].kernel = k}
           at == {i \in DOMAIN rows : rows[i].kernel = k /\ rows[i].metric = m}
           j == Max(launches)
           i == Max(at)
           q == (i - 1) \div Columns
<1>1. Columns \in Nat \ {0} /\ Len(work) \in Nat /\ Len(work) * Columns \in Nat
  BY CommandShape, RowsShape
<1>2. j \in launches /\ \A x \in launches : j >= x
  <2>1. launches \in SUBSET (1..Len(work)) /\ l \in launches
    BY CommandShape
  <2> HIDE DEF launches
  <2> QED BY <1>1, <2>1, LastPosition
<1>3. j \in 1..Len(work) /\ work[j].kernel = k
  BY <1>2, CommandShape
<1>4. PICK c \in 1..Columns : target_metrics[c] = m
  BY CommandShape DEF Range
<1>5. (j - 1) * Columns + c \in at
  <2> HIDE DEF j, k
  <2> DEFINE x == (j - 1) * Columns + c
  <2>1. x \in 1..(Len(work) * Columns) /\ (x - 1) \div Columns = j - 1
        /\ (x - 1) % Columns = c - 1
    BY <1>3, RowOf
  <2> HIDE DEF x
  <2>2. rows[x].kernel = work[(j - 1) + 1].kernel
        /\ rows[x].metric = target_metrics[(c - 1) + 1]
    BY <2>1, RowAt
  <2>3. (j - 1) + 1 = j /\ (c - 1) + 1 = c
    BY <1>1, <1>3
  <2>4. x \in DOMAIN rows
    BY <2>1, RowsShape
  <2> QED BY <2>2, <2>3, <2>4, <1>3, <1>4 DEF x
<1>6. i \in at /\ \A x \in at : i >= x
  <2>1. at \in SUBSET (1..(Len(work) * Columns))
    BY RowsShape
  <2> HIDE DEF at
  <2> QED BY <1>1, <1>5, <2>1, LastPosition
<1>7. /\ i \in 1..(Len(work) * Columns) /\ rows[i].kernel = k /\ rows[i].metric = m
      /\ i >= (j - 1) * Columns + c
  BY <1>5, <1>6, RowsShape
<1> HIDE DEF i, j, k, rows
<1>8. /\ q + 1 \in 1..Len(work) /\ rows[i].kernel = work[q + 1].kernel
      /\ rows[i].value = work[q + 1].values[m]
  BY <1>7, RowAt DEF rows
<1>9. q + 1 <= j
  BY <1>2, <1>7, <1>8, CommandShape
<1>10. q \in Int /\ j - 1 <= q
  <2>1. (j - 1) * Columns + (c - 1) \in Nat /\ i - 1 \in Nat
        /\ (j - 1) * Columns + (c - 1) <= i - 1
    <3>1. j - 1 \in Nat /\ c \in Nat \ {0} /\ i \in Nat \ {0} /\ Columns \in Nat
      BY <1>1, <1>3, <1>7
    <3>2. PICK x \in Nat : x = (j - 1) * Columns
      BY ONLY <3>1
    <3>3. i >= x + c
      BY <1>7, <3>2
    <3> QED BY ONLY <3>1, <3>2, <3>3
  <2>2. j - 1 \in Nat /\ c - 1 \in 0..(Columns - 1)
    BY <1>1, <1>3
  <2>3. ((j - 1) * Columns + (c - 1)) \div Columns = j - 1
    BY <1>1, <2>2, Division
  <2>4. q \in Int
    BY <1>1, <2>1
  <2> QED BY <1>1, <2>1, <2>3, <2>4, DivisionMonotonic
<1>11. q + 1 = j
  <2> HIDE DEF q
  <2> QED BY <1>1, <1>3, <1>9, <1>10
<1>12. rows[i].value = work[j].values[m]
  BY <1>8, <1>11
<1>13. LastValue(rows, k, m) = Value(rows[i])
  BY <1>6 DEF LastValue, i
<1>14. LastLaunch(work, k) = work[j]
  BY DEF LastLaunch, j
<1> QED BY <1>12, <1>13, <1>14 DEF Value, rows, k

(* The report on the rows of a command. *)
LEMMA ParsedRows ==
  ASSUME NEW work \in Commands
  PROVE  LET report == Parsed(RowsOf(work))
         IN /\ DOMAIN report = {launch.kernel : launch \in Range(work)}
            /\ \A k \in DOMAIN report : \A m \in Range(target_metrics) :
                 report[k][m] = Value([value |-> LastLaunch(work, k).values[m]])
<1> DEFINE report == Parsed(RowsOf(work))
           kernels == {work[l].kernel : l \in 1..Len(work)}
<1>1. kernels = {launch.kernel : launch \in Range(work)}
  BY CommandShape
<1>2. DOMAIN report = {row.kernel : row \in Whole(RowsOf(work))}
  BY DEF Parsed
<1>3. ASSUME NEW row \in Whole(RowsOf(work)) PROVE row.kernel \in kernels
  <2>1. PICK i \in 1..(Len(work) * Columns) : row = RowsOf(work)[i]
    BY RowsShape DEF Whole, Range
  <2> QED BY <2>1, RowAt
<1>4. ASSUME NEW l \in 1..Len(work)
      PROVE  \E row \in Whole(RowsOf(work)) : row.kernel = work[l].kernel
  <2> DEFINE x == (l - 1) * Columns + 1
  <2>1. 1 \in 1..Columns
    BY CommandShape
  <2>2. x \in 1..(Len(work) * Columns) /\ (x - 1) \div Columns = l - 1
    BY <2>1, RowOf
  <2> HIDE DEF x
  <2>3. RowsOf(work)[x].kernel = work[(l - 1) + 1].kernel
    BY <2>2, RowAt
  <2>4. (l - 1) + 1 = l
    BY CommandShape
  <2>5. RowsOf(work)[x] \in Whole(RowsOf(work))
    BY <2>2, <2>3, <2>4, RowsShape, CommandShape DEF Whole, Range
  <2> QED BY <2>3, <2>4, <2>5
<1>5. DOMAIN report = kernels
  BY <1>2, <1>3, <1>4
<1>6. ASSUME NEW k \in kernels, NEW m \in Range(target_metrics)
      PROVE  report[k][m] = Value([value |-> LastLaunch(work, k).values[m]])
  <2>1. PICK l \in 1..Len(work) : k = work[l].kernel
    OBVIOUS
  <2>2. report[k][m] = LastValue(RowsOf(work), k, m)
    BY <1>2, <1>5 DEF Parsed
  <2> QED BY <2>1, <2>2, LastOfCommand
<1> QED BY <1>1, <1>5, <1>6

-----------------------------------------------------------------------------
(* The steps. *)
LEMMA FileWithRows ==
  ASSUME NEW file, NEW rows
  PROVE  /\ file \in DOMAIN FileWith(file, rows) /\ FileWith(file, rows)[file] = rows
         /\ \A f \in DOMAIN csv : f # file =>
              f \in DOMAIN FileWith(file, rows) /\ FileWith(file, rows)[f] = csv[f]
BY DEF FileWith

(* A step of one profiler leaves the others and their files alone. *)
LEMMA OnlyOwnFile ==
  ASSUME ~SharedDir, NsightInv, NEW p \in Profilers,
         NEW record,
         profile' = [profile EXCEPT ![p] = record],
         \A f \in DOMAIN csv : f # p => f \in DOMAIN csv' /\ csv'[f] = csv[f],
         record = [pc |-> record.pc, work |-> record.work, rows |-> record.rows,
                   calls |-> record.calls, report |-> record.report],
         record.pc = "ncu" =>
           /\ record.work \in Commands /\ p \in DOMAIN csv'
           /\ csv'[p] \in RowSeqs(record.work) /\ record.rows \in RowSeqs(record.work)
           /\ csv'[p] \o record.rows = RowsOf(record.work),
         record.pc = "done" =>
           record.work \in Commands /\ record.report = Parsed(RowsOf(record.work))
  PROVE  NsightInv'
<1>1. DOMAIN profile = Profilers
  BY DEF NsightInv, Records
<1>2. profile'[p] = record /\ \A o \in Profilers : o # p => profile'[o] = profile[o]
  BY <1>1
<1>3. Records'
  BY <1>1, <1>2 DEF NsightInv, Records
<1>4. FileOfOwnRun'
  <2> SUFFICES ASSUME NEW o \in Profilers, profile'[o].pc = "ncu"
               PROVE  /\ profile'[o].work \in Commands /\ o \in DOMAIN csv'
                      /\ csv'[o] \in RowSeqs(profile'[o].work)
                      /\ profile'[o].rows \in RowSeqs(profile'[o].work)
                      /\ csv'[o] \o profile'[o].rows = RowsOf(profile'[o].work)
    BY DEF FileOfOwnRun
  <2>1. CASE o = p
    BY <1>2, <2>1
  <2>2. CASE o # p
    <3>1. profile'[o] = profile[o] /\ o \in DOMAIN csv /\ csv'[o] = csv[o]
          /\ o \in DOMAIN csv'
      BY <1>2, <2>2 DEF NsightInv, FileOfOwnRun
    <3> QED BY <3>1 DEF NsightInv, FileOfOwnRun
  <2> QED BY <2>1, <2>2
<1>5. ReportOfOwnRows'
  <2> SUFFICES ASSUME NEW o \in Profilers, profile'[o].pc = "done"
               PROVE  /\ profile'[o].work \in Commands
                      /\ profile'[o].report = Parsed(RowsOf(profile'[o].work))
    BY DEF ReportOfOwnRows
  <2>1. CASE o = p
    BY <1>2, <2>1
  <2>2. CASE o # p
    BY <1>2, <2>2 DEF NsightInv, ReportOfOwnRows
  <2> QED BY <2>1, <2>2
<1> QED BY <1>3, <1>4, <1>5 DEF NsightInv

(* The state of a profiler is a record with its five fields. *)
LEMMA RecordOf ==
  ASSUME NsightInv, NEW p \in Profilers
  PROVE  /\ DOMAIN profile = Profilers
         /\ profile[p] = [pc |-> profile[p].pc, work |-> profile[p].work,
              rows |-> profile[p].rows, calls |-> profile[p].calls,
              report |-> profile[p].report]
<1>1. Records
  BY DEF NsightInv
<1> DEFINE R == [o \in Profilers |->
             [pc |-> profile[o].pc, work |-> profile[o].work, rows |-> profile[o].rows,
              calls |-> profile[o].calls, report |-> profile[o].report]]
<1>2. profile = R
  BY <1>1 DEF Records
<1>3. DOMAIN R = Profilers /\ R[p] =
        [pc |-> profile[p].pc, work |-> profile[p].work, rows |-> profile[p].rows,
         calls |-> profile[p].calls, report |-> profile[p].report]
  OBVIOUS
<1> HIDE DEF R
<1>4. profile[p] = R[p] /\ DOMAIN profile = DOMAIN R
  BY <1>2
<1> QED BY <1>3, <1>4

(* The records that the steps make, field by field. *)
LEMMA FieldUpdates ==
  ASSUME NEW r, NEW v,
         r = [pc |-> r.pc, work |-> r.work, rows |-> r.rows, calls |-> r.calls,
              report |-> r.report]
  PROVE  /\ [r EXCEPT !.pc = v]
              = [pc |-> v, work |-> r.work, rows |-> r.rows, calls |-> r.calls,
                 report |-> r.report]
         /\ [r EXCEPT !.rows = v]
              = [pc |-> r.pc, work |-> r.work, rows |-> v, calls |-> r.calls,
                 report |-> r.report]
         /\ [r EXCEPT !.report = v]
              = [pc |-> r.pc, work |-> r.work, rows |-> r.rows, calls |-> r.calls,
                 report |-> v]
<1> DEFINE pc == r.pc
           work == r.work
           rows == r.rows
           made == r.calls
           report == r.report
<1>0. r = [pc |-> pc, work |-> work, rows |-> rows, calls |-> made, report |-> report]
  OBVIOUS
<1> HIDE DEF pc, work, rows, made, report
<1>1. [r EXCEPT !.pc = v]
        = [pc |-> v, work |-> work, rows |-> rows, calls |-> made, report |-> report]
  BY <1>0
<1>2. [r EXCEPT !.rows = v]
        = [pc |-> pc, work |-> work, rows |-> v, calls |-> made, report |-> report]
  BY <1>0
<1>3. [r EXCEPT !.report = v]
        = [pc |-> pc, work |-> work, rows |-> rows, calls |-> made, report |-> v]
  BY <1>0
<1> QED BY <1>1, <1>2, <1>3 DEF pc, work, rows, made, report

LEMMA StartStep ==
  ASSUME ~SharedDir, NsightInv, NEW p \in Profilers, NEW work \in Commands,
         StartProfile(p, work)
  PROVE  NsightInv'
<1> DEFINE record == [pc |-> "ncu", work |-> work, rows |-> RowsOf(work),
                      calls |-> profile[p].calls + 1, report |-> <<>>]
<1>1. profile' = [profile EXCEPT ![p] = record] /\ csv' = FileWith(p, <<>>)
  BY DEF StartProfile, output_csv, AtStart
<1>2. record = [pc |-> record.pc, work |-> record.work, rows |-> record.rows,
                calls |-> record.calls, report |-> record.report]
      /\ record.pc = "ncu" /\ record.work = work /\ record.rows = RowsOf(work)
  OBVIOUS
<1>3. RowsOf(work) \in RowSeqs(work) /\ <<>> \in RowSeqs(work)
  BY RowsShape DEF RowSeqs
<1>4. <<>> \o RowsOf(work) = RowsOf(work)
  BY <1>3 DEF RowSeqs
<1>5. p \in DOMAIN csv' /\ csv'[p] = <<>>
      /\ \A f \in DOMAIN csv : f # p => f \in DOMAIN csv' /\ csv'[f] = csv[f]
  BY <1>1, FileWithRows
<1> HIDE DEF record
<1> QED BY <1>1, <1>2, <1>3, <1>4, <1>5, OnlyOwnFile

(* Moving the first row over leaves the rows together as they are. *)
LEMMA RowMoved ==
  ASSUME NEW S, NEW file \in Seq(S), NEW rows \in Seq(S), rows # <<>>
  PROVE  /\ Append(file, Head(rows)) \in Seq(S) /\ Tail(rows) \in Seq(S)
         /\ Append(file, Head(rows)) \o Tail(rows) = file \o rows
<1>1. /\ Head(rows) \in S /\ Tail(rows) \in Seq(S)
      /\ rows = <<Head(rows)>> \o Tail(rows)
  BY HeadTailProperties
<1>2. Append(file, Head(rows)) = file \o <<Head(rows)>>
  BY <1>1, AppendIsConcat
<1>3. (file \o <<Head(rows)>>) \o Tail(rows) = file \o (<<Head(rows)>> \o Tail(rows))
  BY <1>1, ConcatAssociative
<1> QED BY <1>1, <1>2, <1>3

LEMMA WriteStep ==
  ASSUME ~SharedDir, ~ShortRows, NsightInv, NEW p \in Profilers,
         NEW row \in NextRows(p), WriteRow(p, row)
  PROVE  NsightInv'
<1> DEFINE work == profile[p].work
           rows == profile[p].rows
           record == [profile[p] EXCEPT !.rows = Tail(rows)]
<1>1. /\ work \in Commands /\ p \in DOMAIN csv
      /\ csv[p] \in RowSeqs(work) /\ rows \in RowSeqs(work)
      /\ csv[p] \o rows = RowsOf(work)
  BY DEF NsightInv, FileOfOwnRun, WriteRow
<1>2. rows # <<>> /\ row = Head(rows)
  BY DEF NextRows
<1>3. profile' = [profile EXCEPT ![p] = record]
      /\ csv' = FileWith(p, Append(csv[p], Head(rows)))
  BY <1>2, RecordOf DEF WriteRow, output_csv
<1>4. record = [pc |-> profile[p].pc, work |-> work, rows |-> Tail(rows),
                calls |-> profile[p].calls, report |-> profile[p].report]
      /\ profile[p].pc = "ncu"
  <2>1. profile[p].pc = "ncu"
    BY DEF WriteRow
  <2> HIDE DEF rows
  <2> QED BY <2>1, RecordOf, FieldUpdates
<1>5. /\ Append(csv[p], Head(rows)) \in RowSeqs(work) /\ Tail(rows) \in RowSeqs(work)
      /\ Append(csv[p], Head(rows)) \o Tail(rows) = csv[p] \o rows
  <2> HIDE DEF work, rows
  <2> QED BY <1>1, <1>2, RowMoved DEF RowSeqs
<1>6. p \in DOMAIN csv' /\ csv'[p] = Append(csv[p], Head(rows))
      /\ \A f \in DOMAIN csv : f # p => f \in DOMAIN csv' /\ csv'[f] = csv[f]
  <2> DEFINE more == Append(csv[p], Head(rows))
  <2>1. csv' = FileWith(p, more)
    BY <1>3
  <2> HIDE DEF more
  <2>2. p \in DOMAIN csv' /\ csv'[p] = more
        /\ \A f \in DOMAIN csv : f # p => f \in DOMAIN csv' /\ csv'[f] = csv[f]
    BY <2>1, FileWithRows
  <2> QED BY <2>2 DEF more
<1> HIDE DEF record, rows, work
<1> QED BY <1>1, <1>3, <1>4, <1>5, <1>6, OnlyOwnFile

LEMMA FailStep ==
  ASSUME ~SharedDir, NsightInv, NEW p \in Profilers, NcuFails(p)
  PROVE  NsightInv'
<1> DEFINE record == [profile[p] EXCEPT !.pc = "failed"]
<1>1. profile' = [profile EXCEPT ![p] = record] /\ csv' = csv
  BY RecordOf DEF NcuFails
<1>2. record = [pc |-> "failed", work |-> profile[p].work, rows |-> profile[p].rows,
                calls |-> profile[p].calls, report |-> profile[p].report]
  BY RecordOf, FieldUpdates
<1> HIDE DEF record
<1> QED BY <1>1, <1>2, OnlyOwnFile

LEMMA ParseStep ==
  ASSUME ~SharedDir, NsightInv, NEW p \in Profilers, ParseCsv(p)
  PROVE  NsightInv'
<1> DEFINE work == profile[p].work
           record == [[profile[p] EXCEPT !.pc = "done"] EXCEPT !.report = Parsed(csv[p])]
<1>1. work \in Commands /\ csv[p] \in RowSeqs(work) /\ csv[p] \o <<>> = RowsOf(work)
  BY DEF ParseCsv, NsightInv, FileOfOwnRun
<1>2. csv[p] = RowsOf(work)
  BY <1>1 DEF RowSeqs
<1>3. profile' = [profile EXCEPT ![p] = record] /\ csv' = csv
  BY RecordOf DEF ParseCsv, output_csv
<1>4. record = [pc |-> "done", work |-> work, rows |-> profile[p].rows,
                calls |-> profile[p].calls, report |-> Parsed(RowsOf(work))]
  <2> DEFINE read == [profile[p] EXCEPT !.pc = "done"]
             report == Parsed(csv[p])
  <2>1. read = [pc |-> "done", work |-> profile[p].work, rows |-> profile[p].rows,
                calls |-> profile[p].calls, report |-> profile[p].report]
    BY RecordOf, FieldUpdates
  <2> HIDE DEF read, report
  <2>2. [read EXCEPT !.report = report]
          = [pc |-> "done", work |-> profile[p].work, rows |-> profile[p].rows,
             calls |-> profile[p].calls, report |-> report]
    BY <2>1
  <2> QED BY <1>2, <2>2 DEF read, report
<1> HIDE DEF record, work
<1> QED BY <1>1, <1>3, <1>4, OnlyOwnFile

-----------------------------------------------------------------------------
(* What profile_python_cmd returns is about its own command: the kernels   *)
(* of its launches and no other, each with the metrics of its last launch, *)
(* for any number of profilers, calls that failed before, launches and     *)
(* metrics, as long as no two profilers share a directory and no row of    *)
(* the file is cut. *)
THEOREM ReportsAreOwn ==
  ASSUME ~SharedDir, ~ShortRows
  PROVE  NsightSpec => []ReportOfOwnRun
<1>1. NsightInit => NsightInv
  BY DEF NsightInit, NotProfiling, NsightInv, Records, FileOfOwnRun, ReportOfOwnRows
<1>2. NsightInv /\ [NsightNext]_nsightVars => NsightInv'
  <2> SUFFICES ASSUME NsightInv, [NsightNext]_nsightVars PROVE NsightInv'
    OBVIOUS
  <2>1. ASSUME NEW p \in Profilers, NEW work \in Commands, StartProfile(p, work)
        PROVE  NsightInv'
    BY <2>1, StartStep
  <2>2. ASSUME NEW p \in Profilers, NEW row \in NextRows(p), WriteRow(p, row)
        PROVE  NsightInv'
    BY <2>2, WriteStep
  <2>3. ASSUME NEW p \in Profilers, NcuFails(p) PROVE NsightInv'
    BY <2>3, FailStep
  <2>4. ASSUME NEW p \in Profilers, ParseCsv(p) PROVE NsightInv'
    BY <2>4, ParseStep
  <2>5. CASE UNCHANGED nsightVars
    <3>1. csv' = csv /\ profile' = profile
      BY <2>5 DEF nsightVars
    <3> QED BY <3>1 DEF NsightInv, Records, FileOfOwnRun, ReportOfOwnRows
  <2> QED BY <2>1, <2>2, <2>3, <2>4, <2>5 DEF NsightNext
<1>3. NsightInv => ReportOfOwnRun
  <2> SUFFICES ASSUME NsightInv, NEW p \in Profilers, profile[p].pc = "done"
               PROVE  LET work == profile[p].work
                          report == profile[p].report
                      IN /\ DOMAIN report = {launch.kernel : launch \in Range(work)}
                         /\ \A k \in DOMAIN report : \A m \in Range(target_metrics) :
                              report[k][m] =
                                Value([value |-> LastLaunch(work, k).values[m]])
    BY DEF ReportOfOwnRun
  <2>1. profile[p].work \in Commands
        /\ profile[p].report = Parsed(RowsOf(profile[p].work))
    BY DEF NsightInv, ReportOfOwnRows
  <2> QED BY <2>1, ParsedRows
<1> QED BY <1>1, <1>2, <1>3, PTL DEF NsightSpec

-----------------------------------------------------------------------------
(***************************************************************************)
(* The experiment log, for any loggers, names, seeds, files and contents.  *)
(***************************************************************************)
OnePolicy == ~NestedRuns /\ ~SameSecond /\ ~RepeatedNames /\ ~LateLogs

Ids == (RunNames \cup {"eval_suite"}) \X Nat \X (Seeds \cup {42})
Items == {"metric", "tensor", "parameters", "latency", "accuracy"}
Artifacts == [name : FileNames, sha256 : Contents]
Outcomes == {"open", "returned", "raised", "interrupted", "died"}

RunRecords ==
  [id : Ids, status : {"RUNNING", "SUCCESS", "FAILED"}, data : SUBSET Items,
   artifacts : Seq(Artifacts), begun : Ids, outcome : Outcomes]

ManifestName == "run_manifest.json"

LogTypes ==
  /\ clock \in Nat /\ source \in [FileNames -> Contents]
  /\ runs \in Seq(RunRecords)
  /\ current \in [Loggers -> Nat] /\ context \in [Loggers -> Seq(Nat)]
  /\ storing \in [Loggers -> [id : Ids \cup {<<>>}, name : FileNames \cup {""}]]

(* A run has its manifest on disk from when it is left, and its artifacts  *)
(* from when they are indexed.                                             *)
Stored(r) ==
  \A i \in 1..Len(runs[r].artifacts) :
    /\ <<runs[r].id, runs[r].artifacts[i].name>> \in DOMAIN store
    /\ store[<<runs[r].id, runs[r].artifacts[i].name>>] = runs[r].artifacts[i].sha256

RunSound(r) ==
  /\ runs[r].begun = runs[r].id
  /\ runs[r].status = StatusAfter(runs[r].outcome, "RUNNING")
  /\ <<runs[r].id, ManifestName>> \in DOMAIN store <=> Left(runs[r])
  /\ Left(runs[r]) => store[<<runs[r].id, ManifestName>>] = Manifest(runs[r])
  /\ Stored(r)

(* A logger is inside of one run at most, which is open and its current    *)
(* one; what it is storing is a file of that run.                          *)
LoggerSound(l) ==
  /\ current[l] <= Len(runs)
  /\ context[l] # <<>> =>
       context[l] = <<current[l]>> /\ current[l] # 0 /\ runs[current[l]].outcome = "open"
  /\ storing[l] # NotStoring =>
       /\ context[l] # <<>> /\ storing[l].id = runs[current[l]].id
       /\ storing[l].name \in FileNames
       /\ <<storing[l].id, storing[l].name>> \in DOMAIN store
       /\ store[<<storing[l].id, storing[l].name>>] \in Contents

OwnRuns ==
  \A l, m \in Loggers :
    context[l] # <<>> /\ context[m] # <<>> /\ current[l] = current[m] => l = m

OwnIds == \A r, s \in 1..Len(runs) : runs[r].id = runs[s].id => r = s

FilesOfRuns ==
  \A f \in DOMAIN store : \E r \in 1..Len(runs) : f[1] = runs[r].id /\ f = <<f[1], f[2]>>

LogInv ==
  /\ LogTypes /\ OwnRuns /\ OwnIds /\ FilesOfRuns
  /\ \A r \in 1..Len(runs) : RunSound(r)
  /\ \A l \in Loggers : LoggerSound(l)

-----------------------------------------------------------------------------
(* What a step of logger l leaves alone: the other loggers, and all runs   *)
(* but c.                                                                  *)
Others(l) ==
  \A m \in Loggers \ {l} :
    current'[m] = current[m] /\ context'[m] = context[m] /\ storing'[m] = storing[m]

KeptBut(c) ==
  Len(runs) <= Len(runs') /\ \A r \in 1..Len(runs) : r # c => runs'[r] = runs[r]

LEMMA LogInit ==
  ASSUME TrackingInit
  PROVE  LogInv
<1>1. /\ runs = <<>> /\ current = [l \in Loggers |-> 0] /\ context = [l \in Loggers |-> <<>>]
      /\ storing = [l \in Loggers |-> NotStoring] /\ DOMAIN store = {} /\ clock = 1
      /\ source \in [FileNames -> Contents]
  BY DEF TrackingInit
<1>2. LogTypes
  <2>1. /\ <<>> \in Seq(RunRecords) /\ <<>> \in Seq(Nat) /\ 0 \in Nat /\ 1 \in Nat
        /\ NotStoring \in [id : Ids \cup {<<>>}, name : FileNames \cup {""}]
    BY DEF NotStoring
  <2> QED BY <1>1, <2>1 DEF LogTypes
<1>3. Len(runs) = 0 /\ 1..Len(runs) = {}
  BY <1>1
<1>4. \A l \in Loggers : LoggerSound(l)
  BY <1>1, <1>3 DEF LoggerSound
<1> QED BY <1>1, <1>2, <1>3, <1>4 DEF LogInv, OwnRuns, OwnIds, FilesOfRuns

LEMMA TypedRuns ==
  ASSUME LogInv
  PROVE  LogTypes /\ Len(runs) \in Nat
<1>1. LogTypes
  BY DEF LogInv
<1>2. runs \in Seq(RunRecords)
  BY <1>1 DEF LogTypes
<1> QED BY <1>1, <1>2

LEMMA RunReplaced ==
  ASSUME runs \in Seq(RunRecords), NEW c \in 1..Len(runs), NEW rec \in RunRecords,
         runs' = [runs EXCEPT ![c] = rec]
  PROVE  /\ runs' \in Seq(RunRecords) /\ Len(runs') = Len(runs) /\ runs'[c] = rec
         /\ \A r \in 1..Len(runs) : r # c => runs'[r] = runs[r]
BY ExceptSeq

LEMMA RunFacts ==
  ASSUME LogInv, NEW r \in 1..Len(runs)
  PROVE  /\ runs[r] \in RunRecords /\ runs[r].artifacts \in Seq(Artifacts)
         /\ RunSound(r)
<1>1. runs \in Seq(RunRecords)
  BY TypedRuns DEF LogTypes
<1>2. runs[r] \in RunRecords
  BY <1>1
<1> QED BY <1>2 DEF LogInv, RunRecords

(* The run a logger is inside of.                                          *)
LEMMA InsideFacts ==
  ASSUME LogInv, NEW l \in Loggers, context[l] # <<>>
  PROVE  /\ current[l] \in 1..Len(runs) /\ context[l] = <<current[l]>>
         /\ Last(context[l]) = current[l] /\ Front(context[l]) = <<>>
         /\ runs[current[l]].outcome = "open" /\ ~Left(runs[current[l]])
         /\ runs[current[l]].status = "RUNNING"
         /\ <<runs[current[l]].id, ManifestName>> \notin DOMAIN store
<1>1. PICK c \in Nat : c = current[l] /\ c <= Len(runs) /\ c # 0
  BY DEF LogInv, LogTypes, LoggerSound
<1>2. context[l] = <<c>> /\ runs[c].outcome = "open"
  BY <1>1 DEF LogInv, LoggerSound
<1>3. c \in 1..Len(runs)
  <2>1. Len(runs) \in Nat
    BY TypedRuns
  <2> QED BY <1>1, <2>1
<1>4. Last(<<c>>) = c /\ Front(<<c>>) = <<>>
  BY <1>1 DEF Last, Front
<1>5. ~Left(runs[c])
  BY <1>2 DEF Left
<1>6. RunSound(c)
  BY <1>3, RunFacts
<1>7. runs[c].status = "RUNNING"
  BY <1>2, <1>6 DEF RunSound, StatusAfter
<1>8. <<runs[c].id, ManifestName>> \notin DOMAIN store
  BY <1>5, <1>6 DEF RunSound
<1> QED BY <1>1, <1>2, <1>3, <1>4, <1>5, <1>7, <1>8

LEMMA TickFits ==
  ASSUME LogInv, Tick
  PROVE  LogInv'
<1>1. clock' \in Nat
  <2>1. clock \in Nat
    BY TypedRuns DEF LogTypes
  <2> QED BY <2>1 DEF Tick
<1>2. /\ source' = source /\ runs' = runs /\ current' = current /\ context' = context
      /\ storing' = storing /\ store' = store
  BY DEF Tick
<1> QED BY <1>1, <1>2 DEF LogInv, LogTypes, OwnRuns, OwnIds, FilesOfRuns, RunSound, Stored,
                         LoggerSound

LEMMA RewriteFits ==
  ASSUME LogInv, NEW name \in FileNames, NEW x \in Contents, RewriteSource(name, x)
  PROVE  LogInv'
<1>1. source' \in [FileNames -> Contents]
  BY TypedRuns DEF RewriteSource, LogTypes
<1>2. /\ clock' = clock /\ runs' = runs /\ current' = current /\ context' = context
      /\ storing' = storing /\ store' = store
  BY DEF RewriteSource
<1> QED BY <1>1, <1>2 DEF LogInv, LogTypes, OwnRuns, OwnIds, FilesOfRuns, RunSound, Stored,
                         LoggerSound

(* The run that a logger is inside of changes: ids stay whose they are.    *)
LEMMA OwnRunChanges ==
  ASSUME LogInv, NEW c \in 1..Len(runs), NEW rec \in RunRecords,
         rec.id = runs[c].id, runs' = [runs EXCEPT ![c] = rec],
         \A f \in DOMAIN store' : f \in DOMAIN store \/ \E name : f = <<rec.id, name>>
  PROVE  /\ runs' \in Seq(RunRecords) /\ Len(runs') = Len(runs) /\ runs'[c] = rec
         /\ \A r \in 1..Len(runs) : r # c => runs'[r] = runs[r] /\ runs[r].id # rec.id
         /\ OwnIds' /\ FilesOfRuns'
<1>1. runs \in Seq(RunRecords)
  BY TypedRuns DEF LogTypes
<1>2. /\ runs' \in Seq(RunRecords) /\ Len(runs') = Len(runs) /\ runs'[c] = rec
      /\ \A r \in 1..Len(runs) : r # c => runs'[r] = runs[r]
  BY <1>1, RunReplaced
<1>3. \A r \in 1..Len(runs) : runs'[r].id = runs[r].id
  BY <1>2
<1>4. OwnIds
  BY DEF LogInv
<1>5. OwnIds'
  BY <1>2, <1>3, <1>4 DEF OwnIds
<1>6. \A r \in 1..Len(runs) : r # c => runs[r].id # rec.id
  BY <1>4 DEF OwnIds
<1>7. FilesOfRuns'
  <2> SUFFICES ASSUME NEW f \in DOMAIN store'
               PROVE  \E r \in 1..Len(runs) : f[1] = runs[r].id /\ f = <<f[1], f[2]>>
    BY <1>2, <1>3 DEF FilesOfRuns
  <2>1. CASE f \in DOMAIN store
    BY <2>1 DEF LogInv, FilesOfRuns
  <2>2. CASE \E name : f = <<rec.id, name>>
    BY <2>2
  <2> QED BY <2>1, <2>2
<1> QED BY <1>2, <1>5, <1>6, <1>7

LEMMA LogFits ==
  ASSUME LogInv, NEW l \in Loggers, NEW item \in Items, context[l] # <<>>, Log(l, item)
  PROVE  /\ LogInv' /\ Others(l) /\ KeptBut(current[l]) /\ context[l] # <<>>
         /\ current'[l] = current[l] /\ context'[l] = context[l] /\ storing'[l] = storing[l]
         /\ runs'[current[l]].data = runs[current[l]].data \cup {item}
         /\ runs'[current[l]].outcome = runs[current[l]].outcome
<1>1. context[l] # <<>>
  OBVIOUS
<1>2. PICK c \in 1..Len(runs) : c = current[l] /\ ~Left(runs[c])
  BY <1>1, InsideFacts
<1>3. PICK old \in RunRecords : old = runs[c]
  BY RunFacts
<1>4. PICK rec \in RunRecords :
        rec = [old EXCEPT !.data = old.data \cup {item}]
  BY <1>3 DEF RunRecords
<1>5. /\ rec.id = old.id /\ rec.begun = old.begun /\ rec.status = old.status
      /\ rec.artifacts = old.artifacts /\ rec.outcome = old.outcome
  BY <1>3, <1>4 DEF RunRecords
<1>6. runs' = [runs EXCEPT ![c] = rec]
  BY <1>2, <1>3, <1>4 DEF Log
<1>7. /\ clock' = clock /\ source' = source /\ current' = current /\ context' = context
      /\ storing' = storing /\ store' = store
  BY DEF Log
<1>8. /\ runs' \in Seq(RunRecords) /\ Len(runs') = Len(runs) /\ runs'[c] = rec
      /\ \A r \in 1..Len(runs) : r # c => runs'[r] = runs[r] /\ runs[r].id # rec.id
      /\ OwnIds' /\ FilesOfRuns'
  <2>1. \A f \in DOMAIN store' : f \in DOMAIN store \/ \E name : f = <<rec.id, name>>
    BY <1>7
  <2>2. rec.id = runs[c].id
    BY <1>3, <1>5
  <2> QED BY <1>6, <2>1, <2>2, OwnRunChanges
<1>9. LogTypes'
  BY <1>7, <1>8, TypedRuns DEF LogTypes
<1>10. OwnRuns'
  BY <1>7 DEF LogInv, OwnRuns
<1>11. ASSUME NEW r \in 1..Len(runs) PROVE RunSound(r)'
  <2>1. RunSound(r)
    BY RunFacts
  <2>2. CASE r = c
    <3>1. ~Left(rec)
      BY <1>2, <1>3, <1>5 DEF Left
    <3>2. /\ old.begun = old.id /\ old.status = StatusAfter(old.outcome, "RUNNING")
          /\ <<old.id, ManifestName>> \notin DOMAIN store /\ Stored(c)
      BY <1>2, <1>3, <2>1, <2>2 DEF RunSound
    <3>3. Stored(c)'
      BY <1>3, <1>5, <1>7, <1>8, <3>2 DEF Stored
    <3> QED BY <1>5, <1>7, <1>8, <2>2, <3>1, <3>2, <3>3 DEF RunSound
  <2>3. CASE r # c
    BY <1>7, <1>8, <2>1, <2>3 DEF RunSound, Stored
  <2> QED BY <2>2, <2>3
<1>12. ASSUME NEW m \in Loggers PROVE LoggerSound(m)'
  <2>1. LoggerSound(m)
    BY DEF LogInv
  <2>2. context[m] # <<>> => current[m] \in 1..Len(runs)
    BY InsideFacts
  <2>3. \A r \in 1..Len(runs) : runs'[r].id = runs[r].id /\ runs'[r].outcome = runs[r].outcome
    BY <1>3, <1>5, <1>8
  <2> QED BY <1>7, <1>8, <2>1, <2>2, <2>3 DEF LoggerSound
<1>13. LogInv'
  BY <1>8, <1>9, <1>10, <1>11, <1>12 DEF LogInv
<1>14. rec.data = old.data \cup {item}
  BY <1>3, <1>4 DEF RunRecords
<1>15. KeptBut(c)
  BY <1>8, TypedRuns DEF KeptBut
<1> QED BY <1>1, <1>2, <1>3, <1>5, <1>7, <1>8, <1>13, <1>14, <1>15 DEF Others

LEMMA CopyFits ==
  ASSUME LogInv, OnePolicy, NEW l \in Loggers, NEW name \in FileNames, CopyArtifact(l, name)
  PROVE  LogInv'
<1>1. context[l] # <<>>
  BY DEF CopyArtifact, OnePolicy
<1>2. PICK c \in 1..Len(runs) : c = current[l]
  BY <1>1, InsideFacts
<1>3. PICK id \in Ids : id = runs[c].id
  BY RunFacts DEF RunRecords
<1>4. /\ clock' = clock /\ source' = source /\ current' = current /\ context' = context
      /\ runs' = runs
      /\ storing' = [storing EXCEPT ![l] = [id |-> id, name |-> name]]
      /\ store' = Put(id, name, source[name])
      /\ \A i \in DOMAIN runs[c].artifacts : runs[c].artifacts[i].name # name
  BY <1>2, <1>3 DEF CopyArtifact, OnePolicy
<1>5. /\ DOMAIN store' = DOMAIN store \cup {<<id, name>>}
      /\ store'[<<id, name>>] = source[name]
      /\ \A f \in DOMAIN store : f # <<id, name>> => store'[f] = store[f]
  <2>1. PICK x : x = source[name]
    OBVIOUS
  <2>2. store' = Put(id, name, x)
    BY <1>4, <2>1
  <2>3. /\ DOMAIN store' = DOMAIN store \cup {<<id, name>>} /\ store'[<<id, name>>] = x
        /\ \A f \in DOMAIN store : f # <<id, name>> => store'[f] = store[f]
    <3>1. store' = [f \in DOMAIN store \cup {<<id, name>>} |->
                      IF f = <<id, name>> THEN x ELSE store[f]]
      BY <2>2 DEF Put
    <3> QED BY ONLY <3>1
  <2> QED BY <2>1, <2>3
<1>6. name # ManifestName
  BY TrackingAssumption DEF ManifestName
<1>7. LogTypes'
  <2>1. LogTypes
    BY TypedRuns
  <2>2. storing' \in [Loggers -> [id : Ids \cup {<<>>}, name : FileNames \cup {""}]]
    BY <1>4, <2>1 DEF LogTypes
  <2> QED BY <1>4, <2>1, <2>2 DEF LogTypes
<1>8. OwnRuns' /\ OwnIds'
  BY <1>4 DEF LogInv, OwnRuns, OwnIds
<1>9. \A r \in 1..Len(runs) : r # c => runs[r].id # id
  BY <1>3 DEF LogInv, OwnIds
<1>10. FilesOfRuns'
  <2> SUFFICES ASSUME NEW f \in DOMAIN store'
               PROVE  \E r \in 1..Len(runs) : f[1] = runs[r].id /\ f = <<f[1], f[2]>>
    BY <1>4 DEF FilesOfRuns
  <2>1. CASE f \in DOMAIN store
    BY <2>1 DEF LogInv, FilesOfRuns
  <2>2. CASE f = <<id, name>>
    BY <1>3, <2>2
  <2> QED BY <1>5, <2>1, <2>2
<1>11. ASSUME NEW r \in 1..Len(runs) PROVE RunSound(r)'
  <2>1. RunSound(r) /\ runs[r].artifacts \in Seq(Artifacts)
    BY RunFacts
  <2>2. <<runs[r].id, ManifestName>> # <<id, name>>
    BY <1>6
  <2>3. \A i \in 1..Len(runs[r].artifacts) :
          <<runs[r].id, runs[r].artifacts[i].name>> # <<id, name>>
    <3>1. r = c => DOMAIN runs[r].artifacts = 1..Len(runs[r].artifacts)
      BY <2>1
    <3> QED BY <1>4, <1>9, <3>1
  <2>4. Stored(r)'
    BY <1>4, <1>5, <2>1, <2>3 DEF RunSound, Stored
  <2> QED BY <1>4, <1>5, <2>1, <2>2, <2>4 DEF RunSound
<1>12. ASSUME NEW m \in Loggers PROVE LoggerSound(m)'
  <2>1. LoggerSound(m)
    BY DEF LogInv
  <2>2. CASE m = l
    <3>1. storing'[m] = [id |-> id, name |-> name]
      BY <1>4, <2>2, TypedRuns DEF LogTypes
    <3>2. source[name] \in Contents
      BY TypedRuns DEF LogTypes
    <3> QED BY <1>1, <1>2, <1>3, <1>4, <1>5, <2>1, <2>2, <3>1, <3>2 DEF LoggerSound
  <2>3. CASE m # l
    <3>1. storing'[m] = storing[m]
      BY <1>4, <2>3, TypedRuns DEF LogTypes
    <3>2. storing[m] # NotStoring => storing[m].id # id
      <4>1. SUFFICES ASSUME storing[m] # NotStoring PROVE storing[m].id # id
        OBVIOUS
      <4>2. context[m] # <<>> /\ storing[m].id = runs[current[m]].id
        BY <2>1, <4>1 DEF LoggerSound
      <4>3. current[m] \in 1..Len(runs)
        BY <4>2, InsideFacts
      <4>4. current[m] # c
        BY <1>1, <1>2, <2>3, <4>2 DEF LogInv, OwnRuns
      <4> QED BY <1>9, <4>2, <4>3, <4>4
    <3>3. storing[m] # NotStoring => <<storing[m].id, storing[m].name>> # <<id, name>>
      BY <3>2
    <3> QED BY <1>4, <1>5, <2>1, <3>1, <3>3 DEF LoggerSound
  <2> QED BY <2>2, <2>3
<1> QED BY <1>4, <1>7, <1>8, <1>10, <1>11, <1>12 DEF LogInv

LEMMA IndexFits ==
  ASSUME LogInv, NEW l \in Loggers, IndexArtifact(l)
  PROVE  LogInv'
<1>1. storing[l] # NotStoring /\ LoggerSound(l)
  BY DEF IndexArtifact, LogInv
<1>2. context[l] # <<>>
  BY <1>1 DEF LoggerSound
<1>3. PICK c \in 1..Len(runs) : c = current[l] /\ ~Left(runs[c])
  BY <1>2, InsideFacts
<1>4. PICK old \in RunRecords : old = runs[c]
  BY RunFacts
<1>5. PICK art \in Artifacts :
        /\ art = [name |-> storing[l].name, sha256 |-> HashOf(storing[l].id, storing[l].name)]
        /\ <<old.id, art.name>> \in DOMAIN store
        /\ store[<<old.id, art.name>>] = art.sha256
  <2>1. /\ storing[l].name \in FileNames /\ storing[l].id = old.id
        /\ <<old.id, storing[l].name>> \in DOMAIN store
        /\ store[<<old.id, storing[l].name>>] \in Contents
    BY <1>1, <1>3, <1>4 DEF LoggerSound
  <2>2. PICK n \in FileNames, x \in Contents :
          n = storing[l].name /\ x = store[<<old.id, n>>]
    BY <2>1
  <2>3. PICK art : art = [name |-> n, sha256 |-> x]
    OBVIOUS
  <2>4. art \in Artifacts /\ art.name = n /\ art.sha256 = x
    BY <2>3 DEF Artifacts
  <2>5. HashOf(storing[l].id, storing[l].name) = x
    BY <2>1, <2>2 DEF HashOf
  <2> QED BY <2>1, <2>2, <2>3, <2>4, <2>5
<1>6. old.artifacts \in Seq(Artifacts)
  BY <1>4 DEF RunRecords
<1>7. PICK arts \in Seq(Artifacts) :
        /\ arts = Append(old.artifacts, art) /\ Len(arts) = Len(old.artifacts) + 1
        /\ \A i \in 1..Len(arts) : arts[i] = art \/ (i \in 1..Len(old.artifacts)
                                                      /\ arts[i] = old.artifacts[i])
  <2>1. PICK a \in Seq(Artifacts) : a = old.artifacts
    BY <1>6
  <2>2. /\ Append(a, art) \in Seq(Artifacts) /\ Len(Append(a, art)) = Len(a) + 1
        /\ \A i \in 1..Len(a) : Append(a, art)[i] = a[i]
        /\ Append(a, art)[Len(a) + 1] = art
    OBVIOUS
  <2>3. Len(a) \in Nat
    OBVIOUS
  <2>4. \A i \in 1..(Len(a) + 1) : i \in 1..Len(a) \/ i = Len(a) + 1
    BY <2>3
  <2> QED BY <2>1, <2>2, <2>4
<1>8. PICK rec \in RunRecords : rec = [old EXCEPT !.artifacts = arts]
  BY <1>4 DEF RunRecords
<1>9. /\ rec.id = old.id /\ rec.begun = old.begun /\ rec.status = old.status
      /\ rec.artifacts = arts /\ rec.outcome = old.outcome
  BY <1>4, <1>8 DEF RunRecords
<1>10. /\ runs' = [runs EXCEPT ![c] = rec]
       /\ storing' = [storing EXCEPT ![l] = NotStoring]
       /\ clock' = clock /\ source' = source /\ current' = current /\ context' = context
       /\ store' = store
  BY <1>3, <1>4, <1>5, <1>7, <1>8 DEF IndexArtifact
<1>11. /\ runs' \in Seq(RunRecords) /\ Len(runs') = Len(runs) /\ runs'[c] = rec
       /\ \A r \in 1..Len(runs) : r # c => runs'[r] = runs[r] /\ runs[r].id # rec.id
       /\ OwnIds' /\ FilesOfRuns'
  <2>1. \A f \in DOMAIN store' : f \in DOMAIN store \/ \E name : f = <<rec.id, name>>
    BY <1>10
  <2>2. rec.id = runs[c].id
    BY <1>4, <1>9
  <2> QED BY <1>10, <2>1, <2>2, OwnRunChanges
<1>12. \A m \in Loggers : storing'[m] = storing[m] \/ storing'[m] = NotStoring
  BY <1>10, TypedRuns DEF LogTypes
<1>13. LogTypes'
  <2>1. NotStoring \in [id : Ids \cup {<<>>}, name : FileNames \cup {""}]
    BY DEF NotStoring
  <2>2. storing' \in [Loggers -> [id : Ids \cup {<<>>}, name : FileNames \cup {""}]]
    BY <1>10, <2>1, TypedRuns DEF LogTypes
  <2> QED BY <1>10, <1>11, <2>2, TypedRuns DEF LogTypes
<1>14. OwnRuns'
  BY <1>10 DEF LogInv, OwnRuns
<1>15. ASSUME NEW r \in 1..Len(runs) PROVE RunSound(r)'
  <2>1. RunSound(r)
    BY RunFacts
  <2>2. CASE r = c
    <3>1. ~Left(rec)
      BY <1>3, <1>4, <1>9 DEF Left
    <3>2. Stored(r)'
      <4>1. runs'[r].artifacts = arts /\ runs'[r].id = old.id
        BY <1>9, <1>11, <2>2
      <4>2. \A i \in 1..Len(old.artifacts) :
              /\ <<old.id, old.artifacts[i].name>> \in DOMAIN store
              /\ store[<<old.id, old.artifacts[i].name>>] = old.artifacts[i].sha256
        BY <1>4, <2>1, <2>2 DEF RunSound, Stored
      <4>3. \A i \in 1..Len(arts) :
              /\ <<old.id, arts[i].name>> \in DOMAIN store
              /\ store[<<old.id, arts[i].name>>] = arts[i].sha256
        BY ONLY <1>5, <1>7, <4>2
      <4> QED BY <1>10, <4>1, <4>3 DEF Stored
    <3> QED BY <1>3, <1>4, <1>9, <1>10, <1>11, <2>1, <2>2, <3>1, <3>2 DEF RunSound
  <2>3. CASE r # c
    BY <1>10, <1>11, <2>1, <2>3 DEF RunSound, Stored
  <2> QED BY <2>2, <2>3
<1>16. ASSUME NEW m \in Loggers PROVE LoggerSound(m)'
  <2>1. LoggerSound(m)
    BY DEF LogInv
  <2>2. context[m] # <<>> => current[m] \in 1..Len(runs)
    BY InsideFacts
  <2>3. \A r \in 1..Len(runs) : runs'[r].id = runs[r].id /\ runs'[r].outcome = runs[r].outcome
    BY <1>4, <1>9, <1>11
  <2> QED BY <1>10, <1>11, <1>12, <2>1, <2>2, <2>3 DEF LoggerSound
<1> QED BY <1>11, <1>13, <1>14, <1>15, <1>16 DEF LogInv

LEMMA LeaveFits ==
  ASSUME LogInv, NEW l \in Loggers, NEW how \in {"returned", "raised", "interrupted"},
         Leave(l, how)
  PROVE  /\ LogInv' /\ Others(l) /\ KeptBut(current[l]) /\ context[l] # <<>>
         /\ current'[l] = current[l] /\ context'[l] = <<>> /\ storing'[l] = NotStoring
         /\ runs'[current[l]].data = runs[current[l]].data
         /\ runs'[current[l]].outcome = how
<1>1. context[l] # <<>>
  BY DEF Leave
<1>2. PICK c \in 1..Len(runs) :
        /\ c = current[l] /\ Last(context[l]) = c /\ Front(context[l]) = <<>>
        /\ runs[c].status = "RUNNING" /\ context[l] = <<c>>
  BY <1>1, InsideFacts
<1>3. PICK old \in RunRecords : old = runs[c]
  BY RunFacts
<1>4. StatusAfter(how, "RUNNING") \in {"RUNNING", "SUCCESS", "FAILED"} /\ how \in Outcomes
  BY DEF StatusAfter, Outcomes
<1>5. PICK left \in RunRecords : left = [old EXCEPT !.status = StatusAfter(how, "RUNNING")]
  BY <1>3, <1>4 DEF RunRecords
<1>6. PICK rec \in RunRecords : rec = [left EXCEPT !.outcome = how]
  BY <1>4, <1>5 DEF RunRecords
<1>7. /\ left.id = old.id /\ rec.id = old.id /\ rec.begun = old.begun
      /\ rec.data = left.data /\ rec.data = old.data
      /\ rec.status = left.status /\ rec.status = StatusAfter(how, "RUNNING")
      /\ rec.artifacts = old.artifacts /\ left.artifacts = old.artifacts
      /\ rec.outcome = how
  BY <1>3, <1>4, <1>5, <1>6 DEF RunRecords
<1>8. PICK m : m = Manifest(rec) /\ m = Manifest(left)
  BY <1>7 DEF Manifest
<1>9. /\ runs' = [runs EXCEPT ![c] = rec]
      /\ store' = Put(old.id, "run_manifest.json", m)
      /\ context' = [context EXCEPT ![l] = <<>>]
      /\ storing' = [storing EXCEPT ![l] = NotStoring]
      /\ clock' = clock /\ source' = source /\ current' = current
  <2>1. [runs[c] EXCEPT !.status = StatusAfter(how, @)] = left
    BY <1>2, <1>3, <1>5
  <2>2. /\ runs' = [[runs EXCEPT ![c] = left] EXCEPT ![c].outcome = how]
        /\ store' = Put(left.id, "run_manifest.json", Manifest(left))
        /\ context' = [context EXCEPT ![l] = <<>>]
        /\ storing' = [storing EXCEPT ![l] = NotStoring]
        /\ clock' = clock /\ source' = source /\ current' = current
    BY <1>2, <2>1 DEF Leave
  <2>3. [[runs EXCEPT ![c] = left] EXCEPT ![c].outcome = how] = [runs EXCEPT ![c] = rec]
    <3>1. c \in DOMAIN runs
      <4>1. runs \in Seq(RunRecords)
        BY TypedRuns DEF LogTypes
      <4> QED BY <4>1
    <3> QED BY <1>6, <3>1
  <2> QED BY <1>7, <1>8, <2>2, <2>3
<1>10. PICK mf : mf = "run_manifest.json" /\ mf = ManifestName
  BY DEF ManifestName
<1>11. /\ DOMAIN store' = DOMAIN store \cup {<<old.id, mf>>}
       /\ store'[<<old.id, mf>>] = m
       /\ \A f \in DOMAIN store : f # <<old.id, mf>> => store'[f] = store[f]
  <2>1. store' = [f \in DOMAIN store \cup {<<old.id, mf>>} |->
                    IF f = <<old.id, mf>> THEN m ELSE store[f]]
    BY <1>9, <1>10 DEF Put
  <2> QED BY ONLY <2>1
<1>12. /\ runs' \in Seq(RunRecords) /\ Len(runs') = Len(runs) /\ runs'[c] = rec
       /\ \A r \in 1..Len(runs) : r # c => runs'[r] = runs[r] /\ runs[r].id # rec.id
       /\ OwnIds' /\ FilesOfRuns'
  <2>1. \A f \in DOMAIN store' : f \in DOMAIN store \/ \E name : f = <<rec.id, name>>
    BY <1>7, <1>11
  <2>2. rec.id = runs[c].id
    BY <1>3, <1>7
  <2> QED BY <1>9, <2>1, <2>2, OwnRunChanges
<1>13. /\ \A k \in Loggers : k # l => context'[k] = context[k] /\ storing'[k] = storing[k]
       /\ context'[l] = <<>> /\ storing'[l] = NotStoring
  BY <1>9, TypedRuns DEF LogTypes
<1>14. LogTypes'
  <2>1. NotStoring \in [id : Ids \cup {<<>>}, name : FileNames \cup {""}] /\ <<>> \in Seq(Nat)
    BY DEF NotStoring
  <2>2. /\ storing' \in [Loggers -> [id : Ids \cup {<<>>}, name : FileNames \cup {""}]]
        /\ context' \in [Loggers -> Seq(Nat)]
    BY <1>9, <2>1, TypedRuns DEF LogTypes
  <2> QED BY <1>9, <1>12, <2>2, TypedRuns DEF LogTypes
<1>15. OwnRuns'
  BY <1>9, <1>13 DEF LogInv, OwnRuns
<1>16. ASSUME NEW r \in 1..Len(runs) PROVE RunSound(r)'
  <2>1. RunSound(r) /\ runs[r].artifacts \in Seq(Artifacts) /\ runs[r] \in RunRecords
    BY RunFacts
  <2>2. \A i \in 1..Len(runs[r].artifacts) :
          <<runs[r].id, runs[r].artifacts[i].name>> # <<old.id, mf>>
    <3> SUFFICES ASSUME NEW i \in 1..Len(runs[r].artifacts)
                 PROVE  runs[r].artifacts[i].name # mf
      OBVIOUS
    <3>1. runs[r].artifacts[i] \in Artifacts
      BY <2>1
    <3> QED BY <1>10, <3>1, TrackingAssumption DEF Artifacts
  <2>3. CASE r = c
    <3>1. Left(rec)
      BY <1>7 DEF Left
    <3>2. Stored(r)'
      BY <1>3, <1>7, <1>11, <1>12, <2>1, <2>2, <2>3 DEF RunSound, Stored
    <3>3. rec.begun = rec.id /\ rec.status = StatusAfter(rec.outcome, "RUNNING")
      BY <1>3, <1>7, <1>8, <2>1, <2>3 DEF RunSound
    <3>4. <<rec.id, mf>> \in DOMAIN store' /\ store'[<<rec.id, mf>>] = Manifest(rec)
      BY <1>3, <1>7, <1>8, <1>11
    <3>5. runs'[r] = rec /\ mf = ManifestName
      BY <1>10, <1>12, <2>3
    <3> QED BY ONLY <3>1, <3>2, <3>3, <3>4, <3>5 DEF RunSound
  <2>4. CASE r # c
    <3>1. runs'[r] = runs[r] /\ runs[r].id # old.id
      BY <1>7, <1>12, <2>4
    <3>2. Stored(r)'
      BY <1>11, <2>1, <2>2, <3>1 DEF RunSound, Stored
    <3>3. <<runs[r].id, ManifestName>> # <<old.id, mf>>
      BY <3>1
    <3> QED BY <1>11, <2>1, <3>1, <3>2, <3>3 DEF RunSound
  <2> QED BY <2>3, <2>4
<1>17. ASSUME NEW k \in Loggers PROVE LoggerSound(k)'
  <2>1. LoggerSound(k)
    BY DEF LogInv
  <2>2. CASE k = l
    BY <1>9, <1>12, <1>13, <2>1, <2>2 DEF LoggerSound
  <2>3. CASE k # l
    <3>1. context[k] # <<>> => current[k] \in 1..Len(runs) /\ current[k] # c
      BY <1>1, <1>2, <2>3, InsideFacts DEF LogInv, OwnRuns
    <3>2. context[k] # <<>> => runs'[current[k]] = runs[current[k]]
      BY <1>12, <3>1
    <3>3. storing[k] # NotStoring => <<storing[k].id, storing[k].name>> # <<old.id, mf>>
      <4>1. storing[k] # NotStoring => storing[k].name \in FileNames
        BY <2>1 DEF LoggerSound
      <4> QED BY <1>10, <4>1, TrackingAssumption
    <3> QED BY <1>9, <1>11, <1>12, <1>13, <2>1, <2>3, <3>2, <3>3 DEF LoggerSound
  <2> QED BY <2>2, <2>3
<1>18. LogInv'
  BY <1>12, <1>14, <1>15, <1>16, <1>17 DEF LogInv
<1>19. KeptBut(c)
  BY <1>12, TypedRuns DEF KeptBut
<1>20. Others(l)
  BY <1>9, <1>13 DEF Others
<1> QED BY <1>1, <1>2, <1>3, <1>7, <1>9, <1>12, <1>13, <1>18, <1>19, <1>20

LEMMA DieFits ==
  ASSUME LogInv, NEW l \in Loggers, Die(l)
  PROVE  /\ LogInv' /\ Others(l) /\ KeptBut(current[l]) /\ context[l] # <<>>
         /\ context'[l] = <<>> /\ storing'[l] = NotStoring
<1>1. context[l] # <<>>
  BY DEF Die
<1>2. PICK c \in 1..Len(runs) :
        c = current[l] /\ runs[c].status = "RUNNING" /\ context[l] = <<c>> /\ ~Left(runs[c])
  BY <1>1, InsideFacts
<1>3. PICK old \in RunRecords : old = runs[c]
  BY RunFacts
<1>4. PICK rec \in RunRecords : rec = [old EXCEPT !.outcome = "died"]
  BY <1>3 DEF RunRecords, Outcomes
<1>5. /\ rec.id = old.id /\ rec.begun = old.begun /\ rec.status = old.status
      /\ rec.artifacts = old.artifacts /\ rec.outcome = "died"
  BY <1>3, <1>4 DEF RunRecords
<1>6. /\ context' = [context EXCEPT ![l] = <<>>]
      /\ storing' = [storing EXCEPT ![l] = NotStoring]
      /\ current' = [current EXCEPT ![l] = 0]
      /\ clock' = clock /\ source' = source /\ store' = store
  BY DEF Die
<1>7. runs' = [runs EXCEPT ![c] = rec]
  <2>1. \A r : (\E i \in DOMAIN context[l] : context[l][i] = r) <=> r = c
    <3>1. DOMAIN <<c>> = {1} /\ <<c>>[1] = c
      <4>1. DOMAIN <<c>> = 1..1 /\ 1..1 = {1}
        OBVIOUS
      <4>2. <<c>>[1] = c
        OBVIOUS
      <4> QED BY <4>1, <4>2
    <3>2. \A r : (\E i \in DOMAIN <<c>> : <<c>>[i] = r) <=> r = c
      BY ONLY <3>1
    <3> QED BY <1>2, <3>2
  <2>2. runs' = [r \in DOMAIN runs |-> IF r = c THEN [runs[r] EXCEPT !.outcome = "died"]
                                                ELSE runs[r]]
    BY <2>1 DEF Die
  <2>3. runs \in Seq(RunRecords)
    BY TypedRuns DEF LogTypes
  <2> QED BY <1>3, <1>4, <2>2, <2>3
<1>8. /\ runs' \in Seq(RunRecords) /\ Len(runs') = Len(runs) /\ runs'[c] = rec
      /\ \A r \in 1..Len(runs) : r # c => runs'[r] = runs[r] /\ runs[r].id # rec.id
      /\ OwnIds' /\ FilesOfRuns'
  <2>1. \A f \in DOMAIN store' : f \in DOMAIN store \/ \E name : f = <<rec.id, name>>
    BY <1>6
  <2>2. rec.id = runs[c].id
    BY <1>3, <1>5
  <2> QED BY <1>7, <2>1, <2>2, OwnRunChanges
<1>9. /\ \A k \in Loggers : k # l => /\ context'[k] = context[k] /\ storing'[k] = storing[k]
                                     /\ current'[k] = current[k]
      /\ context'[l] = <<>> /\ storing'[l] = NotStoring /\ current'[l] = 0
  BY <1>6, TypedRuns DEF LogTypes
<1>10. LogTypes'
  <2>1. NotStoring \in [id : Ids \cup {<<>>}, name : FileNames \cup {""}] /\ <<>> \in Seq(Nat)
    BY DEF NotStoring
  <2>2. /\ storing' \in [Loggers -> [id : Ids \cup {<<>>}, name : FileNames \cup {""}]]
        /\ context' \in [Loggers -> Seq(Nat)] /\ current' \in [Loggers -> Nat]
    BY <1>6, <2>1, TypedRuns DEF LogTypes
  <2> QED BY <1>6, <1>8, <2>2, TypedRuns DEF LogTypes
<1>11. OwnRuns'
  BY <1>9 DEF LogInv, OwnRuns
<1>12. ASSUME NEW r \in 1..Len(runs) PROVE RunSound(r)'
  <2>1. RunSound(r)
    BY RunFacts
  <2>2. CASE r = c
    <3>1. ~Left(rec) /\ rec.status = StatusAfter("died", "RUNNING")
      BY <1>2, <1>3, <1>5 DEF Left, StatusAfter
    <3>2. /\ old.begun = old.id /\ <<old.id, ManifestName>> \notin DOMAIN store
          /\ Stored(c)
      BY <1>2, <1>3, <2>1, <2>2 DEF RunSound
    <3>3. Stored(c)'
      BY <1>3, <1>5, <1>6, <1>8, <3>2 DEF Stored
    <3> QED BY <1>5, <1>6, <1>8, <2>2, <3>1, <3>2, <3>3 DEF RunSound
  <2>3. CASE r # c
    BY <1>6, <1>8, <2>1, <2>3 DEF RunSound, Stored
  <2> QED BY <2>2, <2>3
<1>13. ASSUME NEW k \in Loggers PROVE LoggerSound(k)'
  <2>1. LoggerSound(k)
    BY DEF LogInv
  <2>2. CASE k = l
    BY <1>8, <1>9, <2>2, TypedRuns DEF LoggerSound
  <2>3. CASE k # l
    <3>1. context[k] # <<>> => current[k] \in 1..Len(runs) /\ current[k] # c
      BY <1>1, <1>2, <2>3, InsideFacts DEF LogInv, OwnRuns
    <3>2. context[k] # <<>> => runs'[current[k]] = runs[current[k]]
      BY <1>8, <3>1
    <3> QED BY <1>6, <1>8, <1>9, <2>1, <2>3, <3>2 DEF LoggerSound
  <2> QED BY <2>2, <2>3
<1>14. LogInv'
  BY <1>8, <1>10, <1>11, <1>12, <1>13 DEF LogInv
<1>15. KeptBut(c)
  BY <1>8, TypedRuns DEF KeptBut
<1> QED BY <1>1, <1>2, <1>9, <1>14, <1>15 DEF Others

LEMMA StartFits ==
  ASSUME LogInv, ~SameSecond, NEW l \in Loggers, context[l] = <<>>,
         NEW run_name \in RunNames \cup {"eval_suite"}, NEW seed \in Seeds \cup {42},
         StartRun(l, run_name, seed)
  PROVE  /\ LogInv' /\ Others(l) /\ KeptBut(0)
         /\ current'[l] \in 1..Len(runs') /\ context'[l] # <<>>
         /\ storing'[l] = NotStoring /\ runs'[current'[l]].data = {}
<1>1. PICK id \in Ids : id = <<run_name, clock, seed>>
  BY TypedRuns DEF LogTypes, Ids
<1>2. /\ context[l] = <<>> /\ storing[l] = NotStoring
      /\ \A r \in DOMAIN runs : runs[r].begun # id
      /\ clock' = clock /\ source' = source /\ storing' = storing /\ store' = store
  BY <1>1 DEF StartRun
<1>3. PICK n \in Nat : n = Len(runs)
  BY TypedRuns
<1>4. PICK rec \in RunRecords :
        rec = [id |-> id, status |-> "RUNNING", data |-> {}, artifacts |-> <<>>,
               begun |-> id, outcome |-> "open"]
  <2>1. <<>> \in Seq(Artifacts) /\ {} \in SUBSET Items
    OBVIOUS
  <2> QED BY <2>1 DEF RunRecords, Outcomes
<1>5. /\ rec.id = id /\ rec.status = "RUNNING" /\ rec.artifacts = <<>>
      /\ rec.begun = id /\ rec.outcome = "open"
  BY <1>4
<1>6. runs' = Append(runs, rec)
  BY <1>1, <1>4 DEF StartRun, RunId
<1>7. /\ runs' \in Seq(RunRecords) /\ Len(runs') = n + 1 /\ runs'[n + 1] = rec
      /\ \A r \in 1..n : runs'[r] = runs[r]
      /\ \A r \in 1..(n + 1) : r \in 1..n \/ r = n + 1
      /\ DOMAIN runs = 1..n
  <2>1. runs \in Seq(RunRecords)
    BY TypedRuns DEF LogTypes
  <2>2. \A r \in 1..(n + 1) : r \in 1..n \/ r = n + 1
    OBVIOUS
  <2> QED BY <1>3, <1>6, <2>1, <2>2, AppendProperties
<1>8. /\ current' = [current EXCEPT ![l] = n + 1]
      /\ context' = [context EXCEPT ![l] = <<n + 1>>]
  <2>1. Append(<<>>, n + 1) = <<n + 1>>
    OBVIOUS
  <2>2. /\ current' = [current EXCEPT ![l] = Len(runs')]
        /\ context' = [context EXCEPT ![l] = Append(@, Len(runs'))]
    BY DEF StartRun
  <2> QED BY <1>2, <1>7, <2>1, <2>2
<1>9. /\ \A k \in Loggers : k # l => context'[k] = context[k] /\ current'[k] = current[k]
      /\ context'[l] = <<n + 1>> /\ current'[l] = n + 1
  BY <1>8, TypedRuns DEF LogTypes
<1>10. LogTypes'
  <2>1. <<n + 1>> \in Seq(Nat) /\ n + 1 \in Nat
    OBVIOUS
  <2>2. context' \in [Loggers -> Seq(Nat)] /\ current' \in [Loggers -> Nat]
    BY <1>8, <2>1, TypedRuns DEF LogTypes
  <2> QED BY <1>2, <1>7, <2>2, TypedRuns DEF LogTypes
<1>11. \A k \in Loggers : context[k] # <<>> => current[k] \in 1..n
  BY <1>3, InsideFacts
<1>12. OwnRuns'
  <2>1. OwnRuns
    BY DEF LogInv
  <2>2. n + 1 \notin 1..n
    OBVIOUS
  <2> QED BY <1>9, <1>11, <2>1, <2>2 DEF OwnRuns
<1>13. \A r \in 1..n : RunSound(r)
  BY <1>3, RunFacts
<1>14. \A r \in 1..n : runs[r].id # id
  <2> SUFFICES ASSUME NEW r \in 1..n PROVE runs[r].id # id
    OBVIOUS
  <2>1. runs[r].begun = runs[r].id
    BY <1>13 DEF RunSound
  <2> QED BY <1>2, <1>7, <2>1
<1>15. OwnIds'
  <2>1. \A r, s \in 1..n : runs[r].id = runs[s].id => r = s
    BY <1>3 DEF LogInv, OwnIds
  <2> QED BY <1>5, <1>7, <1>14, <2>1 DEF OwnIds
<1>16. \A f \in DOMAIN store : \E r \in 1..n : f[1] = runs[r].id /\ f = <<f[1], f[2]>>
  BY <1>3 DEF LogInv, FilesOfRuns
<1>17. FilesOfRuns'
  <2>1. 1..n \subseteq 1..(n + 1)
    OBVIOUS
  <2> QED BY <1>2, <1>7, <1>16, <2>1 DEF FilesOfRuns
<1>18. ASSUME NEW r \in 1..(n + 1) PROVE RunSound(r)'
  <2>1. CASE r \in 1..n
    BY <1>2, <1>7, <1>13, <2>1 DEF RunSound, Stored
  <2>2. CASE r = n + 1
    <3>1. ~Left(rec) /\ rec.status = StatusAfter("open", "RUNNING")
      BY <1>5 DEF Left, StatusAfter
    <3>2. <<id, ManifestName>> \notin DOMAIN store
      BY <1>14, <1>16
    <3>3. Stored(r)'
      BY <1>5, <1>7, <2>2 DEF Stored
    <3> QED BY <1>2, <1>5, <1>7, <2>2, <3>1, <3>2, <3>3 DEF RunSound
  <2> QED BY <1>7, <2>1, <2>2
<1>19. ASSUME NEW k \in Loggers PROVE LoggerSound(k)'
  <2>1. LoggerSound(k)
    BY DEF LogInv
  <2>2. CASE k = l
    <3>1. n + 1 # 0 /\ n + 1 <= n + 1
      OBVIOUS
    <3> QED BY <1>2, <1>5, <1>7, <1>9, <2>2, <3>1 DEF LoggerSound
  <2>3. CASE k # l
    <3>1. context[k] # <<>> => runs'[current[k]] = runs[current[k]]
      BY <1>7, <1>11
    <3>2. current[k] <= n => current[k] <= n + 1
      <4>1. PICK x \in Nat : x = current[k]
        BY TypedRuns DEF LogTypes
      <4> QED BY <4>1
    <3> QED BY <1>2, <1>3, <1>7, <1>9, <2>1, <2>3, <3>1, <3>2 DEF LoggerSound
  <2> QED BY <2>2, <2>3
<1>20. LogInv'
  BY <1>7, <1>10, <1>12, <1>15, <1>17, <1>18, <1>19 DEF LogInv
<1>21. KeptBut(0) /\ n + 1 \in 1..(n + 1)
  BY <1>3, <1>7 DEF KeptBut
<1>22. context'[l] # <<>>
  <2>1. <<n + 1>> # <<>>
    OBVIOUS
  <2> QED BY <1>9, <2>1
<1>23. rec.data = {}
  BY <1>4
<1> QED BY <1>2, <1>7, <1>9, <1>20, <1>21, <1>22, <1>23 DEF Others

LEMMA LogStutters ==
  ASSUME LogInv, UNCHANGED trackingVars
  PROVE  LogInv'
<1>1. /\ clock' = clock /\ source' = source /\ runs' = runs /\ current' = current
      /\ context' = context /\ storing' = storing /\ store' = store
  BY DEF trackingVars
<1> QED BY <1>1 DEF LogInv, LogTypes, OwnRuns, OwnIds, FilesOfRuns, RunSound, Stored,
                    LoggerSound

(* What is on disk is the record of the runs.                              *)
LEMMA LogIsRecord ==
  ASSUME LogInv
  PROVE  RunsOnRecord
<1>1. \A r \in 1..Len(runs) : RunSound(r) /\ runs[r] \in RunRecords
  BY RunFacts
<1>2. DOMAIN runs = 1..Len(runs)
  <2>1. runs \in Seq(RunRecords)
    BY TypedRuns DEF LogTypes
  <2> QED BY <2>1
<1>3. ASSUME NEW r \in 1..Len(runs), Left(runs[r]) PROVE HasManifest(runs[r])
  <2>1. PICK rec \in RunRecords : rec = runs[r]
    BY <1>1
  <2>2. /\ <<rec.id, "run_manifest.json">> \in DOMAIN store
        /\ store[<<rec.id, "run_manifest.json">>] = Manifest(rec)
        /\ rec.status = StatusAfter(rec.outcome, "RUNNING")
    BY <1>1, <1>3, <2>1 DEF RunSound, ManifestName
  <2>3. PICK m : m = Manifest(rec)
    OBVIOUS
  <2>4. rec.outcome \in {"returned", "raised", "interrupted"}
    BY <1>3, <2>1 DEF Left
  <2>5. /\ rec.status = "SUCCESS" <=> rec.outcome = "returned"
        /\ rec.status = "FAILED" <=> rec.outcome = "raised"
    BY <2>2, <2>4 DEF StatusAfter
  <2>6. /\ m.complete = ("tensor" \notin rec.data)
        /\ m.complete => /\ m.data = rec.data /\ m.artifacts = rec.artifacts
                         /\ m.status = rec.status
    <3>1. CASE "tensor" \in rec.data
      BY <2>3, <3>1 DEF Manifest
    <3>2. CASE "tensor" \notin rec.data
      BY <2>3, <3>2 DEF Manifest
    <3> QED BY <3>1, <3>2
  <2> QED BY <2>1, <2>2, <2>3, <2>5, <2>6 DEF HasManifest
<1>4. ASSUME NEW f \in DOMAIN store, f[2] = "run_manifest.json",
             NEW i \in DOMAIN store[f].artifacts
      PROVE  /\ <<f[1], store[f].artifacts[i].name>> \in DOMAIN store
             /\ store[<<f[1], store[f].artifacts[i].name>>] = store[f].artifacts[i].sha256
  <2>1. PICK r \in 1..Len(runs) : f[1] = runs[r].id /\ f = <<f[1], f[2]>>
    BY DEF LogInv, FilesOfRuns
  <2>2. PICK rec \in RunRecords : rec = runs[r]
    BY <1>1
  <2>3. f = <<rec.id, ManifestName>>
    BY <1>4, <2>1, <2>2 DEF ManifestName
  <2>4. store[f] = Manifest(rec) /\ Stored(r)
    BY <1>1, <2>2, <2>3 DEF RunSound
  <2>5. "tensor" \notin rec.data
    <3>1. SUFFICES ASSUME "tensor" \in rec.data PROVE FALSE
      OBVIOUS
    <3>2. store[f].artifacts = <<>>
      <4>1. PICK none : none = <<>>
        OBVIOUS
      <4>2. store[f] = [complete |-> FALSE, status |-> "", data |-> {}, artifacts |-> none]
        BY <2>4, <3>1, <4>1 DEF Manifest
      <4>3. [complete |-> FALSE, status |-> "", data |-> {}, artifacts |-> none].artifacts = none
        BY Zenon
      <4> QED BY <4>1, <4>2, <4>3, Zenon
    <3>3. DOMAIN <<>> = {}
      OBVIOUS
    <3> QED BY <1>4, <3>2, <3>3
  <2>6. store[f].artifacts = rec.artifacts
    BY <2>4, <2>5 DEF Manifest
  <2>7. i \in 1..Len(rec.artifacts)
    <3>1. rec.artifacts \in Seq(Artifacts)
      BY DEF RunRecords
    <3> QED BY <1>4, <2>6, <3>1
  <2> QED BY <2>1, <2>2, <2>4, <2>6, <2>7 DEF Stored
<1>5. ManifestMatchesRun
  BY <1>2, <1>3 DEF ManifestMatchesRun
<1>6. ArtifactsIntact
  BY <1>4 DEF ArtifactsIntact
<1> QED BY <1>5, <1>6 DEF RunsOnRecord

(* start_run and the log: every run that was left has its own manifest on  *)
(* disk with its data, artifacts and outcome, and whatever a manifest      *)
(* lists is stored with the contents of its hash, however many processes   *)
(* share the store, if runs of one logger are not nested, two runs of one  *)
(* name and seed do not begin within a second, names of artifacts do not   *)
(* repeat within a run, and nothing is logged after a run was left.        *)
THEOREM LogRecordsRuns ==
  ASSUME ~NestedRuns, ~SameSecond, ~RepeatedNames, ~LateLogs
  PROVE  TrackingSpec => []RunsOnRecord
<1>1. TrackingInit => LogInv
  BY LogInit
<1>2. LogInv /\ [TrackingNext]_trackingVars => LogInv'
  <2> SUFFICES ASSUME LogInv, [TrackingNext]_trackingVars PROVE LogInv'
    OBVIOUS
  <2>1. OnePolicy /\ {"metric", "tensor"} \subseteq Items
    BY DEF OnePolicy, Items
  <2>2. CASE UNCHANGED trackingVars
    BY <2>2, LogStutters
  <2>3. CASE Tick
    BY <2>3, TickFits
  <2>4. CASE \E name \in FileNames, c \in Contents : RewriteSource(name, c)
    BY <2>4, RewriteFits
  <2>5. ASSUME NEW l \in Loggers, NEW run_name \in RunNames, NEW seed \in Seeds,
               StartRun(l, run_name, seed)
        PROVE  LogInv'
    <3>1. context[l] = <<>> /\ ~SameSecond
      BY <2>1, <2>5 DEF StartRun, OnePolicy
    <3> QED BY <2>5, <3>1, StartFits
  <2>6. ASSUME NEW l \in Loggers, NEW item \in {"metric", "tensor"}, Log(l, item)
        PROVE  LogInv'
    <3>1. context[l] # <<>>
      BY <2>1, <2>6 DEF Log, OnePolicy
    <3> QED BY <2>1, <2>6, <3>1, LogFits
  <2>7. ASSUME NEW l \in Loggers, NEW name \in FileNames, CopyArtifact(l, name)
        PROVE  LogInv'
    BY <2>1, <2>7, CopyFits
  <2>8. ASSUME NEW l \in Loggers, IndexArtifact(l) PROVE LogInv'
    BY <2>8, IndexFits
  <2>9. ASSUME NEW l \in Loggers, NEW how \in {"returned", "raised", "interrupted"},
               Leave(l, how)
        PROVE  LogInv'
    BY <2>9, LeaveFits
  <2>10. ASSUME NEW l \in Loggers, Die(l) PROVE LogInv'
    BY <2>10, DieFits
  <2> QED BY <2>2, <2>3, <2>4, <2>5, <2>6, <2>7, <2>8, <2>9, <2>10 DEF TrackingNext
<1>3. LogInv => RunsOnRecord
  BY LogIsRecord
<1> QED BY <1>1, <1>2, <1>3, PTL DEF TrackingSpec

-----------------------------------------------------------------------------
(***************************************************************************)
(* The suite, for any texts, inputs and number of processes.               *)
(***************************************************************************)

(* zip() of lists of one length yields that many.                          *)
Least(b, U, it) ==
  it = [s \in SUBSET U |->
          IF s = {} THEN b
          ELSE IF Chosen(s) < it[s \ {Chosen(s)}] THEN Chosen(s)
               ELSE it[s \ {Chosen(s)}]]

LEMMA LeastOfSame ==
  ASSUME NEW n \in Nat
  PROVE  FoldSet(LAMBDA m, least : IF m < least THEN m ELSE least, n, {n}) = n
<1> DEFINE it == CHOOSE f : Least(n, {n}, f)
           same == [s \in SUBSET {n} |-> n]
<1>1. Least(n, {n}, same)
  <2>1. ASSUME NEW s \in SUBSET {n}, s # {} PROVE Chosen(s) = n /\ same[s \ {Chosen(s)}] = n
    BY <2>1, ChosenIsIn
  <2> QED BY <2>1 DEF Least
<1>2. Least(n, {n}, it)
  BY <1>1
<1>3. Chosen({n}) = n
  BY ChosenIsIn
<1>4. it[{}] = n
  BY <1>2 DEF Least
<1>5. it[{n}] = n
  <2> HIDE DEF it
  <2>1. {n} \ {Chosen({n})} = {} /\ {n} \in SUBSET {n} /\ {n} # {}
    BY <1>3
  <2> QED BY <1>2, <1>3, <1>4, <2>1 DEF Least
<1> QED BY <1>5 DEF FoldSet, MapThenFoldSet, Least, Chosen

LEMMA ZipOfSame ==
  ASSUME NEW i \in Inputs, SameLengths(i)
  PROVE  Zipped(i) = 1..Len(i.samples) /\ Len(i.samples) \in Nat
<1>1. PICK n \in Nat : n = Len(i.samples)
  BY SuiteAssumption
<1>2. {Len(i.baseline), Len(i.quantized)} = {n}
  BY <1>1 DEF SameLengths
<1>3. FoldSet(LAMBDA m, least : IF m < least THEN m ELSE least, n, {n}) = n
  BY LeastOfSame
<1> QED BY <1>1, <1>2, <1>3 DEF Zipped

(* How two sets split a third one. *)
LEMMA Quarters ==
  ASSUME NEW Z, IsFiniteSet(Z), NEW A \in SUBSET Z, NEW C \in SUBSET Z
  PROVE  /\ {Cardinality(A), Cardinality(C), Cardinality(Z)} \subseteq Nat
         /\ Cardinality(A \ C) - Cardinality(C \ A) = Cardinality(A) - Cardinality(C)
         /\ Cardinality(A) + Cardinality(C \ A) + Cardinality(Z \ (A \cup C)) = Cardinality(Z)
         /\ Cardinality(Z \ C) = Cardinality(Z) - Cardinality(C)
<1>1. /\ IsFiniteSet(A) /\ IsFiniteSet(C) /\ IsFiniteSet(A \cup C)
      /\ IsFiniteSet(A \cap C)
  BY FS_Subset
<1>2. /\ Cardinality(A) \in Nat /\ Cardinality(C) \in Nat /\ Cardinality(Z) \in Nat
      /\ Cardinality(A \cup C) \in Nat /\ Cardinality(A \cap C) \in Nat
  BY <1>1, FS_CardinalityType
<1>3. Cardinality(A \ C) = Cardinality(A) - Cardinality(A \cap C)
  BY <1>1, FS_Difference
<1>4. Cardinality(C \ A) = Cardinality(C) - Cardinality(A \cap C)
  <2>1. C \cap A = A \cap C
    OBVIOUS
  <2>2. Cardinality(C \ A) = Cardinality(C) - Cardinality(C \cap A)
    BY <1>1, FS_Difference
  <2> QED BY <2>1, <2>2, Zenon
<1>5. Cardinality(Z \ C) = Cardinality(Z) - Cardinality(C)
  <2>1. Z \cap C = C
    OBVIOUS
  <2> QED BY <2>1, FS_Difference
<1>6. Cardinality(Z \ (A \cup C)) = Cardinality(Z) - Cardinality(A \cup C)
  <2>1. Z \cap (A \cup C) = A \cup C
    OBVIOUS
  <2> QED BY <2>1, FS_Difference
<1>7. Cardinality(A \cup C) = Cardinality(A) + Cardinality(C) - Cardinality(A \cap C)
  BY <1>1, FS_Union
<1> QED BY <1>2, <1>3, <1>4, <1>5, <1>6, <1>7

(* What the report of two lists of answers says adds up.                   *)
LEMMA ReportsAddUp ==
  ASSUME NEW i \in Inputs, SameLengths(i)
  PROVE  ReportAddsUp(Report(i))
<1> DEFINE A == {s \in Zipped(i) : Correct(i.baseline[s], i.samples[s])}
           C == {s \in Zipped(i) : Correct(i.quantized[s], i.samples[s])}
<1>1. PICK n \in Nat : n = Len(i.samples) /\ Zipped(i) = 1..n
  BY ZipOfSame
<1>2. PICK Z : Z = 1..n /\ IsFiniteSet(Z) /\ Cardinality(Z) = n
  BY FS_Interval
<1>3. InCategory(i, "QUANT_DIVERGENCE") = A \ C
  BY DEF InCategory, Category
<1>4. InCategory(i, "REASONING_DRIFT") = C \ A
  BY DEF InCategory, Category
<1>5. InCategory(i, "NONE_PASSED") = Z \ (A \cup C)
  BY <1>1, <1>2 DEF InCategory, Category
<1>6. InCategory(i, "QUANT_DIVERGENCE") \cup InCategory(i, "NONE_PASSED") = Z \ C
  BY <1>1, <1>2, <1>3, <1>5
<1>7. /\ Report(i).total = n
      /\ Report(i).baseline = Cardinality(A)
      /\ Report(i).quantized = Cardinality(C)
      /\ Report(i).degradation = Cardinality(A) - Cardinality(C)
      /\ Report(i).counts["QUANT_DIVERGENCE"] = Cardinality(A \ C)
      /\ Report(i).counts["REASONING_DRIFT"] = Cardinality(C \ A)
      /\ Report(i).counts["NONE_PASSED"] = Cardinality(Z \ (A \cup C))
      /\ Report(i).failed = Z \ C
  BY <1>1, <1>3, <1>4, <1>5, <1>6 DEF Report
<1>8. A \in SUBSET Z /\ C \in SUBSET Z
  BY <1>1, <1>2
<1> HIDE DEF A, C
<1>9. /\ Cardinality(A \ C) - Cardinality(C \ A) = Cardinality(A) - Cardinality(C)
      /\ Cardinality(A) + Cardinality(C \ A) + Cardinality(Z \ (A \cup C)) = n
      /\ Cardinality(Z \ C) = n - Cardinality(C)
  <2>1. IsFiniteSet(Z) /\ Cardinality(Z) = n
    BY <1>2
  <2> QED BY ONLY <1>8, <2>1, Quarters
<1> QED BY <1>7, <1>9 DEF ReportAddsUp

(* What the run of a suite has logged so far, and that a process that is   *)
(* in its suite is inside of its run, which stays its current one after.   *)
Reports == {NoReport} \cup {Report(i) : i \in {j \in Inputs : SameLengths(j)}}

Places ==
  {"none", "parameters", "profile", "analysis", "return",
   "returned", "raised", "interrupted", "died"}

SuiteInputs == Inputs \cup {<<>>}

SuiteStates == [pc : Places, input : SuiteInputs, profiled : Nat, report : Reports]

Logged(pc, report) ==
  CASE pc = "parameters" -> {}
    [] pc = "profile" -> {"parameters"}
    [] pc = "analysis" -> {"parameters", "latency"}
    [] OTHER -> {"parameters", "latency"}
                  \cup (IF report = NoReport THEN {} ELSE {"accuracy"})

InRun(l) ==
  /\ Running(l) =>
       /\ context[l] # <<>> /\ suite[l].input \in Inputs
       /\ ~At(l, "return") => suite[l].report = NoReport
       /\ runs[current[l]].data = Logged(suite[l].pc, suite[l].report)
  /\ ~Running(l) => context[l] = <<>>

AfterRun(l) ==
  suite[l].pc \in {"returned", "raised"} =>
    /\ current[l] \in 1..Len(runs) /\ runs[current[l]].outcome = suite[l].pc
    /\ "tensor" \notin runs[current[l]].data
    /\ At(l, "returned") =>
         runs[current[l]].data = Logged(suite[l].pc, suite[l].report)

SuiteInv ==
  /\ LogInv
  /\ suite \in [Loggers -> SuiteStates]
  /\ \A l \in Loggers : InRun(l) /\ AfterRun(l)

LEMMA SuiteStateFields ==
  ASSUME NEW pc \in Places, NEW input \in SuiteInputs, NEW k \in Nat,
         NEW report \in Reports,
         NEW s, s = [pc |-> pc, input |-> input, profiled |-> k, report |-> report]
  PROVE  /\ s \in SuiteStates
         /\ s.pc = pc /\ s.input = input /\ s.profiled = k /\ s.report = report
BY DEF SuiteStates

LEMMA PlaceChanges ==
  ASSUME NEW old \in SuiteStates, NEW pc \in Places,
         NEW s, s = [old EXCEPT !.pc = pc]
  PROVE  /\ s \in SuiteStates
         /\ s.pc = pc /\ s.input = old.input /\ s.report = old.report
BY DEF SuiteStates

LEMMA ProfiledChanges ==
  ASSUME NEW old \in SuiteStates, NEW k \in Nat,
         NEW s, s = [old EXCEPT !.profiled = k]
  PROVE  /\ s \in SuiteStates
         /\ s.pc = old.pc /\ s.input = old.input /\ s.report = old.report
BY DEF SuiteStates

LEMMA SuiteStarts ==
  ASSUME SuiteInit
  PROVE  SuiteInv
<1>1. LogInv
  BY LogInit DEF SuiteInit
<1>2. NoSuite \in SuiteStates /\ NoSuite.pc = "none"
  BY SuiteStateFields DEF NoSuite, SuiteInputs, Places, Reports
<1>3. suite = [l \in Loggers |-> NoSuite] /\ context = [l \in Loggers |-> <<>>]
  BY DEF SuiteInit, TrackingInit
<1> QED BY <1>1, <1>2, <1>3 DEF SuiteInv, InRun, AfterRun, Running

(* A step of one process leaves the others' suites as they are.            *)
LEMMA OtherSuites ==
  ASSUME SuiteInv, NEW l \in Loggers, NEW c, Others(l), KeptBut(c), LogInv',
         c = 0 \/ (c = current[l] /\ context[l] # <<>>),
         NEW m \in Loggers, m # l, suite'[m] = suite[m]
  PROVE  InRun(m)' /\ AfterRun(m)'
<1>1. current'[m] = current[m] /\ context'[m] = context[m]
  BY DEF Others
<1>2. PICK n \in Nat, k \in Nat : n = Len(runs) /\ k = Len(runs') /\ n <= k
  <2>1. Len(runs) \in Nat
    BY TypedRuns DEF SuiteInv
  <2>2. runs' \in Seq(RunRecords)
    BY DEF LogInv, LogTypes
  <2> QED BY <2>1, <2>2 DEF KeptBut
<1>3. ASSUME ~Running(m) PROVE InRun(m)'
  BY <1>1, <1>3 DEF SuiteInv, InRun, Running
<1>4. ASSUME Running(m) PROVE InRun(m)'
  <2>1. context[m] # <<>>
    BY <1>4 DEF SuiteInv, InRun
  <2>2. PICK d \in 1..n : d = current[m]
    BY <1>2, <2>1, InsideFacts DEF SuiteInv
  <2>3. d # c
    BY <1>2, <2>1, <2>2 DEF SuiteInv, LogInv, OwnRuns
  <2>4. runs'[d] = runs[d]
    BY <1>2, <2>2, <2>3 DEF KeptBut
  <2> QED BY <1>1, <1>4, <2>1, <2>2, <2>4 DEF SuiteInv, InRun, Running, At
<1>5. ASSUME suite[m].pc \in {"returned", "raised"} PROVE AfterRun(m)'
  <2>1. PICK d \in 1..n : d = current[m] /\ runs[d].outcome \in {"returned", "raised"}
    BY <1>2, <1>5 DEF SuiteInv, AfterRun
  <2>2. d # c
    <3>1. CASE c = 0
      BY <1>2, <2>1, <3>1
    <3>2. CASE c = current[l] /\ context[l] # <<>>
      <4>1. runs[c].outcome = "open"
        BY <3>2, InsideFacts DEF SuiteInv
      <4> QED BY <2>1, <4>1
    <3> QED BY <3>1, <3>2
  <2>3. runs'[d] = runs[d] /\ d \in 1..k
    BY <1>2, <2>1, <2>2 DEF KeptBut
  <2> QED BY <1>1, <1>2, <1>5, <2>1, <2>3 DEF SuiteInv, AfterRun, At
<1> QED BY <1>3, <1>4, <1>5 DEF InRun, AfterRun, Running

LEMMA SuiteMoves ==
  ASSUME SuiteInv, NEW l \in Loggers, NEW c, Others(l), KeptBut(c), LogInv',
         c = 0 \/ (c = current[l] /\ context[l] # <<>>),
         NEW s \in SuiteStates, suite' = [suite EXCEPT ![l] = s],
         s.pc \in {"parameters", "profile", "analysis", "return"} =>
           /\ context'[l] # <<>> /\ s.input \in Inputs
           /\ s.pc # "return" => s.report = NoReport
           /\ runs'[current'[l]].data = Logged(s.pc, s.report),
         s.pc \notin {"parameters", "profile", "analysis", "return"} => context'[l] = <<>>,
         s.pc \in {"returned", "raised"} =>
           /\ current'[l] \in 1..Len(runs') /\ runs'[current'[l]].outcome = s.pc
           /\ "tensor" \notin runs'[current'[l]].data
           /\ s.pc = "returned" =>
                runs'[current'[l]].data = Logged(s.pc, s.report)
  PROVE  SuiteInv'
<1>1. /\ suite' \in [Loggers -> SuiteStates] /\ suite'[l] = s
      /\ \A m \in Loggers : m # l => suite'[m] = suite[m]
  BY DEF SuiteInv
<1>2. \A m \in Loggers : m # l => InRun(m)' /\ AfterRun(m)'
  BY <1>1, OtherSuites
<1>3. InRun(l)'
  BY <1>1 DEF InRun, Running, At
<1>4. AfterRun(l)'
  BY <1>1 DEF AfterRun, At
<1> QED BY <1>1, <1>2, <1>3, <1>4 DEF SuiteInv

LEMMA ReportIsSome ==
  ASSUME NEW i
  PROVE  Report(i) # NoReport
<1>1. "total" \in DOMAIN Report(i)
  BY DEF Report
<1>2. DOMAIN <<>> = {}
  OBVIOUS
<1> QED BY <1>1, <1>2 DEF NoReport

LEMMA StartSuiteFits ==
  ASSUME SuiteInv, ~SameSecond, NEW l \in Loggers, NEW input \in Inputs, StartSuite(l, input)
  PROVE  SuiteInv'
<1>1. PICK s \in SuiteStates :
        /\ s = [pc |-> "parameters", input |-> input, profiled |-> 0, report |-> NoReport]
        /\ s.pc = "parameters" /\ s.input = input /\ s.report = NoReport
  <2>1. "parameters" \in Places /\ input \in SuiteInputs /\ NoReport \in Reports
    BY DEF SuiteInputs, Places, Reports
  <2>2. PICK s : s = [pc |-> "parameters", input |-> input, profiled |-> 0, report |-> NoReport]
    OBVIOUS
  <2> QED BY <2>1, <2>2, SuiteStateFields
<1>2. suite' = [suite EXCEPT ![l] = s] /\ StartRun(l, "eval_suite", 42)
  <2>1. suite' = [suite EXCEPT ![l] = [NoSuite EXCEPT !.pc = "parameters", !.input = input]]
    BY DEF StartSuite
  <2>2. [NoSuite EXCEPT !.pc = "parameters", !.input = input] = s
    <3>1. PICK none, zero, report, blank :
            none = <<>> /\ zero = 0 /\ report = NoReport /\ blank = "none"
      OBVIOUS
    <3>2. NoSuite = [pc |-> blank, input |-> none, profiled |-> zero, report |-> report]
      BY <3>1 DEF NoSuite
    <3>3. PICK place : place = "parameters"
      OBVIOUS
    <3>4. [NoSuite EXCEPT !.pc = place, !.input = input]
            = [pc |-> place, input |-> input, profiled |-> zero, report |-> report]
      <4>1. [NoSuite EXCEPT !.pc = place]
              = [pc |-> place, input |-> none, profiled |-> zero, report |-> report]
        BY <3>2
      <4>2. [[NoSuite EXCEPT !.pc = place] EXCEPT !.input = input]
              = [pc |-> place, input |-> input, profiled |-> zero, report |-> report]
        <5>1. [[pc |-> place, input |-> none, profiled |-> zero, report |-> report]
                 EXCEPT !.input = input]
                = [pc |-> place, input |-> input, profiled |-> zero, report |-> report]
          BY ONLY TRUE
        <5> QED BY ONLY <4>1, <5>1, Zenon
      <4>3. [NoSuite EXCEPT !.pc = place, !.input = input]
              = [[NoSuite EXCEPT !.pc = place] EXCEPT !.input = input]
        OBVIOUS
      <4> QED BY <4>2, <4>3
    <3> QED BY <1>1, <3>1, <3>3, <3>4
  <2> QED BY <2>1, <2>2 DEF StartSuite
<1>3. /\ LogInv' /\ Others(l) /\ KeptBut(0)
      /\ context'[l] # <<>> /\ runs'[current'[l]].data = {}
  <2>1. "eval_suite" \in RunNames \cup {"eval_suite"} /\ 42 \in Seeds \cup {42}
    OBVIOUS
  <2>2. context[l] = <<>>
    BY DEF StartSuite, SuiteInv, InRun
  <2> QED BY <1>2, <2>1, <2>2, StartFits DEF SuiteInv
<1>4. Logged("parameters", NoReport) = {}
  BY DEF Logged
<1>5. s.pc \notin {"returned", "raised"} /\ s.pc \in {"parameters", "profile", "analysis", "return"}
  BY <1>1
<1>6. PICK c : c = 0 /\ KeptBut(c)
  BY <1>3
<1>7. /\ context'[l] # <<>> /\ s.input \in Inputs /\ s.report = NoReport
      /\ runs'[current'[l]].data = Logged(s.pc, s.report)
  BY <1>1, <1>3, <1>4
<1> QED BY <1>2, <1>3, <1>5, <1>6, <1>7, SuiteMoves

(* log_parameters and log_metrics in the suite.                            *)
LEMMA LogInSuite ==
  ASSUME SuiteInv, ~SameSecond, NEW l \in Loggers, NEW item \in Items, Log(l, item),
         Running(l),
         NEW pc \in {"profile", "analysis", "return"}, NEW report \in Reports,
         pc # "return" => report = NoReport,
         Logged(pc, report) = Logged(suite[l].pc, suite[l].report) \cup {item},
         suite' = [suite EXCEPT ![l] = [[suite[l] EXCEPT !.pc = pc] EXCEPT !.report = report]]
  PROVE  SuiteInv'
<1>1. PICK old \in SuiteStates : old = suite[l]
  BY DEF SuiteInv
<1>2. PICK s \in SuiteStates :
        /\ s = [[old EXCEPT !.pc = pc] EXCEPT !.report = report]
        /\ s.pc = pc /\ s.input = old.input /\ s.report = report
  <2>1. pc \in Places
    BY DEF Places
  <2>2. PICK s : s = [[old EXCEPT !.pc = pc] EXCEPT !.report = report]
    OBVIOUS
  <2>3. s \in SuiteStates /\ s.pc = pc /\ s.input = old.input /\ s.report = report
    BY <2>1, <2>2 DEF SuiteStates
  <2> QED BY <2>2, <2>3
<1>3. /\ LogInv' /\ Others(l) /\ KeptBut(current[l]) /\ context[l] # <<>>
      /\ current'[l] = current[l] /\ context'[l] = context[l]
      /\ runs'[current[l]].data = runs[current[l]].data \cup {item}
  <2>1. context[l] # <<>>
    BY DEF SuiteInv, InRun
  <2> QED BY <2>1, LogFits DEF SuiteInv
<1>4. old.input \in Inputs /\ runs[current[l]].data = Logged(suite[l].pc, suite[l].report)
  BY <1>1 DEF SuiteInv, InRun
<1> QED BY <1>1, <1>2, <1>3, <1>4, SuiteMoves

LEMMA LogParametersFits ==
  ASSUME SuiteInv, ~SameSecond, NEW l \in Loggers, LogParameters(l)
  PROVE  SuiteInv'
<1>1. PICK old \in SuiteStates : old = suite[l] /\ old.pc = "parameters"
  BY DEF SuiteInv, LogParameters, At
<1>2. Running(l) /\ old.report = NoReport
  BY <1>1 DEF Running, SuiteInv, InRun, At
<1>3. suite' = [suite EXCEPT ![l] = [[suite[l] EXCEPT !.pc = "profile"] EXCEPT !.report = NoReport]]
  BY <1>1, <1>2 DEF SuiteInv, LogParameters, Goto, SuiteStates
<1>4. Logged("profile", NoReport) = Logged(suite[l].pc, suite[l].report) \cup {"parameters"}
  BY <1>1, <1>2 DEF Logged
<1>5. Log(l, "parameters") /\ "parameters" \in Items /\ NoReport \in Reports
  BY DEF LogParameters, Items, Reports
<1> QED BY <1>2, <1>3, <1>4, <1>5, LogInSuite

LEMMA SummariseFits ==
  ASSUME SuiteInv, ~SameSecond, NEW l \in Loggers, Summarise(l)
  PROVE  SuiteInv'
<1>1. PICK old \in SuiteStates : old = suite[l] /\ old.pc = "profile"
  BY DEF SuiteInv, Summarise, At
<1>2. Running(l) /\ old.report = NoReport
  BY <1>1 DEF Running, SuiteInv, InRun, At
<1>3. suite' = [suite EXCEPT ![l] = [[suite[l] EXCEPT !.pc = "analysis"] EXCEPT !.report = NoReport]]
  BY <1>1, <1>2 DEF SuiteInv, Summarise, Goto, SuiteStates
<1>4. Logged("analysis", NoReport) = Logged(suite[l].pc, suite[l].report) \cup {"latency"}
  BY <1>1, <1>2 DEF Logged
<1>5. Log(l, "latency") /\ "latency" \in Items /\ NoReport \in Reports
  BY DEF Summarise, Items, Reports
<1> QED BY <1>2, <1>3, <1>4, <1>5, LogInSuite

(* A step of the suite that logs nothing.                                  *)
LEMMA QuietInSuite ==
  ASSUME SuiteInv, NEW l \in Loggers, Running(l), UNCHANGED trackingVars,
         NEW s \in SuiteStates, suite' = [suite EXCEPT ![l] = s],
         s.pc \in {"parameters", "profile", "analysis", "return"},
         s.input = suite[l].input, s.report = NoReport,
         suite[l].report = NoReport,
         Logged(s.pc, NoReport) = Logged(suite[l].pc, NoReport)
  PROVE  SuiteInv'
<1>1. /\ runs' = runs /\ current' = current /\ context' = context /\ storing' = storing
      /\ LogInv'
  BY LogStutters DEF trackingVars, SuiteInv
<1>2. Others(l) /\ KeptBut(0)
  <2>1. Len(runs) \in Nat
    BY TypedRuns DEF SuiteInv
  <2> QED BY <1>1, <2>1 DEF Others, KeptBut
<1>3. /\ context[l] # <<>> /\ suite[l].input \in Inputs
      /\ runs[current[l]].data = Logged(suite[l].pc, NoReport)
  BY DEF SuiteInv, InRun
<1>4. s.pc \notin {"returned", "raised"}
  OBVIOUS
<1> QED BY <1>1, <1>2, <1>3, <1>4, SuiteMoves

LEMMA ProfileFits ==
  ASSUME SuiteInv, NEW l \in Loggers, Profile(l)
  PROVE  SuiteInv'
<1>1. PICK old \in SuiteStates : old = suite[l] /\ old.pc = "profile"
  BY DEF SuiteInv, Profile, At
<1>2. Running(l) /\ old.report = NoReport
  BY <1>1 DEF Running, SuiteInv, InRun, At
<1>3. PICK k \in Nat : k = old.profiled
  BY DEF SuiteStates
<1>4. PICK s \in SuiteStates :
        /\ s = [old EXCEPT !.profiled = k + 1]
        /\ s.pc = "profile" /\ s.input = old.input /\ s.report = NoReport
  <2>1. k + 1 \in Nat
    OBVIOUS
  <2>2. PICK s : s = [old EXCEPT !.profiled = k + 1]
    OBVIOUS
  <2> QED BY <1>1, <1>2, <2>1, <2>2, ProfiledChanges
<1>5. suite' = [suite EXCEPT ![l] = s] /\ UNCHANGED trackingVars
  BY <1>1, <1>3, <1>4 DEF Profile
<1> QED BY <1>1, <1>2, <1>4, <1>5, QuietInSuite

LEMMA AnalyseFits ==
  ASSUME SuiteInv, ~SameSecond, NEW l \in Loggers, Analyse(l)
  PROVE  SuiteInv'
<1>1. PICK old \in SuiteStates : old = suite[l] /\ old.pc = "analysis"
  BY DEF SuiteInv, Analyse, At
<1>2. Running(l) /\ old.report = NoReport /\ old.input \in Inputs
  BY <1>1 DEF Running, SuiteInv, InRun, At
<1>3. CASE ToAnalyse(old.input)
  <2>1. /\ SameLengths(old.input) /\ Log(l, "accuracy")
        /\ suite' = [suite EXCEPT ![l].pc = "return", ![l].report = Report(old.input)]
    BY <1>1, <1>3 DEF Analyse
  <2>2. PICK report \in Reports : report = Report(old.input) /\ report # NoReport
    BY <1>2, <2>1, ReportIsSome DEF Reports
  <2>3. suite' = [suite EXCEPT ![l] = [[suite[l] EXCEPT !.pc = "return"] EXCEPT !.report = report]]
    BY <1>1, <2>1, <2>2 DEF SuiteInv
  <2>4. Logged("return", report) = Logged(suite[l].pc, suite[l].report) \cup {"accuracy"}
    BY <1>1, <1>2, <2>2 DEF Logged
  <2>5. "accuracy" \in Items
    BY DEF Items
  <2> QED BY <1>2, <2>1, <2>3, <2>4, <2>5, LogInSuite
<1>4. CASE ~ToAnalyse(old.input)
  <2>1. Goto(l, "return") /\ UNCHANGED trackingVars
    BY <1>1, <1>4 DEF Analyse
  <2>2. PICK s \in SuiteStates :
          /\ s = [old EXCEPT !.pc = "return"]
          /\ s.pc = "return" /\ s.input = old.input /\ s.report = NoReport
    <3>1. "return" \in Places
      BY DEF Places
    <3>2. PICK s : s = [old EXCEPT !.pc = "return"]
      OBVIOUS
    <3> QED BY <1>2, <3>1, <3>2, PlaceChanges
  <2>3. suite' = [suite EXCEPT ![l] = s]
    BY <1>1, <2>1, <2>2 DEF Goto
  <2>4. Logged("return", NoReport) = Logged("analysis", NoReport)
    BY DEF Logged
  <2> QED BY <1>1, <1>2, <2>1, <2>2, <2>3, <2>4, QuietInSuite
<1> QED BY <1>3, <1>4

(* The ways out of a suite, of which the first two leave a result or an    *)
(* exception.                                                              *)
LEMMA LeaveSuite ==
  ASSUME SuiteInv, NEW l \in Loggers, Running(l),
         NEW how \in {"returned", "raised", "interrupted"}, Leave(l, how), Goto(l, how),
         how = "returned" => At(l, "return")
  PROVE  SuiteInv'
<1>1. PICK old \in SuiteStates : old = suite[l]
  BY DEF SuiteInv
<1>2. PICK s : s = [old EXCEPT !.pc = how]
  OBVIOUS
<1>3. s \in SuiteStates /\ s.pc = how /\ s.report = old.report
  BY <1>2, PlaceChanges DEF Places
<1>4. suite' = [suite EXCEPT ![l] = s]
  BY <1>1, <1>2 DEF Goto
<1>5. /\ LogInv' /\ Others(l) /\ KeptBut(current[l]) /\ context[l] # <<>>
      /\ current'[l] = current[l] /\ context'[l] = <<>>
      /\ runs'[current[l]].data = runs[current[l]].data
      /\ runs'[current[l]].outcome = how
  BY LeaveFits DEF SuiteInv
<1>6. PICK c \in 1..Len(runs) : c = current[l]
  BY <1>5, InsideFacts DEF SuiteInv
<1>7. c \in 1..Len(runs')
  <2>1. Len(runs) \in Nat
    BY TypedRuns DEF SuiteInv
  <2>2. runs' \in Seq(RunRecords)
    BY <1>5 DEF LogInv, LogTypes
  <2> QED BY <1>5, <2>1, <2>2 DEF KeptBut
<1>8. runs[c].data = Logged(old.pc, old.report)
  BY <1>1, <1>6 DEF SuiteInv, InRun
<1>9. "tensor" \notin Logged(old.pc, old.report)
  BY DEF Logged
<1>10. how = "returned" => Logged(old.pc, old.report) = Logged(how, old.report)
  BY <1>1 DEF Logged, At
<1>11. how \notin {"parameters", "profile", "analysis", "return"}
  OBVIOUS
<1> QED BY <1>3, <1>4, <1>5, <1>6, <1>7, <1>8, <1>9, <1>10, <1>11, SuiteMoves

LEMMA ReturnResultFits ==
  ASSUME SuiteInv, NEW l \in Loggers, ReturnResult(l)
  PROVE  SuiteInv'
<1>1. Running(l) /\ Leave(l, "returned") /\ Goto(l, "returned") /\ At(l, "return")
  BY DEF ReturnResult, Running, At
<1> QED BY <1>1, LeaveSuite

LEMMA RaiseFits ==
  ASSUME SuiteInv, NEW l \in Loggers, Raise(l)
  PROVE  SuiteInv'
<1>1. Running(l) /\ Leave(l, "raised") /\ Goto(l, "raised")
  BY DEF Raise, Running, At
<1> QED BY <1>1, LeaveSuite

LEMMA InterruptFits ==
  ASSUME SuiteInv, NEW l \in Loggers, Interrupt(l)
  PROVE  SuiteInv'
<1>1. Running(l) /\ Leave(l, "interrupted") /\ Goto(l, "interrupted")
  BY DEF Interrupt
<1> QED BY <1>1, LeaveSuite

LEMMA KillFits ==
  ASSUME SuiteInv, NEW l \in Loggers, Kill(l)
  PROVE  SuiteInv'
<1>1. PICK old \in SuiteStates : old = suite[l]
  BY DEF SuiteInv
<1>2. PICK s : s = [old EXCEPT !.pc = "died"]
  OBVIOUS
<1>3. s \in SuiteStates /\ s.pc = "died"
  <2>1. "died" \in Places
    BY DEF Places
  <2> QED BY <1>2, <2>1, PlaceChanges
<1>4. suite' = [suite EXCEPT ![l] = s]
  BY <1>1, <1>2 DEF Kill, Goto
<1>5. LogInv' /\ Others(l) /\ KeptBut(current[l]) /\ context[l] # <<>> /\ context'[l] = <<>>
  BY DieFits DEF SuiteInv, Kill
<1>6. s.pc \notin {"parameters", "profile", "analysis", "return", "returned", "raised"}
  BY <1>3
<1> QED BY <1>3, <1>4, <1>5, <1>6, SuiteMoves

LEMMA QuietSuites ==
  ASSUME SuiteInv, LogInv', runs' = runs, current' = current, context' = context,
         suite' = suite
  PROVE  SuiteInv'
BY DEF SuiteInv, InRun, AfterRun, Running, At

LEMMA SuiteStep ==
  ASSUME ~SameSecond, SuiteInv, [SuiteNext]_suiteVars
  PROVE  SuiteInv'
<1>1. CASE UNCHANGED suiteVars
  <2>1. LogInv'
    BY <1>1, LogStutters DEF SuiteInv, suiteVars
  <2> QED BY <1>1, <2>1, QuietSuites DEF suiteVars, trackingVars
<1>2. CASE Tick /\ UNCHANGED suite
  <2>1. LogInv'
    BY <1>2, TickFits DEF SuiteInv
  <2> QED BY <1>2, <2>1, QuietSuites DEF Tick
<1>3. ASSUME NEW l \in Loggers, NEW input \in Inputs, StartSuite(l, input)
      PROVE  SuiteInv'
  BY <1>3, StartSuiteFits
<1>4. ASSUME NEW l \in Loggers, LogParameters(l) PROVE SuiteInv'
  BY <1>4, LogParametersFits
<1>5. ASSUME NEW l \in Loggers, Profile(l) PROVE SuiteInv'
  BY <1>5, ProfileFits
<1>6. ASSUME NEW l \in Loggers, Summarise(l) PROVE SuiteInv'
  BY <1>6, SummariseFits
<1>7. ASSUME NEW l \in Loggers, Analyse(l) PROVE SuiteInv'
  BY <1>7, AnalyseFits
<1>8. ASSUME NEW l \in Loggers, ReturnResult(l) PROVE SuiteInv'
  BY <1>8, ReturnResultFits
<1>9. ASSUME NEW l \in Loggers, Raise(l) PROVE SuiteInv'
  BY <1>9, RaiseFits
<1>10. ASSUME NEW l \in Loggers, Interrupt(l) PROVE SuiteInv'
  BY <1>10, InterruptFits
<1>11. ASSUME NEW l \in Loggers, Kill(l) PROVE SuiteInv'
  BY <1>11, KillFits
<1> QED BY <1>1, <1>2, <1>3, <1>4, <1>5, <1>6, <1>7, <1>8, <1>9, <1>10, <1>11
        DEF SuiteNext

LEMMA ResultIsOnRecord ==
  ASSUME SuiteInv
  PROVE  ResultMatchesManifest
<1> SUFFICES ASSUME NEW l \in Loggers, suite[l].pc \in {"returned", "raised"}
             PROVE  LET m == store[<<runs[current[l]].id, "run_manifest.json">>]
                        r == suite[l].report
                    IN
                    /\ m.complete
                    /\ m.status = IF At(l, "returned") THEN "SUCCESS" ELSE "FAILED"
                    /\ At(l, "returned") =>
                         m.data = {"parameters", "latency"}
                                    \cup (IF r = NoReport THEN {} ELSE {"accuracy"})
                    /\ r # NoReport => ReportAddsUp(r)
  BY DEF ResultMatchesManifest
<1>1. PICK old \in SuiteStates : old = suite[l]
  BY DEF SuiteInv
<1>2. PICK c \in 1..Len(runs) : c = current[l] /\ runs[c].outcome = old.pc
  BY <1>1 DEF SuiteInv, AfterRun
<1>3. PICK run \in RunRecords : run = runs[c] /\ RunSound(c)
  BY RunFacts DEF SuiteInv
<1>4. /\ "tensor" \notin run.data
      /\ old.pc = "returned" => run.data = Logged(old.pc, old.report)
  BY <1>1, <1>2, <1>3 DEF SuiteInv, AfterRun, At
<1>5. PICK m : m = store[<<run.id, "run_manifest.json">>]
  OBVIOUS
<1>6. /\ m = Manifest(run)
      /\ run.status = StatusAfter(run.outcome, "RUNNING")
  BY <1>1, <1>2, <1>3, <1>5 DEF RunSound, Left, ManifestName
<1>7. m.complete /\ m.status = run.status /\ m.data = run.data
  BY <1>4, <1>6 DEF Manifest
<1>8. run.status = IF old.pc = "returned" THEN "SUCCESS" ELSE "FAILED"
  BY <1>1, <1>2, <1>3, <1>6 DEF StatusAfter
<1>9. old.pc = "returned" =>
        run.data = {"parameters", "latency"}
                     \cup (IF old.report = NoReport THEN {} ELSE {"accuracy"})
  BY <1>4 DEF Logged
<1>10. ASSUME old.report # NoReport PROVE ReportAddsUp(old.report)
  <2>1. old.report \in Reports
    BY DEF SuiteStates
  <2>2. PICK i \in Inputs : SameLengths(i) /\ old.report = Report(i)
    BY <1>10, <2>1 DEF Reports
  <2> QED BY <2>2, ReportsAddUp
<1> QED BY <1>1, <1>2, <1>3, <1>5, <1>7, <1>8, <1>9, <1>10 DEF At

(* run_end_to_end_benchmark: whoever got a result or an exception finds    *)
(* the manifest of its run_id complete, SUCCESS or FAILED, with what the   *)
(* suite logged, and the report of two lists of answers adds up; for any   *)
(* number of processes that run suites at the same time, if no two begin   *)
(* within a second.                                                        *)
THEOREM ResultsOnRecord ==
  ASSUME ~SameSecond
  PROVE  SuiteSpec => [](ResultMatchesManifest /\ RunsOnRecord)
<1>1. SuiteInit => SuiteInv
  BY SuiteStarts
<1>2. SuiteInv /\ [SuiteNext]_suiteVars => SuiteInv'
  BY SuiteStep
<1>3. SuiteInv => ResultMatchesManifest /\ RunsOnRecord
  BY ResultIsOnRecord, LogIsRecord DEF SuiteInv
<1> QED BY <1>1, <1>2, <1>3, PTL DEF SuiteSpec

-----------------------------------------------------------------------------
(***************************************************************************)
(* Timing with events.                                                     *)
(***************************************************************************)
Pairs == Nat
Events == {"start", "end"} \X Pairs
StreamItems == Events \cup {Kernel}
Began(p) == <<"start", p>>
Ended(p) == <<"end", p>>

TimingTypes ==
  /\ stream \in Seq(StreamItems)
  /\ executed \in Nat /\ launched \in Nat /\ calls \in Nat
  /\ cost \in Seq(Int)
  /\ open \in [Users -> Seq([tag : Tags, pair : Pairs])]
  /\ \A t \in DOMAIN events : events[t] \in Seq(Pairs) /\ events[t] # <<>>
  /\ DOMAIN elapsed = {"times", "raised", "busy"}
  /\ client \in {"nobody", "tracer", "benchmark", "generation"}

(* What the stream is worked off to: ticks[i] kernels are executed when    *)
(* the device comes to the i-th item, and time[e] when it comes or came to *)
(* the event e.                                                            *)
WorksOff(time, ticks) ==
  /\ ticks \in [Nat -> Int]
  /\ ticks[1] = executed /\ ticks[Len(stream) + 1] = launched
  /\ \A i \in DOMAIN stream :
       /\ ticks[i + 1] = ticks[i] + IF stream[i] = Kernel THEN 1 ELSE 0
       /\ stream[i] # Kernel => stream[i] \in DOMAIN time /\ time[stream[i]] = ticks[i]
  /\ \A e \in DOMAIN stamp : e \in DOMAIN time /\ time[e] = stamp[e]
  /\ \A e \in DOMAIN time :
       /\ e \in Events /\ time[e] \in Int
       /\ e \in DOMAIN stamp \/ \E i \in DOMAIN stream : stream[i] = e

DeviceShows(time) == \E ticks : WorksOff(time, ticks)

(* A pair of events that lies around its kernels. *)
Measures(time, p, kernels) ==
  /\ Began(p) \in DOMAIN time /\ Ended(p) \in DOMAIN time
  /\ time[Ended(p)] - time[Began(p)] = kernels

(* The tracer: every pair in its table is that of an open section, and     *)
(* then without an end, or measures its section.                           *)
OpenPair(p) == \E u \in Users : \E i \in DOMAIN open[u] : open[u][i].pair = p

InTable(p) == \E t \in DOMAIN events : \E j \in DOMAIN events[t] : events[t][j] = p

SectionsOpen ==
  /\ \A u, v \in Users : \A i \in DOMAIN open[u], j \in DOMAIN open[v] :
       \/ open[u][i].tag = open[v][j].tag
       \/ open[u][i].pair = open[v][j].pair
       => u = v /\ i = j
  /\ \A u \in Users : \A i \in DOMAIN open[u] :
       /\ open[u][i].pair \in DOMAIN cost
       /\ open[u][i].tag \in DOMAIN events => Last(events[open[u][i].tag]) = open[u][i].pair
       /\ \A p : InTable(p) /\ open[u][i].pair = p => open[u][i].tag \in DOMAIN events

Traced(time) ==
  /\ SectionsOpen
  /\ DOMAIN time \subseteq {"start", "end"} \X DOMAIN cost
  /\ \A p \in Pairs : InTable(p) =>
       /\ p \in DOMAIN cost
       /\ IF OpenPair(p) THEN /\ Began(p) \in DOMAIN time /\ time[Began(p)] = cost[p]
                              /\ Ended(p) \notin DOMAIN time
                         ELSE Measures(time, p, cost[p])
  /\ \A p \in DOMAIN elapsed.times :
       p \in DOMAIN cost /\ ~OpenPair(p) /\ elapsed.times[p] = cost[p]
  /\ elapsed.raised => elapsed.busy

(* The two loops *)
CallsTimed ==
  /\ \A u \in Users : open[u] = <<>>
  /\ Len(cost) = IF calls <= warmup_iters THEN 0 ELSE calls - warmup_iters
  /\ ~elapsed.raised
  /\ \A i \in DOMAIN elapsed.times : i \in DOMAIN cost /\ elapsed.times[i] = cost[i]

Benchmarked(time) ==
  /\ CallsTimed
  /\ calls <= warmup_iters + profile_iters
  /\ elapsed = NoResult \/ calls = warmup_iters + profile_iters
  /\ DOMAIN time \subseteq {"start", "end"} \X DOMAIN cost
  /\ \A p \in DOMAIN cost : Measures(time, p, cost[p])

Generated(time) ==
  /\ CallsTimed
  /\ elapsed.times \in Seq(Int)
  /\ \/ Len(elapsed.times) = Len(cost) /\ (cost # <<>> => stream = <<>>)
     \/ Len(elapsed.times) + 1 = Len(cost) /\ Measures(time, 1, cost[Len(cost)])

ClientsTimed(time) ==
  /\ client \in {"nobody", "tracer"} => Traced(time)
  /\ client \in {"nobody", "benchmark"} => Benchmarked(time)
  /\ client \in {"nobody", "generation"} => Generated(time)

TimingInv == TimingTypes /\ \E time : DeviceShows(time) /\ ClientsTimed(time)

LEMMA TimingConstants ==
  /\ warmup_iters \in Nat /\ profile_iters \in Nat
  /\ Kernel \notin Events
  /\ \A p \in Pairs : Began(p) \in Events /\ Ended(p) \in Events /\ Began(p) # Ended(p)
  /\ \A p, q : /\ Began(p) = Began(q) => p = q
               /\ Ended(p) = Ended(q) => p = q
               /\ Began(p) # Ended(q)
BY TimingAssumption DEF Kernel, Events, Began, Ended, Pairs

LEMMA TimingInitInv == TimingInit => TimingInv
<1> SUFFICES ASSUME TimingInit PROVE TimingInv
  OBVIOUS
<1>1. TimingTypes
  BY DEF TimingInit, TimingTypes, NoTimes, NoResult
<1> DEFINE ticks == [i \in Nat |-> 0]
<1>2. WorksOff(<<>>, ticks)
  BY DEF TimingInit, WorksOff, NoTimes
<1>3. ClientsTimed(<<>>)
  <2>1. cost = <<>> /\ DOMAIN elapsed.times = {} /\ ~elapsed.raised /\ elapsed = NoResult
        /\ elapsed.times = <<>> /\ calls = 0 /\ (\A u \in Users : open[u] = <<>>)
        /\ DOMAIN events = {} /\ stream = <<>>
    BY DEF TimingInit, NoResult, NoTimes
  <2>2. Traced(<<>>)
    BY <2>1 DEF Traced, SectionsOpen, InTable
  <2>3. CallsTimed
    BY <2>1, TimingConstants DEF CallsTimed
  <2>4. Benchmarked(<<>>) /\ Generated(<<>>)
    BY <2>1, <2>3, TimingConstants DEF Benchmarked, Generated
  <2> QED BY <2>2, <2>4 DEF ClientsTimed
<1> QED BY <1>1, <1>2, <1>3 DEF TimingInv, DeviceShows

-----------------------------------------------------------------------------
(* The device and the stream *)
LEMMA ExecuteShows ==
  ASSUME TimingTypes, NEW time, DeviceShows(time), Execute
  PROVE  DeviceShows(time)' /\ stream' \in Seq(StreamItems) /\ executed' \in Nat
<1>1. PICK ticks : WorksOff(time, ticks)
  BY DEF DeviceShows
<1> DEFINE later == [i \in Nat |-> ticks[i + 1]]
<1>2. /\ stream \in Seq(StreamItems) /\ stream # <<>>
      /\ stream' = Tail(stream) /\ launched' = launched
  BY DEF Execute, TimingTypes
<1>3. /\ stream' \in Seq(StreamItems)
      /\ Len(stream') = Len(stream) - 1 /\ Len(stream) \in Nat \ {0}
      /\ \A i \in DOMAIN stream' : i + 1 \in DOMAIN stream /\ stream'[i] = stream[i + 1]
      /\ Head(stream) = stream[1] /\ 1 \in DOMAIN stream
  BY <1>2
<1>4. \A i \in DOMAIN stream :
        i = 1 \/ (i - 1 \in DOMAIN stream' /\ stream'[i - 1] = stream[i])
  BY ONLY <1>2
<1>5. /\ ticks \in [Nat -> Int] /\ later \in [Nat -> Int]
      /\ \A i \in Nat : later[i] = ticks[i + 1]
  <2>1. ticks \in [Nat -> Int]
    BY <1>1 DEF WorksOff
  <2> QED BY ONLY <2>1
<1>8. /\ ticks[1] = executed /\ ticks[Len(stream) + 1] = launched
      /\ Len(stream') + 1 = Len(stream) /\ Len(stream') + 1 \in Nat
      /\ ticks[2] = ticks[1] + IF Head(stream) = Kernel THEN 1 ELSE 0
  <2>1. /\ ticks[1] = executed /\ ticks[Len(stream) + 1] = launched
        /\ \A i \in DOMAIN stream :
             ticks[i + 1] = ticks[i] + IF stream[i] = Kernel THEN 1 ELSE 0
    BY <1>1 DEF WorksOff
  <2> QED BY ONLY <1>3, <2>1
<1>9. ASSUME NEW i \in DOMAIN stream'
      PROVE  /\ later[i + 1] = later[i] + IF stream'[i] = Kernel THEN 1 ELSE 0
             /\ stream'[i] # Kernel =>
                  stream'[i] \in DOMAIN time /\ time[stream'[i]] = later[i]
  <2>1. i \in Nat /\ i + 1 \in Nat /\ i + 1 \in DOMAIN stream /\ stream'[i] = stream[i + 1]
    BY <1>3, <1>9
  <2>2. later[i] = ticks[i + 1] /\ later[i + 1] = ticks[(i + 1) + 1]
    BY <1>5, <2>1
  <2> QED BY <1>1, <2>1, <2>2 DEF WorksOff
<1> HIDE DEF later
<1>6. CASE Head(stream) = Kernel
  <2>1. executed' = executed + 1 /\ stamp' = stamp
    BY <1>6 DEF Execute
  <2>2. later[1] = executed' /\ later[Len(stream') + 1] = launched'
    BY <1>2, <1>5, <1>6, <1>8, <2>1
  <2>4. ASSUME NEW e \in DOMAIN time
        PROVE  /\ e \in Events /\ time[e] \in Int
               /\ e \in DOMAIN stamp' \/ \E i \in DOMAIN stream' : stream'[i] = e
    <3>1. e \in Events /\ time[e] \in Int /\ e # Kernel
      BY <1>1, <2>4, TimingConstants DEF WorksOff
    <3>2. e \in DOMAIN stamp \/ \E i \in DOMAIN stream : stream[i] = e
      BY <1>1, <2>4 DEF WorksOff
    <3> QED BY <1>3, <1>4, <1>6, <2>1, <3>1, <3>2
  <2>5. WorksOff(time, later)'
    BY <1>1, <1>5, <1>9, <2>1, <2>2, <2>4 DEF WorksOff
  <2> QED BY <1>3, <2>1, <2>5 DEF DeviceShows, TimingTypes
<1>7. CASE Head(stream) # Kernel
  <2>1. executed' = executed /\ stamp' = Stamped(Head(stream))
    BY <1>7 DEF Execute
  <2>2. Head(stream) \in DOMAIN time /\ time[Head(stream)] = executed
    BY <1>1, <1>3, <1>7 DEF WorksOff
  <2>3. later[1] = executed' /\ later[Len(stream') + 1] = launched'
    <3>1. ticks[2] = ticks[1]
      BY <1>5, <1>7, <1>8
    <3> QED BY <1>2, <1>5, <1>8, <2>1, <3>1
  <2>5. ASSUME NEW e \in DOMAIN stamp' PROVE e \in DOMAIN time /\ time[e] = stamp'[e]
    BY <1>1, <2>1, <2>2, <2>5 DEF WorksOff, Stamped
  <2>6. ASSUME NEW e \in DOMAIN time
        PROVE  /\ e \in Events /\ time[e] \in Int
               /\ e \in DOMAIN stamp' \/ \E i \in DOMAIN stream' : stream'[i] = e
    <3>1. e \in Events /\ time[e] \in Int
      BY <1>1, <2>6 DEF WorksOff
    <3>2. e \in DOMAIN stamp \/ \E i \in DOMAIN stream : stream[i] = e
      BY <1>1, <2>6 DEF WorksOff
    <3>3. \A f \in DOMAIN stamp \cup {stream[1]} : f \in DOMAIN stamp'
      BY <1>3, <2>1 DEF Stamped
    <3> QED BY <1>3, <1>4, <3>1, <3>2, <3>3
  <2>7. WorksOff(time, later)'
    BY <1>5, <1>9, <2>3, <2>5, <2>6 DEF WorksOff
  <2> QED BY <1>3, <2>1, <2>7 DEF DeviceShows, TimingTypes
<1> QED BY <1>6, <1>7

(* Appending to the stream what takes the device the ticks further. *)
Enqueued(time, further, added, since) ==
  /\ added \in Seq(StreamItems) /\ since \in [1..(Len(added) + 1) -> Int]
  /\ since[1] = launched /\ since[Len(added) + 1] = launched'
  /\ \A i \in 1..Len(added) :
       /\ since[i + 1] = since[i] + IF added[i] = Kernel THEN 1 ELSE 0
       /\ added[i] # Kernel => added[i] \in DOMAIN further /\ further[added[i]] = since[i]
  /\ stream' = stream \o added /\ executed' = executed
  /\ \A e \in DOMAIN stamp' :
       /\ e \in DOMAIN stamp /\ stamp'[e] = stamp[e]
       /\ e \in DOMAIN further /\ further[e] = time[e]
  /\ \A i \in DOMAIN stream : stream[i] # Kernel =>
       stream[i] \in DOMAIN further /\ further[stream[i]] = time[stream[i]]
  /\ \A e \in DOMAIN further :
       /\ e \in Events /\ further[e] \in Int
       /\ \/ e \in DOMAIN stamp' \/ \E i \in DOMAIN stream : stream[i] = e
          \/ \E i \in 1..Len(added) : added[i] = e

LEMMA EnqueueShows ==
  ASSUME TimingTypes, NEW time, DeviceShows(time), NEW added, NEW further, NEW since,
         Enqueued(time, further, added, since)
  PROVE  DeviceShows(further)' /\ stream' \in Seq(StreamItems)
<1>1. PICK ticks : WorksOff(time, ticks)
  BY DEF DeviceShows
<1>12. PICK n : n = Len(stream)
  OBVIOUS
<1> DEFINE later == [i \in Nat |-> IF i <= n + 1 THEN ticks[i]
                                   ELSE IF i <= n + Len(added) + 1 THEN since[i - n] ELSE 0]
<1>2. /\ stream \in Seq(StreamItems) /\ n \in Nat /\ Len(added) \in Nat
      /\ stream' \in Seq(StreamItems) /\ Len(stream') = n + Len(added)
      /\ DOMAIN stream = 1..n /\ DOMAIN stream' = 1..(n + Len(added))
      /\ \A i \in 1..n : stream'[i] = stream[i]
      /\ \A i \in 1..Len(added) : stream'[n + i] = added[i]
  BY <1>12 DEF TimingTypes, Enqueued
<1>3. ticks \in [Nat -> Int] /\ ticks[1] = executed /\ ticks[n + 1] = launched
  BY <1>1, <1>12 DEF WorksOff
<1>4. \A i \in Nat : i <= n + 1 => later[i] = ticks[i]
  OBVIOUS
<1>5. \A i \in 1..(Len(added) + 1) : later[n + i] = since[i]
  <2> SUFFICES ASSUME NEW i \in 1..(Len(added) + 1) PROVE later[n + i] = since[i]
    OBVIOUS
  <2>1. CASE i = 1
    BY <1>2, <1>3, <2>1 DEF Enqueued
  <2>2. CASE i # 1
    <3>1. n + i \in Nat /\ ~(n + i <= n + 1) /\ n + i <= n + Len(added) + 1 /\ (n + i) - n = i
      BY <1>2, <2>2
    <3> QED BY <3>1
  <2> QED BY <2>1, <2>2
<1>6. later \in [Nat -> Int]
  <2> SUFFICES ASSUME NEW i \in Nat PROVE later[i] \in Int
    OBVIOUS
  <2>1. ASSUME ~(i <= n + 1), i <= n + Len(added) + 1 PROVE since[i - n] \in Int
    <3>1. i - n \in 1..(Len(added) + 1)
      BY <1>2, <2>1
    <3> QED BY <3>1 DEF Enqueued
  <2> QED BY <1>3, <2>1
<1> HIDE DEF later
<1>7. later[1] = executed' /\ later[Len(stream') + 1] = launched'
  <2>1. /\ 1 <= n + 1 /\ (n + Len(added)) + 1 = n + (Len(added) + 1)
        /\ Len(added) + 1 \in 1..(Len(added) + 1)
    BY <1>2
  <2> QED BY <1>2, <1>3, <1>4, <1>5, <2>1 DEF Enqueued
<1>8. ASSUME NEW i \in DOMAIN stream'
      PROVE  /\ later[i + 1] = later[i] + IF stream'[i] = Kernel THEN 1 ELSE 0
             /\ stream'[i] # Kernel =>
                  stream'[i] \in DOMAIN further /\ further[stream'[i]] = later[i]
  <2>1. CASE i <= n
    <3>1. i \in 1..n /\ i \in Nat /\ i + 1 \in Nat /\ i + 1 <= n + 1 /\ i <= n + 1
      BY <1>2, <1>8, <2>1
    <3>2. later[i] = ticks[i] /\ later[i + 1] = ticks[i + 1] /\ stream'[i] = stream[i]
          /\ i \in DOMAIN stream
      BY <1>2, <1>4, <3>1
    <3>3. /\ ticks[i + 1] = ticks[i] + IF stream[i] = Kernel THEN 1 ELSE 0
          /\ stream[i] # Kernel => time[stream[i]] = ticks[i]
      BY <1>1, <3>2 DEF WorksOff
    <3> QED BY <3>2, <3>3 DEF Enqueued
  <2>2. CASE ~(i <= n)
    <3>1. PICK j \in 1..Len(added) : i = n + j
      <4>1. i - n \in 1..Len(added) /\ i = n + (i - n)
        BY <1>2, <1>8, <2>2
      <4> QED BY <4>1
    <3>2. j \in 1..(Len(added) + 1) /\ j + 1 \in 1..(Len(added) + 1) /\ i + 1 = n + (j + 1)
      BY <1>2, <3>1
    <3>3. later[i] = since[j] /\ later[i + 1] = since[j + 1] /\ stream'[i] = added[j]
      BY <1>2, <1>5, <3>1, <3>2
    <3> QED BY <3>1, <3>3 DEF Enqueued
  <2> QED BY <2>1, <2>2
<1>9. \A e \in DOMAIN stamp' : e \in DOMAIN further /\ further[e] = stamp'[e]
  BY <1>1 DEF WorksOff, Enqueued
<1>10. ASSUME NEW e \in DOMAIN further
       PROVE  /\ e \in Events /\ further[e] \in Int
              /\ e \in DOMAIN stamp' \/ \E i \in DOMAIN stream' : stream'[i] = e
  <2>1. ASSUME NEW i \in DOMAIN stream, stream[i] = e
        PROVE  i \in DOMAIN stream' /\ stream'[i] = e
    BY <1>2, <2>1
  <2>2. ASSUME NEW i \in 1..Len(added), added[i] = e
        PROVE  n + i \in DOMAIN stream' /\ stream'[n + i] = e
    BY <1>2, <2>2
  <2> QED BY <1>10, <2>1, <2>2 DEF Enqueued
<1>11. WorksOff(further, later)'
  BY <1>6, <1>7, <1>8, <1>9, <1>10 DEF WorksOff
<1> QED BY <1>2, <1>11 DEF DeviceShows

(* A kernel, or kernels, without events *)
LEMMA KernelsShow ==
  ASSUME TimingTypes, NEW time, DeviceShows(time), NEW k \in Nat,
         stream' = stream \o Kernels(k), launched' = launched + k,
         executed' = executed, stamp' = stamp
  PROVE  DeviceShows(time)' /\ stream' \in Seq(StreamItems) /\ launched' \in Nat
<1>1. /\ Kernels(k) \in Seq(StreamItems) /\ Len(Kernels(k)) = k
      /\ \A i \in 1..k : Kernels(k)[i] = Kernel
  BY DEF Kernels, StreamItems
<1>0. PICK since : since = [i \in 1..(k + 1) |-> launched + i - 1]
  OBVIOUS
<1>2. PICK ticks : WorksOff(time, ticks)
  BY DEF DeviceShows
<1>3. launched \in Nat
  BY DEF TimingTypes
<1>4. /\ since \in [1..(Len(Kernels(k)) + 1) -> Int]
      /\ since[1] = launched /\ since[Len(Kernels(k)) + 1] = launched'
      /\ \A i \in 1..Len(Kernels(k)) : since[i + 1] = since[i] + 1
  BY <1>0, <1>1, <1>3
<1>5. \A e \in DOMAIN stamp : e \in DOMAIN time /\ e \in Events /\ e # Kernel
  BY <1>2, TimingConstants DEF WorksOff
<1>6. \A e \in DOMAIN time :
        /\ e \in Events /\ time[e] \in Int
        /\ e \in DOMAIN stamp \/ \E i \in DOMAIN stream : stream[i] = e
  BY <1>2 DEF WorksOff
<1>7. \A i \in DOMAIN stream : stream[i] # Kernel => stream[i] \in DOMAIN time
  BY <1>2 DEF WorksOff
<1>8. PICK added : added = Kernels(k)
  OBVIOUS
<1>9. \A i \in 1..Len(added) :
        /\ since[i + 1] = since[i] + IF added[i] = Kernel THEN 1 ELSE 0
        /\ added[i] # Kernel => added[i] \in DOMAIN time /\ time[added[i]] = since[i]
  BY <1>1, <1>4, <1>8
<1>10. \A e \in DOMAIN stamp' : e \in DOMAIN stamp /\ stamp'[e] = stamp[e]
                                  /\ \A i \in 1..Len(added) : added[i] # e
  BY <1>1, <1>5, <1>8
<1>11. /\ added \in Seq(StreamItems) /\ since \in [1..(Len(added) + 1) -> Int]
       /\ since[1] = launched /\ since[Len(added) + 1] = launched'
       /\ stream' = stream \o added
  BY <1>1, <1>4, <1>8
<1>12. Enqueued(time, time, added, since)
  BY <1>5, <1>6, <1>7, <1>9, <1>10, <1>11 DEF Enqueued
<1> QED BY <1>3, <1>11, <1>12, EnqueueShows

(* An event that is recorded, and the pair around a call *)
TimedAt(time, e, t) == [f \in DOMAIN time \cup {e} |-> IF f = e THEN t ELSE time[f]]

LEMMA RecordShows ==
  ASSUME TimingTypes, NEW time, DeviceShows(time), NEW e \in Events, e \notin DOMAIN time,
         Record(e), NEW t, t = launched, launched' = launched
  PROVE  DeviceShows(TimedAt(time, e, t))' /\ stream' \in Seq(StreamItems)
<1>1. PICK ticks : WorksOff(time, ticks)
  BY DEF DeviceShows
<1>2. PICK further : further = TimedAt(time, e, t)
  OBVIOUS
<1>3. PICK added : added = <<e>>
  OBVIOUS
<1>4. PICK since : since = [i \in 1..2 |-> t]
  OBVIOUS
<1>5. /\ added \in Seq(StreamItems) /\ Len(added) = 1 /\ added[1] = e /\ e # Kernel
      /\ t \in Int /\ since \in [1..(Len(added) + 1) -> Int] /\ since[1] = t /\ since[2] = t
  BY <1>3, <1>4, TimingConstants DEF StreamItems, TimingTypes
<1>6. /\ DOMAIN further = DOMAIN time \cup {e} /\ further[e] = t
      /\ \A f \in DOMAIN time : further[f] = time[f]
  BY <1>2 DEF TimedAt
<1>7. stream' = stream \o added /\ stamp' = Without(e) /\ executed' = executed
  <2>1. stream \in Seq(StreamItems)
    BY DEF TimingTypes
  <2>2. stream' = Append(stream, e) /\ stamp' = Without(e) /\ executed' = executed
    BY DEF Record
  <2> QED BY ONLY <1>3, <2>1, <2>2
<1>8. \A i \in 1..Len(added) :
        /\ since[i + 1] = since[i] + IF added[i] = Kernel THEN 1 ELSE 0
        /\ added[i] # Kernel => added[i] \in DOMAIN further /\ further[added[i]] = since[i]
  BY <1>5, <1>6
<1>9. e \notin DOMAIN stamp /\ \A f \in DOMAIN stamp : f \in DOMAIN time
  BY <1>1 DEF WorksOff
<1>10. DOMAIN stamp' = DOMAIN stamp /\ \A f \in DOMAIN stamp : stamp'[f] = stamp[f]
  BY <1>7, <1>9 DEF Without
<1>11. \A i \in DOMAIN stream : stream[i] # Kernel => stream[i] \in DOMAIN time
  BY <1>1 DEF WorksOff
<1>12. \A f \in DOMAIN time :
         /\ f \in Events /\ time[f] \in Int
         /\ f \in DOMAIN stamp \/ \E i \in DOMAIN stream : stream[i] = f
  BY <1>1 DEF WorksOff
<1>13. \A f \in DOMAIN further :
         /\ f \in Events /\ further[f] \in Int
         /\ \/ f \in DOMAIN stamp' \/ \E i \in DOMAIN stream : stream[i] = f
            \/ \E i \in 1..Len(added) : added[i] = f
  BY <1>5, <1>6, <1>10, <1>12
<1>14. Enqueued(time, further, added, since)
  BY <1>5, <1>6, <1>7, <1>8, <1>9, <1>10, <1>11, <1>13 DEF Enqueued
<1>15. DeviceShows(further)' /\ stream' \in Seq(StreamItems)
  BY <1>14, EnqueueShows
<1> QED BY <1>2, <1>15

LEMMA ThreeParts ==
  \A a, b, c \in Seq(StreamItems) :
    b \o c \in Seq(StreamItems) /\ (a \o b) \o c = a \o (b \o c)
BY ConcatAssociative, ConcatProperties

LEMMA FourParts ==
  ASSUME NEW a \in Seq(StreamItems), NEW b \in Seq(StreamItems),
         NEW c \in Seq(StreamItems), NEW d \in Seq(StreamItems)
  PROVE  ((a \o b) \o c) \o d = a \o ((b \o c) \o d)
<1>1. PICK bc \in Seq(StreamItems) : bc = b \o c
  BY ThreeParts, Zenon
<1>2. (a \o b) \o c = a \o bc
  BY <1>1, ThreeParts, SMTT(30)
<1>3. (a \o bc) \o d = a \o (bc \o d)
  BY ThreeParts, SMTT(30)
<1> QED BY <1>1, <1>2, <1>3

AroundCall(time, p, t, k) ==
  [f \in DOMAIN time \cup {Began(p), Ended(p)} |->
     IF f = Began(p) THEN t ELSE IF f = Ended(p) THEN t + k ELSE time[f]]

LEMMA TimedShows ==
  ASSUME TimingTypes, NEW time, DeviceShows(time), NEW p \in Pairs, NEW k \in Nat,
         \A i \in DOMAIN stream : stream[i] \notin {Began(p), Ended(p)},
         Timed(p, k), NEW t, t = launched, launched' = t + k, executed' = executed
  PROVE  DeviceShows(AroundCall(time, p, t, k))' /\ stream' \in Seq(StreamItems)
<1>1. PICK ticks : WorksOff(time, ticks)
  BY DEF DeviceShows
<1>2. PICK further : further = AroundCall(time, p, t, k)
  OBVIOUS
<1>3. PICK b, e : b = Began(p) /\ e = Ended(p)
  OBVIOUS
<1>4. PICK added : added = <<b>> \o Kernels(k) \o <<e>>
  OBVIOUS
<1>5. PICK since : since = [i \in 1..(k + 3) |-> IF i = 1 THEN t
                                                 ELSE IF i = k + 3 THEN t + k ELSE t + i - 2]
  OBVIOUS
<1>6. b \in Events /\ e \in Events /\ b # e /\ b # Kernel /\ e # Kernel /\ t \in Int
  BY <1>3, TimingConstants DEF TimingTypes
<1>7. /\ Kernels(k) \in Seq(StreamItems) /\ Len(Kernels(k)) = k
      /\ \A i \in 1..k : Kernels(k)[i] = Kernel
  BY DEF Kernels, StreamItems
<1>8. /\ added \in Seq(StreamItems) /\ Len(added) = k + 2
      /\ added[1] = b /\ added[k + 2] = e
      /\ \A i \in 2..(k + 1) : added[i] = Kernel
  <2>1. PICK ks : ks = Kernels(k)
    OBVIOUS
  <2>2. ks \in Seq(StreamItems) /\ Len(ks) = k /\ \A i \in 1..k : ks[i] = Kernel
    BY <1>7, <2>1
  <2>3. /\ <<b>> \o ks \in Seq(StreamItems) /\ Len(<<b>> \o ks) = k + 1
        /\ (<<b>> \o ks)[1] = b
        /\ \A i \in 2..(k + 1) : (<<b>> \o ks)[i] = ks[i - 1] /\ i - 1 \in 1..k
    BY <1>6, <2>2 DEF StreamItems
  <2>4. PICK front : front = <<b>> \o ks
    OBVIOUS
  <2>5. /\ front \in Seq(StreamItems) /\ Len(front) = k + 1 /\ front[1] = b
        /\ \A i \in 2..(k + 1) : front[i] = Kernel
    BY <2>2, <2>3, <2>4
  <2>6. added = front \o <<e>> /\ e \in StreamItems
    BY <1>4, <1>6, <2>1, <2>4 DEF StreamItems
  <2> QED BY <2>5, <2>6
<1>9. /\ since \in [1..(Len(added) + 1) -> Int]
      /\ since[1] = t /\ since[2] = t /\ since[k + 2] = t + k /\ since[k + 3] = t + k
      /\ \A i \in 2..(k + 1) : since[i + 1] = since[i] + 1
  BY <1>5, <1>6, <1>8
<1>10. /\ DOMAIN further = DOMAIN time \cup {b, e} /\ further[b] = t /\ further[e] = t + k
       /\ \A f \in DOMAIN time : f \notin {b, e} => further[f] = time[f]
  BY <1>2, <1>3, <1>6 DEF AroundCall
<1>11. ASSUME NEW i \in 1..Len(added)
       PROVE  /\ since[i + 1] = since[i] + IF added[i] = Kernel THEN 1 ELSE 0
              /\ added[i] # Kernel =>
                   added[i] \in DOMAIN further /\ further[added[i]] = since[i]
  <2>1. CASE i = 1
    BY <1>6, <1>8, <1>9, <1>10, <2>1
  <2>2. CASE i = k + 2
    <3>1. i + 1 = k + 3
      BY <2>2
    <3> QED BY <1>6, <1>8, <1>9, <1>10, <2>2, <3>1
  <2>3. CASE i \in 2..(k + 1)
    BY <1>8, <1>9, <2>3
  <2> QED BY <1>8, <2>1, <2>2, <2>3
<1>12. stream' = stream \o added
  <2>1. /\ stream \in Seq(StreamItems)
        /\ <<b>> \in Seq(StreamItems) /\ <<e>> \in Seq(StreamItems)
        /\ Kernels(k) \in Seq(StreamItems)
        /\ stream' = stream \o <<b>> \o Kernels(k) \o <<e>>
    BY <1>3, <1>6, <1>7 DEF Timed, TimingTypes, StreamItems, Began, Ended
  <2>2. \A a, c, d, f \in Seq(StreamItems) : ((a \o c) \o d) \o f = a \o ((c \o d) \o f)
    BY FourParts
  <2> QED BY ONLY <1>4, <2>1, <2>2
<1>13. /\ \A f : f \in DOMAIN stamp' <=> f \in DOMAIN stamp /\ f # b /\ f # e
       /\ \A f \in DOMAIN stamp' : stamp'[f] = stamp[f]
  BY <1>3 DEF Timed, Began, Ended
<1>14. \A f \in DOMAIN stamp' : f \in DOMAIN stamp /\ stamp'[f] = stamp[f]
                                /\ f \in DOMAIN further /\ further[f] = time[f]
  BY <1>1, <1>10, <1>13 DEF WorksOff
<1>15. \A i \in DOMAIN stream : stream[i] # Kernel =>
         stream[i] \in DOMAIN further /\ further[stream[i]] = time[stream[i]]
  BY <1>1, <1>3, <1>10 DEF WorksOff
<1>16. \A f \in DOMAIN further :
         /\ f \in Events /\ further[f] \in Int
         /\ \/ f \in DOMAIN stamp' \/ \E i \in DOMAIN stream : stream[i] = f
            \/ \E i \in 1..Len(added) : added[i] = f
  <2>1. \A f \in DOMAIN time :
          /\ f \in Events /\ time[f] \in Int
          /\ f \in DOMAIN stamp \/ \E i \in DOMAIN stream : stream[i] = f
    BY <1>1 DEF WorksOff
  <2>2. (\E i \in 1..Len(added) : added[i] = b) /\ (\E i \in 1..Len(added) : added[i] = e)
    BY <1>8
  <2> QED BY <1>6, <1>10, <1>13, <2>1, <2>2
<1>17. since[1] = launched /\ since[Len(added) + 1] = launched'
  BY <1>8, <1>9
<1>18. Enqueued(time, further, added, since)
  BY <1>8, <1>9, <1>11, <1>12, <1>14, <1>15, <1>16, <1>17 DEF Enqueued
<1>19. DeviceShows(further)' /\ stream' \in Seq(StreamItems)
  BY <1>18, EnqueueShows
<1> QED BY <1>2, <1>19

-----------------------------------------------------------------------------
(* What the clients know survives the device. *)
LEMMA ExecuteKeeps == TimingInv /\ Execute => TimingInv'
<1> SUFFICES ASSUME TimingInv, Execute PROVE TimingInv'
  OBVIOUS
<1>1. PICK time : DeviceShows(time) /\ ClientsTimed(time)
  BY DEF TimingInv
<1>2. TimingTypes
  BY DEF TimingInv
<1>3. /\ launched' = launched /\ cost' = cost /\ events' = events /\ open' = open
      /\ client' = client /\ calls' = calls /\ elapsed' = elapsed /\ stream # <<>>
  BY DEF Execute
<1>4. DeviceShows(time)' /\ stream' \in Seq(StreamItems) /\ executed' \in Nat
  BY <1>1, <1>2, ExecuteShows
<1>5. TimingTypes'
  BY <1>2, <1>3, <1>4 DEF TimingTypes
<1>6. Traced(time)' <=> Traced(time)
  BY <1>3 DEF Traced, SectionsOpen, InTable, OpenPair
<1>7. CallsTimed' <=> CallsTimed
  BY <1>3 DEF CallsTimed
<1>8. Benchmarked(time)' <=> Benchmarked(time)
  BY <1>3, <1>7 DEF Benchmarked
<1>9. Generated(time) => Generated(time)'
  BY <1>3, <1>7 DEF Generated
<1>10. ClientsTimed(time)'
  BY <1>1, <1>3, <1>6, <1>8, <1>9 DEF ClientsTimed
<1> QED BY <1>4, <1>5, <1>10 DEF TimingInv

(* Sections are the tracer's. *)
LEMMA SectionsAreTraced ==
  ASSUME TimingInv, NEW u \in Users, open[u] # <<>>
  PROVE  client = "tracer"
BY DEF TimingInv, TimingTypes, ClientsTimed, Benchmarked, Generated, CallsTimed

LEMMA LaunchKeeps ==
  ASSUME TimingInv, NEW u \in Users, Launch(u)
  PROVE  TimingInv'
<1>1. PICK time : DeviceShows(time) /\ ClientsTimed(time)
  BY DEF TimingInv
<1>2. TimingTypes
  BY DEF TimingInv
<1>3. /\ launched' = launched + 1 /\ cost' = cost /\ events' = events /\ open' = open
      /\ client' = client /\ calls' = calls /\ elapsed' = elapsed /\ executed' = executed
      /\ stamp' = stamp /\ client = "tracer"
  BY SectionsAreTraced DEF Launch
<1>4. stream' = stream \o Kernels(1)
  <2>1. Kernels(1) = <<Kernel>>
    BY DEF Kernels
  <2>2. stream \in Seq(StreamItems) /\ Kernel \in StreamItems
    BY <1>2 DEF TimingTypes, StreamItems
  <2>3. Append(stream, Kernel) = stream \o <<Kernel>>
    BY <2>2, AppendIsConcat
  <2> QED BY <2>1, <2>3 DEF Launch
<1>5. DeviceShows(time)' /\ stream' \in Seq(StreamItems) /\ launched' \in Nat
  BY <1>1, <1>2, <1>3, <1>4, KernelsShow
<1>6. TimingTypes'
  BY <1>2, <1>3, <1>5 DEF TimingTypes
<1>7. Traced(time)' <=> Traced(time)
  BY <1>3 DEF Traced, SectionsOpen, InTable, OpenPair
<1>8. ClientsTimed(time)'
  BY <1>1, <1>3, <1>7 DEF ClientsTimed
<1> QED BY <1>5, <1>6, <1>8 DEF TimingInv

(* The tracer *)
LEMMA StartKeeps ==
  ASSUME ~SharedTags, TimingInv, NEW u \in Users, NEW tag \in Tags, Start(u, tag)
  PROVE  TimingInv'
<1>1. PICK time : DeviceShows(time) /\ ClientsTimed(time)
  BY DEF TimingInv
<1>2. TimingTypes
  BY DEF TimingInv
<1>3. Traced(time)
  BY <1>1 DEF ClientsTimed, Start, Uses
<1>4. PICK p : p = Len(cost) + 1
  OBVIOUS
<1>5. PICK t : t = launched
  OBVIOUS
<1>6. p \in Pairs /\ p \notin DOMAIN cost /\ t \in Int /\ cost \in Seq(Int)
  BY <1>2, <1>4, <1>5 DEF TimingTypes, Pairs
<1>7. /\ Record(Began(p)) /\ launched' = launched /\ calls' = calls /\ elapsed' = elapsed
      /\ client' = "tracer" /\ executed' = executed
      /\ cost' = Append(cost, t)
      /\ events' = [s \in DOMAIN events \cup {tag} |->
                      IF s = tag THEN Append(PairsOf(s), p) ELSE events[s]]
      /\ open' = [open EXCEPT ![u] = Append(@, [tag |-> tag, pair |-> p])]
      /\ ~IsOpen(tag)
  BY <1>4, <1>5 DEF Start, Uses, Began, Record
<1>8. Began(p) \in Events /\ Began(p) \notin DOMAIN time /\ Ended(p) \notin DOMAIN time
  BY <1>3, <1>6, TimingConstants DEF Traced, Began, Ended
<1>9. PICK further : further = TimedAt(time, Began(p), t)
  OBVIOUS
<1>10. DeviceShows(further)' /\ stream' \in Seq(StreamItems)
  BY <1>1, <1>2, <1>5, <1>7, <1>8, <1>9, RecordShows
<1>11. /\ DOMAIN further = DOMAIN time \cup {Began(p)} /\ further[Began(p)] = t
       /\ \A e \in DOMAIN time : further[e] = time[e]
  BY <1>8, <1>9 DEF TimedAt
<1>12. /\ cost' \in Seq(Int) /\ DOMAIN cost' = DOMAIN cost \cup {p} /\ cost'[p] = t
       /\ \A q \in DOMAIN cost : cost'[q] = cost[q]
  BY <1>4, <1>6, <1>7
<1>13. /\ open \in [Users -> Seq([tag : Tags, pair : Pairs])]
       /\ open' \in [Users -> Seq([tag : Tags, pair : Pairs])]
       /\ \A v \in Users : v # u => open'[v] = open[v]
       /\ DOMAIN open'[u] = DOMAIN open[u] \cup {Len(open[u]) + 1}
       /\ \A i \in DOMAIN open[u] : open'[u][i] = open[u][i]
       /\ open'[u][Len(open[u]) + 1] = [tag |-> tag, pair |-> p]
       /\ Len(open[u]) + 1 \notin DOMAIN open[u]
  <2>1. PICK old \in Seq([tag : Tags, pair : Pairs]) : old = open[u]
    BY <1>2 DEF TimingTypes
  <2>2. PICK section : section = [tag |-> tag, pair |-> p]
    OBVIOUS
  <2>3. section \in [tag : Tags, pair : Pairs]
    BY <1>6, <2>2
  <2>4. PICK new : new = Append(old, section)
    OBVIOUS
  <2>5. /\ new \in Seq([tag : Tags, pair : Pairs])
        /\ DOMAIN new = DOMAIN old \cup {Len(old) + 1} /\ Len(old) + 1 \notin DOMAIN old
        /\ \A i \in DOMAIN old : new[i] = old[i]
        /\ new[Len(old) + 1] = section
    BY <2>1, <2>3, <2>4
  <2>6. open' = [open EXCEPT ![u] = new]
    BY <1>7, <2>1, <2>2, <2>4
  <2>7. open \in [Users -> Seq([tag : Tags, pair : Pairs])]
    BY <1>2 DEF TimingTypes
  <2> QED BY <2>1, <2>2, <2>5, <2>6, <2>7
<1>14. /\ DOMAIN events' = DOMAIN events \cup {tag}
       /\ \A s \in DOMAIN events : s # tag => events'[s] = events[s]
       /\ events'[tag] \in Seq(Pairs) /\ events'[tag] # <<>> /\ Last(events'[tag]) = p
       /\ \A j \in DOMAIN events'[tag] :
            \/ events'[tag][j] = p
            \/ tag \in DOMAIN events /\ j \in DOMAIN events[tag]
               /\ events'[tag][j] = events[tag][j]
       /\ tag \in DOMAIN events => \A j \in DOMAIN events[tag] :
            j \in DOMAIN events'[tag] /\ events'[tag][j] = events[tag][j]
       /\ \E j \in DOMAIN events'[tag] : events'[tag][j] = p
  <2>1. PICK before \in Seq(Pairs) : before = PairsOf(tag)
    <3>1. <<>> \in Seq(Pairs)
      OBVIOUS
    <3> QED BY <1>2, <3>1 DEF PairsOf, TimingTypes
  <2>2. events'[tag] = Append(before, p) /\ DOMAIN events' = DOMAIN events \cup {tag}
    BY <1>7, <2>1
  <2>3. /\ Append(before, p) \in Seq(Pairs) /\ Append(before, p) # <<>>
        /\ Last(Append(before, p)) = p
        /\ \A j \in DOMAIN before :
             j \in DOMAIN Append(before, p) /\ Append(before, p)[j] = before[j]
        /\ \A j \in DOMAIN Append(before, p) : j \in DOMAIN before \/ Append(before, p)[j] = p
        /\ Len(before) + 1 \in DOMAIN Append(before, p)
        /\ Append(before, p)[Len(before) + 1] = p
    BY <1>6, <2>1 DEF Last
  <2>4. tag \in DOMAIN events => before = events[tag]
    BY <2>1 DEF PairsOf
  <2>5. tag \notin DOMAIN events => before = <<>>
    BY <2>1 DEF PairsOf
  <2>6. PICK after : after = Append(before, p)
    OBVIOUS
  <2>7. events'[tag] = after
    BY <2>2, <2>6
  <2>8. tag \in DOMAIN events => before = events[tag]
    BY <2>4
  <2>9. /\ after \in Seq(Pairs) /\ after # <<>> /\ Last(after) = p
        /\ \A j \in DOMAIN before : j \in DOMAIN after /\ after[j] = before[j]
        /\ \A j \in DOMAIN after : j \in DOMAIN before \/ after[j] = p
        /\ \E j \in DOMAIN after : after[j] = p
    BY <2>3, <2>6
  <2>10. tag \notin DOMAIN events => \A j \in DOMAIN after : after[j] = p
    BY <2>5, <2>9
  <2>11. /\ DOMAIN events' = DOMAIN events \cup {tag}
         /\ \A s \in DOMAIN events : s # tag => events'[s] = events[s]
    BY <1>7
  <2> QED BY <2>7, <2>8, <2>9, <2>10, <2>11
<1>15. TimingTypes'
  <2>1. \A s \in DOMAIN events' : events'[s] \in Seq(Pairs) /\ events'[s] # <<>>
    BY <1>2, <1>14 DEF TimingTypes
  <2> QED BY <1>2, <1>7, <1>10, <1>12, <1>13, <2>1 DEF TimingTypes
<1>16. \A q : InTable(q)' <=> InTable(q) \/ q = p
  <2>1. ASSUME NEW q, InTable(q)' PROVE InTable(q) \/ q = p
    <3>1. PICK s \in DOMAIN events' : \E j \in DOMAIN events'[s] : events'[s][j] = q
      BY <2>1 DEF InTable
    <3> QED BY <1>14, <3>1 DEF InTable
  <2>2. ASSUME NEW q, InTable(q) PROVE InTable(q)'
    <3>1. PICK s \in DOMAIN events : \E j \in DOMAIN events[s] : events[s][j] = q
      BY <2>2 DEF InTable
    <3> QED BY <1>14, <3>1 DEF InTable
  <2>3. InTable(p)'
    BY <1>14 DEF InTable
  <2> QED BY <2>1, <2>2, <2>3
<1>17. \A q : OpenPair(q)' <=> OpenPair(q) \/ q = p
  <2>1. ASSUME NEW q, OpenPair(q)' PROVE OpenPair(q) \/ q = p
    <3>1. PICK v \in Users : \E i \in DOMAIN open'[v] : open'[v][i].pair = q
      BY <2>1 DEF OpenPair
    <3>2. CASE v # u
      BY <1>13, <3>1, <3>2 DEF OpenPair
    <3>3. CASE v = u
      <4>1. PICK i \in DOMAIN open'[u] : open'[u][i].pair = q
        BY <3>1, <3>3
      <4>2. CASE i \in DOMAIN open[u]
        BY <1>13, <4>1, <4>2 DEF OpenPair
      <4>3. CASE i = Len(open[u]) + 1
        BY <1>13, <4>1, <4>3
      <4> QED BY <1>13, <4>1, <4>2, <4>3
    <3> QED BY <3>2, <3>3
  <2>2. ASSUME NEW q, OpenPair(q) PROVE OpenPair(q)'
    <3>1. PICK v \in Users : \E i \in DOMAIN open[v] : open[v][i].pair = q
      BY <2>2 DEF OpenPair
    <3>2. PICK i \in DOMAIN open[v] : open[v][i].pair = q
      BY <3>1
    <3>3. i \in DOMAIN open'[v] /\ open'[v][i].pair = q
      BY <1>13, <3>2
    <3> QED BY <3>3 DEF OpenPair
  <2>3. OpenPair(p)'
    BY <1>13 DEF OpenPair
  <2> QED BY <2>1, <2>2, <2>3
<1>18. ~InTable(p) /\ ~OpenPair(p)
  BY <1>3, <1>6 DEF Traced, SectionsOpen, OpenPair
<1>19. SectionsOpen'
  <2>1. ASSUME NEW v \in Users, NEW i \in DOMAIN open'[v]
        PROVE  \/ i \in DOMAIN open[v] /\ open'[v][i] = open[v][i]
               \/ v = u /\ i = Len(open[u]) + 1 /\ open'[v][i] = [tag |-> tag, pair |-> p]
    BY <1>13, <2>1
  <2>2. \A v \in Users : \A i \in DOMAIN open[v] : open[v][i].tag # tag /\ open[v][i].pair # p
    BY <1>7, <1>18 DEF IsOpen, OpenPair
  <2>3. ASSUME NEW v \in Users, NEW w \in Users,
               NEW i \in DOMAIN open'[v], NEW j \in DOMAIN open'[w],
               \/ open'[v][i].tag = open'[w][j].tag
               \/ open'[v][i].pair = open'[w][j].pair
        PROVE  v = w /\ i = j
    <3>1. CASE i \in DOMAIN open[v] /\ open'[v][i] = open[v][i]
               /\ j \in DOMAIN open[w] /\ open'[w][j] = open[w][j]
      BY <1>3, <2>3, <3>1 DEF Traced, SectionsOpen
    <3> QED BY <2>1, <2>2, <2>3, <3>1
  <2>4. ASSUME NEW v \in Users, NEW i \in DOMAIN open'[v]
        PROVE  /\ open'[v][i].pair \in DOMAIN cost'
               /\ open'[v][i].tag \in DOMAIN events' =>
                    Last(events'[open'[v][i].tag]) = open'[v][i].pair
               /\ \A q : InTable(q)' /\ open'[v][i].pair = q =>
                    open'[v][i].tag \in DOMAIN events'
    <3>1. CASE i \in DOMAIN open[v] /\ open'[v][i] = open[v][i]
      <4>1. PICK s : s = open[v][i]
        OBVIOUS
      <4>2. /\ s.pair \in DOMAIN cost /\ s.pair # p /\ s.tag # tag
            /\ s.tag \in DOMAIN events => Last(events[s.tag]) = s.pair
            /\ \A q : InTable(q) /\ s.pair = q => s.tag \in DOMAIN events
        BY <1>3, <2>2, <3>1, <4>1 DEF Traced, SectionsOpen
      <4>3. open'[v][i] = s
        BY <3>1, <4>1
      <4>4. s.pair \in DOMAIN cost'
        BY <1>12, <4>2
      <4>5. s.tag \in DOMAIN events' => Last(events'[s.tag]) = s.pair
        BY <1>14, <4>2
      <4>6. \A q : InTable(q)' /\ s.pair = q => s.tag \in DOMAIN events'
        BY <1>14, <1>16, <4>2
      <4> QED BY <4>3, <4>4, <4>5, <4>6
    <3>2. CASE open'[v][i] = [tag |-> tag, pair |-> p]
      BY <1>12, <1>14, <3>2
    <3> QED BY <2>1, <3>1, <3>2

  <2> QED BY <2>3, <2>4 DEF SectionsOpen
<1>20. ASSUME NEW q \in Pairs, InTable(q)'
       PROVE  /\ q \in DOMAIN cost'
              /\ IF OpenPair(q)' THEN /\ Began(q) \in DOMAIN further
                                      /\ further[Began(q)] = cost'[q]
                                      /\ Ended(q) \notin DOMAIN further
                                 ELSE Measures(further, q, cost'[q])
  <2>1. CASE q = p
    BY <1>8, <1>11, <1>12, <1>17, <2>1, TimingConstants
  <2>2. CASE q # p
    <3>1. /\ q \in DOMAIN cost
          /\ IF OpenPair(q) THEN /\ Began(q) \in DOMAIN time /\ time[Began(q)] = cost[q]
                                 /\ Ended(q) \notin DOMAIN time
                            ELSE Measures(time, q, cost[q])
      BY <1>3, <1>16, <1>20, <2>2 DEF Traced
    <3>2. (OpenPair(q)' <=> OpenPair(q)) /\ cost'[q] = cost[q] /\ q \in DOMAIN cost'
      BY <1>12, <1>17, <2>2, <3>1
    <3>3. Ended(q) # Began(p)
      BY TimingConstants
    <3>4. CASE OpenPair(q)
      BY <1>11, <3>1, <3>2, <3>3, <3>4
    <3>5. CASE ~OpenPair(q)
      BY <1>11, <3>1, <3>2, <3>5 DEF Measures
    <3> QED BY <3>4, <3>5
  <2> QED BY <2>1, <2>2
<1>21. DOMAIN further \subseteq {"start", "end"} \X DOMAIN cost'
  BY <1>3, <1>11, <1>12 DEF Traced, Began
<1>22. ASSUME NEW q \in DOMAIN elapsed.times
       PROVE  q \in DOMAIN cost' /\ ~OpenPair(q)' /\ elapsed.times[q] = cost'[q]
  BY <1>3, <1>6, <1>12, <1>17, <1>22 DEF Traced
<1>23. Traced(further)'
  BY <1>3, <1>7, <1>19, <1>20, <1>21, <1>22 DEF Traced
<1>24. ClientsTimed(further)'
  BY <1>7, <1>23 DEF ClientsTimed
<1> QED BY <1>10, <1>15, <1>24 DEF TimingInv

LEMMA StopKeeps ==
  ASSUME TimingInv, NEW u \in Users, Stop(u)
  PROVE  TimingInv'
<1>1. open[u] # <<>> /\ client = "tracer"
  BY SectionsAreTraced DEF Stop
<1>2. PICK time : DeviceShows(time) /\ ClientsTimed(time)
  BY DEF TimingInv
<1>3. TimingTypes /\ Traced(time)
  BY <1>1, <1>2 DEF ClientsTimed, TimingInv
<1>4. PICK n : n = Len(open[u])
  OBVIOUS
<1>5. PICK section : section = Last(open[u])
  OBVIOUS
<1>6. PICK tag, p : tag = section.tag /\ p = section.pair
  OBVIOUS
<1>7. /\ open \in [Users -> Seq([tag : Tags, pair : Pairs])]
      /\ n \in DOMAIN open[u] /\ open[u][n] = section
      /\ tag \in Tags /\ p \in Pairs
      /\ open' \in [Users -> Seq([tag : Tags, pair : Pairs])]
      /\ \A v \in Users : v # u => open'[v] = open[v]
      /\ \A i : i \in DOMAIN open'[u] <=> i \in DOMAIN open[u] /\ i # n
      /\ \A i \in DOMAIN open'[u] : open'[u][i] = open[u][i]
  <2>0. PICK Sections : Sections = [tag : Tags, pair : Pairs]
    OBVIOUS
  <2>1. PICK old \in Seq(Sections) : old = open[u]
    BY <1>3, <2>0 DEF TimingTypes
  <2>2. old # <<>> /\ n = Len(old) /\ n \in Nat /\ n >= 1 /\ section = old[n]
    BY <1>1, <1>4, <1>5, <2>1 DEF Last
  <2>3. PICK front : front = SubSeq(old, 1, n - 1)
    OBVIOUS
  <2>4. /\ front \in Seq(Sections)
        /\ \A i : i \in DOMAIN front <=> i \in DOMAIN old /\ i # n
        /\ \A i \in DOMAIN front : front[i] = old[i]
    <3>1. \A i \in 1..(n - 1) : old[i] \in Sections
      BY <2>1, <2>2
    <3>2. front = [i \in 1..(n - 1) |-> old[i]]
      BY <2>2, <2>3
    <3>3. DOMAIN old = 1..n
      BY <2>2
    <3> QED BY <2>2, <3>1, <3>2, <3>3
  <2>5. open' = [open EXCEPT ![u] = front]
    BY <2>1, <2>2, <2>3 DEF Stop, Front
  <2>6. section \in [tag : Tags, pair : Pairs] /\ n \in DOMAIN old
    <3>1. n \in DOMAIN old /\ old[n] \in Sections
      BY <2>1, <2>2
    <3> QED BY <2>0, <2>2, <3>1
  <2>7. open \in [Users -> Seq(Sections)]
    BY <1>3, <2>0 DEF TimingTypes
  <2>8. /\ open' \in [Users -> Seq(Sections)] /\ open'[u] = front
        /\ \A v \in Users : v # u => open'[v] = open[v]
    BY <2>4, <2>5, <2>7
  <2>9. tag \in Tags /\ p \in Pairs
    BY <1>6, <2>6
  <2> QED BY <2>0, <2>1, <2>2, <2>4, <2>6, <2>7, <2>8, <2>9
<1>8. PICK t : t = launched
  OBVIOUS
<1>9. /\ launched' = launched /\ events' = events /\ client' = client /\ calls' = calls
      /\ elapsed' = elapsed /\ t \in Int
      /\ cost \in Seq(Int) /\ cost' = [cost EXCEPT ![p] = t - @]
  BY <1>3, <1>5, <1>6, <1>8 DEF Stop, TimingTypes
<1>10. /\ p \in DOMAIN cost
       /\ tag \in DOMAIN events => Last(events[tag]) = p
       /\ \A q : InTable(q) /\ p = q => tag \in DOMAIN events
       /\ OpenPair(p)
  BY <1>3, <1>6, <1>7 DEF Traced, SectionsOpen, OpenPair
<1>11. /\ cost' \in Seq(Int) /\ DOMAIN cost' = DOMAIN cost /\ cost'[p] = t - cost[p]
       /\ \A q \in DOMAIN cost : q # p => cost'[q] = cost[q]
  <2>1. PICK c \in Int : c = cost[p]
    BY <1>9, <1>10
  <2>2. cost' = [cost EXCEPT ![p] = t - c]
    BY <1>9, <2>1
  <2> QED BY <1>9, <1>10, <2>1, <2>2
<1>12. /\ \A q : OpenPair(q)' <=> OpenPair(q) /\ q # p
       /\ \A q : InTable(q)' <=> InTable(q)
  <2>1. ASSUME NEW v \in Users, NEW i \in DOMAIN open[v], open[v][i].pair = p
        PROVE  v = u /\ i = n
    BY <1>3, <1>6, <1>7, <2>1 DEF Traced, SectionsOpen
  <2>2. ASSUME NEW v \in Users, NEW i \in DOMAIN open'[v]
        PROVE  i \in DOMAIN open[v] /\ open'[v][i] = open[v][i] /\ ~(v = u /\ i = n)
    BY <1>7, <2>2
  <2>3. ASSUME NEW v \in Users, NEW i \in DOMAIN open[v], ~(v = u /\ i = n)
        PROVE  i \in DOMAIN open'[v] /\ open'[v][i] = open[v][i]
    BY <1>7, <2>3
  <2>4. ASSUME NEW q PROVE OpenPair(q)' <=> OpenPair(q) /\ q # p
    <3>1. ASSUME OpenPair(q)' PROVE OpenPair(q) /\ q # p
      <4>1. PICK v \in Users : \E i \in DOMAIN open'[v] : open'[v][i].pair = q
        BY <3>1 DEF OpenPair
      <4>2. PICK i \in DOMAIN open'[v] : open'[v][i].pair = q
        BY <4>1
      <4>3. i \in DOMAIN open[v] /\ open[v][i].pair = q /\ ~(v = u /\ i = n)
        BY <2>2, <4>2
      <4> QED BY <2>1, <4>3 DEF OpenPair
    <3>2. ASSUME OpenPair(q), q # p PROVE OpenPair(q)'
      <4>1. PICK v \in Users : \E i \in DOMAIN open[v] : open[v][i].pair = q
        BY <3>2 DEF OpenPair
      <4>2. PICK i \in DOMAIN open[v] : open[v][i].pair = q
        BY <4>1
      <4>3. ~(v = u /\ i = n)
        BY <1>6, <1>7, <3>2, <4>2
      <4>4. i \in DOMAIN open'[v] /\ open'[v][i].pair = q
        BY <2>3, <4>2, <4>3
      <4> QED BY <4>4 DEF OpenPair
    <3> QED BY <3>1, <3>2
  <2>5. \A q : InTable(q)' <=> InTable(q)
    BY <1>9 DEF InTable
  <2> QED BY <2>4, <2>5
<1>13. SectionsOpen'
  <2>1. ASSUME NEW v \in Users, NEW i \in DOMAIN open'[v]
        PROVE  i \in DOMAIN open[v] /\ open'[v][i] = open[v][i]
    BY <1>7, <2>1
  <2>2. ASSUME NEW v \in Users, NEW w \in Users,
               NEW i \in DOMAIN open'[v], NEW j \in DOMAIN open'[w],
               \/ open'[v][i].tag = open'[w][j].tag
               \/ open'[v][i].pair = open'[w][j].pair
        PROVE  v = w /\ i = j
    BY <1>3, <2>1, <2>2 DEF Traced, SectionsOpen
  <2>3. ASSUME NEW v \in Users, NEW i \in DOMAIN open'[v]
        PROVE  /\ open'[v][i].pair \in DOMAIN cost'
               /\ open'[v][i].tag \in DOMAIN events' =>
                    Last(events'[open'[v][i].tag]) = open'[v][i].pair
               /\ \A q : InTable(q)' /\ open'[v][i].pair = q =>
                    open'[v][i].tag \in DOMAIN events'
    <3>1. PICK s : s = open[v][i]
      OBVIOUS
    <3>2. /\ s.pair \in DOMAIN cost
          /\ s.tag \in DOMAIN events => Last(events[s.tag]) = s.pair
          /\ \A q : InTable(q) /\ s.pair = q => s.tag \in DOMAIN events
      BY <1>3, <2>1, <3>1 DEF Traced, SectionsOpen
    <3>3. open'[v][i] = s
      BY <2>1, <3>1
    <3> QED BY <1>9, <1>11, <1>12, <3>2, <3>3
  <2> QED BY <2>2, <2>3 DEF SectionsOpen
<1>14. ASSUME NEW q \in DOMAIN elapsed.times
       PROVE  q \in DOMAIN cost' /\ ~OpenPair(q)' /\ elapsed.times[q] = cost'[q]
  BY <1>3, <1>10, <1>11, <1>12, <1>14 DEF Traced
<1>15. CASE tag \in DOMAIN events
  <2>1. InTable(p)
    <3>1. PICK pairs \in Seq(Pairs) : pairs = events[tag] /\ pairs # <<>>
      BY <1>3, <1>15 DEF TimingTypes
    <3>2. Len(pairs) \in DOMAIN pairs /\ pairs[Len(pairs)] = p
      BY <1>10, <1>15, <3>1 DEF Last
    <3> QED BY <1>15, <3>1, <3>2 DEF InTable
  <2>2. Began(p) \in DOMAIN time /\ time[Began(p)] = cost[p] /\ Ended(p) \notin DOMAIN time
    BY <1>3, <1>7, <1>10, <2>1 DEF Traced
  <2>3. Ended(p) \in Events
    BY <1>7, TimingConstants
  <2>4. Record(Ended(p))
    BY <1>5, <1>6, <1>10, <1>15 DEF Stop, PairToStop, Ended
  <2>5. PICK further : further = TimedAt(time, Ended(p), t)
    OBVIOUS
  <2>6. DeviceShows(further)' /\ stream' \in Seq(StreamItems)
    BY <1>2, <1>3, <1>8, <1>9, <2>2, <2>3, <2>4, <2>5, RecordShows
  <2>7. /\ DOMAIN further = DOMAIN time \cup {Ended(p)} /\ further[Ended(p)] = t
        /\ \A e \in DOMAIN time : further[e] = time[e]
    BY <2>2, <2>5 DEF TimedAt
  <2>8. TimingTypes'
    BY <1>3, <1>7, <1>9, <1>11, <2>4, <2>6 DEF TimingTypes, Record
  <2>9. ASSUME NEW q \in Pairs, InTable(q)'
        PROVE  /\ q \in DOMAIN cost'
               /\ IF OpenPair(q)' THEN /\ Began(q) \in DOMAIN further
                                       /\ further[Began(q)] = cost'[q]
                                       /\ Ended(q) \notin DOMAIN further
                                  ELSE Measures(further, q, cost'[q])
    <3>1. CASE q = p
      <4>1. /\ further[Began(p)] = cost[p]
            /\ Began(p) \in DOMAIN further /\ Ended(p) \in DOMAIN further
            /\ further[Ended(p)] = t
        BY <2>2, <2>7
      <4> QED BY <1>9, <1>10, <1>11, <1>12, <3>1, <4>1 DEF Measures
    <3>2. CASE q # p
      <4>1. /\ q \in DOMAIN cost
            /\ IF OpenPair(q) THEN /\ Began(q) \in DOMAIN time /\ time[Began(q)] = cost[q]
                                   /\ Ended(q) \notin DOMAIN time
                              ELSE Measures(time, q, cost[q])
        BY <1>3, <1>12, <2>9 DEF Traced
      <4>2. (OpenPair(q)' <=> OpenPair(q)) /\ cost'[q] = cost[q] /\ q \in DOMAIN cost'
        BY <1>11, <1>12, <3>2, <4>1
      <4>3. Ended(q) # Ended(p)
        BY <3>2, TimingConstants
      <4>4. CASE OpenPair(q)
        BY <2>7, <4>1, <4>2, <4>3, <4>4
      <4>5. CASE ~OpenPair(q)
        BY <2>7, <4>1, <4>2, <4>5 DEF Measures
      <4> QED BY <4>4, <4>5
    <3> QED BY <3>1, <3>2
  <2>10. DOMAIN further \subseteq {"start", "end"} \X DOMAIN cost'
    BY <1>3, <1>10, <1>11, <2>7 DEF Traced, Ended
  <2>11. Traced(further)'
    BY <1>3, <1>9, <1>13, <1>14, <2>9, <2>10 DEF Traced
  <2> QED BY <1>1, <1>9, <2>6, <2>8, <2>11 DEF TimingInv, ClientsTimed
<1>16. CASE tag \notin DOMAIN events
  <2>1. stream' = stream /\ executed' = executed /\ stamp' = stamp
    BY <1>5, <1>6, <1>16 DEF Stop, device
  <2>2. DeviceShows(time)'
    <3>1. PICK ticks : WorksOff(time, ticks)
      BY <1>2 DEF DeviceShows
    <3>2. launched' = launched
      BY <1>9
    <3>3. WorksOff(time, ticks)'
      BY ONLY <2>1, <3>1, <3>2 DEF WorksOff
    <3> QED BY ONLY <3>3 DEF DeviceShows
  <2>3. TimingTypes'
    BY <1>3, <1>7, <1>9, <1>11, <2>1 DEF TimingTypes
  <2>4. ~InTable(p)
    BY <1>10, <1>16
  <2>5. ASSUME NEW q \in Pairs, InTable(q)'
        PROVE  /\ q \in DOMAIN cost'
               /\ IF OpenPair(q)' THEN /\ Began(q) \in DOMAIN time /\ time[Began(q)] = cost'[q]
                                       /\ Ended(q) \notin DOMAIN time
                                  ELSE Measures(time, q, cost'[q])
    <3>1. q # p /\ InTable(q)
      BY <1>12, <2>4, <2>5
    <3>2. /\ q \in DOMAIN cost
          /\ IF OpenPair(q) THEN /\ Began(q) \in DOMAIN time /\ time[Began(q)] = cost[q]
                                 /\ Ended(q) \notin DOMAIN time
                            ELSE Measures(time, q, cost[q])
      BY <1>3, <3>1 DEF Traced
    <3>3. (OpenPair(q)' <=> OpenPair(q)) /\ cost'[q] = cost[q] /\ q \in DOMAIN cost'
      BY <1>11, <1>12, <3>1, <3>2
    <3> QED BY <3>2, <3>3
  <2>6. Traced(time)'
    BY <1>3, <1>9, <1>11, <1>13, <1>14, <2>5 DEF Traced
  <2> QED BY <1>1, <1>9, <2>2, <2>3, <2>6 DEF TimingInv, ClientsTimed
<1> QED BY <1>15, <1>16

LEMMA CalculateKeeps ==
  ASSUME enable_sync, TimingInv, Calculate
  PROVE  TimingInv'
<1>1. PICK time : DeviceShows(time) /\ ClientsTimed(time)
  BY DEF TimingInv
<1>2. /\ client = "tracer" /\ stream = <<>>
      /\ stream' = stream /\ executed' = executed /\ stamp' = stamp /\ launched' = launched
      /\ cost' = cost /\ events' = events /\ open' = open /\ client' = client /\ calls' = calls
  BY DEF Calculate, device, Synchronized
<1>3. TimingTypes /\ Traced(time)
  BY <1>1, <1>2 DEF ClientsTimed, TimingInv
<1>4. PICK pairs : pairs = UNION {Range(events[t]) : t \in DOMAIN events}
  OBVIOUS
<1>5. \A p : p \in pairs <=> InTable(p)
  <2>1. \A p : p \in pairs <=> \E t \in DOMAIN events : p \in Range(events[t])
    BY <1>4
  <2> QED BY <2>1 DEF Range, InTable
<1>6. pairs \subseteq Pairs
  BY <1>3, <1>5 DEF TimingTypes, InTable
<1>7. PICK ticks : WorksOff(time, ticks)
  BY <1>1 DEF DeviceShows
<1>8. \A e \in DOMAIN time : e \in DOMAIN stamp /\ stamp[e] = time[e]
  BY <1>2, <1>7 DEF WorksOff
<1>9. \A e \in DOMAIN stamp : e \in DOMAIN time
  BY <1>7 DEF WorksOff
<1>10. \A p : Reached(p) <=> Began(p) \in DOMAIN stamp /\ Ended(p) \in DOMAIN stamp
  BY DEF Reached, Began, Ended
<1>11. \A p \in pairs : Reached(p) <=> ~OpenPair(p)
  BY <1>3, <1>5, <1>6, <1>8, <1>9, <1>10 DEF Traced, Measures
<1>12. \A p \in pairs : ~OpenPair(p) => p \in DOMAIN cost /\ elapsed_time(p) = cost[p]
  BY <1>3, <1>5, <1>6, <1>8 DEF Traced, Measures, elapsed_time, Began, Ended
<1>13. elapsed' = TimesOf(pairs)
  BY <1>4 DEF Calculate
<1>14. DOMAIN elapsed' = {"times", "raised", "busy"}
  BY <1>13 DEF TimesOf, Result
<1>15. /\ \A p \in DOMAIN elapsed'.times :
            p \in DOMAIN cost /\ ~OpenPair(p) /\ elapsed'.times[p] = cost[p]
       /\ elapsed'.raised => elapsed'.busy
  <2>1. CASE \A p \in pairs : Reached(p)
    <3>1. elapsed'.times = [p \in pairs |-> elapsed_time(p)] /\ elapsed'.raised = FALSE
      BY <1>13, <2>1 DEF TimesOf, Result
    <3> QED BY <1>11, <1>12, <2>1, <3>1
  <2>2. CASE ~\A p \in pairs : Reached(p)
    <3>1. PICK p : OpenPair(p)
      BY <1>11, <2>2
    <3>2. \E u \in Users : open[u] # <<>>
      BY <3>1 DEF OpenPair
    <3>3. elapsed'.times = <<>> /\ elapsed'.busy = \E u \in Users : open[u] # <<>>
      BY <1>13, <2>2 DEF TimesOf, Result, NoTimes
    <3> QED BY <3>2, <3>3
  <2> QED BY <2>1, <2>2
<1>16. TimingTypes'
  BY <1>2, <1>3, <1>14 DEF TimingTypes
<1>17. DeviceShows(time)'
  BY <1>1, <1>2 DEF DeviceShows, WorksOff
<1>18. /\ SectionsOpen' <=> SectionsOpen
       /\ \A p : (OpenPair(p)' <=> OpenPair(p)) /\ (InTable(p)' <=> InTable(p))
  BY <1>2 DEF SectionsOpen, InTable, OpenPair
<1>19. Traced(time)'
  BY <1>2, <1>3, <1>15, <1>18 DEF Traced
<1> QED BY <1>2, <1>16, <1>17, <1>19 DEF TimingInv, ClientsTimed

LEMMA ResetKeeps ==
  ASSUME TimingInv, Reset
  PROVE  TimingInv'
<1>1. PICK time : DeviceShows(time) /\ ClientsTimed(time)
  BY DEF TimingInv
<1>2. /\ client = "tracer"
      /\ stream' = stream /\ executed' = executed /\ stamp' = stamp /\ launched' = launched
      /\ cost' = cost /\ events' = <<>> /\ open' = open /\ client' = client /\ calls' = calls
      /\ elapsed' = NoResult
  BY DEF Reset, device, NoTimes
<1>3. TimingTypes /\ Traced(time)
  BY <1>1, <1>2 DEF ClientsTimed, TimingInv
<1>4. /\ DOMAIN elapsed' = {"times", "raised", "busy"} /\ DOMAIN elapsed'.times = {}
      /\ elapsed'.raised = FALSE
  BY <1>2 DEF NoResult, NoTimes
<1>5. DOMAIN events' = {} /\ \A p : ~InTable(p)'
  BY <1>2 DEF InTable
<1>6. TimingTypes'
  BY <1>2, <1>3, <1>4, <1>5 DEF TimingTypes
<1>7. DeviceShows(time)'
  BY <1>1, <1>2 DEF DeviceShows, WorksOff
<1>8. SectionsOpen'
  BY <1>2, <1>3, <1>5 DEF Traced, SectionsOpen
<1>9. Traced(time)'
  BY <1>2, <1>3, <1>4, <1>5, <1>8 DEF Traced
<1> QED BY <1>2, <1>6, <1>7, <1>9 DEF TimingInv, ClientsTimed

-----------------------------------------------------------------------------
(* The two loops.  A warm-up call enqueues kernels, the others time them.  *)
LEMMA CallTypes ==
  ASSUME TimingTypes, NEW k \in Nat, NEW p \in Pairs,
         stream' \in Seq(StreamItems), executed' = executed, launched' = launched + k,
         calls' = calls + 1, events' = events, open' = open, elapsed' = elapsed,
         client' \in {"benchmark", "generation"},
         Untimed(k) \/ Timed(p, k)
  PROVE  TimingTypes'
<1>1. cost \in Seq(Int) /\ k \in Int /\ launched \in Nat /\ calls \in Nat
  BY DEF TimingTypes
<1>2. cost' = cost \/ cost' = Append(cost, k)
  BY DEF Untimed, Timed
<1>3. cost' \in Seq(Int) /\ launched' \in Nat /\ calls' \in Nat
  BY <1>1, <1>2
<1>4. client' \in {"nobody", "tracer", "benchmark", "generation"}
  OBVIOUS
<1> QED BY <1>3, <1>4 DEF TimingTypes

LEMMA BenchmarkKeeps ==
  ASSUME TimingInv, NEW k \in 0..MaxKernels, Benchmark(k)
  PROVE  TimingInv'
<1>1. PICK time : DeviceShows(time) /\ ClientsTimed(time)
  BY DEF TimingInv
<1>2. TimingTypes /\ Benchmarked(time)
  BY <1>1 DEF ClientsTimed, TimingInv, Benchmark, Uses
<1>3. PICK t : t = launched
  OBVIOUS
<1>4. /\ calls \in Nat /\ calls < warmup_iters + profile_iters /\ calls' = calls + 1
      /\ launched' = launched + k /\ executed' = executed /\ events' = events /\ open' = open
      /\ elapsed' = elapsed /\ client' = "benchmark" /\ k \in Nat /\ t \in Int
      /\ cost \in Seq(Int) /\ warmup_iters \in Nat /\ profile_iters \in Nat
  BY <1>2, <1>3, TimingConstants DEF Benchmark, Uses, TimingTypes
<1>5. /\ Len(cost) = IF calls <= warmup_iters THEN 0 ELSE calls - warmup_iters
      /\ \A u \in Users : open[u] = <<>>
      /\ elapsed = NoResult
      /\ DOMAIN time \subseteq {"start", "end"} \X DOMAIN cost
      /\ \A p \in DOMAIN cost : Measures(time, p, cost[p])
  BY <1>2, <1>4 DEF Benchmarked, CallsTimed
<1>6. DOMAIN elapsed.times = {} /\ ~elapsed.raised
  BY <1>5 DEF NoResult, NoTimes
<1>7. CASE calls < warmup_iters
  <2>1. stream' = stream \o Kernels(k) /\ stamp' = stamp /\ cost' = cost /\ Untimed(k)
    BY <1>7 DEF Benchmark, Untimed
  <2>2. DeviceShows(time)' /\ stream' \in Seq(StreamItems)
    BY <1>1, <1>2, <1>4, <2>1, KernelsShow
  <2>3. 1 \in Pairs /\ client' \in {"benchmark", "generation"}
    BY <1>4 DEF Pairs
  <2>4. TimingTypes'
    BY <1>2, <1>4, <2>1, <2>2, <2>3, CallTypes
  <2>5. CallsTimed'
    BY <1>4, <1>5, <1>6, <1>7, <2>1 DEF CallsTimed
  <2>6. Benchmarked(time)'
    BY <1>4, <1>5, <2>1, <2>5 DEF Benchmarked, NoResult
  <2> QED BY <1>4, <2>2, <2>4, <2>6 DEF TimingInv, ClientsTimed
<1>8. CASE ~(calls < warmup_iters)
  <2>1. PICK p : p = Len(cost) + 1
    OBVIOUS
  <2>2. p \in Pairs /\ p \notin DOMAIN cost /\ p = calls + 1 - warmup_iters
    BY <1>4, <1>5, <1>8, <2>1 DEF Pairs
  <2>3. Timed(p, k)
    BY <1>8, <2>2 DEF Benchmark
  <2>4. Began(p) \notin DOMAIN time /\ Ended(p) \notin DOMAIN time
        /\ Began(p) \in Events /\ Ended(p) \in Events /\ Began(p) # Ended(p)
    BY <1>5, <2>2, TimingConstants DEF Began, Ended
  <2>5. \A i \in DOMAIN stream : stream[i] \notin {Began(p), Ended(p)}
    <3>1. PICK ticks : WorksOff(time, ticks)
      BY <1>1 DEF DeviceShows
    <3> QED BY <2>4, <3>1, TimingConstants DEF WorksOff
  <2>6. PICK further : further = AroundCall(time, p, t, k)
    OBVIOUS
  <2>7. DeviceShows(further)' /\ stream' \in Seq(StreamItems)
    BY <1>1, <1>2, <1>3, <1>4, <2>2, <2>3, <2>5, <2>6, TimedShows
  <2>8. TimingTypes'
    BY <1>2, <1>4, <2>2, <2>3, <2>7, CallTypes
  <2>9. /\ DOMAIN further = DOMAIN time \cup {Began(p), Ended(p)}
        /\ further[Began(p)] = t /\ further[Ended(p)] = t + k
        /\ \A e \in DOMAIN time : further[e] = time[e]
    BY <2>4, <2>6 DEF AroundCall
  <2>10. /\ DOMAIN cost' = DOMAIN cost \cup {p} /\ cost'[p] = k /\ Len(cost') = p
         /\ \A q \in DOMAIN cost : cost'[q] = cost[q]
    BY <1>4, <2>1, <2>3 DEF Timed
  <2>11. CallsTimed'
    <3>1. Len(cost') = IF calls' <= warmup_iters THEN 0 ELSE calls' - warmup_iters
      BY <1>4, <1>8, <2>2, <2>10
    <3> QED BY <1>4, <1>5, <1>6, <3>1 DEF CallsTimed
  <2>12. ASSUME NEW q \in DOMAIN cost' PROVE Measures(further, q, cost'[q])
    <3>1. CASE q = p
      BY <1>4, <2>9, <2>10, <3>1 DEF Measures
    <3>2. CASE q # p
      <4>1. q \in DOMAIN cost /\ Measures(time, q, cost[q]) /\ cost'[q] = cost[q]
        BY <1>5, <2>10, <2>12, <3>2
      <4> QED BY <2>9, <4>1 DEF Measures
    <3> QED BY <3>1, <3>2
  <2>13. DOMAIN further \subseteq {"start", "end"} \X DOMAIN cost'
    BY <1>5, <2>9, <2>10 DEF Began, Ended
  <2>14. Benchmarked(further)'
    BY <1>4, <1>5, <2>11, <2>12, <2>13 DEF Benchmarked, NoResult
  <2> QED BY <1>4, <2>7, <2>8, <2>14 DEF TimingInv, ClientsTimed
<1> QED BY <1>7, <1>8

LEMMA BenchmarkReportKeeps ==
  ASSUME TimingInv, BenchmarkReport
  PROVE  TimingInv'
<1>1. PICK time : DeviceShows(time) /\ ClientsTimed(time)
  BY DEF TimingInv
<1>2. /\ client = "benchmark" /\ calls = warmup_iters + profile_iters /\ stream = <<>>
      /\ stream' = stream /\ executed' = executed /\ stamp' = stamp /\ launched' = launched
      /\ cost' = cost /\ events' = events /\ open' = open /\ client' = client /\ calls' = calls
      /\ elapsed' = TimesOf(1..profile_iters)
  BY DEF BenchmarkReport, device, Synchronized
<1>3. TimingTypes /\ Benchmarked(time) /\ CallsTimed
  BY <1>1, <1>2 DEF ClientsTimed, TimingInv, Benchmarked
<1>4. PICK ticks : WorksOff(time, ticks)
  BY <1>1 DEF DeviceShows
<1>5. \A e \in DOMAIN time : e \in DOMAIN stamp /\ stamp[e] = time[e]
  BY <1>2, <1>4 DEF WorksOff
<1>6. DOMAIN cost = 1..profile_iters
  <2>1. Len(cost) = profile_iters
    BY <1>2, <1>3, TimingConstants DEF CallsTimed
  <2> QED BY <1>3, <2>1 DEF TimingTypes
<1>7. \A p \in 1..profile_iters : Reached(p) /\ elapsed_time(p) = cost[p]
  BY <1>3, <1>5, <1>6 DEF Benchmarked, Measures, Reached, elapsed_time, Began, Ended
<1>8. /\ DOMAIN elapsed' = {"times", "raised", "busy"} /\ elapsed'.raised = FALSE
      /\ elapsed'.times = [p \in 1..profile_iters |-> elapsed_time(p)]
  BY <1>2, <1>7 DEF TimesOf, Result
<1>9. TimingTypes'
  BY <1>2, <1>3, <1>8 DEF TimingTypes
<1>10. DeviceShows(time)'
  BY <1>1, <1>2 DEF DeviceShows, WorksOff
<1>11. CallsTimed'
  BY <1>2, <1>3, <1>6, <1>7, <1>8 DEF CallsTimed
<1>12. Benchmarked(time)'
  BY <1>2, <1>3, <1>11 DEF Benchmarked
<1> QED BY <1>2, <1>9, <1>10, <1>12 DEF TimingInv, ClientsTimed

LEMMA GenerationStepKeeps ==
  ASSUME TimingInv, NEW k \in 0..MaxKernels, GenerationStep(k)
  PROVE  TimingInv'
<1>1. PICK time : DeviceShows(time) /\ ClientsTimed(time)
  BY DEF TimingInv
<1>2. TimingTypes /\ Generated(time) /\ CallsTimed
  BY <1>1 DEF ClientsTimed, TimingInv, GenerationStep, Uses, Generated
<1>3. PICK t : t = launched
  OBVIOUS
<1>4. /\ calls \in Nat /\ calls' = calls + 1
      /\ launched' = launched + k /\ executed' = executed /\ events' = events /\ open' = open
      /\ elapsed' = elapsed /\ client' = "generation" /\ k \in Nat /\ t \in Int
      /\ cost \in Seq(Int) /\ warmup_iters \in Nat
      /\ Len(elapsed.times) = Len(cost) /\ client' \in {"benchmark", "generation"}
  BY <1>2, <1>3, TimingConstants DEF GenerationStep, Uses, TimingTypes, StepIsRead
<1>5. /\ Len(cost) = IF calls <= warmup_iters THEN 0 ELSE calls - warmup_iters
      /\ \A u \in Users : open[u] = <<>>
      /\ elapsed.times \in Seq(Int) /\ (cost # <<>> => stream = <<>>)
      /\ ~elapsed.raised
      /\ \A i \in DOMAIN elapsed.times : i \in DOMAIN cost /\ elapsed.times[i] = cost[i]
  BY <1>2, <1>4 DEF Generated, CallsTimed
<1>6. 1 \in Pairs
  BY DEF Pairs
<1>7. CASE calls < warmup_iters
  <2>1. stream' = stream \o Kernels(k) /\ stamp' = stamp /\ cost' = cost /\ Untimed(k)
    BY <1>7 DEF GenerationStep, Untimed
  <2>2. DeviceShows(time)' /\ stream' \in Seq(StreamItems)
    BY <1>1, <1>2, <1>4, <2>1, KernelsShow
  <2>3. TimingTypes'
    BY <1>2, <1>4, <1>6, <2>1, <2>2, CallTypes
  <2>4. cost = <<>>
    BY <1>4, <1>5, <1>7
  <2>5. CallsTimed'
    BY <1>4, <1>5, <1>7, <2>1 DEF CallsTimed
  <2>6. Generated(time)'
    BY <1>4, <1>5, <2>1, <2>4, <2>5 DEF Generated
  <2> QED BY <1>4, <2>2, <2>3, <2>6 DEF TimingInv, ClientsTimed
<1>8. CASE ~(calls < warmup_iters)
  <2>1. Timed(1, k)
    BY <1>8 DEF GenerationStep
  <2>2. stream = <<>>
    <3>1. CASE calls = warmup_iters
      BY <3>1 DEF GenerationStep, Synchronized
    <3>2. CASE calls # warmup_iters
      BY <1>4, <1>5, <1>8, <3>2
    <3> QED BY <3>1, <3>2
  <2>3. \A i \in DOMAIN stream : stream[i] \notin {Began(1), Ended(1)}
    BY <2>2
  <2>4. PICK further : further = AroundCall(time, 1, t, k)
    OBVIOUS
  <2>5. DeviceShows(further)' /\ stream' \in Seq(StreamItems)
    BY <1>1, <1>2, <1>3, <1>4, <1>6, <2>1, <2>3, <2>4, TimedShows
  <2>6. TimingTypes'
    BY <1>2, <1>4, <1>6, <2>1, <2>5, CallTypes
  <2>7. Measures(further, 1, k)
    BY <1>4, <1>6, <2>4, TimingConstants DEF Measures, AroundCall
  <2>8. /\ cost' \in Seq(Int) /\ Len(cost') = Len(cost) + 1 /\ cost'[Len(cost')] = k
        /\ \A q \in DOMAIN cost : q \in DOMAIN cost' /\ cost'[q] = cost[q]
    BY <1>4, <2>1 DEF Timed
  <2>9. CallsTimed'
    <3>1. Len(cost') = IF calls' <= warmup_iters THEN 0 ELSE calls' - warmup_iters
      BY <1>4, <1>5, <1>8, <2>8
    <3> QED BY <1>4, <1>5, <2>8, <3>1 DEF CallsTimed
  <2>10. Generated(further)'
    BY <1>4, <1>5, <2>7, <2>8, <2>9 DEF Generated
  <2> QED BY <1>4, <2>5, <2>6, <2>10 DEF TimingInv, ClientsTimed
<1> QED BY <1>7, <1>8

LEMMA ReadStepKeeps ==
  ASSUME TimingInv, ReadStep
  PROVE  TimingInv'
<1>1. PICK time : DeviceShows(time) /\ ClientsTimed(time)
  BY DEF TimingInv
<1>2. PICK x : x = elapsed_time(1)
  OBVIOUS
<1>3. /\ client = "generation" /\ stream = <<>> /\ Len(elapsed.times) < Len(cost)
      /\ stream' = stream /\ executed' = executed /\ stamp' = stamp /\ launched' = launched
      /\ cost' = cost /\ events' = events /\ open' = open /\ client' = client /\ calls' = calls
      /\ elapsed' = [elapsed EXCEPT !.times = Append(@, x)]
  BY <1>2 DEF ReadStep, device, Synchronized
<1>4. TimingTypes /\ Generated(time) /\ CallsTimed
  BY <1>1, <1>3 DEF ClientsTimed, TimingInv, Generated
<1>5. PICK ticks : WorksOff(time, ticks)
  BY <1>1 DEF DeviceShows
<1>6. \A e \in DOMAIN time : stamp[e] = time[e]
  BY <1>3, <1>5 DEF WorksOff
<1>7. PICK times \in Seq(Int) : times = elapsed.times
  BY <1>4 DEF Generated
<1>8. /\ cost \in Seq(Int) /\ Len(times) + 1 = Len(cost) /\ x = cost[Len(cost)] /\ x \in Int
      /\ \A i \in DOMAIN times : i \in DOMAIN cost /\ times[i] = cost[i]
  <2>1. cost \in Seq(Int) /\ Len(cost) \in Nat /\ Len(times) \in Nat
    BY <1>4, <1>7 DEF TimingTypes
  <2>2. Len(times) + 1 = Len(cost) /\ Measures(time, 1, cost[Len(cost)])
    BY <1>3, <1>4, <1>7, <2>1 DEF Generated
  <2>3. x = cost[Len(cost)]
    BY <1>2, <1>6, <2>2 DEF Measures, elapsed_time, Began, Ended
  <2> QED BY <1>4, <1>7, <2>1, <2>2, <2>3 DEF CallsTimed
<1>9. PICK read : read = Append(times, x)
  OBVIOUS
<1>10. /\ read \in Seq(Int) /\ Len(read) = Len(cost)
       /\ \A i \in DOMAIN read : i \in DOMAIN cost /\ read[i] = cost[i]
  <2>1. /\ read \in Seq(Int) /\ Len(read) = Len(cost) /\ read[Len(cost)] = x
        /\ \A i \in DOMAIN read : i \in DOMAIN times \/ i = Len(cost)
        /\ \A i \in DOMAIN times : read[i] = times[i]
        /\ Len(cost) \in DOMAIN cost
    BY <1>7, <1>8, <1>9
  <2> QED BY <1>8, <2>1
<1>11. /\ DOMAIN elapsed' = {"times", "raised", "busy"} /\ elapsed'.times = read
       /\ elapsed'.raised = elapsed.raised
  BY <1>3, <1>4, <1>7, <1>9 DEF TimingTypes
<1>12. TimingTypes'
  BY <1>3, <1>4, <1>11 DEF TimingTypes
<1>13. DeviceShows(time)'
  <2>1. stream' = stream /\ executed' = executed /\ stamp' = stamp /\ launched' = launched
    BY <1>3
  <2>2. WorksOff(time, ticks)'
    BY ONLY <1>5, <2>1 DEF WorksOff
  <2> QED BY ONLY <2>2 DEF DeviceShows
<1>14. CallsTimed'
  BY <1>3, <1>4, <1>10, <1>11 DEF CallsTimed
<1>15. Generated(time)'
  BY <1>3, <1>10, <1>11, <1>14 DEF Generated
<1> QED BY <1>3, <1>12, <1>13, <1>15 DEF TimingInv, ClientsTimed

(* EachCallTimed (CUDAEventTracer, CUDAEventProfiler.benchmark,            *)
(* profile_generation_loop): whatever sections overlap under different     *)
(* tags, however many kernels they launch and however far the device is    *)
(* behind, every time reported is that of the kernels of its own section,  *)
(* call or step.  Sections that overlap under one tag are excluded, and so *)
(* is reading without a synchronize (~SharedTags, enable_sync): with       *)
(* either the property is false.                                           *)
THEOREM CallsAreTimed ==
  ASSUME ~SharedTags, enable_sync
  PROVE  TimingSpec => []EachCallTimed
<1>1. TimingInv => EachCallTimed
  <2> SUFFICES ASSUME TimingInv PROVE EachCallTimed
    OBVIOUS
  <2>1. PICK time : ClientsTimed(time)
    BY DEF TimingInv
  <2>2. client \in {"nobody", "tracer", "benchmark", "generation"}
    BY DEF TimingInv, TimingTypes
  <2>3. Traced(time) \/ CallsTimed
    BY <2>1, <2>2 DEF ClientsTimed, Benchmarked, Generated
  <2> QED BY <2>3 DEF EachCallTimed, Traced, CallsTimed
<1>2. TimingInv /\ [TimingNext]_timingVars => TimingInv'
  <2> SUFFICES ASSUME TimingInv, [TimingNext]_timingVars PROVE TimingInv'
    OBVIOUS
  <2>1. CASE UNCHANGED timingVars
    <3>1. PICK time : DeviceShows(time) /\ ClientsTimed(time)
      BY DEF TimingInv
    <3>2. TimingTypes'
      BY <2>1 DEF TimingInv, TimingTypes, timingVars
    <3>3. DeviceShows(time)'
      BY <2>1, <3>1 DEF DeviceShows, WorksOff, timingVars
    <3>4. CallsTimed' <=> CallsTimed
      BY <2>1 DEF CallsTimed, timingVars
    <3>5. Traced(time)' <=> Traced(time)
      BY <2>1 DEF Traced, SectionsOpen, InTable, OpenPair, timingVars
    <3>6. (Benchmarked(time)' <=> Benchmarked(time)) /\ (Generated(time)' <=> Generated(time))
      BY <2>1, <3>4 DEF Benchmarked, Generated, timingVars
    <3>7. ClientsTimed(time)'
      BY <2>1, <3>1, <3>5, <3>6 DEF ClientsTimed, timingVars
    <3> QED BY <3>2, <3>3, <3>7 DEF TimingInv
  <2>2. CASE TimingNext
    BY <2>2, ExecuteKeeps, LaunchKeeps, StopKeeps, StartKeeps, CalculateKeeps, ResetKeeps,
       BenchmarkKeeps, GenerationStepKeeps, BenchmarkReportKeeps, ReadStepKeeps DEF TimingNext
  <2> QED BY <2>1, <2>2
<1> QED BY <1>1, <1>2, TimingInitInv, PTL DEF TimingSpec

-----------------------------------------------------------------------------
(***************************************************************************)
(* The Pareto frontier.                                                    *)
(***************************************************************************)
LEMMA CriteriaAreNumbers ==
  ASSUME points \in Seq(MetricSets), NEW p \in DOMAIN points, NEW n \in DOMAIN objectives
  PROVE  Criterion(p, n) \in Int
<1>1. points[p] \in MetricSets
  OBVIOUS
<1>2. Metric(p, n) \in Int
  BY <1>1, MetricsAssumption DEF Metric
<1> QED BY <1>2 DEF Criterion

(* To dominate is a strict order.                                          *)
LEMMA DominationIsOrder ==
  ASSUME points \in Seq(MetricSets), NEW p \in DOMAIN points, NEW q \in DOMAIN points,
         NEW r \in DOMAIN points
  PROVE  /\ ~Dominates(p, p)
         /\ Dominates(r, q) /\ Dominates(q, p) => Dominates(r, p)
<1>1. \A n \in DOMAIN objectives :
        Criterion(p, n) \in Int /\ Criterion(q, n) \in Int /\ Criterion(r, n) \in Int
  BY CriteriaAreNumbers
<1>2. ~Dominates(p, p)
  BY <1>1 DEF Dominates
<1>3. ASSUME Dominates(r, q), Dominates(q, p) PROVE Dominates(r, p)
  <2>1. PICK n \in DOMAIN objectives : Criterion(q, n) > Criterion(p, n)
    BY <1>3 DEF Dominates
  <2>2. Criterion(r, n) >= Criterion(q, n)
    BY <1>3 DEF Dominates
  <2>3. Criterion(r, n) > Criterion(p, n)
    BY <1>1, <2>1, <2>2
  <2>4. \A k \in DOMAIN objectives : Criterion(r, k) >= Criterion(p, k)
    BY <1>1, <1>3 DEF Dominates
  <2> QED BY <2>3, <2>4 DEF Dominates
<1> QED BY <1>2, <1>3

LEMMA BeatenIsDominated ==
  ASSUME points \in Seq(MetricSets), NEW p \in DOMAIN points
  PROVE  Beaten(p) <=> \E q \in DOMAIN points : Dominates(q, p)
<1>1. ASSUME NEW q \in DOMAIN points
      PROVE  Dominates(q, p) <=>
               /\ \A n \in DOMAIN objectives : Criterion(q, n) >= Criterion(p, n)
               /\ \E n \in DOMAIN objectives : Criterion(q, n) # Criterion(p, n)
  <2>1. \A n \in DOMAIN objectives : Criterion(p, n) \in Int /\ Criterion(q, n) \in Int
    BY CriteriaAreNumbers
  <2>2. \A a, b \in Int : a >= b => (a > b <=> a # b)
    OBVIOUS
  <2> QED BY <2>1, <2>2 DEF Dominates
<1> QED BY <1>1 DEF Beaten

(* A point that is dominated is dominated by one that is not: of those     *)
(* that dominate it, one that the fewest dominate.                         *)
Dominators(p) == {q \in DOMAIN points : Dominates(q, p)}

LEMMA SomeDominatorIsOptimal ==
  ASSUME points \in Seq(MetricSets), NEW p \in DOMAIN points, Beaten(p)
  PROVE  \E q \in DOMAIN points : Dominates(q, p) /\ ~Beaten(q)
<1>1. IsFiniteSet(DOMAIN points) /\ \A q : IsFiniteSet(Dominators(q))
  <2>1. DOMAIN points = 1..Len(points) /\ Len(points) \in Nat
    OBVIOUS
  <2>2. IsFiniteSet(DOMAIN points)
    BY <2>1, FS_Interval
  <2>3. \A q : Dominators(q) \subseteq DOMAIN points
    BY DEF Dominators
  <2> QED BY <2>2, <2>3, FS_Subset
<1> DEFINE Q == {Dominators(q) : q \in Dominators(p)}
<1>2. PICK m \in Q : \A s \in Q : Cardinality(m) <= Cardinality(s)
  <2>1. Q # {} /\ \A s \in Q : IsFiniteSet(s)
    BY <1>1, BeatenIsDominated DEF Dominators
  <2> HIDE DEF Q
  <2> QED BY <2>1, SmallestSet
<1>3. PICK q \in DOMAIN points : Dominates(q, p) /\ m = Dominators(q)
  BY <1>2 DEF Dominators
<1>4. ASSUME Beaten(q) PROVE FALSE
  <2>1. PICK r \in DOMAIN points : Dominates(r, q)
    BY <1>4, BeatenIsDominated
  <2>2. Dominators(r) \in Q
    BY <1>3, <2>1, DominationIsOrder DEF Dominators
  <2>3. Dominators(r) \subseteq m /\ r \in m /\ r \notin Dominators(r)
    BY <1>3, <2>1, DominationIsOrder DEF Dominators
  <2>4. Dominators(r) \subseteq m \ {r} /\ IsFiniteSet(m)
    BY <1>1, <1>3, <2>3
  <2>5. /\ IsFiniteSet(m \ {r}) /\ Cardinality(m \ {r}) \in Nat
        /\ Cardinality(m) = Cardinality(m \ {r}) + 1
    BY <2>3, <2>4, Rest
  <2>6. Cardinality(Dominators(r)) <= Cardinality(m \ {r})
    BY <2>4, <2>5, FS_Subset
  <2>7. Cardinality(Dominators(r)) \in Nat /\ Cardinality(m) <= Cardinality(Dominators(r))
    BY <1>1, <1>2, <2>2, FS_CardinalityType
  <2> QED BY <2>5, <2>6, <2>7
<1> QED BY <1>3, <1>4

(* The recursion of Optimal has a solution, which drops a point only in    *)
(* its own step, and only if a point that is left dominates it.            *)
KeptAfter(it, i) ==
  IF i = 0 THEN DOMAIN points
  ELSE IF \E q \in it[i - 1] \ {i} : Dominates(q, i) THEN it[i - 1] \ {i} ELSE it[i - 1]

Keeps(it, n) == it = [i \in 0..n |-> KeptAfter(it, i)]

Keeper == CHOOSE it : Keeps(it, Len(points))

LEMMA OptimalIsKept == Optimal = Keeper[Len(points)]
BY DEF Optimal, Keeper, Keeps, KeptAfter

LEMMA KeepsUpTo ==
  ASSUME NEW n \in Nat
  PROVE  \E it : Keeps(it, n)
<1> DEFINE K == {k \in Nat : ~\E it : Keeps(it, k)}
<1>1. \E it : Keeps(it, 0)
  <2> DEFINE it == [i \in 0..0 |-> DOMAIN points]
  <2>1. \A i \in 0..0 : KeptAfter(it, i) = DOMAIN points
    BY DEF KeptAfter
  <2>2. it = [i \in 0..0 |-> KeptAfter(it, i)]
    BY <2>1
  <2> QED BY <2>2 DEF Keeps
<1>2. ASSUME NEW k \in Nat, NEW g, Keeps(g, k) PROVE \E it : Keeps(it, k + 1)
  <2> DEFINE it == [i \in 0..(k + 1) |-> KeptAfter(g, i)]
  <2>1. \A i \in 0..k : i \in 0..(k + 1) /\ it[i] = g[i]
    BY <1>2 DEF Keeps
  <2>2. ASSUME NEW i \in 0..(k + 1) PROVE KeptAfter(it, i) = KeptAfter(g, i)
    <3>1. i # 0 => i - 1 \in 0..k
      OBVIOUS
    <3>2. i # 0 => it[i - 1] = g[i - 1]
      BY <2>1, <3>1
    <3> HIDE DEF it
    <3> QED BY <3>2 DEF KeptAfter
  <2>3. it = [i \in 0..(k + 1) |-> KeptAfter(it, i)]
    BY <2>2
  <2> HIDE DEF it
  <2> QED BY <2>3 DEF Keeps
<1> SUFFICES ASSUME K # {} PROVE FALSE
  OBVIOUS
<1>3. PICK m \in K : \A k \in K : m <= k
  <2>1. K \in SUBSET Nat
    OBVIOUS
  <2> HIDE DEF K
  <2> QED BY <2>1, LeastNumber
<1>4. m \in Nat /\ m # 0 /\ ~\E it : Keeps(it, m)
  BY <1>1, <1>3
<1>5. m - 1 \in Nat /\ m - 1 \notin K /\ (m - 1) + 1 = m
  BY <1>3, <1>4
<1> QED BY <1>2, <1>4, <1>5

LEMMA KeeperKeeps ==
  ASSUME points \in Seq(MetricSets)
  PROVE  /\ Keeper[0] = DOMAIN points
         /\ \A i \in DOMAIN points : Keeper[i] = KeptAfter(Keeper, i)
<1>1. Len(points) \in Nat /\ DOMAIN points = 1..Len(points)
  OBVIOUS
<1>2. Keeps(Keeper, Len(points))
  BY <1>1, KeepsUpTo DEF Keeper
<1>3. \A i \in 0..Len(points) : Keeper[i] = KeptAfter(Keeper, i)
  <2> HIDE DEF Keeper
  <2> QED BY <1>2 DEF Keeps
<1>4. Keeper[0] = KeptAfter(Keeper, 0)
  BY <1>1, <1>3
<1>5. \A i \in DOMAIN points : Keeper[i] = KeptAfter(Keeper, i)
  BY <1>1, <1>3
<1> QED BY <1>4, <1>5 DEF KeptAfter

(* What a point's fate is before, in and after its step. *)
LEMMA DroppedInItsStep ==
  ASSUME points \in Seq(MetricSets), NEW p \in DOMAIN points
  PROVE  /\ \A i \in 0..Len(points) : Keeper[i] \subseteq DOMAIN points
         /\ \A i \in 0..Len(points) : i < p => p \in Keeper[i]
         /\ \A i \in 0..Len(points) : i >= p => (p \in Keeper[i] <=> p \in Keeper[p])
<1>1. Len(points) \in Nat /\ DOMAIN points = 1..Len(points) /\ p \in Nat
  OBVIOUS
<1> DEFINE Fine(i) == /\ Keeper[i] \subseteq DOMAIN points
                      /\ i < p => p \in Keeper[i]
                      /\ i >= p => (p \in Keeper[i] <=> p \in Keeper[p])
           K == {i \in 0..Len(points) : ~Fine(i)}
<1> SUFFICES ASSUME K # {} PROVE FALSE
  OBVIOUS
<1>2. Fine(0)
  BY <1>1, KeeperKeeps
<1>3. PICK m \in K : \A k \in K : m <= k
  <2>1. K \in SUBSET Nat
    OBVIOUS
  <2> HIDE DEF K
  <2> QED BY <2>1, LeastNumber
<1>4. m \in DOMAIN points /\ m - 1 \in 0..Len(points) /\ Fine(m - 1)
  BY <1>1, <1>2, <1>3
<1>5. Keeper[m] \in {Keeper[m - 1], Keeper[m - 1] \ {m}}
  <2>1. Keeper[m] = KeptAfter(Keeper, m) /\ m # 0
    BY <1>1, <1>4, KeeperKeeps
  <2> QED BY ONLY <2>1 DEF KeptAfter
<1>6. Fine(m)
  BY <1>1, <1>4, <1>5
<1> QED BY <1>3, <1>6

(* A point is only compared with those not dropped before, and yet the     *)
(* right ones are left.                                                    *)
LEMMA OptimalIsNotBeaten ==
  ASSUME points \in Seq(MetricSets), NEW p \in DOMAIN points
  PROVE  p \in Optimal <=> ~Beaten(p)
<1>1. Len(points) \in Nat /\ DOMAIN points = 1..Len(points)
      /\ p \in 0..Len(points) /\ p - 1 \in 0..Len(points) /\ p - 1 < p
      /\ Len(points) \in 0..Len(points) /\ Len(points) >= p
  OBVIOUS
<1>2. ASSUME NEW r \in DOMAIN points
      PROVE  r \in Optimal <=> ~\E q \in Keeper[r - 1] \ {r} : Dominates(q, r)
  <2>1. r \in Keeper[r - 1] /\ (r \in Optimal <=> r \in Keeper[r])
    BY <1>1, DroppedInItsStep, OptimalIsKept
  <2>2. Keeper[r] = KeptAfter(Keeper, r) /\ r # 0
    BY KeeperKeeps
  <2> QED BY <2>1, <2>2 DEF KeptAfter
<1>3. ASSUME NEW r \in DOMAIN points, ~Beaten(r) PROVE r \in Optimal
  <2>1. Keeper[r - 1] \subseteq DOMAIN points
    BY <1>1, DroppedInItsStep
  <2> QED BY <1>2, <1>3, <2>1, BeatenIsDominated
<1>4. ASSUME Beaten(p) PROVE p \notin Optimal
  <2>1. PICK q \in DOMAIN points : Dominates(q, p) /\ ~Beaten(q)
    BY <1>4, SomeDominatorIsOptimal
  <2>2. q \in Optimal /\ q # p
    BY <1>3, <2>1, DominationIsOrder
  <2>3. q \in Keeper[p - 1]
    <3>1. q \in Keeper[q] /\ q \in 0..Len(points)
      BY <1>1, <2>2, DroppedInItsStep, OptimalIsKept
    <3>2. p - 1 < q \/ p - 1 >= q
      BY <1>1
    <3> QED BY <1>1, <3>1, <3>2, DroppedInItsStep
  <2> QED BY <1>2, <2>1, <2>2, <2>3
<1> QED BY <1>3, <1>4

(* A finite set of numbers has a greatest and a least one.                 *)
LEMMA FiniteExtremes ==
  ASSUME NEW S \in SUBSET Int, IsFiniteSet(S), S # {}
  PROVE  /\ Max(S) \in S /\ Min(S) \in S
         /\ \A x \in S : Max(S) >= x /\ Min(S) <= x
<1> DEFINE Bounded(s) == /\ \E x \in s : \A y \in s : x >= y
                         /\ \E x \in s : \A y \in s : x <= y
           Q == {s \in SUBSET S : s # {} /\ ~Bounded(s)}
<1>1. Q = {}
  <2> SUFFICES ASSUME Q # {} PROVE FALSE
    OBVIOUS
  <2>1. PICK m \in Q : \A s \in Q : Cardinality(m) <= Cardinality(s)
    <3>1. \A s \in Q : IsFiniteSet(s)
      BY FS_Subset
    <3> HIDE DEF Q
    <3> QED BY <3>1, SmallestSet
  <2>2. m \in SUBSET Int /\ m \in SUBSET S /\ m # {} /\ ~Bounded(m) /\ IsFiniteSet(m)
    BY <2>1, FS_Subset
  <2>3. PICK x \in m : TRUE
    BY <2>2
  <2>4. /\ Cardinality(m \ {x}) \in Nat /\ Cardinality(m) = Cardinality(m \ {x}) + 1
        /\ m \ {x} \in SUBSET S
    BY <2>2, Rest
  <2>5. m \ {x} \notin Q
    <3> HIDE DEF Q
    <3> SUFFICES ASSUME m \ {x} \in Q PROVE FALSE
      OBVIOUS
    <3>1. Cardinality(m) <= Cardinality(m \ {x})
      BY <2>1
    <3> QED BY <2>4, <3>1
  <2>6. m \ {x} # {}
    BY <2>2, <2>3
  <2>7. Bounded(m \ {x})
    BY <2>4, <2>5, <2>6
  <2>8. PICK a \in m \ {x}, b \in m \ {x} : \A y \in m \ {x} : a >= y /\ b <= y
    BY <2>7
  <2>9. PICK c \in {a, x} : c >= a /\ c >= x
    BY <2>2, <2>8
  <2>10. PICK d \in {b, x} : d <= b /\ d <= x
    BY <2>2, <2>8
  <2>11. c \in m /\ d \in m /\ \A y \in m : c >= y /\ d <= y
    BY <2>2, <2>3, <2>8, <2>9, <2>10
  <2> QED BY <2>2, <2>11
<1>2. Bounded(S)
  BY <1>1
<1> QED BY <1>2 DEF Max, Min

LEMMA SpreadIsNotZero ==
  ASSUME points \in Seq(MetricSets), points # <<>>, NEW n \in DOMAIN objectives
  PROVE  Spread(n) \in Int \ {0}
<1>1. PICK values : values = {Criterion(p, n) : p \in DOMAIN points}
  OBVIOUS
<1>2. values \in SUBSET Int /\ values # {}
  <2>1. 1 \in DOMAIN points
    OBVIOUS
  <2>2. \A p \in DOMAIN points : Criterion(p, n) \in Int
    BY CriteriaAreNumbers
  <2> QED BY <1>1, <2>1, <2>2
<1>3. IsFiniteSet(values)
  <2>1. IsFiniteSet(DOMAIN points)
    <3>1. DOMAIN points = 1..Len(points) /\ Len(points) \in Nat
      OBVIOUS
    <3> QED BY <3>1, FS_Interval
  <2>2. PICK f : f = [p \in DOMAIN points |-> Criterion(p, n)]
    OBVIOUS
  <2>3. f \in Surjection(DOMAIN points, values)
    BY <1>1, <2>2 DEF Surjection
  <2> QED BY <2>1, <2>3, FS_Surjection
<1>4. Max(values) \in Int /\ Min(values) \in Int
  BY <1>2, <1>3, FiniteExtremes
<1> QED BY <1>1, <1>4 DEF Spread

(* Points that differ in an objective are apart.                           *)
LEMMA ApartIsNotZero ==
  ASSUME points \in Seq(MetricSets), NEW p \in DOMAIN points, NEW q \in DOMAIN points,
         NEW k \in DOMAIN objectives, Criterion(p, k) # Criterion(q, k)
  PROVE  Distance(p, q) \in Nat \ {0}
<1> DEFINE Spreads(n) == [m \in DOMAIN objectives \ {n} |-> Spread(m)]
           TheRest(n) == FoldFunction( *, 1, Spreads(n))
           Apart(n) == (Criterion(p, n) - Criterion(q, n)) * TheRest(n)
           v == [n \in DOMAIN objectives |-> Apart(n) * Apart(n)]
<1>1. ASSUME NEW n \in DOMAIN objectives PROVE TheRest(n) \in Int \ {0}
  <2>1. IsFiniteSet(DOMAIN Spreads(n))
    BY MetricsAssumption, FS_Subset
  <2>2. \A m \in DOMAIN Spreads(n) : Spreads(n)[m] \in Int \ {0}
    BY SpreadIsNotZero
  <2> HIDE DEF Spreads
  <2> QED BY <2>1, <2>2, ProductIsNotZero
<1> HIDE DEF TheRest
<1>2. /\ \A a, b \in Int : a * b \in Int
      /\ \A a \in Int \ {0}, b \in Int \ {0} : a * b \in Int \ {0}
      /\ \A a \in Int : a * a \in Nat
      /\ \A a \in Int \ {0} : a * a \in Nat \ {0}
  OBVIOUS
<1>3. ASSUME NEW n \in DOMAIN objectives
      PROVE  /\ Criterion(p, n) - Criterion(q, n) \in Int
             /\ Criterion(p, n) # Criterion(q, n) => Criterion(p, n) - Criterion(q, n) # 0
  BY CriteriaAreNumbers
<1>4. ASSUME NEW n \in DOMAIN objectives PROVE Apart(n) \in Int
  BY <1>1, <1>2, <1>3
<1>5. Apart(k) \in Int \ {0}
  BY <1>1, <1>2, <1>3
<1> HIDE DEF Apart
<1>6. (\A n \in DOMAIN v : v[n] \in Nat) /\ v[k] \in Nat \ {0} /\ k \in DOMAIN v
  BY <1>2, <1>4, <1>5
<1>7. DOMAIN v = DOMAIN objectives /\ IsFiniteSet(DOMAIN v) /\ IsFiniteSet(DOMAIN v \ {k})
  BY MetricsAssumption, FS_Subset
<1>8. Distance(p, q) = SumFunctionOnSet(v, DOMAIN v)
  BY DEF Distance, SumFunction, Apart, TheRest
<1> HIDE DEF v
<1>9. SumFunctionOnSet(v, DOMAIN v) = v[k] + SumFunctionOnSet(v, DOMAIN v \ {k})
  BY <1>6, <1>7, SumWithout
<1>10. SumFunctionOnSet(v, DOMAIN v \ {k}) \in Nat
  BY <1>6, <1>7, SumIsNat
<1> QED BY <1>6, <1>8, <1>9, <1>10

(* A point that is beaten is apart from every optimal one: what beats it   *)
(* would beat an equal one too.                                            *)
LEMMA BeatenIsApart ==
  ASSUME points \in Seq(MetricSets), NEW p \in DOMAIN points, Beaten(p),
         NEW q \in DOMAIN points, ~Beaten(q)
  PROVE  Distance(q, p) \in Nat \ {0}
<1>1. PICK r \in DOMAIN points : Dominates(r, p)
  BY BeatenIsDominated
<1>2. ~Dominates(r, q)
  BY BeatenIsDominated
<1>3. PICK k \in DOMAIN objectives : Criterion(q, k) # Criterion(p, k)
  BY <1>1, <1>2 DEF Dominates
<1> QED BY <1>3, ApartIsNotZero

LEMMA ComputedDistance ==
  ASSUME points \in Seq(MetricSets), NEW p \in DOMAIN points, p \notin Optimal
  PROVE  Min({Distance(q, p) : q \in Optimal}) # 0
<1>1. Optimal \subseteq DOMAIN points
  <2>1. Len(points) \in 0..Len(points)
    OBVIOUS
  <2> QED BY <2>1, DroppedInItsStep, OptimalIsKept
<1>2. Beaten(p) /\ \A q \in Optimal : q \in DOMAIN points /\ ~Beaten(q)
  BY <1>1, OptimalIsNotBeaten
<1>3. Optimal # {}
  BY <1>2, SomeDominatorIsOptimal, OptimalIsNotBeaten
<1>4. PICK best : best = Optimal
  OBVIOUS
<1>5. PICK f : f = [q \in best |-> Distance(q, p)]
  OBVIOUS
<1>6. PICK S : S = {Distance(q, p) : q \in best}
  OBVIOUS
<1>7. S \in SUBSET (Nat \ {0}) /\ S # {}
  <2>1. \A q \in best : Distance(q, p) \in Nat \ {0}
    BY <1>2, <1>4, BeatenIsApart
  <2> QED BY <1>3, <1>4, <1>6, <2>1
<1>8. IsFiniteSet(S)
  <2>1. IsFiniteSet(best)
    <3>1. DOMAIN points = 1..Len(points) /\ Len(points) \in Nat
      OBVIOUS
    <3>2. IsFiniteSet(DOMAIN points)
      BY <3>1, FS_Interval
    <3>3. best \in SUBSET DOMAIN points
      BY <1>1, <1>4
    <3> QED BY <3>2, <3>3, FS_Subset
  <2>2. f \in Surjection(best, S)
    BY <1>5, <1>6 DEF Surjection
  <2> QED BY <2>1, <2>2, FS_Surjection
<1>9. Min(S) \in S
  BY <1>7, <1>8, FiniteExtremes
<1> QED BY <1>4, <1>6, <1>7, <1>9

FrontierInv == points \in Seq(MetricSets) /\ FrontierExact

(* FrontierExact (ParetoFrontierCalculator.compute_pareto_frontier): for   *)
(* any points and objectives, what it marks is optimal are the points no   *)
(* other one dominates, though it compares a point only with those it has  *)
(* not struck out; they have distance 0 and only they have.                *)
THEOREM FrontierIsExact == MetricsSpec => []FrontierExact
<1>1. MetricsInit => FrontierInv
  BY DEF MetricsInit, FrontierInv, FrontierExact, NoFrontier
<1>2. FrontierInv /\ [MetricsNext]_metricVars => FrontierInv'
  <2> SUFFICES ASSUME FrontierInv, [MetricsNext]_metricVars PROVE FrontierInv'
    OBVIOUS
  <2>1. CASE Compute
    <3>1. points \in Seq(MetricSets) /\ points' = points
      BY <2>1 DEF FrontierInv, Compute
    <3>2. frontier' = [p \in DOMAIN points |->
                        [optimal |-> p \in Optimal,
                         distance |-> IF p \in Optimal THEN 0
                                      ELSE Min({Distance(q, p) : q \in Optimal})]]
      BY <2>1 DEF Compute
    <3>3. ASSUME NEW p \in DOMAIN points
          PROVE  /\ frontier'[p].optimal <=> ~Beaten(p)
                 /\ frontier'[p].distance = 0 <=> frontier'[p].optimal
      <4>1. PICK isOptimal : isOptimal = (p \in Optimal)
        OBVIOUS
      <4>2. PICK least : least = Min({Distance(q, p) : q \in Optimal})
        OBVIOUS
      <4>3. /\ frontier'[p].optimal = isOptimal
            /\ frontier'[p].distance = IF p \in Optimal THEN 0 ELSE least
        BY <3>2, <4>1, <4>2
      <4>4. p \notin Optimal => least # 0
        BY <3>1, <4>2, ComputedDistance
      <4> QED BY <3>1, <4>1, <4>3, <4>4, OptimalIsNotBeaten
    <3>4. \A p : Beaten(p)' <=> Beaten(p)
      BY <3>1 DEF Beaten, Criterion, Metric
    <3> QED BY <3>1, <3>2, <3>3, <3>4 DEF FrontierInv, FrontierExact
  <2>2. ASSUME NEW metrics \in MetricSets, AddPoint(metrics) PROVE FrontierInv'
    BY <2>2 DEF AddPoint, FrontierInv, FrontierExact, NoFrontier
  <2>3. ASSUME UNCHANGED <<points, frontier>> PROVE FrontierInv'
    BY <2>3 DEF FrontierInv, FrontierExact, Beaten, Criterion, Metric
  <2> QED BY <2>1, <2>2, <2>3 DEF MetricsNext, metricVars, AddSample, ScoreSample, Evaluate
<1>3. FrontierInv => FrontierExact
  BY DEF FrontierInv
<1> QED BY <1>1, <1>2, <1>3, PTL DEF MetricsSpec

-----------------------------------------------------------------------------
(***************************************************************************)
(* The regression gate.                                                    *)
(***************************************************************************)
Tokens == [i \in DOMAIN requests |-> Max({1, requests[i].gen_len})]

(* Of the requests the first k have been admitted. *)
TokensLeft(k) ==
  [i \in DOMAIN requests |->
     IF i > k THEN Tokens[i] ELSE IF i \in DOMAIN running THEN running[i] ELSE 0]

Queued(k) ==
  /\ waiting = [i \in 1..(Len(requests) - k) |-> k + i]
  /\ DOMAIN running \cup completed = 1..k
  /\ \A i \in DOMAIN running : running[i] \in Nat \ {0}
  /\ rounds + SumFunction(TokensLeft(k)) <= SumFunction(Tokens)

GateTypes ==
  /\ bench \in 0..4 /\ exit \in {Open, 0, 1} /\ all_passed \in BOOLEAN
  /\ rounds \in Nat /\ actual \in Seq(Nat)
  /\ requests \in Workloads \cup {<<>>} /\ baselines \in Baselines \cup {<<>>}

Judged ==
  /\ Len(actual) = IF bench = 0 THEN 0 ELSE bench - 1
  /\ all_passed <=> \A b \in DOMAIN actual : ~Worse(b)
  /\ exit = 0 => bench = 4 /\ all_passed
  /\ exit = 1 /\ bench = 4 => ~all_passed

GateInv ==
  /\ GateTypes /\ Judged
  /\ bench = 0 => waiting = <<>> /\ running = <<>> /\ completed = {} /\ rounds = 0
  /\ bench = 4 => waiting = <<>> /\ DOMAIN running = {}
  /\ \E k \in 0..Len(requests) : Queued(k)

LEMMA RequestFacts ==
  ASSUME GateTypes
  PROVE  /\ Len(requests) \in Nat /\ DOMAIN requests = 1..Len(requests)
         /\ \A i \in DOMAIN requests :
              requests[i].prompt_len \in Nat /\ requests[i].gen_len \in Nat
         /\ IsFiniteSet(DOMAIN requests)
<1>1. requests = <<>> \/ requests \in Seq(Range(requests))
  BY GateAssumption DEF GateTypes
<1>2. Len(requests) \in Nat /\ DOMAIN requests = 1..Len(requests)
  BY <1>1
<1>3. \A i \in DOMAIN requests : requests[i].prompt_len \in Nat /\ requests[i].gen_len \in Nat
  BY <1>2, GateAssumption DEF GateTypes
<1>4. IsFiniteSet(DOMAIN requests)
  <2>1. PICK n \in Nat : n = Len(requests)
    BY <1>2
  <2>2. IsFiniteSet(1..n)
    BY FS_Interval
  <2> QED BY ONLY <1>2, <2>1, <2>2
<1> QED BY ONLY <1>2, <1>3, <1>4

LEMMA TokensAreCounted ==
  ASSUME GateTypes, NEW i \in DOMAIN requests
  PROVE  /\ Tokens[i] \in Nat \ {0} /\ Tokens[i] >= requests[i].gen_len
         /\ Tokens[i] = 1 \/ Tokens[i] = requests[i].gen_len
<1>1. PICK S : S = {1, requests[i].gen_len}
  OBVIOUS
<1>2. S \in SUBSET Nat /\ S # {} /\ IsFiniteSet(S) /\ 1 \in S /\ requests[i].gen_len \in S
  <2>1. IsFiniteSet({1}) /\ IsFiniteSet({requests[i].gen_len})
    BY FS_Singleton
  <2>2. S = {1} \cup {requests[i].gen_len}
    BY <1>1
  <2>3. IsFiniteSet(S)
    BY <2>1, <2>2, FS_Union
  <2>4. requests[i].gen_len \in Nat
    BY RequestFacts
  <2> QED BY <1>1, <2>3, <2>4
<1>3. Max(S) \in S /\ \A x \in S : Max(S) >= x
  BY <1>2, FiniteExtremes
<1>4. Tokens[i] = Max(S)
  BY <1>1 DEF Tokens
<1> QED BY <1>1, <1>2, <1>3, <1>4

LEMMA TokensLeftAreCounted ==
  ASSUME GateTypes, NEW k \in 0..Len(requests), Queued(k)
  PROVE  /\ DOMAIN TokensLeft(k) = DOMAIN requests /\ DOMAIN Tokens = DOMAIN requests
         /\ \A i \in DOMAIN requests : TokensLeft(k)[i] \in Nat
         /\ SumFunction(TokensLeft(k)) \in Nat /\ SumFunction(Tokens) \in Nat
<1>1. /\ DOMAIN TokensLeft(k) = DOMAIN requests /\ DOMAIN Tokens = DOMAIN requests
      /\ \A i \in DOMAIN requests :
           TokensLeft(k)[i] = IF i > k THEN Tokens[i]
                              ELSE IF i \in DOMAIN running THEN running[i] ELSE 0
  BY DEF TokensLeft, Tokens
<1>2. \A i \in DOMAIN requests : Tokens[i] \in Nat
  BY TokensAreCounted
<1>3. \A i \in DOMAIN requests : TokensLeft(k)[i] \in Nat
  BY <1>1, <1>2 DEF Queued
<1> QED BY <1>1, <1>2, <1>3, RequestFacts, SumIsNat DEF SumFunction

PromptsFit ==
  \A w \in Workloads : \A i \in DOMAIN w : w[i].prompt_len <= max_token_budget

(* The admission takes a prefix of the queue, and of an idle batch's queue *)
(* at least its head.                                                      *)
LEMMA SomeAreAdmitted ==
  ASSUME PromptsFit, GateTypes, NEW k \in 0..Len(requests), Queued(k)
  PROVE  /\ Len(waiting) = Len(requests) - k /\ Len(waiting) \in Nat
         /\ Admitted \in 0..Len(waiting)
         /\ waiting # <<>> /\ DOMAIN running = {} => Admitted # 0
         /\ First(Admitted) = (k + 1)..(k + Admitted)
         /\ waiting = <<>> <=> k = Len(requests)
<1>1. /\ Len(requests) \in Nat /\ k \in Nat /\ k <= Len(requests)
      /\ waiting = [i \in 1..(Len(requests) - k) |-> k + i]
  BY RequestFacts DEF Queued
<1>2. PICK n \in Nat : n = Len(requests) - k
  <2>1. Len(requests) - k \in Nat
    BY ONLY <1>1
  <2> QED BY ONLY <2>1
<1>3. waiting \in Seq(Nat) /\ Len(waiting) = n /\ \A i \in 1..n : waiting[i] = k + i
  BY <1>1, <1>2
<1>4. PICK S : S = {i \in 0..n : i = 0 \/ Admissible(i)}
  OBVIOUS
<1>5. S \in SUBSET (0..n) /\ S \in SUBSET Int /\ 0 \in S /\ IsFiniteSet(S)
  <2>1. S \in SUBSET (0..n) /\ S \in SUBSET Int /\ 0 \in S
    BY <1>4
  <2>2. IsFiniteSet(0..n)
    BY FS_Interval
  <2> QED BY <2>1, <2>2, FS_Subset
<1>6. Admitted = Max(S)
  BY <1>3, <1>4 DEF Admitted
<1>7. Admitted \in S /\ \A x \in S : Admitted >= x
  BY <1>5, <1>6, FiniteExtremes
<1>8. First(Admitted) = (k + 1)..(k + Admitted)
  <2>1. PICK a \in 0..n : a = Admitted
    BY <1>5, <1>7
  <2>2. ASSUME NEW x \in (k + 1)..(k + a) PROVE x \in First(a)
    <3>1. x - k \in 1..a /\ x - k \in 1..n /\ k + (x - k) = x
      BY <1>1
    <3> QED BY <1>3, <3>1 DEF First
  <2>3. First(a) \subseteq (k + 1)..(k + a)
    BY <1>1, <1>3, <2>1 DEF First
  <2> QED BY <2>1, <2>2, <2>3
<1>9. ASSUME waiting # <<>>, DOMAIN running = {} PROVE Admitted # 0
  <2>1. 1 \in 0..n /\ n # 0
    BY <1>3, <1>9
  <2>2. PICK v : v = [i \in DOMAIN requests |-> requests[i].prompt_len]
    OBVIOUS
  <2>3. First(1) = {k + 1} /\ k + 1 \in DOMAIN requests
    BY <1>1, <1>2, <1>3, <2>1 DEF First
  <2>4. v[k + 1] \in Nat /\ v[k + 1] <= max_token_budget
    BY <2>2, <2>3, RequestFacts DEF PromptsFit, GateTypes
  <2>5. PromptTokens({}) = 0
    BY SumOfNothing DEF PromptTokens
  <2>6. SumFunctionOnSet(v, {k + 1}) = v[k + 1]
    <3>1. IsFiniteSet({k + 1}) /\ \A x \in {k + 1} : v[x] \in Nat
      BY <2>4, FS_Singleton
    <3>2. {k + 1} \ {k + 1} = {} /\ k + 1 \in {k + 1}
      OBVIOUS
    <3>3. SumFunctionOnSet(v, {k + 1}) = v[k + 1] + SumFunctionOnSet(v, {k + 1} \ {k + 1})
      BY <3>1, <3>2, SumWithout
    <3>4. SumFunctionOnSet(v, {k + 1} \ {k + 1}) = 0
      BY <3>2, SumOfNothing
    <3> QED BY ONLY <2>4, <3>3, <3>4
  <2>7. PromptTokens(First(1)) <= max_token_budget /\ PromptTokens(First(1)) \in Nat
    BY <2>2, <2>3, <2>4, <2>6 DEF PromptTokens
  <2>8. Cardinality(DOMAIN running) = 0
    BY <1>9, FS_EmptySet
  <2>9. Admissible(1)
    BY <1>9, <2>5, <2>7, <2>8, GateAssumption DEF Admissible, WithinBudget
  <2>10. 1 \in S
    BY <1>4, <2>1, <2>9
  <2> QED BY <1>5, <1>7, <2>10
<1>10. waiting = <<>> <=> k = Len(requests)
  <2>1. waiting = <<>> <=> n = 0
    BY ONLY <1>3
  <2> QED BY ONLY <1>1, <1>2, <2>1
<1> QED BY <1>2, <1>3, <1>5, <1>7, <1>8, <1>9, <1>10

(* A round takes a token from every request of the batch, or completes it, *)
(* and the batch is not empty.                                             *)
LEMMA RoundTakesTokens ==
  ASSUME PromptsFit, GateInv, NEW k \in 0..Len(requests), Queued(k), SimulationRound
  PROVE  \E l \in 0..Len(requests) : Queued(l)'
<1>1. /\ GateTypes /\ Len(requests) \in Nat /\ DOMAIN requests = 1..Len(requests)
      /\ requests' = requests /\ rounds \in Nat /\ rounds' = rounds + 1
      /\ k \in Nat /\ k <= Len(requests)
  BY RequestFacts DEF GateInv, GateTypes, SimulationRound
<1>2. /\ waiting = [i \in 1..(Len(requests) - k) |-> k + i]
      /\ DOMAIN running \cup completed = 1..k
      /\ \A i \in DOMAIN running : running[i] \in Nat \ {0}
      /\ rounds + SumFunction(TokensLeft(k)) <= SumFunction(Tokens)
  BY DEF Queued
<1>3. PICK a \in 0..(Len(requests) - k) : a = Admitted
  BY <1>1, SomeAreAdmitted
<1>4. First(Admitted) = (k + 1)..(k + a)
  BY <1>1, <1>3, SomeAreAdmitted
<1>5. PICK l \in 0..Len(requests) : l = k + a
  BY ONLY <1>1, <1>3
<1>6. waiting' = [i \in 1..(Len(requests) - l) |-> l + i]
  <2>1. waiting' = SubSeq(waiting, a + 1, Len(waiting))
    BY <1>3 DEF SimulationRound
  <2>2. PICK n \in Nat : n = Len(requests) - k
    <3>1. Len(requests) - k \in Nat
      BY ONLY <1>1
    <3> QED BY ONLY <3>1
  <2>3. waiting \in Seq(Nat) /\ Len(waiting) = n /\ \A i \in 1..n : waiting[i] = k + i
    BY ONLY <1>1, <1>2, <2>2
  <2>4. /\ waiting' \in Seq(Nat) /\ Len(waiting') = n - a
        /\ \A i \in 1..(n - a) : waiting'[i] = waiting[a + i]
    <3>1. a \in 0..n
      BY ONLY <1>1, <1>3, <2>2
    <3>2. waiting' = SubSeq(waiting, a + 1, n)
      BY ONLY <2>1, <2>3
    <3> QED BY ONLY <2>3, <3>1, <3>2
  <2>5. n - a = Len(requests) - l
    BY ONLY <1>1, <1>3, <1>5, <2>2
  <2>6. \A i \in 1..(n - a) : a + i \in 1..n /\ k + (a + i) = l + i
    BY ONLY <1>1, <1>3, <1>5, <2>2
  <2>7. waiting' = [i \in 1..(n - a) |-> waiting'[i]]
    BY ONLY <2>4
  <2> QED BY ONLY <2>3, <2>4, <2>5, <2>6, <2>7
<1>7. PICK batch : batch = DOMAIN running \cup (k + 1)..(k + a)
  OBVIOUS
<1>8. DOMAIN Decoded = batch /\ batch \subseteq 1..l
  BY <1>1, <1>2, <1>4, <1>5, <1>7 DEF Decoded
<1>9. ASSUME NEW i \in batch
      PROVE  /\ Decoded[i] \in Int
             /\ Decoded[i] + 1 <= TokensLeft(k)[i] /\ TokensLeft(k)[i] \in Nat \ {0}
             /\ i \in DOMAIN requests
  <2>1. i \in DOMAIN requests /\ TokensLeft(k)[i] \in Nat
    BY <1>1, <1>5, <1>8, TokensLeftAreCounted
  <2>2. /\ Decoded[i] = (IF i \in DOMAIN running THEN running[i]
                                                 ELSE requests[i].gen_len) - 1
        /\ TokensLeft(k)[i] = IF i > k THEN Tokens[i]
                              ELSE IF i \in DOMAIN running THEN running[i] ELSE 0
    BY <1>4, <1>7, <2>1 DEF Decoded, TokensLeft
  <2>3. CASE i \in DOMAIN running
    <3>1. i \in 1..k /\ running[i] \in Nat \ {0}
      BY <1>2, <2>3
    <3> QED BY <1>1, <2>1, <2>2, <2>3, <3>1
  <2>4. CASE i \notin DOMAIN running
    <3>1. i \in (k + 1)..(k + a) /\ i > k
      BY <1>1, <1>7, <2>4
    <3>2. /\ Tokens[i] \in Nat \ {0} /\ Tokens[i] >= requests[i].gen_len
          /\ requests[i].gen_len \in Nat
      BY <1>1, <2>1, TokensAreCounted, RequestFacts
    <3> QED BY ONLY <2>1, <2>2, <2>4, <3>1, <3>2
  <2> QED BY <2>3, <2>4
<1>10. /\ DOMAIN running' = still_running /\ still_running \subseteq batch
       /\ \A i \in DOMAIN running' : running'[i] = Decoded[i] /\ running'[i] \in Nat \ {0}
       /\ \A i \in batch : i \in DOMAIN running' \/ (i \in completed' /\ ~(Decoded[i] > 0))
       /\ completed' = completed \cup (batch \ still_running)
  <2>1. /\ running' = [i \in still_running |-> Decoded[i]]
        /\ completed' = completed \cup (batch \ still_running)
    BY <1>8 DEF SimulationRound
  <2>2. still_running = {i \in batch : Decoded[i] > 0}
    BY <1>8 DEF still_running
  <2>3. \A i \in still_running : Decoded[i] \in Nat \ {0}
    <3>1. \A i \in still_running : i \in batch /\ Decoded[i] > 0
      BY ONLY <2>2
    <3>2. \A i \in still_running : Decoded[i] \in Int
      BY <1>9, <3>1
    <3> QED BY ONLY <3>1, <3>2
  <2> QED BY ONLY <2>1, <2>2, <2>3
<1>11. DOMAIN running' \cup completed' = 1..l
  <2>1. DOMAIN running' \cup completed' = batch \cup completed
    BY <1>10
  <2>2. (1..k) \cup (k + 1)..(k + a) = 1..l
    BY <1>1, <1>3, <1>5
  <2> QED BY <1>2, <1>7, <2>1, <2>2
<1>12. PICK v : v = TokensLeft(k)
  OBVIOUS
<1>13. PICK w : w = [i \in DOMAIN requests |->
                       IF i > l THEN Tokens[i]
                       ELSE IF i \in DOMAIN running' THEN running'[i] ELSE 0]
  OBVIOUS
<1>14. TokensLeft(l)' = w /\ Tokens' = Tokens
  BY <1>1, <1>13 DEF TokensLeft, Tokens
<1>15. ASSUME NEW i \in DOMAIN requests
       PROVE  /\ v[i] \in Nat /\ w[i] \in Nat /\ w[i] <= v[i]
              /\ i \in batch => w[i] + 1 <= v[i]
  <2>1. /\ v[i] = IF i > k THEN Tokens[i]
                  ELSE IF i \in DOMAIN running THEN running[i] ELSE 0
        /\ w[i] = IF i > l THEN Tokens[i]
                  ELSE IF i \in DOMAIN running' THEN running'[i] ELSE 0
        /\ Tokens[i] \in Nat /\ v[i] \in Nat
    BY <1>1, <1>12, <1>13, TokensAreCounted, TokensLeftAreCounted DEF TokensLeft
  <2>2. CASE i \in batch
    <3>1. /\ Decoded[i] \in Int /\ Decoded[i] + 1 <= v[i] /\ v[i] \in Nat \ {0}
          /\ ~(i > l)
      BY <1>1, <1>8, <1>9, <1>12, <2>2
    <3>2. CASE i \in DOMAIN running'
      BY <1>10, <2>1, <3>1, <3>2
    <3>3. CASE i \notin DOMAIN running'
      BY <2>1, <3>1, <3>3
    <3> QED BY <3>2, <3>3
  <2>3. CASE i \notin batch
    <3>1. i \notin DOMAIN running /\ i \notin DOMAIN running' /\ i \notin (k + 1)..(k + a)
      BY <1>7, <1>10, <2>3
    <3>2. i > k => i > l
      BY <1>1, <1>3, <1>5, <3>1
    <3> QED BY <1>1, <1>5, <2>1, <2>3, <3>1, <3>2
  <2> QED BY <2>2, <2>3
<1>16. PICK p \in batch : TRUE
  <2>1. waiting # <<>> \/ DOMAIN running # {}
    BY DEF SimulationRound
  <2>2. CASE DOMAIN running = {}
    <3>1. a # 0
      BY <1>1, <1>3, <2>1, <2>2, SomeAreAdmitted
    <3>2. k + 1 \in (k + 1)..(k + a)
      BY ONLY <1>1, <1>3, <3>1
    <3> QED BY <1>7, <3>2
  <2>3. CASE DOMAIN running # {}
    BY <1>7, <2>3
  <2> QED BY <2>2, <2>3
<1>17. SumFunctionOnSet(w, DOMAIN requests) + 1 <= SumFunctionOnSet(v, DOMAIN requests)
  BY <1>1, <1>9, <1>15, RequestFacts, SumOfLess
<1>18. rounds' + SumFunction(w) <= SumFunction(Tokens)
  <2>1. PICK s, t, u : /\ s = SumFunction(w) /\ t = SumFunction(v) /\ u = SumFunction(Tokens)
    OBVIOUS
  <2>2. s \in Nat /\ t \in Nat /\ u \in Nat
    <3>1. s \in Nat
      BY <1>1, <1>13, <1>15, <2>1, RequestFacts, SumIsNat DEF SumFunction
    <3> QED BY <1>1, <1>12, <2>1, <3>1, TokensLeftAreCounted
  <2>3. s + 1 <= t
    <3>1. DOMAIN w = DOMAIN requests /\ DOMAIN v = DOMAIN requests
      BY <1>12, <1>13 DEF TokensLeft
    <3> QED BY <1>17, <2>1, <3>1 DEF SumFunction
  <2>4. rounds + t <= u
    BY <1>2, <1>12, <2>1
  <2> QED BY ONLY <1>1, <2>1, <2>2, <2>3, <2>4
<1>19. Queued(l)'
  BY <1>1, <1>6, <1>10, <1>11, <1>14, <1>18 DEF Queued
<1> QED BY <1>19

(* What a benchmark that is measured adds to the verdict.                  *)
LEMMA VerifyJudges ==
  ASSUME GateTypes, Judged, exit = Open, bench \in 1..3, NEW value \in Values, Verify(value)
  PROVE  GateTypes' /\ Judged'
<1>1. /\ bench' = bench + 1 /\ baselines' = baselines /\ requests' = requests
      /\ rounds' = rounds /\ actual' = Append(actual, value)
      /\ all_passed' = (all_passed /\ Passes(bench, value))
      /\ exit' = IF bench = 3 THEN Exit(all_passed') ELSE Open
      /\ ~Raises(bench)
  BY DEF Verify, simulation
<1>2. /\ actual \in Seq(Nat) /\ Len(actual) = bench - 1 /\ value \in Nat
      /\ bench \in {1, 2, 3}
  BY GateAssumption DEF GateTypes, Judged
<1>3. /\ actual' \in Seq(Nat) /\ DOMAIN actual' = DOMAIN actual \cup {bench}
      /\ Len(actual') = bench /\ actual'[bench] = value
      /\ \A b \in DOMAIN actual : actual'[b] = actual[b]
      /\ bench \notin DOMAIN actual
  BY ONLY <1>1, <1>2
<1>4. ASSUME NEW b \in DOMAIN actual PROVE Worse(b)' <=> Worse(b)
  <2>1. actual'[b] = actual[b] /\ baselines' = baselines
    BY <1>1, <1>3
  <2> QED BY <2>1 DEF Worse
<1> PICK a \in {1, 2, 3} : a = bench
  BY <1>2
<1>5. Worse(a)' <=> ~Passes(bench, value)
  <2>1. CASE Metrics[bench] \notin DOMAIN baselines
    BY <1>1, <2>1 DEF Worse, Passes
  <2>2. CASE Metrics[bench] \in DOMAIN baselines
    <3>1. PICK target : target = baselines[Metrics[bench]]
      OBVIOUS
    <3>2. target \in Nat /\ threshold_pct \in Nat
      BY <2>2, <3>1, GateAssumption DEF GateTypes, Range
    <3>3. Passes(bench, value) <=>
            IF bench = 3 THEN (value - target) * 100 >= -threshold_pct * target
                         ELSE (value - target) * 100 <= threshold_pct * target
      BY <2>2, <3>1 DEF Passes, lower_is_better
    <3>4. Worse(a)' <=>
            IF bench = 3 THEN (target - value) * 100 > threshold_pct * target
                         ELSE (value - target) * 100 > threshold_pct * target
      <4>1. /\ Metrics[a] \in DOMAIN baselines' /\ baselines'[Metrics[a]] = target
            /\ actual'[a] = value
        BY <1>1, <1>3, <2>2, <3>1
      <4>2. Worse(a)' <=>
              IF a = 3 THEN (target - value) * 100 > threshold_pct * target
                       ELSE (value - target) * 100 > threshold_pct * target
        BY <4>1 DEF Worse
      <4> QED BY <4>2
    <3>5. PICK t \in Nat : t = threshold_pct * target
      BY ONLY <3>2
    <3>6. -threshold_pct * target = -t
      BY ONLY <3>2, <3>5
    <3> QED BY ONLY <1>2, <3>2, <3>3, <3>4, <3>5, <3>6
  <2> QED BY <2>1, <2>2
<1>6. all_passed' <=> (\A b \in DOMAIN actual : ~Worse(b)') /\ ~Worse(a)'
  BY <1>1, <1>4, <1>5 DEF Judged
<1>7. all_passed' <=> (\A b \in DOMAIN actual : ~Worse(b))'
  BY <1>3, <1>6
<1>8. exit' \in {Open, 0, 1} /\ (exit' # Open => bench' = 4)
      /\ (exit' = 0 => all_passed') /\ (exit' = 1 => ~all_passed')
  BY <1>1, <1>2 DEF Exit, Open
<1>9. GateTypes'
  BY <1>1, <1>2, <1>3, <1>8 DEF GateTypes
<1> QED BY <1>1, <1>2, <1>3, <1>7, <1>8, <1>9 DEF Judged, Open

LEMMA SimulationStays ==
  ASSUME NEW k \in Nat, Queued(k), UNCHANGED <<requests, simulation>>
  PROVE  Queued(k)'
<1>1. /\ requests' = requests /\ waiting' = waiting /\ running' = running
      /\ completed' = completed /\ rounds' = rounds
  BY DEF simulation
<1>2. Tokens' = Tokens
  BY <1>1 DEF Tokens
<1>3. TokensLeft(k)' = TokensLeft(k)
  BY <1>1, <1>2 DEF TokensLeft
<1> QED BY <1>1, <1>2, <1>3 DEF Queued

(* The queue of the simulation starts as all requests.                     *)
LEMMA AllAreQueued ==
  /\ GateTypes /\ DOMAIN running = {} /\ completed = {} /\ rounds = 0
  /\ waiting = [i \in DOMAIN requests |-> i]
  => Queued(0)
<1> SUFFICES ASSUME GateTypes, DOMAIN running = {}, completed = {}, rounds = 0,
                    waiting = [i \in DOMAIN requests |-> i]
             PROVE  Queued(0)
  OBVIOUS
<1>1. /\ Len(requests) \in Nat /\ DOMAIN requests = 1..Len(requests)
      /\ Len(requests) - 0 = Len(requests) /\ \A i \in DOMAIN requests : i > 0 /\ 0 + i = i
  BY RequestFacts
<1>2. waiting = [i \in 1..(Len(requests) - 0) |-> 0 + i]
  BY <1>1
<1>3. TokensLeft(0) = Tokens
  BY <1>1 DEF TokensLeft, Tokens
<1>4. SumFunction(Tokens) \in Nat
  <2>1. DOMAIN Tokens = DOMAIN requests /\ \A i \in DOMAIN requests : Tokens[i] \in Nat
    BY TokensAreCounted DEF Tokens
  <2> QED BY <2>1, RequestFacts, SumIsNat DEF SumFunction
<1>5. rounds + SumFunction(TokensLeft(0)) <= SumFunction(Tokens)
  <2>1. PICK s \in Nat : s = SumFunction(Tokens)
    BY <1>4
  <2> QED BY <1>3, <2>1
<1>6. DOMAIN running \cup completed = 1..0
  OBVIOUS
<1> QED BY <1>2, <1>5, <1>6 DEF Queued

LEMMA GateInitHolds == ASSUME GateInit PROVE GateInv
<1>1. /\ baselines = <<>> /\ requests = <<>> /\ bench = 0
      /\ waiting = <<>> /\ running = <<>> /\ completed = {} /\ rounds = 0
      /\ actual = <<>> /\ all_passed = TRUE /\ exit = Open
  BY DEF GateInit
<1>2. GateTypes
  BY <1>1 DEF GateTypes
<1>3. Judged
  BY <1>1 DEF Judged, Open
<1>4. Queued(0)
  <2>1. DOMAIN running = {} /\ waiting = [i \in DOMAIN requests |-> i]
    BY <1>1
  <2> QED BY <1>1, <1>2, <2>1, AllAreQueued
<1>5. 0 \in 0..Len(requests)
  BY <1>1
<1> QED BY <1>1, <1>2, <1>3, <1>4, <1>5 DEF GateInv

LEMMA GateLoads ==
  ASSUME GateInv, NEW content \in Baselines, NEW work \in Workloads, Load(content, work)
  PROVE  GateInv'
<1>1. /\ bench = 0 /\ exit = Open /\ baselines' = content /\ requests' = work
      /\ waiting' = [i \in DOMAIN work |-> i] /\ bench' = 1
      /\ running' = running /\ completed' = completed /\ rounds' = rounds
      /\ actual' = actual /\ all_passed' = all_passed /\ exit' = exit
  BY DEF Load
<1>2. /\ GateTypes /\ Judged /\ Len(actual) = 0
      /\ running = <<>> /\ completed = {} /\ rounds = 0
  BY <1>1 DEF GateInv, Judged
<1>3. GateTypes'
  BY <1>1, <1>2 DEF GateTypes
<1>4. Judged'
  <2>1. DOMAIN actual = {}
    BY <1>2 DEF GateTypes
  <2>2. all_passed
    BY <1>2, <2>1 DEF Judged
  <2>3. \A b \in DOMAIN actual' : (~Worse(b))'
    BY <1>1, <2>1
  <2> QED BY <1>1, <1>2, <2>2, <2>3 DEF Judged, Open
<1>5. Queued(0)'
  <2>1. (DOMAIN running)' = {} /\ waiting' = [i \in DOMAIN requests' |-> i]
    BY <1>1, <1>2
  <2>2. (/\ GateTypes /\ DOMAIN running = {} /\ completed = {} /\ rounds = 0
         /\ waiting = [i \in DOMAIN requests |-> i]
         => Queued(0))'
    BY AllAreQueued, PTL
  <2> QED BY <1>1, <1>2, <1>3, <2>1, <2>2
<1>6. (0 \in 0..Len(requests))'
  BY <1>3, RequestFacts
<1> QED BY <1>1, <1>3, <1>4, <1>5, <1>6 DEF GateInv

LEMMA GateMeasures ==
  ASSUME GateInv, NEW value \in Values, MeasureLatency(value) \/ MeasureSimulation(value)
  PROVE  GateInv'
<1>1. exit = Open /\ bench \in 1..3 /\ Verify(value)
  BY DEF MeasureLatency, MeasureSimulation, SimulationIsOver
<1>2. GateTypes' /\ Judged'
  BY <1>1, VerifyJudges DEF GateInv
<1>3. UNCHANGED <<requests, simulation>> /\ bench' = bench + 1
  BY <1>1 DEF Verify
<1>4. bench' # 0
  BY <1>1, <1>3
<1>5. bench' = 4 => waiting' = <<>> /\ DOMAIN running' = {}
  <2>1. bench' = 4 => bench = 3
    BY <1>1, <1>3
  <2> QED BY <1>1, <1>3, <2>1 DEF MeasureLatency, MeasureSimulation, SimulationIsOver,
                                 simulation
<1>6. PICK k \in 0..Len(requests) : Queued(k)
  BY DEF GateInv
<1>7. k \in Nat /\ Queued(k)'
  BY <1>3, <1>6, SimulationStays
<1> QED BY <1>2, <1>3, <1>4, <1>5, <1>6, <1>7 DEF GateInv

LEMMA GateAborts ==
  ASSUME GateInv, BenchmarkRaises \/ SimulationRaises
  PROVE  GateInv'
<1>1. /\ bench \in 0..3 /\ exit' = 1 /\ UNCHANGED <<requests, simulation>>
      /\ bench' = bench /\ baselines' = baselines /\ requests' = requests
      /\ actual' = actual /\ all_passed' = all_passed /\ rounds' = rounds
      /\ waiting' = waiting /\ running' = running /\ completed' = completed
  BY DEF GateInv, GateTypes, BenchmarkRaises, SimulationRaises, SimulationIsOver, Abort,
         simulation
<1>2. GateTypes'
  BY <1>1 DEF GateInv, GateTypes
<1>3. \A b \in DOMAIN actual : Worse(b)' <=> Worse(b)
  BY <1>1 DEF Worse
<1>4. Judged'
  <2>1. (\A b \in DOMAIN actual : ~Worse(b))' <=> \A b \in DOMAIN actual : ~Worse(b)
    BY <1>1, <1>3
  <2> QED BY <1>1, <2>1 DEF GateInv, Judged
<1>5. PICK k \in 0..Len(requests) : Queued(k)
  BY DEF GateInv
<1>6. k \in Nat /\ Queued(k)'
  BY <1>1, <1>5, SimulationStays
<1> QED BY <1>1, <1>2, <1>4, <1>5, <1>6 DEF GateInv

LEMMA GateRounds ==
  ASSUME PromptsFit, GateInv, SimulationRound
  PROVE  GateInv'
<1>1. /\ bench = 3 /\ bench' = bench /\ baselines' = baselines /\ requests' = requests
      /\ actual' = actual /\ all_passed' = all_passed /\ exit' = exit
      /\ rounds' = rounds + 1
  BY DEF SimulationRound
<1>2. GateTypes'
  BY <1>1 DEF GateInv, GateTypes
<1>3. \A b \in DOMAIN actual : Worse(b)' <=> Worse(b)
  BY <1>1 DEF Worse
<1>4. Judged'
  <2>1. (\A b \in DOMAIN actual : ~Worse(b))' <=> \A b \in DOMAIN actual : ~Worse(b)
    BY <1>1, <1>3
  <2> QED BY <1>1, <2>1 DEF GateInv, Judged
<1>5. PICK k \in 0..Len(requests) : Queued(k)
  BY DEF GateInv
<1>6. \E l \in 0..Len(requests) : Queued(l)'
  BY <1>5, RoundTakesTokens
<1> QED BY <1>1, <1>2, <1>4, <1>6 DEF GateInv

LEMMA GateHonest == ASSUME PromptsFit, GateInv PROVE GateEndsHonestly
<1>1. PICK k \in 0..Len(requests) : Queued(k)
  BY DEF GateInv
<1>2. /\ GateTypes /\ Judged /\ rounds \in Nat
      /\ Len(requests) \in Nat /\ DOMAIN requests = 1..Len(requests)
  BY RequestFacts DEF GateInv, GateTypes
<1>3. rounds <= SumFunction(Tokens)
  <2>1. PICK s \in Nat, u \in Nat : s = SumFunction(TokensLeft(k)) /\ u = SumFunction(Tokens)
    BY <1>1, <1>2, TokensLeftAreCounted
  <2>2. rounds + s <= u
    BY <1>1, <2>1 DEF Queued
  <2> QED BY <1>2, <2>1, <2>2
<1>4. bench = 4 => completed = DOMAIN requests /\ DOMAIN actual = 1..3 /\ Len(actual) = 3
  <2>1. SUFFICES ASSUME bench = 4
                 PROVE completed = DOMAIN requests /\ DOMAIN actual = 1..3 /\ Len(actual) = 3
    OBVIOUS
  <2>2. waiting = <<>> /\ DOMAIN running = {}
    BY <2>1 DEF GateInv
  <2>3. k = Len(requests)
    BY <1>1, <1>2, <2>2, SomeAreAdmitted
  <2>4. completed = 1..k
    BY <1>1, <2>2 DEF Queued
  <2>5. Len(actual) = 3 /\ DOMAIN actual = 1..3
    BY <1>2, <2>1 DEF GateTypes, Judged
  <2> QED BY <1>2, <2>3, <2>4, <2>5
<1>5. all_passed <=> \A b \in DOMAIN actual : ~Worse(b)
  BY <1>2 DEF Judged
<1>6. exit = 0 => bench = 4 /\ all_passed
  BY <1>2 DEF Judged
<1>7. exit = 1 /\ bench = 4 => ~all_passed
  BY <1>2 DEF Judged
<1> QED BY <1>3, <1>4, <1>5, <1>6, <1>7 DEF GateEndsHonestly, Tokens

(* The gate of the continuous integration: the rounds of the simulation    *)
(* are bounded by the tokens, exit code 0 means that all three benchmarks  *)
(* ran and passed, with every request completed, and a comparison that     *)
(* failed is one of a metric that is worse than the threshold allows.  The *)
(* hypothesis is that of the run: no prompt exceeds the token budget       *)
(* (run_continuous_batch_benchmark makes prompts of 128 to 191 tokens for  *)
(* a budget of 2048).                                                      *)
THEOREM GateIsHonest == ASSUME PromptsFit PROVE GateSpec => []GateEndsHonestly
<1>1. GateInit => GateInv
  BY GateInitHolds
<1>2. GateInv /\ [GateNext]_gateVars => GateInv'
  <2> SUFFICES ASSUME GateInv, [GateNext]_gateVars PROVE GateInv'
    OBVIOUS
  <2>1. ASSUME NEW content \in Baselines, NEW work \in Workloads, Load(content, work)
        PROVE GateInv'
    BY <2>1, GateLoads
  <2>2. ASSUME NEW value \in Values, MeasureLatency(value) \/ MeasureSimulation(value)
        PROVE GateInv'
    BY <2>2, GateMeasures
  <2>3. CASE BenchmarkRaises \/ SimulationRaises
    BY <2>3, GateAborts
  <2>4. CASE SimulationRound
    BY <2>4, GateRounds
  <2>5. CASE UNCHANGED gateVars
    <3>1. /\ bench' = bench /\ baselines' = baselines /\ requests' = requests
          /\ actual' = actual /\ all_passed' = all_passed /\ exit' = exit
          /\ waiting' = waiting /\ running' = running /\ completed' = completed
          /\ rounds' = rounds
      BY <2>5 DEF gateVars
    <3>2. Tokens' = Tokens /\ \A b \in DOMAIN actual : Worse(b)' <=> Worse(b)
      BY <3>1 DEF Tokens, Worse
    <3>3. PICK k \in 0..Len(requests) : Queued(k)
      BY DEF GateInv
    <3>4. k \in Nat /\ Queued(k)'
      BY <3>1, <3>3, SimulationStays DEF simulation
    <3>5. Judged' /\ GateTypes'
      <4>1. (\A b \in DOMAIN actual : ~Worse(b))' <=> \A b \in DOMAIN actual : ~Worse(b)
        BY <3>1, <3>2
      <4> QED BY <3>1, <4>1 DEF GateInv, Judged, GateTypes
    <3> QED BY <3>1, <3>3, <3>4, <3>5 DEF GateInv
  <2> QED BY <2>1, <2>2, <2>3, <2>4, <2>5 DEF GateNext
<1>3. GateInv => GateEndsHonestly
  BY GateHonest
<1> QED BY <1>1, <1>2, <1>3, PTL DEF GateSpec
=============================================================================
