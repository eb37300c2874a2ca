-------------------------- MODULE KernelDispatcher --------------------------
(***************************************************************************)
(* cudaforge::autotuner::KernelDispatcher                                  *)
(* (csrc/include/cudaforge/autotuner/kernel_dispatcher.h).  A thread that  *)
(* dispatches looks the key up under cache_mutex_, on a miss benchmarks    *)
(* every candidate it was given WITHOUT the mutex, stores the winner under *)
(* the mutex, and launches candidates.at(winner) without it.  Several      *)
(* threads may therefore tune one key at the same time, and clear_cache    *)
(* may come in between.                                                    *)
(*                                                                         *)
(* A measurement is nondeterministic: threads share the device, and often  *)
(* the stream.  Averages are below 1e9 ms (eleven days), the initial value *)
(* of best_latency_ms, so the first candidate measured always replaces it. *)
(* The std::functions are the callers' code and may throw.                 *)
(***************************************************************************)
EXTENDS Naturals, FiniteSets

CONSTANTS
  Threads,     \* threads that dispatch
  Keys,        \* KernelKeys
  Variants,    \* names of candidate kernels
  NoVariant,   \* the empty name
  Latencies,   \* averages that a benchmark can return, in ms
  Infinite     \* initial value of best_latency_ms, 1e9f

ASSUME DispatcherAssumption ==
  /\ Keys # {} /\ NoVariant \notin Variants
  /\ Infinite \in Nat
  /\ Latencies \subseteq 0 .. Infinite - 1

VARIABLES
  cache,      \* cache_
  call,       \* where each thread is in dispatch_or_autotune
  measured,   \* history: what the thread's benchmark measured so far
  tuned       \* history: tunings stored by each thread since clear_cache

vars == <<cache, call, measured, tuned>>

Ready == [pc |-> "ready", key |-> CHOOSE k \in Keys : TRUE, candidates |-> {},
          winner |-> NoVariant, best |-> Infinite]

Nothing == [v \in {} |-> 0]

Init ==
  /\ cache = [k \in Keys |-> NoVariant]
  /\ call = [t \in Threads |-> Ready]
  /\ measured = [t \in Threads |-> Nothing]
  /\ tuned = [t \in Threads |-> [k \in Keys |-> 0]]

-----------------------------------------------------------------------------
(* The lookup, one critical section.  A key that is not cached is tuned,   *)
(* unless there is nothing to choose from: then autotune_candidates throws.*)
(* (another winner is sought if the cached one is not offered) *)
AfterLookupRetuning(winner, candidates) ==
  CASE winner \in candidates -> "dispatch"
    [] winner \notin candidates /\ candidates = {} -> "threw"
    [] OTHER -> "tune"

AfterLookup(winner, candidates) ==
  CASE winner # NoVariant -> "dispatch"
    [] winner = NoVariant /\ candidates = {} -> "threw"
    [] OTHER -> "tune"

Lookup(t, k, candidates) ==
  /\ call[t].pc = "ready"
  /\ call' = [call EXCEPT ![t] =
       [pc |-> AfterLookup(cache[k], candidates), key |-> k,
        candidates |-> candidates, winner |-> cache[k], best |-> Infinite]]
  /\ measured' = [measured EXCEPT ![t] = Nothing]
  /\ UNCHANGED <<cache, tuned>>

(* Candidate v of the loop is run and timed; the map has no order. *)
IsFaster(latency, best) == latency < best

(* (best_latency_ms not updated) *)
MeasureAgainstFirst(t, v, latency) ==
  /\ call[t].pc = "tune"
  /\ v \in call[t].candidates \ DOMAIN measured[t]
  /\ measured' = [measured EXCEPT ![t] =
       [w \in DOMAIN @ \cup {v} |-> IF w = v THEN latency ELSE @[w]]]
  /\ call' = IF IsFaster(latency, call[t].best)
             THEN [call EXCEPT ![t].winner = v]
             ELSE call
  /\ UNCHANGED <<cache, tuned>>

Measure(t, v, latency) ==
  /\ call[t].pc = "tune"
  /\ v \in call[t].candidates \ DOMAIN measured[t]
  /\ measured' = [measured EXCEPT ![t] =
       [w \in DOMAIN @ \cup {v} |-> IF w = v THEN latency ELSE @[w]]]
  /\ call' = IF IsFaster(latency, call[t].best)
             THEN [call EXCEPT ![t] = [@ EXCEPT !.winner = v, !.best = latency]]
             ELSE call
  /\ UNCHANGED <<cache, tuned>>

(* A candidate throws while it is benchmarked: nothing is stored. *)
MeasureThrows(t) ==
  /\ call[t].pc = "tune"
  /\ DOMAIN measured[t] # call[t].candidates
  /\ call' = [call EXCEPT ![t] = [@ EXCEPT !.pc = "threw"]]
  /\ UNCHANGED <<cache, measured, tuned>>

OneMore(count, k) == [count EXCEPT ![k] = @ + 1]

(* The winner is stored, in a second critical section. *)
Store(t) ==
  /\ call[t].pc = "tune"
  /\ DOMAIN measured[t] = call[t].candidates
  /\ cache' = [cache EXCEPT ![call[t].key] = call[t].winner]
  /\ call' = [call EXCEPT ![t] = [@ EXCEPT !.pc = "dispatch"]]
  /\ tuned' = [tuned EXCEPT ![t] = OneMore(@, call[t].key)]
  /\ UNCHANGED measured

(* candidates.at(winner_name)(stream) *)
Dispatch(t) ==
  /\ call[t].pc = "dispatch"
  /\ call' = [call EXCEPT ![t] = [@ EXCEPT !.pc =
       IF call[t].winner \in call[t].candidates THEN "launched" ELSE "threw"]]
  /\ UNCHANGED <<cache, measured, tuned>>

Return(t) ==
  /\ call[t].pc \in {"launched", "threw"}
  /\ call' = [call EXCEPT ![t] = Ready]
  /\ measured' = [measured EXCEPT ![t] = Nothing]
  /\ UNCHANGED <<cache, tuned>>

clear_cache ==
  /\ cache' = [k \in Keys |-> NoVariant]
  /\ tuned' = [t \in Threads |-> [k \in Keys |-> 0]]
  /\ UNCHANGED <<call, measured>>

Next ==
  \/ \E t \in Threads :
       \/ \E k \in Keys, candidates \in SUBSET Variants :
            Lookup(t, k, candidates)
       \/ \E v \in Variants, latency \in Latencies : Measure(t, v, latency)
       \/ MeasureThrows(t)
       \/ Store(t)
       \/ Dispatch(t)
       \/ Return(t)
  \/ clear_cache

Spec == Init /\ [][Next]_vars

-----------------------------------------------------------------------------
(* Types; a call that is about to launch has a winner. *)
TypeOK ==
  /\ cache \in [Keys -> Variants \cup {NoVariant}]
  /\ call \in [Threads ->
       [pc : {"ready", "tune", "dispatch", "launched", "threw"},
        key : Keys, candidates : SUBSET Variants,
        winner : Variants \cup {NoVariant}, best : Latencies \cup {Infinite}]]
  /\ tuned \in [Threads -> [Keys -> Nat]]
  /\ \A t \in Threads :
       /\ DOMAIN measured[t] \subseteq call[t].candidates
       /\ call[t].pc \in {"dispatch", "launched"} => call[t].winner # NoVariant

(* autotune_candidates elects the fastest variant (kernel_dispatcher.h,    *)
(* lines 55-57) by its own measurements: what a thread launches after      *)
(* tuning was measured no slower than any other of its candidates, the     *)
(* order of the map notwithstanding.                                       *)
ElectsFastest ==
  \A t \in Threads :
    call[t].pc \in {"dispatch", "launched"} /\ DOMAIN measured[t] # {} =>
      /\ call[t].winner \in DOMAIN measured[t]
      /\ \A v \in DOMAIN measured[t] :
           measured[t][call[t].winner] <= measured[t][v]

(* The check and the tuning are not atomic, so threads may tune a key      *)
(* together; but a thread never tunes a key twice between two calls of     *)
(* clear_cache, whatever the others store over its winner.  Tuning runs    *)
(* every candidate 13 times: a cache that made threads tune again and      *)
(* again would cost more than it saves.                                    *)
OneTuningEach == \A t \in Threads, k \in Keys : tuned[t][k] <= 1

(* dispatch_or_autotune "dispatches the best cached kernel or benchmarks   *)
(* candidate functions" (line 56): a call that was offered a candidate     *)
(* launches one.  It does not when the cached winner comes from a caller   *)
(* that offered other candidates: candidates.at throws.                    *)
OfferedIsLaunched ==
  \A t \in Threads :
    call[t].pc = "dispatch" /\ call[t].candidates # {} =>
      call[t].winner \in call[t].candidates
=============================================================================
