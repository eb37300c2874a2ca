------------------------- MODULE ContinuousBatcher -------------------------
(***************************************************************************)
(* cudaforge::scheduler::ContinuousBatcher (csrc/src/scheduler/            *)
(* continuous_batcher.cpp): a priority queue of waiting requests, the      *)
(* running requests, a map from request id to request, and schedule_step,  *)
(* which builds one batch under a token budget and a sequence limit.       *)
(*                                                                         *)
(* Every operation takes mutex_ for its whole duration.  schedule_step is  *)
(* split at the iterations of its admission loop; pc # "idle" is           *)
(* "schedule_step holds mutex_", so no other operation comes between.      *)
(* Both containers hold distinct Request objects (a caller submits an      *)
(* object once, as engine.py and the tests do) and are sets here: the      *)
(* order of the vector running_requests_ decides nothing but which         *)
(* requests a too small budget would leave out, a free choice below.       *)
(*                                                                         *)
(* A definition under a comment in parentheses is a plausible slip: the    *)
(* variant of the one below it that a check must be able to tell apart.    *)
(***************************************************************************)
EXTENDS Integers, FiniteSets

CONSTANTS
  Reqs,              \* Request objects (the identities of the shared_ptrs)
  Ids,               \* request ids; two objects may carry the same id
  Id,                \* Request::id
  PromptLen,         \* prompt_tokens.size()
  MaxNew,            \* max_new_tokens
  Priority,          \* priority, higher first
  Arrival,           \* arrival_time, read when the object is constructed
  MaxNumSeqs,        \* max_num_seqs_
  MaxBatchedTokens,  \* max_num_batched_tokens_
  None               \* an id that request_map_ does not hold

ASSUME BatcherAssumption ==
  /\ None \notin Reqs
  /\ Id \in [Reqs -> Ids]
  /\ PromptLen \in [Reqs -> Nat]
  /\ MaxNew \in [Reqs -> Nat]
  /\ Priority \in [Reqs -> Int]
  /\ Arrival \in [Reqs -> Nat]
  /\ MaxNumSeqs \in Nat
  /\ MaxBatchedTokens \in Nat

VARIABLES
  state,             \* Request::state
  generated,         \* generated_tokens.size()
  waiting_queue,     \* waiting_queue_
  running_requests,  \* running_requests_
  request_map,       \* request_map_
  result,            \* the BatchStepResult being built, then the last one
  todo,              \* requests of that batch the caller has not executed yet
  pc                 \* "idle", or "admit" inside the loop of schedule_step

vars == <<state, generated, waiting_queue, running_requests, request_map,
          result, todo, pc>>

RequestState == {"WAITING", "RUNNING", "FINISHED", "PREEMPTED"}

BatchStepResult == [prefill : SUBSET Reqs, decode : SUBSET Reqs,
                    total : Nat, preempted : Nat]

EmptyResult == [prefill |-> {}, decode |-> {}, total |-> 0, preempted |-> 0]

Init ==
  /\ state = [r \in Reqs |-> "WAITING"]
  /\ generated = [r \in Reqs |-> 0]
  /\ waiting_queue = {}
  /\ running_requests = {}
  /\ request_map = [i \in Ids |-> None]
  /\ result = EmptyResult
  /\ todo = {}
  /\ pc = "idle"

-----------------------------------------------------------------------------
(* Request::is_finished *)
is_finished(r) == state[r] = "FINISHED" \/ generated[r] >= MaxNew[r]

(* RequestPriorityComparator: the priority, then first come first served. *)
Precedes(a, b) ==
  \/ Priority[a] > Priority[b]
  \/ Priority[a] = Priority[b] /\ Arrival[a] < Arrival[b]

(* (a queue that ignores the comparator) *)
AnyQueued(c) == c \in waiting_queue

(* c may be waiting_queue_.top(); equal keys come out in any order. *)
IsTop(c) == c \in waiting_queue /\ \A d \in waiting_queue : ~Precedes(d, c)

(* waiting_queue_.pop() when c is the top *)
Popped(c) == waiting_queue \ {c}

-----------------------------------------------------------------------------
(* An object no caller has submitted yet; once accepted its state is       *)
(* WAITING only while it is queued.                                        *)
Fresh(r) == state[r] = "WAITING" /\ r \notin waiting_queue

(* (no look-up before the insertion) *)
NeverKnown(r) == FALSE

(* "Request ID already exists" *)
Known(r) == request_map[Id[r]] # None

(* add_request; a rejected request (empty prompt, known id) changes        *)
(* nothing.                                                                *)
AddRequest(r) ==
  /\ pc = "idle"
  /\ Fresh(r)
  /\ PromptLen[r] > 0
  /\ ~Known(r)
  /\ state' = [state EXCEPT ![r] = "WAITING"]
  /\ request_map' = [request_map EXCEPT ![Id[r]] = r]
  /\ waiting_queue' = waiting_queue \cup {r}
  /\ UNCHANGED <<generated, running_requests, result, todo, pc>>

(* cancel_request: the queue keeps the object, to be skipped later. *)
CancelRequest(i) ==
  /\ pc = "idle"
  /\ request_map[i] # None
  /\ state' = [state EXCEPT ![request_map[i]] = "FINISHED"]
  /\ running_requests' = {r \in running_requests : Id[r] # i}
  /\ request_map' = [request_map EXCEPT ![i] = None]
  /\ UNCHANGED <<generated, waiting_queue, result, todo, pc>>

(* update_requests_state: marks requests, removes none. *)
UpdateRequestsState(finished_ids) ==
  /\ pc = "idle"
  /\ state' = [r \in Reqs |->
                 IF \E i \in finished_ids : request_map[i] = r
                 THEN "FINISHED" ELSE state[r]]
  /\ UNCHANGED <<generated, waiting_queue, running_requests, request_map,
                 result, todo, pc>>

-----------------------------------------------------------------------------
(* (no filter) *)
AllRunning == running_requests

(* schedule_step, part 1: the running requests that go on. *)
ActiveRunning == {r \in running_requests : ~is_finished(r) /\ state[r] = "RUNNING"}

StateAfterFilter ==
  [r \in Reqs |-> IF r \in running_requests \ ActiveRunning
                  THEN "FINISHED" ELSE state[r]]

(* (the map rebuilt from the running requests) *)
MapOfRunning == [i \in {Id[r] : r \in ActiveRunning} |-> request_map[i]]

MapAfterFilter ==
  [i \in Ids |-> IF \E r \in running_requests \ ActiveRunning : Id[r] = i
                 THEN None ELSE request_map[i]]

(* part 2: one decode token each for as many requests as the budget pays,  *)
(* all of them unless they are more than the budget.                       *)
DecodeChoices ==
  {D \in SUBSET ActiveRunning :
     \/ Cardinality(ActiveRunning) <= MaxBatchedTokens /\ D = ActiveRunning
     \/ /\ Cardinality(ActiveRunning) > MaxBatchedTokens
        /\ Cardinality(D) = MaxBatchedTokens}

(* preempt_requests(1), called when they are more: one request of lowest   *)
(* priority, maybe one just given a decode token, and the loop breaks.     *)
PreemptChoices ==
  IF Cardinality(ActiveRunning) <= MaxBatchedTokens
  THEN {{}}
  ELSE {{p} : p \in {q \in ActiveRunning :
                       \A r \in ActiveRunning : Priority[q] <= Priority[r]}}

BeginSchedule ==
  /\ pc = "idle"
  /\ \E decode \in DecodeChoices, preempted \in PreemptChoices :
       /\ state' = [r \in Reqs |-> IF r \in preempted THEN "PREEMPTED"
                                  ELSE StateAfterFilter[r]]
       /\ running_requests' = ActiveRunning \ preempted
       /\ waiting_queue' = waiting_queue \cup preempted
       /\ result' = [prefill |-> {}, decode |-> decode,
                     total |-> Cardinality(decode),
                     preempted |-> Cardinality(preempted)]
  /\ request_map' = MapAfterFilter
  /\ todo' = {}
  /\ pc' = "admit"
  /\ UNCHANGED generated

(* (the sequence limit off by one) *)
MayAdmitOneMore ==
  waiting_queue # {} /\ Cardinality(running_requests) <= MaxNumSeqs

(* part 3, the guard of the admission loop *)
MayAdmit == waiting_queue # {} /\ Cardinality(running_requests) < MaxNumSeqs

(* (the tokens already given ignored) *)
FitsAlone(c) == PromptLen[c] <= MaxBatchedTokens

Fits(c) == result.total + PromptLen[c] <= MaxBatchedTokens

SkipFinished(c) ==
  /\ pc = "admit" /\ MayAdmit /\ IsTop(c)
  /\ state[c] = "FINISHED"
  /\ waiting_queue' = Popped(c)
  /\ UNCHANGED <<state, generated, running_requests, request_map, result,
                 todo, pc>>

Admit(c) ==
  /\ pc = "admit" /\ MayAdmit /\ IsTop(c)
  /\ state[c] # "FINISHED"
  /\ Fits(c)
  /\ state' = [state EXCEPT ![c] = "RUNNING"]
  /\ waiting_queue' = Popped(c)
  /\ running_requests' = running_requests \cup {c}
  /\ result' = [result EXCEPT !.prefill = @ \cup {c},
                              !.total = @ + PromptLen[c]]
  /\ UNCHANGED <<generated, request_map, todo, pc>>

(* The first live candidate that does not fit is popped, pushed back and   *)
(* ends the loop; so does an empty queue or a full set of running          *)
(* requests.  The result goes to the caller.                               *)
Blocked(c) == MayAdmit /\ IsTop(c) /\ state[c] # "FINISHED" /\ ~Fits(c)

ReturnBatch ==
  /\ pc = "admit"
  /\ ~MayAdmit \/ \E c \in waiting_queue : Blocked(c)
  /\ todo' = result.prefill \cup result.decode
  /\ pc' = "idle"
  /\ UNCHANGED <<state, generated, waiting_queue, running_requests,
                 request_map, result>>

ScheduleStep ==
  \/ BeginSchedule
  \/ \E c \in waiting_queue : SkipFinished(c) \/ Admit(c)
  \/ ReturnBatch

-----------------------------------------------------------------------------
(* The caller executes the batch: one token per request, appended to the   *)
(* Request object without mutex_ (ModelRunner::step).  The token is final  *)
(* when it is the end of sequence token or the last one asked for.         *)
IsFinal(r, eos) == eos \/ generated[r] + 1 >= MaxNew[r]

ExecuteRequest(r, eos) ==
  /\ pc = "idle"
  /\ r \in todo
  /\ generated' = [generated EXCEPT ![r] = @ + 1]
  /\ state' = [state EXCEPT ![r] = IF IsFinal(r, eos) THEN "FINISHED" ELSE @]
  /\ todo' = todo \ {r}
  /\ UNCHANGED <<waiting_queue, running_requests, request_map, result, pc>>

Next ==
  \/ \E r \in Reqs : AddRequest(r)
  \/ \E i \in Ids : CancelRequest(i)
  \/ \E finished_ids \in SUBSET Ids : UpdateRequestsState(finished_ids)
  \/ ScheduleStep
  \/ \E r \in Reqs, eos \in BOOLEAN : ExecuteRequest(r, eos)

Spec == Init /\ [][Next]_vars

-----------------------------------------------------------------------------
(* Every variable has its type. *)
TypeOK ==
  /\ state \in [Reqs -> RequestState]
  /\ generated \in [Reqs -> Nat]
  /\ waiting_queue \in SUBSET Reqs
  /\ running_requests \in SUBSET Reqs
  /\ request_map \in [Ids -> Reqs \cup {None}]
  /\ result \in BatchStepResult
  /\ todo \in SUBSET Reqs
  /\ pc \in {"idle", "admit"}

(* schedule_step never hands out a batch above max_num_batched_tokens_ and *)
(* never runs more than max_num_seqs_ requests, whatever is added,         *)
(* cancelled or finished between its calls.                                *)
WithinLimits ==
  /\ result.total <= MaxBatchedTokens
  /\ Cardinality(running_requests) <= MaxNumSeqs

(* The preemption branch of schedule_step is unreachable: admission by     *)
(* prompt length already keeps the running requests within a budget of one *)
(* decode token each.                                                      *)
NeverPreempts ==
  /\ result.preempted = 0
  /\ \A r \in Reqs : state[r] # "PREEMPTED"
  /\ Cardinality(running_requests) <= MaxBatchedTokens

(* cancel_request and the filter of schedule_step act by id: they reach    *)
(* the right object only if every running request, and every queued one    *)
(* that is not cancelled, is the object its id is mapped to, even when     *)
(* the id of a cancelled request is reused while the old object is still   *)
(* queued.                                                                 *)
MapNamesLiveRequests ==
  /\ \A r \in running_requests : request_map[Id[r]] = r
  /\ \A r \in waiting_queue : state[r] # "FINISHED" => request_map[Id[r]] = r

(* A request is not both waiting and running, and a batch does not both    *)
(* prefill and decode it.                                                  *)
OnePlace ==
  /\ waiting_queue \cap running_requests = {}
  /\ result.prefill \cap result.decode = {}

(* A cancelled or completed request never comes back to life, even though  *)
(* its object stays in the queue or the batch for a while.                 *)
FinishedIsFinal ==
  [][\A r \in Reqs : state[r] = "FINISHED" => state'[r] = "FINISHED"]_vars

(* When schedule_step returns, no live request left in the queue should    *)
(* have gone before one of the requests admitted by that call: priority    *)
(* first, then arrival (test_continuous_batcher.py: "Priority order").     *)
AdmissionOrder ==
  [][pc = "admit" /\ pc' = "idle" =>
       \A r \in result.prefill, w \in waiting_queue :
         state[w] # "FINISHED" => ~Precedes(w, r)]_vars

-----------------------------------------------------------------------------
(* The batcher seen as a lifecycle of requests: its containers collapse    *)
(* into one status, and a running request takes one unit of both limits.   *)
status ==
  [r \in Reqs |->
     CASE state[r] = "FINISHED" -> "ended"
       [] state[r] = "RUNNING" -> "running"
       [] state[r] = "PREEMPTED" -> "waiting"
       [] OTHER -> IF r \in waiting_queue THEN "waiting" ELSE "new"]

Capacity == IF MaxNumSeqs <= MaxBatchedTokens THEN MaxNumSeqs ELSE MaxBatchedTokens

Lifecycle == INSTANCE RequestLifecycle
  WITH Requests <- Reqs, Before <- Precedes, Capacity <- Capacity, status <- status

(* The batcher implements the lifecycle: no call, in any state, starts a   *)
(* request over the limits or out of order, brings one back or ends one    *)
(* that was not accepted.                                                  *)
ImplementsLifecycle == Lifecycle!Spec
=============================================================================
