---------------------------- MODULE ModelRunner ----------------------------
(***************************************************************************)
(* cudaforge::engine::ModelRunner and TokenStreamBuffer (csrc/src/engine/  *)
(* model_runner.cpp) over the ContinuousBatcher.  One thread runs step();  *)
(* any thread may add and cancel requests; a consumer drains the stream.   *)
(* step() takes cancel_mutex_, the batcher's mutex_ and the stream's       *)
(* mutex_ one after the other, never two at once, so every point between   *)
(* them is open to the other threads.                                      *)
(*                                                                         *)
(* A token is modelled by the request it belongs to, its position among    *)
(* the request's tokens and whether it is final; whether a sampled token   *)
(* is the end of sequence token is a free choice.                          *)
(***************************************************************************)
EXTENDS ContinuousBatcher, Sequences

VARIABLES
  rpc,                 \* where the stepping thread is
  generated_outputs,   \* local of step(): outputs not pushed yet
  finished_ids,        \* local of step()
  cancelled_requests,  \* cancelled_requests_
  cancelling,          \* id whose cancel_request is between its two halves
  stream,              \* TokenStreamBuffer::queue_
  delivered,           \* outputs the consumer has popped, in order
  silenced             \* requests whose cancel returned before a batch with
                       \* them was filtered

runnerVars == <<rpc, generated_outputs, finished_ids, cancelled_requests,
                cancelling, stream, delivered, silenced>>
allVars == <<vars, runnerVars>>

StreamOutput == [req : Reqs, num : Nat, final : BOOLEAN]

RunnerInit ==
  /\ Init
  /\ rpc = "idle"
  /\ generated_outputs = <<>>
  /\ finished_ids = {}
  /\ cancelled_requests = {}
  /\ cancelling = None
  /\ stream = <<>>
  /\ delivered = <<>>
  /\ silenced = {}

-----------------------------------------------------------------------------
(* step(), 1: the schedule decision, under the batcher's mutex. *)
StepSchedule ==
  /\ rpc = "idle"
  /\ BeginSchedule
  /\ rpc' = "filter"
  /\ UNCHANGED <<generated_outputs, finished_ids, cancelled_requests,
                 cancelling, stream, delivered, silenced>>

StepAdmission ==
  /\ \/ \E c \in waiting_queue : SkipFinished(c) \/ Admit(c)
     \/ ReturnBatch
  /\ UNCHANGED runnerVars

(* (no filter; everything dropped once anything is cancelled) *)
Unfiltered == todo
AllOrNothing == IF cancelled_requests = {} THEN todo ELSE {}

(* 2: filter_cancelled_requests; step() returns when nothing is left. *)
Survivors == {r \in todo : Id[r] \notin cancelled_requests}

StepFilter ==
  /\ rpc = "filter" /\ pc = "idle"
  /\ todo' = Survivors
  /\ rpc' = IF Survivors = {} THEN "idle" ELSE "execute"
  /\ generated_outputs' = <<>>
  /\ finished_ids' = {}
  /\ UNCHANGED <<state, generated, waiting_queue, running_requests,
                 request_map, result, pc, cancelled_requests, cancelling,
                 stream, delivered, silenced>>

(* 3 and 4: the prefill requests, then the decode requests. *)
FinishedBy(r, eos) == IF IsFinal(r, eos) THEN {Id[r]} ELSE {}

StepExecute(r, eos) ==
  /\ rpc = "execute"
  /\ r \in result.decode => todo \cap result.prefill = {}
  /\ ExecuteRequest(r, eos)
  /\ generated_outputs' = Append(generated_outputs,
       [req |-> r, num |-> generated[r] + 1, final |-> IsFinal(r, eos)])
  /\ finished_ids' = finished_ids \cup FinishedBy(r, eos)
  /\ UNCHANGED <<rpc, cancelled_requests, cancelling, stream, delivered, silenced>>

(* (the new outputs put in front) *)
PushedInFront == generated_outputs \o stream

Pushed == stream \o generated_outputs

(* 5: push_batch. *)
StepPush ==
  /\ rpc = "execute" /\ todo = {}
  /\ stream' = Pushed
  /\ generated_outputs' = <<>>
  /\ rpc' = IF finished_ids = {} THEN "idle" ELSE "update"
  /\ UNCHANGED <<vars, finished_ids, cancelled_requests, cancelling,
                 delivered, silenced>>

(* 6: update_requests_state. *)
StepUpdate ==
  /\ rpc = "update"
  /\ UpdateRequestsState(finished_ids)
  /\ finished_ids' = {}
  /\ rpc' = "idle"
  /\ UNCHANGED <<generated_outputs, cancelled_requests, cancelling, stream,
                 delivered, silenced>>

-----------------------------------------------------------------------------
(* cancel_request: the mark under cancel_mutex_, then the batcher's call.  *)
MarkCancelled(i) ==
  /\ cancelling = None
  /\ i \notin cancelled_requests
  /\ cancelled_requests' = cancelled_requests \cup {i}
  /\ cancelling' = i
  /\ UNCHANGED <<vars, rpc, generated_outputs, finished_ids, stream,
                 delivered, silenced>>

(* A caller cancels an id it has submitted a request under; the request    *)
(* may have ended meanwhile.                                               *)
CancelMark(i) ==
  /\ \E r \in Reqs : Id[r] = i /\ ~Fresh(r)
  /\ MarkCancelled(i)

CancelInBatcher ==
  /\ cancelling # None
  /\ \/ CancelRequest(cancelling)
     \/ pc = "idle" /\ request_map[cancelling] = None /\ UNCHANGED vars
  /\ silenced' = IF rpc \in {"idle", "filter"}
                 THEN silenced \cup ({request_map[cancelling]} \ {None})
                 ELSE silenced
  /\ cancelling' = None
  /\ UNCHANGED <<rpc, generated_outputs, finished_ids, cancelled_requests,
                 stream, delivered>>

Submit(r) == AddRequest(r) /\ UNCHANGED runnerVars

-----------------------------------------------------------------------------
(* The consumer: pop_all, and pop_timeout when it finds an output. *)
PopAll ==
  /\ stream # <<>>
  /\ delivered' = delivered \o stream
  /\ stream' = <<>>
  /\ UNCHANGED <<vars, rpc, generated_outputs, finished_ids,
                 cancelled_requests, cancelling, silenced>>

PopTimeout ==
  /\ stream # <<>>
  /\ delivered' = Append(delivered, Head(stream))
  /\ stream' = Tail(stream)
  /\ UNCHANGED <<vars, rpc, generated_outputs, finished_ids,
                 cancelled_requests, cancelling, silenced>>

-----------------------------------------------------------------------------
RunnerStep ==
  \/ StepSchedule
  \/ StepAdmission
  \/ StepFilter
  \/ \E r \in Reqs, eos \in BOOLEAN : StepExecute(r, eos)
  \/ StepPush
  \/ StepUpdate

Consume == PopAll \/ PopTimeout

RunnerNext ==
  \/ RunnerStep
  \/ \E i \in Ids : CancelMark(i)
  \/ CancelInBatcher
  \/ \E r \in Reqs : Submit(r)
  \/ Consume

RunnerSpec == RunnerInit /\ [][RunnerNext]_allVars

(* The engine loop calls step() again and again while requests are pending *)
(* or running (engine.py, _background_engine_loop) and drains the stream   *)
(* after each call.  A cancel_request that has begun gets mutex_ in the    *)
(* end: the loop lets go of it, and sleeps, between any two steps.  Nobody *)
(* has to submit or to cancel anything.                                    *)
FairRunnerSpec ==
  /\ RunnerSpec
  /\ WF_allVars(RunnerStep)
  /\ SF_allVars(CancelInBatcher)
  /\ WF_allVars(Consume)

-----------------------------------------------------------------------------
(* Every variable of the runner has its type. *)
RunnerTypeOK ==
  /\ TypeOK
  /\ rpc \in {"idle", "filter", "execute", "update"}
  /\ generated_outputs \in Seq(StreamOutput)
  /\ finished_ids \in SUBSET Ids
  /\ cancelled_requests \in SUBSET Ids
  /\ cancelling \in Ids \cup {None}
  /\ stream \in Seq(StreamOutput)
  /\ delivered \in Seq(StreamOutput)
  /\ silenced \in SUBSET Reqs

(* All outputs, from the first one the consumer got to those step() has    *)
(* not pushed yet, and where those of r are among them.                    *)
Produced == delivered \o stream \o generated_outputs

OutputsOf(r) == {k \in DOMAIN Produced : Produced[k].req = r}

(* No token is lost, repeated or reordered between generated_tokens and    *)
(* the consumer, whichever way it drains the stream.                       *)
StreamInOrder ==
  \A r \in Reqs :
    /\ {Produced[k].num : k \in OutputsOf(r)} = 1..generated[r]
    /\ \A j, k \in OutputsOf(r) : j < k => Produced[j].num < Produced[k].num

(* Nothing follows the final token of a request: step() ends a request in  *)
(* the Request object at once and in the batcher only later, and no        *)
(* schedule_step in between picks it again.  And a request that is over    *)
(* was cancelled or has its final token on the way to the client: nobody   *)
(* waits for a request that silently ended.                                *)
OneFinalOutput ==
  \A r \in Reqs :
    /\ \A j, k \in OutputsOf(r) : j < k => ~Produced[j].final
    /\ state[r] = "FINISHED" =>
         \/ Id[r] \in cancelled_requests
         \/ \E k \in OutputsOf(r) : Produced[k].final

(* What a consumer of the token stream can rely on: all tokens of a        *)
(* request, once and in order, and one final token that ends them, if any. *)
OutputsExact == StreamInOrder /\ OneFinalOutput

(* Cancelling is final for the client: when cancel_request returns before  *)
(* the filter of a step has run, not one more token of the request is      *)
(* computed, in this batch or in a later one (test_model_runner.py: "Req 2 *)
(* should have stopped producing tokens after cancellation").              *)
CancelSilences ==
  \A k \in DOMAIN generated_outputs : generated_outputs[k].req \notin silenced

(* filter_cancelled_requests drops only requests somebody has cancelled    *)
(* (model_runner.cpp: "Filter out requests cancelled mid-flight").         *)
FilterDropsOnlyCancelled ==
  [][rpc = "filter" /\ rpc' # "filter" =>
       \A r \in todo \ todo' : state[r] = "FINISHED" \/ cancelling = Id[r]]_allVars

(* Notifies the scheduler "of finished requests" (continuous_batcher.h):   *)
(* update_requests_state marks no request that had not ended already.      *)
UpdateMarksOnlyEnded ==
  [][rpc = "update" /\ rpc' = "idle" => state' = state]_allVars

(* A waiting request that fits an empty batch is not held up for ever by   *)
(* one that does not fit the "current token budget" and goes back to the   *)
(* waiting pool (continuous_batcher.cpp, schedule_step).                   *)
FittingRequestsEnd ==
  \A r \in Reqs :
    PromptLen[r] <= MaxBatchedTokens =>
      (r \in waiting_queue ~> state[r] = "FINISHED")

(* Every accepted request ends: its id becomes free again and, unless      *)
(* somebody cancelled it, its final token reaches the consumer.            *)
EndIsDelivered ==
  \A r \in Reqs :
    r \in waiting_queue ~>
      /\ request_map[Id[r]] # r
      /\ \/ Id[r] \in cancelled_requests
         \/ \E k \in DOMAIN delivered : delivered[k].req = r /\ delivered[k].final
=============================================================================
