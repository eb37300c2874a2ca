------------------------------ MODULE LLMEngine ------------------------------
(***************************************************************************)
(* LLMEngine and AsyncLLMEngine (cudaforge/engine.py) over the ModelRunner *)
(* and the ContinuousBatcher, with the pages of the KV cache.              *)
(*                                                                         *)
(* Everything runs on one event loop: a coroutine is only interrupted at   *)
(* an await that suspends, that is while the background loop sleeps        *)
(* (epc = "await").  engine.step and cancel_request have no such await and *)
(* queue.put on an unbounded queue never suspends, so between a step and   *)
(* the delivery of its outputs no other coroutine runs.  The steps of the  *)
(* ModelRunner are the ones of its module, taken while epc = "step".       *)
(*                                                                         *)
(* The KV cache appears as the number of tokens per registered sequence    *)
(* and the pages they take, without prefix sharing (module PagedKVCache    *)
(* has the whole of it); append_tokens and the registration throw when the *)
(* pages run out.  Request ids come from a counter: Id is one to one.      *)
(***************************************************************************)
EXTENDS ModelRunner, Functions

CONSTANTS
  TotalGpuBlocks,  \* total_gpu_blocks
  BlockSize,       \* block_size
  StopTokens,      \* whether requests have stop_token_ids
  Shutdowns        \* whether shutdown() is called

ASSUME EngineAssumption ==
  /\ TotalGpuBlocks \in Nat /\ BlockSize \in Nat \ {0}
  /\ {StopTokens, Shutdowns} \subseteq BOOLEAN
  /\ \A r, s \in Reqs : Id[r] = Id[s] => r = s

VARIABLES
  epc,               \* "await", or where the running coroutine is
  is_running,        \* _is_running, and the loop task with it
  active_requests,   \* _active_requests
  kv_tokens,         \* tokens of the sequences registered in the KV cache
  lost_pages,        \* pages of registrations that threw
  append_failed,     \* history: append_tokens has run out of pages in the loop
  raw_outputs,       \* step(): outputs popped and not handled yet
  finished_req_ids,  \* step(): requests to clean up
  results,           \* step(): outputs to return
  request_queues,    \* _request_queues: the requests that have one
  queue,             \* the content of the queue of each request
  client,            \* generate(): new, waiting, done, failed, cancelled, gone
  received           \* outputs generate() has yielded

kv == <<kv_tokens, lost_pages, append_failed>>
stepping == <<raw_outputs, finished_req_ids, results>>
clients == <<request_queues, queue, client, received>>
engineVars == <<epc, is_running, active_requests, kv, stepping, clients>>
everything == <<allVars, engineVars>>

EngineInit ==
  /\ RunnerInit
  /\ epc = "await"
  /\ is_running = FALSE
  /\ active_requests = {}
  /\ kv_tokens = <<>> /\ lost_pages = 0 /\ append_failed = FALSE
  /\ raw_outputs = <<>> /\ finished_req_ids = {} /\ results = <<>>
  /\ request_queues = {}
  /\ queue = [r \in Reqs |-> <<>>]
  /\ client = [r \in Reqs |-> "new"]
  /\ received = [r \in Reqs |-> <<>>]

-----------------------------------------------------------------------------
(* Pages: a sequence has one at least, and one for each BlockSize tokens.  *)
Sequenced == DOMAIN kv_tokens

Pages(n) == IF n = 0 THEN 1 ELSE (n + BlockSize - 1) \div BlockSize

FreePages ==
  TotalGpuBlocks - lost_pages
    - SumFunction([s \in Sequenced |-> Pages(kv_tokens[s])])

(* (the pages are left to the runner) *)
NotUnregistered(S) == kv_tokens

Unregistered(S) == [s \in Sequenced \ S |-> kv_tokens[s]]

-----------------------------------------------------------------------------
(* generate: starts the loop if need be, then add_request, whose answer    *)
(* from the batcher is not looked at, and the queue.                       *)
Generate(r) ==
  /\ epc = "await" /\ client[r] = "new"
  /\ Pages(PromptLen[r]) <= FreePages
  /\ is_running' = TRUE
  /\ kv_tokens' = [s \in Sequenced \cup {r} |->
       IF s = r THEN PromptLen[r] ELSE kv_tokens[s]]
  /\ \/ AddRequest(r)
     \/ (PromptLen[r] = 0 \/ Known(r)) /\ UNCHANGED vars
  /\ active_requests' = active_requests \cup {r}
  /\ request_queues' = request_queues \cup {r}
  /\ client' = [client EXCEPT ![r] = "waiting"]
  /\ UNCHANGED <<runnerVars, epc, lost_pages, append_failed, stepping, queue,
                 received>>

(* The registration throws: the pages it had taken stay taken. *)
GenerateThrows(r) ==
  /\ epc = "await" /\ client[r] = "new"
  /\ Pages(PromptLen[r]) > FreePages
  /\ is_running' = TRUE
  /\ lost_pages' = lost_pages + FreePages
  /\ client' = [client EXCEPT ![r] = "failed"]
  /\ UNCHANGED <<allVars, epc, active_requests, kv_tokens, append_failed, stepping,
                 request_queues, queue, received>>

-----------------------------------------------------------------------------
(* The background loop wakes up and finds work: model_runner.step begins.  *)
LoopBegin ==
  /\ epc = "await" /\ is_running
  /\ running_requests # {} \/ waiting_queue # {}
  /\ StepSchedule
  /\ epc' = "step"
  /\ UNCHANGED <<is_running, active_requests, kv, stepping, clients>>

StepDone == rpc = "idle" /\ pc = "idle"

LoopStep ==
  /\ epc = "step" /\ ~StepDone
  /\ \/ StepAdmission \/ StepFilter \/ StepPush \/ StepUpdate
     \/ \E r \in Reqs, eos \in BOOLEAN : StepExecute(r, eos)
  /\ UNCHANGED engineVars

(* raw_outputs = stream_buffer.pop_all() *)
LoopPop ==
  /\ epc = "step" /\ StepDone
  /\ raw_outputs' = stream
  /\ delivered' = delivered \o stream
  /\ stream' = <<>>
  /\ epc' = "handle"
  /\ UNCHANGED <<vars, rpc, generated_outputs, finished_ids,
                 cancelled_requests, cancelling, silenced, is_running,
                 active_requests, kv, finished_req_ids, results, clients>>

(* A stop token of an active request makes its output final. *)
FinalOutput(out, stop) == out.final \/ (stop /\ out.req \in active_requests)

(* append_tokens(req_id, 1) works. *)
CanAppend(r) ==
  /\ r \in Sequenced
  /\ Pages(kv_tokens[r] + 1) - Pages(kv_tokens[r]) <= FreePages

(* (the cache is never told) *)
NeverAppended(r, final) == kv_tokens

Appended(r, final) == IF final THEN kv_tokens ELSE [kv_tokens EXCEPT ![r] = @ + 1]

(* One round of the loop over raw_outputs. *)
HandleOutput(stop) ==
  LET out == Head(raw_outputs)
      r == out.req
      final == FinalOutput(out, stop)
  IN
  /\ epc = "handle" /\ raw_outputs # <<>>
  /\ stop => StopTokens
  /\ final \/ CanAppend(r)
  /\ kv_tokens' = Appended(r, final)
  /\ results' = Append(results, [out EXCEPT !.final = final])
  /\ finished_req_ids' = finished_req_ids \cup (IF final THEN {r} ELSE {})
  /\ raw_outputs' = Tail(raw_outputs)
  /\ UNCHANGED <<allVars, epc, is_running, active_requests, lost_pages, append_failed,
                 clients>>

(* append_tokens throws, out of pages or for want of the sequence: the     *)
(* loop logs it; what was popped is gone, and nothing of what has ended is *)
(* cleaned up.                                                             *)
HandleThrows(stop) ==
  LET out == Head(raw_outputs)
  IN
  /\ epc = "handle" /\ raw_outputs # <<>>
  /\ stop => StopTokens
  /\ ~FinalOutput(out, stop) /\ ~CanAppend(out.req)
  /\ raw_outputs' = <<>> /\ results' = <<>> /\ finished_req_ids' = {}
  /\ epc' = "await"
  /\ append_failed' = (append_failed \/ out.req \in Sequenced)
  /\ UNCHANGED <<allVars, is_running, active_requests, kv_tokens, lost_pages,
                 clients>>

Ended == {Id[r] : r \in finished_req_ids}

(* step() cleans up and returns its results. *)
HandleEnd ==
  /\ epc = "handle" /\ raw_outputs = <<>>
  /\ UpdateRequestsState(Ended)
  /\ kv_tokens' = Unregistered(finished_req_ids)
  /\ active_requests' = active_requests \ finished_req_ids
  /\ finished_req_ids' = {}
  /\ epc' = IF results = <<>> THEN "await" ELSE "deliver"
  /\ UNCHANGED <<runnerVars, is_running, lost_pages, append_failed, raw_outputs,
                 results, clients>>

(* (newest first; the queue dropped before its last put) *)
PutInFront(out) == <<out>> \o queue[out.req]
PutUnlessFinal(out) ==
  IF out.final THEN queue[out.req] ELSE Append(queue[out.req], out)

Put(out) == Append(queue[out.req], out)

(* One round of the loop over the outputs of step(): an output goes into   *)
(* the queue of its request, and the queue of an ended one is dropped.     *)
Deliver ==
  LET out == Head(results)
  IN
  /\ epc = "deliver"
  /\ queue' = IF out.req \in request_queues
              THEN [queue EXCEPT ![out.req] = Put(out)] ELSE queue
  /\ request_queues' = request_queues \ (IF out.final THEN {out.req} ELSE {})
  /\ results' = Tail(results)
  /\ epc' = IF Tail(results) = <<>> THEN "await" ELSE "deliver"
  /\ UNCHANGED <<allVars, is_running, active_requests, kv, raw_outputs,
                 finished_req_ids, client, received>>

-----------------------------------------------------------------------------
(* generate: queue.get and the yield; it ends after the final output. *)
Yield(r) ==
  /\ epc = "await" /\ client[r] = "waiting" /\ queue[r] # <<>>
  /\ received' = [received EXCEPT ![r] = Append(@, Head(queue[r]))]
  /\ queue' = [queue EXCEPT ![r] = Tail(@)]
  /\ client' = [client EXCEPT ![r] = IF Head(queue[r]).final THEN "done" ELSE @]
  /\ UNCHANGED <<allVars, epc, is_running, active_requests, kv, stepping,
                 request_queues>>

(* CancelledError in generate: cancel_request, the runner's part of which  *)
(* has two steps, and the queue is dropped.                                *)
Cancel(r) ==
  /\ epc = "await" /\ client[r] = "waiting"
  /\ MarkCancelled(Id[r])
  /\ epc' = "cancel"
  /\ kv_tokens' = Unregistered({r})
  /\ active_requests' = active_requests \ {r}
  /\ request_queues' = request_queues \ {r}
  /\ client' = [client EXCEPT ![r] = "cancelled"]
  /\ UNCHANGED <<is_running, lost_pages, append_failed, stepping, queue, received>>

CancelEnd ==
  /\ epc = "cancel"
  /\ CancelInBatcher
  /\ epc' = "await"
  /\ UNCHANGED <<is_running, active_requests, kv, stepping, clients>>

(* The consumer closes the generator at a yield: GeneratorExit is not      *)
(* CancelledError, and nothing is cancelled.                               *)
Close(r) ==
  /\ epc = "await" /\ client[r] = "waiting" /\ received[r] # <<>>
  /\ client' = [client EXCEPT ![r] = "gone"]
  /\ UNCHANGED <<allVars, epc, is_running, active_requests, kv, stepping,
                 request_queues, queue, received>>

(* shutdown: the loop task is cancelled where it sleeps; queues are left.  *)
Shutdown ==
  /\ Shutdowns
  /\ epc = "await" /\ is_running
  /\ is_running' = FALSE
  /\ UNCHANGED <<allVars, epc, active_requests, kv, stepping, clients>>

-----------------------------------------------------------------------------
EngineLoop ==
  \/ LoopBegin \/ LoopStep \/ LoopPop
  \/ \E stop \in BOOLEAN : HandleOutput(stop)
  \/ \E stop \in BOOLEAN : HandleThrows(stop)
  \/ HandleEnd \/ Deliver
  \/ CancelEnd

EngineNext ==
  \/ EngineLoop
  \/ \E r \in Reqs : Generate(r)
  \/ \E r \in Reqs : GenerateThrows(r)
  \/ \E r \in Reqs : Yield(r)
  \/ \E r \in Reqs : Cancel(r)
  \/ \E r \in Reqs : Close(r)
  \/ Shutdown

EngineSpec == EngineInit /\ [][EngineNext]_everything

(* The event loop runs every coroutine that is ready: the background loop  *)
(* after its sleep, a generate() whose queue is not empty.  No client has  *)
(* to call, cancel or close anything.                                      *)
FairEngineSpec ==
  /\ EngineSpec
  /\ WF_everything(EngineLoop)
  /\ \A r \in Reqs : SF_everything(Yield(r))

-----------------------------------------------------------------------------
(* Every variable of the engine has its type; pages are never overdrawn.   *)
EngineTypeOK ==
  /\ RunnerTypeOK
  /\ epc \in {"await", "step", "handle", "deliver", "cancel"}
  /\ is_running \in BOOLEAN
  /\ active_requests \subseteq Reqs /\ request_queues \subseteq Reqs
  /\ Sequenced \subseteq Reqs /\ kv_tokens \in [Sequenced -> Nat]
  /\ lost_pages \in Nat /\ FreePages \in Nat
  /\ raw_outputs \in Seq(StreamOutput) /\ results \in Seq(StreamOutput)
  /\ finished_req_ids \subseteq Reqs
  /\ queue \in [Reqs -> Seq(StreamOutput)] /\ received \in [Reqs -> Seq(StreamOutput)]
  /\ client \in [Reqs -> {"new", "waiting", "done", "failed", "cancelled", "gone"}]

(* The requests the batcher accepts; add_request ignores that it refuses  *)
(* the others.                                                             *)
Prompted == {r \in Reqs : PromptLen[r] > 0}

Live == {r \in waiting_queue \cup running_requests : state[r] # "FINISHED"}

(* Between two steps a request the scheduler works on has its sequence, is *)
(* active and has a queue, pages short or not: an exception between two of *)
(* these updates leaves no request behind that nobody will collect.  As    *)
(* long as no append_tokens has run out of pages in the loop of step(),    *)
(* pages, the table of active requests and the queues are held for these   *)
(* requests only.                                                          *)
Held == {Sequenced, active_requests, request_queues}

HeldForLiveOnly ==
  epc = "await" => \A held \in Held :
    /\ Live \subseteq held
    /\ append_failed \/ held \cap Prompted = Live

(* Between two steps the KV cache holds the prompt and every token the     *)
(* runner has generated for a request, until append_tokens runs out of     *)
(* pages.                                                                  *)
CacheFollowsTokens ==
  epc = "await" /\ ~append_failed =>
    \A r \in Sequenced : kv_tokens[r] = PromptLen[r] + generated[r]

(* Pages, tables and queues follow the requests: they are held for the     *)
(* requests that live, and the cache has the tokens these have so far.     *)
ResourcesFollowRequests == HeldForLiveOnly /\ CacheFollowsTokens

(* A client gets the tokens of its request in order and without a gap, and *)
(* only the last one is final ("returns generated tokens", engine.py).     *)
ClientInOrder ==
  \A r \in Reqs : \A k \in DOMAIN received[r] :
    /\ received[r][k].num = k
    /\ received[r][k].final <=> k = Len(received[r]) /\ client[r] = "done"

(* So it is until append_tokens runs out of pages in step(), with any      *)
(* mix of cancellations, stop tokens, closed generators and shutdowns.     *)
ClientInOrderUntilShort == ~append_failed => ClientInOrder

(* generate() ends, with the final output or by cancellation, and a        *)
(* request whose client is done or gone gives its pages and its queue back *)
(* in the end, although nothing cancels it, unless the engine is shut down *)
(* or append_tokens runs out of pages.                                     *)
GenerateEnds ==
  \A r \in Prompted :
    client[r] \in {"waiting", "gone"} ~>
      \/ client[r] # "waiting" /\ r \notin Sequenced \cup request_queues
      \/ ~is_running
      \/ append_failed

(* add_request "pushes it into the C++ continuous batcher" (engine.py).    *)
AddedIsQueued ==
  [][\A r \in Reqs : client[r] = "new" /\ client'[r] = "waiting" =>
       r \in waiting_queue']_everything
=============================================================================
