-------------------------- MODULE Scheduler_proofs --------------------------
(***************************************************************************)
(* Proofs about ContinuousBatcher and ModelRunner, for every set of        *)
(* requests and ids (reused or not) and every value of the limits.         *)
(* IInv is the inductive invariant of the batcher: the token total bounds  *)
(* the number of running requests inside schedule_step, the state of a     *)
(* request says where it can be, and the id map names the live requests.   *)
(* RInv, in the second part, extends it to the points between the locks    *)
(* of the runner's step().                                                 *)
(***************************************************************************)
EXTENDS ModelRunner, FiniteSetTheorems, SequenceTheorems, TLAPS

(* Inside schedule_step every running request has been paid for with at    *)
(* least one token of the batch; between calls the budget bounds them.     *)
Paid ==
  /\ IsFiniteSet(running_requests)
  /\ result.total <= MaxBatchedTokens
  /\ Cardinality(running_requests) <= MaxNumSeqs
  /\ Cardinality(running_requests) <= MaxBatchedTokens
  /\ pc = "admit" => Cardinality(running_requests) <= result.total
  /\ \A r \in waiting_queue : PromptLen[r] > 0
  /\ result.preempted = 0

(* The state of a request tells which containers can hold it. *)
Places ==
  /\ waiting_queue \cap running_requests = {}
  /\ \A r \in waiting_queue : state[r] \in {"WAITING", "FINISHED"}
  /\ \A r \in running_requests : state[r] \in {"RUNNING", "FINISHED"}
  /\ \A r \in Reqs : state[r] = "RUNNING" => r \in running_requests
  /\ \A r \in Reqs : state[r] # "PREEMPTED"

(* An entry of request_map_ is keyed by the id of its request and names    *)
(* every live one.                                                         *)
MapAgrees ==
  /\ \A i \in Ids : request_map[i] # None => Id[request_map[i]] = i
  /\ \A r \in running_requests : request_map[Id[r]] = r
  /\ \A r \in waiting_queue : state[r] # "FINISHED" => request_map[Id[r]] = r
  /\ \A i \in Ids : \A r \in Reqs :
       request_map[i] = r /\ state[r] = "WAITING" => r \in waiting_queue

(* The batch under construction, and the last one handed out. *)
BatchShape ==
  /\ result.prefill \cap result.decode = {}
  /\ \A r \in result.prefill \cup result.decode \cup todo :
       state[r] \in {"RUNNING", "FINISHED"}
  /\ pc = "admit" =>
       /\ result.decode \subseteq running_requests
       /\ \A r \in result.prefill, w \in waiting_queue : ~Precedes(w, r)

IInv == TypeOK /\ Paid /\ Places /\ MapAgrees /\ BatchShape

-----------------------------------------------------------------------------
(* The requests that go on running are no more than those that ran, so the *)
(* decode tokens of a step fit the budget and nothing is preempted.        *)
LEMMA ActiveFits ==
  ASSUME IInv
  PROVE  /\ IsFiniteSet(ActiveRunning)
         /\ Cardinality(ActiveRunning) \in Nat
         /\ Cardinality(ActiveRunning) <= Cardinality(running_requests)
         /\ DecodeChoices = {ActiveRunning}
         /\ PreemptChoices = {{}}
<1>1. ActiveRunning \subseteq running_requests
  BY DEF ActiveRunning
<1>2. IsFiniteSet(running_requests)
  BY DEF IInv, Paid
<1>3. /\ IsFiniteSet(ActiveRunning)
      /\ Cardinality(ActiveRunning) <= Cardinality(running_requests)
  BY <1>1, <1>2, FS_Subset
<1>4. Cardinality(ActiveRunning) \in Nat /\ Cardinality(running_requests) \in Nat
  BY <1>2, <1>3, FS_CardinalityType
<1>5. Cardinality(ActiveRunning) <= MaxBatchedTokens
  BY <1>3, <1>4, BatcherAssumption DEF IInv, Paid
<1>6. ~(Cardinality(ActiveRunning) > MaxBatchedTokens)
  BY <1>4, <1>5, BatcherAssumption
<1>7. DecodeChoices = {ActiveRunning}
  BY <1>5, <1>6 DEF DecodeChoices
<1>8. PreemptChoices = {{}}
  BY <1>5 DEF PreemptChoices
<1>9. QED
  BY <1>3, <1>4, <1>7, <1>8

(* What BeginSchedule amounts to under the invariant: a filter.            *)
LEMMA BeginIsFilter ==
  ASSUME IInv, BeginSchedule
  PROVE  /\ state' = StateAfterFilter
         /\ running_requests' = ActiveRunning
         /\ waiting_queue' = waiting_queue
         /\ result' = [prefill |-> {}, decode |-> ActiveRunning,
                       total |-> Cardinality(ActiveRunning), preempted |-> 0]
<1>1. PICK decode \in DecodeChoices, preempted \in PreemptChoices :
        /\ state' = [r \in Reqs |-> IF r \in preempted THEN "PREEMPTED"
                                    ELSE StateAfterFilter[r]]
        /\ running_requests' = ActiveRunning \ preempted
        /\ waiting_queue' = waiting_queue \cup preempted
        /\ result' = [prefill |-> {}, decode |-> decode,
                      total |-> Cardinality(decode),
                      preempted |-> Cardinality(preempted)]
  BY DEF BeginSchedule
<1>2. decode = ActiveRunning /\ preempted = {}
  BY <1>1, ActiveFits
<1>3. state' = StateAfterFilter
  BY <1>1, <1>2 DEF StateAfterFilter
<1>4. Cardinality(preempted) = 0
  BY <1>2, FS_EmptySet
<1>5. QED
  BY <1>1, <1>2, <1>3, <1>4

-----------------------------------------------------------------------------
LEMMA InitInv == Init => IInv
<1>. SUFFICES ASSUME Init PROVE IInv
  OBVIOUS
<1>1. IsFiniteSet({}) /\ Cardinality({}) = 0
  BY FS_EmptySet
<1>2. TypeOK
  BY BatcherAssumption DEF Init, TypeOK, RequestState, BatchStepResult, EmptyResult
<1>3. Paid
  BY <1>1, BatcherAssumption DEF Init, Paid, EmptyResult
<1>4. Places /\ BatchShape
  BY DEF Init, Places, BatchShape, EmptyResult
<1>5. MapAgrees
  BY BatcherAssumption DEF Init, MapAgrees
<1>6. QED
  BY <1>2, <1>3, <1>4, <1>5 DEF IInv

LEMMA AddRequestInv ==
  ASSUME IInv, NEW r \in Reqs, AddRequest(r)
  PROVE  IInv'
<1>1. TypeOK'
  BY BatcherAssumption DEF IInv, TypeOK, AddRequest, Known, RequestState
<1>2. Paid'
  BY DEF IInv, Paid, AddRequest, Known
<1>3. Places'
  BY DEF IInv, TypeOK, Places, AddRequest, Known, Fresh
<1>4. MapAgrees'
  <2>1. \A q \in waiting_queue \cup running_requests :
          request_map[Id[q]] = q => Id[q] # Id[r]
    BY BatcherAssumption DEF IInv, TypeOK, AddRequest, Known
  <2>2. r \notin running_requests
    BY DEF IInv, Places, AddRequest, Known, Fresh
  <2>3. QED
    BY <2>1, <2>2, BatcherAssumption DEF IInv, TypeOK, MapAgrees, AddRequest, Known
<1>5. BatchShape'
  BY DEF IInv, TypeOK, BatchShape, AddRequest, Known, Fresh
<1>6. QED
  BY <1>1, <1>2, <1>3, <1>4, <1>5 DEF IInv

LEMMA CancelRequestInv ==
  ASSUME IInv, NEW i \in Ids, CancelRequest(i)
  PROVE  IInv'
<1>0. PICK c \in Reqs : c = request_map[i] /\ Id[c] = i
  BY DEF IInv, TypeOK, MapAgrees, CancelRequest
<1>1. TypeOK'
  BY DEF IInv, TypeOK, CancelRequest, RequestState
<1>2. Paid'
  <2>1. /\ running_requests' \subseteq running_requests
        /\ IsFiniteSet(running_requests)
    BY DEF IInv, Paid, CancelRequest
  <2>2. /\ IsFiniteSet(running_requests')
        /\ Cardinality(running_requests') <= Cardinality(running_requests)
    BY <2>1, FS_Subset
  <2>3. Cardinality(running_requests) \in Nat /\ Cardinality(running_requests') \in Nat
    BY <2>1, <2>2, FS_CardinalityType
  <2>4. QED
    BY <2>2, <2>3, BatcherAssumption DEF IInv, Paid, CancelRequest
<1>3. Places'
  <2>1. \A r \in running_requests : Id[r] = i => r = c
    BY <1>0 DEF IInv, MapAgrees
  <2>2. QED
    BY <1>0, <2>1 DEF IInv, TypeOK, Places, CancelRequest
<1>4. MapAgrees'
  BY <1>0, BatcherAssumption DEF IInv, TypeOK, MapAgrees, CancelRequest
<1>5. BatchShape'
  <2>1. \A q \in Reqs : state'[q] = "FINISHED" \/ state'[q] = state[q]
    BY <1>0 DEF IInv, TypeOK, CancelRequest
  <2>2. /\ result' = result /\ todo' = todo /\ pc' = "idle"
    BY DEF CancelRequest
  <2>3. result.prefill \cup result.decode \cup todo \subseteq Reqs
    BY DEF IInv, TypeOK, BatchStepResult
  <2>4. QED
    BY <2>1, <2>2, <2>3 DEF IInv, BatchShape
<1>6. QED
  BY <1>1, <1>2, <1>3, <1>4, <1>5 DEF IInv

LEMMA UpdateRequestsStateInv ==
  ASSUME IInv, NEW S \in SUBSET Ids, UpdateRequestsState(S)
  PROVE  IInv'
<1>1. TypeOK'
  BY DEF IInv, TypeOK, UpdateRequestsState, RequestState
<1>2. \A r \in Reqs : state'[r] = "FINISHED" \/ state'[r] = state[r]
  BY DEF UpdateRequestsState
<1>3. Paid' /\ BatchShape'
  <2>1. result.prefill \cup result.decode \cup todo \subseteq Reqs
    BY DEF IInv, TypeOK, BatchStepResult
  <2>2. QED
    BY <1>2, <2>1 DEF IInv, Paid, BatchShape, UpdateRequestsState
<1>4. Places' /\ MapAgrees'
  BY <1>2 DEF IInv, TypeOK, Places, MapAgrees, UpdateRequestsState
<1>5. QED
  BY <1>1, <1>3, <1>4 DEF IInv

LEMMA BeginScheduleInv ==
  ASSUME IInv, BeginSchedule
  PROVE  IInv'
<1>0. /\ state' = StateAfterFilter
      /\ running_requests' = ActiveRunning
      /\ waiting_queue' = waiting_queue
      /\ result' = [prefill |-> {}, decode |-> ActiveRunning,
                    total |-> Cardinality(ActiveRunning), preempted |-> 0]
      /\ request_map' = MapAfterFilter
      /\ todo' = {} /\ pc' = "admit" /\ generated' = generated
  BY BeginIsFilter DEF BeginSchedule
<1>1. /\ IsFiniteSet(ActiveRunning)
      /\ Cardinality(ActiveRunning) \in Nat
      /\ Cardinality(ActiveRunning) <= Cardinality(running_requests)
  BY ActiveFits
<1>2. ActiveRunning \subseteq running_requests
  BY DEF ActiveRunning
<1>3. TypeOK'
  BY <1>0, <1>1, <1>2
     DEF IInv, TypeOK, BatchStepResult, RequestState, StateAfterFilter, MapAfterFilter
<1>4. Paid'
  <2>1. Cardinality(running_requests) \in Nat
    BY FS_CardinalityType DEF IInv, Paid
  <2>2. QED
    BY <1>0, <1>1, <2>1, BatcherAssumption DEF IInv, Paid
<1>5. Places'
  BY <1>0, <1>2 DEF IInv, TypeOK, Places, StateAfterFilter, ActiveRunning
<1>6. MapAgrees'
  <2>1. \A r \in ActiveRunning, q \in running_requests \ ActiveRunning : Id[q] # Id[r]
    BY <1>2 DEF IInv, MapAgrees
  <2>2. \A r \in waiting_queue, q \in running_requests :
          state[r] # "FINISHED" => Id[q] # Id[r]
    BY DEF IInv, MapAgrees, Places
  <2>3. \A r \in waiting_queue : state'[r] = state[r]
    BY <1>0 DEF IInv, TypeOK, Places, StateAfterFilter
  <2>4. \A i \in Ids : request_map'[i] = request_map[i] \/ request_map'[i] = None
    BY <1>0 DEF MapAfterFilter
  <2>5. \A r \in ActiveRunning : request_map'[Id[r]] = r
    BY <1>0, <1>2, <2>1, BatcherAssumption DEF IInv, TypeOK, MapAgrees, MapAfterFilter
  <2>6. \A r \in waiting_queue : state[r] # "FINISHED" => request_map'[Id[r]] = r
    BY <1>0, <2>2, BatcherAssumption DEF IInv, TypeOK, MapAgrees, MapAfterFilter
  <2>7. \A i \in Ids : \A r \in Reqs :
          request_map'[i] = r /\ state'[r] = "WAITING" =>
            request_map[i] = r /\ state[r] = "WAITING"
    BY <1>0, <2>4, BatcherAssumption DEF StateAfterFilter
  <2>8. \A i \in Ids : request_map'[i] # None => Id[request_map'[i]] = i
    BY <2>4 DEF IInv, MapAgrees
  <2>9. QED
    BY <1>0, <2>3, <2>5, <2>6, <2>7, <2>8 DEF IInv, MapAgrees
<1>7. BatchShape'
  <2>1. \A r \in ActiveRunning : state'[r] = "RUNNING"
    BY <1>0 DEF ActiveRunning, StateAfterFilter, IInv, TypeOK
  <2>2. QED
    BY <1>0, <2>1 DEF BatchShape
<1>8. QED
  BY <1>3, <1>4, <1>5, <1>6, <1>7 DEF IInv

LEMMA SkipFinishedInv ==
  ASSUME IInv, NEW c \in waiting_queue, SkipFinished(c)
  PROVE  IInv'
<1>1. TypeOK' /\ Paid'
  BY DEF IInv, TypeOK, Paid, SkipFinished, Popped
<1>2. Places' /\ MapAgrees' /\ BatchShape'
  BY DEF IInv, TypeOK, Places, MapAgrees, BatchShape, SkipFinished, Popped, Precedes
<1>3. QED
  BY <1>1, <1>2 DEF IInv

LEMMA AdmitInv ==
  ASSUME IInv, NEW c \in waiting_queue, Admit(c)
  PROVE  IInv'
<1>0. c \in Reqs /\ c \notin running_requests /\ PromptLen[c] \in Nat /\ PromptLen[c] > 0
  BY BatcherAssumption DEF IInv, TypeOK, Paid, Places
<1>1. /\ result.prefill \in SUBSET Reqs /\ result.decode \in SUBSET Reqs
      /\ result.total \in Nat /\ result.preempted \in Nat
      /\ result \in [prefill : SUBSET Reqs, decode : SUBSET Reqs,
                     total : Nat, preempted : Nat]
  BY DEF IInv, TypeOK, BatchStepResult
<1>2. /\ result'.prefill = result.prefill \cup {c}
      /\ result'.decode = result.decode
      /\ result'.total = result.total + PromptLen[c]
      /\ result'.preempted = result.preempted
      /\ result' \in BatchStepResult
  <2>1. result' = [result EXCEPT !.prefill = result.prefill \cup {c},
                                 !.total = result.total + PromptLen[c]]
    BY DEF Admit, Popped
  <2>2. result.prefill \cup {c} \in SUBSET Reqs /\ result.total + PromptLen[c] \in Nat
    BY <1>0, <1>1
  <2>3. result' = [prefill |-> result.prefill \cup {c}, decode |-> result.decode,
                   total |-> result.total + PromptLen[c],
                   preempted |-> result.preempted]
    BY <1>1, <2>1
  <2>4. result' \in BatchStepResult
    BY <1>1, <2>2, <2>3 DEF BatchStepResult
  <2>5. QED
    BY <2>3, <2>4
<1>3. TypeOK'
  BY <1>0, <1>2 DEF IInv, TypeOK, Admit, Popped, RequestState
<1>4. Paid'
  <2>1. /\ IsFiniteSet(running_requests')
        /\ Cardinality(running_requests') = Cardinality(running_requests) + 1
    BY <1>0, FS_AddElement DEF IInv, Paid, Admit, Popped
  <2>2. /\ Cardinality(running_requests) \in Nat
        /\ result.total \in Nat
        /\ Cardinality(running_requests) <= result.total
        /\ Cardinality(running_requests) < MaxNumSeqs
        /\ result.total + PromptLen[c] <= MaxBatchedTokens
    BY FS_CardinalityType DEF IInv, TypeOK, BatchStepResult, Paid, Admit, Popped, MayAdmit, Fits
  <2>3. QED
    BY <1>0, <1>2, <2>1, <2>2, BatcherAssumption DEF IInv, Paid, Admit, Popped
<1>5. Places'
  BY <1>0 DEF IInv, TypeOK, Places, Admit, Popped
<1>6. MapAgrees'
  BY <1>0 DEF IInv, TypeOK, MapAgrees, Admit, Popped
<1>7. BatchShape'
  <2>1. \A w \in waiting_queue' : ~Precedes(w, c)
    BY DEF Admit, Popped, IsTop
  <2>2. \A q \in Reqs : state'[q] = IF q = c THEN "RUNNING" ELSE state[q]
    BY <1>0 DEF IInv, TypeOK, Admit, Popped
  <2>3. \A q \in result'.prefill \cup result'.decode \cup todo' :
          state'[q] \in {"RUNNING", "FINISHED"}
    <3>1. todo' = todo /\ todo \subseteq Reqs
      BY DEF IInv, TypeOK, Admit, Popped
    <3>2. QED
      BY <1>0, <1>1, <1>2, <2>2, <3>1 DEF IInv, BatchShape
  <2>4. c \notin result.decode
    BY <1>0 DEF IInv, BatchShape, Admit, Popped
  <2>5. result'.decode \subseteq running_requests'
    BY <1>2 DEF IInv, BatchShape, Admit, Popped
  <2>6. \A q \in result'.prefill, w \in waiting_queue' : ~Precedes(w, q)
    BY <1>2, <2>1 DEF IInv, BatchShape, Admit, Popped
  <2>7. \A q \in result'.prefill, w \in waiting_queue' : ~Precedes(w, q)'
    BY <2>6 DEF Precedes
  <2>8. QED
    BY <1>0, <1>2, <2>3, <2>4, <2>5, <2>7 DEF IInv, BatchShape
<1>8. QED
  BY <1>3, <1>4, <1>5, <1>6, <1>7 DEF IInv

LEMMA ReturnBatchInv ==
  ASSUME IInv, ReturnBatch
  PROVE  IInv'
<1>1. TypeOK'
  BY DEF IInv, TypeOK, BatchStepResult, ReturnBatch
<1>2. Paid' /\ Places' /\ MapAgrees' /\ BatchShape'
  BY DEF IInv, Paid, Places, MapAgrees, BatchShape, ReturnBatch
<1>3. QED
  BY <1>1, <1>2 DEF IInv

LEMMA ExecuteRequestInv ==
  ASSUME IInv, NEW r \in Reqs, NEW eos \in BOOLEAN, ExecuteRequest(r, eos)
  PROVE  IInv'
<1>1. TypeOK'
  BY DEF IInv, TypeOK, ExecuteRequest, RequestState
<1>2. \A q \in Reqs : state'[q] = "FINISHED" \/ state'[q] = state[q]
  BY DEF IInv, TypeOK, ExecuteRequest
<1>3. Paid' /\ BatchShape'
  <2>1. result.prefill \cup result.decode \cup todo \subseteq Reqs
    BY DEF IInv, TypeOK, BatchStepResult
  <2>2. QED
    BY <1>2, <2>1 DEF IInv, Paid, BatchShape, ExecuteRequest
<1>4. Places' /\ MapAgrees'
  BY <1>2 DEF IInv, TypeOK, Places, MapAgrees, ExecuteRequest
<1>5. QED
  BY <1>1, <1>3, <1>4 DEF IInv

LEMMA StutterInv == IInv /\ UNCHANGED vars => IInv'
  BY DEF IInv, vars, TypeOK, Paid, Places, MapAgrees, BatchShape, Precedes

(* IInv is inductive. *)
LEMMA NextInv == IInv /\ [Next]_vars => IInv'
<1>. SUFFICES ASSUME IInv, [Next]_vars PROVE IInv'
  OBVIOUS
<1>1. ASSUME NEW r \in Reqs, AddRequest(r) PROVE IInv'
  BY <1>1, AddRequestInv
<1>2. ASSUME NEW i \in Ids, CancelRequest(i) PROVE IInv'
  BY <1>2, CancelRequestInv
<1>3. ASSUME NEW S \in SUBSET Ids, UpdateRequestsState(S) PROVE IInv'
  BY <1>3, UpdateRequestsStateInv
<1>4. ASSUME ScheduleStep PROVE IInv'
  BY <1>4, BeginScheduleInv, SkipFinishedInv, AdmitInv, ReturnBatchInv DEF ScheduleStep
<1>5. ASSUME NEW r \in Reqs, NEW eos \in BOOLEAN, ExecuteRequest(r, eos) PROVE IInv'
  BY <1>5, ExecuteRequestInv
<1>6. CASE UNCHANGED vars
  BY <1>6, StutterInv
<1>7. QED
  BY <1>1, <1>2, <1>3, <1>4, <1>5, <1>6 DEF Next

LEMMA InvariantHolds == Spec => []IInv
BY InitInv, NextInv, PTL DEF Spec

-----------------------------------------------------------------------------
(* Type correctness of the batcher. *)
THEOREM TypeCorrect == Spec => []TypeOK
<1>1. IInv => TypeOK
  BY DEF IInv
<1>2. QED
  BY <1>1, InvariantHolds, PTL

(* A batch never exceeds max_num_batched_tokens_ and the running requests  *)
(* never exceed max_num_seqs_, for any requests and any limits.            *)
THEOREM LimitsHold == Spec => []WithinLimits
<1>1. IInv => WithinLimits
  BY DEF IInv, Paid, WithinLimits
<1>2. QED
  BY <1>1, InvariantHolds, PTL

(* preempt_requests is never called. *)
THEOREM PreemptionUnreachable == Spec => []NeverPreempts
<1>1. IInv => NeverPreempts
  BY DEF IInv, Paid, Places, NeverPreempts
<1>2. QED
  BY <1>1, InvariantHolds, PTL

(* Every live request is the one its id is mapped to, also when ids are    *)
(* reused.                                                                 *)
THEOREM MapCorrect == Spec => []MapNamesLiveRequests
<1>1. IInv => MapNamesLiveRequests
  BY DEF IInv, MapAgrees, MapNamesLiveRequests
<1>2. QED
  BY <1>1, InvariantHolds, PTL

(* A request is never queued and running at once, and a batch never both   *)
(* prefills and decodes it.                                                *)
THEOREM PlacesDisjoint == Spec => []OnePlace
<1>1. IInv => OnePlace
  BY DEF IInv, Places, BatchShape, OnePlace
<1>2. QED
  BY <1>1, InvariantHolds, PTL

-----------------------------------------------------------------------------
(* A finished request stays finished. *)
THEOREM FinishedStays == Spec => FinishedIsFinal
<1>. DEFINE Stays == \A r \in Reqs : state[r] = "FINISHED" => state'[r] = "FINISHED"
<1>1. ASSUME IInv, [Next]_vars PROVE Stays
  <2>1. ASSUME NEW r \in Reqs, AddRequest(r) PROVE Stays
    BY <1>1, <2>1 DEF IInv, TypeOK, AddRequest, Known, Fresh
  <2>2. ASSUME NEW i \in Ids, CancelRequest(i) PROVE Stays
    BY <1>1, <2>2 DEF IInv, TypeOK, CancelRequest
  <2>3. ASSUME NEW S \in SUBSET Ids, UpdateRequestsState(S) PROVE Stays
    BY <2>3 DEF UpdateRequestsState
  <2>4. CASE BeginSchedule
    BY <1>1, <2>4, BeginIsFilter DEF StateAfterFilter
  <2>5. ASSUME NEW c \in waiting_queue, SkipFinished(c) PROVE Stays
    BY <2>5 DEF SkipFinished, Popped
  <2>6. ASSUME NEW c \in waiting_queue, Admit(c) PROVE Stays
    BY <1>1, <2>6 DEF IInv, TypeOK, Admit, Popped
  <2>7. CASE ReturnBatch
    BY <2>7 DEF ReturnBatch
  <2>8. ASSUME NEW r \in Reqs, NEW eos \in BOOLEAN, ExecuteRequest(r, eos) PROVE Stays
    BY <1>1, <2>8 DEF IInv, TypeOK, ExecuteRequest
  <2>9. CASE UNCHANGED vars
    BY <2>9 DEF vars
  <2>10. QED
    BY <1>1, <2>1, <2>2, <2>3, <2>4, <2>5, <2>6, <2>7, <2>8, <2>9 DEF Next, ScheduleStep
<1>2. IInv /\ [Next]_vars => [Stays]_vars
  BY <1>1
<1>3. QED
  BY <1>2, InvariantHolds, PTL DEF Spec, FinishedIsFinal

(* Admission follows priority, then arrival, over a whole schedule_step.   *)
THEOREM AdmissionInOrder == Spec => AdmissionOrder
<1>. DEFINE Ordered == pc = "admit" /\ pc' = "idle" =>
              \A r \in result.prefill, w \in waiting_queue :
                state[w] # "FINISHED" => ~Precedes(w, r)
<1>1. IInv => Ordered
  BY DEF IInv, BatchShape
<1>2. IInv /\ [Next]_vars => [Ordered]_vars
  BY <1>1
<1>3. QED
  BY <1>2, InvariantHolds, PTL DEF Spec, AdmissionOrder

-----------------------------------------------------------------------------
(* The refinement: the status each request has in the lifecycle.           *)
LEMMA StatusValues ==
  ASSUME IInv
  PROVE  /\ \A r \in Reqs : status[r] = "ended" <=> state[r] = "FINISHED"
         /\ \A r \in Reqs : status[r] = "running" <=> state[r] = "RUNNING"
         /\ \A r \in Reqs : status[r] = "waiting" <=>
                              state[r] = "WAITING" /\ r \in waiting_queue
         /\ \A r \in Reqs : status[r] = "new" <=> Fresh(r)
BY DEF IInv, TypeOK, RequestState, Places, status, Fresh

(* A step that finishes accepted requests and moves no other one ends them *)
(* in the lifecycle.                                                       *)
LEMMA FinishingEnds ==
  ASSUME IInv, IInv', NEW S \in SUBSET Reqs,
         \A r \in Reqs : state'[r] = IF r \in S THEN "FINISHED" ELSE state[r],
         waiting_queue' \subseteq waiting_queue,
         \A r \in waiting_queue : state'[r] # "FINISHED" => r \in waiting_queue',
         \A r \in S : ~Fresh(r)
  PROVE  [Lifecycle!Next]_status
<1>. DEFINE E == {r \in S : state[r] # "FINISHED"}
<1>1. E \in SUBSET (Lifecycle!In("waiting") \cup Lifecycle!In("running"))
  BY StatusValues DEF Lifecycle!In, IInv, TypeOK, RequestState, Places, Fresh
<1>2. status' = [r \in Reqs |-> IF r \in E THEN "ended" ELSE status[r]]
  BY DEF status
<1>3. Lifecycle!End(E)
  BY <1>2 DEF Lifecycle!End
<1>4. QED
  BY <1>1, <1>3 DEF Lifecycle!Next

LEMMA AddRequestSubmits ==
  ASSUME IInv, NEW r \in Reqs, AddRequest(r)
  PROVE  Lifecycle!Submit(r)
<1>1. status[r] = "new"
  BY StatusValues DEF AddRequest, Known
<1>2. status' = [status EXCEPT ![r] = "waiting"]
  BY DEF status, AddRequest, Known, IInv, TypeOK
<1>3. QED
  BY <1>1, <1>2 DEF Lifecycle!Submit

LEMMA AdmitStarts ==
  ASSUME IInv, NEW c \in waiting_queue, Admit(c)
  PROVE  c \in Reqs /\ Lifecycle!Start(c)
<1>0. c \in Reqs /\ PromptLen[c] \in Nat /\ PromptLen[c] > 0
  BY BatcherAssumption DEF IInv, TypeOK, Paid
<1>1. status[c] = "waiting"
  BY <1>0, StatusValues DEF IInv, Places, Admit, Popped
<1>2. \A w \in Lifecycle!In("waiting") : ~Precedes(w, c)
  BY StatusValues DEF Lifecycle!In, Admit, Popped, IsTop
<1>3. Cardinality(Lifecycle!In("running")) < Capacity
  <2>1. Lifecycle!In("running") \subseteq running_requests
    BY StatusValues DEF Lifecycle!In, IInv, Places
  <2>2. /\ Cardinality(Lifecycle!In("running")) <= Cardinality(running_requests)
        /\ Cardinality(Lifecycle!In("running")) \in Nat
        /\ Cardinality(running_requests) \in Nat
    BY <2>1, FS_Subset, FS_CardinalityType DEF IInv, Paid
  <2>3. /\ Cardinality(running_requests) < MaxNumSeqs
        /\ Cardinality(running_requests) <= result.total
        /\ result.total \in Nat
        /\ result.total + PromptLen[c] <= MaxBatchedTokens
    BY DEF IInv, TypeOK, BatchStepResult, Paid, Admit, Popped, MayAdmit, Fits
  <2>4. QED
    BY <1>0, <2>2, <2>3, BatcherAssumption DEF Capacity
<1>4. status' = [status EXCEPT ![c] = "running"]
  BY <1>0 DEF status, Admit, Popped, IInv, TypeOK
<1>5. Lifecycle!Cardinality(Lifecycle!In("running")) < Capacity
  BY <1>3 DEF Lifecycle!Cardinality, Cardinality
<1>6. QED
  BY <1>0, <1>1, <1>2, <1>4, <1>5 DEF Lifecycle!Start

(* Every step of the batcher is a step of the lifecycle or a stutter. *)
LEMMA StepRefines == IInv /\ IInv' /\ [Next]_vars => [Lifecycle!Next]_status
<1>. SUFFICES ASSUME IInv, IInv', [Next]_vars PROVE [Lifecycle!Next]_status
  OBVIOUS
<1>1. ASSUME NEW r \in Reqs, AddRequest(r) PROVE Lifecycle!Next
  BY <1>1, AddRequestSubmits DEF Lifecycle!Next
<1>2. ASSUME NEW i \in Ids, CancelRequest(i) PROVE [Lifecycle!Next]_status
  <2>1. request_map[i] \in Reqs /\ ~Fresh(request_map[i])
    BY <1>2 DEF IInv, TypeOK, MapAgrees, Fresh, CancelRequest
  <2>2. \A r \in Reqs : state'[r] = IF r \in {request_map[i]} THEN "FINISHED" ELSE state[r]
    BY <1>2 DEF IInv, TypeOK, CancelRequest
  <2>3. QED
    BY <1>2, <2>1, <2>2, FinishingEnds DEF CancelRequest
<1>3. ASSUME NEW S \in SUBSET Ids, UpdateRequestsState(S)
      PROVE  [Lifecycle!Next]_status
  <2>. DEFINE F == {r \in Reqs : \E i \in S : request_map[i] = r}
  <2>1. \A r \in F : ~Fresh(r)
    BY DEF IInv, MapAgrees, Fresh
  <2>2. \A r \in Reqs : state'[r] = IF r \in F THEN "FINISHED" ELSE state[r]
    BY <1>3 DEF UpdateRequestsState
  <2>3. F \in SUBSET Reqs /\ waiting_queue' = waiting_queue
    BY <1>3 DEF UpdateRequestsState
  <2>4. QED
    BY <2>1, <2>2, <2>3, FinishingEnds
<1>4. CASE BeginSchedule
  <2>. DEFINE F == running_requests \ ActiveRunning
  <2>1. F \in SUBSET Reqs /\ \A r \in F : ~Fresh(r)
    BY DEF IInv, TypeOK, Places, Fresh
  <2>2. /\ \A r \in Reqs : state'[r] = IF r \in F THEN "FINISHED" ELSE state[r]
        /\ waiting_queue' = waiting_queue
    BY <1>4, BeginIsFilter DEF StateAfterFilter
  <2>3. QED
    BY <2>1, <2>2, FinishingEnds
<1>5. ASSUME NEW c \in waiting_queue, SkipFinished(c) PROVE status' = status
  BY <1>5 DEF IInv, TypeOK, SkipFinished, Popped, status
<1>6. ASSUME NEW c \in waiting_queue, Admit(c) PROVE Lifecycle!Next
  BY <1>6, AdmitStarts DEF Lifecycle!Next
<1>7. CASE ReturnBatch
  BY <1>7 DEF ReturnBatch, status
<1>8. ASSUME NEW r \in Reqs, NEW eos \in BOOLEAN, ExecuteRequest(r, eos)
      PROVE  [Lifecycle!Next]_status
  <2>. DEFINE F == IF IsFinal(r, eos) THEN {r} ELSE {}
  <2>1. F \in SUBSET Reqs /\ \A q \in F : ~Fresh(q)
    BY <1>8 DEF IInv, BatchShape, Fresh, ExecuteRequest
  <2>2. \A q \in Reqs : state'[q] = IF q \in F THEN "FINISHED" ELSE state[q]
    BY <1>8 DEF IInv, TypeOK, ExecuteRequest
  <2>3. waiting_queue' = waiting_queue
    BY <1>8 DEF ExecuteRequest
  <2>4. QED
    BY <2>1, <2>2, <2>3, FinishingEnds
<1>9. CASE UNCHANGED vars
  BY <1>9 DEF vars, status
<1>10. QED
  BY <1>1, <1>2, <1>3, <1>4, <1>5, <1>6, <1>7, <1>8, <1>9 DEF Next, ScheduleStep

(* The batcher implements the request lifecycle. *)
THEOREM LifecycleImplemented == Spec => ImplementsLifecycle
<1>1. Init => Lifecycle!Init
  BY DEF Init, Lifecycle!Init, status
<1>2. QED
  BY <1>1, StepRefines, InvariantHolds, PTL DEF Spec, ImplementsLifecycle, Lifecycle!Spec

-----------------------------------------------------------------------------
(***************************************************************************)
(* The runner, for any number of steps, cancellations and drains of the    *)
(* stream.  RInv says what the batch handed out may hold at each point of  *)
(* step(), whom an id in the locals of step() still names, and that a      *)
(* request which is over has its final token among the outputs unless      *)
(* somebody cancelled its id.                                              *)
(***************************************************************************)

(* Where step() is tells what its locals and the batch hold; the requests  *)
(* of a batch under construction run.                                      *)
StepLocals ==
  /\ pc = "admit" => rpc = "filter" /\ todo = {}
  /\ pc = "admit" => \A r \in result.prefill \cup result.decode :
                       state[r] = "RUNNING" /\ r \in running_requests
  /\ rpc \in {"idle", "update"} => todo = {}
  /\ rpc # "execute" => generated_outputs = <<>>
  /\ rpc \in {"idle", "filter"} => finished_ids = {}

(* An id step() holds still names the request it was read from, or one     *)
(* that is over too, unless it was cancelled: reuse needs a cancel first.  *)
IdsStillMeant ==
  /\ cancelling # None => cancelling \in cancelled_requests
  /\ \A r \in todo : Id[r] \in cancelled_requests \/ request_map[Id[r]] = r
  /\ \A i \in finished_ids :
       \/ i \in cancelled_requests
       \/ request_map[i] \in Reqs /\ state[request_map[i]] = "FINISHED"

(* The final token of r is out. *)
Closed(r) == \E k \in OutputsOf(r) : Produced[k].final

NothingAfterFinal ==
  \A r \in Reqs : \A j, k \in OutputsOf(r) : j < k => ~Produced[j].final

(* The final token ends a request; a request that is over has one or was   *)
(* cancelled; one that runs has tokens left to generate, or is about to.   *)
Endings ==
  /\ \A r \in Reqs : Closed(r) => state[r] = "FINISHED" /\ r \notin todo
  /\ \A r \in Reqs : state[r] = "FINISHED" => Id[r] \in cancelled_requests \/ Closed(r)
  /\ \A r \in Reqs : state[r] = "RUNNING" =>
       \/ generated[r] < MaxNew[r] \/ Id[r] \in cancelled_requests \/ r \in todo
       \/ pc = "admit" /\ r \in result.prefill

(* No request whose cancellation came before the filter is left in a batch *)
(* that executes, and none is in its outputs.                              *)
Silence ==
  /\ \A r \in silenced : Id[r] \in cancelled_requests
  /\ rpc = "execute" => todo \cap silenced = {}
  /\ CancelSilences

RunnerTypes ==
  /\ rpc \in {"idle", "filter", "execute", "update"}
  /\ generated_outputs \in Seq(StreamOutput)
  /\ finished_ids \in SUBSET Ids
  /\ cancelled_requests \in SUBSET Ids
  /\ cancelling \in Ids \cup {None}
  /\ stream \in Seq(StreamOutput)
  /\ delivered \in Seq(StreamOutput)
  /\ silenced \in SUBSET Reqs

Outputs == StreamInOrder /\ NothingAfterFinal

RInv ==
  /\ IInv /\ RunnerTypes /\ StepLocals /\ IdsStillMeant /\ Endings /\ Silence
  /\ Outputs

-----------------------------------------------------------------------------
(* The outputs as one sequence: draining and pushing move the boundaries   *)
(* inside it, executing a request puts one output at its end.              *)
LEMMA ProducedType ==
  ASSUME RunnerTypes
  PROVE  Produced \in Seq(StreamOutput)
BY ConcatProperties DEF RunnerTypes, Produced

LEMMA PushMoves ==
  ASSUME RunnerTypes, stream' = Pushed, generated_outputs' = <<>>, delivered' = delivered
  PROVE  Produced' = Produced
<1> DEFINE d == delivered
           s == stream
           g == generated_outputs
<1>1. d \in Seq(StreamOutput) /\ s \in Seq(StreamOutput) /\ g \in Seq(StreamOutput)
  BY DEF RunnerTypes
<1>2. d \o (s \o g) = (d \o s) \o g
  BY <1>1, ConcatAssociative
<1>3. (d \o (s \o g)) \o <<>> = d \o (s \o g)
  BY <1>1, ConcatProperties, ConcatEmptySeq
<1> QED BY <1>2, <1>3 DEF Produced, Pushed

LEMMA PopAllMoves ==
  ASSUME RunnerTypes, PopAll
  PROVE  Produced' = Produced
<1>1. delivered \o stream \in Seq(StreamOutput)
  BY ConcatProperties DEF RunnerTypes
<1>2. (delivered \o stream) \o <<>> = delivered \o stream
  BY <1>1, ConcatEmptySeq
<1> QED BY <1>2 DEF Produced, PopAll

LEMMA PopTimeoutMoves ==
  ASSUME RunnerTypes, PopTimeout
  PROVE  Produced' = Produced
<1> DEFINE d == delivered
           s == stream
           T == StreamOutput
<1>1. d \in Seq(T) /\ s \in Seq(T) /\ s # <<>>
  BY DEF RunnerTypes, PopTimeout
<1> HIDE DEF T
<1>2. Append(d, Head(s)) \o Tail(s) = d \o s
  <2>1. /\ Head(s) \in T /\ Tail(s) \in Seq(T) /\ Len(Tail(s)) = Len(s) - 1
        /\ \A i \in 1..Len(Tail(s)) : Tail(s)[i] = s[i + 1]
        /\ Head(s) = s[1] /\ Len(s) \in Nat \ {0} /\ Len(d) \in Nat
    BY <1>1, HeadTailProperties, EmptySeq
  <2>2. /\ Append(d, Head(s)) \in Seq(T) /\ Len(Append(d, Head(s))) = Len(d) + 1
        /\ \A i \in 1..Len(d) + 1 :
             Append(d, Head(s))[i] = IF i <= Len(d) THEN d[i] ELSE Head(s)
    BY <1>1, <2>1
  <2> DEFINE l == Append(d, Head(s)) \o Tail(s)
             m == d \o s
  <2>3. /\ l \in Seq(T) /\ Len(l) = Len(d) + Len(s)
        /\ \A i \in 1..Len(d) + Len(s) : l[i] =
             IF i <= Len(d) + 1 THEN Append(d, Head(s))[i] ELSE Tail(s)[i - (Len(d) + 1)]
    BY <1>1, <2>1, <2>2, ConcatProperties
  <2>4. /\ m \in Seq(T) /\ Len(m) = Len(d) + Len(s)
        /\ \A i \in 1..Len(d) + Len(s) :
             m[i] = IF i <= Len(d) THEN d[i] ELSE s[i - Len(d)]
    BY <1>1, ConcatProperties
  <2>5. \A i \in 1..Len(l) : l[i] = m[i]
    BY <2>1, <2>2, <2>3, <2>4
  <2> QED BY <2>3, <2>4, <2>5, SeqEqual
<1> QED BY <1>2 DEF Produced, PopTimeout

LEMMA ExecuteAppends ==
  ASSUME RunnerTypes, NEW out \in StreamOutput,
         generated_outputs' = Append(generated_outputs, out),
         UNCHANGED <<stream, delivered>>
  PROVE  Produced' = Append(Produced, out)
<1> DEFINE p == delivered \o stream
           g == generated_outputs
           T == StreamOutput
<1>1. p \in Seq(T) /\ g \in Seq(T) /\ out \in T /\ <<out>> \in Seq(T)
  BY ConcatProperties DEF RunnerTypes
<1>2. Append(g, out) = g \o <<out>> /\ Append(p \o g, out) = (p \o g) \o <<out>>
  <2>1. p \o g \in Seq(T)
    BY <1>1, ConcatProperties
  <2> HIDE DEF p, g, T
  <2> QED BY <1>1, <2>1, AppendIsConcat
<1>3. p \o (g \o <<out>>) = (p \o g) \o <<out>>
  BY <1>1, ConcatAssociative
<1> QED BY <1>2, <1>3 DEF Produced

(* What the outputs say stays as it is while no token is generated. *)
LEMMA OutputsStay ==
  ASSUME Outputs, Produced' = Produced, generated' = generated
  PROVE  Outputs' /\ \A r \in Reqs : Closed(r)' <=> Closed(r)
<1>1. \A r : OutputsOf(r)' = OutputsOf(r)
  BY DEF OutputsOf
<1>2. StreamInOrder'
  BY <1>1 DEF Outputs, StreamInOrder
<1>3. NothingAfterFinal'
  BY <1>1 DEF Outputs, NothingAfterFinal
<1>4. \A r \in Reqs : Closed(r)' <=> Closed(r)
  BY <1>1 DEF Closed
<1> QED BY <1>2, <1>3, <1>4 DEF Outputs

(* One more token of a request that has no final one yet. *)
LEMMA OutputAdded ==
  ASSUME RunnerTypes, Outputs, generated \in [Reqs -> Nat],
         NEW r \in Reqs, NEW final \in BOOLEAN, NEW out \in StreamOutput,
         out.req = r, out.num = generated[r] + 1, out.final = final,
         Produced' = Append(Produced, out),
         generated' = [generated EXCEPT ![r] = @ + 1], ~Closed(r)
  PROVE  /\ Outputs'
         /\ \A q \in Reqs : Closed(q)' <=> Closed(q) \/ (q = r /\ final)
<1> DEFINE P == Produced
           Q == Produced'
           n == Len(Produced)
<1>1. /\ n \in Nat /\ DOMAIN P = 1..n /\ DOMAIN Q = 1..n + 1 /\ Q[n + 1] = out
      /\ \A k \in 1..n : Q[k] = P[k]
  <2>1. P \in Seq(StreamOutput)
    BY ProducedType
  <2>2. /\ Append(P, out) \in Seq(StreamOutput) /\ Len(Append(P, out)) = n + 1
        /\ Append(P, out)[n + 1] = out /\ \A k \in 1..n : Append(P, out)[k] = P[k]
    BY <2>1, AppendProperties
  <2> QED BY <2>1, <2>2, LenProperties
<1>2. ASSUME NEW q \in Reqs
      PROVE  OutputsOf(q)' = OutputsOf(q) \cup (IF q = r THEN {n + 1} ELSE {})
  BY <1>1 DEF OutputsOf
<1>3. \A q \in Reqs : \A k \in OutputsOf(q) : k \in 1..n /\ Q[k] = P[k]
  BY <1>1 DEF OutputsOf
<1>4. StreamInOrder'
  <2> SUFFICES ASSUME NEW q \in Reqs
               PROVE  /\ {Q[k].num : k \in OutputsOf(q)'} = 1..generated'[q]
                      /\ \A j, k \in OutputsOf(q)' : j < k => Q[j].num < Q[k].num
    BY DEF StreamInOrder
  <2>1. /\ {P[k].num : k \in OutputsOf(q)} = 1..generated[q]
        /\ \A j, k \in OutputsOf(q) : j < k => P[j].num < P[k].num
        /\ generated[q] \in Nat
    BY DEF Outputs, StreamInOrder
  <2>2. generated'[q] = IF q = r THEN generated[q] + 1 ELSE generated[q]
    OBVIOUS
  <2>3. {Q[k].num : k \in OutputsOf(q)} = 1..generated[q]
    BY <1>3, <2>1
  <2> HIDE DEF P, Q, n
  <2>4. CASE q # r
    BY <1>2, <1>3, <2>1, <2>2, <2>3, <2>4
  <2>5. CASE q = r
    <3>1. {Q[k].num : k \in OutputsOf(q) \cup {n + 1}}
            = {Q[k].num : k \in OutputsOf(q)} \cup {generated[q] + 1}
      BY <1>1, <2>5
    <3>2. 1..generated[q] + 1 = (1..generated[q]) \cup {generated[q] + 1}
      BY <2>1
    <3>3. ASSUME NEW k \in OutputsOf(q) PROVE Q[k].num < generated[q] + 1
      <4>1. Q[k].num \in {Q[l].num : l \in OutputsOf(q)}
        OBVIOUS
      <4>2. Q[k].num \in 1..generated[q]
        BY <2>3, <4>1
      <4> QED BY <2>1, <4>2
    <3>4. \A j, k \in OutputsOf(q) \cup {n + 1} : j < k => Q[j].num < Q[k].num
      <4> TAKE j, k \in OutputsOf(q) \cup {n + 1}
      <4>1. CASE j \in OutputsOf(q) /\ k \in OutputsOf(q)
        BY <1>3, <2>1, <4>1
      <4>2. CASE j \in OutputsOf(q) /\ k = n + 1
        BY <1>1, <2>5, <3>3, <4>2
      <4>3. CASE j = n + 1
        <5>1. k \in Nat /\ k <= n + 1 /\ n \in Nat
          BY <1>1, <1>3
        <5> QED BY <4>3, <5>1
      <4> QED BY <4>1, <4>2, <4>3
    <3> QED BY <1>2, <2>2, <2>3, <2>5, <3>1, <3>2, <3>4
  <2> QED BY <2>4, <2>5
<1>5. NothingAfterFinal'
  <2> SUFFICES ASSUME NEW q \in Reqs, NEW j \in OutputsOf(q)', NEW k \in OutputsOf(q)',
                      j < k
               PROVE  ~Q[j].final
    BY DEF NothingAfterFinal
  <2>1. \A i \in OutputsOf(q) : \A l \in OutputsOf(q) : i < l => ~P[i].final
    BY DEF Outputs, NothingAfterFinal
  <2>2. q = r => \A i \in OutputsOf(q) : ~P[i].final
    BY DEF Closed
  <2> HIDE DEF P, Q, n
  <2>3. j \in OutputsOf(q)
    BY <1>1, <1>2, <1>3
  <2>4. CASE k \in OutputsOf(q)
    BY <1>3, <2>1, <2>3, <2>4
  <2>5. CASE k = n + 1 /\ q = r
    BY <1>3, <2>2, <2>3, <2>5
  <2> QED BY <1>2, <2>4, <2>5
<1>6. \A q \in Reqs : Closed(q)' <=> Closed(q) \/ (q = r /\ final)
  <2> SUFFICES ASSUME NEW q \in Reqs
               PROVE  (\E k \in OutputsOf(q)' : Q[k].final)
                        <=> (\E k \in OutputsOf(q) : P[k].final) \/ (q = r /\ final)
    BY DEF Closed
  <2>1. out.final = final
    OBVIOUS
  <2> HIDE DEF P, Q, n
  <2> QED BY <1>1, <1>2, <1>3, <2>1
<1> QED BY <1>4, <1>5, <1>6 DEF Outputs

-----------------------------------------------------------------------------
(* The steps, one lemma each. *)
LEMMA RunnerInitInv == RunnerInit => RInv
<1> SUFFICES ASSUME RunnerInit PROVE RInv
  OBVIOUS
<1>1. IInv
  BY InitInv DEF RunnerInit
<1>2. RunnerTypes /\ StepLocals /\ IdsStillMeant /\ Silence
  BY DEF RunnerInit, Init, RunnerTypes, StepLocals, IdsStillMeant, Silence, CancelSilences
<1>3. \A r \in Reqs : OutputsOf(r) = {}
  <2>1. Produced = <<>>
    BY DEF RunnerInit, Produced
  <2> QED BY <2>1 DEF OutputsOf
<1>4. Outputs
  <2>1. StreamInOrder
    BY <1>3 DEF StreamInOrder, RunnerInit, Init
  <2> QED BY <1>3, <2>1 DEF Outputs, NothingAfterFinal
<1>5. Endings
  BY <1>3 DEF Endings, Closed, RunnerInit, Init
<1> QED BY <1>1, <1>2, <1>4, <1>5 DEF RInv

LEMMA StepScheduleInv ==
  ASSUME RInv, StepSchedule
  PROVE  RInv'
<1>1. IInv /\ IInv'
  BY BeginScheduleInv DEF RInv, StepSchedule
<1>2. /\ state' = StateAfterFilter /\ running_requests' = ActiveRunning
      /\ result' = [prefill |-> {}, decode |-> ActiveRunning,
                    total |-> Cardinality(ActiveRunning), preempted |-> 0]
      /\ request_map' = MapAfterFilter /\ todo' = {} /\ pc' = "admit"
      /\ generated' = generated /\ rpc = "idle" /\ rpc' = "filter"
      /\ UNCHANGED <<generated_outputs, finished_ids, cancelled_requests,
                     cancelling, stream, delivered, silenced>>
  BY <1>1, BeginIsFilter DEF StepSchedule, BeginSchedule
<1>3. RunnerTypes' /\ Silence'
  BY <1>2 DEF RInv, RunnerTypes, Silence, CancelSilences
<1>4. StepLocals'
  <2>1. \A r \in ActiveRunning : state'[r] = "RUNNING"
    BY <1>1, <1>2 DEF ActiveRunning, StateAfterFilter, IInv, TypeOK
  <2>2. result'.prefill = {} /\ result'.decode = ActiveRunning
    BY <1>2
  <2> QED BY <1>2, <2>1, <2>2 DEF RInv, StepLocals
<1>5. IdsStillMeant'
  BY <1>2 DEF RInv, StepLocals, IdsStillMeant
<1>6. Produced' = Produced
  BY <1>2 DEF Produced
<1>7. Outputs' /\ \A r \in Reqs : Closed(r)' <=> Closed(r)
  BY <1>2, <1>6, OutputsStay DEF RInv
<1>8. Endings'
  <2>1. todo = {} /\ pc # "admit"
    BY <1>2 DEF RInv, StepLocals
  <2>2. ASSUME NEW r \in Reqs, state'[r] = "FINISHED", state[r] # "FINISHED"
        PROVE  Id[r] \in cancelled_requests
    <3>1. r \in running_requests /\ r \notin ActiveRunning
      BY <1>2, <2>2 DEF StateAfterFilter
    <3>2. state[r] = "RUNNING"
      BY <2>2, <3>1 DEF RInv, IInv, Places
    <3>3. generated[r] >= MaxNew[r] /\ generated[r] \in Nat /\ MaxNew[r] \in Nat
      BY <2>2, <3>1, <3>2, BatcherAssumption DEF ActiveRunning, is_finished, RInv, IInv, TypeOK
    <3> QED BY <2>1, <3>2, <3>3 DEF RInv, Endings
  <2>3. \A r \in Reqs : state'[r] = "RUNNING" => state[r] = "RUNNING"
    BY <1>2 DEF StateAfterFilter
  <2>4. \A r \in Reqs : state[r] = "FINISHED" => state'[r] = "FINISHED"
    BY <1>2 DEF StateAfterFilter
  <2> QED BY <1>2, <1>7, <2>1, <2>2, <2>3, <2>4 DEF RInv, Endings
<1> QED BY <1>1, <1>3, <1>4, <1>5, <1>7, <1>8 DEF RInv

(* What the admission loop and the return of the batch leave alone. *)
LEMMA AdmissionQuiet ==
  ASSUME RInv, UNCHANGED runnerVars, UNCHANGED generated
  PROVE  /\ RunnerTypes' /\ Outputs' /\ \A r \in Reqs : Closed(r)' <=> Closed(r)
         /\ CancelSilences'
<1>1. Produced' = Produced
  BY DEF runnerVars, Produced
<1>2. RunnerTypes' /\ CancelSilences'
  BY DEF RInv, RunnerTypes, runnerVars, Silence, CancelSilences
<1> QED BY <1>1, <1>2, OutputsStay DEF RInv

LEMMA StepAdmissionInv ==
  ASSUME RInv, StepAdmission
  PROVE  RInv'
<1>1. IInv' /\ generated' = generated /\ UNCHANGED runnerVars /\ pc = "admit"
  BY SkipFinishedInv, AdmitInv, ReturnBatchInv
     DEF RInv, StepAdmission, SkipFinished, Admit, ReturnBatch
<1>2. /\ RunnerTypes' /\ Outputs' /\ \A r \in Reqs : Closed(r)' <=> Closed(r)
      /\ CancelSilences'
  BY <1>1, AdmissionQuiet
<1>3. rpc = "filter" /\ rpc' = "filter" /\ todo = {} /\ cancelling' = cancelling
      /\ cancelled_requests' = cancelled_requests /\ silenced' = silenced
      /\ finished_ids = {} /\ finished_ids' = {} /\ generated_outputs = <<>>
      /\ generated_outputs' = <<>>
  BY <1>1 DEF RInv, StepLocals, runnerVars
<1>4. ASSUME NEW c \in waiting_queue, SkipFinished(c) PROVE RInv'
  <2>1. UNCHANGED <<state, generated, running_requests, request_map, result, todo, pc>>
    BY <1>4 DEF SkipFinished
  <2>2. StepLocals' /\ IdsStillMeant' /\ Silence' /\ Endings'
    BY <1>2, <1>3, <2>1 DEF RInv, StepLocals, IdsStillMeant, Silence, Endings
  <2> QED BY <1>1, <1>2, <2>2 DEF RInv
<1>5. ASSUME NEW c \in waiting_queue, Admit(c) PROVE RInv'
  <2>1. /\ state' = [state EXCEPT ![c] = "RUNNING"] /\ state[c] # "FINISHED"
        /\ running_requests' = running_requests \cup {c}
        /\ result' = [result EXCEPT !.prefill = @ \cup {c}, !.total = @ + PromptLen[c]]
        /\ UNCHANGED <<generated, request_map, todo, pc>>
        /\ c \in Reqs /\ state \in [Reqs -> RequestState] /\ result \in BatchStepResult
    BY <1>5 DEF Admit, RInv, IInv, TypeOK
  <2>2. result'.prefill = result.prefill \cup {c} /\ result'.decode = result.decode
    BY <2>1 DEF BatchStepResult
  <2>3. \A r \in Reqs : state'[r] = IF r = c THEN "RUNNING" ELSE state[r]
    BY <2>1
  <2>4. StepLocals'
    <3>1. result.prefill \cup result.decode \subseteq Reqs
      BY <2>1 DEF BatchStepResult
    <3> QED BY <1>1, <1>3, <2>1, <2>2, <2>3, <3>1 DEF RInv, StepLocals
  <2>5. IdsStillMeant' /\ Silence'
    BY <1>2, <1>3, <2>1 DEF RInv, IdsStillMeant, Silence
  <2>6. Endings'
    BY <1>1, <1>2, <1>3, <2>1, <2>2, <2>3 DEF RInv, Endings
  <2> QED BY <1>1, <1>2, <2>4, <2>5, <2>6 DEF RInv
<1>6. CASE ReturnBatch
  <2>1. /\ todo' = result.prefill \cup result.decode /\ pc' = "idle"
        /\ UNCHANGED <<state, generated, waiting_queue, running_requests,
                       request_map, result>>
    BY <1>6 DEF ReturnBatch
  <2>2. \A r \in todo' : r \in Reqs /\ state[r] = "RUNNING" /\ request_map[Id[r]] = r
    BY <1>1, <2>1 DEF RInv, StepLocals, IInv, MapAgrees, TypeOK, BatchStepResult
  <2>3. StepLocals' /\ IdsStillMeant' /\ Silence'
    BY <1>2, <1>3, <2>1, <2>2 DEF RInv, StepLocals, IdsStillMeant, Silence
  <2>4. Endings'
    BY <1>2, <1>3, <2>1, <2>2 DEF RInv, Endings
  <2> QED BY <1>1, <1>2, <2>3, <2>4 DEF RInv
<1> QED BY <1>4, <1>5, <1>6 DEF StepAdmission

LEMMA StepFilterInv ==
  ASSUME RInv, StepFilter
  PROVE  RInv'
<1>1. /\ todo' = Survivors /\ rpc = "filter" /\ pc = "idle" /\ finished_ids' = {}
      /\ generated_outputs = <<>> /\ generated_outputs' = <<>>
      /\ rpc' = IF Survivors = {} THEN "idle" ELSE "execute"
      /\ UNCHANGED <<state, generated, waiting_queue, running_requests,
                     request_map, result, pc, cancelled_requests, cancelling,
                     stream, delivered, silenced>>
  BY DEF StepFilter, RInv, StepLocals
<1>2. Survivors \subseteq todo /\ \A r \in Survivors : Id[r] \notin cancelled_requests
  BY DEF Survivors
<1>3. IInv'
  <2>1. TypeOK'
    BY <1>1, <1>2 DEF RInv, IInv, TypeOK
  <2>2. BatchShape'
    BY <1>1, <1>2 DEF RInv, IInv, BatchShape, Precedes
  <2>3. Paid' /\ Places' /\ MapAgrees'
    BY <1>1 DEF RInv, IInv, Paid, Places, MapAgrees
  <2> QED BY <2>1, <2>2, <2>3 DEF IInv
<1>4. RunnerTypes'
  BY <1>1 DEF RInv, RunnerTypes
<1>5. StepLocals' /\ IdsStillMeant'
  BY <1>1, <1>2 DEF RInv, StepLocals, IdsStillMeant
<1>6. Silence'
  BY <1>1, <1>2 DEF RInv, Silence, CancelSilences
<1>7. Produced' = Produced
  BY <1>1 DEF Produced
<1>8. Outputs' /\ \A r \in Reqs : Closed(r)' <=> Closed(r)
  BY <1>1, <1>7, OutputsStay DEF RInv
<1>9. Endings'
  <2>1. \A r \in todo : r \in Survivors \/ Id[r] \in cancelled_requests
    BY DEF Survivors
  <2> QED BY <1>1, <1>2, <1>8, <2>1 DEF RInv, Endings
<1> QED BY <1>3, <1>4, <1>5, <1>6, <1>8, <1>9 DEF RInv

LEMMA StepExecuteInv ==
  ASSUME RInv, NEW r \in Reqs, NEW eos \in BOOLEAN, StepExecute(r, eos)
  PROVE  RInv'
<1> DEFINE final == IsFinal(r, eos)
           out == [req |-> r, num |-> generated[r] + 1, final |-> final]
<1>1. /\ rpc = "execute" /\ rpc' = "execute" /\ pc = "idle" /\ pc' = "idle" /\ r \in todo
      /\ generated' = [generated EXCEPT ![r] = @ + 1]
      /\ state' = [state EXCEPT ![r] = IF final THEN "FINISHED" ELSE @]
      /\ todo' = todo \ {r}
      /\ generated_outputs' = Append(generated_outputs, out)
      /\ finished_ids' = finished_ids \cup (IF final THEN {Id[r]} ELSE {})
      /\ UNCHANGED <<waiting_queue, running_requests, request_map, result,
                     cancelled_requests, cancelling, stream, delivered, silenced>>
  BY DEF StepExecute, ExecuteRequest, FinishedBy
<1>2. IInv'
  BY ExecuteRequestInv DEF RInv, StepExecute
<1>3. /\ final \in BOOLEAN /\ generated \in [Reqs -> Nat] /\ state \in [Reqs -> RequestState]
      /\ Id[r] \in Ids /\ MaxNew[r] \in Nat
  BY BatcherAssumption DEF IsFinal, RInv, IInv, TypeOK
<1>4. /\ out \in StreamOutput /\ out.req = r /\ out.num = generated[r] + 1
      /\ out.final = final
  BY <1>3 DEF StreamOutput
<1>5. ~final => generated[r] + 1 < MaxNew[r]
  BY <1>3 DEF IsFinal
<1>6. ~Closed(r) /\ RunnerTypes /\ Outputs
  BY <1>1 DEF RInv, Endings
<1> HIDE DEF final, out
<1>7. Produced' = Append(Produced, out)
  BY <1>1, <1>4, <1>6, ExecuteAppends
<1>8. Outputs' /\ \A q \in Reqs : Closed(q)' <=> Closed(q) \/ (q = r /\ final)
  BY <1>1, <1>3, <1>4, <1>6, <1>7, OutputAdded
<1>9. RunnerTypes'
  <2>1. generated_outputs' \in Seq(StreamOutput)
    BY <1>1, <1>4, <1>6, AppendProperties DEF RunnerTypes
  <2> QED BY <1>1, <1>3, <1>6, <2>1 DEF RunnerTypes
<1>10. StepLocals'
  BY <1>1 DEF StepLocals
<1>11. \A q \in Reqs : state'[q] = IF q = r /\ final THEN "FINISHED" ELSE state[q]
  BY <1>1, <1>3
<1>12. IdsStillMeant'
  <2>1. final => Id[r] \in cancelled_requests \/ request_map[Id[r]] = r
    BY <1>1 DEF RInv, IdsStillMeant
  <2> QED BY <1>1, <1>11, <2>1 DEF RInv, IdsStillMeant
<1>13. Silence'
  <2>1. r \notin silenced
    BY <1>1 DEF RInv, Silence
  <2>2. \A k \in DOMAIN generated_outputs : generated_outputs[k].req \notin silenced
    BY DEF RInv, Silence, CancelSilences
  <2>3. /\ DOMAIN generated_outputs = 1..Len(generated_outputs)
        /\ Len(generated_outputs) \in Nat
        /\ DOMAIN generated_outputs' = 1..Len(generated_outputs) + 1
        /\ \A k \in 1..Len(generated_outputs) : generated_outputs'[k] = generated_outputs[k]
        /\ generated_outputs'[Len(generated_outputs) + 1] = out
    BY <1>1, <1>4, <1>6, <1>9, AppendProperties, LenProperties DEF RunnerTypes
  <2>4. CancelSilences'
    BY <1>1, <1>4, <2>1, <2>2, <2>3 DEF CancelSilences
  <2> QED BY <1>1, <2>4 DEF RInv, Silence
<1>14. Endings'
  <2>1. \A q \in Reqs : generated'[q] = IF q = r THEN generated[q] + 1 ELSE generated[q]
    BY <1>1, <1>3
  <2>2. \A q \in Reqs : Closed(q)' => state'[q] = "FINISHED" /\ q \notin todo'
    BY <1>1, <1>8, <1>11 DEF RInv, Endings
  <2>3. \A q \in Reqs : state'[q] = "FINISHED" => Id[q] \in cancelled_requests \/ Closed(q)'
    BY <1>8, <1>11 DEF RInv, Endings
  <2>4. \A q \in Reqs : state'[q] = "RUNNING" =>
          generated'[q] < MaxNew[q] \/ Id[q] \in cancelled_requests \/ q \in todo'
    BY <1>1, <1>5, <1>11, <2>1 DEF RInv, Endings
  <2> QED BY <1>1, <2>2, <2>3, <2>4 DEF Endings
<1> QED BY <1>2, <1>8, <1>9, <1>10, <1>12, <1>13, <1>14 DEF RInv

(* Steps that leave the batcher alone and only move outputs or marks. *)
LEMMA BatcherUntouched ==
  ASSUME RInv, UNCHANGED vars, Produced' = Produced
  PROVE  /\ IInv' /\ Outputs'
         /\ \A r \in Reqs : Closed(r)' <=> Closed(r)
         /\ cancelled_requests \subseteq cancelled_requests' => Endings'
<1>1. IInv'
  BY StutterInv DEF RInv
<1>2. Outputs' /\ \A r \in Reqs : Closed(r)' <=> Closed(r)
  BY OutputsStay DEF RInv, vars
<1>3. ASSUME cancelled_requests \subseteq cancelled_requests' PROVE Endings'
  BY <1>2, <1>3 DEF RInv, Endings, vars
<1> QED BY <1>1, <1>2, <1>3

LEMMA StepPushInv ==
  ASSUME RInv, StepPush
  PROVE  RInv'
<1>1. Produced' = Produced
  BY PushMoves DEF RInv, StepPush
<1>2. IInv' /\ Outputs' /\ Endings'
  BY <1>1, BatcherUntouched DEF StepPush
<1>3. RunnerTypes'
  BY ConcatProperties DEF RInv, RunnerTypes, StepPush, Pushed
<1>4. StepLocals' /\ IdsStillMeant' /\ Silence'
  BY DEF RInv, StepLocals, IdsStillMeant, Silence, CancelSilences, StepPush, vars
<1> QED BY <1>2, <1>3, <1>4 DEF RInv

LEMMA ConsumeInv ==
  ASSUME RInv, Consume
  PROVE  RInv'
<1>1. Produced' = Produced
  BY PopAllMoves, PopTimeoutMoves DEF RInv, Consume
<1>2. /\ UNCHANGED <<vars, rpc, generated_outputs, finished_ids,
                     cancelled_requests, cancelling, silenced>>
  BY DEF Consume, PopAll, PopTimeout
<1>3. IInv' /\ Outputs' /\ Endings'
  BY <1>1, <1>2, BatcherUntouched
<1>4. RunnerTypes'
  <2>1. stream' \in Seq(StreamOutput) /\ delivered' \in Seq(StreamOutput)
    <3>1. CASE PopAll
      BY <3>1, ConcatProperties, EmptySeq DEF RInv, RunnerTypes, PopAll
    <3>2. CASE PopTimeout
      BY <3>2, HeadTailProperties, AppendProperties DEF RInv, RunnerTypes, PopTimeout
    <3> QED BY <3>1, <3>2 DEF Consume
  <2> QED BY <1>2, <2>1 DEF RInv, RunnerTypes
<1>5. StepLocals' /\ IdsStillMeant' /\ Silence'
  BY <1>2 DEF RInv, StepLocals, IdsStillMeant, Silence, CancelSilences, vars
<1> QED BY <1>3, <1>4, <1>5 DEF RInv

LEMMA CancelMarkInv ==
  ASSUME RInv, NEW i \in Ids, CancelMark(i)
  PROVE  RInv'
<1>1. /\ cancelling' = i /\ cancelled_requests' = cancelled_requests \cup {i}
      /\ UNCHANGED <<vars, rpc, generated_outputs, finished_ids, stream,
                     delivered, silenced>>
  BY DEF CancelMark, MarkCancelled
<1>2. Produced' = Produced
  BY <1>1 DEF Produced
<1>3. IInv' /\ Outputs' /\ Endings'
  BY <1>1, <1>2, BatcherUntouched
<1>4. RunnerTypes'
  BY <1>1 DEF RInv, RunnerTypes
<1>5. StepLocals' /\ IdsStillMeant' /\ Silence'
  BY <1>1 DEF RInv, StepLocals, IdsStillMeant, Silence, CancelSilences, vars
<1> QED BY <1>3, <1>4, <1>5 DEF RInv

LEMMA RunnerStutterInv ==
  ASSUME RInv, UNCHANGED allVars
  PROVE  RInv'
<1>1. Produced' = Produced
  BY DEF Produced, allVars, runnerVars
<1>2. IInv' /\ Outputs' /\ Endings'
  BY <1>1, BatcherUntouched DEF allVars, runnerVars
<1>3. RunnerTypes' /\ StepLocals' /\ IdsStillMeant' /\ Silence'
  BY DEF RInv, RunnerTypes, StepLocals, IdsStillMeant, Silence, CancelSilences,
         allVars, runnerVars, vars
<1> QED BY <1>2, <1>3 DEF RInv

LEMMA StepUpdateInv ==
  ASSUME RInv, StepUpdate
  PROVE  RInv'
<1>1. /\ rpc = "update" /\ rpc' = "idle" /\ finished_ids' = {} /\ pc = "idle" /\ todo = {}
      /\ state' = [r \in Reqs |-> IF \E i \in finished_ids : request_map[i] = r
                                   THEN "FINISHED" ELSE state[r]]
      /\ UNCHANGED <<generated, waiting_queue, running_requests, request_map,
                     result, todo, pc>>
      /\ UNCHANGED <<generated_outputs, cancelled_requests, cancelling, stream,
                     delivered, silenced>>
  BY DEF StepUpdate, UpdateRequestsState, RInv, StepLocals
<1>2. IInv'
  <2>1. finished_ids \in SUBSET Ids /\ UpdateRequestsState(finished_ids)
    BY DEF StepUpdate, RInv, RunnerTypes
  <2> QED BY <2>1, UpdateRequestsStateInv DEF RInv
<1>3. Produced' = Produced
  BY <1>1 DEF Produced
<1>4. Outputs' /\ \A r \in Reqs : Closed(r)' <=> Closed(r)
  BY <1>1, <1>3, OutputsStay DEF RInv
<1>5. RunnerTypes' /\ StepLocals' /\ IdsStillMeant' /\ Silence'
  BY <1>1 DEF RInv, RunnerTypes, StepLocals, IdsStillMeant, Silence, CancelSilences
<1>6. Endings'
  <2>1. ASSUME NEW r \in Reqs, state'[r] = "FINISHED", state[r] # "FINISHED"
        PROVE  Id[r] \in cancelled_requests
    <3>1. PICK i \in finished_ids : request_map[i] = r
      BY <1>1, <2>1
    <3>2. i \in Ids /\ Id[r] = i
      BY <3>1, BatcherAssumption DEF RInv, RunnerTypes, IInv, MapAgrees
    <3> QED BY <2>1, <3>1, <3>2 DEF RInv, IdsStillMeant
  <2>2. \A r \in Reqs : state'[r] = "FINISHED" \/ state'[r] = state[r]
    BY <1>1
  <2> QED BY <1>1, <1>4, <2>1, <2>2 DEF RInv, Endings
<1> QED BY <1>2, <1>4, <1>5, <1>6 DEF RInv

LEMMA CancelInBatcherInv ==
  ASSUME RInv, CancelInBatcher
  PROVE  RInv'
<1> DEFINE c == request_map[cancelling]
<1>1. /\ cancelling # None /\ cancelling \in Ids /\ cancelling' = None /\ pc = "idle"
      /\ silenced' = IF rpc \in {"idle", "filter"} THEN silenced \cup ({c} \ {None})
                     ELSE silenced
      /\ UNCHANGED <<rpc, generated_outputs, finished_ids, cancelled_requests,
                     stream, delivered>>
      /\ cancelling \in cancelled_requests
  BY DEF CancelInBatcher, CancelRequest, RInv, RunnerTypes, IdsStillMeant
<1>2. c = None \/ (c \in Reqs /\ Id[c] = cancelling)
  BY <1>1 DEF RInv, IInv, TypeOK, MapAgrees
<1>3. Produced' = Produced
  BY <1>1 DEF Produced
<1>4. RunnerTypes'
  BY <1>1, <1>2 DEF RInv, RunnerTypes
<1>5. generated' = generated /\ todo' = todo /\ pc' = pc /\ result' = result
  BY DEF CancelInBatcher, CancelRequest, vars
<1>6. Outputs' /\ \A r \in Reqs : Closed(r)' <=> Closed(r)
  BY <1>3, <1>5, OutputsStay DEF RInv
<1>7. IInv'
  BY <1>1, CancelRequestInv, StutterInv DEF CancelInBatcher, RInv
<1>8. /\ \A r \in Reqs : state'[r] = state[r]
                         \/ (state'[r] = "FINISHED" /\ Id[r] = cancelling)
      /\ \A i \in Ids : i # cancelling => request_map'[i] = request_map[i]
  <2>1. CASE CancelRequest(cancelling)
    BY <1>1, <1>2, <2>1 DEF CancelRequest, RInv, IInv, TypeOK
  <2>2. CASE UNCHANGED vars
    BY <2>2 DEF vars
  <2> QED BY <2>1, <2>2 DEF CancelInBatcher
<1>9. StepLocals'
  BY <1>1, <1>5 DEF RInv, StepLocals
<1>10. IdsStillMeant'
  <2>1. \A r \in todo : r \in Reqs /\ Id[r] \in Ids
    BY BatcherAssumption DEF RInv, IInv, TypeOK
  <2>2. \A r \in todo' : Id[r] \in cancelled_requests' \/ request_map'[Id[r]] = r
    BY <1>1, <1>5, <1>8, <2>1 DEF RInv, IdsStillMeant
  <2>3. ASSUME NEW i \in finished_ids'
        PROVE  \/ i \in cancelled_requests'
               \/ request_map'[i] \in Reqs /\ state'[request_map'[i]] = "FINISHED"
    BY <1>1, <1>8, <2>3 DEF RInv, IdsStillMeant, RunnerTypes
  <2> QED BY <1>1, <2>2, <2>3 DEF IdsStillMeant
<1>11. Silence'
  BY <1>1, <1>2, <1>5 DEF RInv, StepLocals, Silence, CancelSilences
<1>12. Endings'
  BY <1>1, <1>5, <1>6, <1>8 DEF RInv, Endings
<1> QED BY <1>4, <1>6, <1>7, <1>9, <1>10, <1>11, <1>12 DEF RInv

LEMMA SubmitInv ==
  ASSUME RInv, NEW r \in Reqs, Submit(r)
  PROVE  RInv'
<1>1. /\ pc = "idle" /\ state[r] = "WAITING" /\ request_map[Id[r]] = None
      /\ state' = [state EXCEPT ![r] = "WAITING"]
      /\ request_map' = [request_map EXCEPT ![Id[r]] = r]
      /\ UNCHANGED <<generated, running_requests, result, todo, pc>>
      /\ UNCHANGED runnerVars
  BY DEF Submit, AddRequest, Fresh, Known
<1>2. IInv' /\ state \in [Reqs -> RequestState] /\ request_map \in [Ids -> Reqs \cup {None}]
  BY AddRequestInv DEF Submit, RInv, IInv, TypeOK
<1>3. RunnerTypes' /\ Outputs' /\ CancelSilences' /\ \A q \in Reqs : Closed(q)' <=> Closed(q)
  BY <1>1, AdmissionQuiet
<1>4. state' = state
  BY <1>1, <1>2
<1>5. StepLocals'
  BY <1>1, <1>4 DEF RInv, StepLocals, runnerVars
<1>6. IdsStillMeant'
  <2>1. \A q \in todo : q \in Reqs /\ Id[q] \in Ids
    BY BatcherAssumption DEF RInv, IInv, TypeOK
  <2>2. \A i \in Ids : request_map'[i] = request_map[i] \/ request_map[i] = None
    BY <1>1, <1>2
  <2>3. None \notin Reqs
    BY BatcherAssumption
  <2> QED BY <1>1, <1>4, <2>1, <2>2, <2>3 DEF RInv, RunnerTypes, IdsStillMeant, runnerVars
<1>7. Silence'
  BY <1>1, <1>3 DEF RInv, Silence, runnerVars
<1>8. Endings'
  BY <1>1, <1>3, <1>4 DEF RInv, Endings, runnerVars
<1> QED BY <1>2, <1>3, <1>5, <1>6, <1>7, <1>8 DEF RInv

(* RInv is inductive. *)
LEMMA RunnerNextInv ==
  ASSUME RInv, [RunnerNext]_allVars
  PROVE  RInv'
BY StepScheduleInv, StepAdmissionInv, StepFilterInv, StepExecuteInv, StepPushInv,
   StepUpdateInv, CancelMarkInv, CancelInBatcherInv, SubmitInv, ConsumeInv,
   RunnerStutterInv DEF RunnerNext, RunnerStep

LEMMA RunnerInvariantHolds == RunnerSpec => []RInv
BY RunnerInitInv, RunnerNextInv, PTL DEF RunnerSpec

-----------------------------------------------------------------------------
(* Type correctness of the runner. *)
THEOREM RunnerTypeCorrect == RunnerSpec => []RunnerTypeOK
<1>1. RInv => RunnerTypeOK
  BY DEF RInv, IInv, RunnerTypes, RunnerTypeOK
<1> QED BY <1>1, RunnerInvariantHolds, PTL

(* The consumer of the stream gets every token of a request once and in    *)
(* order, nothing after a final one, and a final one for every request     *)
(* that is over unless its id was cancelled, for any interleaving of       *)
(* step(), cancellations and drains.                                       *)
THEOREM StreamExact == RunnerSpec => []OutputsExact
<1>1. RInv => OutputsExact
  BY DEF RInv, Outputs, NothingAfterFinal, Endings, Closed, OutputsExact,
         OneFinalOutput
<1> QED BY <1>1, RunnerInvariantHolds, PTL

(* A cancellation that returns before the filter of a step is the end of   *)
(* the request's tokens.                                                   *)
THEOREM CancelIsFinal == RunnerSpec => []CancelSilences
<1>1. RInv => CancelSilences
  BY DEF RInv, Silence
<1> QED BY <1>1, RunnerInvariantHolds, PTL

(* step(), with its filter between the locks, still implements the request *)
(* lifecycle.                                                              *)
THEOREM RunnerImplementsLifecycle == RunnerSpec => ImplementsLifecycle
<1>1. RunnerInit => Lifecycle!Init
  BY DEF RunnerInit, Init, Lifecycle!Init, status
<1>2. ASSUME RInv, RInv', [RunnerNext]_allVars PROVE [Lifecycle!Next]_status
  <2>1. CASE [Next]_vars
    BY <1>2, <2>1, StepRefines DEF RInv
  <2>2. CASE StepFilter
    BY <2>2 DEF StepFilter, status
  <2>3. [Next]_vars \/ StepFilter
    <3>1. CASE RunnerStep /\ ~StepFilter
      <4>1. CASE StepSchedule \/ StepAdmission
        BY <4>1 DEF StepSchedule, StepAdmission, Next, ScheduleStep
      <4>2. ASSUME NEW r \in Reqs, NEW eos \in BOOLEAN, StepExecute(r, eos) PROVE Next
        BY <4>2 DEF StepExecute, Next
      <4>3. CASE StepPush
        BY <4>3 DEF StepPush
      <4>4. CASE StepUpdate
        <5>1. finished_ids \in SUBSET Ids /\ UpdateRequestsState(finished_ids)
          BY <1>2, <4>4 DEF StepUpdate, RInv, RunnerTypes
        <5> QED BY <5>1 DEF Next
      <4> QED BY <3>1, <4>1, <4>2, <4>3, <4>4 DEF RunnerStep
    <3>2. CASE RunnerNext /\ ~RunnerStep
      BY <1>2, <3>2 DEF RunnerNext, CancelMark, MarkCancelled, CancelInBatcher, Submit,
                        Consume, PopAll, PopTimeout, Next, RInv, RunnerTypes
    <3> QED BY <1>2, <3>1, <3>2 DEF allVars
  <2> QED BY <2>1, <2>2, <2>3
<1> QED BY <1>1, <1>2, RunnerInvariantHolds, PTL
        DEF RunnerSpec, ImplementsLifecycle, Lifecycle!Spec
=============================================================================
