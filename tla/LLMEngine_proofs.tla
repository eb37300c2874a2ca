-------------------------- MODULE LLMEngine_proofs --------------------------
(***************************************************************************)
(* Proofs about LLMEngine, for any clients, limits, pages and stop tokens. *)
(* EInv extends the inductive invariant of the batcher to the coroutines:  *)
(* what a step of the engine has put out and not handled yet explains      *)
(* every difference there is, in the middle of a step, between scheduler,  *)
(* cache, table of active requests, queues and clients.                    *)
(***************************************************************************)
EXTENDS LLMEngine, Scheduler_proofs, SequenceTheorems, SumTheorems

(* Values along a sequence of outputs, and whose they are. *)
Named(s) == {s[k].req : k \in DOMAIN s}
OnceEach(s) == \A j, k \in DOMAIN s : s[j].req = s[k].req => j = k

(* Outputs of the present step that step() has not handled yet. *)
Unhandled == Range(raw_outputs) \cup Range(stream) \cup Range(generated_outputs)
Awaited == {out.req : out \in Unhandled}

Holds(r) == r \in Sequenced /\ r \in active_requests /\ r \in request_queues
Holding == Sequenced \cup active_requests \cup request_queues

(* Where the coroutine is tells what the locals of the calls under it hold.*)
Locations ==
  /\ epc # "step" => rpc = "idle" /\ pc = "idle" /\ stream = <<>>
  /\ epc # "handle" => raw_outputs = <<>> /\ finished_req_ids = {}
  /\ epc \notin {"handle", "deliver"} => results = <<>>
  /\ epc = "deliver" => results # <<>>
  /\ epc # "cancel" => cancelling = None
  /\ pc = "admit" => rpc = "filter" /\ todo = {}
  /\ rpc \in {"idle", "update"} => todo = {}
  /\ rpc # "execute" => generated_outputs = <<>>
  /\ rpc \in {"filter", "execute"} => stream = <<>>
  /\ rpc \in {"idle", "filter"} => finished_ids = {}

(* The batch runs, and is executed once; whoever runs has tokens left.     *)
Batch ==
  /\ \A r \in todo : state[r] = "RUNNING" /\ r \notin Awaited
  /\ pc = "admit" => \A r \in result.prefill \cup result.decode : state[r] = "RUNNING"
  /\ \A r \in Reqs : state[r] = "RUNNING" =>
       generated[r] < MaxNew[r] \/ r \in todo \/ (pc = "admit" /\ r \in result.prefill)
  /\ \A r \in Reqs : Id[r] \in finished_ids => state[r] = "FINISHED"

(* A live request has a prompt and holds its sequence, its entry and its   *)
(* queue, but for the one being cancelled; a cancelled one is not live.    *)
LiveHeld ==
  /\ Live \subseteq Prompted
  /\ \A r \in Live : Holds(r) \/ (epc = "cancel" /\ Id[r] = cancelling)
  /\ \A r \in Live : Id[r] \in cancelled_requests => epc = "cancel" /\ Id[r] = cancelling
  /\ epc = "cancel" => \A r \in Holding : Id[r] # cancelling

(* What a client that has not submitted its request cannot have. *)
Clients ==
  /\ \A r \in Reqs : client[r] = "new" =>
       Fresh(r) /\ generated[r] = 0 /\ Id[r] \notin cancelled_requests
  /\ \A r \in Reqs : client[r] \in {"new", "failed"} =>
       r \notin Holding /\ queue[r] = <<>> /\ received[r] = <<>>
  /\ \A r \in request_queues :
       client[r] \in {"waiting", "gone"} /\ \A k \in DOMAIN queue[r] : ~queue[r][k].final

(* A step puts out one output at most for a request, its last token. *)
StepOutputs ==
  /\ OnceEach(generated_outputs) /\ OnceEach(stream)
  /\ OnceEach(raw_outputs) /\ OnceEach(results)
  /\ Named(results) \cap Named(raw_outputs) = {}
  /\ \A out \in Unhandled :
       /\ Holds(out.req) /\ out.num = generated[out.req]
       /\ state[out.req] = IF out.final THEN "FINISHED" ELSE "RUNNING"
  /\ \A out \in Range(results) :
       /\ out.req \in request_queues /\ out.num = generated[out.req]
       /\ epc = "deliver" /\ out.final => out.req \notin Live
  /\ epc = "handle" => finished_req_ids = {out.req : out \in {o \in Range(results) : o.final}}

(* Until an append runs out of pages: what is held is held for a live      *)
(* request, or for one whose final output is on its way to the clean-up.   *)
HeldForCause ==
  /\ \A r \in Prompted \cap (Sequenced \cup active_requests) :
       r \in Live \cup Awaited \cup finished_req_ids
  /\ \A r \in Prompted \cap request_queues :
       r \in Live \cup Awaited \/ \E out \in Range(results) : out.req = r /\ out.final

Behind(r) == IF r \in Awaited \cup finished_req_ids THEN 1 ELSE 0

CacheExact ==
  \A r \in Sequenced : kv_tokens[r] + Behind(r) = PromptLen[r] + generated[r]

OnTheWay(r) == IF r \in Awaited \cup Named(results) THEN 1 ELSE 0

(* A client has its tokens in order; what is in its queue continues them,  *)
(* and what is on the way is the last one that was generated.              *)
InOrder(r) ==
  /\ \A k \in DOMAIN received[r] :
       /\ received[r][k].num = k
       /\ received[r][k].final <=> k = Len(received[r]) /\ client[r] = "done"
  /\ \A k \in DOMAIN queue[r] :
       /\ queue[r][k].num = Len(received[r]) + k
       /\ queue[r][k].final => k = Len(queue[r])
  /\ client[r] = "done" => queue[r] = <<>>
  /\ r \in request_queues =>
       Len(received[r]) + Len(queue[r]) + OnTheWay(r) = generated[r]

Delivery == \A r \in Reqs : InOrder(r)

EInv ==
  /\ IInv /\ EngineTypeOK /\ IsFiniteSet(Sequenced)
  /\ Locations /\ Batch /\ LiveHeld /\ Clients /\ StepOutputs
  /\ append_failed \/ (HeldForCause /\ CacheExact /\ Delivery)

-----------------------------------------------------------------------------
(* Sequences of outputs. *)
LEMMA NoOutputs == Range(<<>>) = {} /\ Named(<<>>) = {} /\ OnceEach(<<>>)
BY DEF Range, Named, OnceEach

LEMMA NamedInRange ==
  ASSUME NEW s
  PROVE  Named(s) = {out.req : out \in Range(s)}
BY DEF Named, Range

LEMMA Appending ==
  ASSUME NEW s \in Seq(StreamOutput), NEW out \in StreamOutput
  PROVE  /\ Append(s, out) \in Seq(StreamOutput)
         /\ Range(Append(s, out)) = Range(s) \cup {out}
         /\ Named(Append(s, out)) = Named(s) \cup {out.req}
         /\ OnceEach(s) /\ out.req \notin Named(s) => OnceEach(Append(s, out))
<1>1. PICK n \in Nat : n = Len(s)
  OBVIOUS
<1>2. DOMAIN s = 1..n /\ DOMAIN Append(s, out) = 1..n + 1
  BY <1>1
<1>3. /\ Append(s, out)[n + 1] = out
      /\ \A i \in 1..n : Append(s, out)[i] = s[i]
  BY <1>1, <1>2
<1>4. 1..n + 1 = (1..n) \cup {n + 1}
  OBVIOUS
<1>5. Range(Append(s, out)) = Range(s) \cup {out}
  BY <1>2, <1>3, <1>4 DEF Range
<1>6. Named(Append(s, out)) = Named(s) \cup {out.req}
  BY <1>2, <1>3, <1>4 DEF Named
<1>7. ASSUME OnceEach(s), out.req \notin Named(s) PROVE OnceEach(Append(s, out))
  <2>1. \A i \in 1..n : s[i].req # out.req
    BY <1>2, <1>7 DEF Named
  <2> QED BY <1>2, <1>3, <1>4, <1>7, <2>1 DEF OnceEach
<1> QED BY <1>5, <1>6, <1>7

LEMMA Taking ==
  ASSUME NEW s \in Seq(StreamOutput), s # <<>>, OnceEach(s)
  PROVE  /\ Head(s) \in Range(s) /\ Head(s) \in StreamOutput
         /\ Tail(s) \in Seq(StreamOutput) /\ OnceEach(Tail(s))
         /\ Range(Tail(s)) = Range(s) \ {Head(s)}
         /\ Named(Tail(s)) = Named(s) \ {Head(s).req}
         /\ \A out \in Range(s) : out.req = Head(s).req => out = Head(s)
<1>1. Len(s) \in Nat \ {0} /\ DOMAIN s = 1..Len(s)
  BY EmptySeq
<1>2. PICK n \in Nat : Len(s) = n + 1
  <2>1. Len(s) - 1 \in Nat /\ Len(s) = (Len(s) - 1) + 1
    BY <1>1
  <2> QED BY <2>1
<1>3. Head(s) = s[1] /\ 1 \in DOMAIN s /\ s[1] \in StreamOutput
  BY <1>1, <1>2
<1>4. /\ Tail(s) \in Seq(StreamOutput) /\ DOMAIN Tail(s) = 1..n
      /\ \A i \in 1..n : Tail(s)[i] = s[i + 1]
  BY <1>1, <1>2
<1>5. \A i \in 1..n : i + 1 \in DOMAIN s /\ s[i + 1].req # s[1].req
  <2> SUFFICES ASSUME NEW i \in 1..n
               PROVE  i + 1 \in DOMAIN s /\ s[i + 1].req # s[1].req
    OBVIOUS
  <2>1. i + 1 \in DOMAIN s /\ 1 \in DOMAIN s /\ i + 1 # 1
    BY <1>1, <1>2
  <2> QED BY <2>1 DEF OnceEach
<1>6. \A j \in DOMAIN s : j = 1 \/ \E i \in 1..n : j = i + 1
  <2> SUFFICES ASSUME NEW j \in DOMAIN s, j # 1 PROVE \E i \in 1..n : j = i + 1
    OBVIOUS
  <2>1. j - 1 \in 1..n /\ (j - 1) + 1 = j
    BY <1>1, <1>2
  <2> QED BY <2>1
<1>7. Range(Tail(s)) = Range(s) \ {Head(s)}
  <2>1. \A x \in Range(Tail(s)) : x \in Range(s) \ {Head(s)}
    BY <1>3, <1>4, <1>5 DEF Range
  <2>2. ASSUME NEW x \in Range(s), x # Head(s) PROVE x \in Range(Tail(s))
    <3>1. PICK j \in DOMAIN s : x = s[j]
      BY DEF Range
    <3>2. PICK i \in 1..n : j = i + 1
      BY <1>3, <1>6, <2>2, <3>1
    <3> QED BY <1>4, <3>1, <3>2 DEF Range
  <2> QED BY <2>1, <2>2
<1>8. Named(Tail(s)) = Named(s) \ {Head(s).req}
  <2>1. \A x \in Named(Tail(s)) : x \in Named(s) \ {Head(s).req}
    BY <1>3, <1>4, <1>5 DEF Named
  <2>2. ASSUME NEW x \in Named(s), x # Head(s).req PROVE x \in Named(Tail(s))
    <3>1. PICK j \in DOMAIN s : x = s[j].req
      BY DEF Named
    <3>2. PICK i \in 1..n : j = i + 1
      BY <1>3, <1>6, <2>2, <3>1
    <3> QED BY <1>4, <3>1, <3>2 DEF Named
  <2> QED BY <2>1, <2>2
<1>9. OnceEach(Tail(s))
  <2> SUFFICES ASSUME NEW i \in 1..n, NEW j \in 1..n, s[i + 1].req = s[j + 1].req
               PROVE  i = j
    BY <1>4 DEF OnceEach
  <2>1. i + 1 = j + 1
    BY <1>5 DEF OnceEach
  <2> QED BY <2>1
<1>10. \A out \in Range(s) : out.req = Head(s).req => out = Head(s)
  BY <1>3, <1>5, <1>6 DEF Range
<1> QED BY <1>3, <1>4, <1>7, <1>8, <1>9, <1>10 DEF Range

(* Between two steps and while outputs are delivered none is unhandled. *)
LEMMA AllHandled ==
  ASSUME Locations, epc \notin {"step", "handle"}
  PROVE  /\ Unhandled = {} /\ Awaited = {} /\ raw_outputs = <<>> /\ stream = <<>>
         /\ generated_outputs = <<>> /\ todo = {} /\ finished_req_ids = {}
         /\ finished_ids = {} /\ rpc = "idle" /\ pc = "idle"
<1>1. /\ raw_outputs = <<>> /\ stream = <<>> /\ generated_outputs = <<>> /\ todo = {}
      /\ finished_req_ids = {} /\ finished_ids = {} /\ rpc = "idle" /\ pc = "idle"
  BY DEF Locations
<1> QED BY <1>1, NoOutputs DEF Unhandled, Awaited

-----------------------------------------------------------------------------
(* The pages of the cache. *)
LEMMA PagesIsNat == ASSUME NEW n \in Nat PROVE Pages(n) \in Nat
<1>1. PICK b \in Nat \ {0} : b = BlockSize
  BY EngineAssumption
<1>2. (n + b - 1) \div b \in Nat
  OBVIOUS
<1> QED BY <1>1, <1>2 DEF Pages

PagesOf(cache) == [s \in DOMAIN cache |-> Pages(cache[s])]

PagesIn(cache) == SumFunctionOnSet(PagesOf(cache), DOMAIN cache)

LEMMA FreePagesAre ==
  /\ FreePages = TotalGpuBlocks - lost_pages - PagesIn(kv_tokens)
  /\ FreePages' = TotalGpuBlocks - lost_pages' - PagesIn(kv_tokens')
<1>1. /\ DOMAIN PagesOf(kv_tokens) = DOMAIN kv_tokens
      /\ DOMAIN PagesOf(kv_tokens') = DOMAIN kv_tokens'
  BY DEF PagesOf
<1> QED BY <1>1 DEF FreePages, PagesIn, PagesOf, SumFunction, Sequenced

Cache(cache) == IsFiniteSet(DOMAIN cache) /\ \A s \in DOMAIN cache : cache[s] \in Nat

LEMMA PagesInIsNat ==
  ASSUME NEW cache, Cache(cache)
  PROVE  /\ PagesIn(cache) \in Nat
         /\ \A s \in DOMAIN cache :
              PagesOf(cache)[s] = Pages(cache[s]) /\ Pages(cache[s]) \in Nat
<1>1. \A s \in DOMAIN cache :
        PagesOf(cache)[s] = Pages(cache[s]) /\ Pages(cache[s]) \in Nat
  BY PagesIsNat DEF PagesOf, Cache
<1> QED BY <1>1, SumIsNat DEF PagesIn, Cache

LEMMA PagesRegistered ==
  ASSUME NEW cache, NEW cache2, Cache(cache), NEW r, r \notin DOMAIN cache, NEW n \in Nat,
         DOMAIN cache2 = DOMAIN cache \cup {r}, cache2[r] = n,
         \A s \in DOMAIN cache : cache2[s] = cache[s]
  PROVE  Cache(cache2) /\ PagesIn(cache2) = PagesIn(cache) + Pages(n)
<1>1. Cache(cache2)
  BY FS_AddElement DEF Cache
<1>2. /\ \A s \in DOMAIN cache2 : PagesOf(cache2)[s] \in Nat
      /\ \A s \in DOMAIN cache : PagesOf(cache2)[s] = PagesOf(cache)[s]
      /\ PagesOf(cache2)[r] = Pages(n)
  BY <1>1, PagesInIsNat DEF PagesOf
<1>3. PagesIn(cache2) =
        SumFunctionOnSet(PagesOf(cache2), DOMAIN cache) + PagesOf(cache2)[r]
  BY <1>2, SumWith DEF PagesIn, Cache
<1>4. SumFunctionOnSet(PagesOf(cache2), DOMAIN cache) = PagesIn(cache)
  BY <1>2, SumOfSame DEF PagesIn, Cache
<1> QED BY <1>1, <1>2, <1>3, <1>4

LEMMA PagesAppended ==
  ASSUME NEW cache, NEW cache2, Cache(cache), NEW r \in DOMAIN cache, NEW n \in Nat,
         DOMAIN cache2 = DOMAIN cache, cache2[r] = n,
         \A s \in DOMAIN cache \ {r} : cache2[s] = cache[s]
  PROVE  Cache(cache2) /\ PagesIn(cache2) = PagesIn(cache) + (Pages(n) - Pages(cache[r]))
<1>1. Cache(cache2)
  BY DEF Cache
<1>2. /\ \A s \in DOMAIN cache : PagesOf(cache2)[s] \in Nat /\ PagesOf(cache)[s] \in Nat
      /\ \A s \in DOMAIN cache \ {r} : PagesOf(cache2)[s] = PagesOf(cache)[s]
      /\ PagesOf(cache2)[r] = Pages(n) /\ PagesOf(cache)[r] = Pages(cache[r])
  BY <1>1, PagesInIsNat DEF PagesOf
<1> DEFINE rest == SumFunctionOnSet(PagesOf(cache), DOMAIN cache \ {r})
<1>3. PagesIn(cache) = PagesOf(cache)[r] + rest
  BY <1>2, SumWithout DEF PagesIn, Cache
<1>4. PagesIn(cache2) =
        PagesOf(cache2)[r] + SumFunctionOnSet(PagesOf(cache2), DOMAIN cache \ {r})
  BY <1>2, SumWithout DEF PagesIn, Cache
<1>5. IsFiniteSet(DOMAIN cache \ {r})
  BY FS_RemoveElement DEF Cache
<1>6. SumFunctionOnSet(PagesOf(cache2), DOMAIN cache \ {r}) = rest
  BY <1>2, <1>5, SumOfSame
<1>7. rest \in Nat
  BY <1>2, <1>5, SumIsNat
<1>8. PICK a \in Nat, b \in Nat, c \in Nat :
        a = rest /\ b = Pages(n) /\ c = Pages(cache[r])
  BY <1>2, <1>7
<1>9. PagesIn(cache) = c + a /\ PagesIn(cache2) = b + a
  BY <1>2, <1>3, <1>4, <1>6, <1>8
<1> QED BY <1>1, <1>8, <1>9

LEMMA PagesUnregistered ==
  ASSUME NEW cache, NEW cache2, Cache(cache), DOMAIN cache2 \subseteq DOMAIN cache,
         \A s \in DOMAIN cache2 : cache2[s] = cache[s]
  PROVE  Cache(cache2) /\ PagesIn(cache2) <= PagesIn(cache)
<1>1. Cache(cache2)
  BY FS_Subset DEF Cache
<1>2. /\ \A s \in DOMAIN cache : PagesOf(cache)[s] \in Nat
      /\ \A s \in DOMAIN cache2 : PagesOf(cache2)[s] = PagesOf(cache)[s]
  BY PagesInIsNat DEF PagesOf
<1>3. PagesIn(cache2) = SumFunctionOnSet(PagesOf(cache), DOMAIN cache2)
  BY <1>1, <1>2, SumOfSame DEF PagesIn, Cache
<1> QED BY <1>1, <1>2, <1>3, SumOfPart DEF PagesIn, Cache

-----------------------------------------------------------------------------
LEMMA EngineInitInv == EngineInit => EInv
<1> SUFFICES ASSUME EngineInit PROVE EInv
  OBVIOUS
<1>1. IInv
  BY InitInv DEF EngineInit, RunnerInit
<1>2. Sequenced = {} /\ Holding = {} /\ Live = {}
  BY DEF EngineInit, RunnerInit, Init, Sequenced, Holding, Live
<1>3. Cache(kv_tokens) /\ PagesIn(kv_tokens) = 0
  BY <1>2, FS_EmptySet, SumOfNothing DEF Cache, PagesIn, Sequenced
<1>4. EngineTypeOK
  <2>1. RunnerTypeOK
    BY <1>1 DEF IInv, RunnerTypeOK, EngineInit, RunnerInit
  <2>2. FreePages \in Nat /\ lost_pages \in Nat
    BY <1>3, FreePagesAre, EngineAssumption DEF EngineInit
  <2>3. kv_tokens \in [Sequenced -> Nat]
    <3>1. \A s \in DOMAIN kv_tokens : kv_tokens[s] \in Nat
      BY <1>2 DEF Sequenced
    <3>2. kv_tokens = [s \in DOMAIN kv_tokens |-> kv_tokens[s]]
      BY DEF EngineInit
    <3> QED BY <3>1, <3>2 DEF Sequenced
  <2>4. <<>> \in Seq(StreamOutput)
    OBVIOUS
  <2> QED BY <1>2, <2>1, <2>2, <2>3, <2>4 DEF EngineTypeOK, EngineInit
<1>5. Unhandled = {} /\ Awaited = {}
  BY NoOutputs DEF EngineInit, RunnerInit, Unhandled, Awaited
<1>6. Locations /\ Batch /\ LiveHeld /\ StepOutputs
  BY <1>2, <1>5, NoOutputs
     DEF EngineInit, RunnerInit, Init, Locations, Batch, LiveHeld, StepOutputs
<1>7. Clients
  BY <1>2 DEF EngineInit, RunnerInit, Init, Clients, Fresh
<1>8. HeldForCause /\ CacheExact
  BY <1>2 DEF EngineInit, HeldForCause, CacheExact
<1>9. Delivery
  <2>1. \A r \in Reqs : received[r] = <<>> /\ queue[r] = <<>> /\ client[r] = "new"
    BY DEF EngineInit
  <2>2. request_queues = {} /\ DOMAIN <<>> = {}
    BY DEF EngineInit
  <2> QED BY <2>1, <2>2 DEF Delivery, InOrder
<1> QED BY <1>1, <1>2, <1>3, <1>4, <1>6, <1>7, <1>8, <1>9 DEF EInv, Cache, Sequenced

(* What no step of a client or of the delivery touches. *)
LEMMA StepUntouched ==
  ASSUME EInv, UNCHANGED <<allVars, raw_outputs, finished_req_ids>>
  PROVE  /\ IInv' /\ RunnerTypeOK' /\ Live' = Live
         /\ Unhandled' = Unhandled /\ Awaited' = Awaited
         /\ \A r \in Reqs : Fresh(r)' <=> Fresh(r)
<1>1. UNCHANGED vars /\ UNCHANGED runnerVars
  BY DEF allVars
<1>2. IInv'
  BY <1>1, StutterInv DEF EInv
<1>3. RunnerTypeOK'
  BY <1>1, <1>2 DEF EInv, IInv, EngineTypeOK, RunnerTypeOK, runnerVars
<1> QED BY <1>1, <1>2, <1>3 DEF Live, Unhandled, Awaited, Fresh, vars, runnerVars

LEMMA BatchUntouched ==
  ASSUME EInv, UNCHANGED <<allVars, raw_outputs, finished_req_ids>>
  PROVE  Batch'
<1>1. Awaited' = Awaited
  BY StepUntouched
<1> QED BY <1>1 DEF EInv, Batch, allVars, vars, runnerVars

LEMMA PagesUntouched ==
  ASSUME EInv, UNCHANGED <<kv_tokens, lost_pages>>
  PROVE  FreePages' = FreePages /\ Sequenced' = Sequenced
BY FreePagesAre DEF Sequenced

(* A step that gives a client and its queue nothing keeps their order. *)
LEMMA OrderUntouched ==
  ASSUME EngineTypeOK, NEW r \in Reqs, InOrder(r),
         UNCHANGED <<received[r], queue[r]>>, client'[r] = "done" <=> client[r] = "done",
         r \in request_queues' =>
           /\ r \in request_queues /\ generated'[r] \in Nat
           /\ generated'[r] + OnTheWay(r) = generated[r] + OnTheWay(r)'
  PROVE  InOrder(r)'
<1>1. /\ Len(received[r]) \in Nat /\ Len(queue[r]) \in Nat /\ generated[r] \in Nat
      /\ OnTheWay(r) \in Nat /\ OnTheWay(r)' \in Nat
  BY DEF EngineTypeOK, RunnerTypeOK, TypeOK, OnTheWay
<1>2. r \in request_queues' =>
        Len(received'[r]) + Len(queue'[r]) + OnTheWay(r)' = generated'[r]
  <2>1. SUFFICES ASSUME r \in request_queues'
                 PROVE  Len(received[r]) + Len(queue[r]) + OnTheWay(r)' = generated'[r]
    OBVIOUS
  <2>2. Len(received[r]) + Len(queue[r]) + OnTheWay(r) = generated[r]
    BY <2>1 DEF InOrder
  <2>3. PICK a \in Nat, b \in Nat, c \in Nat, d \in Nat, e \in Nat, f \in Nat :
          /\ a = Len(received[r]) /\ b = Len(queue[r]) /\ c = OnTheWay(r)
          /\ d = OnTheWay(r)' /\ e = generated[r] /\ f = generated'[r]
    BY <1>1, <2>1
  <2>4. a + b + c = e /\ f + c = e + d
    BY <2>1, <2>2, <2>3
  <2>5. a + b + d = f
    BY <2>4
  <2> QED BY <2>3, <2>5
<1>3. /\ \A k \in DOMAIN received'[r] :
           /\ received'[r][k].num = k
           /\ received'[r][k].final <=> k = Len(received'[r]) /\ client'[r] = "done"
      /\ \A k \in DOMAIN queue'[r] :
           /\ queue'[r][k].num = Len(received'[r]) + k
           /\ queue'[r][k].final => k = Len(queue'[r])
      /\ client'[r] = "done" => queue'[r] = <<>>
  BY DEF InOrder
<1> QED BY <1>2, <1>3 DEF InOrder

(* shutdown, and a step that changes nothing. *)
LEMMA ShutdownInv ==
  ASSUME EInv, UNCHANGED <<allVars, epc, active_requests, kv, stepping, clients>>,
         is_running' \in BOOLEAN
  PROVE  EInv'
<1>1. UNCHANGED <<allVars, epc, active_requests, kv_tokens, lost_pages, append_failed,
                  raw_outputs, finished_req_ids, results, request_queues, queue,
                  client, received>>
  BY DEF kv, stepping, clients
<1>2. /\ IInv' /\ RunnerTypeOK' /\ Live' = Live
      /\ Unhandled' = Unhandled /\ Awaited' = Awaited
      /\ \A r \in Reqs : Fresh(r)' <=> Fresh(r)
  BY <1>1, StepUntouched
<1>3. FreePages' = FreePages /\ Sequenced' = Sequenced
  BY <1>1, PagesUntouched
<1>4. Batch' /\ EngineTypeOK'
  BY <1>1, <1>2, <1>3, BatchUntouched DEF EInv, EngineTypeOK
<1>5. Holding' = Holding /\ \A r : Holds(r)' <=> Holds(r)
  BY <1>1, <1>3 DEF Holding, Holds
<1>6. Locations' /\ LiveHeld' /\ Clients' /\ StepOutputs'
  BY <1>1, <1>2, <1>5
     DEF EInv, Locations, LiveHeld, Clients, StepOutputs, allVars, vars, runnerVars
<1>7. ASSUME HeldForCause, CacheExact, Delivery
      PROVE  HeldForCause' /\ CacheExact' /\ Delivery'
  <2>1. \A r : Behind(r)' = Behind(r) /\ OnTheWay(r)' = OnTheWay(r)
    BY <1>1, <1>2 DEF Behind, OnTheWay
  <2>2. HeldForCause' /\ CacheExact'
    BY <1>1, <1>2, <1>3, <1>7, <2>1 DEF HeldForCause, CacheExact, allVars, vars
  <2>3. Delivery'
    BY <1>1, <1>7, <2>1, OrderUntouched
       DEF EInv, EngineTypeOK, RunnerTypeOK, TypeOK, Delivery, allVars, vars
  <2> QED BY <2>2, <2>3
<1> QED BY <1>1, <1>2, <1>3, <1>4, <1>6, <1>7 DEF EInv

(* The consumer closes the generator. *)
LEMMA CloseInv ==
  ASSUME EInv, NEW r \in Reqs, Close(r)
  PROVE  EInv'
<1>1. UNCHANGED <<allVars, epc, is_running, active_requests, kv_tokens, lost_pages,
                  append_failed, raw_outputs, finished_req_ids, results,
                  request_queues, queue, received>>
  BY DEF Close, kv, stepping
<1>2. /\ client[r] = "waiting" /\ client'[r] = "gone"
      /\ \A q \in Reqs \ {r} : client'[q] = client[q]
      /\ client' \in [Reqs -> {"new", "waiting", "done", "failed", "cancelled", "gone"}]
  BY DEF Close, EInv, EngineTypeOK
<1>3. /\ IInv' /\ RunnerTypeOK' /\ Live' = Live
      /\ Unhandled' = Unhandled /\ Awaited' = Awaited
      /\ \A q \in Reqs : Fresh(q)' <=> Fresh(q)
  BY <1>1, StepUntouched
<1>4. FreePages' = FreePages /\ Sequenced' = Sequenced
  BY <1>1, PagesUntouched
<1>5. Batch' /\ EngineTypeOK'
  BY <1>1, <1>2, <1>3, <1>4, BatchUntouched DEF EInv, EngineTypeOK
<1>6. Holding' = Holding /\ \A q : Holds(q)' <=> Holds(q)
  BY <1>1, <1>4 DEF Holding, Holds
<1>7. Locations' /\ LiveHeld' /\ StepOutputs'
  BY <1>1, <1>3, <1>6
     DEF EInv, Locations, LiveHeld, StepOutputs, allVars, vars, runnerVars
<1>8. Clients'
  <2>1. request_queues \subseteq Reqs
    BY DEF EInv, EngineTypeOK
  <2> QED BY <1>1, <1>2, <1>3, <1>6, <2>1 DEF EInv, Clients, allVars, vars, runnerVars
<1>9. ASSUME HeldForCause, CacheExact, Delivery
      PROVE  HeldForCause' /\ CacheExact' /\ Delivery'
  <2>1. \A q \in Reqs : client'[q] = "done" <=> client[q] = "done"
    BY <1>2
  <2>2. \A q : Behind(q)' = Behind(q) /\ OnTheWay(q)' = OnTheWay(q)
    BY <1>1, <1>3 DEF Behind, OnTheWay
  <2>3. HeldForCause' /\ CacheExact'
    BY <1>1, <1>3, <1>4, <1>9, <2>2 DEF HeldForCause, CacheExact, allVars, vars
  <2>4. Delivery'
    BY <1>1, <1>9, <2>1, <2>2, OrderUntouched
       DEF EInv, EngineTypeOK, RunnerTypeOK, TypeOK, Delivery, allVars, vars
  <2> QED BY <2>3, <2>4
<1> QED BY <1>1, <1>3, <1>4, <1>5, <1>7, <1>8, <1>9 DEF EInv

-----------------------------------------------------------------------------
(* What the steps of the runner leave as it is. *)
LEMMA HoldingUntouched ==
  ASSUME EInv, RunnerTypeOK',
         UNCHANGED <<is_running, active_requests, kv_tokens, lost_pages, request_queues,
                     queue, client, received>>,
         epc' \in {"await", "step", "handle", "deliver", "cancel"},
         raw_outputs' \in Seq(StreamOutput), results' \in Seq(StreamOutput),
         finished_req_ids' \subseteq Reqs
  PROVE  /\ EngineTypeOK' /\ IsFiniteSet(Sequenced')
         /\ Sequenced' = Sequenced /\ Holding' = Holding
         /\ \A r : Holds(r)' <=> Holds(r)
<1>1. FreePages' = FreePages /\ Sequenced' = Sequenced
  BY PagesUntouched
<1>2. EngineTypeOK'
  BY <1>1 DEF EInv, EngineTypeOK
<1> QED BY <1>1, <1>2 DEF EInv, Holding, Holds

(* The engine takes the step of the runner and moves nothing of its own. *)
LEMMA EngineUntouched ==
  ASSUME EInv, RunnerTypeOK', UNCHANGED engineVars
  PROVE  /\ UNCHANGED <<epc, is_running, active_requests, kv_tokens, lost_pages,
                        append_failed, raw_outputs, finished_req_ids, results,
                        request_queues, queue, client, received>>
         /\ EngineTypeOK' /\ IsFiniteSet(Sequenced')
         /\ Sequenced' = Sequenced /\ Holding' = Holding
         /\ \A r : Holds(r)' <=> Holds(r)
<1>1. UNCHANGED <<epc, is_running, active_requests, kv_tokens, lost_pages,
                  append_failed, raw_outputs, finished_req_ids, results,
                  request_queues, queue, client, received>>
  BY DEF engineVars, kv, stepping, clients
<1>2. /\ raw_outputs \in Seq(StreamOutput) /\ results \in Seq(StreamOutput)
      /\ finished_req_ids \subseteq Reqs
      /\ epc \in {"await", "step", "handle", "deliver", "cancel"}
  BY DEF EInv, EngineTypeOK
<1> QED BY <1>1, <1>2, HoldingUntouched

(* A step that generates nothing and ends nobody keeps the promises to the *)
(* clients, whatever it does to the batch.                                 *)
LEMMA PromisesUntouched ==
  ASSUME EInv, append_failed \/ (HeldForCause /\ CacheExact /\ Delivery),
         UNCHANGED <<append_failed, active_requests, kv_tokens, finished_req_ids, results,
                     request_queues, queue, client, received, generated>>,
         Live' = Live, Awaited' = Awaited
  PROVE  append_failed' \/ (HeldForCause' /\ CacheExact' /\ Delivery')
<1> SUFFICES ASSUME ~append_failed, HeldForCause, CacheExact, Delivery
             PROVE  HeldForCause' /\ CacheExact' /\ Delivery'
  OBVIOUS
<1>1. Sequenced' = Sequenced
  BY DEF Sequenced
<1>2. \A q : Behind(q)' = Behind(q) /\ OnTheWay(q)' = OnTheWay(q)
  BY DEF Behind, OnTheWay
<1>3. HeldForCause'
  BY <1>1 DEF HeldForCause
<1>4. CacheExact'
  BY <1>1, <1>2 DEF CacheExact
<1>5. ASSUME NEW q \in Reqs PROVE InOrder(q)'
  <2>1. InOrder(q) /\ EngineTypeOK /\ generated[q] \in Nat
    BY DEF Delivery, EInv, EngineTypeOK, RunnerTypeOK, TypeOK
  <2> QED BY <1>2, <2>1, OrderUntouched
<1> QED BY <1>3, <1>4, <1>5 DEF Delivery

(* model_runner.step begins: the filter of schedule_step finds nobody to   *)
(* drop but those that have ended.                                         *)
LEMMA LoopBeginInv ==
  ASSUME EInv, LoopBegin
  PROVE  EInv'
<1>1. /\ BeginSchedule /\ epc = "await" /\ epc' = "step" /\ rpc' = "filter"
      /\ UNCHANGED <<is_running, active_requests, kv_tokens, lost_pages, append_failed,
                     raw_outputs, finished_req_ids, results, request_queues, queue,
                     client, received, generated_outputs, finished_ids,
                     cancelled_requests, cancelling, stream, delivered, silenced>>
  BY DEF LoopBegin, StepSchedule, kv, stepping, clients
<1>2. IInv'
  BY <1>1, BeginScheduleInv DEF EInv
<1>3. /\ Unhandled = {} /\ Awaited = {} /\ raw_outputs = <<>> /\ stream = <<>>
      /\ generated_outputs = <<>> /\ todo = {} /\ finished_req_ids = {}
      /\ finished_ids = {} /\ rpc = "idle" /\ pc = "idle" /\ results = <<>>
      /\ cancelling = None
  BY <1>1, AllHandled DEF EInv, Locations
<1>4. /\ state' = StateAfterFilter /\ running_requests' = ActiveRunning
      /\ waiting_queue' = waiting_queue /\ result'.prefill = {}
      /\ result'.decode = ActiveRunning
      /\ todo' = {} /\ pc' = "admit" /\ generated' = generated
  <2>1. /\ state' = StateAfterFilter /\ running_requests' = ActiveRunning
        /\ waiting_queue' = waiting_queue
        /\ result' = [prefill |-> {}, decode |-> ActiveRunning,
                      total |-> Cardinality(ActiveRunning), preempted |-> 0]
    BY <1>1, BeginIsFilter DEF EInv
  <2>2. todo' = {} /\ pc' = "admit" /\ generated' = generated
    BY <1>1 DEF BeginSchedule
  <2> QED BY <2>1, <2>2
<1>5. \A r \in running_requests :
        r \in Reqs /\ (state[r] # "FINISHED" => state[r] = "RUNNING" /\ ~is_finished(r))
  <2> SUFFICES ASSUME NEW r \in running_requests, state[r] # "FINISHED"
               PROVE  state[r] = "RUNNING" /\ ~is_finished(r)
    BY DEF EInv, IInv, TypeOK
  <2>1. r \in Reqs /\ state[r] = "RUNNING"
    BY DEF EInv, IInv, TypeOK, Places
  <2>2. generated[r] < MaxNew[r] /\ generated[r] \in Nat /\ MaxNew[r] \in Nat
    BY <1>3, <2>1, BatcherAssumption DEF EInv, Batch, IInv, TypeOK
  <2> QED BY <2>1, <2>2 DEF is_finished
<1>6. state' = state
  <2>1. state = [r \in Reqs |-> state[r]]
    BY DEF EInv, IInv, TypeOK
  <2>2. \A r \in Reqs : StateAfterFilter[r] = state[r]
    BY <1>5 DEF StateAfterFilter, ActiveRunning
  <2> QED BY <1>4, <2>1, <2>2 DEF StateAfterFilter
<1>7. Live' = Live
  BY <1>4, <1>5, <1>6 DEF Live, ActiveRunning
<1>8. Unhandled' = Unhandled /\ Awaited' = Awaited
  BY <1>1 DEF Unhandled, Awaited
<1>9. RunnerTypeOK'
  BY <1>1, <1>2 DEF EInv, IInv, EngineTypeOK, RunnerTypeOK
<1>10. /\ EngineTypeOK' /\ IsFiniteSet(Sequenced')
       /\ Sequenced' = Sequenced /\ Holding' = Holding
       /\ \A r : Holds(r)' <=> Holds(r)
  BY <1>1, <1>9, HoldingUntouched DEF EInv, EngineTypeOK
<1>11. Locations'
  BY <1>1, <1>3, <1>4 DEF Locations
<1>12. Batch'
  <2>1. \A r \in Reqs : state[r] = "RUNNING" => generated[r] < MaxNew[r]
    BY <1>3 DEF EInv, Batch
  <2>2. \A r \in ActiveRunning : state[r] = "RUNNING"
    BY DEF ActiveRunning
  <2> QED BY <1>1, <1>3, <1>4, <1>6, <2>1, <2>2 DEF Batch
<1>13. LiveHeld'
  BY <1>1, <1>7, <1>10 DEF EInv, LiveHeld
<1>14. Clients'
  <2>1. \A r \in Reqs : Fresh(r)' <=> Fresh(r)
    BY <1>4, <1>6 DEF Fresh
  <2> QED BY <1>1, <1>4, <1>10, <2>1 DEF EInv, Clients
<1>15. StepOutputs'
  BY <1>1, <1>3, <1>8, NoOutputs DEF StepOutputs
<1>16. append_failed' \/ (HeldForCause' /\ CacheExact' /\ Delivery')
  BY <1>1, <1>4, <1>7, <1>8, PromisesUntouched DEF EInv
<1> QED BY <1>2, <1>10, <1>11, <1>12, <1>13, <1>14, <1>15, <1>16 DEF EInv

(* The admission loop of schedule_step: a request that has ended leaves    *)
(* the queue, a live one begins to run, and the batch is handed out.       *)
LEMMA SkippingInv ==
  ASSUME EInv, epc = "step", UNCHANGED <<runnerVars, engineVars>>,
         NEW c \in waiting_queue, SkipFinished(c)
  PROVE  EInv'
<1>1. IInv'
  BY SkipFinishedInv DEF EInv
<1>2. /\ UNCHANGED <<rpc, generated_outputs, finished_ids, cancelled_requests, cancelling,
                     stream, delivered, silenced>>
      /\ UNCHANGED <<state, generated, running_requests, request_map, result, todo, pc>>
      /\ waiting_queue' = waiting_queue \ {c} /\ state[c] = "FINISHED"
  BY DEF SkipFinished, Popped, runnerVars
<1>3. RunnerTypeOK'
  BY <1>1, <1>2 DEF EInv, IInv, EngineTypeOK, RunnerTypeOK
<1>4. /\ UNCHANGED <<epc, is_running, active_requests, kv_tokens, lost_pages,
                     append_failed, raw_outputs, finished_req_ids, results,
                     request_queues, queue, client, received>>
      /\ EngineTypeOK' /\ IsFiniteSet(Sequenced')
      /\ Sequenced' = Sequenced /\ Holding' = Holding
      /\ \A r : Holds(r)' <=> Holds(r)
  BY <1>3, EngineUntouched
<1>5. Live' = Live
  BY <1>2 DEF Live
<1>6. Unhandled' = Unhandled /\ Awaited' = Awaited
  BY <1>2, <1>4 DEF Unhandled, Awaited
<1>7. Locations'
  BY <1>2, <1>4 DEF EInv, Locations
<1>8. Batch'
  BY <1>2, <1>6 DEF EInv, Batch
<1>9. LiveHeld'
  BY <1>2, <1>4, <1>5 DEF EInv, LiveHeld
<1>10. Clients'
  BY <1>2, <1>4 DEF EInv, Clients, Fresh
<1>11. StepOutputs'
  BY <1>2, <1>4, <1>5, <1>6 DEF EInv, StepOutputs
<1>12. append_failed' \/ (HeldForCause' /\ CacheExact' /\ Delivery')
  BY <1>2, <1>4, <1>5, <1>6, PromisesUntouched DEF EInv
<1> QED BY <1>1, <1>4, <1>7, <1>8, <1>9, <1>10, <1>11, <1>12 DEF EInv

LEMMA AdmittingInv ==
  ASSUME EInv, epc = "step", UNCHANGED <<runnerVars, engineVars>>,
         NEW c \in waiting_queue, Admit(c)
  PROVE  EInv'
<1>1. IInv'
  BY AdmitInv DEF EInv
<1>2. /\ UNCHANGED <<rpc, generated_outputs, finished_ids, cancelled_requests, cancelling,
                     stream, delivered, silenced>>
      /\ UNCHANGED <<generated, request_map, todo, pc>>
      /\ waiting_queue' = waiting_queue \ {c} /\ state[c] # "FINISHED" /\ pc = "admit"
      /\ running_requests' = running_requests \cup {c}
      /\ state' = [state EXCEPT ![c] = "RUNNING"]
  BY DEF Admit, Popped, runnerVars
<1>3. RunnerTypeOK'
  BY <1>1, <1>2 DEF EInv, IInv, EngineTypeOK, RunnerTypeOK
<1>4. /\ UNCHANGED <<epc, is_running, active_requests, kv_tokens, lost_pages,
                     append_failed, raw_outputs, finished_req_ids, results,
                     request_queues, queue, client, received>>
      /\ EngineTypeOK' /\ IsFiniteSet(Sequenced')
      /\ Sequenced' = Sequenced /\ Holding' = Holding
      /\ \A r : Holds(r)' <=> Holds(r)
  BY <1>3, EngineUntouched
<1>5. /\ c \in Reqs /\ state[c] = "WAITING" /\ state'[c] = "RUNNING"
      /\ \A r \in Reqs \ {c} : state'[r] = state[r]
      /\ waiting_queue \subseteq Reqs /\ running_requests \subseteq Reqs
  BY <1>2 DEF EInv, IInv, TypeOK, Places
<1>6. result'.prefill = result.prefill \cup {c} /\ result'.decode = result.decode
  <2>1. result \in BatchStepResult
    BY DEF EInv, IInv, TypeOK
  <2>2. result' = [result EXCEPT !.prefill = result.prefill \cup {c},
                                 !.total = result.total + PromptLen[c]]
    BY DEF Admit
  <2> QED BY <2>1, <2>2 DEF BatchStepResult
<1>7. Live' = Live
  BY <1>2, <1>5 DEF Live
<1>8. /\ rpc = "filter" /\ todo = {} /\ finished_ids = {} /\ raw_outputs = <<>>
      /\ generated_outputs = <<>> /\ stream = <<>> /\ results = <<>>
  BY <1>2 DEF EInv, Locations
<1>9. Unhandled = {} /\ Unhandled' = Unhandled /\ Awaited' = Awaited
  BY <1>2, <1>4, <1>8, NoOutputs DEF Unhandled, Awaited
<1>10. Locations'
  BY <1>2, <1>4 DEF EInv, Locations
<1>11. Batch'
  <2>1. /\ \A r \in result.prefill \cup result.decode : state[r] = "RUNNING"
        /\ \A r \in Reqs : state[r] = "RUNNING" =>
             generated[r] < MaxNew[r] \/ r \in result.prefill
    BY <1>2, <1>8 DEF EInv, Batch
  <2>2. result.prefill \cup result.decode \subseteq Reqs
    BY DEF EInv, IInv, TypeOK, BatchStepResult
  <2> QED BY <1>2, <1>5, <1>6, <1>8, <2>1, <2>2 DEF Batch
<1>12. LiveHeld'
  BY <1>2, <1>4, <1>7 DEF EInv, LiveHeld
<1>13. Clients'
  <2>1. \A r \in Reqs : Fresh(r) => Fresh(r)'
    BY <1>2, <1>5 DEF Fresh
  <2> QED BY <1>2, <1>4, <2>1 DEF EInv, Clients
<1>14. StepOutputs'
  BY <1>2, <1>4, <1>8, <1>9, NoOutputs DEF StepOutputs
<1>15. append_failed' \/ (HeldForCause' /\ CacheExact' /\ Delivery')
  BY <1>2, <1>4, <1>7, <1>9, PromisesUntouched DEF EInv
<1> QED BY <1>1, <1>4, <1>10, <1>11, <1>12, <1>13, <1>14, <1>15 DEF EInv

LEMMA ReturningInv ==
  ASSUME EInv, epc = "step", UNCHANGED <<runnerVars, engineVars>>, ReturnBatch
  PROVE  EInv'
<1>1. IInv'
  BY ReturnBatchInv DEF EInv
<1>2. /\ UNCHANGED <<rpc, generated_outputs, finished_ids, cancelled_requests, cancelling,
                     stream, delivered, silenced>>
      /\ UNCHANGED <<state, generated, waiting_queue, running_requests, request_map, result>>
      /\ todo' = result.prefill \cup result.decode /\ pc = "admit" /\ pc' = "idle"
  BY DEF ReturnBatch, runnerVars
<1>3. RunnerTypeOK'
  BY <1>1, <1>2 DEF EInv, IInv, EngineTypeOK, RunnerTypeOK
<1>4. /\ UNCHANGED <<epc, is_running, active_requests, kv_tokens, lost_pages,
                     append_failed, raw_outputs, finished_req_ids, results,
                     request_queues, queue, client, received>>
      /\ EngineTypeOK' /\ IsFiniteSet(Sequenced')
      /\ Sequenced' = Sequenced /\ Holding' = Holding
      /\ \A r : Holds(r)' <=> Holds(r)
  BY <1>3, EngineUntouched
<1>5. Live' = Live
  BY <1>2 DEF Live
<1>6. /\ rpc = "filter" /\ todo = {} /\ finished_ids = {} /\ raw_outputs = <<>>
      /\ generated_outputs = <<>> /\ stream = <<>>
  BY <1>2 DEF EInv, Locations
<1>7. Awaited = {} /\ Unhandled' = Unhandled /\ Awaited' = Awaited
  BY <1>2, <1>4, <1>6, NoOutputs DEF Unhandled, Awaited
<1>8. Locations'
  BY <1>2, <1>4, <1>6 DEF EInv, Locations
<1>9. Batch'
  <2>1. /\ \A r \in result.prefill \cup result.decode : state[r] = "RUNNING"
        /\ \A r \in Reqs : state[r] = "RUNNING" =>
             generated[r] < MaxNew[r] \/ r \in result.prefill
    BY <1>2, <1>6 DEF EInv, Batch
  <2> QED BY <1>2, <1>6, <1>7, <2>1 DEF Batch
<1>10. LiveHeld'
  BY <1>2, <1>4, <1>5 DEF EInv, LiveHeld
<1>11. Clients'
  BY <1>2, <1>4 DEF EInv, Clients, Fresh
<1>12. StepOutputs'
  BY <1>2, <1>4, <1>5, <1>7 DEF EInv, StepOutputs
<1>13. append_failed' \/ (HeldForCause' /\ CacheExact' /\ Delivery')
  BY <1>2, <1>4, <1>5, <1>7, PromisesUntouched DEF EInv
<1> QED BY <1>1, <1>4, <1>8, <1>9, <1>10, <1>11, <1>12, <1>13 DEF EInv

(* filter_cancelled_requests finds nothing to drop in the engine: no       *)
(* cancel_request comes between two steps of one coroutine.                *)
LEMMA FilteringInv ==
  ASSUME EInv, epc = "step", UNCHANGED engineVars, StepFilter
  PROVE  EInv'
<1>1. /\ UNCHANGED <<cancelled_requests, cancelling, stream, delivered, silenced>>
      /\ UNCHANGED <<state, generated, waiting_queue, running_requests, request_map,
                     result, pc>>
      /\ rpc = "filter" /\ pc = "idle" /\ todo' = Survivors
      /\ generated_outputs' = <<>> /\ finished_ids' = {}
      /\ rpc' = IF Survivors = {} THEN "idle" ELSE "execute"
  BY DEF StepFilter
<1>2. Survivors = todo
  <2> SUFFICES ASSUME NEW r \in todo PROVE Id[r] \notin cancelled_requests
    BY DEF Survivors
  <2>1. r \in Live
    BY DEF EInv, IInv, TypeOK, Places, Batch, Live
  <2> QED BY <2>1 DEF EInv, LiveHeld
<1>3. IInv'
  BY <1>1, <1>2, StutterInv DEF EInv, vars
<1>4. RunnerTypeOK'
  BY <1>1, <1>3 DEF EInv, IInv, EngineTypeOK, RunnerTypeOK
<1>5. /\ UNCHANGED <<epc, is_running, active_requests, kv_tokens, lost_pages,
                     append_failed, raw_outputs, finished_req_ids, results,
                     request_queues, queue, client, received>>
      /\ EngineTypeOK' /\ IsFiniteSet(Sequenced')
      /\ Sequenced' = Sequenced /\ Holding' = Holding
      /\ \A r : Holds(r)' <=> Holds(r)
  BY <1>4, EngineUntouched
<1>6. Live' = Live
  BY <1>1 DEF Live
<1>7. generated_outputs = <<>> /\ stream = <<>> /\ finished_ids = {}
  BY <1>1 DEF EInv, Locations
<1>8. Unhandled' = Unhandled /\ Awaited' = Awaited
  BY <1>1, <1>5, <1>7 DEF Unhandled, Awaited
<1>9. Locations'
  BY <1>1, <1>2, <1>5, <1>7 DEF EInv, Locations
<1>10. Batch'
  BY <1>1, <1>2, <1>7, <1>8 DEF EInv, Batch
<1>11. LiveHeld'
  BY <1>1, <1>5, <1>6 DEF EInv, LiveHeld
<1>12. Clients'
  BY <1>1, <1>5 DEF EInv, Clients, Fresh
<1>13. StepOutputs'
  BY <1>1, <1>5, <1>6, <1>7, <1>8 DEF EInv, StepOutputs
<1>14. append_failed' \/ (HeldForCause' /\ CacheExact' /\ Delivery')
  BY <1>1, <1>5, <1>6, <1>8, PromisesUntouched DEF EInv
<1> QED BY <1>3, <1>5, <1>9, <1>10, <1>11, <1>12, <1>13, <1>14 DEF EInv

(* push_batch on the stream that the last step has left empty. *)
LEMMA PushingInv ==
  ASSUME EInv, epc = "step", UNCHANGED engineVars, StepPush
  PROVE  EInv'
<1>1. /\ UNCHANGED vars /\ rpc = "execute" /\ todo = {}
      /\ UNCHANGED <<finished_ids, cancelled_requests, cancelling, delivered, silenced>>
      /\ UNCHANGED <<state, generated, waiting_queue, running_requests, request_map,
                     result, pc, todo>>
      /\ stream' = stream \o generated_outputs /\ generated_outputs' = <<>>
      /\ rpc' = IF finished_ids = {} THEN "idle" ELSE "update"
  BY DEF StepPush, Pushed, vars
<1>2. stream = <<>> /\ generated_outputs \in Seq(StreamOutput)
  BY <1>1 DEF EInv, Locations, EngineTypeOK, RunnerTypeOK
<1>3. stream' = generated_outputs
  BY <1>1, <1>2
<1>4. IInv'
  BY <1>1, StutterInv DEF EInv
<1>5. RunnerTypeOK'
  BY <1>1, <1>2, <1>3, <1>4 DEF EInv, IInv, EngineTypeOK, RunnerTypeOK
<1>6. /\ UNCHANGED <<epc, is_running, active_requests, kv_tokens, lost_pages,
                     append_failed, raw_outputs, finished_req_ids, results,
                     request_queues, queue, client, received>>
      /\ EngineTypeOK' /\ IsFiniteSet(Sequenced')
      /\ Sequenced' = Sequenced /\ Holding' = Holding
      /\ \A r : Holds(r)' <=> Holds(r)
  BY <1>5, EngineUntouched
<1>7. Live' = Live
  BY <1>1 DEF Live
<1>8. Unhandled' = Unhandled /\ Awaited' = Awaited
  BY <1>1, <1>2, <1>3, <1>6 DEF Unhandled, Awaited
<1>9. Locations'
  <2>1. pc = "idle"
    BY <1>1 DEF EInv, IInv, TypeOK, Locations
  <2> QED BY <1>1, <1>6, <2>1 DEF EInv, Locations
<1>10. Batch'
  BY <1>1, <1>8 DEF EInv, Batch
<1>11. LiveHeld'
  BY <1>1, <1>6, <1>7 DEF EInv, LiveHeld
<1>12. Clients'
  BY <1>1, <1>6 DEF EInv, Clients, Fresh
<1>13. StepOutputs'
  BY <1>1, <1>3, <1>6, <1>7, <1>8, NoOutputs DEF EInv, StepOutputs
<1>14. append_failed' \/ (HeldForCause' /\ CacheExact' /\ Delivery')
  BY <1>1, <1>6, <1>7, <1>8, PromisesUntouched DEF EInv
<1> QED BY <1>4, <1>6, <1>9, <1>10, <1>11, <1>12, <1>13, <1>14 DEF EInv

(* The runner tells the batcher who has ended, which it knows already. *)
LEMMA UpdatingInv ==
  ASSUME EInv, epc = "step", UNCHANGED engineVars, StepUpdate
  PROVE  EInv'
<1>1. /\ UpdateRequestsState(finished_ids) /\ rpc = "update" /\ rpc' = "idle"
      /\ finished_ids' = {}
      /\ UNCHANGED <<generated_outputs, cancelled_requests, cancelling, stream,
                     delivered, silenced>>
      /\ UNCHANGED <<generated, waiting_queue, running_requests, request_map,
                     result, todo, pc>>
  BY DEF StepUpdate, UpdateRequestsState
<1>2. finished_ids \in SUBSET Ids
  BY DEF EInv, EngineTypeOK, RunnerTypeOK
<1>3. IInv'
  BY <1>1, <1>2, UpdateRequestsStateInv DEF EInv
<1>4. state' = state
  <2>1. \A r \in Reqs : (\E i \in finished_ids : request_map[i] = r) => state[r] = "FINISHED"
    BY <1>2, BatcherAssumption DEF EInv, IInv, MapAgrees, Batch
  <2>2. state = [r \in Reqs |-> state[r]]
    BY DEF EInv, IInv, TypeOK
  <2>3. state' = [r \in Reqs |-> IF \E i \in finished_ids : request_map[i] = r
                                 THEN "FINISHED" ELSE state[r]]
    BY <1>1 DEF UpdateRequestsState
  <2> QED BY <2>1, <2>2, <2>3
<1>5. RunnerTypeOK'
  BY <1>1, <1>3 DEF EInv, IInv, EngineTypeOK, RunnerTypeOK
<1>6. /\ UNCHANGED <<epc, is_running, active_requests, kv_tokens, lost_pages,
                     append_failed, raw_outputs, finished_req_ids, results,
                     request_queues, queue, client, received>>
      /\ EngineTypeOK' /\ IsFiniteSet(Sequenced')
      /\ Sequenced' = Sequenced /\ Holding' = Holding
      /\ \A r : Holds(r)' <=> Holds(r)
  BY <1>5, EngineUntouched
<1>7. Live' = Live
  BY <1>1, <1>4 DEF Live
<1>8. Unhandled' = Unhandled /\ Awaited' = Awaited
  BY <1>1, <1>6 DEF Unhandled, Awaited
<1>9. Locations'
  BY <1>1, <1>6 DEF EInv, Locations
<1>10. Batch'
  BY <1>1, <1>4, <1>8 DEF EInv, Batch
<1>11. LiveHeld'
  BY <1>1, <1>6, <1>7 DEF EInv, LiveHeld
<1>12. Clients'
  BY <1>1, <1>4, <1>6 DEF EInv, Clients, Fresh
<1>13. StepOutputs'
  BY <1>1, <1>4, <1>6, <1>7, <1>8 DEF EInv, StepOutputs
<1>14. append_failed' \/ (HeldForCause' /\ CacheExact' /\ Delivery')
  BY <1>1, <1>6, <1>7, <1>8, PromisesUntouched DEF EInv
<1> QED BY <1>3, <1>6, <1>9, <1>10, <1>11, <1>12, <1>13, <1>14 DEF EInv

(* One request of the batch is executed: its output joins those of the     *)
(* step, and with its last one it is no longer live.                       *)
LEMMA ExecutingInv ==
  ASSUME EInv, epc = "step", UNCHANGED engineVars,
         NEW r \in Reqs, NEW eos \in BOOLEAN, StepExecute(r, eos)
  PROVE  EInv'
<1> DEFINE out == [req |-> r, num |-> generated[r] + 1, final |-> IsFinal(r, eos)]
<1>1. /\ ExecuteRequest(r, eos) /\ rpc = "execute" /\ r \in todo
      /\ UNCHANGED <<rpc, cancelled_requests, cancelling, stream, delivered, silenced>>
      /\ UNCHANGED <<waiting_queue, running_requests, request_map, result, pc>>
      /\ generated_outputs' = Append(generated_outputs, out)
      /\ finished_ids' = finished_ids \cup FinishedBy(r, eos)
      /\ todo' = todo \ {r}
  BY DEF StepExecute, ExecuteRequest
<1>2. IInv'
  BY <1>1, ExecuteRequestInv DEF EInv
<1>3. /\ generated[r] \in Nat /\ generated'[r] = generated[r] + 1
      /\ generated'[r] \in Nat /\ MaxNew[r] \in Nat
      /\ \A q \in Reqs \ {r} : generated'[q] = generated[q] /\ state'[q] = state[q]
      /\ state[r] = "RUNNING" /\ r \notin Awaited
      /\ state'[r] = IF IsFinal(r, eos) THEN "FINISHED" ELSE "RUNNING"
      /\ r \in running_requests /\ r \notin waiting_queue
  <2>1. state[r] = "RUNNING" /\ r \notin Awaited
    BY <1>1 DEF EInv, Batch
  <2>2. /\ state \in [Reqs -> RequestState] /\ generated \in [Reqs -> Nat]
        /\ r \in running_requests /\ r \notin waiting_queue /\ MaxNew[r] \in Nat
    BY <2>1, BatcherAssumption DEF EInv, IInv, TypeOK, Places
  <2>3. /\ generated' = [generated EXCEPT ![r] = @ + 1]
        /\ state' = [state EXCEPT ![r] = IF IsFinal(r, eos) THEN "FINISHED" ELSE @]
    BY <1>1 DEF ExecuteRequest
  <2>4. generated[r] \in Nat /\ generated'[r] = generated[r] + 1
    BY <2>2, <2>3
  <2>5. \A q \in Reqs \ {r} : generated'[q] = generated[q] /\ state'[q] = state[q]
    BY <2>2, <2>3
  <2>6. state'[r] = IF IsFinal(r, eos) THEN "FINISHED" ELSE "RUNNING"
    BY <2>1, <2>2, <2>3
  <2> QED BY <2>1, <2>2, <2>4, <2>5, <2>6
<1>4. /\ raw_outputs = <<>> /\ finished_req_ids = {} /\ results = <<>> /\ stream = <<>>
      /\ pc = "idle"
  BY <1>1 DEF EInv, IInv, TypeOK, Locations
<1>5. out \in StreamOutput /\ out.req = r /\ out.num = generated'[r]
      /\ (out.final <=> state'[r] = "FINISHED")
  <2>1. IsFinal(r, eos) \in BOOLEAN
    BY <1>3 DEF IsFinal
  <2> QED BY <1>3, <2>1 DEF StreamOutput
<1>6. RunnerTypeOK'
  <2>1. generated_outputs' \in Seq(StreamOutput)
    BY <1>1, <1>5, Appending DEF EInv, EngineTypeOK, RunnerTypeOK
  <2>2. finished_ids' \in SUBSET Ids
    BY <1>1, BatcherAssumption DEF FinishedBy, EInv, EngineTypeOK, RunnerTypeOK
  <2> QED BY <1>1, <1>2, <2>1, <2>2 DEF EInv, IInv, EngineTypeOK, RunnerTypeOK
<1>7. /\ UNCHANGED <<epc, is_running, active_requests, kv_tokens, lost_pages,
                     append_failed, raw_outputs, finished_req_ids, results,
                     request_queues, queue, client, received>>
      /\ EngineTypeOK' /\ IsFiniteSet(Sequenced')
      /\ Sequenced' = Sequenced /\ Holding' = Holding
      /\ \A q : Holds(q)' <=> Holds(q)
  BY <1>6, EngineUntouched
<1>8. r \in Live /\ Holds(r) /\ Live' = (Live \ {r}) \cup (IF out.final THEN {} ELSE {r})
  <2>1. waiting_queue \subseteq Reqs /\ running_requests \subseteq Reqs
    BY DEF EInv, IInv, TypeOK
  <2>2. r \in Live /\ Live' = (Live \ {r}) \cup (IF out.final THEN {} ELSE {r})
    BY <1>1, <1>3, <1>5, <2>1 DEF Live
  <2> QED BY <2>2 DEF EInv, LiveHeld
<1>9. /\ generated_outputs \in Seq(StreamOutput) /\ OnceEach(generated_outputs)
      /\ Unhandled = Range(generated_outputs) /\ Awaited = Named(generated_outputs)
  <2>1. Unhandled = Range(generated_outputs)
    BY <1>4, NoOutputs DEF Unhandled
  <2> QED BY <2>1, NamedInRange DEF Awaited, EInv, EngineTypeOK, RunnerTypeOK, StepOutputs
<1>10. /\ Unhandled' = Unhandled \cup {out} /\ Awaited' = Awaited \cup {r}
       /\ OnceEach(generated_outputs')
  <2>1. /\ Range(generated_outputs') = Range(generated_outputs) \cup {out}
        /\ Named(generated_outputs') = Named(generated_outputs) \cup {r}
        /\ OnceEach(generated_outputs')
    BY <1>1, <1>3, <1>5, <1>9, Appending
  <2>2. Unhandled' = Range(generated_outputs')
    BY <1>1, <1>4, <1>7, NoOutputs DEF Unhandled
  <2>3. Awaited' = Awaited \cup {r}
    BY <1>5, <1>9, <2>1, <2>2 DEF Awaited
  <2> QED BY <1>9, <2>1, <2>2, <2>3
<1>11. \A o \in Unhandled : o.req \in Reqs \ {r}
  BY <1>3 DEF EInv, StepOutputs, EngineTypeOK, Holds, Awaited
<1>12. Locations'
  BY <1>1, <1>4, <1>7 DEF EInv, Locations
<1>13. Batch'
  <2>1. \A q \in todo' : state'[q] = "RUNNING" /\ q \notin Awaited'
    BY <1>1, <1>3, <1>10 DEF EInv, IInv, TypeOK, Batch
  <2>2. \A q \in Reqs : state'[q] = "RUNNING" => generated'[q] < MaxNew[q] \/ q \in todo'
    <3>1. state'[r] = "RUNNING" => generated'[r] < MaxNew[r]
      BY <1>3 DEF IsFinal
    <3> QED BY <1>1, <1>3, <1>4, <3>1 DEF EInv, Batch
  <2>3. \A q \in Reqs : Id[q] \in finished_ids' => state'[q] = "FINISHED"
    <3>1. \A q \in Reqs : Id[q] \in finished_ids => q # r /\ state[q] = "FINISHED"
      BY <1>3 DEF EInv, Batch
    <3>2. \A q \in Reqs : Id[q] \in FinishedBy(r, eos) => q = r /\ state'[r] = "FINISHED"
      BY <1>3, EngineAssumption DEF FinishedBy
    <3> QED BY <1>1, <1>3, <3>1, <3>2
  <2> QED BY <1>1, <1>4, <2>1, <2>2, <2>3 DEF Batch
<1>14. LiveHeld'
  BY <1>1, <1>7, <1>8 DEF EInv, LiveHeld
<1>15. Clients'
  <2>1. \A q \in Reqs : client[q] = "new" => q # r
    BY <1>3 DEF EInv, Clients, Fresh
  <2>2. \A q \in Reqs \ {r} : Fresh(q) => Fresh(q)'
    BY <1>1, <1>3 DEF Fresh
  <2> QED BY <1>1, <1>3, <1>7, <2>1, <2>2 DEF EInv, Clients
<1>16. StepOutputs'
  <2>1. \A o \in Unhandled' :
          /\ Holds(o.req)' /\ o.num = generated'[o.req]
          /\ state'[o.req] = IF o.final THEN "FINISHED" ELSE "RUNNING"
    BY <1>3, <1>5, <1>7, <1>8, <1>10, <1>11 DEF EInv, StepOutputs
  <2> QED BY <1>1, <1>4, <1>7, <1>10, <2>1, NoOutputs DEF EInv, StepOutputs
<1>17. ASSUME ~append_failed, HeldForCause, CacheExact, Delivery
       PROVE  HeldForCause' /\ CacheExact' /\ Delivery'
  <2>1. HeldForCause'
    BY <1>7, <1>8, <1>10, <1>17 DEF HeldForCause
  <2>2. /\ \A q \in Reqs \ {r} : Behind(q)' = Behind(q) /\ OnTheWay(q)' = OnTheWay(q)
        /\ Behind(r) = 0 /\ Behind(r)' = 1 /\ OnTheWay(r) = 0 /\ OnTheWay(r)' = 1
    BY <1>3, <1>4, <1>7, <1>10, NoOutputs DEF Behind, OnTheWay
  <2>3. CacheExact'
    <3>1. \A q \in Sequenced \ {r} :
            kv_tokens[q] + Behind(q)' = PromptLen[q] + generated'[q]
      BY <1>3, <1>17, <2>2 DEF CacheExact, EInv, EngineTypeOK
    <3>2. kv_tokens[r] + Behind(r)' = PromptLen[r] + generated'[r]
      <4>1. r \in Sequenced /\ kv_tokens[r] \in Nat /\ PromptLen[r] \in Nat
        BY <1>8, BatcherAssumption DEF Holds, EInv, EngineTypeOK
      <4>2. kv_tokens[r] + 0 = PromptLen[r] + generated[r]
        BY <1>17, <2>2, <4>1 DEF CacheExact
      <4> QED BY <1>3, <2>2, <4>1, <4>2
    <3> QED BY <1>7, <3>1, <3>2 DEF CacheExact
  <2>4. ASSUME NEW q \in Reqs PROVE InOrder(q)'
    <3>1. InOrder(q) /\ EngineTypeOK /\ generated[q] \in Nat
      BY <1>17 DEF Delivery, EInv, EngineTypeOK, RunnerTypeOK, TypeOK
    <3>2. /\ generated'[q] \in Nat
          /\ generated'[q] + OnTheWay(q) = generated[q] + OnTheWay(q)'
      BY <1>3, <2>2, <3>1
    <3> QED BY <1>7, <3>1, <3>2, OrderUntouched
  <2> QED BY <2>1, <2>3, <2>4 DEF Delivery
<1> QED BY <1>2, <1>7, <1>12, <1>13, <1>14, <1>15, <1>16, <1>17 DEF EInv

LEMMA LoopStepInv == EInv /\ LoopStep => EInv'
<1> SUFFICES ASSUME EInv, LoopStep PROVE EInv'
  OBVIOUS
<1>1. epc = "step" /\ UNCHANGED engineVars
  BY DEF LoopStep
<1>2. CASE StepAdmission
  BY <1>1, <1>2, SkippingInv, AdmittingInv, ReturningInv DEF StepAdmission
<1>3. CASE StepFilter
  BY <1>1, <1>3, FilteringInv
<1>4. CASE StepPush
  BY <1>1, <1>4, PushingInv
<1>5. CASE StepUpdate
  BY <1>1, <1>5, UpdatingInv
<1>6. ASSUME NEW r \in Reqs, NEW eos \in BOOLEAN, StepExecute(r, eos)
      PROVE  EInv'
  BY <1>1, <1>6, ExecutingInv
<1> QED BY <1>2, <1>3, <1>4, <1>5, <1>6 DEF LoopStep

(* raw_outputs = stream_buffer.pop_all() *)
LEMMA LoopPopInv ==
  ASSUME EInv, LoopPop
  PROVE  EInv'
<1>1. /\ epc = "step" /\ epc' = "handle" /\ rpc = "idle" /\ pc = "idle"
      /\ raw_outputs' = stream /\ delivered' = delivered \o stream /\ stream' = <<>>
      /\ UNCHANGED <<vars, rpc, generated_outputs, finished_ids, cancelled_requests,
                     cancelling, silenced, is_running, active_requests, kv_tokens,
                     lost_pages, append_failed, finished_req_ids, results,
                     request_queues, queue, client, received>>
      /\ UNCHANGED <<state, generated, waiting_queue, running_requests, request_map,
                     result, pc, todo>>
  BY DEF LoopPop, StepDone, kv, clients, vars
<1>2. IInv'
  BY <1>1, StutterInv DEF EInv
<1>3. stream \in Seq(StreamOutput) /\ delivered \in Seq(StreamOutput)
  BY DEF EInv, EngineTypeOK, RunnerTypeOK
<1>4. RunnerTypeOK'
  BY <1>1, <1>2, <1>3 DEF EInv, IInv, EngineTypeOK, RunnerTypeOK
<1>5. /\ EngineTypeOK' /\ IsFiniteSet(Sequenced')
      /\ Sequenced' = Sequenced /\ Holding' = Holding
      /\ \A r : Holds(r)' <=> Holds(r)
  BY <1>1, <1>3, <1>4, HoldingUntouched DEF EInv, EngineTypeOK
<1>6. /\ raw_outputs = <<>> /\ finished_req_ids = {} /\ results = <<>>
      /\ generated_outputs = <<>> /\ todo = {} /\ finished_ids = {}
  BY <1>1 DEF EInv, Locations
<1>7. Live' = Live
  BY <1>1 DEF Live
<1>8. Unhandled' = Unhandled /\ Awaited' = Awaited
  BY <1>1, <1>6 DEF Unhandled, Awaited
<1>9. Locations'
  BY <1>1, <1>6 DEF EInv, Locations
<1>10. Batch'
  BY <1>1, <1>8 DEF EInv, Batch
<1>11. LiveHeld'
  BY <1>1, <1>5, <1>7 DEF EInv, LiveHeld
<1>12. Clients'
  BY <1>1, <1>5 DEF EInv, Clients, Fresh
<1>13. StepOutputs'
  BY <1>1, <1>5, <1>6, <1>7, <1>8, NoOutputs DEF EInv, StepOutputs
<1>14. append_failed' \/ (HeldForCause' /\ CacheExact' /\ Delivery')
  BY <1>1, <1>7, <1>8, PromisesUntouched DEF EInv
<1> QED BY <1>2, <1>5, <1>9, <1>10, <1>11, <1>12, <1>13, <1>14 DEF EInv

(* The head of raw_outputs: whose it is, and what is left when it is       *)
(* handled.                                                                *)
LEMMA HeadIsHeld ==
  ASSUME EInv, epc = "handle", raw_outputs # <<>>
  PROVE  /\ Unhandled = Range(raw_outputs) /\ Awaited = Named(raw_outputs)
         /\ Head(raw_outputs) \in Unhandled /\ Head(raw_outputs) \in StreamOutput
         /\ Tail(raw_outputs) \in Seq(StreamOutput)
         /\ OnceEach(Tail(raw_outputs))
         /\ Range(Tail(raw_outputs)) = Range(raw_outputs) \ {Head(raw_outputs)}
         /\ Named(Tail(raw_outputs)) = Named(raw_outputs) \ {Head(raw_outputs).req}
         /\ \A out \in Unhandled :
              out.req = Head(raw_outputs).req => out = Head(raw_outputs)
         /\ Head(raw_outputs).req \in Reqs /\ Holds(Head(raw_outputs).req)
<1>1. stream = <<>> /\ generated_outputs = <<>>
  BY DEF EInv, Locations
<1>2. Unhandled = Range(raw_outputs)
  BY <1>1, NoOutputs DEF Unhandled
<1>3. Awaited = Named(raw_outputs)
  BY <1>2, NamedInRange DEF Awaited
<1>4. raw_outputs \in Seq(StreamOutput) /\ OnceEach(raw_outputs)
  BY DEF EInv, EngineTypeOK, StepOutputs
<1>5. Head(raw_outputs) \in Unhandled /\ Head(raw_outputs) \in StreamOutput
  BY <1>2, <1>4, Taking
<1> QED BY <1>2, <1>3, <1>4, <1>5, Taking DEF EInv, StepOutputs, StreamOutput

(* append_tokens throws: the sequence is there, so it was short of pages.  *)
LEMMA HandleThrowsInv ==
  ASSUME EInv, NEW stop \in BOOLEAN, HandleThrows(stop)
  PROVE  EInv'
<1>1. /\ epc = "handle" /\ epc' = "await" /\ raw_outputs # <<>>
      /\ raw_outputs' = <<>> /\ results' = <<>> /\ finished_req_ids' = {}
      /\ append_failed' = (append_failed \/ Head(raw_outputs).req \in Sequenced)
      /\ UNCHANGED <<vars, rpc, generated_outputs, finished_ids, cancelled_requests,
                     cancelling, stream, delivered, silenced, is_running,
                     active_requests, kv_tokens, lost_pages, request_queues, queue,
                     client, received>>
      /\ UNCHANGED <<state, generated, waiting_queue, running_requests, request_map,
                     result, pc, todo>>
  BY DEF HandleThrows, allVars, vars, runnerVars, clients
<1>2. append_failed'
  BY <1>1, HeadIsHeld DEF Holds
<1>3. IInv'
  BY <1>1, StutterInv DEF EInv
<1>4. RunnerTypeOK'
  BY <1>1, <1>3 DEF EInv, IInv, EngineTypeOK, RunnerTypeOK
<1>5. /\ EngineTypeOK' /\ IsFiniteSet(Sequenced')
      /\ Sequenced' = Sequenced /\ Holding' = Holding
      /\ \A r : Holds(r)' <=> Holds(r)
  <2>1. <<>> \in Seq(StreamOutput)
    OBVIOUS
  <2> QED BY <1>1, <1>4, <2>1, HoldingUntouched DEF EInv, EngineTypeOK
<1>6. /\ stream = <<>> /\ generated_outputs = <<>> /\ todo = {} /\ finished_ids = {}
      /\ rpc = "idle" /\ pc = "idle"
  BY <1>1 DEF EInv, Locations
<1>7. Live' = Live
  BY <1>1 DEF Live
<1>8. Unhandled' = {} /\ Awaited' = {}
  BY <1>1, <1>6, NoOutputs DEF Unhandled, Awaited
<1>9. Locations'
  BY <1>1, <1>6 DEF EInv, Locations
<1>10. Batch'
  BY <1>1, <1>6, <1>8 DEF EInv, Batch
<1>11. LiveHeld'
  BY <1>1, <1>5, <1>7 DEF EInv, LiveHeld
<1>12. Clients'
  BY <1>1, <1>5 DEF EInv, Clients, Fresh
<1>13. StepOutputs'
  BY <1>1, <1>6, <1>8, NoOutputs DEF StepOutputs
<1> QED BY <1>2, <1>3, <1>5, <1>9, <1>10, <1>11, <1>12, <1>13 DEF EInv

(* append_tokens keeps to the pages there are. *)
LEMMA AppendingFits ==
  ASSUME EInv, NEW r \in Sequenced, CanAppend(r), lost_pages' = lost_pages,
         kv_tokens' = [kv_tokens EXCEPT ![r] = @ + 1]
  PROVE  /\ Sequenced' = Sequenced /\ kv_tokens' \in [Sequenced' -> Nat]
         /\ kv_tokens'[r] = kv_tokens[r] + 1 /\ kv_tokens[r] \in Nat
         /\ \A q \in Sequenced \ {r} : kv_tokens'[q] = kv_tokens[q]
         /\ FreePages' \in Nat
<1>1. /\ kv_tokens \in [Sequenced -> Nat] /\ Cache(kv_tokens)
      /\ FreePages \in Nat /\ lost_pages \in Nat
  BY DEF EInv, EngineTypeOK, Cache, Sequenced
<1>2. /\ DOMAIN kv_tokens' = DOMAIN kv_tokens /\ kv_tokens' \in [Sequenced -> Nat]
      /\ kv_tokens'[r] = kv_tokens[r] + 1 /\ kv_tokens[r] \in Nat
      /\ \A q \in Sequenced \ {r} : kv_tokens'[q] = kv_tokens[q]
  BY <1>1 DEF Sequenced
<1>3. /\ Cache(kv_tokens')
      /\ PagesIn(kv_tokens') =
           PagesIn(kv_tokens) + (Pages(kv_tokens[r] + 1) - Pages(kv_tokens[r]))
  <2>1. PICK n \in Nat : n = kv_tokens[r] + 1
    BY <1>2
  <2>2. r \in DOMAIN kv_tokens /\ kv_tokens'[r] = n
    BY <1>2, <2>1 DEF Sequenced
  <2>3. \A q \in DOMAIN kv_tokens \ {r} : kv_tokens'[q] = kv_tokens[q]
    BY <1>2 DEF Sequenced
  <2>4. /\ Cache(kv_tokens')
        /\ PagesIn(kv_tokens') = PagesIn(kv_tokens) + (Pages(n) - Pages(kv_tokens[r]))
    <3>1. Cache(kv_tokens) /\ DOMAIN kv_tokens' = DOMAIN kv_tokens
      BY <1>1, <1>2
    <3> QED BY <2>2, <2>3, <3>1, PagesAppended
  <2> QED BY <2>1, <2>4
<1>4. /\ PagesIn(kv_tokens) \in Nat /\ PagesIn(kv_tokens') \in Nat
      /\ Pages(kv_tokens[r] + 1) \in Nat /\ Pages(kv_tokens[r]) \in Nat
  BY <1>1, <1>2, <1>3, PagesInIsNat, PagesIsNat
<1>5. PICK a \in Nat, b \in Nat, c \in Nat, f \in Nat, l \in Nat, t \in Nat :
        /\ a = PagesIn(kv_tokens) /\ b = Pages(kv_tokens[r] + 1)
        /\ c = Pages(kv_tokens[r]) /\ f = FreePages /\ l = lost_pages
        /\ t = TotalGpuBlocks
  BY <1>1, <1>4, EngineAssumption
<1>6. f = t - l - a /\ FreePages' = t - l - (a + (b - c))
  BY <1>3, <1>5, FreePagesAre
<1>7. b - c <= f
  BY <1>5 DEF CanAppend
<1>8. FreePages' \in Nat
  BY <1>6, <1>7
<1> QED BY <1>2, <1>8 DEF Sequenced

(* One output handled: a token that is not the last goes into the cache,   *)
(* the last one into the list of what has ended.                           *)
LEMMA HandleOutputInv ==
  ASSUME EInv, NEW stop \in BOOLEAN, HandleOutput(stop)
  PROVE  EInv'
<1>1. PICK out \in StreamOutput, r \in Reqs, final \in BOOLEAN :
        out = Head(raw_outputs) /\ r = out.req /\ final = FinalOutput(out, stop)
  <2>1. Head(raw_outputs) \in StreamOutput /\ Head(raw_outputs).req \in Reqs
    BY HeadIsHeld DEF HandleOutput
  <2>2. FinalOutput(Head(raw_outputs), stop) \in BOOLEAN
    BY <2>1 DEF FinalOutput, StreamOutput
  <2> QED BY <2>1, <2>2
<1> DEFINE handled == [out EXCEPT !.final = final]
<1>2. /\ epc = "handle" /\ epc' = "handle" /\ raw_outputs # <<>>
      /\ final \/ CanAppend(r)
      /\ kv_tokens' = Appended(r, final)
      /\ results' = Append(results, handled)
      /\ finished_req_ids' = finished_req_ids \cup (IF final THEN {r} ELSE {})
      /\ raw_outputs' = Tail(raw_outputs)
      /\ UNCHANGED <<vars, rpc, generated_outputs, finished_ids, cancelled_requests,
                     cancelling, stream, delivered, silenced, is_running,
                     active_requests, lost_pages, append_failed, request_queues,
                     queue, client, received>>
      /\ UNCHANGED <<state, generated, waiting_queue, running_requests, request_map,
                     result, pc, todo>>
  BY <1>1 DEF HandleOutput, allVars, vars, runnerVars, clients
<1>3. /\ Unhandled = Range(raw_outputs) /\ Awaited = Named(raw_outputs)
      /\ out \in Unhandled /\ out \in StreamOutput
      /\ Tail(raw_outputs) \in Seq(StreamOutput)
      /\ OnceEach(Tail(raw_outputs))
      /\ Range(Tail(raw_outputs)) = Range(raw_outputs) \ {out}
      /\ Named(Tail(raw_outputs)) = Named(raw_outputs) \ {r}
      /\ r \in Reqs /\ Holds(r) /\ r \in Awaited
      /\ out.req = r /\ out.num = generated[r]
      /\ state[r] = IF out.final THEN "FINISHED" ELSE "RUNNING"
  <2>1. out \in Unhandled
    BY <1>1, <1>2, HeadIsHeld
  <2>2. out.num = generated[r] /\ state[r] = IF out.final THEN "FINISHED" ELSE "RUNNING"
    BY <1>1, <2>1 DEF EInv, StepOutputs
  <2> QED BY <1>1, <1>2, <2>1, <2>2, HeadIsHeld DEF Awaited
<1>4. IInv'
  BY <1>2, StutterInv DEF EInv
<1>5. RunnerTypeOK'
  BY <1>2, <1>4 DEF EInv, IInv, EngineTypeOK, RunnerTypeOK
<1>6. final \in BOOLEAN /\ (out.final => final)
  BY <1>1 DEF FinalOutput, StreamOutput
<1>7. /\ handled \in StreamOutput /\ handled.req = r /\ handled.final = final
      /\ handled.num = out.num
  BY <1>3, <1>6 DEF StreamOutput
<1> HIDE DEF handled
<1>8. /\ Sequenced' = Sequenced /\ kv_tokens' \in [Sequenced' -> Nat]
      /\ kv_tokens[r] \in Nat
      /\ kv_tokens'[r] = IF final THEN kv_tokens[r] ELSE kv_tokens[r] + 1
      /\ \A q \in Sequenced \ {r} : kv_tokens'[q] = kv_tokens[q]
      /\ FreePages' \in Nat
  <2>1. CASE final
    <3>1. kv_tokens' = kv_tokens
      BY <1>2, <2>1 DEF Appended
    <3> QED BY <1>2, <1>3, <2>1, <3>1, PagesUntouched DEF EInv, EngineTypeOK, Holds
  <2>2. CASE ~final
    <3>1. kv_tokens' = [kv_tokens EXCEPT ![r] = @ + 1]
      BY <1>2, <2>2 DEF Appended
    <3> QED BY <1>2, <1>3, <2>2, <3>1, AppendingFits DEF Holds
  <2> QED BY <2>1, <2>2
<1>9. /\ r \notin Named(results) /\ OnceEach(results) /\ results \in Seq(StreamOutput)
      /\ finished_req_ids = {o.req : o \in {o \in Range(results) : o.final}}
  BY <1>2, <1>3 DEF EInv, EngineTypeOK, StepOutputs
<1>10. /\ results' \in Seq(StreamOutput) /\ OnceEach(results')
      /\ Range(results') = Range(results) \cup {handled}
      /\ Named(results') = Named(results) \cup {r}
  BY <1>2, <1>7, <1>9, Appending
<1>11. r \notin finished_req_ids
  BY <1>9, NamedInRange
<1>12. EngineTypeOK' /\ IsFiniteSet(Sequenced')
  BY <1>2, <1>3, <1>5, <1>8, <1>10 DEF EInv, EngineTypeOK
<1>13. Holding' = Holding /\ \A q : Holds(q)' <=> Holds(q)
  BY <1>2, <1>8 DEF Holding, Holds
<1>14. Live' = Live
  BY <1>2 DEF Live
<1>15. /\ stream = <<>> /\ generated_outputs = <<>> /\ todo = {} /\ finished_ids = {}
       /\ rpc = "idle" /\ pc = "idle"
  BY <1>2 DEF EInv, Locations
<1>16. Unhandled' = Unhandled \ {out} /\ Awaited' = Awaited \ {r}
  <2>1. Unhandled' = Range(raw_outputs')
    BY <1>2, <1>15, NoOutputs DEF Unhandled
  <2>2. Awaited' = Named(raw_outputs')
    BY <2>1, NamedInRange DEF Awaited
  <2> QED BY <1>2, <1>3, <2>1, <2>2
<1>17. Locations'
  BY <1>2, <1>15 DEF EInv, Locations
<1>18. Batch'
  BY <1>2, <1>15, <1>16 DEF EInv, Batch
<1>19. LiveHeld'
  BY <1>2, <1>13, <1>14 DEF EInv, LiveHeld
<1>20. Clients'
  BY <1>2, <1>13 DEF EInv, Clients, Fresh
<1>21. StepOutputs'
  <2>1. Named(results') \cap Named(raw_outputs') = {}
    BY <1>2, <1>3, <1>10 DEF EInv, StepOutputs
  <2>2. \A o \in Unhandled' :
          /\ Holds(o.req)' /\ o.num = generated'[o.req]
          /\ state'[o.req] = IF o.final THEN "FINISHED" ELSE "RUNNING"
    BY <1>2, <1>13, <1>16 DEF EInv, StepOutputs
  <2>3. \A o \in Range(results') :
          o.req \in request_queues' /\ o.num = generated'[o.req]
    <3>1. \A o \in Range(results) : o.req \in request_queues /\ o.num = generated[o.req]
      BY DEF EInv, StepOutputs
    <3>2. handled.req \in request_queues /\ handled.num = generated[handled.req]
      BY <1>3, <1>7 DEF Holds
    <3> QED BY <1>2, <1>10, <3>1, <3>2
  <2>4. finished_req_ids' = {o.req : o \in {o \in Range(results') : o.final}}
    BY <1>2, <1>7, <1>9, <1>10
  <2> QED BY <1>2, <1>3, <1>10, <1>15, <2>1, <2>2, <2>3, <2>4, NoOutputs
          DEF EInv, StepOutputs
<1>22. ASSUME ~append_failed, HeldForCause, CacheExact, Delivery
       PROVE  HeldForCause' /\ CacheExact' /\ Delivery'
  <2>1. ~final => r \in Live
    BY <1>3, <1>6 DEF EInv, IInv, TypeOK, Places, Live
  <2>2. HeldForCause'
    <3>1. \A q \in Prompted \cap (Sequenced' \cup active_requests') :
            q \in Live' \cup Awaited' \cup finished_req_ids'
      BY <1>2, <1>8, <1>14, <1>16, <1>22, <2>1 DEF HeldForCause
    <3>2. ASSUME NEW q \in Prompted \cap request_queues'
          PROVE  q \in Live' \cup Awaited' \/ \E o \in Range(results') : o.req = q /\ o.final
      <4>1. q \in Live \cup Awaited \/ \E o \in Range(results) : o.req = q /\ o.final
        BY <1>2, <1>22 DEF HeldForCause
      <4> QED BY <1>7, <1>10, <1>14, <1>16, <2>1, <4>1
    <3> QED BY <3>1, <3>2 DEF HeldForCause
  <2>3. /\ \A q : q # r => Behind(q)' = Behind(q) /\ OnTheWay(q)' = OnTheWay(q)
        /\ OnTheWay(r)' = OnTheWay(r)
        /\ Behind(r) = 1 /\ Behind(r)' = IF final THEN 1 ELSE 0
    <3>1. \A q : q # r =>
            (q \in Awaited' \cup finished_req_ids' <=> q \in Awaited \cup finished_req_ids)
      BY <1>2, <1>16
    <3>2. \A q : q \in Awaited' \cup Named(results') <=> q \in Awaited \cup Named(results)
      BY <1>3, <1>10, <1>16
    <3>3. r \in Awaited' \cup finished_req_ids' <=> final
      BY <1>2, <1>11, <1>16
    <3>4. \A q : OnTheWay(q)' = OnTheWay(q)
      BY <3>2 DEF OnTheWay
    <3>5. /\ \A q : q # r => Behind(q)' = Behind(q)
          /\ Behind(r) = 1 /\ Behind(r)' = IF final THEN 1 ELSE 0
      BY <1>3, <3>1, <3>3 DEF Behind
    <3> QED BY <3>4, <3>5
  <2>4. CacheExact'
    <3>1. \A q \in Sequenced \ {r} :
            kv_tokens'[q] + Behind(q)' = PromptLen[q] + generated'[q]
      BY <1>2, <1>8, <1>22, <2>3 DEF CacheExact
    <3>2. kv_tokens[r] + 1 = PromptLen[r] + generated'[r]
      BY <1>2, <1>3, <1>22, <2>3 DEF CacheExact, Holds
    <3>3. kv_tokens'[r] + Behind(r)' = kv_tokens[r] + 1
      BY <1>6, <1>8, <2>3
    <3>4. \A q \in Sequenced' : kv_tokens'[q] + Behind(q)' = PromptLen[q] + generated'[q]
      BY <1>8, <3>1, <3>2, <3>3
    <3> QED BY <3>4 DEF CacheExact
  <2>5. ASSUME NEW q \in Reqs PROVE InOrder(q)'
    <3>1. InOrder(q) /\ EngineTypeOK /\ generated[q] \in Nat
      BY <1>22 DEF Delivery, EInv, EngineTypeOK, RunnerTypeOK, TypeOK
    <3>2. OnTheWay(q)' = OnTheWay(q)
      BY <2>3
    <3> QED BY <1>2, <3>1, <3>2, OrderUntouched
  <2> QED BY <2>2, <2>4, <2>5 DEF Delivery
<1> QED BY <1>2, <1>4, <1>12, <1>17, <1>18, <1>19, <1>20, <1>21, <1>22 DEF EInv

(* Sequences leave the cache: their pages are free again. *)
LEMMA UnregisteringFrees ==
  ASSUME EInv, lost_pages' = lost_pages, NEW S, kv_tokens' = Unregistered(S)
  PROVE  /\ Sequenced' = Sequenced \ S /\ kv_tokens' \in [Sequenced' -> Nat]
         /\ \A q \in Sequenced' : kv_tokens'[q] = kv_tokens[q]
         /\ FreePages' \in Nat /\ IsFiniteSet(Sequenced')
<1>1. /\ kv_tokens \in [Sequenced -> Nat] /\ Cache(kv_tokens)
      /\ FreePages \in Nat /\ lost_pages \in Nat
  BY DEF EInv, EngineTypeOK, Cache, Sequenced
<1>2. kv_tokens' = [s \in Sequenced \ S |-> kv_tokens[s]]
  BY DEF Unregistered
<1>3. /\ DOMAIN kv_tokens' = Sequenced \ S /\ kv_tokens' \in [Sequenced \ S -> Nat]
      /\ \A q \in Sequenced \ S : kv_tokens'[q] = kv_tokens[q]
  BY <1>1, <1>2
<1>4. DOMAIN kv_tokens' \subseteq DOMAIN kv_tokens
  BY <1>3 DEF Sequenced
<1>5. \A s \in DOMAIN kv_tokens' : kv_tokens'[s] = kv_tokens[s]
  BY <1>3
<1>6. Cache(kv_tokens') /\ PagesIn(kv_tokens') <= PagesIn(kv_tokens)
  BY <1>1, <1>4, <1>5, PagesUnregistered
<1>7. PICK a \in Nat, b \in Nat, f \in Nat, l \in Nat, t \in Nat :
        /\ a = PagesIn(kv_tokens) /\ b = PagesIn(kv_tokens')
        /\ f = FreePages /\ l = lost_pages /\ t = TotalGpuBlocks
  BY <1>1, <1>6, PagesInIsNat, EngineAssumption
<1>8. b <= a /\ f = t - l - a /\ FreePages' = t - l - b
  BY <1>6, <1>7, FreePagesAre
<1>9. FreePages' \in Nat
  BY <1>8
<1> QED BY <1>3, <1>6, <1>9 DEF Sequenced, Cache

(* The clean-up of step(): who has had the final output is finished for    *)
(* the scheduler too, and gives up its sequence and its entry.             *)
LEMMA HandleEndInv ==
  ASSUME EInv, HandleEnd
  PROVE  EInv'
<1>1. PICK F \in SUBSET Reqs : F = finished_req_ids
  BY DEF EInv, EngineTypeOK
<1>2. /\ epc = "handle" /\ epc' = IF results = <<>> THEN "await" ELSE "deliver"
      /\ raw_outputs = <<>> /\ raw_outputs' = <<>> /\ finished_req_ids' = {}
      /\ UpdateRequestsState(Ended) /\ kv_tokens' = Unregistered(F)
      /\ active_requests' = active_requests \ F
      /\ UNCHANGED <<rpc, generated_outputs, finished_ids, cancelled_requests,
                     cancelling, stream, delivered, silenced, is_running,
                     lost_pages, append_failed, results, request_queues,
                     queue, client, received>>
      /\ UNCHANGED <<generated, waiting_queue, running_requests, request_map,
                     result, pc, todo>>
  BY <1>1 DEF HandleEnd, runnerVars, clients, UpdateRequestsState
<1>3. Ended = {Id[q] : q \in F} /\ Ended \in SUBSET Ids
  BY <1>1, BatcherAssumption DEF Ended
<1>4. IInv'
  BY <1>2, <1>3, UpdateRequestsStateInv DEF EInv
<1>5. RunnerTypeOK'
  BY <1>2, <1>4 DEF EInv, IInv, EngineTypeOK, RunnerTypeOK
<1>6. /\ Sequenced' = Sequenced \ F /\ kv_tokens' \in [Sequenced' -> Nat]
      /\ \A q \in Sequenced' : kv_tokens'[q] = kv_tokens[q]
      /\ FreePages' \in Nat /\ IsFiniteSet(Sequenced')
  BY <1>2, UnregisteringFrees
<1>7. EngineTypeOK'
  BY <1>2, <1>5, <1>6 DEF EInv, EngineTypeOK
<1>8. /\ \A q \in Reqs \ F : state'[q] = state[q]
      /\ \A q \in Reqs : state[q] = "FINISHED" => state'[q] = "FINISHED"
      /\ \A q \in Live \cap F : state'[q] = "FINISHED"
      /\ \A q \in Reqs : state'[q] = "RUNNING" => state[q] = "RUNNING"
  <2>1. state' = [q \in Reqs |-> IF \E i \in Ended : request_map[i] = q
                                 THEN "FINISHED" ELSE state[q]]
    BY <1>2 DEF UpdateRequestsState
  <2>2. \A q \in Reqs : (\E i \in Ended : request_map[i] = q) => q \in F
    <3> SUFFICES ASSUME NEW q \in Reqs, NEW p \in F, request_map[Id[p]] = q PROVE q \in F
      BY <1>3
    <3>1. Id[p] \in Ids /\ q # None
      BY BatcherAssumption
    <3>2. Id[q] = Id[p]
      BY <3>1 DEF EInv, IInv, MapAgrees
    <3> QED BY <3>2, EngineAssumption
  <2>3. \A q \in Live \cap F : request_map[Id[q]] = q /\ Id[q] \in Ended
    BY <1>3 DEF EInv, IInv, MapAgrees, Live
  <2> QED BY <2>1, <2>2, <2>3
<1>9. Live \subseteq Reqs /\ Live' = Live \ F
  <2>1. waiting_queue \subseteq Reqs /\ running_requests \subseteq Reqs
    BY DEF EInv, IInv, TypeOK
  <2>2. \A q \in Live' : q \in Live
    BY <1>2, <1>8, <2>1 DEF Live
  <2>3. \A q \in Live' : state'[q] # "FINISHED"
    BY DEF Live
  <2>4. \A q \in Live' : q \notin F
    BY <1>8, <2>2, <2>3
  <2>5. \A q \in Live : q \notin F => q \in Live'
    BY <1>2, <1>8, <2>1 DEF Live
  <2>6. Live \subseteq Reqs
    BY <2>1 DEF Live
  <2> QED BY <2>2, <2>5, <2>4, <2>6
<1>10. /\ stream = <<>> /\ generated_outputs = <<>> /\ todo = {} /\ finished_ids = {}
      /\ rpc = "idle" /\ pc = "idle"
  BY <1>2 DEF EInv, Locations
<1>11. Unhandled = {} /\ Awaited = {} /\ Unhandled' = {} /\ Awaited' = {}
  BY <1>2, <1>10, NoOutputs DEF Unhandled, Awaited
<1>12. /\ F = {o.req : o \in {o \in Range(results) : o.final}}
       /\ \A o \in Range(results) : o.req \in request_queues /\ o.num = generated[o.req]
  BY <1>1, <1>2 DEF EInv, StepOutputs
<1>13. Locations'
  BY <1>2, <1>10 DEF EInv, Locations
<1>14. Batch'
  BY <1>2, <1>8, <1>10, <1>11 DEF EInv, Batch
<1>15. LiveHeld'
  <2>1. \A q \in Live' : Holds(q)'
    BY <1>2, <1>6, <1>9 DEF EInv, LiveHeld, Holds
  <2>2. \A q \in Live' : Id[q] \notin cancelled_requests'
    BY <1>2, <1>9 DEF EInv, LiveHeld
  <2>3. Live' \subseteq Prompted
    BY <1>9 DEF EInv, LiveHeld
  <2> QED BY <1>2, <2>1, <2>2, <2>3 DEF LiveHeld
<1>16. Clients'
  <2>1. F \subseteq request_queues /\ \A q \in F : client[q] # "new"
    BY <1>12 DEF EInv, Clients
  <2>2. \A q \in Reqs \ F : Fresh(q) => Fresh(q)'
    BY <1>2, <1>8 DEF Fresh
  <2>3. Holding' \subseteq Holding
    BY <1>2, <1>6 DEF Holding
  <2> QED BY <1>2, <2>1, <2>2, <2>3 DEF EInv, Clients
<1>17. StepOutputs'
  <2>1. \A o \in Range(results') :
          /\ o.req \in request_queues' /\ o.num = generated'[o.req]
          /\ o.final => o.req \notin Live'
    BY <1>2, <1>9, <1>12
  <2> QED BY <1>2, <1>10, <1>11, <2>1, NoOutputs DEF EInv, StepOutputs
<1>18. ASSUME ~append_failed, HeldForCause, CacheExact, Delivery
       PROVE  HeldForCause' /\ CacheExact' /\ Delivery'
  <2>1. HeldForCause'
    <3>1. \A q \in Prompted \cap (Sequenced' \cup active_requests') : q \in Live'
      BY <1>1, <1>2, <1>6, <1>9, <1>11, <1>18 DEF HeldForCause
    <3>2. ASSUME NEW q \in Prompted \cap request_queues'
          PROVE  q \in Live' \/ \E o \in Range(results') : o.req = q /\ o.final
      <4>1. q \in Live \/ \E o \in Range(results) : o.req = q /\ o.final
        BY <1>2, <1>11, <1>18 DEF HeldForCause
      <4> QED BY <1>2, <1>9, <1>12, <4>1
    <3> QED BY <3>1, <3>2 DEF HeldForCause
  <2>2. /\ \A q : OnTheWay(q)' = OnTheWay(q)
        /\ \A q : q \notin F => Behind(q)' = Behind(q)
    BY <1>1, <1>2, <1>11 DEF OnTheWay, Behind
  <2>3. CacheExact'
    BY <1>2, <1>6, <1>18, <2>2 DEF CacheExact
  <2>4. ASSUME NEW q \in Reqs PROVE InOrder(q)'
    <3>1. InOrder(q) /\ EngineTypeOK /\ generated[q] \in Nat
      BY <1>18 DEF Delivery, EInv, EngineTypeOK, RunnerTypeOK, TypeOK
    <3> QED BY <1>2, <2>2, <3>1, OrderUntouched
  <2> QED BY <2>1, <2>3, <2>4 DEF Delivery
<1> QED BY <1>2, <1>4, <1>6, <1>7, <1>13, <1>14, <1>15, <1>16, <1>17, <1>18 DEF EInv

(* One output delivered: the queue of its request gets it, and is dropped  *)
(* with the last one.                                                      *)
LEMMA DeliverInv ==
  ASSUME EInv, Deliver
  PROVE  EInv'
<1>1. PICK out \in StreamOutput, r \in Reqs :
        /\ out = Head(results) /\ r = out.req /\ r \in request_queues
        /\ out.num = generated[r] /\ (out.final => r \notin Live)
        /\ Range(Tail(results)) = Range(results) \ {out}
        /\ Named(Tail(results)) = Named(results) \ {r} /\ r \in Named(results)
        /\ OnceEach(Tail(results)) /\ Tail(results) \in Seq(StreamOutput)
        /\ \A o \in Range(results) : o.req = r => o = out
  <2>1. epc = "deliver" /\ results # <<>> /\ results \in Seq(StreamOutput) /\ OnceEach(results)
    BY DEF Deliver, EInv, Locations, EngineTypeOK, StepOutputs
  <2>2. PICK out \in StreamOutput : out = Head(results) /\ out \in Range(results)
    BY <2>1, Taking
  <2>3. /\ out.req \in request_queues /\ out.num = generated[out.req]
        /\ (out.final => out.req \notin Live)
    BY <2>1, <2>2 DEF EInv, StepOutputs
  <2>4. out.req \in Reqs /\ out.req \in Named(results)
    BY <2>2, NamedInRange DEF StreamOutput
  <2> QED BY <2>1, <2>2, <2>3, <2>4, Taking
<1>2. /\ epc = "deliver" /\ epc' \in {"await", "deliver"}
      /\ epc' = "await" <=> results' = <<>>
      /\ queue' = [queue EXCEPT ![r] = Append(queue[r], out)]
      /\ request_queues' = request_queues \ (IF out.final THEN {r} ELSE {})
      /\ results' = Tail(results)
      /\ UNCHANGED <<allVars, vars, rpc, generated_outputs, finished_ids,
                     cancelled_requests, cancelling, stream, delivered, silenced,
                     is_running, active_requests, kv_tokens, lost_pages, append_failed,
                     raw_outputs, finished_req_ids, client, received>>
      /\ UNCHANGED <<state, generated, waiting_queue, running_requests, request_map,
                     result, pc, todo>>
  BY <1>1 DEF Deliver, Put, allVars, vars, runnerVars, kv
<1>3. /\ IInv' /\ RunnerTypeOK' /\ Live' = Live
      /\ Unhandled' = Unhandled /\ Awaited' = Awaited
      /\ \A q \in Reqs : Fresh(q)' <=> Fresh(q)
  BY <1>2, StepUntouched
<1>4. FreePages' = FreePages /\ Sequenced' = Sequenced
  BY <1>2, PagesUntouched
<1>5. /\ queue \in [Reqs -> Seq(StreamOutput)] /\ queue'[r] = Append(queue[r], out)
      /\ \A q \in Reqs \ {r} : queue'[q] = queue[q]
      /\ queue' \in [Reqs -> Seq(StreamOutput)]
  <2>1. queue \in [Reqs -> Seq(StreamOutput)]
    BY DEF EInv, EngineTypeOK
  <2>2. Append(queue[r], out) \in Seq(StreamOutput)
    BY <2>1
  <2> QED BY <1>2, <2>1, <2>2
<1>6. EngineTypeOK' /\ IsFiniteSet(Sequenced')
  BY <1>1, <1>2, <1>3, <1>4, <1>5 DEF EInv, EngineTypeOK
<1>7. /\ Holding' \subseteq Holding
      /\ \A q : Holds(q) /\ ~(out.final /\ q = r) => Holds(q)'
  BY <1>2, <1>4 DEF Holding, Holds
<1>8. Batch'
  BY <1>2, BatchUntouched
<1>9. /\ Unhandled = {} /\ Awaited = {} /\ raw_outputs = <<>> /\ stream = <<>>
      /\ generated_outputs = <<>> /\ finished_req_ids = {} /\ rpc = "idle" /\ pc = "idle"
  BY <1>2, AllHandled DEF EInv
<1>10. Locations'
  BY <1>2, <1>9 DEF EInv, Locations
<1>11. LiveHeld'
  <2>1. \A q \in Live' : Holds(q)'
    BY <1>1, <1>2, <1>3, <1>7 DEF EInv, LiveHeld
  <2> QED BY <1>2, <1>3, <2>1 DEF EInv, LiveHeld
<1>12. client[r] \in {"waiting", "gone"} /\ \A k \in DOMAIN queue[r] : ~queue[r][k].final
  BY <1>1 DEF EInv, Clients
<1>13. /\ Len(queue[r]) \in Nat /\ Len(queue'[r]) = Len(queue[r]) + 1
       /\ queue'[r][Len(queue[r]) + 1] = out
       /\ \A k \in DOMAIN queue'[r] :
            k \in Nat /\ (k = Len(queue[r]) + 1 \/ (k \in DOMAIN queue[r] /\ queue'[r][k] = queue[r][k]))
  BY <1>5
<1>14. Clients'
  <2>1. \A q \in request_queues' : \A k \in DOMAIN queue'[q] : ~queue'[q][k].final
    <3>1. \A q \in request_queues' \ {r} : \A k \in DOMAIN queue'[q] : ~queue'[q][k].final
      BY <1>2, <1>5 DEF EInv, EngineTypeOK, Clients
    <3>2. ASSUME r \in request_queues', NEW k \in DOMAIN queue'[r]
          PROVE  ~queue'[r][k].final
      BY <1>2, <1>12, <1>13, <3>2
    <3> QED BY <3>1, <3>2
  <2>2. \A q \in Reqs : client[q] \in {"new", "failed"} =>
          q \notin Holding' /\ queue'[q] = <<>> /\ received[q] = <<>>
    BY <1>5, <1>7, <1>12 DEF EInv, Clients
  <2>3. \A q \in request_queues' : client[q] \in {"waiting", "gone"}
    BY <1>2 DEF EInv, Clients
  <2>4. \A q \in Reqs : client[q] = "new" =>
          Fresh(q)' /\ generated'[q] = 0 /\ Id[q] \notin cancelled_requests'
    BY <1>2, <1>3 DEF EInv, Clients
  <2> QED BY <1>2, <2>1, <2>2, <2>3, <2>4 DEF Clients
<1>15. StepOutputs'
  <2>1. \A o \in Range(results') :
          /\ o.req \in request_queues' /\ o.num = generated'[o.req]
          /\ o.final => o.req \notin Live'
    BY <1>1, <1>2, <1>3 DEF EInv, StepOutputs
  <2> QED BY <1>1, <1>2, <1>3, <1>9, <2>1, NoOutputs DEF EInv, StepOutputs
<1>16. ASSUME ~append_failed, HeldForCause, CacheExact, Delivery
       PROVE  HeldForCause' /\ CacheExact' /\ Delivery'
  <2>1. HeldForCause'
    <3>1. \A q \in Prompted \cap (Sequenced' \cup active_requests') :
            q \in Live' \cup Awaited' \cup finished_req_ids'
      BY <1>2, <1>3, <1>4, <1>16 DEF HeldForCause
    <3>2. ASSUME NEW q \in Prompted \cap request_queues'
          PROVE  q \in Live' \cup Awaited' \/ \E o \in Range(results') : o.req = q /\ o.final
      <4>1. q \in Live \cup Awaited \/ \E o \in Range(results) : o.req = q /\ o.final
        BY <1>2, <1>16 DEF HeldForCause
      <4>2. CASE q \in Live \cup Awaited
        BY <1>3, <4>2
      <4>3. ASSUME NEW o \in Range(results), o.req = q, o.final
            PROVE  \E p \in Range(results') : p.req = q /\ p.final
        <5>1. o # out
          BY <1>1, <1>2, <4>3
        <5> QED BY <1>1, <1>2, <4>3, <5>1
      <4> QED BY <4>1, <4>2, <4>3
    <3> QED BY <3>1, <3>2 DEF HeldForCause
  <2>2. /\ \A q : Behind(q)' = Behind(q) /\ (q # r => OnTheWay(q)' = OnTheWay(q))
        /\ OnTheWay(r) = 1 /\ OnTheWay(r)' = 0
    BY <1>1, <1>2, <1>3, <1>9 DEF Behind, OnTheWay
  <2>3. CacheExact'
    BY <1>2, <1>4, <1>16, <2>2 DEF CacheExact
  <2>4. ASSUME NEW q \in Reqs \ {r} PROVE InOrder(q)'
    <3>1. InOrder(q) /\ EngineTypeOK /\ generated[q] \in Nat /\ OnTheWay(q)' = OnTheWay(q)
      BY <1>16, <2>2 DEF Delivery, EInv, EngineTypeOK, RunnerTypeOK, TypeOK
    <3>2. UNCHANGED <<received[q], queue[q]>> /\ client'[q] = client[q]
      BY <1>2, <1>5
    <3>3. q \in request_queues' => q \in request_queues /\ generated'[q] = generated[q]
      BY <1>2
    <3> QED BY <3>1, <3>2, <3>3, OrderUntouched
  <2>5. InOrder(r)'
    <3>1. InOrder(r) /\ client[r] # "done" /\ Len(received[r]) \in Nat /\ generated[r] \in Nat
      BY <1>12, <1>16 DEF Delivery, EInv, EngineTypeOK, RunnerTypeOK, TypeOK
    <3>2. PICK a \in Nat, b \in Nat :
            a = Len(received[r]) /\ b = Len(queue[r]) /\ generated[r] = a + b + 1
      <4>1. Len(received[r]) + Len(queue[r]) + 1 = generated[r]
        BY <1>1, <2>2, <3>1 DEF InOrder
      <4> QED BY <1>13, <3>1, <4>1
    <3>3. \A k \in DOMAIN queue'[r] :
            /\ queue'[r][k].num = Len(received[r]) + k
            /\ queue'[r][k].final => k = Len(queue'[r])
      <4> SUFFICES ASSUME NEW k \in DOMAIN queue'[r]
                   PROVE  /\ queue'[r][k].num = Len(received[r]) + k
                          /\ queue'[r][k].final => k = Len(queue'[r])
        OBVIOUS
      <4>1. CASE k = b + 1
        <5>1. queue'[r][k] = out /\ Len(queue'[r]) = b + 1 /\ out.num = a + b + 1
          BY <1>1, <1>13, <3>2, <4>1
        <5>2. a + b + 1 = a + (b + 1)
          OBVIOUS
        <5> QED BY <3>2, <4>1, <5>1, <5>2
      <4>2. CASE k \in DOMAIN queue[r] /\ queue'[r][k] = queue[r][k]
        BY <1>12, <3>1, <4>2 DEF InOrder
      <4> QED BY <1>13, <3>2, <4>1, <4>2
    <3>4. r \in request_queues' =>
            Len(received'[r]) + Len(queue'[r]) + OnTheWay(r)' = generated'[r]
      <4>1. /\ Len(received'[r]) = a /\ Len(queue'[r]) = b + 1
            /\ generated'[r] = a + b + 1 /\ OnTheWay(r)' = 0
        BY <1>2, <1>13, <2>2, <3>2
      <4>2. a + (b + 1) + 0 = a + b + 1
        OBVIOUS
      <4> QED BY <4>1, <4>2
    <3>5. \A k \in DOMAIN received'[r] :
            /\ received'[r][k].num = k
            /\ received'[r][k].final <=> k = Len(received'[r]) /\ client'[r] = "done"
      BY <1>2, <3>1 DEF InOrder
    <3> QED BY <1>2, <3>1, <3>3, <3>4, <3>5 DEF InOrder
  <2> QED BY <2>1, <2>3, <2>4, <2>5 DEF Delivery
<1> QED BY <1>2, <1>3, <1>6, <1>8, <1>10, <1>11, <1>14, <1>15, <1>16 DEF EInv

(* generate() takes an output from its queue. *)
LEMMA YieldInv ==
  ASSUME EInv, NEW r \in Reqs, Yield(r)
  PROVE  EInv'
<1>1. /\ epc = "await" /\ client[r] = "waiting" /\ queue[r] # <<>>
      /\ received' = [received EXCEPT ![r] = Append(@, Head(queue[r]))]
      /\ queue' = [queue EXCEPT ![r] = Tail(@)]
      /\ client' = [client EXCEPT ![r] = IF Head(queue[r]).final THEN "done" ELSE @]
      /\ UNCHANGED <<allVars, vars, rpc, generated_outputs, finished_ids,
                     cancelled_requests, cancelling, stream, delivered, silenced, epc,
                     is_running, active_requests, kv_tokens, lost_pages, append_failed,
                     raw_outputs, finished_req_ids, results, request_queues>>
      /\ UNCHANGED <<state, generated, waiting_queue, running_requests, request_map,
                     result, pc, todo>>
  BY DEF Yield, allVars, vars, runnerVars, kv, stepping
<1>2. PICK out \in StreamOutput, b \in Nat :
        /\ out = Head(queue[r]) /\ Len(queue[r]) = b + 1
        /\ queue[r][1] = out /\ 1 \in DOMAIN queue[r]
        /\ Tail(queue[r]) \in Seq(StreamOutput) /\ Len(Tail(queue[r])) = b
        /\ DOMAIN Tail(queue[r]) = 1..b
        /\ \A k \in 1..b : k + 1 \in DOMAIN queue[r] /\ Tail(queue[r])[k] = queue[r][k + 1]
  <2>1. queue[r] \in Seq(StreamOutput)
    BY DEF EInv, EngineTypeOK
  <2>2. Len(queue[r]) \in Nat \ {0} /\ DOMAIN queue[r] = 1..Len(queue[r])
    BY <1>1, <2>1, EmptySeq
  <2>3. PICK b \in Nat : Len(queue[r]) = b + 1
    <3>1. PICK l \in Nat \ {0} : l = Len(queue[r])
      BY <2>2
    <3>2. l - 1 \in Nat /\ l = (l - 1) + 1
      OBVIOUS
    <3> QED BY <3>1, <3>2
  <2>4. Len(queue[r]) = b + 1 /\ DOMAIN queue[r] = 1..(b + 1)
    BY <2>2, <2>3
  <2>5. /\ Head(queue[r]) = queue[r][1] /\ queue[r][1] \in StreamOutput
        /\ 1 \in DOMAIN queue[r]
    BY <1>1, <2>1, <2>4
  <2>6. /\ Tail(queue[r]) \in Seq(StreamOutput) /\ Len(Tail(queue[r])) = b
        /\ \A k \in 1..b : Tail(queue[r])[k] = queue[r][k + 1]
    BY <1>1, <2>1, <2>4
  <2>7. \A k \in 1..b : k + 1 \in DOMAIN queue[r]
    BY <2>4
  <2>8. DOMAIN Tail(queue[r]) = 1..b
    BY <2>6
  <2> QED BY <2>4, <2>5, <2>6, <2>7, <2>8
<1>3. PICK a \in Nat :
        /\ received[r] \in Seq(StreamOutput) /\ a = Len(received[r])
        /\ received'[r] \in Seq(StreamOutput) /\ Len(received'[r]) = a + 1
        /\ received'[r][a + 1] = out
        /\ \A k \in DOMAIN received'[r] :
             k = a + 1 \/ (k \in DOMAIN received[r] /\ received'[r][k] = received[r][k])
        /\ \A k \in DOMAIN received[r] : k \in 1..a
  <2>1. received \in [Reqs -> Seq(StreamOutput)]
    BY DEF EInv, EngineTypeOK
  <2>2. received'[r] = Append(received[r], out) /\ received[r] \in Seq(StreamOutput)
    BY <1>1, <1>2, <2>1
  <2>3. Len(received[r]) \in Nat
    BY <2>2
  <2> QED BY <2>2, <2>3
<1>4. /\ queue'[r] = Tail(queue[r])
      /\ client'[r] = IF out.final THEN "done" ELSE "waiting"
      /\ \A q \in Reqs \ {r} : /\ queue'[q] = queue[q] /\ received'[q] = received[q]
                               /\ client'[q] = client[q]
  BY <1>1, <1>2 DEF EInv, EngineTypeOK
<1>5. /\ DOMAIN queue'[r] = 1..b /\ Len(queue'[r]) = b
      /\ \A k \in 1..b : k + 1 \in DOMAIN queue[r] /\ queue'[r][k] = queue[r][k + 1]
  <2>1. queue'[r] = Tail(queue[r])
    BY <1>4
  <2>2. /\ DOMAIN Tail(queue[r]) = 1..b /\ Len(Tail(queue[r])) = b
        /\ \A k \in 1..b : k + 1 \in DOMAIN queue[r] /\ Tail(queue[r])[k] = queue[r][k + 1]
    BY <1>2
  <2> QED BY <2>1, <2>2, Zenon
<1>6. /\ IInv' /\ RunnerTypeOK' /\ Live' = Live
      /\ Unhandled' = Unhandled /\ Awaited' = Awaited
      /\ \A q \in Reqs : Fresh(q)' <=> Fresh(q)
  BY <1>1, StepUntouched
<1>7. FreePages' = FreePages /\ Sequenced' = Sequenced
  BY <1>1, PagesUntouched
<1>8. EngineTypeOK' /\ IsFiniteSet(Sequenced')
  <2>1. /\ queue \in [Reqs -> Seq(StreamOutput)] /\ received \in [Reqs -> Seq(StreamOutput)]
        /\ client \in [Reqs -> {"new", "waiting", "done", "failed", "cancelled", "gone"}]
    BY DEF EInv, EngineTypeOK
  <2>2. queue' \in [Reqs -> Seq(StreamOutput)]
    BY <1>1, <1>2, <2>1
  <2>3. received' \in [Reqs -> Seq(StreamOutput)]
    BY <1>1, <1>2, <2>1
  <2>4. client' \in [Reqs -> {"new", "waiting", "done", "failed", "cancelled", "gone"}]
    BY <1>1, <2>1
  <2> QED BY <1>1, <1>6, <1>7, <2>2, <2>3, <2>4 DEF EInv, EngineTypeOK
<1>9. Holding' = Holding /\ \A q : Holds(q)' <=> Holds(q)
  BY <1>1, <1>7 DEF Holding, Holds
<1>10. Batch'
  BY <1>1, BatchUntouched
<1>11. Locations' /\ LiveHeld' /\ StepOutputs'
  BY <1>1, <1>6, <1>9 DEF EInv, Locations, LiveHeld, StepOutputs
<1>12. Clients'
  <2>1. ASSUME NEW q \in request_queues'
        PROVE  /\ client'[q] \in {"waiting", "gone"}
               /\ \A k \in DOMAIN queue'[q] : ~queue'[q][k].final
    <3>1. /\ q \in request_queues /\ q \in Reqs /\ client[q] \in {"waiting", "gone"}
          /\ \A k \in DOMAIN queue[q] : ~queue[q][k].final
      BY <1>1, <2>1 DEF EInv, EngineTypeOK, Clients
    <3>2. CASE q # r
      BY <1>4, <3>1, <3>2
    <3>3. CASE q = r
      <4>1. ~out.final
        BY <1>2, <3>1, <3>3
      <4>2. \A k \in DOMAIN queue'[r] : ~queue'[r][k].final
        BY <1>5, <3>1, <3>3
      <4> QED BY <1>4, <3>3, <4>1, <4>2
    <3> QED BY <3>2, <3>3
  <2>2. \A q \in Reqs : client'[q] \in {"new", "failed"} => q # r
    BY <1>4
  <2> QED BY <1>1, <1>4, <1>6, <1>9, <2>1, <2>2 DEF EInv, Clients
<1>13. ASSUME ~append_failed, HeldForCause, CacheExact, Delivery
       PROVE  HeldForCause' /\ CacheExact' /\ Delivery'
  <2>1. \A q : Behind(q)' = Behind(q) /\ OnTheWay(q)' = OnTheWay(q)
    BY <1>1, <1>6 DEF Behind, OnTheWay
  <2>2. HeldForCause' /\ CacheExact'
    BY <1>1, <1>6, <1>7, <1>13, <2>1 DEF HeldForCause, CacheExact
  <2>3. ASSUME NEW q \in Reqs \ {r} PROVE InOrder(q)'
    <3>1. InOrder(q) /\ EngineTypeOK /\ generated[q] \in Nat /\ OnTheWay(q)' = OnTheWay(q)
      BY <1>13, <2>1 DEF Delivery, EInv, EngineTypeOK, RunnerTypeOK, TypeOK
    <3> QED BY <1>1, <1>4, <3>1, OrderUntouched
  <2>4. InOrder(r)'
    <3>1. InOrder(r)
      BY <1>13 DEF Delivery
    <3>2. /\ \A k \in DOMAIN received[r] :
               received[r][k].num = k /\ ~(received[r][k].final = TRUE)
          /\ out.num = a + 1 /\ out.final \in BOOLEAN
      <4>1. \A k \in DOMAIN received[r] :
              received[r][k].num = k /\ ~(received[r][k].final = TRUE)
        BY <1>1, <3>1 DEF InOrder
      <4>2. out.num = a + 1 /\ out.final \in BOOLEAN
        BY <1>2, <1>3, <3>1 DEF InOrder, StreamOutput
      <4> QED BY <4>1, <4>2
    <3>3. ASSUME NEW k \in DOMAIN received'[r]
          PROVE  /\ received'[r][k].num = k
                 /\ received'[r][k].final <=> k = Len(received'[r]) /\ client'[r] = "done"
      <4>1. CASE k = a + 1
        BY <1>3, <1>4, <3>2, <4>1
      <4>2. CASE k \in DOMAIN received[r] /\ received'[r][k] = received[r][k]
        <5>1. received[r][k] \in StreamOutput
          BY <1>3, <4>2
        <5>2. k # a + 1 /\ received'[r][k].final = FALSE
          BY <1>3, <3>2, <4>2, <5>1 DEF StreamOutput
        <5> QED BY <1>3, <3>2, <4>2, <5>2
      <4> QED BY <1>3, <4>1, <4>2
    <3>4. ASSUME NEW k \in 1..b
          PROVE  /\ queue'[r][k].num = Len(received'[r]) + k
                 /\ queue'[r][k].final => k = Len(queue'[r])
      <4>1. k + 1 \in DOMAIN queue[r] /\ queue'[r][k] = queue[r][k + 1]
        BY <1>5
      <4>2. /\ queue[r][k + 1].num = a + (k + 1)
            /\ queue[r][k + 1].final => k + 1 = b + 1
        BY <1>2, <1>3, <3>1, <4>1 DEF InOrder
      <4>3. a + (k + 1) = (a + 1) + k /\ (k + 1 = b + 1 => k = b)
        OBVIOUS
      <4> QED BY <1>3, <1>5, <4>1, <4>2, <4>3
    <3>5. \A k \in DOMAIN queue'[r] :
            /\ queue'[r][k].num = Len(received'[r]) + k
            /\ queue'[r][k].final => k = Len(queue'[r])
      BY <1>5, <3>4
    <3>6. client'[r] = "done" => queue'[r] = <<>>
      <4>1. out.final => b = 0
        BY <1>2, <3>1 DEF InOrder
      <4>2. b = 0 => queue'[r] = <<>>
        BY <1>2, <1>4, EmptySeq
      <4> QED BY <1>4, <4>1, <4>2
    <3>7. r \in request_queues' =>
            Len(received'[r]) + Len(queue'[r]) + OnTheWay(r)' = generated'[r]
      <4>1. PICK w \in Nat : w = OnTheWay(r)
        BY DEF OnTheWay
      <4>2. r \in request_queues => a + (b + 1) + w = generated[r]
        BY <1>2, <1>3, <3>1, <4>1 DEF InOrder
      <4>3. (a + 1) + b + w = a + (b + 1) + w
        OBVIOUS
      <4> QED BY <1>1, <1>3, <1>5, <2>1, <4>1, <4>2, <4>3
    <3> QED BY <3>3, <3>5, <3>6, <3>7 DEF InOrder
  <2> QED BY <2>2, <2>3, <2>4 DEF Delivery
<1> QED BY <1>1, <1>6, <1>8, <1>10, <1>11, <1>12, <1>13 DEF EInv

(* cancel_request, first half: the mark, and everything but the request    *)
(* itself is given up.                                                     *)
LEMMA CancelInv ==
  ASSUME EInv, NEW r \in Reqs, Cancel(r)
  PROVE  EInv'
<1>1. /\ epc = "await" /\ epc' = "cancel" /\ client[r] = "waiting"
      /\ cancelled_requests' = cancelled_requests \cup {Id[r]} /\ cancelling' = Id[r]
      /\ kv_tokens' = Unregistered({r})
      /\ active_requests' = active_requests \ {r}
      /\ request_queues' = request_queues \ {r}
      /\ client' = [client EXCEPT ![r] = "cancelled"]
      /\ UNCHANGED <<vars, rpc, generated_outputs, finished_ids, stream, delivered,
                     silenced, is_running, lost_pages, append_failed, raw_outputs,
                     finished_req_ids, results, queue, received>>
      /\ UNCHANGED <<state, generated, waiting_queue, running_requests, request_map,
                     result, pc, todo>>
  BY DEF Cancel, MarkCancelled, vars, stepping
<1>2. Id[r] \in Ids /\ \A q \in Reqs : q # r => Id[q] # Id[r]
  BY BatcherAssumption, EngineAssumption
<1>3. IInv'
  BY <1>1, StutterInv DEF EInv
<1>4. RunnerTypeOK'
  BY <1>1, <1>2, <1>3 DEF EInv, IInv, EngineTypeOK, RunnerTypeOK
<1>5. /\ Sequenced' = Sequenced \ {r} /\ kv_tokens' \in [Sequenced' -> Nat]
      /\ \A q \in Sequenced' : kv_tokens'[q] = kv_tokens[q]
      /\ FreePages' \in Nat /\ IsFiniteSet(Sequenced')
  BY <1>1, UnregisteringFrees
<1>6. /\ client'[r] = "cancelled" /\ \A q \in Reqs \ {r} : client'[q] = client[q]
      /\ client' \in [Reqs -> {"new", "waiting", "done", "failed", "cancelled", "gone"}]
  BY <1>1 DEF EInv, EngineTypeOK
<1>7. EngineTypeOK'
  BY <1>1, <1>4, <1>5, <1>6 DEF EInv, EngineTypeOK
<1>8. Live' = Live /\ Holding' = Holding \ {r} /\ \A q : q # r /\ Holds(q) => Holds(q)'
  BY <1>1, <1>5 DEF Live, Holding, Holds
<1>9. /\ Unhandled = {} /\ Awaited = {} /\ raw_outputs = <<>> /\ stream = <<>>
      /\ generated_outputs = <<>> /\ todo = {} /\ finished_req_ids = {}
      /\ finished_ids = {} /\ rpc = "idle" /\ pc = "idle" /\ results = <<>>
  BY <1>1, AllHandled DEF EInv, Locations
<1>10. Unhandled' = {} /\ Awaited' = {}
  BY <1>1, <1>9, NoOutputs DEF Unhandled, Awaited
<1>11. Locations'
  BY <1>1, <1>9 DEF EInv, Locations
<1>12. Batch'
  BY <1>1, <1>9, <1>10 DEF EInv, Batch
<1>13. LiveHeld'
  <2>1. Live \subseteq Reqs /\ Holding \subseteq Reqs
    BY DEF EInv, IInv, TypeOK, EngineTypeOK, Live, Holding
  <2>2. \A q \in Live' : Holds(q)' \/ Id[q] = cancelling'
    BY <1>1, <1>8 DEF EInv, LiveHeld
  <2>3. \A q \in Live' : Id[q] \in cancelled_requests' => Id[q] = cancelling'
    BY <1>1, <1>8 DEF EInv, LiveHeld
  <2>4. \A q \in Holding' : Id[q] # cancelling'
    BY <1>1, <1>2, <1>8, <2>1
  <2>5. Live' \subseteq Prompted
    BY <1>8 DEF EInv, LiveHeld
  <2> QED BY <1>1, <2>2, <2>3, <2>4, <2>5 DEF LiveHeld
<1>14. Clients'
  <2>1. \A q \in Reqs : client'[q] = "new" =>
          Fresh(q)' /\ generated'[q] = 0 /\ Id[q] \notin cancelled_requests'
    BY <1>1, <1>2, <1>6 DEF EInv, Clients, Fresh
  <2> QED BY <1>1, <1>6, <1>8, <2>1 DEF EInv, EngineTypeOK, Clients
<1>15. StepOutputs'
  BY <1>1, <1>9, <1>10, NoOutputs DEF StepOutputs
<1>16. ASSUME ~append_failed, HeldForCause, CacheExact, Delivery
       PROVE  HeldForCause' /\ CacheExact' /\ Delivery'
  <2>1. \A q : Behind(q)' = Behind(q) /\ OnTheWay(q)' = OnTheWay(q)
    BY <1>1, <1>9, <1>10 DEF Behind, OnTheWay
  <2>2. HeldForCause'
    BY <1>1, <1>5, <1>8, <1>9, <1>10, <1>16 DEF HeldForCause
  <2>3. CacheExact'
    BY <1>1, <1>5, <1>16, <2>1 DEF CacheExact
  <2>4. ASSUME NEW q \in Reqs PROVE InOrder(q)'
    <3>1. InOrder(q) /\ EngineTypeOK /\ generated[q] \in Nat /\ OnTheWay(q)' = OnTheWay(q)
      BY <1>16, <2>1 DEF Delivery, EInv, EngineTypeOK, RunnerTypeOK, TypeOK
    <3>2. client'[q] = "done" <=> client[q] = "done"
      BY <1>1, <1>6
    <3> QED BY <1>1, <3>1, <3>2, OrderUntouched
  <2> QED BY <2>2, <2>3, <2>4 DEF Delivery
<1> QED BY <1>1, <1>3, <1>5, <1>7, <1>11, <1>12, <1>13, <1>14, <1>15, <1>16 DEF EInv

(* cancel_request, second half: the batcher ends the request.  It is the   *)
(* only one with this id.                                                  *)
LEMMA CancelEndInv ==
  ASSUME EInv, CancelEnd
  PROVE  EInv'
<1>1. /\ epc = "cancel" /\ epc' = "await" /\ cancelling # None /\ cancelling' = None
      /\ UNCHANGED <<rpc, generated_outputs, finished_ids, cancelled_requests, stream,
                     delivered, is_running, active_requests, kv_tokens, lost_pages,
                     append_failed, raw_outputs, finished_req_ids, results,
                     request_queues, queue, client, received>>
  BY DEF CancelEnd, CancelInBatcher, kv, stepping, clients
<1>2. PICK i \in Ids : i = cancelling
  BY <1>1 DEF EInv, EngineTypeOK, RunnerTypeOK
<1>3. /\ IInv'
      /\ UNCHANGED <<generated, waiting_queue, result, todo, pc>>
      /\ running_requests' \subseteq running_requests
      /\ \A q \in running_requests : Id[q] # i => q \in running_requests'
      /\ \A q \in Reqs : state'[q] = IF request_map[i] = q THEN "FINISHED" ELSE state[q]
  <2>1. CASE CancelRequest(i)
    <3>1. /\ UNCHANGED <<generated, waiting_queue, result, todo, pc>>
          /\ running_requests' = {q \in running_requests : Id[q] # i}
          /\ state' = [state EXCEPT ![request_map[i]] = "FINISHED"]
      BY <2>1 DEF CancelRequest
    <3>2. state \in [Reqs -> RequestState]
      BY DEF EInv, IInv, TypeOK
    <3>3. \A q \in Reqs : state'[q] = IF request_map[i] = q THEN "FINISHED" ELSE state[q]
      BY <3>1, <3>2
    <3> QED BY <2>1, <3>1, <3>3, CancelRequestInv DEF EInv
  <2>2. CASE request_map[i] = None /\ UNCHANGED vars
    <3>1. None \notin Reqs /\ UNCHANGED <<state, generated, waiting_queue,
                                          running_requests, result, todo, pc>>
      BY <2>2, BatcherAssumption DEF vars
    <3> QED BY <2>2, <3>1, StutterInv DEF EInv
  <2> QED BY <1>2, <2>1, <2>2 DEF CancelEnd, CancelInBatcher
<1>4. /\ \A q \in Reqs : request_map[i] = q => Id[q] = i
      /\ \A q \in Live : q \in Reqs /\ (Id[q] = i => request_map[i] = q)
  <2>1. Live \subseteq Reqs
    BY DEF EInv, IInv, TypeOK, Live
  <2>2. \A q \in Live : request_map[Id[q]] = q
    BY DEF EInv, IInv, MapAgrees, Live
  <2>3. \A q \in Reqs : request_map[i] = q => Id[q] = i
    BY BatcherAssumption DEF EInv, IInv, MapAgrees
  <2> QED BY <2>1, <2>2, <2>3
<1>5. RunnerTypeOK'
  <2>1. silenced' \in SUBSET Reqs
    <3>1. request_map[cancelling] \in Reqs \cup {None}
      BY <1>2 DEF EInv, IInv, TypeOK
    <3> QED BY <3>1 DEF CancelEnd, CancelInBatcher, EInv, EngineTypeOK, RunnerTypeOK
  <2> QED BY <1>1, <1>3, <2>1 DEF EInv, IInv, EngineTypeOK, RunnerTypeOK
<1>6. /\ EngineTypeOK' /\ IsFiniteSet(Sequenced')
      /\ Sequenced' = Sequenced /\ Holding' = Holding
      /\ \A q : Holds(q)' <=> Holds(q)
  BY <1>1, <1>5, HoldingUntouched DEF EInv, EngineTypeOK
<1>7. Live' = {q \in Live : Id[q] # i}
  <2>1. waiting_queue \subseteq Reqs /\ running_requests \subseteq Reqs
    BY DEF EInv, IInv, TypeOK
  <2>2. \A q \in Live' : q \in Live /\ state'[q] # "FINISHED"
    BY <1>3, <2>1 DEF Live
  <2>3. \A q \in Live' : Id[q] # i
    BY <1>3, <1>4, <2>2
  <2>4. \A q \in Live : Id[q] # i => q \in Live'
    BY <1>3, <1>4, <2>1 DEF Live
  <2> QED BY <2>2, <2>3, <2>4
<1>8. /\ Unhandled = {} /\ Awaited = {} /\ raw_outputs = <<>> /\ stream = <<>>
      /\ generated_outputs = <<>> /\ todo = {} /\ finished_req_ids = {}
      /\ finished_ids = {} /\ rpc = "idle" /\ pc = "idle" /\ results = <<>>
  BY <1>1, AllHandled DEF EInv, Locations
<1>9. Unhandled' = {} /\ Awaited' = {}
  BY <1>1, <1>8, NoOutputs DEF Unhandled, Awaited
<1>10. Locations'
  BY <1>1, <1>3, <1>8 DEF EInv, Locations
<1>11. Batch'
  BY <1>1, <1>3, <1>8, <1>9 DEF EInv, Batch
<1>12. LiveHeld'
  BY <1>1, <1>2, <1>6, <1>7 DEF EInv, LiveHeld
<1>13. Clients'
  <2>1. \A q \in Reqs : Fresh(q) => Fresh(q)'
    <3>1. \A q \in Reqs : Fresh(q) => request_map[i] # q
      BY DEF EInv, IInv, MapAgrees, Fresh
    <3> QED BY <1>3, <3>1 DEF Fresh
  <2> QED BY <1>1, <1>3, <1>6, <2>1 DEF EInv, Clients
<1>14. StepOutputs'
  BY <1>1, <1>8, <1>9, NoOutputs DEF StepOutputs
<1>15. ASSUME ~append_failed, HeldForCause, CacheExact, Delivery
       PROVE  HeldForCause' /\ CacheExact' /\ Delivery'
  <2>1. \A q : Behind(q)' = Behind(q) /\ OnTheWay(q)' = OnTheWay(q)
    BY <1>1, <1>8, <1>9 DEF Behind, OnTheWay
  <2>2. HeldForCause'
    <3>1. \A q \in Holding : Id[q] # i
      BY <1>1, <1>2 DEF EInv, LiveHeld
    <3>2. \A q \in Prompted \cap Holding : q \in Live
      BY <1>8, <1>15, NoOutputs DEF HeldForCause, Holding
    <3> QED BY <1>1, <1>6, <1>7, <3>1, <3>2 DEF HeldForCause, Holding
  <2>3. CacheExact'
    BY <1>1, <1>3, <1>6, <1>15, <2>1 DEF CacheExact
  <2>4. ASSUME NEW q \in Reqs PROVE InOrder(q)'
    <3>1. InOrder(q) /\ EngineTypeOK /\ generated[q] \in Nat /\ OnTheWay(q)' = OnTheWay(q)
      BY <1>15, <2>1 DEF Delivery, EInv, EngineTypeOK, RunnerTypeOK, TypeOK
    <3> QED BY <1>1, <1>3, <3>1, OrderUntouched
  <2> QED BY <2>2, <2>3, <2>4 DEF Delivery
<1> QED BY <1>1, <1>3, <1>6, <1>10, <1>11, <1>12, <1>13, <1>14, <1>15 DEF EInv

(* The registration throws and keeps every page there was. *)
LEMMA GenerateThrowsInv ==
  ASSUME EInv, NEW r \in Reqs, GenerateThrows(r)
  PROVE  EInv'
<1>1. /\ epc = "await" /\ client[r] = "new" /\ is_running' = TRUE
      /\ lost_pages' = lost_pages + FreePages
      /\ client' = [client EXCEPT ![r] = "failed"]
      /\ UNCHANGED <<allVars, vars, rpc, generated_outputs, finished_ids,
                     cancelled_requests, cancelling, stream, delivered, silenced, epc,
                     active_requests, kv_tokens, append_failed, raw_outputs,
                     finished_req_ids, results, request_queues, queue, received>>
      /\ UNCHANGED <<state, generated, waiting_queue, running_requests, request_map,
                     result, pc, todo>>
  BY DEF GenerateThrows, allVars, vars, runnerVars, stepping
<1>2. /\ client'[r] = "failed" /\ \A q \in Reqs \ {r} : client'[q] = client[q]
      /\ client' \in [Reqs -> {"new", "waiting", "done", "failed", "cancelled", "gone"}]
  BY <1>1 DEF EInv, EngineTypeOK
<1>3. /\ IInv' /\ RunnerTypeOK' /\ Live' = Live
      /\ Unhandled' = Unhandled /\ Awaited' = Awaited
      /\ \A q \in Reqs : Fresh(q)' <=> Fresh(q)
  BY <1>1, StepUntouched
<1>4. FreePages' \in Nat /\ lost_pages' \in Nat
  <2>1. Cache(kv_tokens) /\ FreePages \in Nat /\ lost_pages \in Nat
    BY DEF EInv, EngineTypeOK, Cache, Sequenced
  <2>2. PICK a \in Nat, f \in Nat, l \in Nat, t \in Nat :
          /\ a = PagesIn(kv_tokens) /\ f = FreePages /\ l = lost_pages
          /\ t = TotalGpuBlocks
    BY <2>1, PagesInIsNat, EngineAssumption
  <2>3. f = t - l - a /\ FreePages' = t - (l + f) - a
    BY <1>1, <2>2, FreePagesAre
  <2>4. t - (l + f) - a = 0 /\ l + f \in Nat
    BY <2>3
  <2> QED BY <1>1, <2>2, <2>3, <2>4
<1>5. Sequenced' = Sequenced /\ Holding' = Holding /\ \A q : Holds(q)' <=> Holds(q)
  BY <1>1 DEF Sequenced, Holding, Holds
<1>6. EngineTypeOK' /\ IsFiniteSet(Sequenced')
  BY <1>1, <1>2, <1>3, <1>4, <1>5 DEF EInv, EngineTypeOK
<1>7. Batch'
  BY <1>1, BatchUntouched
<1>8. Locations' /\ LiveHeld' /\ StepOutputs'
  BY <1>1, <1>3, <1>5 DEF EInv, Locations, LiveHeld, StepOutputs
<1>9. Clients'
  <2>1. r \notin Holding /\ queue[r] = <<>> /\ received[r] = <<>> /\ r \notin request_queues
    BY <1>1 DEF EInv, Clients, Holding
  <2> QED BY <1>1, <1>2, <1>3, <1>5, <2>1 DEF EInv, EngineTypeOK, Clients
<1>10. ASSUME ~append_failed, HeldForCause, CacheExact, Delivery
       PROVE  HeldForCause' /\ CacheExact' /\ Delivery'
  <2>1. \A q : Behind(q)' = Behind(q) /\ OnTheWay(q)' = OnTheWay(q)
    BY <1>1, <1>3 DEF Behind, OnTheWay
  <2>2. HeldForCause' /\ CacheExact'
    BY <1>1, <1>3, <1>5, <1>10, <2>1 DEF HeldForCause, CacheExact
  <2>3. ASSUME NEW q \in Reqs PROVE InOrder(q)'
    <3>1. InOrder(q) /\ EngineTypeOK /\ generated[q] \in Nat /\ OnTheWay(q)' = OnTheWay(q)
      BY <1>10, <2>1 DEF Delivery, EInv, EngineTypeOK, RunnerTypeOK, TypeOK
    <3>2. client'[q] = "done" <=> client[q] = "done"
      BY <1>1, <1>2
    <3> QED BY <1>1, <3>1, <3>2, OrderUntouched
  <2> QED BY <2>2, <2>3 DEF Delivery
<1> QED BY <1>1, <1>3, <1>6, <1>7, <1>8, <1>9, <1>10 DEF EInv

(* add_request: the scheduler takes the request unless its prompt is empty *)
(* (its id is not known), and the engine registers it all the same.        *)
LEMMA GenerateInv ==
  ASSUME EInv, NEW r \in Reqs, Generate(r)
  PROVE  EInv'
<1>1. /\ epc = "await" /\ client[r] = "new" /\ is_running' = TRUE
      /\ Pages(PromptLen[r]) <= FreePages
      /\ kv_tokens' = [s \in Sequenced \cup {r} |->
                         IF s = r THEN PromptLen[r] ELSE kv_tokens[s]]
      /\ active_requests' = active_requests \cup {r}
      /\ request_queues' = request_queues \cup {r}
      /\ client' = [client EXCEPT ![r] = "waiting"]
      /\ UNCHANGED <<rpc, generated_outputs, finished_ids, cancelled_requests,
                     cancelling, stream, delivered, silenced, epc, lost_pages,
                     append_failed, raw_outputs, finished_req_ids, results, queue,
                     received>>
  BY DEF Generate, runnerVars, stepping
<1>2. /\ Fresh(r) /\ generated[r] = 0 /\ Id[r] \notin cancelled_requests
      /\ r \notin Holding /\ r \notin Sequenced /\ queue[r] = <<>> /\ received[r] = <<>>
  BY <1>1 DEF EInv, Clients, Holding
<1>3. ~Known(r)
  <2>1. ASSUME Known(r) PROVE FALSE
    <3>1. PICK q \in Reqs : q = request_map[Id[r]] /\ Id[r] \in Ids
      BY <2>1, BatcherAssumption DEF Known, EInv, IInv, TypeOK
    <3>2. Id[q] = Id[r]
      BY <2>1, <3>1 DEF Known, EInv, IInv, MapAgrees
    <3>3. q = r
      BY <3>2, EngineAssumption
    <3> QED BY <1>2, <3>1, <3>3 DEF Fresh, EInv, IInv, MapAgrees
  <2> QED BY <2>1
<1>4. /\ IInv'
      /\ UNCHANGED <<state, generated, running_requests, result, todo, pc>>
      /\ waiting_queue' = waiting_queue \cup (IF r \in Prompted THEN {r} ELSE {})
  <2>1. CASE AddRequest(r)
    <3>1. state' = state
      BY <1>2, <2>1 DEF AddRequest, Fresh, EInv, IInv, TypeOK
    <3> QED BY <2>1, <3>1, AddRequestInv DEF AddRequest, Prompted, EInv
  <2>2. CASE PromptLen[r] = 0 /\ UNCHANGED vars
    <3>1. r \notin Prompted
      BY <2>2 DEF Prompted
    <3> QED BY <2>2, <3>1, StutterInv DEF EInv, vars
  <2> QED BY <1>3, <2>1, <2>2 DEF Generate
<1>5. RunnerTypeOK'
  BY <1>1, <1>4 DEF EInv, IInv, EngineTypeOK, RunnerTypeOK
<1>6. /\ Sequenced' = Sequenced \cup {r} /\ kv_tokens' \in [Sequenced' -> Nat]
      /\ kv_tokens'[r] = PromptLen[r] /\ PromptLen[r] \in Nat
      /\ \A q \in Sequenced : kv_tokens'[q] = kv_tokens[q]
  <2>1. PromptLen[r] \in Nat /\ kv_tokens \in [Sequenced -> Nat]
    BY BatcherAssumption DEF EInv, EngineTypeOK
  <2>2. Sequenced' = Sequenced \cup {r}
    BY <1>1 DEF Sequenced
  <2> QED BY <1>1, <1>2, <2>1, <2>2
<1>7. FreePages' \in Nat /\ IsFiniteSet(Sequenced')
  <2>1. Cache(kv_tokens) /\ FreePages \in Nat /\ lost_pages \in Nat
    BY DEF EInv, EngineTypeOK, Cache, Sequenced
  <2>2. /\ r \notin DOMAIN kv_tokens /\ DOMAIN kv_tokens' = DOMAIN kv_tokens \cup {r}
        /\ \A s \in DOMAIN kv_tokens : kv_tokens'[s] = kv_tokens[s]
    BY <1>2, <1>6 DEF Sequenced
  <2>3. PICK n \in Nat : n = PromptLen[r]
    BY <1>6
  <2>4. Cache(kv_tokens') /\ PagesIn(kv_tokens') = PagesIn(kv_tokens) + Pages(n)
    BY <1>6, <2>1, <2>2, <2>3, PagesRegistered
  <2>5. PICK a \in Nat, b \in Nat, f \in Nat, l \in Nat, t \in Nat :
          /\ a = PagesIn(kv_tokens) /\ b = Pages(n)
          /\ f = FreePages /\ l = lost_pages /\ t = TotalGpuBlocks
    BY <2>1, PagesInIsNat, PagesIsNat, EngineAssumption
  <2>6. b <= f /\ f = t - l - a /\ FreePages' = t - l - (a + b)
    BY <1>1, <2>3, <2>4, <2>5, FreePagesAre
  <2>7. FreePages' \in Nat
    BY <2>6
  <2> QED BY <2>4, <2>7 DEF Cache, Sequenced
<1>8. /\ client'[r] = "waiting" /\ \A q \in Reqs \ {r} : client'[q] = client[q]
      /\ client' \in [Reqs -> {"new", "waiting", "done", "failed", "cancelled", "gone"}]
  BY <1>1 DEF EInv, EngineTypeOK
<1>9. EngineTypeOK'
  <2>1. /\ active_requests' \subseteq Reqs /\ request_queues' \subseteq Reqs
        /\ Sequenced' \subseteq Reqs
    BY <1>1, <1>6 DEF EInv, EngineTypeOK
  <2> QED BY <1>1, <1>5, <1>6, <1>7, <1>8, <2>1 DEF EInv, EngineTypeOK
<1>10. /\ Holding' = Holding \cup {r} /\ Holds(r)'
       /\ \A q : q # r => (Holds(q)' <=> Holds(q))
  BY <1>1, <1>6 DEF Holding, Holds
<1>11. Live' = Live \cup (IF r \in Prompted THEN {r} ELSE {})
  <2>1. state[r] # "FINISHED"
    BY <1>2 DEF Fresh
  <2> QED BY <1>4, <2>1 DEF Live
<1>12. /\ Unhandled = {} /\ Awaited = {} /\ raw_outputs = <<>> /\ stream = <<>>
       /\ generated_outputs = <<>> /\ todo = {} /\ finished_req_ids = {}
       /\ finished_ids = {} /\ rpc = "idle" /\ pc = "idle" /\ results = <<>>
  BY <1>1, AllHandled DEF EInv, Locations
<1>13. Unhandled' = {} /\ Awaited' = {}
  BY <1>1, <1>12, NoOutputs DEF Unhandled, Awaited
<1>14. Locations'
  BY <1>1, <1>4, <1>12 DEF EInv, Locations
<1>15. Batch'
  BY <1>1, <1>4, <1>12, <1>13 DEF EInv, Batch
<1>16. LiveHeld'
  <2>1. \A q \in Live' : Holds(q)'
    BY <1>1, <1>10, <1>11 DEF EInv, LiveHeld
  <2>2. \A q \in Live' : Id[q] \notin cancelled_requests'
    BY <1>1, <1>2, <1>11 DEF EInv, LiveHeld
  <2>3. Live' \subseteq Prompted
    BY <1>11 DEF EInv, LiveHeld
  <2> QED BY <1>1, <2>1, <2>2, <2>3 DEF LiveHeld
<1>17. Clients'
  <2>1. \A q \in Reqs \ {r} : Fresh(q) => Fresh(q)'
    BY <1>4 DEF Fresh
  <2>2. \A q \in request_queues' : client'[q] \in {"waiting", "gone"} /\
          \A k \in DOMAIN queue'[q] : ~queue'[q][k].final
    <3>1. DOMAIN queue[r] = {}
      BY <1>2
    <3> QED BY <1>1, <1>8, <3>1 DEF EInv, EngineTypeOK, Clients
  <2> QED BY <1>1, <1>4, <1>8, <1>10, <2>1, <2>2 DEF EInv, Clients
<1>18. StepOutputs'
  BY <1>1, <1>12, <1>13, NoOutputs DEF StepOutputs
<1>19. ASSUME ~append_failed, HeldForCause, CacheExact, Delivery
       PROVE  HeldForCause' /\ CacheExact' /\ Delivery'
  <2>1. \A q : /\ Behind(q)' = Behind(q) /\ OnTheWay(q)' = OnTheWay(q)
               /\ Behind(q) = 0 /\ OnTheWay(q) = 0
    BY <1>1, <1>12, <1>13, NoOutputs DEF Behind, OnTheWay
  <2>2. HeldForCause'
    <3>1. \A q \in Prompted \cap Holding : q \in Live
      BY <1>12, <1>19, NoOutputs DEF HeldForCause, Holding
    <3>2. \A q \in Prompted \cap Holding' : q \in Live'
      BY <1>10, <1>11, <3>1
    <3> QED BY <3>2 DEF HeldForCause, Holding
  <2>3. CacheExact'
    <3>1. \A q \in Sequenced : kv_tokens'[q] + Behind(q)' = PromptLen[q] + generated'[q]
      BY <1>4, <1>6, <1>19, <2>1 DEF CacheExact
    <3>2. kv_tokens'[r] + Behind(r)' = PromptLen[r] + generated'[r]
      BY <1>2, <1>4, <1>6, <2>1
    <3> QED BY <1>6, <3>1, <3>2 DEF CacheExact
  <2>4. ASSUME NEW q \in Reqs \ {r} PROVE InOrder(q)'
    <3>1. InOrder(q) /\ EngineTypeOK /\ generated[q] \in Nat /\ OnTheWay(q)' = OnTheWay(q)
      BY <1>19, <2>1 DEF Delivery, EInv, EngineTypeOK, RunnerTypeOK, TypeOK
    <3>2. client'[q] = client[q] /\ (q \in request_queues' => q \in request_queues)
      BY <1>1, <1>8
    <3> QED BY <1>1, <1>4, <3>1, <3>2, OrderUntouched
  <2>5. InOrder(r)'
    <3>1. queue'[r] = <<>> /\ received'[r] = <<>> /\ generated'[r] = 0 /\ OnTheWay(r)' = 0
      BY <1>1, <1>2, <1>4, <2>1
    <3>2. Len(<<>>) = 0 /\ DOMAIN <<>> = {}
      OBVIOUS
    <3> QED BY <3>1, <3>2 DEF InOrder
  <2> QED BY <2>2, <2>3, <2>4, <2>5 DEF Delivery
<1> QED BY <1>1, <1>4, <1>7, <1>9, <1>14, <1>15, <1>16, <1>17, <1>18, <1>19 DEF EInv

-----------------------------------------------------------------------------
(* EInv is inductive. *)
LEMMA EngineNextInv == EInv /\ [EngineNext]_everything => EInv'
<1> SUFFICES ASSUME EInv, [EngineNext]_everything PROVE EInv'
  OBVIOUS
<1>1. CASE LoopBegin
  BY <1>1, LoopBeginInv
<1>2. CASE LoopStep
  BY <1>2, LoopStepInv
<1>3. CASE LoopPop
  BY <1>3, LoopPopInv
<1>4. ASSUME NEW stop \in BOOLEAN, HandleOutput(stop) PROVE EInv'
  BY <1>4, HandleOutputInv
<1>5. ASSUME NEW stop \in BOOLEAN, HandleThrows(stop) PROVE EInv'
  BY <1>5, HandleThrowsInv
<1>6. CASE HandleEnd
  BY <1>6, HandleEndInv
<1>7. CASE Deliver
  BY <1>7, DeliverInv
<1>8. CASE CancelEnd
  BY <1>8, CancelEndInv
<1>9. ASSUME NEW r \in Reqs, Generate(r) PROVE EInv'
  BY <1>9, GenerateInv
<1>10. ASSUME NEW r \in Reqs, GenerateThrows(r) PROVE EInv'
  BY <1>10, GenerateThrowsInv
<1>11. ASSUME NEW r \in Reqs, Yield(r) PROVE EInv'
  BY <1>11, YieldInv
<1>12. ASSUME NEW r \in Reqs, Cancel(r) PROVE EInv'
  BY <1>12, CancelInv
<1>13. ASSUME NEW r \in Reqs, Close(r) PROVE EInv'
  BY <1>13, CloseInv
<1>14. CASE Shutdown
  <2>1. is_running' \in BOOLEAN
    BY <1>14 DEF Shutdown
  <2> QED BY <1>14, <2>1, ShutdownInv DEF Shutdown
<1>15. CASE UNCHANGED everything
  <2>1. /\ UNCHANGED <<allVars, epc, active_requests, kv, stepping, clients>>
        /\ is_running' \in BOOLEAN
    BY <1>15 DEF everything, engineVars, EInv, EngineTypeOK
  <2> QED BY <2>1, ShutdownInv
<1> QED BY <1>1, <1>2, <1>3, <1>4, <1>5, <1>6, <1>7, <1>8, <1>9, <1>10, <1>11, <1>12,
            <1>13, <1>14, <1>15 DEF EngineNext, EngineLoop

LEMMA EngineInvariant == EngineSpec => []EInv
BY EngineInitInv, EngineNextInv, PTL DEF EngineSpec

(* Every variable of the engine has its type, and registrations and        *)
(* appended tokens together never take more pages than the cache has.      *)
THEOREM EngineTypeCorrect == EngineSpec => []EngineTypeOK
<1>1. EInv => EngineTypeOK
  BY DEF EInv
<1> QED BY <1>1, EngineInvariant, PTL

(* Between two steps of the engine every live request has its sequence,    *)
(* its entry and its queue, whatever was cancelled, closed, stopped or     *)
(* thrown; until an append in step() runs out of pages nothing is held for *)
(* any other request, and the cache has exactly the tokens there are.      *)
THEOREM EngineHoldsForLive == EngineSpec => []ResourcesFollowRequests
<1>1. EInv => ResourcesFollowRequests
  <2> SUFFICES ASSUME EInv, epc = "await"
               PROVE  /\ \A held \in Held :
                           /\ Live \subseteq held
                           /\ append_failed \/ held \cap Prompted = Live
                      /\ ~append_failed => \A r \in Sequenced :
                           kv_tokens[r] = PromptLen[r] + generated[r]
    BY DEF ResourcesFollowRequests, HeldForLiveOnly, CacheFollowsTokens
  <2>1. Awaited = {} /\ finished_req_ids = {} /\ results = <<>>
    BY AllHandled DEF EInv, Locations
  <2>2. \A r \in Live : Holds(r)
    BY DEF EInv, LiveHeld
  <2>3. Live \subseteq Prompted
    BY DEF EInv, LiveHeld
  <2>4. ASSUME ~append_failed
        PROVE  \A r \in Prompted \cap Holding : r \in Live
    BY <2>1, <2>4, NoOutputs DEF EInv, HeldForCause, Holding
  <2>5. ASSUME NEW held \in Held
        PROVE  Live \subseteq held /\ (append_failed \/ held \cap Prompted = Live)
    BY <2>2, <2>3, <2>4 DEF Held, Holds, Holding
  <2>6. ASSUME ~append_failed, NEW r \in Sequenced
        PROVE  kv_tokens[r] = PromptLen[r] + generated[r]
    <3>1. kv_tokens[r] \in Nat /\ Behind(r) = 0
      BY <2>1 DEF EInv, EngineTypeOK, Behind
    <3>2. kv_tokens[r] + Behind(r) = PromptLen[r] + generated[r]
      BY <2>6 DEF EInv, CacheExact
    <3> QED BY <3>1, <3>2
  <2> QED BY <2>5, <2>6
<1> QED BY <1>1, EngineInvariant, PTL

(* A client gets its tokens in order and without a gap, and the final one  *)
(* last, until an append in step() runs out of pages.                      *)
THEOREM EngineDeliversInOrder == EngineSpec => []ClientInOrderUntilShort
<1>1. EInv => ClientInOrderUntilShort
  BY DEF EInv, Delivery, InOrder, ClientInOrderUntilShort, ClientInOrder
<1> QED BY <1>1, EngineInvariant, PTL
=============================================================================
