------------------------------ MODULE Serving ------------------------------
(***************************************************************************)
(* The HTTP layer (serving/app.py and serving/api/v1/generate.py): the     *)
(* backpressure middleware counts the requests inside of it, the handler   *)
(* of /generate takes a permit of an asyncio.Semaphore or gives up after a *)
(* timeout, and gives it back by hand (one JSON response) or in the        *)
(* finally of the generator that makes the stream.                         *)
(*                                                                         *)
(* One event loop runs everything, so each action is the code between two  *)
(* awaits.  The semaphore is the one of asyncio since Python 3.13: first   *)
(* come first served, and release hands the permit to a waiter, which runs *)
(* later ("granted").  A semaphore the handler has still to create is one  *)
(* with all its permits.  When the body of a StreamingResponse begins, and *)
(* where a client that disconnects or a server that stops cancels a task,  *)
(* is Starlette's part.                                                    *)
(***************************************************************************)
EXTENDS Naturals, Sequences, FiniteSets, FiniteSetsExt, SequencesExt

CONSTANTS
  Requests,                 \* HTTP requests for /generate
  Streams,                  \* the ones with stream = true
  MAX_CONCURRENT_REQUESTS,
  MAX_BACKPRESSURE_QUEUE

ASSUME ServingAssumption ==
  /\ IsFiniteSet(Requests) /\ Streams \subseteq Requests
  /\ MAX_CONCURRENT_REQUESTS \in Nat \ {0}
  /\ MAX_BACKPRESSURE_QUEUE \in Nat

VARIABLES
  phase,                      \* where each request is
  active_in_flight_requests,
  permits,                    \* concurrency_semaphore._value
  waiters                     \* requests in its queue, not woken yet

vars == <<phase, active_in_flight_requests, permits, waiters>>

(* out        not arrived            shed      refused by the middleware   *)
(* entered    inside the middleware  queued    waits for a permit          *)
(* granted    has one, not woken     running   makes a JSON response       *)
(* formed     has a StreamingResponse that has not begun                   *)
(* started    the response has begun and left the middleware, the          *)
(*            generator of the body has not                                *)
(* streaming  inside the generator   ready     has its response            *)
(* done       answered               gone, lost   cancelled; when lost,    *)
(*                                                the permit is with it    *)
Phase == {"out", "shed", "entered", "queued", "granted", "running", "formed",
          "started", "streaming", "ready", "done", "gone", "lost"}

InMiddleware ==
  {"entered", "queued", "granted", "running", "formed", "ready"}
WithPermit == {"granted", "running", "formed", "started", "streaming"}

In(phases) == {r \in Requests : phase[r] \in phases}

Init ==
  /\ phase = [r \in Requests |-> "out"]
  /\ active_in_flight_requests = 0
  /\ permits = MAX_CONCURRENT_REQUESTS
  /\ waiters = <<>>

-----------------------------------------------------------------------------
(* The semaphore.  Request r goes on to phase p while at most `most' of    *)
(* the waiters ws get one of n permits each.                               *)
Wake(r, p, n, ws, most) ==
  LET k == Min({n, Len(ws), most})
  IN  /\ phase' = [s \in Requests |->
            IF s = r THEN p
            ELSE IF \E j \in 1..k : ws[j] = s THEN "granted" ELSE phase[s]]
      /\ waiters' = SubSeq(ws, k + 1, Len(ws))
      /\ permits' = n - k

(* (the permit is put back and nobody told) *)
ReleaseSilently(r, p) == Wake(r, p, permits + 1, waiters, 0)

Release(r, p) == Wake(r, p, permits + 1, waiters, 1)

locked ==
  permits = 0 \/ waiters # <<>> \/ \E r \in Requests : phase[r] = "granted"

(* The end of a wait, which wakes as many of the others as there are       *)
(* permits, n.                                                             *)
StopWaiting(r, p, n) == Wake(r, p, n, RemoveFirst(waiters, r), n)

-----------------------------------------------------------------------------
Becomes(r, p) == phase' = [phase EXCEPT ![r] = p]

(* (the comparison off by one) *)
OneTooMany ==
  active_in_flight_requests > MAX_CONCURRENT_REQUESTS + MAX_BACKPRESSURE_QUEUE

Saturated ==
  active_in_flight_requests >= MAX_CONCURRENT_REQUESTS + MAX_BACKPRESSURE_QUEUE

(* backpressure_middleware, up to call_next *)
Enter(r) ==
  /\ phase[r] = "out" /\ ~Saturated
  /\ Becomes(r, "entered")
  /\ active_in_flight_requests' = active_in_flight_requests + 1
  /\ UNCHANGED <<permits, waiters>>

Shed(r) ==
  /\ phase[r] = "out" /\ Saturated
  /\ Becomes(r, "shed")
  /\ UNCHANGED <<active_in_flight_requests, permits, waiters>>

(* Its finally: call_next has returned a response or thrown. *)
Left == active_in_flight_requests - 1

-----------------------------------------------------------------------------
(* generate_tokens with the permit; up to the first await. *)
Handling(r) == IF r \in Streams THEN "formed" ELSE "running"

(* wait_for(acquire()) finds a permit, or joins the queue. *)
Acquire(r) ==
  /\ phase[r] = "entered" /\ ~locked
  /\ Becomes(r, Handling(r))
  /\ permits' = permits - 1
  /\ UNCHANGED <<active_in_flight_requests, waiters>>

Queue(r) ==
  /\ phase[r] = "entered" /\ locked
  /\ Becomes(r, "queued")
  /\ waiters' = Append(waiters, r)
  /\ UNCHANGED <<active_in_flight_requests, permits>>

Woken(r) ==
  /\ phase[r] = "granted"
  /\ StopWaiting(r, Handling(r), permits)
  /\ UNCHANGED active_in_flight_requests

(* A wait that ends without a permit gives back one just granted. *)
GivenBack(r) == IF phase[r] = "granted" THEN permits + 1 ELSE permits

(* (acquire() awaited without wait_for) *)
NoTimeout(r) == FALSE

(* The timeout, even of a wait that has just been granted: 503. *)
Timeout(r) ==
  /\ phase[r] \in {"queued", "granted"}
  /\ StopWaiting(r, "ready", GivenBack(r))
  /\ UNCHANGED active_in_flight_requests

(* The JSON response: every chunk has been read, or the generator has made *)
(* an error event of an exception.                                         *)
FinishJson(r) ==
  /\ phase[r] = "running"
  /\ Release(r, "ready")
  /\ UNCHANGED active_in_flight_requests

(* A response leaves the middleware. *)
Respond(r) ==
  /\ phase[r] = "ready"
  /\ Becomes(r, "done")
  /\ active_in_flight_requests' = Left
  /\ UNCHANGED <<permits, waiters>>

(* A streaming response leaves it when it begins, before its body does. *)
StartResponse(r) ==
  /\ phase[r] = "formed"
  /\ Becomes(r, "started")
  /\ active_in_flight_requests' = Left
  /\ UNCHANGED <<permits, waiters>>

StartBody(r) ==
  /\ phase[r] = "started"
  /\ Becomes(r, "streaming")
  /\ UNCHANGED <<active_in_flight_requests, permits, waiters>>

(* (no finally in the generator) *)
KeptAtEnd(r, p) == Becomes(r, p) /\ UNCHANGED <<permits, waiters>>

(* The finally of streaming_wrapper. *)
Finally(r, p) == Release(r, p)

(* The last chunk, or the error event. *)
EndStream(r) ==
  /\ phase[r] = "streaming"
  /\ Finally(r, "done")
  /\ UNCHANGED active_in_flight_requests

-----------------------------------------------------------------------------
(* Cancellation: at the wait for a permit; inside the generator; and where *)
(* neither an except clause of the handler nor a finally sees it.          *)
CancelWait(r) ==
  /\ phase[r] \in {"entered", "queued", "granted"}
  /\ StopWaiting(r, "gone", GivenBack(r))
  /\ active_in_flight_requests' = Left

Disconnect(r) ==
  /\ phase[r] = "streaming"
  /\ Finally(r, "gone")
  /\ UNCHANGED active_in_flight_requests

CancelUnseen(r) ==
  /\ phase[r] \in {"running", "formed", "started"}
  /\ Becomes(r, "lost")
  /\ active_in_flight_requests' =
       IF phase[r] = "started" THEN active_in_flight_requests ELSE Left
  /\ UNCHANGED <<permits, waiters>>

CancelReady(r) ==
  /\ phase[r] = "ready"
  /\ Becomes(r, "gone")
  /\ active_in_flight_requests' = Left
  /\ UNCHANGED <<permits, waiters>>

-----------------------------------------------------------------------------
Cancelled(r) == CancelWait(r) \/ Disconnect(r) \/ CancelUnseen(r) \/ CancelReady(r)

Handle(r) ==
  \/ Acquire(r) \/ Queue(r) \/ Woken(r)
  \/ FinishJson(r) \/ Respond(r)
  \/ StartResponse(r) \/ StartBody(r) \/ EndStream(r)

Next ==
  \E r \in Requests :
    Enter(r) \/ Shed(r) \/ Handle(r) \/ Timeout(r) \/ Cancelled(r)

Spec == Init /\ [][Next]_vars

(* The event loop runs every task that is ready, and the timer of a wait   *)
(* fires.  Requests need not arrive, clients need not disconnect.          *)
FairSpec ==
  /\ Spec
  /\ \A r \in Requests : WF_vars(Handle(r)) /\ WF_vars(Timeout(r))

-----------------------------------------------------------------------------
(* active_in_flight_requests of the readiness probe. *)
in_flight == Max({MAX_CONCURRENT_REQUESTS, permits}) - permits

(* Every variable has its type; the queue holds each waiting request once. *)
TypeOK ==
  /\ phase \in [Requests -> Phase]
  /\ active_in_flight_requests \in Nat
  /\ permits \in 0..MAX_CONCURRENT_REQUESTS
  /\ waiters \in Seq(Requests)
  /\ {waiters[j] : j \in DOMAIN waiters} = In({"queued"})
  /\ Len(waiters) = Cardinality(In({"queued"}))

(* The permits that are free, held, or taken along by a cancelled request  *)
(* add up: no path through the handler, its timeout racing with a grant    *)
(* included, gives one back twice or forgets it, but for the cancellations *)
(* nothing sees.                                                           *)
PermitsConserved ==
  permits + Cardinality(In(WithPermit)) + Cardinality(In({"lost"}))
    = MAX_CONCURRENT_REQUESTS

(* The middleware counts exactly the requests inside of it, on every path  *)
(* out, and never more than it lets in.                                    *)
InFlightExact ==
  /\ active_in_flight_requests = Cardinality(In(InMiddleware))
  /\ active_in_flight_requests <= MAX_CONCURRENT_REQUESTS + MAX_BACKPRESSURE_QUEUE

(* Both gates of the server, the semaphore of /generate and the counter of *)
(* the middleware, know exactly who is inside.                             *)
AdmissionConserved == PermitsConserved /\ InFlightExact

(* No request waits while a permit is free, unless one that was granted is *)
(* about to run and will pass it on.                                       *)
NoIdlePermit ==
  permits > 0 /\ waiters # <<>> => \E r \in Requests : phase[r] = "granted"

(* Every request the middleware lets in is answered or cancelled. *)
EveryRequestEnds ==
  \A r \in Requests :
    phase[r] = "entered" ~> phase[r] \in {"done", "gone", "lost"}

(* The readiness probe reports the "current in-flight request count"       *)
(* (health.py): none when no request is left.                              *)
IdleIsReported ==
  In(InMiddleware \cup WithPermit) = {} => in_flight = 0
=============================================================================
