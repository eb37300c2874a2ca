-------------------------- MODULE RequestLifecycle --------------------------
(***************************************************************************)
(* What the continuous batcher promises, without its containers: a request *)
(* is submitted, starts when nobody before it waits and fewer than         *)
(* Capacity requests run, and ends once, waiting or running.  A request    *)
(* never goes back.                                                        *)
(***************************************************************************)
EXTENDS Integers, FiniteSets

CONSTANTS
  Requests,
  Capacity,      \* how many requests may run at once
  Before(_, _)   \* Before(a, b): a starts before b when both wait

VARIABLE status

In(s) == {r \in Requests : status[r] = s}

Init == status = [r \in Requests |-> "new"]

Submit(r) ==
  /\ status[r] = "new"
  /\ status' = [status EXCEPT ![r] = "waiting"]

Start(r) ==
  /\ status[r] = "waiting"
  /\ \A w \in In("waiting") : ~Before(w, r)
  /\ Cardinality(In("running")) < Capacity
  /\ status' = [status EXCEPT ![r] = "running"]

End(S) == status' = [r \in Requests |-> IF r \in S THEN "ended" ELSE status[r]]

Next ==
  \/ \E r \in Requests : Submit(r) \/ Start(r)
  \/ \E S \in SUBSET (In("waiting") \cup In("running")) : End(S)

Spec == Init /\ [][Next]_status
=============================================================================
