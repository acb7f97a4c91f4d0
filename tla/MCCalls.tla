------------------------------ MODULE MCCalls -------------------------------
(***************************************************************************)
(* The two components whose calls must return: a row pool (RowPool) and    *)
(* the request handlers around the model registry (ModelServing).  They    *)
(* share no state, so a behaviour drives one of them and leaves the other  *)
(* as it started.                                                          *)
(***************************************************************************)
EXTENDS RowPool, Sequences

CONSTANTS Workers, Paths, MaxId, ModelLimit, MaxSwaps, Nobody, NoPath

VARIABLES registry, next_id, contexts, compute, devices, models, execution,
          stop_requested, torn_down, place, req, using, issued, driven

Serving == INSTANCE ModelServing WITH pc <- place

serving == <<registry, next_id, contexts, compute, devices, models, execution,
             stop_requested, torn_down, place, req, using, issued>>

PoolStep    == driven = "pool" /\ PoolNext /\ UNCHANGED <<serving, driven>>
ServingStep == driven = "serving" /\ Serving!Next /\ UNCHANGED <<poolVars, driven>>

CallsInit == driven \in {"pool", "serving"} /\ PoolInit /\ Serving!Init
CallsNext == PoolStep \/ ServingStep

(* The fairness of the driven component: RowPool!RowPoolFairSpec, and      *)
(* ModelServing!Fairness, which asks nothing of handlers that are all idle. *)
CallsSpec == /\ CallsInit /\ [][CallsNext]_<<poolVars, serving, driven>>
             /\ WF_poolVars(driven = "pool" /\ Caller)
             /\ \A t \in Threads : WF_poolVars(driven = "pool" /\ Worker(t))
             /\ Serving!Fairness

\* A listing ends although an inference never does.
ListingResponds == Serving!ListingResponds

\* If inferences end, every request ends.
RequestsEnd == Serving!RequestsEnd
=============================================================================
