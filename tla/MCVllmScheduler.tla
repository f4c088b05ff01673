-------------------------- MODULE MCVllmScheduler --------------------------
(* VllmScheduler on small replicas. *)
EXTENDS VllmScheduler, ServiceRefinement

MCArrivedAt == [r \in Requests |-> r]

(* The last two requests arrive at one time. *)
MCTiedArrivals == [r \in Requests |-> IF r = NumRequests THEN r - 1 ELSE r]
=============================================================================
