---------------------------- MODULE MCSimulator ----------------------------
(* Simulator on small clusters. *)
EXTENDS Simulator

(* All requests but the last arrive at one time. *)
MCArrivedAt == [r \in Requests |-> IF r = NumRequests THEN 1 ELSE 0]
=============================================================================
