-------------------- MODULE MCFasterTransformerScheduler --------------------
(* FasterTransformerScheduler on a small replica. *)
EXTENDS FasterTransformerScheduler

(* Two requests arrive together, the others apart. *)
MCArrivedAt == [r \in Requests |-> r \div 2]
=============================================================================
