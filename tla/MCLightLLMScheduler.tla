------------------------ MODULE MCLightLLMScheduler ------------------------
(* LightLLMScheduler on a small replica. *)
EXTENDS LightLLMScheduler, ServiceRefinement

(* Two requests arrive together, the others apart. *)
MCArrivedAt == [r \in Requests |-> r \div 2]
=============================================================================
