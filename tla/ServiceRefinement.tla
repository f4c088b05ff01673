-------------------------- MODULE ServiceRefinement --------------------------
(***************************************************************************)
(* A scheduler that keeps its requests in the variables of                 *)
(* ReplicaScheduler implements TokenService: blocks, batches, queues and   *)
(* restarts are hidden, an eviction never takes back an output token, at   *)
(* most BatchSizeCap requests hold memory, and no request starves.         *)
(***************************************************************************)
EXTENDS ReplicaScheduler

PhaseOf(r) ==
    CASE r > num_arrived                     -> "coming"
      [] req[r].completed                    -> "done"
      [] r \in Range(preempted_requests)     -> "paused"
      [] r \in RunningIds \cup Ids(batch)    -> "running"
      [] OTHER                               -> "waiting"

Service == INSTANCE TokenService WITH
    Requests <- Requests,
    Capacity <- BatchSizeCap,
    wanted   <- [r \in Requests |-> asked[r].decode],
    phase    <- [r \in Requests |-> PhaseOf(r)],
    emitted  <- [r \in Requests |-> Emitted(r)]

(* Each step of the scheduler is a step of the service or changes nothing   *)
(* a user sees, and every request that arrives is served to its last token. *)
ImplementsService == Service!ServiceSpec
=============================================================================
