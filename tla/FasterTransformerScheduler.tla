--------------------- MODULE FasterTransformerScheduler ---------------------
(***************************************************************************)
(* FasterTransformerReplicaScheduler: the requests of a batch stay         *)
(* together until the last of them is completed; only then is another      *)
(* batch formed in their place.  Memory for a whole sequence is reserved   *)
(* per request.                                                            *)
(***************************************************************************)
EXTENDS ReplicaScheduler

CONSTANT MaxBlocksPerSequence   \* _max_blocks_per_sequence

ASSUME FasterTransformerAssumption == MaxBlocksPerSequence \in Nat \ {0}

VARIABLE preempted_batches   \* _preempted_batches

ftVars == <<vars, preempted_batches>>

FTInit == Init /\ preempted_batches = <<>>

(* _max_batch_size: the memory planner's limit is taken in BatchSizeCap. *)
MaxBatchSize == BatchSizeCap

Entry(r) == [id |-> r, tokens |-> IF req[r].prefill_complete THEN 1 ELSE req[r].prefill]

(* Seeded fault: completed requests run again. *)
UnfinishedAll(b) == [i \in DOMAIN b |-> Entry(b[i].id)]

(* _generate_next_batch_from_preempted: the requests of b that are not      *)
(* completed, in their order.                                               *)
Unfinished(b) ==
    LET again[n \in 0 .. Len(b)] ==
            IF n = 0 THEN <<>>
            ELSE IF req[b[n].id].completed THEN again[n - 1]
            ELSE Append(again[n - 1], Entry(b[n].id))
    IN  again[Len(b)]

(* The oldest preempted batch is run again with its unfinished requests.    *)
RunAgain ==
    /\ pc = "form"
    /\ preempted_batches # <<>>
    /\ running_batches' = Append(running_batches, Unfinished(Head(preempted_batches)))
    /\ num_running_batches' = num_running_batches + 1
    /\ pc' = NextLoop(num_running_batches + 1)
    /\ preempted_batches' = Tail(preempted_batches)
    /\ UNCHANGED <<asked, req, num_arrived, request_queue, preempted_requests,
                   memory, schedule_events, batch>>

CanAdmit ==
    /\ request_queue # <<>>
    /\ Len(batch) # MaxBatchSize
    /\ FreeBlocks >= MaxBlocksPerSequence

Admit ==
    /\ pc = "form"
    /\ preempted_batches = <<>>
    /\ CanAdmit
    /\ Allocate(Head(request_queue), MaxBlocksPerSequence)
    /\ batch' = Append(batch, Entry(Head(request_queue)))
    /\ request_queue' = Tail(request_queue)
    /\ UNCHANGED <<asked, req, num_arrived, preempted_requests, pipeline,
                   schedule_events, pc, preempted_batches>>

AdmitDone ==
    /\ pc = "form"
    /\ preempted_batches = <<>>
    /\ ~CanAdmit
    /\ ReturnBatch
    /\ UNCHANGED <<asked, req, num_arrived, request_queue, preempted_requests,
                   memory, schedule_events, preempted_batches>>

(* free_batch: the memory of all requests of b. *)
FreeBatch(b) ==
    /\ num_allocated_blocks' =
            num_allocated_blocks - SumFunctionOnSet(allocation_map, Ids(b))
    /\ allocation_map' = [q \in DOMAIN allocation_map \ Ids(b) |-> allocation_map[q]]

(* Seeded faults of what follows: the memory of a batch is freed when one of *)
(* its requests is completed; the end of a batch does not wake up the       *)
(* scheduler; the running batches are counted down for each request.        *)
FTBatchEndWhen(quantified(_, _), events, ended_batches) ==
    /\ pc = "idle"
    /\ running_batches # <<>>
    /\ LET b == Head(running_batches)
           ended == [r \in Ids(b) |->
                OnBatchEnd(req[r], (CHOOSE e \in Range(b) : e.id = r).tokens)]
       IN  /\ req' = [r \in Requests |-> IF r \in Ids(b) THEN ended[r] ELSE req[r]]
           /\ IF quantified(ended, Ids(b))
              THEN FreeBatch(b) /\ UNCHANGED preempted_batches
              ELSE /\ preempted_batches' = Append(preempted_batches, b)
                   /\ UNCHANGED memory
    /\ running_batches' = Tail(running_batches)
    /\ num_running_batches' = num_running_batches - ended_batches
    /\ schedule_events' = events
    /\ UNCHANGED <<asked, num_arrived, request_queue, preempted_requests, pc, batch>>
FTBatchEndEarly ==
    FTBatchEndWhen(LAMBDA ended, ids : \E r \in ids : ended[r].completed,
                   Append(schedule_events, "batch_end"), 1)
FTBatchEndSilently ==
    FTBatchEndWhen(LAMBDA ended, ids : \A r \in ids : ended[r].completed,
                   schedule_events, 1)
FTBatchEndPerRequest ==
    FTBatchEndWhen(LAMBDA ended, ids : \A r \in ids : ended[r].completed,
                   Append(schedule_events, "batch_end"), Len(Head(running_batches)))

(* BatchEndEvent.handle_event: every request of the batch advances; when    *)
(* all of them are completed the memory of the batch is freed.              *)
(* _pending_free_map is never filled, so that nothing else is.              *)
FTBatchEnd ==
    /\ pc = "idle"
    /\ running_batches # <<>>
    /\ "batch_end" \notin Range(schedule_events)
    /\ LET b == Head(running_batches)
           ended == [r \in Ids(b) |->
                OnBatchEnd(req[r], (CHOOSE e \in Range(b) : e.id = r).tokens)]
       IN  /\ req' = [r \in Requests |-> IF r \in Ids(b) THEN ended[r] ELSE req[r]]
           /\ \/ /\ \A r \in Ids(b) : ended[r].completed
                 /\ FreeBatch(b)
                 /\ UNCHANGED preempted_batches
              \/ /\ \E r \in Ids(b) : ~ended[r].completed
                 /\ preempted_batches' = Append(preempted_batches, b)
                 /\ UNCHANGED memory
    /\ running_batches' = Tail(running_batches)
    /\ num_running_batches' = num_running_batches - 1
    /\ schedule_events' = Append(schedule_events, "batch_end")
    /\ UNCHANGED <<asked, num_arrived, request_queue, preempted_requests, pc, batch>>

FTNext ==
    \/ RunAgain
    \/ Admit
    \/ AdmitDone
    \/ FTBatchEnd
    \/ (AddRequests \/ OnSchedule) /\ UNCHANGED preempted_batches

Spec == FTInit /\ [][FTNext]_ftVars
FairSpec == Spec /\ WF_ftVars(FTNext)

-----------------------------------------------------------------------------
(* Properties. *)

(* Every variable has the type the code gives it. *)
TypeOK ==
    /\ ReplicaTypes
    /\ preempted_batches \in Seq(Seq(BatchEntry))
    /\ \A r \in DOMAIN allocation_map : allocation_map[r] = MaxBlocksPerSequence
    /\ pc \in {"idle", "form"}

Batches == preempted_batches \o running_batches \o <<batch>>

(* A live request is in the queue or in one batch, in which it waits or     *)
(* runs and holds its memory; no more memory is taken than there is.        *)
NothingLost ==
    /\ IsInjective(request_queue)
    /\ DisjointBatches(Batches)
    /\ Range(request_queue) \cap DOMAIN allocation_map = {}
    /\ IdsIn(Batches) \subseteq DOMAIN allocation_map
    /\ Live = Range(request_queue) \cup {r \in IdsIn(Batches) : ~req[r].completed}
    /\ num_allocated_blocks = Cardinality(HeldBlocks)
    /\ num_allocated_blocks <= NumBlocks

(* A request that is completed before the others of its batch leaves the    *)
(* batch and keeps its memory.  It is never the last one of its batch, so   *)
(* that what has leaked leaves room for another request.                    *)
Leaked == DOMAIN allocation_map \ IdsIn(Batches)

RoomRemains ==
    MaxBlocksPerSequence <= NumBlocks =>
        (Cardinality(Leaked) + 1) * MaxBlocksPerSequence <= NumBlocks

(* The requests of a batch are in the same phase.  In its first run they    *)
(* prefill, each in one step; a batch that waits to run again has prefilled *)
(* and has a request to run for.                                            *)
Fresh(r) == ~req[r].prefill_complete /\ req[r].processed = 0
FirstRun(b) == \A i \in DOMAIN b : Fresh(b[i].id) /\ b[i].tokens = req[b[i].id].prefill
LaterRun(b) == \A r \in Ids(b) : req[r].prefill_complete

InPhase ==
    /\ \A r \in Range(request_queue) : Fresh(r)
    /\ FirstRun(batch)
    /\ \A k \in DOMAIN running_batches :
            FirstRun(running_batches[k]) \/ LaterRun(running_batches[k])
    /\ \A k \in DOMAIN preempted_batches :
            /\ LaterRun(preempted_batches[k])
            /\ \E r \in Ids(preempted_batches[k]) : ~req[r].completed

(* A new batch is only formed when none waits to run again, and it is built *)
(* by the loop; no request has memory before it arrives.                    *)
LoopState ==
    /\ PipelineCount
    /\ batch # <<>> => preempted_batches = <<>>
    /\ NotArrived
    /\ DOMAIN allocation_map \subseteq Arrived

(* The parts together: what holds in every state and in every step.         *)
FTInv == TypeOK /\ LoopState /\ NothingLost /\ RoomRemains /\ InPhase

(* Batches are static: a batch that runs is as it was formed but for its    *)
(* completed requests, and waits for the last one; nobody joins it.  The    *)
(* requests of a batch were admitted together, so they all prefill in its   *)
(* first run and decode in all others.                                      *)
StaticBatches ==
    [][\A k \in DOMAIN running_batches' :
        LET b == running_batches'[k]
        IN  \/ Ids(b) \in {Ids(running_batches[j]) : j \in DOMAIN running_batches}
            \/ Ids(b) = Ids(batch) /\ \A e \in Range(b) : ~req[e.id].prefill_complete
            \/ \E j \in DOMAIN preempted_batches :
                /\ Ids(b) = {r \in Ids(preempted_batches[j]) : ~req[r].completed}
                /\ b # <<>>
                /\ \A e \in Range(b) : req[e.id].prefill_complete]_ftVars
=============================================================================
