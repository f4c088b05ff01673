--------------------------- MODULE VllmScheduler ---------------------------
(***************************************************************************)
(* VLLMReplicaScheduler: new requests are admitted before running ones are *)
(* resumed, memory is allocated one block at a time, and the youngest      *)
(* preempted request is evicted (restarted from its prefill) when there is *)
(* no block left.                                                          *)
(***************************************************************************)
EXTENDS BlockScheduler

CONSTANT MaxTokensInBatch   \* max_tokens_in_batch

ASSUME VllmAssumption == MaxTokensInBatch \in Nat

(* BaseReplicaScheduler._get_request_next_num_tokens *)
NextNumTokens(r) == IF req[r].prefill_complete THEN 1 ELSE req[r].prefill

(* The batch is padded to its longest request.  The requests admitted       *)
(* before this one are those of `batch'.                                    *)
FitsInBatch(r) ==
    \A n \in {batch[i].tokens : i \in DOMAIN batch} \cup {NextNumTokens(r)} :
        (Len(batch) + 1) * n <= MaxTokensInBatch

(* Seeded fault: the limit on the requests that hold memory is forgotten. *)
CanAdmitUncapped ==
    /\ request_queue # <<>>
    /\ LET r == Head(request_queue)
       IN  CanAllocateRequest(r) /\ FitsInBatch(r)
    /\ Len(batch) # MaxMicroBatchSize

CanAdmit ==
    /\ request_queue # <<>>
    /\ LET r == Head(request_queue)
       IN  CanAllocateRequest(r) /\ FitsInBatch(r)
    /\ Cardinality(DOMAIN allocation_map) # BatchSizeCap
    /\ Len(batch) # MaxMicroBatchSize

(* One iteration of the first loop of _get_next_batch. *)
Admit ==
    /\ pc = "form"
    /\ CanAdmit
    /\ LET r == Head(request_queue)
       IN  /\ AllocateRequest(r)
           /\ batch' = Append(batch, [id |-> r, tokens |-> NextNumTokens(r)])
    /\ request_queue' = Tail(request_queue)
    /\ UNCHANGED <<asked, req, num_arrived, preempted_requests, pipeline,
                   schedule_events, pc>>

(* The first loop ended: a batch of new requests is returned as it is,      *)
(* otherwise the preempted requests are sorted and resumed.                 *)
AdmitDone ==
    /\ pc = "form"
    /\ ~CanAdmit
    /\ \/ /\ batch # <<>>
          /\ ReturnBatch
          /\ UNCHANGED preempted_requests
       \/ /\ batch = <<>>
          /\ pc' = "resume"
          /\ \E s \in [DOMAIN preempted_requests -> Range(preempted_requests)] :
                IsStableSort(preempted_requests, s) /\ preempted_requests' = s
          /\ UNCHANGED <<pipeline, batch>>
    /\ UNCHANGED <<asked, req, num_arrived, request_queue, memory, schedule_events>>

MayResume ==
    /\ pc = "resume"
    /\ preempted_requests # <<>>
    /\ Len(batch) # MaxMicroBatchSize

(* The oldest preempted request joins the batch. *)
Resume ==
    /\ MayResume
    /\ LET r == Head(preempted_requests)
       IN  /\ CanAllocateRequest(r)
           /\ AllocateRequest(r)
           /\ batch' = Append(batch, [id |-> r, tokens |-> NextNumTokens(r)])
    /\ preempted_requests' = Tail(preempted_requests)
    /\ UNCHANGED <<asked, req, num_arrived, request_queue, pipeline,
                   schedule_events, pc>>

(* Seeded faults of eviction: the oldest request is evicted instead of the  *)
(* youngest; the youngest is evicted but the oldest leaves the preempted    *)
(* ones.                                                                    *)
EvictFrom(victim, rest, queue) ==
    /\ MayResume
    /\ ~CanAllocateRequest(Head(preempted_requests))
    /\ req' = [req EXCEPT ![victim] = Restart(@)]
    /\ Free(victim)
    /\ request_queue' = queue
    /\ preempted_requests' = rest
    /\ UNCHANGED <<asked, num_arrived, pipeline, schedule_events, pc, batch>>
EvictOldest ==
    EvictFrom(Head(preempted_requests), Tail(preempted_requests),
              <<Head(preempted_requests)>> \o request_queue)
EvictWrongOne ==
    EvictFrom(Last(preempted_requests), Tail(preempted_requests),
              <<Last(preempted_requests)>> \o request_queue)

(* No block for the oldest preempted request: the youngest one gives its    *)
(* blocks back and returns to the head of the queue.  When only the oldest  *)
(* is left it evicts itself, the code's else branch.                        *)
Evict ==
    /\ MayResume
    /\ ~CanAllocateRequest(Head(preempted_requests))
    /\ LET victim == Last(preempted_requests)
       IN  /\ req' = [req EXCEPT ![victim] = Restart(@)]
           /\ Free(victim)
           /\ request_queue' = <<victim>> \o request_queue
    /\ preempted_requests' = Front(preempted_requests)
    /\ UNCHANGED <<asked, num_arrived, pipeline, schedule_events, pc, batch>>

ResumeDone ==
    /\ pc = "resume"
    /\ ~MayResume
    /\ ReturnBatch
    /\ UNCHANGED <<asked, req, num_arrived, request_queue, preempted_requests,
                   memory, schedule_events>>

Next ==
    \/ AddRequests
    \/ OnSchedule
    \/ Admit
    \/ AdmitDone
    \/ Resume
    \/ Evict
    \/ ResumeDone
    \/ BatchEnd
    \/ EndRequest
    \/ BatchEnded

Spec == Init /\ [][Next]_vars

(* The simulator's loop takes the next event as long as there is one. *)
FairSpec == Spec /\ WF_vars(Next)

-----------------------------------------------------------------------------
(* Properties. *)

(* Every variable has the type the code gives it; at most one event of each *)
(* kind waits.                                                              *)
TypeOK ==
    /\ ReplicaTypes
    /\ pc \in {"idle", "form", "resume", "end"}

(* Through admission, preemption, eviction and batch ends no request is     *)
(* lost or duplicated: a live request is in exactly one place, once, and    *)
(* holds blocks exactly when it is not waiting in the queue.                *)
NothingLost == Conserved(preempted_requests)

(* The assertions on the way of a request never fail: one token at most is  *)
(* missing when it is resumed (vllm_replica_scheduler.py:59-61), its victim *)
(* holds blocks to free, it is not completed when it is scheduled again     *)
(* (base_replica_scheduler.py:94), a batch does not process more tokens     *)
(* than it has (request.py:230), and, as line 104 of the scheduler says,    *)
(* all preempted requests have their prefill completed.                     *)
AssertionsHold ==
    /\ \A r \in Range(preempted_requests) :
        /\ r \in DOMAIN allocation_map
        /\ NumTokensRequired(r) <= 1
        /\ req[r].prefill_complete
    /\ \A r \in Range(preempted_requests) \cup Range(request_queue) :
        ~req[r].completed
    /\ \A k \in DOMAIN running_batches : \A e \in Range(running_batches[k]) :
        OnBatchEndAsserts(req[e.id], e.tokens)

Scheduled == RunningIds \cup (IF pc = "end" THEN {} ELSE Ids(batch))

(* While a batch runs, each of its requests holds exactly the blocks its    *)
(* context needs: enough for every token in its KV cache, and no block in   *)
(* vain.                                                                    *)
ExactBlocks ==
    \A r \in Scheduled :
        ExactFor(IF req[r].prefill_complete THEN req[r].processed ELSE req[r].prefill,
                 allocation_map[r])

(* Eviction loses no work that was shown to the user: the output of a       *)
(* request only ever grows, by one token at a time, to the length it asked  *)
(* for, which is when it completes.                                         *)
OutputGrows ==
    [][\A r \in Requests :
        /\ Emitted(r)' \in {Emitted(r), Emitted(r) + 1}
        /\ Emitted(r)' <= asked[r].decode
        /\ req'[r].completed <=> Emitted(r)' = asked[r].decode]_vars

(* An evicted request is the youngest of those that could have been: no     *)
(* request that arrived after it stays preempted or joins the batch.        *)
EvictYoungest ==
    [][\A r \in Range(preempted_requests) \cap Range(request_queue') :
        \A q \in Range(preempted_requests') \cup Ids(batch') :
            ArrivedAt[q] <= ArrivedAt[r]]_vars

-----------------------------------------------------------------------------
(* The inductive invariant: what the properties above leave out and their   *)
(* proofs need.                                                             *)

(* A request without blocks starts from its prefill. *)
Fresh(r) ==
    /\ req[r].processed = 0
    /\ ~req[r].prefill_complete
    /\ req[r].decode >= 1
    /\ asked[r].prefill <= req[r].prefill

(* A preempted request is in the middle of its decode, and its blocks are   *)
(* those of the iteration that preempted it.                                *)
MidDecode(r) ==
    /\ req[r].prefill_complete
    /\ req[r].prefill < req[r].processed
    /\ req[r].processed < TotalTokens(req[r])
    /\ ExactFor(req[r].processed - 1, allocation_map[r])

(* A request in a batch with n tokens. *)
InBatch(r, n) ==
    \/ Fresh(r) /\ n = req[r].prefill /\ ExactFor(n, allocation_map[r])
    \/ /\ n = 1
       /\ req[r].prefill_complete
       /\ req[r].prefill < req[r].processed
       /\ req[r].processed < TotalTokens(req[r])
       /\ ExactFor(req[r].processed, allocation_map[r])

RequestsInv ==
    /\ \A r \in Requests :
        /\ TotalTokens(req[r]) = TotalTokens(asked[r])
        /\ asked[r].prefill <= req[r].prefill
        /\ req[r].completed => /\ req[r].prefill_complete
                               /\ req[r].processed = TotalTokens(req[r])
    /\ \A r \in Range(request_queue) : Fresh(r)
    /\ \A r \in Range(preempted_requests) : MidDecode(r)
    /\ \A e \in Range(batch) : InBatch(e.id, e.tokens)
    /\ \A k \in DOMAIN running_batches : \A e \in Range(running_batches[k]) :
        InBatch(e.id, e.tokens)

(* While the second loop runs the preempted requests are in the order of    *)
(* their arrival, and the batch has none that arrived after one of them.    *)
ResumeOrder ==
    pc = "resume" =>
        /\ \A i, j \in DOMAIN preempted_requests : i <= j =>
                ArrivedAt[preempted_requests[i]] <= ArrivedAt[preempted_requests[j]]
        /\ \A q \in Ids(batch) : \A r \in Range(preempted_requests) :
                ArrivedAt[q] <= ArrivedAt[r]

IInv ==
    /\ TypeOK
    /\ PipelineCount
    /\ NotArrived
    /\ NothingLost
    /\ MemoryAccounting
    /\ RequestsInv
    /\ WithinCap
    /\ ResumeOrder
=============================================================================
