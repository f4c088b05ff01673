------------------------- MODULE LightLLMScheduler -------------------------
(***************************************************************************)
(* LightLLMReplicaScheduler: memory is counted in tokens.  A batch is      *)
(* either a prefill of new requests or one decode step of all the others.  *)
(* A request is admitted when the memory that it and the running requests  *)
(* will need at their peak is there; nothing is ever evicted.              *)
(***************************************************************************)
EXTENDS ReplicaScheduler, FiniteSetsExt

CONSTANTS
    MaxTokensInBatch,   \* max_tokens_in_batch
    MaxWaitingIters     \* max_waiting_iters

(* The assertions of __init__, lines 18-23 of the scheduler. *)
ASSUME LightLLMAssumption ==
    /\ BlockSize = 1
    /\ NumStages = 1
    /\ MaxTokensInBatch \in Nat
    /\ MaxWaitingIters \in Nat

VARIABLE num_waiting_iters   \* _num_waiting_iters

lightVars == <<vars, num_waiting_iters>>

LightInit == Init /\ num_waiting_iters = 0

(* _max_micro_batch_size of the one stage. *)
MaxMicroBatchSize == BatchSizeCap

NextNumTokens(r) == IF req[r].prefill_complete THEN 1 ELSE req[r].prefill
InBatchNow(r) == batch' = Append(batch, [id |-> r, tokens |-> NextNumTokens(r)])

-----------------------------------------------------------------------------
(* The look-ahead of _can_allocate_request. *)

(* _get_tuple_tokens.  Of the requests asked for only the preempted ones    *)
(* have been scheduled.                                                     *)
HasRun(r) ==
    IF r \in Range(preempted_requests) THEN req[r].processed ELSE req[r].prefill + 1

LeftOut(r) ==
    Max({0, IF r \in Range(preempted_requests)
            THEN TotalTokens(req[r]) - req[r].processed - 1
            ELSE req[r].decode - 2})

(* When the requests S run together, those with no more left than r are     *)
(* done when r is; the others hold what they have run and as much again as  *)
(* r had left.  The code sorts by left_out and takes the maximum of the     *)
(* products and cumulated sums of the arrays, which is the same.            *)
HeldWithLast(S, r) ==
    LET alive == {q \in S : LeftOut(q) >= LeftOut(r)}
    IN  LeftOut(r) * Cardinality(alive) + SumFunction([q \in alive |-> HasRun(q)])

NeedMaxTokens(S) == Max({HeldWithLast(S, r) : r \in S})

(* Seeded fault: the requests this batch has admitted are not counted. *)
CanAllocateAlone(r) ==
    NeedMaxTokens(Range(preempted_requests) \cup {r}) < NumBlocks

(* Seeded fault: only the memory of the prompt is looked for, as in the     *)
(* can_allocate of the base class.                                          *)
CanAllocateNow(r) == FreeBlocks >= req[r].prefill

CanAllocateRequest(r) ==
    NeedMaxTokens(Range(preempted_requests) \cup Ids(batch) \cup {r}) < NumBlocks

-----------------------------------------------------------------------------
(* _get_next_batch *)

(* Without preempted requests, or after enough decodes, a prefill is tried. *)
TryPrefill ==
    /\ pc = "form"
    /\ \/ /\ preempted_requests = <<>>
          /\ UNCHANGED num_waiting_iters
       \/ /\ preempted_requests # <<>>
          /\ num_waiting_iters >= MaxWaitingIters
          /\ num_waiting_iters' = 0
    /\ pc' = "prefill"
    /\ UNCHANGED <<asked, req, num_arrived, request_queue, preempted_requests,
                   memory, pipeline, schedule_events, batch>>

CanDecode == FreeBlocks >= Len(preempted_requests)

(* The decode that follows when none is due; without memory for all it is a *)
(* RuntimeError, which NeverOutOfMemory rules out.                          *)
StartDecode ==
    /\ pc = "form"
    /\ preempted_requests # <<>>
    /\ num_waiting_iters < MaxWaitingIters
    /\ CanDecode
    /\ num_waiting_iters' = num_waiting_iters + 1
    /\ pc' = "decode"
    /\ UNCHANGED <<asked, req, num_arrived, request_queue, preempted_requests,
                   memory, pipeline, schedule_events, batch>>

(* Seeded fault: the limit on the requests that hold memory is forgotten. *)
CanAdmitUncapped ==
    /\ request_queue # <<>>
    /\ LET r == Head(request_queue)
       IN  /\ FoldLeft(LAMBDA n, e : n + e.tokens, NextNumTokens(r), batch)
                    <= MaxTokensInBatch
           /\ CanAllocateRequest(r)
    /\ Len(batch) # MaxMicroBatchSize

CanAdmit ==
    /\ request_queue # <<>>
    /\ LET r == Head(request_queue)
       IN  /\ FoldLeft(LAMBDA n, e : n + e.tokens, NextNumTokens(r), batch)
                    <= MaxTokensInBatch
           /\ CanAllocateRequest(r)
    /\ Cardinality(DOMAIN allocation_map) # BatchSizeCap
    /\ Len(batch) # MaxMicroBatchSize

Admit ==
    /\ pc = "prefill"
    /\ CanAdmit
    /\ LET r == Head(request_queue)
       IN  Allocate(r, req[r].prefill) /\ InBatchNow(r)
    /\ request_queue' = Tail(request_queue)
    /\ UNCHANGED <<asked, req, num_arrived, preempted_requests, pipeline,
                   schedule_events, pc, num_waiting_iters>>

(* Seeded fault: a prefill that admits nobody is not followed by a decode. *)
PrefillDoneIdle ==
    /\ pc = "prefill"
    /\ ~CanAdmit
    /\ ReturnBatch
    /\ num_waiting_iters' = IF batch # <<>> THEN 0 ELSE num_waiting_iters
    /\ UNCHANGED <<asked, req, num_arrived, request_queue, preempted_requests,
                   memory, schedule_events>>

(* A prefill that admits nobody gives way to the decode. *)
PrefillDone ==
    /\ pc = "prefill"
    /\ ~CanAdmit
    /\ \/ /\ batch # <<>> \/ preempted_requests = <<>>
          /\ ReturnBatch
          /\ num_waiting_iters' = IF batch # <<>> THEN 0 ELSE num_waiting_iters
       \/ /\ batch = <<>>
          /\ preempted_requests # <<>>
          /\ CanDecode
          /\ num_waiting_iters' = num_waiting_iters + 1
          /\ pc' = "decode"
          /\ UNCHANGED <<pipeline, batch>>
    /\ UNCHANGED <<asked, req, num_arrived, request_queue, preempted_requests,
                   memory, schedule_events>>

(* Seeded faults: a decode stays preempted; it takes no memory. *)
DecodeStays ==
    /\ pc = "decode"
    /\ preempted_requests # <<>>
    /\ LET r == Head(preempted_requests)
       IN  Allocate(r, 1) /\ InBatchNow(r)
    /\ preempted_requests' = IF Len(preempted_requests) > 1
                             THEN Tail(preempted_requests) ELSE preempted_requests
    /\ pc' = IF Len(preempted_requests) > 1 THEN pc ELSE "prefill"
    /\ UNCHANGED <<asked, req, num_arrived, request_queue, pipeline,
                   schedule_events, num_waiting_iters>>
DecodeFree ==
    /\ pc = "decode"
    /\ preempted_requests # <<>>
    /\ InBatchNow(Head(preempted_requests))
    /\ preempted_requests' = Tail(preempted_requests)
    /\ UNCHANGED <<asked, req, num_arrived, request_queue, memory, pipeline,
                   schedule_events, pc, num_waiting_iters>>

(* _get_decode_batch: all the preempted requests, one token of memory each. *)
Decode ==
    /\ pc = "decode"
    /\ preempted_requests # <<>>
    /\ LET r == Head(preempted_requests)
       IN  Allocate(r, 1) /\ InBatchNow(r)
    /\ preempted_requests' = Tail(preempted_requests)
    /\ UNCHANGED <<asked, req, num_arrived, request_queue, pipeline,
                   schedule_events, pc, num_waiting_iters>>

DecodeDone ==
    /\ pc = "decode"
    /\ preempted_requests = <<>>
    /\ ReturnBatch
    /\ UNCHANGED <<asked, req, num_arrived, request_queue, preempted_requests,
                   memory, schedule_events, num_waiting_iters>>

LightNext ==
    \/ TryPrefill
    \/ StartDecode
    \/ Admit
    \/ PrefillDone
    \/ Decode
    \/ DecodeDone
    \/ (AddRequests \/ OnSchedule \/ BatchEnd \/ EndRequest \/ BatchEnded)
            /\ UNCHANGED num_waiting_iters

Spec == LightInit /\ [][LightNext]_lightVars
FairSpec == Spec /\ WF_lightVars(LightNext)

-----------------------------------------------------------------------------
(* Properties. *)

(* Every variable has the type the code gives it. *)
TypeOK ==
    /\ ReplicaTypes
    /\ num_waiting_iters \in 0 .. Max({1, MaxWaitingIters})
    /\ pc \in {"idle", "form", "prefill", "decode", "end"}

(* A live request is in exactly one place and holds memory exactly when it  *)
(* is not in the queue.                                                     *)
NothingLost == Conserved(preempted_requests)

(* The look-ahead is sound: with what it admits, whatever arrives and ends  *)
(* later, every decode of all preempted requests finds its memory (no       *)
(* RuntimeError, line 153) and its place in the batch (the assertions of    *)
(* lines 117 and 121), and the counter stays within the replica.            *)
NeverOutOfMemory ==
    /\ pc = "form" => CanDecode
    /\ pc = "decode" => FreeBlocks >= Len(preempted_requests)
    /\ Len(batch) + Len(preempted_requests) <= MaxMicroBatchSize
    /\ num_allocated_blocks = Cardinality(HeldBlocks)
    /\ num_allocated_blocks <= NumBlocks

(* The look-ahead is never overtaken by what happens: when no batch runs    *)
(* the requests in memory still peak below what the replica has.            *)
PeakHolds ==
    (pc = "form" /\ preempted_requests # <<>>) =>
        NeedMaxTokens(Range(preempted_requests)) < NumBlocks

-----------------------------------------------------------------------------
(* The inductive invariant: what the properties above follow from. *)

(* A request in the queue starts from its first token. *)
Fresh(r) == req[r].processed = 0 /\ ~req[r].prefill_complete

(* A request holds exactly the memory of its context when it is paused:     *)
(* everything it has processed but the token its last step produced.        *)
ExactTokens(r) ==
    /\ req[r].prefill_complete
    /\ req[r].prefill < req[r].processed
    /\ req[r].processed < TotalTokens(req[r])
    /\ allocation_map[r] = req[r].processed - 1

(* In a batch it has the memory of what it will have processed, but the     *)
(* token that the batch produces.                                           *)
Prefilling(r, n) ==
    /\ Fresh(r)
    /\ n = req[r].prefill
    /\ allocation_map[r] = n
Decoding(r, n) ==
    /\ n = 1
    /\ req[r].prefill_complete
    /\ req[r].prefill < req[r].processed
    /\ req[r].processed < TotalTokens(req[r])
    /\ allocation_map[r] = req[r].processed
InBatch(r, n) == Prefilling(r, n) \/ Decoding(r, n)

(* No counter of a request is ever set back: nothing is evicted. *)
RequestsInv ==
    /\ \A r \in Requests :
        /\ req[r].prefill = asked[r].prefill
        /\ req[r].decode = asked[r].decode
        /\ req[r].completed => /\ req[r].prefill_complete
                               /\ req[r].processed = TotalTokens(req[r])
    /\ \A r \in Range(request_queue) : Fresh(r)
    /\ \A r \in Range(preempted_requests) : ExactTokens(r)
    /\ \A e \in Range(batch) : InBatch(e.id, e.tokens)
    /\ \A k \in DOMAIN running_batches : \A e \in Range(running_batches[k]) :
        InBatch(e.id, e.tokens)

(* What each loop starts from. *)
LoopStarts ==
    /\ pc = "form" => batch = <<>>
    /\ pc = "prefill" => \A e \in Range(batch) : Prefilling(e.id, e.tokens)
    /\ pc = "prefill" /\ preempted_requests # <<>> => num_waiting_iters = 0

(* The memory a request will have when the decode under way has come to it, *)
(* and that of all requests when r ends, if nobody else is admitted: those  *)
(* with no less left than r have decoded as often as r.                     *)
Due == [q \in DOMAIN allocation_map |->
            IF pc = "decode" /\ q \in Range(preempted_requests)
            THEN allocation_map[q] + 1 ELSE allocation_map[q]]
Totals == [q \in Requests |-> TotalTokens(req[q])]
PeakOf(due, total, r) ==
    LET left(q) == total[q] - due[q]
    IN  SumFunctionOnSet([q \in DOMAIN due |-> left(r) - 1 + due[q]],
                         {q \in DOMAIN due : left(q) >= left(r)})

(* What the look-ahead keeps, whatever is admitted and ends. *)
PeakBelow(due, total) == \A r \in DOMAIN due : PeakOf(due, total, r) < NumBlocks

(* The parts together: no request is lost, memory follows its context, and  *)
(* its peak stays below what the replica has.                               *)
LightInv ==
    /\ TypeOK
    /\ PipelineCount
    /\ NotArrived
    /\ NothingLost
    /\ num_allocated_blocks = Cardinality(HeldBlocks)
    /\ WithinCap
    /\ RequestsInv
    /\ LoopStarts
    /\ PeakBelow(Due, Totals)
=============================================================================
