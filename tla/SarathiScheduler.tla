-------------------------- MODULE SarathiScheduler --------------------------
(***************************************************************************)
(* SarathiReplicaScheduler: prefills are cut into chunks that fill what    *)
(* the decodes of a batch leave of ChunkSize tokens.  A batch is formed of *)
(* the preempted decodes, then of the prefills that are under way, then of *)
(* new requests.                                                           *)
(***************************************************************************)
EXTENDS BlockScheduler

CONSTANT ChunkSize   \* chunk_size

ASSUME SarathiAssumption == ChunkSize \in Nat

VARIABLES
    running_prefills,    \* preempted requests whose prefill is under way
    skipped_requests     \* those of them that found no token left

locals == <<running_prefills, skipped_requests>>
sarathiVars == <<vars, locals>>

SarathiInit == Init /\ running_prefills = <<>> /\ skipped_requests = <<>>

(* num_batch_tokens of the batch being formed. *)
TokensOf(b) == SumFunction([i \in DOMAIN b |-> b[i].tokens])

(* Seeded fault: the tokens of the batch are not subtracted. *)
ChunkWholeBudget(r) ==
    IF req[r].prefill_complete THEN 1
    ELSE Min({req[r].prefill - req[r].processed, ChunkSize})

(* _get_request_next_num_tokens *)
NextNumTokens(r) ==
    IF req[r].prefill_complete THEN 1
    ELSE Max({0, Min({req[r].prefill - req[r].processed,
                      ChunkSize - TokensOf(batch)})})

InBatchNow(r) == batch' = Append(batch, [id |-> r, tokens |-> NextNumTokens(r)])

-----------------------------------------------------------------------------
(* The first loop of _get_next_batch: decodes.  A decode always takes one   *)
(* token, so that none is skipped here.                                     *)

MayPop ==
    /\ pc = "form"
    /\ preempted_requests # <<>>
    /\ Len(batch) # MaxMicroBatchSize

SetAside ==
    /\ MayPop
    /\ ~req[Head(preempted_requests)].prefill_complete
    /\ running_prefills' = Append(running_prefills, Head(preempted_requests))
    /\ preempted_requests' = Tail(preempted_requests)
    /\ UNCHANGED <<asked, req, num_arrived, request_queue, memory, pipeline,
                   schedule_events, pc, batch, skipped_requests>>

Resume ==
    /\ MayPop
    /\ LET r == Head(preempted_requests)
       IN  /\ req[r].prefill_complete
           /\ CanAllocateRequest(r)
           /\ AllocateRequest(r)
           /\ InBatchNow(r)
    /\ preempted_requests' = Tail(preempted_requests)
    /\ UNCHANGED <<asked, req, num_arrived, request_queue, pipeline,
                   schedule_events, pc, locals>>

(* Seeded fault: the victim keeps its blocks. *)
EvictKeepsBlocks ==
    /\ MayPop
    /\ req[Head(preempted_requests)].prefill_complete
    /\ ~CanAllocateRequest(Head(preempted_requests))
    /\ LET victim == Last(preempted_requests)
       IN  /\ req' = [req EXCEPT ![victim] = Restart(@)]
           /\ request_queue' = <<victim>> \o request_queue
    /\ preempted_requests' = Front(preempted_requests)
    /\ UNCHANGED <<asked, num_arrived, memory, pipeline, schedule_events, pc, batch,
                   locals>>

(* The last preempted request, decode or prefill, gives way; a decode that  *)
(* is alone evicts itself.                                                  *)
Evict ==
    /\ MayPop
    /\ req[Head(preempted_requests)].prefill_complete
    /\ ~CanAllocateRequest(Head(preempted_requests))
    /\ LET victim == Last(preempted_requests)
       IN  /\ req' = [req EXCEPT ![victim] = Restart(@)]
           /\ Free(victim)
           /\ request_queue' = <<victim>> \o request_queue
    /\ preempted_requests' = Front(preempted_requests)
    /\ UNCHANGED <<asked, num_arrived, pipeline, schedule_events, pc, batch, locals>>

DecodesDone ==
    /\ pc = "form"
    /\ ~MayPop
    /\ pc' = "prefill"
    /\ UNCHANGED <<asked, req, num_arrived, request_queue, preempted_requests,
                   memory, pipeline, schedule_events, batch, locals>>

-----------------------------------------------------------------------------
(* The second loop: the prefills under way, while tokens are left. *)

(* A request that finds no token left is skipped until the loop ends.       *)
ContinuePrefill ==
    /\ pc = "prefill"
    /\ running_prefills # <<>>
    /\ LET r == Head(running_prefills)
       IN  \/ /\ NextNumTokens(r) = 0
              /\ skipped_requests' = Append(skipped_requests, r)
              /\ UNCHANGED batch
           \/ /\ NextNumTokens(r) # 0
              /\ InBatchNow(r)
              /\ UNCHANGED skipped_requests
    /\ running_prefills' = Tail(running_prefills)
    /\ UNCHANGED <<asked, req, num_arrived, request_queue, preempted_requests,
                   memory, pipeline, schedule_events, pc>>

(* The skipped requests go back to the preempted ones, which are sorted. *)
PrefillsDone ==
    /\ pc = "prefill"
    /\ running_prefills = <<>>
    /\ LET waiting == skipped_requests \o preempted_requests
       IN  \E s \in [DOMAIN waiting -> Range(waiting)] :
                IsStableSort(waiting, s) /\ preempted_requests' = s
    /\ skipped_requests' = <<>>
    /\ pc' = "admit"
    /\ UNCHANGED <<asked, req, num_arrived, request_queue, memory, pipeline,
                   schedule_events, batch, running_prefills>>

-----------------------------------------------------------------------------
(* The third loop: new requests. *)

(* Seeded fault: the admission loop does not look at the size of the batch. *)
CanAdmitUncapped ==
    /\ request_queue # <<>>
    /\ Cardinality(DOMAIN allocation_map) # BatchSizeCap
    /\ CanAllocateRequest(Head(request_queue))
    /\ NextNumTokens(Head(request_queue)) # 0

CanAdmit ==
    /\ request_queue # <<>>
    /\ Cardinality(DOMAIN allocation_map) # BatchSizeCap
    /\ Len(batch) # MaxMicroBatchSize
    /\ CanAllocateRequest(Head(request_queue))
    /\ NextNumTokens(Head(request_queue)) # 0

Admit ==
    /\ pc = "admit"
    /\ CanAdmit
    /\ AllocateRequest(Head(request_queue))
    /\ InBatchNow(Head(request_queue))
    /\ request_queue' = Tail(request_queue)
    /\ UNCHANGED <<asked, req, num_arrived, preempted_requests, pipeline,
                   schedule_events, pc, locals>>

AdmitDone ==
    /\ pc = "admit"
    /\ ~CanAdmit
    /\ ReturnBatch
    /\ UNCHANGED <<asked, req, num_arrived, request_queue, preempted_requests,
                   memory, schedule_events, locals>>

SarathiNext ==
    \/ SetAside
    \/ Resume
    \/ Evict
    \/ DecodesDone
    \/ ContinuePrefill
    \/ PrefillsDone
    \/ Admit
    \/ AdmitDone
    \/ (AddRequests \/ OnSchedule \/ BatchEnd \/ EndRequest \/ BatchEnded)
            /\ UNCHANGED locals

Spec == SarathiInit /\ [][SarathiNext]_sarathiVars
FairSpec == Spec /\ WF_sarathiVars(SarathiNext)

-----------------------------------------------------------------------------
(* Properties. *)

(* Every variable has the type the code gives it. *)
TypeOK ==
    /\ ReplicaTypes
    /\ running_prefills \in Seq(Requests)
    /\ skipped_requests \in Seq(Requests)
    /\ pc \in {"idle", "form", "prefill", "admit", "end"}

Paused == preempted_requests \o running_prefills \o skipped_requests

(* Through chunks, skips, evictions and batch ends no request is lost or    *)
(* duplicated, and a request holds blocks exactly when it is not waiting in *)
(* the queue.                                                               *)
NothingLost == Conserved(Paused)

(* A restart rewrites the tokens of a request, half way through a prefill   *)
(* too, and still: the total stays what was asked for (on_batch_end         *)
(* completes at that total), a resumed decode lacks at most one token of    *)
(* memory (the assertion of _allocate_request, lines 51-53), no paused      *)
(* request is completed (line 72), and the end of every batch in the        *)
(* pipeline will find its token counts right (request.py:217-227).          *)
AssertionsHold ==
    /\ \A r \in Requests : TotalTokens(req[r]) = TotalTokens(asked[r])
    /\ \A r \in Range(Paused) :
        /\ ~req[r].completed
        /\ req[r].prefill_complete => NumTokensRequired(r) <= 1
    /\ \A k \in DOMAIN running_batches : \A e \in Range(running_batches[k]) :
        OnBatchEndAsserts(req[e.id], e.tokens)

-----------------------------------------------------------------------------
(* The inductive invariant: what the properties above leave out and their   *)
(* proofs need.                                                             *)

(* A request in the queue starts from its first token; it may have been     *)
(* evicted half way through a prefill.                                      *)
Fresh(r) ==
    /\ req[r].processed = 0
    /\ ~req[r].prefill_complete
    /\ req[r].decode >= 1

(* A request between two chunks of its prefill has the blocks of all of it. *)
MidPrefill(r) ==
    /\ ~req[r].prefill_complete
    /\ req[r].processed < req[r].prefill
    /\ req[r].decode >= 1
    /\ ExactFor(req[r].prefill, allocation_map[r])

(* A request between two decodes: its blocks are those of the iteration     *)
(* that preempted it.                                                       *)
MidDecode(r) ==
    /\ req[r].prefill_complete
    /\ req[r].prefill < req[r].processed
    /\ req[r].processed < TotalTokens(req[r])
    /\ ExactFor(req[r].processed - 1, allocation_map[r])

(* A request in a batch with n tokens. *)
InBatch(r, n) ==
    \/ /\ ~req[r].prefill_complete
       /\ n >= 1
       /\ req[r].processed + n <= req[r].prefill
       /\ req[r].decode >= 1
       /\ ExactFor(req[r].prefill, allocation_map[r])
    \/ /\ n = 1
       /\ req[r].prefill_complete
       /\ req[r].prefill < req[r].processed
       /\ req[r].processed < TotalTokens(req[r])
       /\ ExactFor(req[r].processed, allocation_map[r])

RequestsInv ==
    /\ \A r \in Requests :
        /\ TotalTokens(req[r]) = TotalTokens(asked[r])
        /\ req[r].completed => /\ req[r].prefill_complete
                               /\ req[r].processed = TotalTokens(req[r])
    /\ \A r \in Range(request_queue) : Fresh(r)
    /\ \A r \in Range(preempted_requests) : MidPrefill(r) \/ MidDecode(r)
    /\ \A r \in Range(running_prefills) \cup Range(skipped_requests) : MidPrefill(r)
    /\ \A e \in Range(batch) : InBatch(e.id, e.tokens)
    /\ \A k \in DOMAIN running_batches : \A e \in Range(running_batches[k]) :
        InBatch(e.id, e.tokens)

(* The lists of the loops are empty between them. *)
LoopLists ==
    /\ pc # "prefill" => skipped_requests = <<>>
    /\ pc \notin {"form", "prefill"} => running_prefills = <<>>

IInv ==
    /\ TypeOK
    /\ PipelineCount
    /\ NotArrived
    /\ NothingLost
    /\ MemoryAccounting
    /\ RequestsInv
    /\ WithinCap
    /\ LoopLists

-----------------------------------------------------------------------------
(* Tokens of a batch, and the same for them. *)

(* The decodes of a full batch leave chunk_size at least their own tokens.  *)
(* Nothing in the code compares the two parameters; its defaults are 128    *)
(* requests and 512 tokens.                                                 *)
DecodesFit == MaxMicroBatchSize <= ChunkSize

(* An entry of a batch after which the prefill of its request goes on. *)
Incomplete(e) ==
    /\ ~req[e.id].prefill_complete
    /\ req[e.id].processed + e.tokens < req[e.id].prefill

WithinBudget(b) ==
    /\ DecodesFit => TokensOf(b) <= ChunkSize
    /\ Len(b) <= MaxMicroBatchSize
    /\ \A e, d \in Range(b) : Incomplete(e) /\ Incomplete(d) => e = d

(* The batch being formed keeps to the budget: the loop over the decodes    *)
(* takes one token each, every request takes one at least, and a prefill    *)
(* that stays incomplete has taken all tokens that were left.               *)
Forming ==
    /\ WithinBudget(batch)
    /\ Len(batch) <= TokensOf(batch)
    /\ (\E e \in Range(batch) : Incomplete(e)) => TokensOf(batch) >= ChunkSize
    /\ pc = "form" =>
        /\ TokensOf(batch) = Len(batch)
        /\ \A e \in Range(batch) : ~Incomplete(e)

Budgets ==
    /\ \A k \in DOMAIN running_batches : WithinBudget(running_batches[k])
    /\ pc \in {"form", "prefill", "admit"} => Forming

(* Paused requests whose prefill goes on, or will when the batch has ended. *)
Partial ==
    {r \in Range(preempted_requests) \cup Range(running_prefills) : ~req[r].prefill_complete}
        \cup IF pc = "end" THEN {e.id : e \in {d \in Range(batch) : Incomplete(d)}} ELSE {}

(* The requests that are paused are those of one batch, at most one of them *)
(* in its prefill, and there is a free stage for them: the next batch that  *)
(* is formed takes them all.                                                *)
ReformedWhole ==
    DecodesFit =>
        /\ skipped_requests = <<>>
        /\ \A r, q \in Partial : r = q
        /\ pc # "admit" =>
            Len(preempted_requests) + Len(running_prefills) + Len(batch) <= MaxMicroBatchSize
        /\ pc = "idle" /\ preempted_requests # <<>> =>
            "batch_end" \in Range(schedule_events) /\ num_running_batches < NumStages
        /\ pc = "end" => num_running_batches < NumStages
        /\ pc \in {"prefill", "admit"} => preempted_requests = <<>>
        /\ pc = "prefill" /\ running_prefills # <<>> => TokensOf(batch) = Len(batch)

BudgetInv == Budgets /\ ReformedWhole

(* The parts together: nothing is lost, the blocks are counted right, every *)
(* request holds the blocks of its prefill or of its context and none more, *)
(* none of the assertions on the way of a request fails, and batches keep   *)
(* to their budget of tokens.                                               *)
SarathiInv == IInv /\ AssertionsHold /\ BudgetInv

-----------------------------------------------------------------------------
(* More properties. *)

(* When DecodesFit no batch has more than chunk_size tokens, although       *)
(* decodes are taken without looking at the tokens that are left.  No batch *)
(* has more than _max_micro_batch_size requests, although the loop over the *)
(* running prefills does not test it.  At most one prefill of a batch stays *)
(* incomplete.                                                              *)
ChunkBudget ==
    \A k \in DOMAIN running_batches :
        LET b == running_batches[k]
        IN  /\ DecodesFit => TokensOf(b) <= ChunkSize
            /\ Len(b) <= MaxMicroBatchSize
            /\ Cardinality({e \in Range(b) : Incomplete(e)}) <= 1

(* The batch that ends is re-formed whole: once its ReplicaScheduleEvent is *)
(* handled every request it left behind is in a batch again or back in the  *)
(* queue.  So when DecodesFit no prefill is ever skipped: the branch for    *)
(* skipped requests (lines 139-141) and the sorting after it do nothing.    *)
NoneLeftBehind ==
    DecodesFit =>
        /\ skipped_requests = <<>>
        /\ pc = "idle" /\ "batch_end" \notin Range(schedule_events) =>
                preempted_requests = <<>>

(* "when we restart the request, we can process all the previously decoded  *)
(* tokens in parallel" (request.py:297-298): a restart never shortens the   *)
(* prompt that is to be prefilled again.                                    *)
RestartPrefillsAll ==
    [][\A r \in Requests : req'[r].prefill >= req[r].prefill]_vars
=============================================================================
