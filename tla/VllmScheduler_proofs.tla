------------------------ MODULE VllmScheduler_proofs ------------------------
(***************************************************************************)
(* Proofs about VllmScheduler, for every number of requests, blocks,       *)
(* stages and tokens.  The first part of the inductive invariant follows   *)
(* from the moves of ReplicaLemmas, the counters of the requests and the   *)
(* order in which they are resumed from what each operation does to one    *)
(* request.                                                                *)
(***************************************************************************)
EXTENDS VllmScheduler, ReplicaLemmas

-----------------------------------------------------------------------------
(* The common part of the invariant. *)

(* The inductive invariant has all that the moves of ReplicaLemmas need. *)
LEMMA CoreHolds ==
    ASSUME IInv
    PROVE  /\ Core /\ ReplicaTypes /\ Conserved(preempted_requests)
           /\ num_allocated_blocks <= NumBlocks
           /\ num_allocated_blocks \in Int /\ NumBlocks \in Int
           /\ preempted_requests \in Seq(Requests)
BY ReplicaAssumption
   DEF IInv, TypeOK, Core, MemoryAccounting, NothingLost, ReplicaTypes

(* What the first part of the invariant says of the next state. *)
CommonNext ==
    /\ Core'
    /\ PlacesOK(request_queue', preempted_requests', batch', running_batches',
                DOMAIN allocation_map', Live')
    /\ num_allocated_blocks' <= NumBlocks

(* Those parts of it that a move of ReplicaLemmas gives. *)
LEMMA CommonParts ==
    ASSUME CommonNext, pc' \in {"idle", "form", "resume", "end"}
    PROVE  TypeOK' /\ PipelineCount' /\ NotArrived' /\ NothingLost' /\ MemoryAccounting'
           /\ WithinCap'
BY DEF CommonNext, Core, TypeOK, PlacesOK, NothingLost, Conserved, RunningIds,
       MemoryAccounting

(* A request is admitted with the blocks of its prefill. *)
LEMMA Admits ==
    ASSUME IInv, Admit, NEW r, r = Head(request_queue)
    PROVE  /\ CommonNext
           /\ r \in Requests /\ r \in Range(request_queue) /\ r \notin DOMAIN allocation_map
           /\ Fresh(r)
           /\ r \notin Range(request_queue')
           /\ Range(request_queue') \subseteq Range(request_queue)
           /\ Ids(batch') = Ids(batch) \cup {r}
           /\ Range(batch') = Range(batch) \cup {[id |-> r, tokens |-> req[r].prefill]}
           /\ ExactFor(req[r].prefill, allocation_map'[r])
           /\ \A x \in DOMAIN allocation_map : allocation_map'[x] = allocation_map[x]
<1> DEFINE n == NextNumTokens(r)
           k == CeilDiv(req[r].prefill, BlockSize)
<1>1. /\ pc = "form" /\ request_queue # <<>> /\ AllocateRequest(r) /\ CanAllocateRequest(r)
      /\ batch' = Append(batch, [id |-> r, tokens |-> n])
      /\ request_queue' = Tail(request_queue)
      /\ Cardinality(DOMAIN allocation_map) # BatchSizeCap
      /\ UNCHANGED <<asked, req, num_arrived, preempted_requests, pipeline,
                     schedule_events, pc>>
  BY DEF Admit, CanAdmit
<1>2. request_queue \in Seq(Requests)
  BY CoreHolds DEF ReplicaTypes
<1>3. r \in Range(request_queue) /\ r \in Requests /\ r \notin DOMAIN allocation_map
  <2>1. r \in Range(request_queue)
    BY <1>1, <1>2, TailRange
  <2> QED BY <2>1, CoreHolds, BatchHolds
<1>4. Fresh(r) /\ n = req[r].prefill /\ n \in Nat
  <2>1. Fresh(r)
    BY <1>3 DEF IInv, RequestsInv
  <2> QED BY <1>3, <2>1, CoreHolds, RequestFields DEF Fresh, NextNumTokens
<1>5. k \in Nat /\ ExactFor(n, k)
  BY <1>4, CeilDivNat, CeilDivExact, ReplicaAssumption
<1>6. Allocate(r, k) /\ FreeBlocks - k >= WatermarkBlocks
  BY <1>1, <1>3 DEF AllocateRequest, CanAllocateRequest
<1> HIDE DEF n, k
<1>7. /\ Core'
      /\ PlacesOK(request_queue', preempted_requests, batch', running_batches',
                  DOMAIN allocation_map', Live')
      /\ num_allocated_blocks' = num_allocated_blocks + k
      /\ Range(request_queue') \subseteq Range(request_queue) /\ r \notin Range(request_queue')
      /\ Ids(batch') = Ids(batch) \cup {r}
      /\ Range(batch') = Range(batch) \cup {[id |-> r, tokens |-> n]}
      /\ allocation_map'[r] = k
      /\ \A x \in DOMAIN allocation_map : allocation_map'[x] = allocation_map[x]
  BY <1>1, <1>4, <1>5, <1>6, CoreHolds, AdmitMove
<1>8. num_allocated_blocks' <= NumBlocks
  <2>1. WatermarkBlocks \in Nat
    BY BlockAssumption, ReplicaAssumption
  <2> QED BY <1>5, <1>6, <1>7, <2>1, CoreHolds DEF FreeBlocks
<1> QED BY <1>1, <1>3, <1>4, <1>5, <1>7, <1>8 DEF CommonNext

(* A preempted request is resumed with the blocks of its context. *)
LEMMA Resumes ==
    ASSUME IInv, Resume, NEW r, r = Head(preempted_requests)
    PROVE  /\ CommonNext
           /\ r \in Requests /\ r \in DOMAIN allocation_map /\ MidDecode(r)
           /\ r \notin Ids(batch) /\ r \notin RunningIds
           /\ Range(preempted_requests) = Range(preempted_requests') \cup {r}
           /\ r \notin Range(preempted_requests')
           /\ Ids(batch') = Ids(batch) \cup {r}
           /\ Range(batch') = Range(batch) \cup {[id |-> r, tokens |-> 1]}
           /\ ExactFor(req[r].processed, allocation_map'[r])
           /\ \A x \in DOMAIN allocation_map \ {r} : allocation_map'[x] = allocation_map[x]
<1> DEFINE n == NextNumTokens(r)
           k == IF NumTokensRequired(r) = 0 THEN 0 ELSE 1
           covered == allocation_map[r] * BlockSize
<1>1. /\ pc = "resume" /\ preempted_requests # <<>>
      /\ AllocateRequest(r) /\ CanAllocateRequest(r)
      /\ batch' = Append(batch, [id |-> r, tokens |-> n])
      /\ preempted_requests' = Tail(preempted_requests)
      /\ UNCHANGED <<asked, req, num_arrived, request_queue, pipeline, schedule_events, pc>>
  BY DEF Resume, MayResume
<1>2. /\ r \in Range(preempted_requests)
      /\ preempted_requests' \in Seq(Requests) /\ IsInjective(preempted_requests')
      /\ Range(preempted_requests) = Range(preempted_requests') \cup {r}
      /\ r \notin Range(preempted_requests')
  BY <1>1, CoreHolds, TailRange DEF Conserved
<1>3. r \in DOMAIN allocation_map /\ r \in Requests /\ allocation_map[r] \in Nat
  BY <1>2, CoreHolds, BatchHolds DEF ReplicaTypes
<1>4. MidDecode(r)
  BY <1>2 DEF IInv, RequestsInv
<1>5. n = 1 /\ req[r].processed \in Nat \ {0}
  <2>1. req[r].prefill \in Nat /\ req[r].processed \in Nat
    BY <1>3, CoreHolds, RequestFields
  <2> QED BY <1>4, <2>1 DEF MidDecode, NextNumTokens
<1>6. covered \in Nat
  BY <1>3, ReplicaAssumption
<1>7. /\ k \in Nat /\ k <= 1
      /\ Allocate(r, k) \/ (k = 0 /\ UNCHANGED memory)
      /\ ExactFor(req[r].processed, allocation_map[r] + k)
  <2>1. ExactFor(req[r].processed - 1, allocation_map[r])
    BY <1>4 DEF MidDecode
  <2>2. CASE NumTokensRequired(r) = 0
    <3>1. req[r].processed <= covered
      BY <1>5, <1>6, <2>2 DEF NumTokensRequired
    <3>2. ExactFor(req[r].processed, allocation_map[r])
      BY <1>3, <1>5, <2>1, <3>1, OneMoreBlock
    <3>3. allocation_map[r] + k = allocation_map[r] /\ k = 0
      BY <1>3, <2>2
    <3> QED BY <1>1, <1>3, <2>2, <3>2, <3>3 DEF AllocateRequest
  <2>3. CASE NumTokensRequired(r) # 0
    <3>1. req[r].processed > covered
      BY <1>5, <1>6, <2>3 DEF NumTokensRequired
    <3>2. ExactFor(req[r].processed, allocation_map[r] + 1)
      BY <1>3, <1>5, <2>1, <3>1, OneMoreBlock
    <3> QED BY <1>1, <1>3, <2>3, <3>2 DEF AllocateRequest
  <2> QED BY <2>2, <2>3
<1> HIDE DEF n, k, covered
<1>8. /\ Core'
      /\ PlacesOK(request_queue', preempted_requests', batch', running_batches',
                  DOMAIN allocation_map', Live')
      /\ num_allocated_blocks' = num_allocated_blocks + k
      /\ r \notin Ids(batch) /\ r \notin RunningIds
      /\ Ids(batch') = Ids(batch) \cup {r}
      /\ Range(batch') = Range(batch) \cup {[id |-> r, tokens |-> n]}
      /\ allocation_map'[r] = allocation_map[r] + k
      /\ \A x \in DOMAIN allocation_map \ {r} : allocation_map'[x] = allocation_map[x]
  <2>1. pc \notin {"idle", "end"} /\ n \in Nat
    BY <1>1, <1>5
  <2>2. Core /\ Conserved(preempted_requests)
    BY CoreHolds
  <2>3. k \in Nat /\ (Allocate(r, k) \/ (k = 0 /\ UNCHANGED memory))
    BY <1>7
  <2>4. /\ batch' = Append(batch, [id |-> r, tokens |-> n])
        /\ UNCHANGED <<asked, req, num_arrived, request_queue, pipeline, schedule_events, pc>>
    BY <1>1
  <2> QED BY <1>2, <2>1, <2>2, <2>3, <2>4, ResumeMove
<1>9. num_allocated_blocks' <= NumBlocks
  <2>1. FreeBlocks >= 1
    BY <1>1, <1>3 DEF CanAllocateRequest
  <2> QED BY <1>7, <1>8, <2>1, CoreHolds DEF FreeBlocks
<1> QED BY <1>2, <1>3, <1>4, <1>5, <1>7, <1>8, <1>9 DEF CommonNext

(* The last preempted request goes back to the head of the queue. *)
LEMMA Evicts ==
    ASSUME IInv, Evict, NEW r, r = Last(preempted_requests)
    PROVE  /\ CommonNext
           /\ r \in Requests /\ r \in DOMAIN allocation_map /\ MidDecode(r)
           /\ r \notin Ids(batch) /\ r \notin RunningIds
           /\ Range(preempted_requests) = Range(preempted_requests') \cup {r}
           /\ r \notin Range(preempted_requests')
           /\ Range(request_queue') = Range(request_queue) \cup {r}
           /\ req'[r] = Restart(req[r])
           /\ \A x \in Requests \ {r} : req'[x] = req[x]
           /\ \A x \in DOMAIN allocation_map \ {r} : allocation_map'[x] = allocation_map[x]
<1>1. /\ pc = "resume" /\ preempted_requests # <<>> /\ Free(r)
      /\ req' = [req EXCEPT ![r] = Restart(@)]
      /\ request_queue' = <<r>> \o request_queue
      /\ preempted_requests' = Front(preempted_requests)
      /\ UNCHANGED <<asked, num_arrived, pipeline, schedule_events, pc, batch>>
  BY DEF Evict, MayResume
<1>2. /\ r \in Range(preempted_requests)
      /\ preempted_requests' \in Seq(Requests) /\ IsInjective(preempted_requests')
      /\ Range(preempted_requests) = Range(preempted_requests') \cup {r}
      /\ r \notin Range(preempted_requests')
  BY <1>1, CoreHolds, FrontRange DEF Conserved
<1>3. /\ Core'
      /\ PlacesOK(request_queue', preempted_requests', batch', running_batches',
                  DOMAIN allocation_map', Live')
      /\ num_allocated_blocks' <= num_allocated_blocks
      /\ r \in Requests /\ r \in DOMAIN allocation_map
      /\ r \notin Ids(batch) /\ r \notin RunningIds
      /\ Range(request_queue') = Range(request_queue) \cup {r}
      /\ req'[r] = Restart(req[r])
      /\ \A x \in Requests \ {r} : req'[x] = req[x]
      /\ \A x \in DOMAIN allocation_map \ {r} : allocation_map'[x] = allocation_map[x]
  <2>1. pc \notin {"idle", "end"}
    BY <1>1
  <2>2. Core /\ Conserved(preempted_requests)
    BY CoreHolds
  <2>3. /\ Evicted(r)
        /\ UNCHANGED <<asked, num_arrived, pipeline, schedule_events, pc, batch>>
    BY <1>1 DEF Evicted
  <2> QED BY <1>2, <2>1, <2>2, <2>3, EvictMove
<1>4. num_allocated_blocks' <= NumBlocks
  <2>1. num_allocated_blocks' \in Int
    BY <1>3 DEF Core, ReplicaTypes
  <2> QED BY <1>3, <2>1, CoreHolds
<1>5. MidDecode(r)
  BY <1>2 DEF IInv, RequestsInv
<1> QED BY <1>2, <1>3, <1>4, <1>5 DEF CommonNext

(* A request whose batch ends is done, or preempted. *)
LEMMA Ends ==
    ASSUME IInv, EndRequest, NEW r, NEW n, r = Head(batch).id, n = Head(batch).tokens
    PROVE  /\ CommonNext
           /\ r \in Requests /\ n \in Nat /\ InBatch(r, n) /\ ~req[r].completed
           /\ r \notin Range(request_queue) /\ r \notin Range(preempted_requests)
           /\ r \notin Ids(batch') /\ r \notin RunningIds'
           /\ Ids(batch) = Ids(batch') \cup {r} /\ Range(batch') \subseteq Range(batch)
           /\ req'[r] = OnBatchEnd(req[r], n)
           /\ \A x \in Requests \ {r} : req'[x] = req[x]
           /\ \A x \in DOMAIN allocation_map \ {r} : allocation_map'[x] = allocation_map[x]
           /\ req'[r].completed => preempted_requests' = preempted_requests
           /\ ~req'[r].completed =>
                /\ Range(preempted_requests') = Range(preempted_requests) \cup {r}
                /\ allocation_map' = allocation_map
<1>1. /\ Core' /\ num_allocated_blocks' <= num_allocated_blocks
      /\ Head(batch) \in Range(batch) /\ Range(batch') \subseteq Range(batch)
      /\ r \in Requests /\ n \in Nat /\ ~req[r].completed
      /\ r \notin Range(preempted_requests) /\ r \notin Ids(batch') /\ r \notin RunningIds'
      /\ r \notin Range(request_queue)
      /\ Ids(batch) = Ids(batch') \cup {r}
      /\ req'[r] = OnBatchEnd(req[r], n)
      /\ \A x \in Requests \ {r} : req'[x] = req[x]
      /\ \A x \in DOMAIN allocation_map \ {r} : allocation_map'[x] = allocation_map[x]
      /\ req'[r].completed =>
            /\ preempted_requests' = preempted_requests
            /\ PlacesOK(request_queue', preempted_requests, batch', running_batches',
                        DOMAIN allocation_map', Live')
      /\ ~req'[r].completed =>
            /\ preempted_requests' = Append(preempted_requests, r)
            /\ allocation_map' = allocation_map
            /\ \A p2 : IsInjective(p2) /\ Range(p2) = Range(preempted_requests) \cup {r} =>
                    PlacesOK(request_queue', p2, batch', running_batches',
                             DOMAIN allocation_map', Live')
  BY CoreHolds, EndRequestMove
<1>2. ~req'[r].completed =>
            /\ IsInjective(preempted_requests')
            /\ Range(preempted_requests') = Range(preempted_requests) \cup {r}
  <2>1. preempted_requests \in Seq(Requests) /\ IsInjective(preempted_requests)
    BY CoreHolds DEF Conserved
  <2>2. r \in Requests /\ r \notin Range(preempted_requests)
    BY <1>1
  <2>3. /\ IsInjective(Append(preempted_requests, r))
        /\ Range(Append(preempted_requests, r)) = Range(preempted_requests) \cup {r}
    BY <2>1, <2>2, AppendRange
  <2>4. ~req'[r].completed => preempted_requests' = Append(preempted_requests, r)
    BY <1>1
  <2> QED BY <2>3, <2>4
<1>3. PlacesOK(request_queue', preempted_requests', batch', running_batches',
               DOMAIN allocation_map', Live')
  BY <1>1, <1>2
<1>4. num_allocated_blocks' <= NumBlocks
  <2>1. num_allocated_blocks' \in Int
    BY <1>1 DEF Core, ReplicaTypes
  <2> QED BY <1>1, <2>1, CoreHolds
<1>5. InBatch(r, n)
  BY <1>1 DEF IInv, RequestsInv
<1> QED BY <1>1, <1>2, <1>3, <1>4, <1>5 DEF CommonNext

(* A batch is returned, as it is or after the second loop. *)
LEMMA Returns ==
    ASSUME IInv, pc \in {"form", "resume"}, ReturnBatch,
           UNCHANGED <<asked, req, num_arrived, request_queue, preempted_requests, memory,
                       schedule_events>>
    PROVE  /\ CommonNext /\ pc' \in {"idle", "form"} /\ batch' = <<>>
           /\ RunningIds' \cup Ids(batch') = RunningIds \cup Ids(batch)
           /\ \A k \in DOMAIN running_batches' :
                \/ k \in DOMAIN running_batches /\ running_batches'[k] = running_batches[k]
                \/ running_batches'[k] = batch
<1>1. pc \notin {"idle", "end"} /\ preempted_requests' \in Seq(Requests)
  BY CoreHolds
<1>2. /\ Core'
      /\ PlacesOK(request_queue', preempted_requests, batch', running_batches',
                  DOMAIN allocation_map', Live')
      /\ pc' \in {"idle", "form"} /\ batch' = <<>>
      /\ RunningIds' \cup Ids(batch') = RunningIds \cup Ids(batch)
      /\ \A k \in DOMAIN running_batches' :
            \/ k \in DOMAIN running_batches /\ running_batches'[k] = running_batches[k]
            \/ running_batches'[k] = batch
  BY <1>1, CoreHolds, ReturnMove
<1> QED BY <1>2, CoreHolds DEF CommonNext, memory

(* The preempted requests are sorted for the second loop. *)
LEMMA Sorts ==
    ASSUME IInv, AdmitDone, ~(ReturnBatch /\ UNCHANGED preempted_requests)
    PROVE  /\ CommonNext /\ pc' = "resume" /\ batch = <<>>
           /\ IsStableSort(preempted_requests, preempted_requests')
           /\ Range(preempted_requests') = Range(preempted_requests)
           /\ UNCHANGED <<asked, req, num_arrived, request_queue, memory, pipeline,
                          schedule_events, batch>>
<1>1. /\ pc = "form" /\ pc' = "resume" /\ batch = <<>>
      /\ IsStableSort(preempted_requests, preempted_requests')
      /\ UNCHANGED <<asked, req, num_arrived, request_queue, memory, pipeline,
                     schedule_events, batch>>
  BY DEF AdmitDone
<1>2. PICK p \in [DOMAIN preempted_requests -> DOMAIN preempted_requests] :
            /\ IsInjective(p)
            /\ preempted_requests' =
                    [i \in DOMAIN preempted_requests |-> preempted_requests[p[i]]]
  BY <1>1 DEF IsStableSort
<1>3. /\ preempted_requests' \in Seq(Requests) /\ IsInjective(preempted_requests')
      /\ Range(preempted_requests') = Range(preempted_requests)
  <2>1. preempted_requests \in Seq(Requests) /\ IsInjective(preempted_requests)
    BY CoreHolds DEF Conserved
  <2> QED BY <1>2, <2>1, PermutationRange
<1>4. /\ Core'
      /\ PlacesOK(request_queue', preempted_requests', batch', running_batches',
                  DOMAIN allocation_map', Live')
  <2>1. pc \notin {"idle", "end"} /\ pc' # "idle"
    BY <1>1
  <2> QED BY <1>1, <1>3, <2>1, CoreHolds, ShuffleMove
<1> QED BY <1>1, <1>3, <1>4, CoreHolds DEF CommonNext, memory

(* The common part of the invariant is kept by every step. *)
LEMMA CommonStep ==
    ASSUME IInv, [Next]_vars
    PROVE  TypeOK' /\ PipelineCount' /\ NotArrived' /\ NothingLost' /\ MemoryAccounting'
           /\ WithinCap'
<1> SUFFICES CommonNext /\ pc' \in {"idle", "form", "resume", "end"}
  BY CommonParts
<1>1. CASE AddRequests
  BY <1>1, CoreHolds, ArrivalMove DEF CommonNext, AddRequests, memory, IInv, TypeOK
<1>2. CASE OnSchedule \/ BatchEnded
  <2>1. pc' \in {"idle", "form"} /\ UNCHANGED <<preempted_requests, memory>>
    BY <1>2 DEF OnSchedule, BatchEnded, NextLoop
  <2> QED BY <1>2, <2>1, CoreHolds, EventMove DEF CommonNext, memory
<1>3. CASE Admit
  BY <1>3, Admits DEF Admit
<1>4. CASE AdmitDone
  <2>1. CASE ReturnBatch /\ UNCHANGED preempted_requests
    BY <1>4, <2>1, Returns DEF AdmitDone
  <2>2. CASE ~(ReturnBatch /\ UNCHANGED preempted_requests)
    BY <1>4, <2>2, Sorts
  <2> QED BY <2>1, <2>2
<1>5. CASE Resume
  BY <1>5, Resumes DEF Resume, MayResume
<1>6. CASE Evict
  BY <1>6, Evicts DEF Evict, MayResume
<1>7. CASE ResumeDone
  BY <1>7, Returns DEF ResumeDone
<1>8. CASE BatchEnd
  <2>1. pc' = "end" /\ UNCHANGED <<preempted_requests, memory>>
    BY <1>8 DEF BatchEnd
  <2> QED BY <1>8, <2>1, CoreHolds, BatchEndMove DEF CommonNext, memory
<1>9. CASE EndRequest
  BY <1>9, Ends DEF EndRequest
<1>10. CASE UNCHANGED vars
  <2>1. UNCHANGED <<asked, req, num_arrived, request_queue, preempted_requests, allocation_map,
                    num_allocated_blocks, num_running_batches, running_batches,
                    schedule_events, pc, batch>>
    BY <1>10 DEF vars, memory, pipeline
  <2>2. Core'
    BY <2>1, CoreHolds DEF Core, ReplicaTypes, PipelineCount, NotArrived, Arrived,
                           HeldBlocks, WithinCap
  <2>3. Live' = Live
    BY <2>1 DEF Live, Arrived
  <2> QED BY <2>1, <2>2, <2>3, CoreHolds
          DEF CommonNext, PlacesOK, Conserved, RunningIds, IInv, TypeOK
<1> QED BY <1>1, <1>2, <1>3, <1>4, <1>5, <1>6, <1>7, <1>8, <1>9, <1>10 DEF Next

-----------------------------------------------------------------------------
(* Token counters. *)

(* What a request was asked for is never changed. *)
LEMMA AskedStays == [Next]_vars => asked' = asked
BY DEF Next, AddRequests, OnSchedule, Admit, AdmitDone, Resume, Evict, ResumeDone,
       BatchEnd, EndRequest, BatchEnded, vars

(* The part of RequestsInv about a single request. *)
CountersOK(r) ==
    /\ TotalTokens(req[r]) = TotalTokens(asked[r])
    /\ asked[r].prefill <= req[r].prefill
    /\ req[r].completed => /\ req[r].prefill_complete
                           /\ req[r].processed = TotalTokens(req[r])

(* A step that touches one request, or none when r is not one, leaves all   *)
(* the others consistent with the place they are in.                        *)
LEMMA RequestsFrame ==
    ASSUME IInv, [Next]_vars, NEW r,
           \A x \in Requests \ {r} : req'[x] = req[x],
           \A x \in DOMAIN allocation_map \ {r} : allocation_map'[x] = allocation_map[x]
    PROVE  /\ \A x \in Requests \ {r} : CountersOK(x)'
           /\ \A x \in Range(request_queue) \ {r} : Fresh(x)'
           /\ \A x \in Range(preempted_requests) \ {r} : MidDecode(x)'
           /\ \A e \in Range(batch) : e.id # r => InBatch(e.id, e.tokens)'
           /\ \A k \in DOMAIN running_batches : \A e \in Range(running_batches[k]) :
                e.id # r => InBatch(e.id, e.tokens)'
<1>1. asked' = asked /\ RequestsInv
  BY AskedStays DEF IInv
<1>2. \A x \in Requests \ {r} :
            /\ Fresh(x) => Fresh(x)'
            /\ x \in DOMAIN allocation_map /\ MidDecode(x) => MidDecode(x)'
            /\ \A n : x \in DOMAIN allocation_map /\ InBatch(x, n) => InBatch(x, n)'
  BY <1>1 DEF Fresh, MidDecode, InBatch
<1>3. /\ \A x \in Ids(batch) \cup RunningIds \cup Range(preempted_requests) :
            x \in DOMAIN allocation_map /\ x \in Requests
      /\ \A x \in Range(request_queue) : x \in Requests
  BY CoreHolds, BatchHolds
<1>4. \A x \in Requests \ {r} : CountersOK(x)'
  BY <1>1 DEF RequestsInv, CountersOK
<1>5. \A e \in Range(batch) : e.id # r => InBatch(e.id, e.tokens)'
  BY <1>1, <1>2, <1>3, EntryIds DEF RequestsInv
<1>6. \A k \in DOMAIN running_batches : \A e \in Range(running_batches[k]) :
            e.id # r => InBatch(e.id, e.tokens)'
  BY <1>1, <1>2, <1>3, EntryIds DEF RequestsInv
<1>7. /\ \A x \in Range(request_queue) \ {r} : Fresh(x)'
      /\ \A x \in Range(preempted_requests) \ {r} : MidDecode(x)'
  BY <1>1, <1>2, <1>3 DEF RequestsInv
<1> QED BY <1>4, <1>5, <1>6, <1>7

(* The counters are consistent when requests are made. *)
LEMMA RequestsInit == Init => RequestsInv
<1> SUFFICES ASSUME Init PROVE RequestsInv
  OBVIOUS
<1>1. Range(<<>>) = {} /\ DOMAIN <<>> = {}
  BY DEF Range
<1>2. /\ request_queue = <<>> /\ preempted_requests = <<>> /\ batch = <<>>
      /\ running_batches = <<>>
  BY DEF Init
<1>3. ASSUME NEW r \in Requests
      PROVE  /\ TotalTokens(req[r]) = TotalTokens(asked[r])
             /\ asked[r].prefill <= req[r].prefill
             /\ ~req[r].completed
  <2>1. asked[r].prefill \in Nat
    BY CoreInit, RequestFields DEF Core
  <2>2. req[r] = NewRequest(asked[r].prefill, asked[r].decode)
    BY DEF Init
  <2> QED BY <2>1, <2>2 DEF NewRequest, TotalTokens
<1> QED BY <1>1, <1>2, <1>3 DEF RequestsInv

(* A restarted request is fresh again and has not lost a token. *)
LEMMA RestartFresh ==
    ASSUME IInv, NEW r \in Requests, MidDecode(r), asked' = asked,
           req'[r] = Restart(req[r])
    PROVE  /\ Fresh(r)'
           /\ TotalTokens(req'[r]) = TotalTokens(asked[r])
           /\ asked[r].prefill <= req'[r].prefill
           /\ ~req'[r].completed
           /\ req'[r].prefill = req[r].processed
           /\ ~req'[r].prefill_complete
<1>1. /\ req[r].prefill \in Nat /\ req[r].decode \in Int /\ req[r].processed \in Nat
      /\ asked[r].prefill \in Nat
      /\ TotalTokens(req[r]) = req[r].prefill + req[r].decode
  BY CoreHolds, RequestFields
<1>2. /\ req'[r].prefill = req[r].processed
      /\ req'[r].decode = TotalTokens(req[r]) - req[r].processed
      /\ req'[r].processed = 0
      /\ ~req'[r].prefill_complete /\ ~req'[r].completed
  BY DEF Restart, NewRequest
<1>3. req[r].prefill < req[r].processed /\ req[r].processed < TotalTokens(req[r])
  BY DEF MidDecode
<1>4. TotalTokens(req[r]) = TotalTokens(asked[r]) /\ asked[r].prefill <= req[r].prefill
  BY DEF IInv, RequestsInv
<1>5. TotalTokens(req'[r]) = TotalTokens(req[r])
  BY <1>1, <1>2 DEF TotalTokens
<1>6. asked[r].prefill <= req'[r].prefill /\ req'[r].decode >= 1
  BY <1>1, <1>2, <1>3, <1>4
<1> QED BY <1>2, <1>4, <1>5, <1>6 DEF Fresh

(* The end of a batch for one of its requests: one more output token, and   *)
(* the request is completed or in the middle of its decode.                 *)
LEMMA EndOfBatch ==
    ASSUME IInv, NEW r \in Requests, NEW n \in Nat, InBatch(r, n), ~req[r].completed
    PROVE  LET q == OnBatchEnd(req[r], n)
           IN  /\ OnBatchEndAsserts(req[r], n)
               /\ q.prefill = req[r].prefill /\ q.decode = req[r].decode
               /\ q.prefill_complete
               /\ q.prefill < q.processed
               /\ q.processed <= TotalTokens(q)
               /\ q.completed <=> q.processed = TotalTokens(q)
               /\ q.processed =
                    (IF req[r].prefill_complete THEN req[r].processed ELSE req[r].prefill) + 1
               /\ ExactFor(q.processed - 1, allocation_map[r])
<1> DEFINE o == req[r]
           q == OnBatchEnd(o, n)
           prefilled == o.processed + n = o.prefill
<1>1. /\ o \in RequestRecord /\ o.prefill \in Nat /\ o.decode \in Int /\ o.processed \in Nat
      /\ o.prefill_complete \in BOOLEAN /\ TotalTokens(o) = o.prefill + o.decode
  BY CoreHolds, RequestFields
<1>2. /\ q.prefill = o.prefill /\ q.decode = o.decode
      /\ q.processed = o.processed + n + (IF prefilled THEN 1 ELSE 0)
      /\ q.prefill_complete = (o.prefill_complete \/ prefilled)
      /\ q.completed = (o.completed \/ q.processed = TotalTokens(o))
  BY <1>1 DEF OnBatchEnd, RequestRecord
<1>3. TotalTokens(q) = TotalTokens(o)
  BY <1>2 DEF TotalTokens
<1> HIDE DEF q
<1> DEFINE Goal == /\ OnBatchEndAsserts(o, n)
                   /\ o.prefill_complete \/ prefilled
                   /\ o.prefill < q.processed /\ q.processed <= TotalTokens(o)
                   /\ q.processed = (IF o.prefill_complete THEN o.processed ELSE o.prefill) + 1
                   /\ ExactFor(q.processed - 1, allocation_map[r])
<1>4. ASSUME Fresh(r), n = o.prefill, ExactFor(n, allocation_map[r]) PROVE Goal
  <2>1. o.processed = 0 /\ ~o.prefill_complete /\ o.decode >= 1
    BY <1>4 DEF Fresh
  <2>2. prefilled
    BY <1>1, <1>4, <2>1
  <2>3. q.processed = o.prefill + 1 /\ q.processed - 1 = n
    BY <1>1, <1>2, <1>4, <2>1, <2>2
  <2>4. o.prefill < q.processed /\ q.processed <= TotalTokens(o)
    BY <1>1, <2>1, <2>3
  <2>5. ExactFor(q.processed - 1, allocation_map[r])
    BY <1>4, <2>3
  <2>6. OnBatchEndAsserts(o, n)
    BY <1>1, <1>4, <2>1 DEF OnBatchEndAsserts
  <2> QED BY <2>1, <2>2, <2>3, <2>4, <2>5, <2>6
<1>5. ASSUME n = 1, o.prefill_complete, o.prefill < o.processed,
             o.processed < TotalTokens(o), ExactFor(o.processed, allocation_map[r])
      PROVE  Goal
  <2>1. ~prefilled
    BY <1>1, <1>5
  <2>2. q.processed = o.processed + 1 /\ q.processed - 1 = o.processed
    BY <1>1, <1>2, <1>5, <2>1
  <2>3. o.prefill < q.processed /\ q.processed <= TotalTokens(o)
    BY <1>1, <1>5, <2>2
  <2>4. ExactFor(q.processed - 1, allocation_map[r])
    BY <1>5, <2>2
  <2>5. OnBatchEndAsserts(o, n)
    BY <1>1, <1>5 DEF OnBatchEndAsserts
  <2> QED BY <1>5, <2>2, <2>3, <2>4, <2>5
<1>6. Goal
  BY <1>4, <1>5 DEF InBatch
<1>7. q.prefill_complete /\ (q.completed <=> q.processed = TotalTokens(q))
  BY <1>2, <1>3, <1>6
<1> QED BY <1>2, <1>3, <1>6, <1>7 DEF q

(* Each operation leaves the counters and blocks of every request           *)
(* consistent with the place the request is in.                             *)
LEMMA RequestsStep == IInv /\ [Next]_vars => RequestsInv'
<1> SUFFICES ASSUME IInv, [Next]_vars PROVE RequestsInv'
  OBVIOUS
<1>0. asked' = asked /\ RequestsInv /\ NotArrived
  BY AskedStays DEF IInv
<1>1. /\ \A x \in Ids(batch) \cup RunningIds \cup Range(preempted_requests) :
            x \in DOMAIN allocation_map /\ x \in Requests
      /\ \A x \in Range(request_queue) : x \in Requests /\ x \notin DOMAIN allocation_map
  BY CoreHolds, BatchHolds
<1>2. ASSUME UNCHANGED <<req, allocation_map>>
      PROVE  /\ \A x \in Requests : CountersOK(x)'
             /\ \A x \in Range(request_queue) : Fresh(x)'
             /\ \A x \in Range(preempted_requests) : MidDecode(x)'
             /\ \A e \in Range(batch) : InBatch(e.id, e.tokens)'
             /\ \A k \in DOMAIN running_batches : \A e \in Range(running_batches[k]) :
                    InBatch(e.id, e.tokens)'
  <2>1. /\ 0 \notin Requests
        /\ \A x \in Requests \ {0} : req'[x] = req[x]
        /\ \A x \in DOMAIN allocation_map \ {0} : allocation_map'[x] = allocation_map[x]
    BY <1>2 DEF Requests
  <2>2. /\ \A x \in Requests \ {0} : CountersOK(x)'
        /\ \A x \in Range(request_queue) \ {0} : Fresh(x)'
        /\ \A x \in Range(preempted_requests) \ {0} : MidDecode(x)'
        /\ \A e \in Range(batch) : e.id # 0 => InBatch(e.id, e.tokens)'
        /\ \A k \in DOMAIN running_batches : \A e \in Range(running_batches[k]) :
                e.id # 0 => InBatch(e.id, e.tokens)'
    BY <2>1, RequestsFrame
  <2> QED BY <1>1, <2>1, <2>2, EntryIds
<1>3. CASE AddRequests
  <2>1. UNCHANGED <<req, allocation_map, preempted_requests, batch, running_batches>>
    BY <1>3 DEF AddRequests, memory, pipeline
  <2>2. \A x \in Range(request_queue') : Fresh(x)'
    <3> TAKE x \in Range(request_queue')
    <3>1. CASE x \in Range(request_queue)
      BY <1>2, <2>1, <3>1
    <3>2. CASE x \in Requests \ Arrived
      <4>1. req'[x] = NewRequest(asked[x].prefill, asked[x].decode)
        BY <1>0, <2>1, <3>2 DEF NotArrived
      <4>2. asked[x].prefill \in Nat \ {0} /\ asked[x].decode \in Nat \ {0}
        BY <3>2, CoreHolds, RequestFields
      <4> QED BY <1>0, <4>1, <4>2 DEF Fresh, NewRequest
    <3> QED BY <1>3, <3>1, <3>2, CoreHolds, ArrivalMove
  <2> QED BY <1>2, <2>1, <2>2 DEF RequestsInv, CountersOK
<1>4. CASE Admit
  <2>0. PICK r : r = Head(request_queue)
    OBVIOUS
  <2> DEFINE e == [id |-> r, tokens |-> req[r].prefill]
  <2>1. UNCHANGED <<req, preempted_requests, running_batches>>
    BY <1>4 DEF Admit, pipeline
  <2>2. /\ r \in Requests /\ r \notin DOMAIN allocation_map /\ Fresh(r)
        /\ r \notin Range(request_queue')
        /\ Range(request_queue') \subseteq Range(request_queue)
        /\ Range(batch') = Range(batch) \cup {e}
        /\ ExactFor(req[r].prefill, allocation_map'[r])
        /\ \A x \in DOMAIN allocation_map : allocation_map'[x] = allocation_map[x]
    BY <2>0, <1>4, Admits
  <2>3. InBatch(r, req[r].prefill)'
    BY <1>0, <2>1, <2>2 DEF InBatch, Fresh
  <2>4. CountersOK(r)'
    BY <1>0, <2>1, <2>2 DEF RequestsInv, CountersOK
  <2>5. /\ \A x \in Requests \ {r} : CountersOK(x)'
        /\ \A x \in Range(request_queue) \ {r} : Fresh(x)'
        /\ \A x \in Range(preempted_requests) \ {r} : MidDecode(x)'
        /\ \A f \in Range(batch) : f.id # r => InBatch(f.id, f.tokens)'
        /\ \A k \in DOMAIN running_batches : \A f \in Range(running_batches[k]) :
                f.id # r => InBatch(f.id, f.tokens)'
    BY <2>1, <2>2, RequestsFrame
  <2>6. \A f \in Range(batch') : InBatch(f.id, f.tokens)'
    <3>1. e.id = r /\ e.tokens = req[r].prefill
      OBVIOUS
    <3> HIDE DEF e
    <3> QED BY <1>1, <2>1, <2>2, <2>3, <2>5, <3>1, EntryIds
  <2>7. \A k \in DOMAIN running_batches' : \A f \in Range(running_batches'[k]) :
            InBatch(f.id, f.tokens)'
    BY <1>1, <2>1, <2>2, <2>5, EntryIds
  <2>8. /\ \A x \in Range(request_queue') : Fresh(x)'
        /\ \A x \in Range(preempted_requests') : MidDecode(x)'
    BY <1>1, <2>1, <2>2, <2>5
  <2> QED BY <2>4, <2>5, <2>6, <2>7, <2>8 DEF RequestsInv, CountersOK
<1>5. CASE Resume
  <2>0. PICK r : r = Head(preempted_requests)
    OBVIOUS
  <2> DEFINE e == [id |-> r, tokens |-> 1]
  <2>1. UNCHANGED <<req, request_queue, running_batches>>
    BY <1>5 DEF Resume, pipeline
  <2>2. /\ r \in Requests /\ r \in DOMAIN allocation_map /\ MidDecode(r)
        /\ r \notin Ids(batch) /\ r \notin RunningIds
        /\ Range(preempted_requests) = Range(preempted_requests') \cup {r}
        /\ r \notin Range(preempted_requests')
        /\ Range(batch') = Range(batch) \cup {e}
        /\ ExactFor(req[r].processed, allocation_map'[r])
        /\ \A x \in DOMAIN allocation_map \ {r} : allocation_map'[x] = allocation_map[x]
    BY <2>0, <1>5, Resumes
  <2>3. InBatch(r, 1)'
    BY <2>1, <2>2 DEF InBatch, MidDecode
  <2>4. CountersOK(r)'
    BY <1>0, <2>1, <2>2 DEF RequestsInv, CountersOK
  <2>5. /\ \A x \in Requests \ {r} : CountersOK(x)'
        /\ \A x \in Range(request_queue) \ {r} : Fresh(x)'
        /\ \A x \in Range(preempted_requests) \ {r} : MidDecode(x)'
        /\ \A f \in Range(batch) : f.id # r => InBatch(f.id, f.tokens)'
        /\ \A k \in DOMAIN running_batches : \A f \in Range(running_batches[k]) :
                f.id # r => InBatch(f.id, f.tokens)'
    BY <2>1, <2>2, RequestsFrame
  <2>6. \A f \in Range(batch') : InBatch(f.id, f.tokens)'
    <3>1. e.id = r /\ e.tokens = 1
      OBVIOUS
    <3> HIDE DEF e
    <3> QED BY <2>2, <2>3, <2>5, <3>1, EntryIds
  <2>7. \A k \in DOMAIN running_batches' : \A f \in Range(running_batches'[k]) :
            InBatch(f.id, f.tokens)'
    BY <2>1, <2>2, <2>5, EntryIds
  <2>8. /\ \A x \in Range(request_queue') : Fresh(x)'
        /\ \A x \in Range(preempted_requests') : MidDecode(x)'
    BY <1>1, <2>1, <2>2, <2>5
  <2> QED BY <2>4, <2>5, <2>6, <2>7, <2>8 DEF RequestsInv, CountersOK
<1>6. CASE Evict
  <2>0. PICK r : r = Last(preempted_requests)
    OBVIOUS
  <2>1. UNCHANGED <<batch, running_batches>>
    BY <1>6 DEF Evict, pipeline
  <2>2. /\ r \in Requests /\ r \in DOMAIN allocation_map /\ MidDecode(r)
        /\ r \notin Ids(batch) /\ r \notin RunningIds
        /\ Range(preempted_requests) = Range(preempted_requests') \cup {r}
        /\ r \notin Range(preempted_requests')
        /\ Range(request_queue') = Range(request_queue) \cup {r}
        /\ req'[r] = Restart(req[r])
        /\ \A x \in Requests \ {r} : req'[x] = req[x]
        /\ \A x \in DOMAIN allocation_map \ {r} : allocation_map'[x] = allocation_map[x]
    BY <2>0, <1>6, Evicts
  <2>3. Fresh(r)' /\ CountersOK(r)'
    BY <1>0, <2>2, RestartFresh DEF CountersOK
  <2>4. /\ \A x \in Requests \ {r} : CountersOK(x)'
        /\ \A x \in Range(request_queue) \ {r} : Fresh(x)'
        /\ \A x \in Range(preempted_requests) \ {r} : MidDecode(x)'
        /\ \A f \in Range(batch) : f.id # r => InBatch(f.id, f.tokens)'
        /\ \A k \in DOMAIN running_batches : \A f \in Range(running_batches[k]) :
                f.id # r => InBatch(f.id, f.tokens)'
    BY <2>2, RequestsFrame
  <2>5. /\ \A f \in Range(batch') : InBatch(f.id, f.tokens)'
        /\ \A k \in DOMAIN running_batches' : \A f \in Range(running_batches'[k]) :
                InBatch(f.id, f.tokens)'
    BY <2>1, <2>2, <2>4, EntryIds
  <2>6. /\ \A x \in Range(request_queue') : Fresh(x)'
        /\ \A x \in Range(preempted_requests') : MidDecode(x)'
    BY <2>2, <2>3, <2>4
  <2> QED BY <2>3, <2>4, <2>5, <2>6 DEF RequestsInv, CountersOK
<1>7. CASE EndRequest
  <2>0. PICK r, n : r = Head(batch).id /\ n = Head(batch).tokens
    OBVIOUS
  <2>1. UNCHANGED <<request_queue, running_batches>>
    BY <1>7 DEF EndRequest, pipeline
  <2>2. /\ r \in Requests /\ n \in Nat /\ InBatch(r, n) /\ ~req[r].completed
        /\ r \notin Range(request_queue) /\ r \notin Range(preempted_requests)
        /\ r \notin Ids(batch') /\ r \notin RunningIds' /\ Range(batch') \subseteq Range(batch)
        /\ req'[r] = OnBatchEnd(req[r], n)
        /\ \A x \in Requests \ {r} : req'[x] = req[x]
        /\ \A x \in DOMAIN allocation_map \ {r} : allocation_map'[x] = allocation_map[x]
        /\ req'[r].completed => preempted_requests' = preempted_requests
        /\ ~req'[r].completed =>
                /\ Range(preempted_requests') = Range(preempted_requests) \cup {r}
                /\ allocation_map' = allocation_map
    BY <2>0, <1>7, Ends
  <2>3. /\ req'[r].prefill = req[r].prefill /\ req'[r].decode = req[r].decode
        /\ req'[r].prefill_complete
        /\ req'[r].prefill < req'[r].processed
        /\ req'[r].processed <= TotalTokens(req'[r])
        /\ req'[r].completed <=> req'[r].processed = TotalTokens(req'[r])
        /\ ExactFor(req'[r].processed - 1, allocation_map[r])
    BY <2>2, EndOfBatch
  <2>4. CountersOK(r)'
    BY <1>0, <2>2, <2>3 DEF RequestsInv, CountersOK, TotalTokens
  <2>5. ~req'[r].completed => MidDecode(r)'
    <3>1. req'[r].processed \in Nat /\ TotalTokens(req'[r]) \in Int
      <4>1. req'[r] \in RequestRecord
        BY <2>2, CoreHolds, RequestFields, RequestTypes
      <4> QED BY <4>1 DEF RequestRecord, TotalTokens
    <3> QED BY <2>2, <2>3, <3>1 DEF MidDecode
  <2>6. /\ \A x \in Requests \ {r} : CountersOK(x)'
        /\ \A x \in Range(request_queue) \ {r} : Fresh(x)'
        /\ \A x \in Range(preempted_requests) \ {r} : MidDecode(x)'
        /\ \A f \in Range(batch) : f.id # r => InBatch(f.id, f.tokens)'
        /\ \A k \in DOMAIN running_batches : \A f \in Range(running_batches[k]) :
                f.id # r => InBatch(f.id, f.tokens)'
    BY <2>2, RequestsFrame
  <2>7. \A f \in Range(batch') : InBatch(f.id, f.tokens)'
    <3>1. \A f \in Range(batch') : f.id \in Ids(batch')
      BY DEF Range, Ids
    <3> QED BY <2>2, <2>6, <3>1
  <2>8. \A k \in DOMAIN running_batches' : \A f \in Range(running_batches'[k]) :
            InBatch(f.id, f.tokens)'
    <3>1. r \notin RunningIds
      BY <2>1, <2>2 DEF RunningIds
    <3> QED BY <2>1, <2>6, <3>1, EntryIds
  <2>9. /\ \A x \in Range(request_queue') : Fresh(x)'
        /\ \A x \in Range(preempted_requests') : MidDecode(x)'
    BY <2>1, <2>2, <2>5, <2>6
  <2> QED BY <2>4, <2>6, <2>7, <2>8, <2>9 DEF RequestsInv, CountersOK
<1>8. ASSUME UNCHANGED <<req, request_queue, allocation_map>>,
             Range(preempted_requests') = Range(preempted_requests),
             \A e \in Range(batch') :
                \/ e \in Range(batch)
                \/ \E k \in DOMAIN running_batches : e \in Range(running_batches[k]),
             \A k \in DOMAIN running_batches' :
                \/ running_batches'[k] = batch
                \/ \E l \in DOMAIN running_batches : running_batches'[k] = running_batches[l]
      PROVE  RequestsInv'
  <2>1. \A e \in Range(batch') : InBatch(e.id, e.tokens)'
    BY <1>2, <1>8
  <2>2. \A k \in DOMAIN running_batches' : \A e \in Range(running_batches'[k]) :
            InBatch(e.id, e.tokens)'
    BY <1>2, <1>8
  <2> QED BY <1>2, <1>8, <2>1, <2>2 DEF RequestsInv, CountersOK
<1>9. CASE ReturnBatch /\ ((AdmitDone /\ UNCHANGED preempted_requests) \/ ResumeDone)
  <2>1. UNCHANGED <<req, request_queue, preempted_requests, allocation_map>>
    BY <1>9 DEF AdmitDone, ResumeDone, memory
  <2>2. /\ batch' = <<>>
        /\ \A k \in DOMAIN running_batches' :
                \/ k \in DOMAIN running_batches /\ running_batches'[k] = running_batches[k]
                \/ running_batches'[k] = batch
    BY <1>9, Returns DEF AdmitDone, ResumeDone
  <2>3. Range(batch') = {}
    BY <2>2 DEF Range
  <2> QED BY <1>8, <2>1, <2>2, <2>3
<1>10. CASE AdmitDone /\ ~(ReturnBatch /\ UNCHANGED preempted_requests)
  <2>1. /\ UNCHANGED <<req, request_queue, allocation_map, running_batches, batch>>
        /\ Range(preempted_requests') = Range(preempted_requests)
    BY <1>10, Sorts DEF memory, pipeline
  <2> QED BY <1>8, <2>1
<1>11. CASE BatchEnd
  <2>1. UNCHANGED <<req, request_queue, preempted_requests, allocation_map>>
    BY <1>11 DEF BatchEnd, memory
  <2>2. /\ \E k \in DOMAIN running_batches : batch' = running_batches[k]
        /\ \A k \in DOMAIN running_batches' :
                \E l \in DOMAIN running_batches : running_batches'[k] = running_batches[l]
    BY <1>11, CoreHolds, BatchEndMove
  <2> QED BY <1>8, <2>1, <2>2
<1>12. CASE OnSchedule \/ BatchEnded \/ UNCHANGED vars
  <2>1. UNCHANGED <<req, request_queue, preempted_requests, allocation_map,
                    running_batches, batch>>
    BY <1>12 DEF OnSchedule, BatchEnded, vars, memory, pipeline
  <2> QED BY <1>8, <2>1
<1>13. AdmitDone \/ ResumeDone =>
            \/ ReturnBatch /\ ((AdmitDone /\ UNCHANGED preempted_requests) \/ ResumeDone)
            \/ AdmitDone /\ ~(ReturnBatch /\ UNCHANGED preempted_requests)
  BY DEF ResumeDone
<1> QED BY <1>3, <1>4, <1>5, <1>6, <1>7, <1>9, <1>10, <1>11, <1>12, <1>13 DEF Next

-----------------------------------------------------------------------------
(* The order in which they are resumed. *)

(* The second loop starts on sorted requests and an empty batch, and takes  *)
(* requests from the two ends.                                              *)
LEMMA ResumeOrderStep == IInv /\ ReplicaTypes' /\ [Next]_vars => ResumeOrder'
<1> SUFFICES ASSUME IInv, ReplicaTypes', [Next]_vars, pc' = "resume"
             PROVE  /\ \A i, j \in DOMAIN preempted_requests' : i <= j =>
                            ArrivedAt[preempted_requests'[i]] <= ArrivedAt[preempted_requests'[j]]
                    /\ \A q \in Ids(batch') : \A r \in Range(preempted_requests') :
                            ArrivedAt[q] <= ArrivedAt[r]
  BY DEF ResumeOrder
<1> DEFINE s == preempted_requests
<1>0. ReplicaTypes /\ ResumeOrder
  BY CoreHolds DEF IInv
<1>1. /\ s \in Seq(Requests) /\ Len(s) \in Nat /\ DOMAIN s = 1 .. Len(s)
      /\ s' \in Seq(Requests) /\ DOMAIN s' = 1 .. Len(s')
      /\ batch \in Seq(BatchEntry)
  BY <1>0, LenProperties DEF ReplicaTypes
<1>2. \A r \in Requests : ArrivedAt[r] \in Nat
  BY ReplicaAssumption
<1>3. ASSUME pc = "resume"
      PROVE  /\ \A i, j \in DOMAIN s : i <= j => ArrivedAt[s[i]] <= ArrivedAt[s[j]]
             /\ \A q \in Ids(batch) : \A r \in Range(s) : ArrivedAt[q] <= ArrivedAt[r]
  BY <1>0, <1>3 DEF ResumeOrder
<1>4. CASE AdmitDone
  <2>1. batch = <<>> /\ batch' = <<>> /\ IsStableSort(s, s')
    BY <1>4 DEF AdmitDone, ReturnBatch, NextLoop
  <2>2. PICK p \in [DOMAIN s -> DOMAIN s] :
            /\ s' = [i \in DOMAIN s |-> s[p[i]]]
            /\ \A i, j \in DOMAIN s :
                i < j => \/ ArrivedAt[s'[i]] < ArrivedAt[s'[j]]
                         \/ ArrivedAt[s'[i]] = ArrivedAt[s'[j]] /\ p[i] < p[j]
    BY <2>1 DEF IsStableSort
  <2>3. DOMAIN s' = DOMAIN s
    BY <2>2
  <2>4. ASSUME NEW i \in DOMAIN s', NEW j \in DOMAIN s', i <= j
        PROVE  ArrivedAt[s'[i]] <= ArrivedAt[s'[j]]
    <3>1. s'[i] \in Requests /\ s'[j] \in Requests
      BY <1>1, <2>4
    <3>2. CASE i = j
      BY <1>2, <3>1, <3>2
    <3>3. CASE i < j
      BY <1>2, <2>2, <2>3, <3>1, <3>3
    <3> QED BY <1>1, <2>3, <2>4, <3>2, <3>3
  <2>5. Ids(batch') = {}
    BY <2>1 DEF Ids
  <2> QED BY <2>4, <2>5
<1>5. CASE Resume
  <2>1. /\ pc = "resume" /\ s # <<>> /\ s' = Tail(s)
        /\ batch' = Append(batch, [id |-> Head(s), tokens |-> NextNumTokens(Head(s))])
    BY <1>5 DEF Resume, MayResume
  <2>2. /\ Head(s) \in Requests /\ Head(s) = s[1] /\ 1 \in DOMAIN s
        /\ \A i \in DOMAIN s' : i + 1 \in DOMAIN s /\ s'[i] = s[i + 1] /\ 1 <= i + 1
    BY <1>1, <2>1, HeadTailProperties
  <2>3. ASSUME NEW i \in DOMAIN s', NEW j \in DOMAIN s', i <= j
        PROVE  ArrivedAt[s'[i]] <= ArrivedAt[s'[j]]
    <3>1. i + 1 <= j + 1
      BY <1>1, <2>3
    <3> QED BY <1>3, <2>1, <2>2, <3>1
  <2>4. Ids(batch') = Ids(batch) \cup {Head(s)}
    <3>1. NextNumTokens(Head(s)) \in Nat
      BY <1>0, <2>2 DEF ReplicaTypes, RequestRecord, NextNumTokens
    <3> QED BY <1>1, <2>1, <2>2, <3>1, BatchAppend
  <2>5. ASSUME NEW r \in Range(s') PROVE r \in Range(s) /\ ArrivedAt[Head(s)] <= ArrivedAt[r]
    <3>1. PICK i \in DOMAIN s' : r = s'[i]
      BY DEF Range
    <3> QED BY <1>3, <2>1, <2>2, <3>1 DEF Range
  <2> QED BY <1>3, <2>1, <2>3, <2>4, <2>5
<1>6. CASE Evict
  <2>1. pc = "resume" /\ s # <<>> /\ s' = Front(s) /\ batch' = batch
    BY <1>6 DEF Evict, MayResume
  <2>2. \A i \in DOMAIN s' : i \in DOMAIN s /\ s'[i] = s[i]
    <3>1. Len(s) # 0
      BY <1>1, <2>1, EmptySeq
    <3> QED BY <1>1, <2>1, <3>1 DEF Front
  <2>3. Range(s') \subseteq Range(s)
    BY <2>2 DEF Range
  <2> QED BY <1>3, <2>1, <2>2, <2>3
<1>7. CASE UNCHANGED <<pc, s, batch>>
  BY <1>3, <1>7
<1>8. ~(OnSchedule \/ Admit \/ ResumeDone \/ BatchEnd \/ EndRequest \/ BatchEnded)
  BY DEF OnSchedule, Admit, ResumeDone, ReturnBatch, NextLoop, BatchEnd, EndRequest, BatchEnded
<1> QED BY <1>4, <1>5, <1>6, <1>7, <1>8 DEF Next, AddRequests, vars

-----------------------------------------------------------------------------
(* The theorems. *)

(* Every reachable state satisfies the inductive invariant, whatever the    *)
(* replica's pipeline, memory and watermark and whatever is asked of it.    *)
THEOREM Invariance == Spec => []IInv
<1>1. Init => IInv
  <2> SUFFICES ASSUME Init PROVE IInv
    OBVIOUS
  <2>1. preempted_requests = <<>> /\ pc = "idle"
    BY DEF Init
  <2>2. Core /\ num_allocated_blocks = 0 /\ NothingLost
    BY <2>1, CoreInit DEF NothingLost
  <2>3. TypeOK /\ PipelineCount /\ NotArrived /\ MemoryAccounting /\ WithinCap
    BY <2>1, <2>2, ReplicaAssumption DEF Core, TypeOK, MemoryAccounting
  <2>4. RequestsInv /\ ResumeOrder
    BY <2>1, RequestsInit DEF ResumeOrder
  <2> QED BY <2>2, <2>3, <2>4 DEF IInv
<1>2. IInv /\ [Next]_vars => IInv'
  <2> SUFFICES ASSUME IInv, [Next]_vars PROVE IInv'
    OBVIOUS
  <2>1. TypeOK' /\ PipelineCount' /\ NotArrived' /\ NothingLost' /\ MemoryAccounting'
        /\ WithinCap'
    BY CommonStep
  <2>2. RequestsInv' /\ ResumeOrder'
    BY <2>1, RequestsStep, ResumeOrderStep DEF TypeOK
  <2> QED BY <2>1, <2>2 DEF IInv
<1> QED BY <1>1, <1>2, PTL DEF Spec

(* Every variable of the scheduler keeps its type. *)
THEOREM TypeCorrect == Spec => []TypeOK
<1>1. IInv => TypeOK
  BY DEF IInv
<1> QED BY <1>1, Invariance, PTL

(* The block counter always counts the blocks of the allocation map and     *)
(* never exceeds the replica: no assertion of allocate or free fails.       *)
THEOREM MemoryIsAccounted == Spec => []MemoryAccounting
<1>1. IInv => MemoryAccounting
  BY DEF IInv
<1> QED BY <1>1, Invariance, PTL

(* No request is lost or duplicated on its way through the queue, the       *)
(* batches, the pipeline, preemption and eviction.                          *)
THEOREM NoRequestIsLost == Spec => []NothingLost
<1>1. IInv => NothingLost
  BY DEF IInv
<1> QED BY <1>1, Invariance, PTL

(* A request in a batch that runs or is being built is live. *)
LEMMA BatchIsLive ==
    ASSUME IInv
    PROVE  \A r \in RunningIds \cup Ids(batch) : r \in Requests /\ ~req[r].completed
BY CoreHolds, BatchHolds

(* The token counts of the batches in the pipeline are numbers. *)
LEMMA RunningEntryTypes ==
    ASSUME ReplicaTypes, NEW k \in DOMAIN running_batches, NEW e \in Range(running_batches[k])
    PROVE  e \in BatchEntry /\ e.tokens \in Nat
<1>1. running_batches[k] \in Seq(BatchEntry)
  BY DEF ReplicaTypes
<1>2. e \in BatchEntry
  BY <1>1 DEF Range
<1> QED BY <1>2 DEF BatchEntry

(* The assertions of allocation, scheduling and batch end never fail. *)
THEOREM AssertionsNeverFail == Spec => []AssertionsHold
<1>1. ASSUME IInv PROVE AssertionsHold
  <2>1. ReplicaTypes /\ NothingLost /\ RequestsInv
    BY <1>1, CoreHolds DEF IInv
  <2>2. \A r \in Range(preempted_requests) :
            r \in DOMAIN allocation_map /\ NumTokensRequired(r) <= 1 /\ req[r].prefill_complete
    <3> TAKE r \in Range(preempted_requests)
    <3>1. r \in DOMAIN allocation_map /\ r \in Requests /\ MidDecode(r)
      BY <2>1 DEF NothingLost, Conserved, RequestsInv, ReplicaTypes
    <3> DEFINE covered == allocation_map[r] * BlockSize
    <3>2. req[r].processed \in Nat /\ covered \in Int
      <4>1. allocation_map[r] \in Nat /\ BlockSize \in Nat
        BY <2>1, <3>1, ReplicaAssumption DEF ReplicaTypes
      <4> QED BY <2>1, <3>1, <4>1, RequestFields
    <3>3. req[r].processed - 1 <= covered
      BY <3>1 DEF MidDecode, ExactFor
    <3>4. NumTokensRequired(r) =
              IF req[r].processed - covered > 0 THEN req[r].processed - covered ELSE 0
      BY DEF NumTokensRequired
    <3> HIDE DEF covered
    <3>5. NumTokensRequired(r) <= 1
      BY <3>2, <3>3, <3>4
    <3> QED BY <3>1, <3>5 DEF MidDecode
  <2>3. \A r \in Range(preempted_requests) \cup Range(request_queue) : ~req[r].completed
    BY <2>1 DEF NothingLost, Conserved, Live
  <2>4. \A k \in DOMAIN running_batches : \A e \in Range(running_batches[k]) :
            OnBatchEndAsserts(req[e.id], e.tokens)
    <3> TAKE k \in DOMAIN running_batches
    <3> TAKE e \in Range(running_batches[k])
    <3>1. e.id \in Requests /\ ~req[e.id].completed
      BY <1>1, BatchIsLive, EntryIds
    <3>2. e.tokens \in Nat
      BY <2>1, RunningEntryTypes
    <3>3. InBatch(e.id, e.tokens)
      BY <2>1 DEF RequestsInv
    <3> QED BY <1>1, <3>1, <3>2, <3>3, EndOfBatch
  <2> QED BY <2>2, <2>3, <2>4 DEF AssertionsHold
<1> QED BY <1>1, Invariance, PTL

(* Each request of a running batch holds exactly the blocks its context     *)
(* needs.                                                                   *)
THEOREM BlocksAreExact == Spec => []ExactBlocks
<1>1. ASSUME IInv PROVE ExactBlocks
  <2> SUFFICES ASSUME NEW r \in Scheduled
               PROVE  ExactFor(IF req[r].prefill_complete THEN req[r].processed
                                                          ELSE req[r].prefill,
                               allocation_map[r])
    BY DEF ExactBlocks
  <2>1. PICK n : InBatch(r, n)
    BY <1>1 DEF IInv, RequestsInv, Scheduled, RunningIds, IdsIn, Ids, Range
  <2> QED BY <2>1 DEF InBatch, Fresh
<1> QED BY <1>1, Invariance, PTL

(* The output of a request stops at the length it asked for. *)
LEMMA EmittedBound == IInv => OutputBounded
<1> SUFFICES ASSUME IInv, NEW r \in Requests
             PROVE  /\ Emitted(r) <= asked[r].decode
                    /\ req[r].completed <=> Emitted(r) = asked[r].decode
  BY DEF OutputBounded
<1>1. ReplicaTypes /\ NothingLost /\ RequestsInv /\ NotArrived
  BY CoreHolds DEF IInv
<1>2. /\ asked[r].prefill \in Nat /\ asked[r].decode \in Nat \ {0}
      /\ req[r].prefill \in Nat /\ req[r].decode \in Int /\ req[r].processed \in Nat
      /\ TotalTokens(req[r]) = req[r].prefill + req[r].decode
      /\ TotalTokens(asked[r]) = asked[r].prefill + asked[r].decode
  BY <1>1, RequestFields DEF TotalTokens
<1>3. TotalTokens(req[r]) = TotalTokens(asked[r])
  BY <1>1 DEF RequestsInv
<1>4. CASE req[r].completed
  <2>1. req[r].prefill_complete /\ req[r].processed = TotalTokens(req[r])
    BY <1>1, <1>4 DEF RequestsInv
  <2> QED BY <1>2, <1>3, <1>4, <2>1 DEF Emitted
<1>5. ASSUME ~req[r].completed PROVE Emitted(r) < asked[r].decode
  <2>1. CASE r \notin Arrived
    <3>1. req[r] = NewRequest(asked[r].prefill, asked[r].decode)
      BY <1>1, <2>1 DEF NotArrived
    <3>2. /\ req[r].prefill = asked[r].prefill
          /\ ~req[r].prefill_complete
      BY <3>1 DEF NewRequest
    <3> QED BY <1>2, <3>2 DEF Emitted
  <2>2. CASE Fresh(r)
    <3>1. req[r].decode >= 1 /\ ~req[r].prefill_complete
      BY <2>2 DEF Fresh
    <3> QED BY <1>2, <1>3, <3>1 DEF Emitted
  <2>3. CASE req[r].prefill_complete /\ req[r].processed < TotalTokens(req[r])
    BY <1>2, <1>3, <2>3 DEF Emitted
  <2>4. CASE r \in Arrived
    <3>1. r \in Range(request_queue) \cup Range(preempted_requests)
                    \cup Ids(batch) \cup RunningIds
      BY <1>1, <1>5, <2>4 DEF NothingLost, Conserved, Live
    <3>2. r \in Range(request_queue) => Fresh(r)
      BY <1>1 DEF RequestsInv
    <3>3. r \in Range(preempted_requests) => MidDecode(r)
      BY <1>1 DEF RequestsInv
    <3>4. r \in Ids(batch) \cup RunningIds => \E n : InBatch(r, n)
      BY <1>1 DEF RequestsInv, RunningIds, IdsIn, Ids, Range
    <3> QED BY <2>2, <2>3, <3>1, <3>2, <3>3, <3>4 DEF InBatch, MidDecode
  <2> QED BY <2>1, <2>4
<1>6. Emitted(r) \in Int
  BY <1>2 DEF Emitted
<1> QED BY <1>2, <1>4, <1>5, <1>6

(* What a step does to the counters of a request: nothing, or it is the     *)
(* restart of one in the middle of its decode, or the end of its batch.     *)
LEMMA RequestSteps ==
    ASSUME IInv, [Next]_vars, NEW r \in Requests, req'[r] # req[r]
    PROVE  \/ MidDecode(r) /\ req'[r] = Restart(req[r])
           \/ \E n \in Nat : /\ InBatch(r, n) /\ ~req[r].completed
                             /\ req'[r] = OnBatchEnd(req[r], n)
<1>1. CASE Evict
  <2>1. PICK v : v = Last(preempted_requests)
    OBVIOUS
  <2> QED BY <1>1, <2>1, Evicts
<1>2. CASE EndRequest
  <2>1. PICK v, n : v = Head(batch).id /\ n = Head(batch).tokens
    OBVIOUS
  <2> QED BY <1>2, <2>1, Ends
<1> QED BY <1>1, <1>2 DEF Next, AddRequests, OnSchedule, Admit, AdmitDone, Resume,
                          ResumeDone, BatchEnd, BatchEnded, vars

(* The output of a request is what it was when it is not touched or is      *)
(* restarted, and one token more when its batch ends.                       *)
LEMMA EmittedSteps ==
    ASSUME IInv, asked' = asked, NEW r \in Requests
    PROVE  /\ req'[r] = req[r] => Emitted(r)' = Emitted(r)
           /\ MidDecode(r) /\ req'[r] = Restart(req[r]) => Emitted(r)' = Emitted(r)
           /\ \A n \in Nat :
                InBatch(r, n) /\ ~req[r].completed /\ req'[r] = OnBatchEnd(req[r], n)
                    => Emitted(r)' = Emitted(r) + 1
<1>1. ASSUME req'[r] = req[r] PROVE Emitted(r)' = Emitted(r)
  BY <1>1 DEF Emitted
<1>2. ASSUME MidDecode(r), req'[r] = Restart(req[r]) PROVE Emitted(r)' = Emitted(r)
  <2>1. req'[r].prefill = req[r].processed /\ ~req'[r].prefill_complete
    BY <1>2, RestartFresh
  <2>2. req[r].prefill_complete
    BY <1>2 DEF MidDecode
  <2> QED BY <2>1, <2>2 DEF Emitted
<1>3. ASSUME NEW n \in Nat, InBatch(r, n), ~req[r].completed,
             req'[r] = OnBatchEnd(req[r], n)
      PROVE  Emitted(r)' = Emitted(r) + 1
  <2>1. /\ req'[r].prefill_complete
        /\ req'[r].processed =
              (IF req[r].prefill_complete THEN req[r].processed ELSE req[r].prefill) + 1
    BY <1>3, EndOfBatch
  <2>2. /\ asked[r].prefill \in Nat /\ req[r].prefill \in Nat
        /\ req[r].processed \in Nat
    BY CoreHolds, RequestFields
  <2> QED BY <2>1, <2>2 DEF Emitted
<1> QED BY <1>1, <1>2, <1>3

(* Whatever is evicted and restarted, the output of a request only grows,   *)
(* one token at a time, to the length it asked for.                         *)
THEOREM OutputOnlyGrows == Spec => OutputGrows
<1> DEFINE Grows == \A r \in Requests :
                      /\ Emitted(r)' \in {Emitted(r), Emitted(r) + 1}
                      /\ Emitted(r)' <= asked[r].decode
                      /\ req'[r].completed <=> Emitted(r)' = asked[r].decode
<1>1. ASSUME IInv, OutputBounded', [Next]_vars PROVE Grows
  <2> SUFFICES ASSUME NEW r \in Requests
               PROVE  /\ Emitted(r)' \in {Emitted(r), Emitted(r) + 1}
                      /\ Emitted(r)' <= asked[r].decode
                      /\ req'[r].completed <=> Emitted(r)' = asked[r].decode
    OBVIOUS
  <2>1. asked' = asked
    BY <1>1, AskedStays
  <2>2. /\ Emitted(r)' <= asked[r].decode
        /\ req'[r].completed <=> Emitted(r)' = asked[r].decode
    BY <1>1, <2>1 DEF OutputBounded
  <2>3. Emitted(r)' \in {Emitted(r), Emitted(r) + 1}
    BY <1>1, <2>1, EmittedSteps, RequestSteps
  <2> QED BY <2>2, <2>3
<1>2. IInv /\ OutputBounded' /\ [Next]_vars => [Grows]_vars
  BY <1>1
<1> QED BY <1>2, EmittedBound, Invariance, PTL DEF Spec, OutputGrows

(* A request that is thrown out in one step was the last of the sorted      *)
(* preempted requests, so none of those that stay arrived after it.         *)
THEOREM EvictsTheYoungest == Spec => EvictYoungest
<1> DEFINE Youngest ==
        \A r \in Range(preempted_requests) \cap Range(request_queue') :
            \A q \in Range(preempted_requests') \cup Ids(batch') :
                ArrivedAt[q] <= ArrivedAt[r]
           s == preempted_requests
<1>1. ASSUME IInv, [Next]_vars PROVE Youngest
  <2> SUFFICES ASSUME NEW r \in Range(s), r \in Range(request_queue'),
                      NEW q \in Range(s') \cup Ids(batch')
               PROVE  ArrivedAt[q] <= ArrivedAt[r]
    OBVIOUS
  <2>1. ResumeOrder
    BY <1>1 DEF IInv
  <2>2. r \notin Range(request_queue) /\ r \in Arrived
    BY <1>1, CoreHolds, LiveFacts DEF Conserved, Live
  <2>3. s \in Seq(Requests) /\ request_queue \in Seq(Requests)
    BY <1>1, CoreHolds DEF ReplicaTypes
  <2>4. CASE Evict
    <3>1. /\ pc = "resume" /\ s # <<>> /\ s' = Front(s) /\ batch' = batch
          /\ request_queue' = <<Last(s)>> \o request_queue
      BY <2>4 DEF Evict, MayResume
    <3>2. Last(s) \in Requests /\ Len(s) \in Nat \ {0} /\ Last(s) = s[Len(s)]
      BY <2>3, <3>1, FrontRange, EmptySeq DEF Last
    <3>3. r = Last(s)
      BY <2>2, <2>3, <3>1, <3>2, PrependRange
    <3>4. CASE q \in Range(s')
      <4>1. PICK i \in DOMAIN s' : q = s'[i]
        BY <3>4 DEF Range
      <4>2. i \in DOMAIN s /\ q = s[i] /\ i <= Len(s) /\ Len(s) \in DOMAIN s
        BY <2>3, <3>1, <3>2, <4>1 DEF Front
      <4> QED BY <2>1, <3>1, <3>2, <3>3, <4>2 DEF ResumeOrder
    <3>5. CASE q \in Ids(batch')
      BY <2>1, <3>1, <3>5 DEF ResumeOrder
    <3> QED BY <3>4, <3>5
  <2>5. CASE AddRequests
    BY <1>1, <2>2, <2>5, CoreHolds, ArrivalMove
  <2>6. CASE Admit
    <3>1. request_queue # <<>> /\ request_queue' = Tail(request_queue)
      BY <2>6 DEF Admit, CanAdmit
    <3> QED BY <2>2, <2>3, <3>1, TailRange
  <2>7. CASE UNCHANGED request_queue
    BY <2>2, <2>7
  <2> QED BY <1>1, <2>4, <2>5, <2>6, <2>7
          DEF Next, OnSchedule, AdmitDone, Resume, ResumeDone, BatchEnd, EndRequest,
              BatchEnded, vars
<1>2. IInv /\ [Next]_vars => [Youngest]_vars
  BY <1>1
<1> QED BY <1>2, Invariance, PTL DEF Spec, EvictYoungest

-----------------------------------------------------------------------------
(* The refinement of TokenService. *)

(* Each step of the scheduler is one of the service or is not seen.         *)
LEMMA ServiceSteps ==
    IInv /\ Phases /\ Phases' /\ OutputBounded' /\ [Next]_vars
        => [Service!ServiceNext]_(Service!serviceVars)
<1> SUFFICES ASSUME IInv, Phases, Phases', OutputBounded', [Next]_vars
             PROVE  Service!ServiceNext \/ UNCHANGED Service!serviceVars
  OBVIOUS
<1>0. asked' = asked /\ Core /\ Conserved(preempted_requests)
  BY AskedStays, CoreHolds
<1>1. CASE AddRequests
  BY <1>0, <1>1, ServiceSubmits
<1>2. CASE Admit
  <2>0. PICK r : r = Head(request_queue)
    OBVIOUS
  <2>1. /\ Cardinality(DOMAIN allocation_map) # BatchSizeCap
        /\ UNCHANGED <<req, num_arrived, preempted_requests, running_batches>>
    BY <1>2 DEF Admit, CanAdmit, pipeline
  <2>2. r \in Range(request_queue) /\ r \in Requests /\ Ids(batch') = Ids(batch) \cup {r}
    BY <1>2, <2>0, Admits
  <2> QED BY <1>0, <2>1, <2>2, ServiceBatches
<1>3. CASE Resume
  <2>0. PICK r : r = Head(preempted_requests)
    OBVIOUS
  <2>1. UNCHANGED <<req, num_arrived, running_batches>>
    BY <1>3 DEF Resume, pipeline
  <2>2. /\ r \in Requests /\ Ids(batch') = Ids(batch) \cup {r}
        /\ Range(preempted_requests) = Range(preempted_requests') \cup {r}
    BY <1>3, <2>0, Resumes
  <2> QED BY <1>0, <2>1, <2>2, ServiceBatches
<1>4. CASE Evict
  <2>0. PICK r : r = Last(preempted_requests)
    OBVIOUS
  <2>1. UNCHANGED <<num_arrived, running_batches, batch>>
    BY <1>4 DEF Evict, pipeline
  <2>2. /\ r \in Requests /\ MidDecode(r)
        /\ Range(preempted_requests) = Range(preempted_requests') \cup {r}
        /\ Range(request_queue') = Range(request_queue) \cup {r}
        /\ req'[r] = Restart(req[r]) /\ \A q \in Requests \ {r} : req'[q] = req[q]
    BY <1>4, <2>0, Evicts
  <2>3. Emitted(r)' = Emitted(r)
    BY <1>0, <2>2, EmittedSteps
  <2> QED BY <1>0, <2>1, <2>2, <2>3, ServiceThrowsOut
<1>5. CASE EndRequest
  <2>0. PICK r, n : r = Head(batch).id /\ n = Head(batch).tokens
    OBVIOUS
  <2>1. UNCHANGED <<num_arrived, running_batches>>
    BY <1>5 DEF EndRequest, pipeline
  <2>2. /\ r \in Requests /\ n \in Nat /\ InBatch(r, n) /\ ~req[r].completed
        /\ Ids(batch) = Ids(batch') \cup {r}
        /\ req'[r] = OnBatchEnd(req[r], n)
        /\ \A q \in Requests \ {r} : req'[q] = req[q]
        /\ req'[r].completed => preempted_requests' = preempted_requests
        /\ ~req'[r].completed =>
                Range(preempted_requests') = Range(preempted_requests) \cup {r}
    BY <1>5, <2>0, Ends
  <2>3. Emitted(r)' = Emitted(r) + 1
    BY <1>0, <2>2, EmittedSteps
  <2> QED BY <1>0, <2>1, <2>2, <2>3, ServiceEmits
<1>6. CASE ReturnBatch /\ ((AdmitDone /\ UNCHANGED preempted_requests) \/ ResumeDone)
  BY <1>0, <1>6, Returns, ServiceRests DEF AdmitDone, ResumeDone
<1>7. CASE AdmitDone /\ ~(ReturnBatch /\ UNCHANGED preempted_requests)
  <2>1. /\ UNCHANGED <<req, num_arrived, running_batches, batch>>
        /\ Range(preempted_requests') = Range(preempted_requests)
    BY <1>7, Sorts DEF pipeline
  <2> QED BY <1>0, <2>1, ServiceRests DEF RunningIds
<1>8. CASE BatchEnd
  <2>1. UNCHANGED <<req, num_arrived, preempted_requests>>
    BY <1>8 DEF BatchEnd
  <2> QED BY <1>0, <1>8, <2>1, BatchEndMove, ServiceRests
<1>9. CASE OnSchedule \/ BatchEnded \/ UNCHANGED vars
  <2>1. UNCHANGED <<req, num_arrived, preempted_requests, running_batches, batch>>
    BY <1>9 DEF OnSchedule, BatchEnded, vars, pipeline
  <2>2. RunningIds' = RunningIds
    BY <2>1 DEF RunningIds
  <2> QED BY <1>0, <2>1, <2>2, ServiceRests
<1>10. AdmitDone \/ ResumeDone =>
            \/ ReturnBatch /\ ((AdmitDone /\ UNCHANGED preempted_requests) \/ ResumeDone)
            \/ AdmitDone /\ ~(ReturnBatch /\ UNCHANGED preempted_requests)
  BY DEF ResumeDone
<1> QED BY <1>1, <1>2, <1>3, <1>4, <1>5, <1>6, <1>7, <1>8, <1>9, <1>10 DEF Next

(* The scheduler implements the service, whatever its memory and its        *)
(* pipeline: batches, blocks and restarts are hidden, no output token is    *)
(* lost or produced twice, and no more requests than BatchSizeCap are       *)
(* admitted at a time.                                                      *)
THEOREM ImplementsTheService == Spec => Service!ServiceSafety
<1>1. IInv /\ Phases /\ Phases' /\ OutputBounded' /\ [Next]_vars
        => [Service!ServiceNext]_(Service!serviceVars)
  BY ServiceSteps
<1>2. IInv => Phases
  BY CoreHolds, PhaseMeaning
<1> QED BY <1>1, <1>2, ServiceStarts, EmittedBound, Invariance, PTL
        DEF Spec, Service!ServiceSafety
=============================================================================
