--------------------- MODULE LightLLMScheduler_proofs ---------------------
(***************************************************************************)
(* Proofs about LightLLMScheduler, for every number of requests, tokens    *)
(* and waiting iterations: nothing is lost, memory follows its context,    *)
(* and the look-ahead of the prefill keeps every later decode within the   *)
(* memory of the replica.                                                  *)
(***************************************************************************)
EXTENDS LightLLMScheduler, ReplicaLemmas

-----------------------------------------------------------------------------
(* The common part of the invariant. *)

(* The inductive invariant has all that the moves of ReplicaLemmas need. *)
LEMMA CoreHolds ==
    ASSUME LightInv
    PROVE  /\ Core /\ ReplicaTypes /\ Conserved(preempted_requests)
           /\ preempted_requests \in Seq(Requests) /\ batch \in Seq(BatchEntry)
           /\ num_allocated_blocks \in Int /\ NumBlocks \in Nat
BY ReplicaAssumption DEF LightInv, TypeOK, Core, NothingLost, ReplicaTypes

(* What the first part of the invariant says of the next state. *)
CommonNext ==
    /\ Core'
    /\ PlacesOK(request_queue', preempted_requests', batch', running_batches',
                DOMAIN allocation_map', Live')

(* Those parts of it that a move of ReplicaLemmas gives. *)
LEMMA CommonParts ==
    ASSUME CommonNext, pc' \in {"idle", "form", "prefill", "decode", "end"},
           num_waiting_iters' \in 0 .. Max({1, MaxWaitingIters})
    PROVE  /\ TypeOK' /\ PipelineCount' /\ NotArrived' /\ NothingLost' /\ WithinCap'
           /\ (num_allocated_blocks = Cardinality(HeldBlocks))'
BY DEF CommonNext, Core, TypeOK, PlacesOK, NothingLost, Conserved, RunningIds

(* While a batch is formed the one stage is free. *)
LEMMA NoneRuns ==
    ASSUME LightInv, pc \in {"form", "prefill", "decode"}
    PROVE  /\ running_batches = <<>> /\ RunningIds = {}
           /\ DOMAIN allocation_map = Range(preempted_requests) \cup Ids(batch)
<1>1. /\ running_batches \in Seq(Seq(BatchEntry))
      /\ num_running_batches = Len(running_batches) /\ num_running_batches < 1
  BY LightLLMAssumption, CoreHolds DEF ReplicaTypes, LightInv, PipelineCount
<1>2. Len(running_batches) = 0
  BY <1>1, LenProperties
<1>3. running_batches = <<>>
  BY <1>1, <1>2, EmptySeq
<1>4. RunningIds = {}
  BY <1>3 DEF RunningIds, IdsIn
<1> QED BY <1>3, <1>4 DEF LightInv, NothingLost, Conserved

(* The head of the queue is given the memory of its prompt. *)
LEMMA Admits ==
    ASSUME LightInv, Admit, NEW r, r = Head(request_queue)
    PROVE  /\ CommonNext
           /\ r \in Requests /\ Fresh(r)
           /\ r \in Range(request_queue) /\ r \notin DOMAIN allocation_map
           /\ r \notin Range(request_queue')
           /\ Range(request_queue') \subseteq Range(request_queue)
           /\ Ids(batch') = Ids(batch) \cup {r}
           /\ Range(batch') = Range(batch) \cup {[id |-> r, tokens |-> req[r].prefill]}
           /\ allocation_map'[r] = req[r].prefill
           /\ DOMAIN allocation_map' = DOMAIN allocation_map \cup {r}
           /\ \A x \in DOMAIN allocation_map : allocation_map'[x] = allocation_map[x]
<1> DEFINE k == req[r].prefill
<1>1. /\ pc = "prefill" /\ request_queue # <<>>
      /\ Cardinality(DOMAIN allocation_map) # BatchSizeCap
      /\ Allocate(r, k)
      /\ batch' = Append(batch, [id |-> r, tokens |-> NextNumTokens(r)])
      /\ request_queue' = Tail(request_queue)
      /\ UNCHANGED <<asked, req, num_arrived, preempted_requests, pipeline,
                     schedule_events, pc>>
  BY DEF Admit, CanAdmit, InBatchNow
<1>2. Core /\ Conserved(preempted_requests) /\ ReplicaTypes
  BY CoreHolds
<1>3. r \in Range(request_queue) /\ r \in Requests
  BY <1>1, <1>2, TailRange DEF ReplicaTypes, Range
<1>4. Fresh(r)
  BY <1>3 DEF LightInv, RequestsInv
<1>5. k \in Nat /\ NextNumTokens(r) = k
  BY <1>2, <1>3, <1>4, RequestFields DEF NextNumTokens, Fresh
<1>6. batch' = Append(batch, [id |-> r, tokens |-> k]) /\ pc \notin {"idle", "end"}
  BY <1>1, <1>5
<1> HIDE DEF k
<1>7. /\ Core'
      /\ PlacesOK(request_queue', preempted_requests, batch', running_batches',
                  DOMAIN allocation_map', Live')
      /\ r \notin DOMAIN allocation_map
      /\ r \notin Range(request_queue')
      /\ Range(request_queue') \subseteq Range(request_queue)
      /\ Ids(batch') = Ids(batch) \cup {r}
      /\ Range(batch') = Range(batch) \cup {[id |-> r, tokens |-> k]}
      /\ allocation_map'[r] = k
      /\ \A x \in DOMAIN allocation_map : allocation_map'[x] = allocation_map[x]
  BY <1>1, <1>2, <1>5, <1>6, AdmitMove
<1>8. DOMAIN allocation_map' = DOMAIN allocation_map \cup {r}
  BY <1>1 DEF Allocate
<1> QED BY <1>1, <1>3, <1>4, <1>7, <1>8 DEF CommonNext, k

(* A paused request decodes with one more token of memory. *)
LEMMA Decodes ==
    ASSUME LightInv, Decode, NEW r, r = Head(preempted_requests)
    PROVE  /\ CommonNext
           /\ r \in Requests /\ ExactTokens(r)
           /\ r \in Range(preempted_requests) /\ r \in DOMAIN allocation_map
           /\ r \notin Range(preempted_requests') /\ r \notin Ids(batch)
           /\ Range(preempted_requests) = Range(preempted_requests') \cup {r}
           /\ Ids(batch') = Ids(batch) \cup {r}
           /\ Range(batch') = Range(batch) \cup {[id |-> r, tokens |-> 1]}
           /\ allocation_map'[r] = allocation_map[r] + 1
           /\ DOMAIN allocation_map' = DOMAIN allocation_map
           /\ \A x \in DOMAIN allocation_map \ {r} : allocation_map'[x] = allocation_map[x]
<1>1. /\ pc = "decode" /\ preempted_requests # <<>>
      /\ Allocate(r, 1)
      /\ batch' = Append(batch, [id |-> r, tokens |-> NextNumTokens(r)])
      /\ preempted_requests' = Tail(preempted_requests)
      /\ UNCHANGED <<asked, req, num_arrived, request_queue, pipeline,
                     schedule_events, pc>>
  BY DEF Decode, InBatchNow
<1>2. Core /\ Conserved(preempted_requests) /\ preempted_requests \in Seq(Requests)
  BY CoreHolds
<1>3. /\ r \in Range(preempted_requests) /\ r \notin Range(preempted_requests')
      /\ preempted_requests' \in Seq(Requests) /\ IsInjective(preempted_requests')
      /\ Range(preempted_requests) = Range(preempted_requests') \cup {r}
  BY <1>1, <1>2, TailRange DEF Conserved
<1>4. ExactTokens(r)
  BY <1>3 DEF LightInv, RequestsInv
<1>5. batch' = Append(batch, [id |-> r, tokens |-> 1]) /\ pc \notin {"idle", "end"}
  BY <1>1, <1>4 DEF NextNumTokens, ExactTokens
<1>6. /\ Core'
      /\ PlacesOK(request_queue', preempted_requests', batch', running_batches',
                  DOMAIN allocation_map', Live')
      /\ r \in Requests /\ r \in DOMAIN allocation_map
      /\ r \notin Ids(batch)
      /\ Ids(batch') = Ids(batch) \cup {r}
      /\ Range(batch') = Range(batch) \cup {[id |-> r, tokens |-> 1]}
      /\ allocation_map'[r] = allocation_map[r] + 1
      /\ \A x \in DOMAIN allocation_map \ {r} : allocation_map'[x] = allocation_map[x]
  <2>1. 1 \in Nat
    OBVIOUS
  <2>2. /\ Allocate(r, 1)
        /\ UNCHANGED <<asked, req, num_arrived, request_queue, pipeline, schedule_events, pc>>
    BY <1>1
  <2> QED BY <1>2, <1>3, <1>5, <2>1, <2>2, ResumeMove
<1>7. DOMAIN allocation_map' = DOMAIN allocation_map
  BY <1>1, <1>6 DEF Allocate
<1> QED BY <1>3, <1>4, <1>6, <1>7 DEF CommonNext

(* The batch of a loop enters the pipeline, or there is none. *)
LEMMA Returns ==
    ASSUME LightInv, PrefillDone \/ DecodeDone, ReturnBatch
    PROVE  /\ CommonNext
           /\ pc' \in {"idle", "form"} /\ batch' = <<>>
           /\ UNCHANGED <<asked, req, num_arrived, request_queue, preempted_requests,
                          allocation_map, schedule_events>>
           /\ RunningIds' \cup Ids(batch') = RunningIds \cup Ids(batch)
           /\ \A k \in DOMAIN running_batches' :
                \/ k \in DOMAIN running_batches /\ running_batches'[k] = running_batches[k]
                \/ running_batches'[k] = batch
<1>1. /\ pc \notin {"idle", "end"}
      /\ UNCHANGED <<asked, req, num_arrived, request_queue, preempted_requests,
                     memory, schedule_events>>
  BY DEF PrefillDone, DecodeDone
<1>2. preempted_requests' \in Seq(Requests)
  BY <1>1, CoreHolds
<1> QED BY <1>1, <1>2, CoreHolds, ReturnMove DEF CommonNext, memory

(* A batch ends for one request. *)
LEMMA Ends ==
    ASSUME LightInv, EndRequest,
           NEW r, NEW n, r = Head(batch).id, n = Head(batch).tokens
    PROVE  /\ CommonNext
           /\ r \in Requests /\ n \in Nat /\ InBatch(r, n) /\ ~req[r].completed
           /\ r \notin Range(request_queue) /\ r \notin Range(preempted_requests)
           /\ r \notin Ids(batch') /\ r \notin RunningIds'
           /\ Ids(batch) = Ids(batch') \cup {r}
           /\ Range(batch') \subseteq Range(batch)
           /\ req'[r] = OnBatchEnd(req[r], n)
           /\ \A x \in Requests \ {r} : req'[x] = req[x]
           /\ \A x \in DOMAIN allocation_map \ {r} : allocation_map'[x] = allocation_map[x]
           /\ req'[r].completed =>
                /\ preempted_requests' = preempted_requests
                /\ DOMAIN allocation_map' = DOMAIN allocation_map \ {r}
           /\ ~req'[r].completed =>
                /\ Range(preempted_requests') = Range(preempted_requests) \cup {r}
                /\ allocation_map' = allocation_map
<1>1. /\ Core'
      /\ Head(batch) \in Range(batch) /\ Range(batch') \subseteq Range(batch)
      /\ r \in Requests /\ n \in Nat /\ ~req[r].completed
      /\ r \notin Range(preempted_requests) /\ r \notin Ids(batch') /\ r \notin RunningIds'
      /\ r \notin Range(request_queue)
      /\ Ids(batch) = Ids(batch') \cup {r}
      /\ req'[r] = OnBatchEnd(req[r], n)
      /\ \A x \in Requests \ {r} : req'[x] = req[x]
      /\ \A x \in DOMAIN allocation_map \ {r} : allocation_map'[x] = allocation_map[x]
      /\ req'[r].completed =>
            /\ preempted_requests' = preempted_requests
            /\ PlacesOK(request_queue', preempted_requests, batch', running_batches',
                        DOMAIN allocation_map', Live')
      /\ ~req'[r].completed =>
            /\ preempted_requests' = Append(preempted_requests, r)
            /\ allocation_map' = allocation_map
            /\ \A p2 : IsInjective(p2) /\ Range(p2) = Range(preempted_requests) \cup {r} =>
                    PlacesOK(request_queue', p2, batch', running_batches',
                             DOMAIN allocation_map', Live')
  BY CoreHolds, EndRequestMove
<1>2. ASSUME ~req'[r].completed
      PROVE  /\ IsInjective(preempted_requests')
             /\ Range(preempted_requests') = Range(preempted_requests) \cup {r}
  <2>1. preempted_requests \in Seq(Requests) /\ IsInjective(preempted_requests)
    BY CoreHolds DEF Conserved
  <2>2. preempted_requests' = Append(preempted_requests, r)
    BY <1>1, <1>2
  <2> QED BY <1>1, <2>1, <2>2, AppendRange
<1>3. PlacesOK(request_queue', preempted_requests', batch', running_batches',
               DOMAIN allocation_map', Live')
  BY <1>1, <1>2
<1>4. InBatch(r, n)
  BY <1>1 DEF LightInv, RequestsInv
<1>5. ASSUME req'[r].completed
      PROVE  DOMAIN allocation_map' = DOMAIN allocation_map \ {r}
  <2>1. r \in Ids(batch) /\ preempted_requests' = preempted_requests
    BY <1>1, <1>5
  <2>2. batch # <<>> /\ RunningIds' = RunningIds
    BY DEF EndRequest, pipeline, RunningIds
  <2>3. r \notin RunningIds
    BY <1>1, <2>2
  <2>4. DOMAIN allocation_map = Range(preempted_requests) \cup Ids(batch) \cup RunningIds
    BY CoreHolds DEF Conserved
  <2>5. DOMAIN allocation_map' = Range(preempted_requests) \cup Ids(batch') \cup RunningIds'
    BY <1>3, <2>1 DEF PlacesOK, RunningIds
  <2> QED BY <1>1, <2>2, <2>3, <2>4, <2>5
<1> QED BY <1>1, <1>2, <1>3, <1>4, <1>5 DEF CommonNext

(* The common part of the invariant is kept by every step. *)
LEMMA CommonStep ==
    ASSUME LightInv, [LightNext]_lightVars
    PROVE  CommonNext
<1>0. Core /\ Conserved(preempted_requests) /\ preempted_requests \in Seq(Requests)
  BY CoreHolds
<1>1. CASE TryPrefill \/ StartDecode
  <2>1. /\ pc \notin {"idle", "end"} /\ pc' # "idle" /\ preempted_requests' = preempted_requests
        /\ UNCHANGED <<asked, req, num_arrived, request_queue, memory, pipeline,
                       schedule_events, batch>>
    BY <1>1 DEF TryPrefill, StartDecode
  <2>2. IsInjective(preempted_requests)
    BY <1>0 DEF Conserved
  <2> QED BY <1>0, <2>1, <2>2, ShuffleMove DEF CommonNext
<1>2. CASE Admit
  <2>1. PICK r : r = Head(request_queue)
    OBVIOUS
  <2> QED BY <1>2, <2>1, Admits
<1>3. CASE Decode
  <2>1. PICK r : r = Head(preempted_requests)
    OBVIOUS
  <2> QED BY <1>3, <2>1, Decodes
<1>4. CASE (PrefillDone \/ DecodeDone) /\ ReturnBatch
  BY <1>4, Returns
<1>5. CASE PrefillDone /\ ~ReturnBatch
  <2>1. /\ pc = "prefill" /\ pc' = "decode" /\ preempted_requests' = preempted_requests
        /\ UNCHANGED <<asked, req, num_arrived, request_queue, memory, pipeline,
                       schedule_events, batch>>
    BY <1>5 DEF PrefillDone
  <2>2. IsInjective(preempted_requests)
    BY <1>0 DEF Conserved
  <2>3. pc \notin {"idle", "end"} /\ pc' # "idle"
    BY <2>1
  <2> QED BY <1>0, <2>1, <2>2, <2>3, ShuffleMove DEF CommonNext
<1>6. CASE AddRequests
  <2>1. preempted_requests' = preempted_requests
    BY <1>6 DEF AddRequests
  <2> QED BY <1>0, <1>6, <2>1, ArrivalMove DEF CommonNext
<1>7. CASE OnSchedule \/ BatchEnded
  <2>1. preempted_requests' = preempted_requests
    BY <1>7 DEF OnSchedule, BatchEnded
  <2> QED BY <1>0, <1>7, <2>1, EventMove DEF CommonNext
<1>8. CASE BatchEnd
  <2>1. preempted_requests' = preempted_requests
    BY <1>8 DEF BatchEnd
  <2> QED BY <1>0, <1>8, <2>1, BatchEndMove DEF CommonNext
<1>9. CASE EndRequest
  <2>1. PICK r, n : r = Head(batch).id /\ n = Head(batch).tokens
    OBVIOUS
  <2> QED BY <1>9, <2>1, Ends
<1>10. CASE UNCHANGED lightVars
  <2>1. UNCHANGED <<asked, req, num_arrived, request_queue, preempted_requests,
                    allocation_map, num_allocated_blocks, num_running_batches,
                    running_batches, schedule_events, pc, batch>>
    BY <1>10 DEF lightVars, vars, memory, pipeline
  <2>2. Core'
    BY <2>1, CoreHolds DEF Core, ReplicaTypes, PipelineCount, NotArrived, Arrived,
                           HeldBlocks, WithinCap
  <2>3. Live' = Live
    BY <2>1 DEF Live, Arrived
  <2> QED BY <2>1, <2>2, <2>3, CoreHolds DEF CommonNext, PlacesOK, Conserved, RunningIds
<1>11. DecodeDone => ReturnBatch
  BY DEF DecodeDone
<1> QED BY <1>1, <1>2, <1>3, <1>4, <1>5, <1>6, <1>7, <1>8, <1>9, <1>10, <1>11 DEF LightNext

(* The loop counter and the count of the waiting iterations keep their      *)
(* types: an iteration is only counted below the maximum, or after it was   *)
(* reset.                                                                   *)
LEMMA LocalsStep ==
    ASSUME LightInv, [LightNext]_lightVars
    PROVE  /\ pc' \in {"idle", "form", "prefill", "decode", "end"}
           /\ num_waiting_iters' \in 0 .. Max({1, MaxWaitingIters})
<1> DEFINE m == Max({1, MaxWaitingIters})
<1>0. MaxWaitingIters \in Nat
  BY LightLLMAssumption
<1>1. m \in {1, MaxWaitingIters} /\ m >= 1 /\ m >= MaxWaitingIters
  <2>1. \E x \in {1, MaxWaitingIters} : \A y \in {1, MaxWaitingIters} : x >= y
    BY <1>0
  <2> QED BY <2>1, Zenon DEF Max
<1>2. m \in Nat
  BY <1>0, <1>1
<1> HIDE DEF m
<1>3. /\ num_waiting_iters \in 0 .. m
      /\ pc \in {"idle", "form", "prefill", "decode", "end"}
      /\ pc = "prefill" /\ preempted_requests # <<>> => num_waiting_iters = 0
  BY DEF LightInv, TypeOK, LoopStarts, m
<1> SUFFICES /\ pc' \in {"idle", "form", "prefill", "decode", "end"}
             /\ num_waiting_iters' \in 0 .. m
  BY DEF m
<1>4. CASE StartDecode
  BY <1>0, <1>1, <1>2, <1>3, <1>4 DEF StartDecode
<1>5. CASE PrefillDone
  <2>1. CASE ReturnBatch /\ num_waiting_iters' = IF batch # <<>> THEN 0 ELSE num_waiting_iters
    BY <1>2, <1>3, <2>1 DEF ReturnBatch, NextLoop
  <2>2. CASE /\ preempted_requests # <<>> /\ pc' = "decode"
             /\ num_waiting_iters' = num_waiting_iters + 1
    BY <1>1, <1>2, <1>3, <1>5, <2>2 DEF PrefillDone
  <2> QED BY <1>5, <2>1, <2>2 DEF PrefillDone
<1>6. CASE TryPrefill
  BY <1>2, <1>3, <1>6 DEF TryPrefill
<1>7. CASE Admit \/ Decode \/ UNCHANGED lightVars
  BY <1>3, <1>7 DEF Admit, Decode, lightVars, vars
<1>8. CASE DecodeDone
  BY <1>3, <1>8 DEF DecodeDone, ReturnBatch, NextLoop
<1>9. CASE (AddRequests \/ OnSchedule \/ BatchEnd \/ EndRequest \/ BatchEnded)
                /\ UNCHANGED num_waiting_iters
  BY <1>3, <1>9 DEF AddRequests, OnSchedule, BatchEnd, EndRequest, BatchEnded, NextLoop
<1> QED BY <1>4, <1>5, <1>6, <1>7, <1>8, <1>9 DEF LightNext

-----------------------------------------------------------------------------
(* Token counters. *)

(* What a request was asked for is never changed. *)
LEMMA AskedStays == [LightNext]_lightVars => asked' = asked
BY DEF LightNext, TryPrefill, StartDecode, Admit, PrefillDone, Decode, DecodeDone,
       AddRequests, OnSchedule, BatchEnd, EndRequest, BatchEnded, lightVars, vars

(* The part of RequestsInv about a single request. *)
CountersOK(r) ==
    /\ req[r].prefill = asked[r].prefill
    /\ req[r].decode = asked[r].decode
    /\ req[r].completed => /\ req[r].prefill_complete
                           /\ req[r].processed = TotalTokens(req[r])

(* After a step that touches r, the requests other than r, in the places    *)
(* they were in before it.                                                  *)
OthersOK(r) ==
    /\ \A x \in Requests \ {r} : CountersOK(x)'
    /\ \A x \in Range(request_queue) \ {r} : Fresh(x)'
    /\ \A x \in Range(preempted_requests) \ {r} : ExactTokens(x)'
    /\ \A e \in Range(batch) : e.id # r => InBatch(e.id, e.tokens)'
    /\ \A k \in DOMAIN running_batches : \A e \in Range(running_batches[k]) :
        e.id # r => InBatch(e.id, e.tokens)'

(* Where requests are, and that they are in one place. *)
LEMMA PlaceFacts ==
    ASSUME LightInv
    PROVE  /\ \A x \in Ids(batch) \cup RunningIds \cup Range(preempted_requests) :
                x \in DOMAIN allocation_map /\ x \in Requests
           /\ \A x \in Range(request_queue) : x \in Requests /\ x \notin DOMAIN allocation_map
           /\ \A e \in Range(batch) : e.id \in Ids(batch)
           /\ \A k \in DOMAIN running_batches : \A e \in Range(running_batches[k]) :
                e.id \in RunningIds
BY CoreHolds, BatchHolds, EntryIds

(* A step that touches one request leaves all the others consistent with    *)
(* the place they are in.                                                   *)
LEMMA RequestsFrame ==
    ASSUME LightInv, asked' = asked, NEW r,
           \A x \in Requests \ {r} : req'[x] = req[x],
           \A x \in DOMAIN allocation_map \ {r} : allocation_map'[x] = allocation_map[x]
    PROVE  OthersOK(r)
<1>1. RequestsInv
  BY DEF LightInv
<1>2. \A x \in Requests \ {r} :
            /\ Fresh(x) => Fresh(x)'
            /\ x \in DOMAIN allocation_map /\ ExactTokens(x) => ExactTokens(x)'
            /\ \A n : x \in DOMAIN allocation_map /\ InBatch(x, n) => InBatch(x, n)'
  BY DEF Fresh, ExactTokens, InBatch, Prefilling, Decoding
<1>3. \A x \in Requests \ {r} : CountersOK(x)'
  BY <1>1 DEF RequestsInv, CountersOK
<1>4. \A e \in Range(batch) : e.id # r => InBatch(e.id, e.tokens)'
  BY <1>1, <1>2, PlaceFacts DEF RequestsInv
<1>5. \A k \in DOMAIN running_batches : \A e \in Range(running_batches[k]) :
            e.id # r => InBatch(e.id, e.tokens)'
  BY <1>1, <1>2, PlaceFacts DEF RequestsInv
<1>6. /\ \A x \in Range(request_queue) \ {r} : Fresh(x)'
      /\ \A x \in Range(preempted_requests) \ {r} : ExactTokens(x)'
  BY <1>1, <1>2, PlaceFacts DEF RequestsInv
<1> QED BY <1>3, <1>4, <1>5, <1>6 DEF OthersOK

(* The end of a batch for one of its requests: its prompt and the first     *)
(* token, or one more token.                                                *)
LEMMA EndOfBatch ==
    ASSUME LightInv, NEW r \in Requests, NEW n \in Nat, InBatch(r, n), ~req[r].completed
    PROVE  LET q == OnBatchEnd(req[r], n)
           IN  /\ q.prefill = req[r].prefill /\ q.decode = req[r].decode
               /\ q.prefill_complete
               /\ q.completed => q.processed = TotalTokens(q)
               /\ ~q.completed => q.processed < TotalTokens(q)
               /\ q.prefill < q.processed
               /\ q.processed =
                    (IF req[r].prefill_complete THEN req[r].processed ELSE req[r].prefill) + 1
               /\ allocation_map[r] = q.processed - 1
<1> DEFINE o == req[r]
           q == OnBatchEnd(o, n)
           prefilled == o.processed + n = o.prefill
<1>1. /\ o \in RequestRecord /\ o.prefill \in Nat /\ o.decode \in Int /\ o.processed \in Nat
      /\ o.prefill_complete \in BOOLEAN /\ TotalTokens(o) = o.prefill + o.decode
      /\ asked[r].decode \in Nat \ {0}
  BY CoreHolds, RequestFields
<1>2. /\ q.prefill = o.prefill /\ q.decode = o.decode
      /\ q.processed = o.processed + n + (IF prefilled THEN 1 ELSE 0)
      /\ q.prefill_complete = (o.prefill_complete \/ prefilled)
      /\ q.completed = (o.completed \/ q.processed = TotalTokens(o))
  BY <1>1 DEF OnBatchEnd, RequestRecord
<1>3. TotalTokens(q) = TotalTokens(o) /\ o.decode = asked[r].decode
  BY <1>2 DEF TotalTokens, LightInv, RequestsInv
<1> HIDE DEF q
<1>4. q.completed <=> q.processed = TotalTokens(q)
  BY <1>2, <1>3
<1>5. CASE Prefilling(r, n)
  <2>1. o.processed = 0 /\ n = o.prefill /\ allocation_map[r] = n
    BY <1>5 DEF Prefilling, Fresh
  <2>2. prefilled /\ q.processed = o.prefill + 1 /\ ~o.prefill_complete
    BY <1>1, <1>2, <1>5, <2>1 DEF Prefilling, Fresh
  <2>3. q.prefill < q.processed /\ q.processed <= TotalTokens(q)
        /\ allocation_map[r] = q.processed - 1
    BY <1>1, <1>2, <1>3, <2>1, <2>2
  <2>4. q.prefill_complete
    BY <1>2, <2>2
  <2>5. q.processed \in Int /\ TotalTokens(q) \in Int
    BY <1>1, <1>2, <1>3
  <2>6. ~q.completed => q.processed < TotalTokens(q)
    BY <1>4, <2>3, <2>5
  <2> QED BY <1>2, <1>4, <2>1, <2>2, <2>3, <2>4, <2>6 DEF q
<1>6. CASE Decoding(r, n)
  <2>1. /\ n = 1 /\ o.prefill_complete /\ o.prefill < o.processed
        /\ o.processed < TotalTokens(o) /\ allocation_map[r] = o.processed
    BY <1>6 DEF Decoding
  <2>2. q.processed = o.processed + 1
    BY <1>1, <1>2, <2>1
  <2>3. q.prefill < q.processed /\ q.processed <= TotalTokens(q)
        /\ allocation_map[r] = q.processed - 1
    BY <1>1, <1>2, <1>3, <2>1, <2>2
  <2>4. q.prefill_complete
    BY <1>2, <2>1
  <2>5. q.processed \in Int /\ TotalTokens(q) \in Int
    BY <1>1, <1>2, <1>3
  <2>6. ~q.completed => q.processed < TotalTokens(q)
    BY <1>4, <2>3, <2>5
  <2> QED BY <1>2, <1>4, <2>1, <2>2, <2>3, <2>4, <2>6 DEF q
<1> QED BY <1>5, <1>6 DEF InBatch

(* A step that touches no request: each place only passes on what it held.  *)
LEMMA UntouchedStep ==
    ASSUME LightInv, asked' = asked,
           UNCHANGED <<req, request_queue, preempted_requests, allocation_map>>,
           \A e \in Range(batch') :
                \/ e \in Range(batch)
                \/ \E k \in DOMAIN running_batches : e \in Range(running_batches[k]),
           \A k \in DOMAIN running_batches' :
                \/ running_batches'[k] = batch
                \/ \E l \in DOMAIN running_batches : running_batches'[k] = running_batches[l]
    PROVE  RequestsInv'
<1>1. RequestsInv
  BY DEF LightInv
<1>2. /\ \A x : Fresh(x) => Fresh(x)'
      /\ \A x : ExactTokens(x) => ExactTokens(x)'
      /\ \A x, n : InBatch(x, n) => InBatch(x, n)'
  BY DEF Fresh, ExactTokens, InBatch, Prefilling, Decoding
<1>3. \A e \in Range(batch') : InBatch(e.id, e.tokens)'
  BY <1>1, <1>2 DEF RequestsInv
<1>4. \A k \in DOMAIN running_batches' : \A e \in Range(running_batches'[k]) :
            InBatch(e.id, e.tokens)'
  BY <1>1, <1>2 DEF RequestsInv
<1> QED BY <1>1, <1>2, <1>3, <1>4 DEF RequestsInv

(* A step by which one request joins the batch with n tokens. *)
LEMMA BatchedStep ==
    ASSUME LightInv, asked' = asked, NEW r, NEW n,
           UNCHANGED <<req, running_batches>>,
           Range(request_queue') \subseteq Range(request_queue) \ {r},
           Range(preempted_requests') \subseteq Range(preempted_requests) \ {r},
           r \notin Ids(batch), r \notin RunningIds,
           Range(batch') = Range(batch) \cup {[id |-> r, tokens |-> n]},
           \A x \in DOMAIN allocation_map \ {r} : allocation_map'[x] = allocation_map[x],
           InBatch(r, n)'
    PROVE  RequestsInv'
<1>1. OthersOK(r)
  BY RequestsFrame
<1>2. \A x \in Requests : CountersOK(x)'
  BY DEF CountersOK, LightInv, RequestsInv
<1>3. \A e \in Range(batch') : InBatch(e.id, e.tokens)'
  <2> TAKE e \in Range(batch')
  <2>1. CASE e \in Range(batch)
    BY <1>1, <2>1, PlaceFacts DEF OthersOK
  <2>2. CASE e = [id |-> r, tokens |-> n]
    <3>1. e.id = r /\ e.tokens = n
      BY <2>2
    <3> QED BY <3>1
  <2> QED BY <2>1, <2>2
<1>4. \A k \in DOMAIN running_batches' : \A e \in Range(running_batches'[k]) :
            InBatch(e.id, e.tokens)'
  BY <1>1, PlaceFacts DEF OthersOK
<1> QED BY <1>1, <1>2, <1>3, <1>4 DEF OthersOK, RequestsInv, CountersOK

(* The counters stay consistent with the place of each request. *)
LEMMA RequestsStep ==
    ASSUME LightInv, [LightNext]_lightVars
    PROVE  RequestsInv'
<1>0. asked' = asked /\ NotArrived /\ RequestsInv
  BY AskedStays DEF LightInv
<1>1. CASE Admit
  <2>1. PICK r, n : r = Head(request_queue) /\ n = req[r].prefill
    OBVIOUS
  <2>2. UNCHANGED <<req, preempted_requests, running_batches>>
    BY <1>1 DEF Admit, pipeline
  <2>3. /\ r \in Requests /\ Fresh(r) /\ r \notin DOMAIN allocation_map
        /\ r \notin Range(request_queue')
        /\ Range(request_queue') \subseteq Range(request_queue)
        /\ Range(batch') = Range(batch) \cup {[id |-> r, tokens |-> n]}
        /\ allocation_map'[r] = n
        /\ \A x \in DOMAIN allocation_map : allocation_map'[x] = allocation_map[x]
    BY <1>1, <2>1, Admits
  <2>4. r \notin Ids(batch) /\ r \notin RunningIds /\ r \notin Range(preempted_requests)
    BY <2>3, PlaceFacts
  <2>5. InBatch(r, n)'
    BY <2>1, <2>2, <2>3 DEF InBatch, Prefilling, Fresh
  <2> QED BY <1>0, <2>2, <2>3, <2>4, <2>5, BatchedStep
<1>2. CASE Decode
  <2>1. PICK r : r = Head(preempted_requests)
    OBVIOUS
  <2>2. UNCHANGED <<req, request_queue, running_batches>>
    BY <1>2 DEF Decode, pipeline
  <2>3. /\ ExactTokens(r) /\ r \in Range(preempted_requests) /\ r \in Requests
        /\ r \notin Range(preempted_requests') /\ r \notin Ids(batch)
        /\ Range(preempted_requests) = Range(preempted_requests') \cup {r}
        /\ Range(batch') = Range(batch) \cup {[id |-> r, tokens |-> 1]}
        /\ allocation_map'[r] = allocation_map[r] + 1
        /\ \A x \in DOMAIN allocation_map \ {r} : allocation_map'[x] = allocation_map[x]
    BY <1>2, <2>1, Decodes
  <2>4. r \notin RunningIds /\ r \notin Range(request_queue)
    BY <2>3, CoreHolds, PlaceFacts DEF Conserved
  <2>5. InBatch(r, 1)'
    <3>1. req[r].processed \in Nat
      BY <2>3, CoreHolds, RequestFields
    <3>2. allocation_map'[r] = req[r].processed
      BY <2>3, <3>1 DEF ExactTokens
    <3> QED BY <2>2, <2>3, <3>2 DEF InBatch, Decoding, ExactTokens
  <2> QED BY <1>0, <2>2, <2>3, <2>4, <2>5, BatchedStep
<1>3. CASE (PrefillDone \/ DecodeDone) /\ ReturnBatch
  <2>1. /\ UNCHANGED <<request_queue, preempted_requests, allocation_map, req>>
        /\ batch' = <<>>
        /\ \A k \in DOMAIN running_batches' :
                \/ k \in DOMAIN running_batches /\ running_batches'[k] = running_batches[k]
                \/ running_batches'[k] = batch
    BY <1>3, Returns
  <2>2. Range(batch') = {}
    BY <2>1 DEF Range
  <2> QED BY <1>0, <2>1, <2>2, UntouchedStep
<1>4. CASE BatchEnd
  <2>1. UNCHANGED <<req, request_queue, preempted_requests, allocation_map>>
    BY <1>4 DEF BatchEnd, memory
  <2>2. /\ \E k \in DOMAIN running_batches : batch' = running_batches[k]
        /\ \A k \in DOMAIN running_batches' :
                \E l \in DOMAIN running_batches : running_batches'[k] = running_batches[l]
    BY <1>4, CoreHolds, BatchEndMove
  <2> QED BY <1>0, <2>1, <2>2, UntouchedStep
<1>5. CASE \/ TryPrefill \/ StartDecode \/ (PrefillDone /\ ~ReturnBatch)
           \/ OnSchedule \/ BatchEnded \/ UNCHANGED lightVars
  <2>1. UNCHANGED <<req, request_queue, preempted_requests, allocation_map,
                    running_batches, batch>>
    BY <1>5 DEF TryPrefill, StartDecode, PrefillDone, OnSchedule, BatchEnded, lightVars, vars,
                memory, pipeline
  <2> QED BY <1>0, <2>1, UntouchedStep
<1>6. CASE AddRequests
  <2>1. UNCHANGED <<req, allocation_map, preempted_requests, batch, running_batches>>
    BY <1>6 DEF AddRequests, memory, pipeline
  <2>2. 0 \notin Requests /\ OthersOK(0)
    BY <1>0, <2>1, RequestsFrame DEF Requests
  <2>3. \A x \in Range(request_queue') : Fresh(x)'
    <3> TAKE x \in Range(request_queue')
    <3>1. CASE x \in Range(request_queue)
      BY <2>2, <3>1, PlaceFacts DEF OthersOK
    <3>2. CASE x \in Requests \ Arrived
      <4>1. req'[x] = NewRequest(asked[x].prefill, asked[x].decode)
        BY <1>0, <2>1, <3>2 DEF NotArrived
      <4> QED BY <4>1 DEF Fresh, NewRequest
    <3> QED BY <1>6, <3>1, <3>2, CoreHolds, ArrivalMove
  <2>4. /\ \A x \in Requests : CountersOK(x)'
        /\ \A x \in Range(preempted_requests') : ExactTokens(x)'
        /\ \A e \in Range(batch') : InBatch(e.id, e.tokens)'
        /\ \A k \in DOMAIN running_batches' : \A e \in Range(running_batches'[k]) :
                InBatch(e.id, e.tokens)'
    <3>1. \A x \in Requests : x # 0
      BY <2>2
    <3>2. /\ \A e \in Range(batch) : e.id # 0
          /\ \A k \in DOMAIN running_batches : \A e \in Range(running_batches[k]) : e.id # 0
      BY <3>1, PlaceFacts
    <3> QED BY <2>1, <2>2, <3>1, <3>2, PlaceFacts DEF OthersOK
  <2> QED BY <2>3, <2>4 DEF RequestsInv, CountersOK
<1>7. CASE EndRequest
  <2>0. PICK r, n : r = Head(batch).id /\ n = Head(batch).tokens
    OBVIOUS
  <2>1. UNCHANGED <<request_queue, running_batches>>
    BY <1>7 DEF EndRequest, pipeline
  <2>2. /\ r \in Requests /\ n \in Nat /\ InBatch(r, n) /\ ~req[r].completed
        /\ r \notin Range(request_queue) /\ r \notin Range(preempted_requests)
        /\ r \notin Ids(batch') /\ r \notin RunningIds' /\ Range(batch') \subseteq Range(batch)
        /\ req'[r] = OnBatchEnd(req[r], n)
        /\ \A x \in Requests \ {r} : req'[x] = req[x]
        /\ \A x \in DOMAIN allocation_map \ {r} : allocation_map'[x] = allocation_map[x]
        /\ req'[r].completed => preempted_requests' = preempted_requests
        /\ ~req'[r].completed =>
                /\ Range(preempted_requests') = Range(preempted_requests) \cup {r}
                /\ allocation_map' = allocation_map
    BY <2>0, <1>7, Ends
  <2>3. PICK q : q = OnBatchEnd(req[r], n)
    OBVIOUS
  <2>4. /\ q.prefill = req[r].prefill /\ q.decode = req[r].decode
        /\ q.prefill_complete
        /\ q.completed => q.processed = TotalTokens(q)
        /\ ~q.completed => q.processed < TotalTokens(q)
        /\ q.prefill < q.processed
        /\ allocation_map[r] = q.processed - 1
    BY <2>2, <2>3, EndOfBatch
  <2>5. CountersOK(r)'
    BY <1>0, <2>2, <2>3, <2>4 DEF CountersOK, RequestsInv
  <2>6. ~req'[r].completed => ExactTokens(r)'
    BY <2>2, <2>3, <2>4 DEF ExactTokens
  <2>7. OthersOK(r)
    BY <1>0, <2>2, RequestsFrame
  <2>9. \A f \in Range(batch') : InBatch(f.id, f.tokens)'
    <3>1. \A f \in Range(batch') : f.id \in Ids(batch')
      BY DEF Range, Ids
    <3> QED BY <2>2, <2>7, <3>1 DEF OthersOK
  <2>10. \A k \in DOMAIN running_batches' : \A f \in Range(running_batches'[k]) :
            InBatch(f.id, f.tokens)'
    <3>1. r \notin RunningIds
      BY <2>1, <2>2 DEF RunningIds
    <3> QED BY <2>1, <2>7, <3>1, PlaceFacts DEF OthersOK
  <2>11. /\ \A x \in Range(request_queue') : Fresh(x)'
         /\ \A x \in Range(preempted_requests') : ExactTokens(x)'
         /\ \A x \in Requests : CountersOK(x)'
    BY <2>1, <2>2, <2>5, <2>6, <2>7 DEF OthersOK
  <2> QED BY <2>9, <2>10, <2>11 DEF RequestsInv, CountersOK
<1>8. DecodeDone => ReturnBatch
  BY DEF DecodeDone
<1> QED BY <1>1, <1>2, <1>3, <1>4, <1>5, <1>6, <1>7, <1>8 DEF LightNext

(* The loops start from what they were left with. *)
LEMMA LoopStartsStep ==
    ASSUME LightInv, [LightNext]_lightVars
    PROVE  LoopStarts'
<1>0. LoopStarts /\ (pc = "idle" => batch = <<>>) /\ Range(<<>>) = {}
  BY DEF LightInv, PipelineCount, Range
<1>1. CASE TryPrefill
  BY <1>0, <1>1 DEF TryPrefill, LoopStarts
<1>2. CASE StartDecode
  BY <1>2 DEF StartDecode, LoopStarts
<1>3. CASE Admit
  <2>1. PICK r, n : r = Head(request_queue) /\ n = req[r].prefill
    OBVIOUS
  <2>2. UNCHANGED <<req, preempted_requests, num_waiting_iters, pc>> /\ pc = "prefill"
    BY <1>3 DEF Admit
  <2>3. /\ r \in Requests /\ Fresh(r) /\ r \notin DOMAIN allocation_map
        /\ Range(batch') = Range(batch) \cup {[id |-> r, tokens |-> n]}
        /\ allocation_map'[r] = n
        /\ \A x \in DOMAIN allocation_map : allocation_map'[x] = allocation_map[x]
    BY <1>3, <2>1, Admits
  <2>4. \A e \in Range(batch') : Prefilling(e.id, e.tokens)'
    <3> TAKE e \in Range(batch')
    <3>1. CASE e \in Range(batch)
      <4>1. Prefilling(e.id, e.tokens) /\ e.id \in DOMAIN allocation_map
        BY <1>0, <2>2, <3>1, PlaceFacts DEF LoopStarts
      <4> QED BY <2>2, <2>3, <4>1 DEF Prefilling, Fresh
    <3>2. CASE e = [id |-> r, tokens |-> n]
      <4>1. e.id = r /\ e.tokens = n
        BY <3>2
      <4> QED BY <2>1, <2>2, <2>3, <4>1 DEF Prefilling, Fresh
    <3> QED BY <2>3, <3>1, <3>2
  <2> QED BY <1>0, <2>2, <2>4 DEF LoopStarts
<1>4. CASE (PrefillDone \/ DecodeDone) /\ ReturnBatch
  BY <1>4, Returns DEF LoopStarts
<1>5. CASE PrefillDone /\ ~ReturnBatch
  BY <1>5 DEF PrefillDone, LoopStarts
<1>6. CASE OnSchedule
  <2>1. /\ batch' = <<>> /\ pc' \in {"idle", "form"}
    BY <1>0, <1>6 DEF OnSchedule, NextLoop
  <2> QED BY <2>1 DEF LoopStarts
<1>7. CASE AddRequests \/ BatchEnd \/ EndRequest \/ BatchEnded
  BY <1>7 DEF AddRequests, BatchEnd, EndRequest, BatchEnded, LoopStarts
<1>8. CASE Decode
  BY <1>8 DEF Decode, LoopStarts
<1>9. CASE UNCHANGED lightVars
  <2>1. UNCHANGED <<req, allocation_map, preempted_requests, num_waiting_iters, pc, batch>>
    BY <1>9 DEF lightVars, vars, memory
  <2> QED BY <1>0, <2>1 DEF LoopStarts, Prefilling, Fresh
<1>10. DecodeDone => ReturnBatch
  BY DEF DecodeDone
<1> QED BY <1>1, <1>2, <1>3, <1>4, <1>5, <1>6, <1>7, <1>8, <1>9, <1>10 DEF LightNext

-----------------------------------------------------------------------------
(* The peak of the memory, for any holdings and totals. *)

(* The blocks of a map are the sum of its values. *)
LEMMA BlocksSum ==
    ASSUME NEW D, IsFiniteSet(D), NEW m \in [D -> Nat]
    PROVE  Cardinality(BlocksIn(m)) = SumFunctionOnSet(m, D)
<1> DEFINE part(s) == [q \in s |-> m[q]]
           F(s) == SumFunctionOnSet(m, s)
           C(s) == Cardinality(BlocksIn(part(s)))
           T == {s \in SUBSET D : C(s) = F(s)}
<1>1. ASSUME NEW s \in SUBSET D
      PROVE  /\ F({}) = 0
             /\ \A x \in s : F(s) = m[x] + F(s \ {x})
             /\ \A x \in s : C(s \ {x}) \in Nat /\ C(s \ {x}) = C(s) - m[x]
  <2>1. IsFiniteSet(s) /\ \A x \in s : m[x] \in Nat
    BY FS_Subset
  <2>2. F({}) = 0 /\ \A x \in s : F(s) = m[x] + F(s \ {x})
    BY <2>1, SumFacts
  <2>3. ASSUME NEW x \in s
        PROVE  C(s \ {x}) \in Nat /\ C(s \ {x}) = C(s) - m[x]
    <3>1. part(s) \in [s -> Nat] /\ part(s \ {x}) \in [s \ {x} -> Nat]
      BY <2>1
    <3>2. \A q \in s \ {x} : part(s \ {x})[q] = part(s)[q]
      OBVIOUS
    <3>3. part(s)[x] = m[x]
      OBVIOUS
    <3> HIDE DEF part
    <3>4. IsFiniteSet(s \ {x})
      BY <2>1, FS_Subset
    <3>5. IsFiniteSet(BlocksIn(part(s \ {x})))
      BY <3>1, <3>4, BlocksFinite
    <3>6. C(s \ {x}) = C(s) - m[x]
      <4>1. PICK a \in [s -> Nat], b \in [s \ {x} -> Nat] : a = part(s) /\ b = part(s \ {x})
        BY <3>1
      <4>2. /\ \A q \in s \ {x} : b[q] = a[q]
            /\ a[x] = m[x]
            /\ IsFiniteSet(BlocksIn(b))
        BY <3>2, <3>3, <3>5, <4>1
      <4>3. Cardinality(BlocksIn(b)) = Cardinality(BlocksIn(a)) - a[x]
        BY <4>2, BlocksShrink
      <4> QED BY <4>1, <4>2, <4>3
    <3> QED BY <3>5, <3>6, FS_CardinalityType
  <2> QED BY <2>2, <2>3
<1>2. C({}) = 0
  <2>1. BlocksIn(part({})) = {}
    BY DEF BlocksIn
  <2> QED BY <2>1, FS_EmptySet
<1>3. \A s \in SUBSET D : C(s) \in Nat
  <2> TAKE s \in SUBSET D
  <2>1. part(s) \in [s -> Nat] /\ IsFiniteSet(s)
    BY FS_Subset
  <2> HIDE DEF part
  <2> QED BY <2>1, BlocksFinite, FS_CardinalityType
<1> HIDE DEF F, C, part
<1>4. {} \in T
  <2>1. C({}) = F({})
    BY <1>1, <1>2
  <2> QED BY <2>1
<1>5. ASSUME NEW s \in SUBSET D, NEW x \in s, s \ {x} \in T PROVE s \in T
  <2>1. /\ C(s \ {x}) = F(s \ {x}) /\ C(s \ {x}) \in Nat /\ C(s \ {x}) = C(s) - m[x]
        /\ F(s) = m[x] + F(s \ {x}) /\ C(s) \in Nat /\ m[x] \in Nat
    BY <1>1, <1>3, <1>5
  <2>2. C(s) = F(s)
    BY <2>1
  <2> QED BY <2>2
<1>6. D \in T
  <2>1. D \in SUBSET D
    OBVIOUS
  <2> HIDE DEF T
  <2>2. SUBSET D \subseteq T
    BY <1>4, <1>5, SubsetInduction
  <2> QED BY <2>1, <2>2
<1>7. part(D) = m
  BY DEF part
<1> QED BY <1>6, <1>7 DEF F, C

(* Holdings of which no request holds more than it may still grow to. *)
Holdings(D, due, total) ==
    /\ IsFiniteSet(D)
    /\ due \in [D -> Nat]
    /\ \A q \in D : total[q] \in Int /\ total[q] - due[q] >= 1

(* The peak when r ends is a sum of natural numbers. *)
LEMMA PeakTerms ==
    ASSUME NEW D, NEW due, NEW total, Holdings(D, due, total), NEW r \in D
    PROVE  LET left(q) == total[q] - due[q]
               alive == {q \in D : left(q) >= left(r)}
               f == [q \in D |-> left(r) - 1 + due[q]]
           IN  /\ PeakOf(due, total, r) = SumFunctionOnSet(f, alive)
               /\ alive \subseteq D /\ IsFiniteSet(alive)
               /\ \A q \in D : f[q] = left(r) - 1 + due[q] /\ f[q] \in Nat
               /\ PeakOf(due, total, r) \in Nat
<1> DEFINE left(q) == total[q] - due[q]
           alive == {q \in D : left(q) >= left(r)}
           f == [q \in D |-> left(r) - 1 + due[q]]
<1>1. IsFiniteSet(D) /\ DOMAIN due = D /\ due \in [D -> Nat]
  BY DEF Holdings
<1>2. PeakOf(due, total, r) = SumFunctionOnSet(f, alive)
  BY <1>1 DEF PeakOf
<1>3. \A q \in D : f[q] = left(r) - 1 + due[q] /\ f[q] \in Nat
  BY DEF Holdings
<1>4. alive \subseteq D /\ IsFiniteSet(alive)
  BY <1>1, FS_Subset
<1> HIDE DEF f, alive
<1>5. SumFunctionOnSet(f, alive) \in Nat
  <2>1. \A q \in alive : f[q] \in Nat
    BY <1>3, <1>4
  <2> QED BY <1>4, <2>1, SumFacts
<1>6. PeakOf(due, total, r) \in Nat
  BY <1>2, <1>5
<1> QED BY <1>2, <1>3, <1>4, <1>6 DEF f, alive

(* When requests end and the others hold what they held, no peak grows. *)
LEMMA PeakShrinks ==
    ASSUME NEW D, NEW due, NEW total, Holdings(D, due, total),
           NEW E, E \subseteq D, NEW due2, due2 \in [E -> Nat], \A q \in E : due2[q] = due[q],
           PeakBelow(due, total)
    PROVE  PeakBelow(due2, total)
<1> SUFFICES ASSUME NEW r \in E PROVE PeakOf(due2, total, r) < NumBlocks
  BY DEF PeakBelow
<1> DEFINE left(q) == total[q] - due[q]
           left2(q) == total[q] - due2[q]
           alive == {q \in D : left(q) >= left(r)}
           alive2 == {q \in E : left2(q) >= left2(r)}
           f == [q \in D |-> left(r) - 1 + due[q]]
           f2 == [q \in E |-> left2(r) - 1 + due2[q]]
<1>0. Holdings(E, due2, total)
  BY FS_Subset DEF Holdings
<1>1. /\ PeakOf(due, total, r) = SumFunctionOnSet(f, alive)
      /\ alive \subseteq D /\ IsFiniteSet(alive)
      /\ \A q \in D : f[q] = left(r) - 1 + due[q] /\ f[q] \in Nat
      /\ PeakOf(due, total, r) \in Nat
  BY PeakTerms
<1>2. /\ PeakOf(due2, total, r) = SumFunctionOnSet(f2, alive2)
      /\ \A q \in E : f2[q] = left2(r) - 1 + due2[q] /\ f2[q] \in Nat
      /\ PeakOf(due2, total, r) \in Nat
  <2>1. r \in E
    OBVIOUS
  <2>2. PeakOf(due2, total, r) \in Nat
    BY <1>0, <2>1, PeakTerms
  <2>3. PeakOf(due2, total, r) = SumFunctionOnSet(f2, alive2)
    BY <1>0, <2>1, PeakTerms
  <2>4. \A q \in E : f2[q] = left2(r) - 1 + due2[q]
    OBVIOUS
  <2>5. \A q \in E : f2[q] \in Nat
    BY <1>0, <2>1, PeakTerms
  <2> QED BY <2>2, <2>3, <2>4, <2>5
<1>3. alive2 \in SUBSET alive
  OBVIOUS
<1>4. \A q \in alive2 : f2[q] \in Int /\ f2[q] <= f[q]
  BY <1>1, <1>2
<1>5. \A q \in alive : f[q] \in Nat
  BY <1>1
<1> HIDE DEF f, f2, alive, alive2
<1>6. SumFunctionOnSet(f2, alive2) <= SumFunctionOnSet(f, alive)
  BY <1>1, <1>3, <1>4, <1>5, SumMonotone
<1>7. PeakOf(due, total, r) < NumBlocks
  <2>1. r \in DOMAIN due
    BY DEF Holdings
  <2> QED BY <2>1 DEF PeakBelow
<1> QED BY <1>1, <1>2, <1>6, <1>7, ReplicaAssumption

(* When all decode, each holds one more and has one less left. *)
LEMMA PeakDecodes ==
    ASSUME NEW D, NEW due, NEW total, Holdings(D, due, total),
           NEW due2 \in [D -> Nat], \A q \in D : due2[q] = due[q] + 1,
           PeakBelow(due, total)
    PROVE  PeakBelow(due2, total)
<1>1. DOMAIN due = D /\ DOMAIN due2 = D
  BY DEF Holdings
<1> SUFFICES ASSUME NEW r \in D PROVE PeakOf(due2, total, r) = PeakOf(due, total, r)
  BY <1>1 DEF PeakBelow
<1> DEFINE left(q) == total[q] - due[q]
           left2(q) == total[q] - due2[q]
<1>2. \A q \in D : left(q) \in Int /\ left2(q) = left(q) - 1 /\ due[q] \in Nat
  BY DEF Holdings
<1>3. {q \in D : left2(q) >= left2(r)} = {q \in D : left(q) >= left(r)}
  <2> HIDE DEF left, left2
  <2> QED BY <1>2
<1>4. \A q \in D : left2(r) - 1 + due2[q] = left(r) - 1 + due[q]
  <2> HIDE DEF left, left2
  <2> QED BY <1>2
<1>5. [q \in D |-> left2(r) - 1 + due2[q]] = [q \in D |-> left(r) - 1 + due[q]]
  BY <1>4
<1> QED BY <1>1, <1>3, <1>5 DEF PeakOf

(* What is held now, and c more for each request, is below the peak when    *)
(* nobody is closer to its end than that.                                   *)
LEMMA PeakCovers ==
    ASSUME NEW D, NEW due, NEW total, Holdings(D, due, total), D # {},
           NEW c \in Nat, \A q \in D : total[q] - due[q] >= 1 + c,
           PeakBelow(due, total)
    PROVE  SumFunctionOnSet(due, D) + c * Cardinality(D) < NumBlocks
<1> DEFINE left == [q \in D |-> total[q] - due[q]]
           g == [q \in D |-> due[q] + c]
<1>1. /\ IsFiniteSet(D) /\ DOMAIN due = D
      /\ \A q \in D : due[q] \in Nat /\ total[q] \in Int
  BY DEF Holdings
<1>2. \A q \in D : left[q] \in Int /\ left[q] = total[q] - due[q]
  BY <1>1
<1> HIDE DEF left
<1>3. PICK r \in D : \A q \in D : left[r] <= left[q]
  BY <1>1, <1>2, Extremes
<1> DEFINE alive == {q \in D : total[q] - due[q] >= total[r] - due[r]}
           f == [q \in D |-> total[r] - due[r] - 1 + due[q]]
<1>4. /\ PeakOf(due, total, r) = SumFunctionOnSet(f, alive)
      /\ \A q \in D : f[q] = total[r] - due[r] - 1 + due[q] /\ f[q] \in Nat
      /\ PeakOf(due, total, r) \in Nat
  BY PeakTerms
<1>5. alive = D
  BY <1>2, <1>3
<1>6. \A q \in D : due[q] \in Int /\ g[q] = due[q] + c
  BY <1>1
<1>7. \A q \in D : g[q] \in Int /\ g[q] <= f[q]
  BY <1>1, <1>4
<1> HIDE DEF f, g, alive
<1>8. SumFunctionOnSet(g, D) <= SumFunctionOnSet(f, D)
  <2>1. D \in SUBSET D
    OBVIOUS
  <2> QED BY <1>1, <1>4, <1>7, <2>1, SumMonotone
<1>9. SumFunctionOnSet(g, D) = SumFunctionOnSet(due, D) + c * Cardinality(D)
  BY <1>1, <1>6, SumShift
<1>10. PeakOf(due, total, r) < NumBlocks
  BY <1>1 DEF PeakBelow
<1>11. SumFunctionOnSet(g, D) \in Int
  BY <1>1, <1>7, SumFacts
<1> DEFINE sum == SumFunctionOnSet(g, D)
<1>12. sum \in Int /\ sum <= PeakOf(due, total, r)
  BY <1>4, <1>5, <1>8, <1>11
<1> HIDE DEF sum
<1>13. sum < NumBlocks
  BY <1>4, <1>10, <1>12, ReplicaAssumption
<1> QED BY <1>9, <1>13 DEF sum

-----------------------------------------------------------------------------
(* The look-ahead of the code, and the peak. *)

(* The larger of 0 and a number. *)
LEMMA MaxWithZero ==
    ASSUME NEW n \in Int
    PROVE  Max({0, n}) = IF n >= 0 THEN n ELSE 0
<1> DEFINE m == Max({0, n})
<1>1. m \in {0, n} /\ m >= 0 /\ m >= n
  <2>1. \E x \in {0, n} : \A y \in {0, n} : x >= y
    OBVIOUS
  <2> QED BY <2>1, Zenon DEF Max
<1> HIDE DEF m
<1>2. m = IF n >= 0 THEN n ELSE 0
  BY <1>1
<1> QED BY <1>2 DEF m

(* A set of numbers is below a bound when its maximum is. *)
LEMMA MaxBelow ==
    ASSUME NEW S, IsFiniteSet(S), S # {}, S \subseteq Int, NEW n \in Int
    PROVE  Max(S) < n <=> \A x \in S : x < n
<1> DEFINE f == [x \in S |-> x]
<1>1. \A x \in S : f[x] \in Int /\ f[x] = x
  OBVIOUS
<1> HIDE DEF f
<1>2. \E x \in S : \A y \in S : f[y] <= f[x]
  BY <1>1, Extremes
<1>3. \E x \in S : \A y \in S : x >= y
  BY <1>1, <1>2
<1>4. Max(S) \in S /\ \A y \in S : Max(S) >= y
  BY <1>3, Zenon DEF Max
<1> DEFINE m == Max(S)
<1>5. m \in S /\ \A y \in S : m >= y
  BY <1>4
<1> HIDE DEF m
<1>6. m < n <=> \A x \in S : x < n
  BY <1>5
<1> QED BY <1>6 DEF m

(* What _get_tuple_tokens returns for each request, in terms of what the    *)
(* request will hold and of its total.                                      *)
Counted(D, due, total) ==
    /\ Holdings(D, due, total)
    /\ \A q \in D : HasRun(q) = due[q] + 1 /\ LeftOut(q) = Max({0, total[q] - due[q] - 2})

(* The code's look-ahead is no lower than the peak, and equal to it when    *)
(* every request has a token left to decode.                                *)
LEMMA LookAhead ==
    ASSUME NEW D, NEW due, NEW total, Counted(D, due, total), NEW r \in D
    PROVE  /\ HeldWithLast(D, r) \in Nat
           /\ PeakOf(due, total, r) <= HeldWithLast(D, r)
           /\ (\A q \in D : total[q] - due[q] >= 2) =>
                    HeldWithLast(D, r) = PeakOf(due, total, r)
<1> DEFINE left(q) == total[q] - due[q]
           live == {q \in D : left(q) >= left(r)}
           alive == {q \in D : LeftOut(q) >= LeftOut(r)}
           f == [q \in D |-> left(r) - 1 + due[q]]
           run == [q \in alive |-> HasRun(q)]
           g == [q \in alive |-> HasRun(q) + LeftOut(r)]
<1>1. /\ IsFiniteSet(D) /\ Holdings(D, due, total)
      /\ \A q \in D : due[q] \in Nat /\ total[q] \in Int /\ left(q) \in Int /\ left(q) >= 1
  BY DEF Counted, Holdings
<1>2. \A q \in D : /\ HasRun(q) = due[q] + 1
                   /\ LeftOut(q) = IF left(q) >= 2 THEN left(q) - 2 ELSE 0
                   /\ HasRun(q) \in Nat /\ LeftOut(q) \in Nat
  <2> TAKE q \in D
  <2> DEFINE n == left(q) - 2
  <2>1. n \in Int /\ LeftOut(q) = Max({0, n}) /\ HasRun(q) = due[q] + 1
    BY <1>1 DEF Counted
  <2>2. LeftOut(q) = IF n >= 0 THEN n ELSE 0
    <3> HIDE DEF n
    <3> QED BY <2>1, MaxWithZero
  <2> QED BY <1>1, <2>1, <2>2
<1>3. /\ PeakOf(due, total, r) = SumFunctionOnSet(f, live)
      /\ \A q \in D : f[q] = left(r) - 1 + due[q] /\ f[q] \in Nat
      /\ PeakOf(due, total, r) \in Nat
  <2>1. PeakOf(due, total, r) \in Nat
    BY <1>1, PeakTerms
  <2>2. PeakOf(due, total, r) = SumFunctionOnSet(f, live)
    BY <1>1, PeakTerms
  <2>3. \A q \in D : f[q] = left(r) - 1 + due[q]
    OBVIOUS
  <2>4. \A q \in D : f[q] \in Nat
    BY <1>1, PeakTerms
  <2> QED BY <2>1, <2>2, <2>3, <2>4
<1>4. live \subseteq alive /\ alive \subseteq D /\ IsFiniteSet(alive)
  <2>1. \A q \in D : left(q) >= left(r) => LeftOut(q) >= LeftOut(r)
    BY <1>1, <1>2
  <2>2. live \subseteq alive /\ alive \subseteq D
    BY <2>1
  <2> QED BY <1>1, <2>2, FS_Subset
<1>5. \A q \in alive : /\ run[q] \in Int /\ g[q] = run[q] + LeftOut(r) /\ g[q] \in Nat
                       /\ f[q] \in Int /\ f[q] <= g[q]
                       /\ left(r) >= 2 => f[q] = g[q]
  <2> TAKE q \in alive
  <2>1. q \in D /\ run[q] = HasRun(q) /\ g[q] = HasRun(q) + LeftOut(r)
    OBVIOUS
  <2>2. /\ HasRun(q) = due[q] + 1 /\ due[q] \in Nat
        /\ LeftOut(r) = (IF left(r) >= 2 THEN left(r) - 2 ELSE 0) /\ LeftOut(r) \in Nat
        /\ left(r) \in Int /\ left(r) >= 1 /\ f[q] = left(r) - 1 + due[q] /\ f[q] \in Nat
    BY <1>1, <1>2, <1>3, <2>1
  <2> HIDE DEF f, run, g, left
  <2> QED BY <2>1, <2>2
<1>6. LeftOut(r) \in Int
  BY <1>2
<1>7. HeldWithLast(D, r) = LeftOut(r) * Cardinality(alive) + SumFunctionOnSet(run, alive)
  BY DEF HeldWithLast, SumFunction
<1> HIDE DEF f, g, run, live, alive
<1>8. SumFunctionOnSet(g, alive) = SumFunctionOnSet(run, alive) + LeftOut(r) * Cardinality(alive)
  BY <1>4, <1>5, <1>6, SumShift
<1>9. SumFunctionOnSet(f, live) <= SumFunctionOnSet(g, alive)
  <2>1. \A q \in live : f[q] \in Int /\ f[q] <= g[q]
    BY <1>4, <1>5
  <2>2. \A q \in alive : g[q] \in Nat
    BY <1>5
  <2> QED BY <1>4, <2>1, <2>2, SumMonotone
<1>10. SumFunctionOnSet(g, alive) \in Nat
  <2>1. \A q \in alive : g[q] \in Nat
    BY <1>5
  <2> QED BY <1>4, <2>1, SumFacts
<1>11. HeldWithLast(D, r) = SumFunctionOnSet(g, alive)
  <2>1. SumFunctionOnSet(run, alive) \in Int /\ LeftOut(r) * Cardinality(alive) \in Int
    <3>1. \A q \in alive : run[q] \in Int
      BY <1>5
    <3>2. Cardinality(alive) \in Nat
      BY <1>4, FS_CardinalityType
    <3> QED BY <1>4, <1>6, <3>1, <3>2, SumFacts
  <2> DEFINE a == SumFunctionOnSet(run, alive)
             b == LeftOut(r) * Cardinality(alive)
  <2>2. a \in Int /\ b \in Int /\ HeldWithLast(D, r) = b + a
        /\ SumFunctionOnSet(g, alive) = a + b
    BY <1>7, <1>8, <2>1
  <2> HIDE DEF a, b
  <2> QED BY <2>2
<1>12. ASSUME \A q \in D : left(q) >= 2
       PROVE  HeldWithLast(D, r) = PeakOf(due, total, r)
  <2>1. live = alive
    <3>1. \A q \in D : LeftOut(q) = left(q) - 2 /\ left(q) \in Int
      BY <1>1, <1>2, <1>12
    <3> HIDE DEF left
    <3>2. \A q \in D : left(q) >= left(r) <=> LeftOut(q) >= LeftOut(r)
      BY <3>1
    <3> QED BY <3>2 DEF live, alive
  <2>2. \A q \in alive : /\ g[q] \in Int /\ f[q] \in Nat /\ f[q] \in Int /\ g[q] <= f[q]
    <3>1. left(r) >= 2
      BY <1>12
    <3> QED BY <1>3, <1>4, <1>5, <3>1
  <2>3. alive \in SUBSET alive
    OBVIOUS
  <2>4. SumFunctionOnSet(g, alive) <= SumFunctionOnSet(f, alive)
    BY <1>4, <2>2, <2>3, SumMonotone
  <2> QED BY <1>3, <1>9, <1>10, <1>11, <2>1, <2>4
<1> QED BY <1>3, <1>9, <1>10, <1>11, <1>12

(* NeedMaxTokens is below a bound when each of its numbers is.              *)
LEMMA NeedBelow ==
    ASSUME NEW D, NEW due, NEW total, Counted(D, due, total), D # {}
    PROVE  NeedMaxTokens(D) < NumBlocks <=> \A r \in D : HeldWithLast(D, r) < NumBlocks
<1> DEFINE S == {HeldWithLast(D, r) : r \in D}
           h == [r \in D |-> HeldWithLast(D, r)]
<1>1. IsFiniteSet(D)
  BY DEF Counted, Holdings
<1>2. IsFiniteSet(S)
  <2>1. h \in Surjection(D, S)
    BY DEF Surjection
  <2> QED BY <1>1, <2>1, FS_Surjection
<1>3. S # {} /\ S \subseteq Int
  BY LookAhead
<1>4. NumBlocks \in Int
  BY ReplicaAssumption
<1>5. Max(S) < NumBlocks <=> \A x \in S : x < NumBlocks
  BY <1>2, <1>3, <1>4, MaxBelow
<1>6. NeedMaxTokens(D) = Max(S)
  BY DEF NeedMaxTokens
<1> QED BY <1>5, <1>6

-----------------------------------------------------------------------------
(* The peak along the steps. *)

(* The totals are what the requests were asked for. *)
LEMMA TotalsAre ==
    /\ RequestsInv => \A q \in Requests : Totals[q] = asked[q].prefill + asked[q].decode
    /\ RequestsInv' => \A q \in Requests : Totals'[q] = asked'[q].prefill + asked'[q].decode
BY DEF RequestsInv, Totals, TotalTokens

(* Unless a decode is being formed, the memory due is the memory held. *)
LEMMA DueIs ==
    /\ ReplicaTypes /\ (pc # "decode" \/ preempted_requests = <<>>) => Due = allocation_map
    /\ ReplicaTypes' /\ (pc' # "decode" \/ preempted_requests' = <<>>)
            => Due' = allocation_map'
<1>1. Range(<<>>) = {}
  BY DEF Range
<1>2. ASSUME ReplicaTypes, pc # "decode" \/ preempted_requests = <<>>
      PROVE  Due = allocation_map
  BY <1>1, <1>2 DEF ReplicaTypes, Due
<1>3. ASSUME ReplicaTypes', pc' # "decode" \/ preempted_requests' = <<>>
      PROVE  Due' = allocation_map'
  BY <1>1, <1>3 DEF ReplicaTypes, Due
<1> QED BY <1>2, <1>3

(* What the requests hold, and what they may still grow by. *)
LEMMA HeldTokens ==
    ASSUME LightInv
    PROVE  /\ IsFiniteSet(DOMAIN allocation_map)
           /\ \A q \in DOMAIN allocation_map :
                /\ q \in Requests /\ allocation_map[q] \in Nat
                /\ Totals[q] = TotalTokens(req[q]) /\ Totals[q] \in Nat
                /\ Totals[q] - allocation_map[q] >= 1
           /\ \A q \in Range(preempted_requests) :
                /\ q \in DOMAIN allocation_map
                /\ allocation_map[q] = req[q].processed - 1
                /\ Totals[q] - allocation_map[q] >= 2
           /\ Holdings(DOMAIN allocation_map, Due, Totals)
<1>1. ReplicaTypes /\ RequestsInv /\ Conserved(preempted_requests)
  BY CoreHolds DEF LightInv
<1>2. IsFiniteSet(DOMAIN allocation_map)
  BY <1>1, MemoryTyped, HeldFinite
<1>3. \A q \in DOMAIN allocation_map :
            q \in Requests /\ allocation_map[q] \in Nat /\ Totals[q] = TotalTokens(req[q])
  BY <1>1 DEF ReplicaTypes, Totals
<1>4. \A q \in Requests :
            /\ req[q].prefill \in Nat /\ req[q].decode \in Nat \ {0} /\ req[q].processed \in Nat
            /\ TotalTokens(req[q]) = req[q].prefill + req[q].decode
  BY <1>1, RequestFields DEF RequestsInv
<1>5. \A q \in Range(preempted_requests) :
            /\ q \in DOMAIN allocation_map
            /\ allocation_map[q] = req[q].processed - 1
            /\ Totals[q] - allocation_map[q] >= 2
  <2> TAKE q \in Range(preempted_requests)
  <2>1. q \in DOMAIN allocation_map
    BY PlaceFacts
  <2>2. /\ req[q].processed < TotalTokens(req[q])
        /\ allocation_map[q] = req[q].processed - 1
    BY <1>1 DEF RequestsInv, ExactTokens
  <2> QED BY <1>3, <1>4, <2>1, <2>2
<1>6. ASSUME NEW q \in Requests, NEW n, InBatch(q, n)
      PROVE  TotalTokens(req[q]) - allocation_map[q] >= 1
  BY <1>4, <1>6 DEF InBatch, Prefilling, Decoding
<1>7. \A q \in DOMAIN allocation_map :
            Totals[q] \in Nat /\ Totals[q] - allocation_map[q] >= 1
  <2> TAKE q \in DOMAIN allocation_map
  <2>1. CASE q \in Range(preempted_requests)
    BY <1>3, <1>4, <1>5, <2>1
  <2>2. CASE q \in Ids(batch) \cup RunningIds
    <3>1. \E n : InBatch(q, n)
      BY <1>1, <2>2 DEF Ids, RunningIds, IdsIn, Range, RequestsInv
    <3> QED BY <1>3, <1>4, <1>6, <3>1
  <2> QED BY <1>1, <2>1, <2>2 DEF Conserved
<1>8. Due \in [DOMAIN allocation_map -> Nat]
  BY <1>3 DEF Due
<1>9. \A q \in DOMAIN allocation_map : Totals[q] \in Int /\ Totals[q] - Due[q] >= 1
  BY <1>3, <1>5, <1>7 DEF Due
<1> QED BY <1>2, <1>3, <1>5, <1>7, <1>8, <1>9 DEF Holdings

(* The code's look-ahead for the preempted requests and those of a prefill  *)
(* computes with what they hold, and with what a newcomer will hold.        *)
LEMMA CountsHoldings ==
    ASSUME LightInv, pc \in {"form", "prefill"},
           NEW New, New \subseteq Range(request_queue), IsFiniteSet(New),
           NEW D, D = Range(preempted_requests) \cup Ids(batch) \cup New,
           NEW due, due \in [D -> Nat],
           \A q \in D : due[q] = IF q \in New THEN req[q].prefill ELSE allocation_map[q]
    PROVE  Counted(D, due, Totals)
<1>1. /\ ReplicaTypes /\ RequestsInv /\ LoopStarts
      /\ Range(preempted_requests) \cap Ids(batch) = {}
      /\ Range(request_queue) \cap DOMAIN allocation_map = {}
      /\ DOMAIN allocation_map = Range(preempted_requests) \cup Ids(batch)
  BY CoreHolds, NoneRuns DEF LightInv, Conserved
<1>2. IsFiniteSet(D)
  BY <1>1, HeldTokens, FS_Union
<1>3. \A q \in D : q \in Requests
  BY <1>1, PlaceFacts
<1>4. \A q \in Requests :
            /\ req[q].prefill \in Nat /\ req[q].decode \in Nat \ {0} /\ req[q].processed \in Nat
            /\ TotalTokens(req[q]) = req[q].prefill + req[q].decode
            /\ Totals[q] = TotalTokens(req[q])
  BY <1>1, RequestFields DEF RequestsInv, Totals
<1>5. ASSUME NEW q \in Ids(batch) PROVE allocation_map[q] = req[q].prefill
  <2>1. PICK i \in DOMAIN batch : q = batch[i].id
    BY <1>5 DEF Ids
  <2>2. batch[i] \in Range(batch)
    BY DEF Range
  <2>3. batch # <<>>
    BY <1>5 DEF Ids
  <2>4. Prefilling(batch[i].id, batch[i].tokens)
    BY <1>1, <2>2, <2>3 DEF LoopStarts
  <2> QED BY <2>1, <2>4 DEF Prefilling
<1>6. \A q \in D : /\ Totals[q] \in Int /\ Totals[q] - due[q] >= 1
                   /\ HasRun(q) = due[q] + 1
                   /\ LeftOut(q) = Max({0, Totals[q] - due[q] - 2})
  <2> TAKE q \in D
  <2>1. CASE q \in Range(preempted_requests)
    <3>1. due[q] = req[q].processed - 1 /\ Totals[q] - due[q] >= 2
      BY <1>1, <2>1, HeldTokens
    <3>2. HasRun(q) = due[q] + 1
      BY <1>3, <1>4, <2>1, <3>1 DEF HasRun
    <3>3. TotalTokens(req[q]) - req[q].processed - 1 = Totals[q] - due[q] - 2
      BY <1>3, <1>4, <3>1
    <3>4. LeftOut(q) = Max({0, Totals[q] - due[q] - 2})
      BY <2>1, <3>3 DEF LeftOut
    <3> QED BY <1>3, <1>4, <3>1, <3>2, <3>4
  <2>2. CASE q \notin Range(preempted_requests)
    <3>1. due[q] = req[q].prefill
      BY <1>5, <2>2
    <3>2. HasRun(q) = due[q] + 1
      BY <2>2, <3>1 DEF HasRun
    <3>3. req[q].decode - 2 = Totals[q] - due[q] - 2
      BY <1>3, <1>4, <3>1
    <3>4. LeftOut(q) = Max({0, Totals[q] - due[q] - 2})
      BY <2>2, <3>3 DEF LeftOut
    <3>5. Totals[q] \in Int /\ Totals[q] - due[q] >= 1
      BY <1>3, <1>4, <3>1
    <3> QED BY <3>2, <3>4, <3>5
  <2> QED BY <2>1, <2>2
<1> QED BY <1>2, <1>6 DEF Counted, Holdings

(* An admission leaves every peak below what the replica has. *)
LEMMA PeakAdmits ==
    ASSUME LightInv, Admit
    PROVE  PeakBelow(Due', Totals')
<1>1. PICK r, New : r = Head(request_queue) /\ New = {r}
  OBVIOUS
<1>2. /\ r \in Requests /\ r \in Range(request_queue)
      /\ allocation_map'[r] = req[r].prefill
      /\ DOMAIN allocation_map' = DOMAIN allocation_map \cup {r}
      /\ \A x \in DOMAIN allocation_map : allocation_map'[x] = allocation_map[x]
      /\ CommonNext
  BY <1>1, Admits
<1>3. pc = "prefill" /\ pc' = "prefill" /\ CanAllocateRequest(r) /\ req' = req
  BY <1>1 DEF Admit, CanAdmit
<1>4. ReplicaTypes'
  BY <1>2 DEF CommonNext, Core
<1>5. Totals' = Totals
  BY <1>3 DEF Totals
<1>6. PICK D, due : D = DOMAIN allocation_map' /\ due = allocation_map'
  OBVIOUS
<1>7. Due' = due /\ due \in [D -> Nat]
  BY <1>3, <1>4, <1>6, DueIs DEF ReplicaTypes
<1>8. D = Range(preempted_requests) \cup Ids(batch) \cup New
  BY <1>1, <1>2, <1>3, <1>6, NoneRuns
<1>9. Counted(D, due, Totals)
  <2>1. New \subseteq Range(request_queue) /\ IsFiniteSet(New)
    BY <1>1, <1>2, FS_Singleton
  <2>2. \A q \in D : due[q] = IF q \in New THEN req[q].prefill ELSE allocation_map[q]
    BY <1>1, <1>2, <1>6
  <2> QED BY <1>3, <1>7, <1>8, <2>1, <2>2, CountsHoldings
<1>10. NeedMaxTokens(D) < NumBlocks /\ D # {}
  BY <1>1, <1>3, <1>8 DEF CanAllocateRequest
<1>11. \A q \in D : HeldWithLast(D, q) < NumBlocks
  BY <1>9, <1>10, NeedBelow
<1>12. \A q \in D : PeakOf(due, Totals, q) < NumBlocks
  <2> TAKE q \in D
  <2>1. /\ HeldWithLast(D, q) \in Nat /\ PeakOf(due, Totals, q) <= HeldWithLast(D, q)
        /\ PeakOf(due, Totals, q) \in Nat
    BY <1>9, LookAhead, PeakTerms DEF Counted
  <2> QED BY <1>11, <2>1, ReplicaAssumption
<1> QED BY <1>5, <1>7, <1>12 DEF PeakBelow

(* The start of a decode for all changes no peak. *)
LEMMA PeakStarts ==
    ASSUME LightInv, StartDecode \/ (PrefillDone /\ ~ReturnBatch)
    PROVE  PeakBelow(Due', Totals')
<1>1. /\ pc \in {"form", "prefill"} /\ pc' = "decode" /\ batch = <<>>
      /\ UNCHANGED <<req, allocation_map, preempted_requests>>
  BY DEF LightInv, LoopStarts, StartDecode, PrefillDone, memory
<1>2. PICK D, due, total, due2 :
            D = DOMAIN allocation_map /\ due = Due /\ total = Totals /\ due2 = Due'
  OBVIOUS
<1>3. D = Range(preempted_requests)
  BY <1>1, <1>2, NoneRuns DEF Ids
<1>4. due = allocation_map /\ Holdings(D, due, total) /\ PeakBelow(due, total)
  BY <1>1, <1>2, CoreHolds, DueIs, HeldTokens DEF LightInv
<1>5. due2 = [q \in D |-> due[q] + 1]
  BY <1>1, <1>2, <1>3, <1>4 DEF Due
<1>6. due2 \in [D -> Nat] /\ \A q \in D : due2[q] = due[q] + 1
  BY <1>4, <1>5 DEF Holdings
<1>7. PeakBelow(due2, total)
  BY <1>4, <1>6, PeakDecodes
<1>8. Totals' = total
  BY <1>1, <1>2 DEF Totals
<1> QED BY <1>2, <1>7, <1>8

(* The end of a request, or of its turn, makes no peak larger. *)
LEMMA PeakEnds ==
    ASSUME LightInv, EndRequest, RequestsInv'
    PROVE  PeakBelow(Due', Totals')
<1>1. PICK r, n : r = Head(batch).id /\ n = Head(batch).tokens
  OBVIOUS
<1>2. /\ pc = "end" /\ pc' = "end" /\ asked' = asked
  BY DEF EndRequest
<1>3. /\ CommonNext
      /\ \A x \in DOMAIN allocation_map \ {r} : allocation_map'[x] = allocation_map[x]
      /\ req'[r].completed => DOMAIN allocation_map' = DOMAIN allocation_map \ {r}
      /\ ~req'[r].completed => allocation_map' = allocation_map
  BY <1>1, Ends
<1>4. ReplicaTypes' /\ ReplicaTypes /\ RequestsInv
  BY <1>3, CoreHolds DEF CommonNext, Core, LightInv
<1>5. Totals' = Totals
  <2>1. \A q \in Requests : Totals'[q] = Totals[q]
    BY <1>2, <1>4, TotalsAre
  <2>2. Totals = [q \in Requests |-> Totals[q]] /\ Totals' = [q \in Requests |-> Totals'[q]]
    BY DEF Totals
  <2> QED BY <2>1, <2>2
<1>6. PICK D, due, total, E, due2 :
            /\ D = DOMAIN allocation_map /\ due = Due /\ total = Totals
            /\ E = DOMAIN allocation_map' /\ due2 = Due'
  OBVIOUS
<1>7. due = allocation_map /\ due2 = allocation_map'
  BY <1>2, <1>4, <1>6, DueIs
<1>8. Holdings(D, due, total) /\ PeakBelow(due, total)
  BY <1>6, HeldTokens DEF LightInv
<1>9. E \subseteq D /\ due2 \in [E -> Nat] /\ \A q \in E : due2[q] = due[q]
  BY <1>3, <1>4, <1>6, <1>7 DEF ReplicaTypes
<1>10. PeakBelow(due2, total)
  BY <1>8, <1>9, PeakShrinks
<1> QED BY <1>5, <1>6, <1>10

(* A decode takes the memory that was due. *)
LEMMA DueTaken ==
    ASSUME LightInv, Decode
    PROVE  Due' = Due
<1>1. PICK r : r = Head(preempted_requests)
  OBVIOUS
<1>2. pc = "decode" /\ pc' = "decode"
  BY DEF Decode
<1>3. /\ r \in Range(preempted_requests) /\ r \notin Range(preempted_requests')
      /\ Range(preempted_requests) = Range(preempted_requests') \cup {r}
      /\ allocation_map'[r] = allocation_map[r] + 1
      /\ DOMAIN allocation_map' = DOMAIN allocation_map
      /\ \A x \in DOMAIN allocation_map \ {r} : allocation_map'[x] = allocation_map[x]
  BY <1>1, Decodes
<1> QED BY <1>2, <1>3 DEF Due

(* Every peak stays below what the replica has. *)
LEMMA PeakStep ==
    ASSUME LightInv, [LightNext]_lightVars, RequestsInv'
    PROVE  PeakBelow(Due', Totals')
<1>1. PeakBelow(Due, Totals) /\ ReplicaTypes /\ ReplicaTypes'
  BY CommonStep, CoreHolds DEF LightInv, CommonNext, Core
<1>2. ASSUME allocation_map' = allocation_map, req' = req,
             pc # "decode" \/ preempted_requests = <<>>,
             pc' # "decode" \/ preempted_requests' = <<>>
      PROVE  PeakBelow(Due', Totals')
  <2>1. Due' = Due /\ Totals' = Totals
    BY <1>1, <1>2, DueIs DEF Totals
  <2> QED BY <1>1, <2>1
<1>3. CASE Decode
  <2>1. Due' = Due /\ Totals' = Totals
    BY <1>3, DueTaken DEF Totals, Decode
  <2> QED BY <1>1, <2>1
<1>4. CASE \/ TryPrefill \/ AddRequests \/ OnSchedule \/ BatchEnd \/ BatchEnded
  <2>1. /\ allocation_map' = allocation_map /\ req' = req
        /\ pc # "decode" /\ pc' # "decode"
    BY <1>4 DEF TryPrefill, AddRequests, OnSchedule, BatchEnd, BatchEnded, NextLoop, memory
  <2> QED BY <1>2, <2>1
<1>5. CASE (PrefillDone \/ DecodeDone) /\ ReturnBatch
  <2>1. pc # "decode" \/ preempted_requests = <<>>
    BY <1>5 DEF PrefillDone, DecodeDone
  <2>2. pc' # "decode" /\ allocation_map' = allocation_map /\ req' = req
    BY <1>5, Returns
  <2> QED BY <1>2, <2>1, <2>2
<1>6. CASE UNCHANGED lightVars
  <2>1. Due' = Due /\ Totals' = Totals
    BY <1>6 DEF lightVars, vars, memory, Due, Totals
  <2> QED BY <1>1, <2>1
<1>7. DecodeDone => ReturnBatch
  BY DEF DecodeDone
<1>8. CASE StartDecode \/ (PrefillDone /\ ~ReturnBatch)
  BY <1>8, PeakStarts
<1> QED BY <1>3, <1>4, <1>5, <1>6, <1>7, <1>8, PeakAdmits, PeakEnds DEF LightNext

-----------------------------------------------------------------------------
(* The theorems. *)

(* For any number of requests, any arrivals and lengths, no request is lost *)
(* or in two places, it holds exactly the memory of its context, and the    *)
(* memory that all will hold when any of them ends is below what the        *)
(* replica has.                                                             *)
THEOREM LightIsSafe == Spec => []LightInv
<1>1. LightInit => LightInv
  <2> SUFFICES ASSUME LightInit PROVE LightInv
    OBVIOUS
  <2>1. Core /\ num_allocated_blocks = 0 /\ NothingLost
    BY CoreInit DEF LightInit, Init, NothingLost
  <2>2. pc = "idle" /\ batch = <<>> /\ preempted_requests = <<>> /\ request_queue = <<>>
        /\ running_batches = <<>> /\ allocation_map = [r \in {} |-> 0]
        /\ \A r \in Requests : req[r] = NewRequest(asked[r].prefill, asked[r].decode)
    BY DEF LightInit, Init
  <2>3. TypeOK
    <3>1. Max({1, MaxWaitingIters}) >= 0 /\ Max({1, MaxWaitingIters}) \in Int
      <4>1. \E x \in {1, MaxWaitingIters} : \A y \in {1, MaxWaitingIters} : x >= y
        BY LightLLMAssumption
      <4>2. /\ Max({1, MaxWaitingIters}) \in {1, MaxWaitingIters}
        BY <4>1, Zenon DEF Max
      <4> QED BY <4>2, LightLLMAssumption
    <3> QED BY <2>1, <2>2, <3>1 DEF TypeOK, Core, LightInit
  <2>4. Range(<<>>) = {} /\ DOMAIN running_batches = {}
    BY <2>2 DEF Range
  <2>5. RequestsInv
    <3>1. \A r \in Requests : /\ req[r].prefill = asked[r].prefill
                              /\ req[r].decode = asked[r].decode
                              /\ ~req[r].completed
      <4> TAKE r \in Requests
      <4>1. req[r] = NewRequest(asked[r].prefill, asked[r].decode)
        BY <2>2
      <4>2. req[r].completed = FALSE
        BY <4>1 DEF NewRequest
      <4> QED BY <4>1, <4>2 DEF NewRequest
    <3>2. /\ Range(request_queue) = {} /\ Range(preempted_requests) = {} /\ Range(batch) = {}
      BY <2>2, <2>4
    <3> QED BY <2>4, <3>1, <3>2 DEF RequestsInv
  <2>6. LoopStarts
    BY <2>2 DEF LoopStarts
  <2>7. PeakBelow(Due, Totals)
    <3>1. DOMAIN Due = {}
      BY <2>2 DEF Due
    <3> QED BY <3>1 DEF PeakBelow
  <2> QED BY <2>1, <2>3, <2>5, <2>6, <2>7 DEF LightInv, Core
<1>2. ASSUME LightInv, [LightNext]_lightVars PROVE LightInv'
  <2>1. /\ TypeOK' /\ PipelineCount' /\ NotArrived' /\ NothingLost' /\ WithinCap'
        /\ (num_allocated_blocks = Cardinality(HeldBlocks))'
    BY <1>2, CommonStep, LocalsStep, CommonParts
  <2>2. RequestsInv' /\ LoopStarts'
    BY <1>2, RequestsStep, LoopStartsStep
  <2>3. PeakBelow(Due', Totals')
    BY <1>2, <2>2, PeakStep
  <2>4. PeakBelow(Due, Totals)'
    BY <2>3 DEF PeakBelow, PeakOf
  <2> QED BY <2>1, <2>2, <2>4 DEF LightInv
<1> QED BY <1>1, <1>2, PTL DEF Spec

(* While no request has less left than c more tokens, the replica has c     *)
(* more tokens of memory for each.                                          *)
LEMMA RoomForAll ==
    ASSUME LightInv, NEW c \in Nat,
           \A q \in DOMAIN allocation_map : Totals[q] - Due[q] >= 1 + c,
           DOMAIN allocation_map # {}
    PROVE  SumFunctionOnSet(Due, DOMAIN allocation_map)
                + c * Cardinality(DOMAIN allocation_map) < NumBlocks
BY HeldTokens, PeakCovers DEF LightInv

(* The counter is the sum of what the requests hold. *)
LEMMA CounterIsSum ==
    ASSUME LightInv
    PROVE  num_allocated_blocks = SumFunctionOnSet(allocation_map, DOMAIN allocation_map)
<1>1. /\ IsFiniteSet(DOMAIN allocation_map)
      /\ allocation_map \in [DOMAIN allocation_map -> Nat]
  BY HeldTokens, CoreHolds DEF ReplicaTypes
<1>2. Cardinality(BlocksIn(allocation_map))
            = SumFunctionOnSet(allocation_map, DOMAIN allocation_map)
  BY <1>1, BlocksSum
<1> QED BY <1>2 DEF LightInv, HeldBlocks

(* The batch and the preempted requests fit in the limit of the batch. *)
LEMMA TogetherWithinCap ==
    ASSUME LightInv
    PROVE  /\ Len(batch) + Len(preempted_requests) <= BatchSizeCap
           /\ IsFiniteSet(Range(preempted_requests))
           /\ Len(preempted_requests) = Cardinality(Range(preempted_requests))
<1>1. /\ preempted_requests \in Seq(Requests) /\ batch \in Seq(BatchEntry)
      /\ IsInjective(preempted_requests) /\ DistinctIds(batch)
      /\ Range(preempted_requests) \cap Ids(batch) = {}
      /\ Range(preempted_requests) \cup Ids(batch) \subseteq DOMAIN allocation_map
      /\ Cardinality(DOMAIN allocation_map) <= BatchSizeCap
  BY CoreHolds DEF Conserved, LightInv, WithinCap
<1>2. /\ IsFiniteSet(Range(preempted_requests))
      /\ Len(preempted_requests) = Cardinality(Range(preempted_requests))
  BY <1>1, DistinctLength
<1> DEFINE ids == [i \in DOMAIN batch |-> batch[i].id]
<1>3. IsFiniteSet(Ids(batch)) /\ Cardinality(Ids(batch)) = Len(batch)
  <2>1. ids \in Seq(Requests) /\ Len(ids) = Len(batch)
    <3>1. Len(batch) \in Nat /\ DOMAIN batch = 1 .. Len(batch)
      BY <1>1, LenProperties
    <3>2. \A i \in DOMAIN batch : batch[i].id \in Requests
      <4>1. \A i \in DOMAIN batch : batch[i] \in BatchEntry
        BY <1>1, <3>1, ElementOfSeq
      <4> QED BY <4>1 DEF BatchEntry
    <3>3. ids \in [1 .. Len(batch) -> Requests]
      BY <3>1, <3>2
    <3>4. ids \in Seq(Requests)
      BY <3>1, <3>3, SeqDef
    <3> QED BY <3>1, <3>3, <3>4, LenProperties
  <2>2. Range(ids) = Ids(batch) /\ IsInjective(ids)
    BY <1>1 DEF Range, Ids, DistinctIds, IsInjective
  <2> HIDE DEF ids
  <2> QED BY <2>1, <2>2, DistinctLength
<1> DEFINE U == Range(preempted_requests) \cup Ids(batch)
<1>4. IsFiniteSet(U) /\ Cardinality(U) = Cardinality(Range(preempted_requests))
                                            + Cardinality(Ids(batch))
  <2>1. Cardinality({}) = 0
    BY FS_EmptySet
  <2>2. /\ Cardinality(U) = Cardinality(Range(preempted_requests)) + Cardinality(Ids(batch))
                                - Cardinality(Range(preempted_requests) \cap Ids(batch))
        /\ IsFiniteSet(U)
    BY <1>2, <1>3, FS_Union
  <2>3. /\ Cardinality(Range(preempted_requests)) \in Nat /\ Cardinality(Ids(batch)) \in Nat
        /\ Cardinality(U) \in Nat
    BY <1>2, <1>3, <2>2, FS_CardinalityType
  <2>4. Cardinality(Range(preempted_requests) \cap Ids(batch)) = 0
    BY <1>1, <2>1
  <2> HIDE DEF U
  <2> QED BY <2>2, <2>3, <2>4
<1>5. Cardinality(U) <= Cardinality(DOMAIN allocation_map)
  BY <1>1, HeldTokens, FS_Subset
<1>6. /\ Cardinality(U) \in Nat /\ Cardinality(DOMAIN allocation_map) \in Nat
      /\ Len(batch) \in Nat /\ Len(preempted_requests) \in Nat
  BY <1>1, <1>4, HeldTokens, FS_CardinalityType, LenProperties
<1> HIDE DEF U
<1>7. Cardinality(U) = Len(preempted_requests) + Len(batch)
  BY <1>2, <1>3, <1>4
<1>8. Len(batch) + Len(preempted_requests) <= BatchSizeCap
  BY <1>1, <1>5, <1>6, <1>7, ReplicaAssumption
<1> QED BY <1>2, <1>8

(* The memory due is what is held, and one token for each request of the    *)
(* decode being formed; it is less than the replica has.                    *)
LEMMA MemoryDue ==
    ASSUME LightInv
    PROVE  /\ num_allocated_blocks \in Nat /\ num_allocated_blocks <= NumBlocks
           /\ pc = "decode" => num_allocated_blocks + Len(preempted_requests) <= NumBlocks
<1> DEFINE D == DOMAIN allocation_map
           R == IF pc = "decode" THEN Range(preempted_requests) ELSE {}
           total == SumFunctionOnSet(Due, D)
<1>1. /\ IsFiniteSet(D) /\ R \subseteq D
      /\ \A q \in D : /\ allocation_map[q] \in Nat
                      /\ Due[q] = IF q \in R THEN allocation_map[q] + 1 ELSE allocation_map[q]
  BY HeldTokens DEF Due
<1>2. total = num_allocated_blocks + Cardinality(R)
  <2>1. \A q \in D : allocation_map[q] \in Int
    BY <1>1
  <2> HIDE DEF R
  <2>2. total = SumFunctionOnSet(allocation_map, D) + Cardinality(R)
    BY <1>1, <2>1, SumOneMore
  <2> QED BY <2>2, CounterIsSum
<1>3. /\ Cardinality(R) \in Nat
      /\ pc = "decode" => Cardinality(R) = Len(preempted_requests)
  <2>1. IsFiniteSet(R)
    BY <1>1, FS_Subset
  <2> QED BY <2>1, FS_CardinalityType, TogetherWithinCap
<1>4. num_allocated_blocks \in Nat
  BY <1>1, CounterIsSum, SumFacts
<1>5. total <= NumBlocks
  <2>1. CASE D = {}
    <3>1. total = 0
      BY <1>1, <2>1, SumFacts
    <3> QED BY <3>1, CoreHolds
  <2>2. CASE D # {}
    <3>1. \A q \in D : Totals[q] - Due[q] >= 1 + 0
      BY HeldTokens DEF Holdings
    <3>2. total + 0 * Cardinality(D) < NumBlocks
      BY <2>2, <3>1, RoomForAll
    <3>3. 0 * Cardinality(D) = 0
      BY <1>1, FS_CardinalityType
    <3>4. total \in Int
      BY <1>2, <1>3, <1>4
    <3> HIDE DEF total
    <3> QED BY <3>2, <3>3, <3>4, CoreHolds
  <2> QED BY <2>1, <2>2
<1> HIDE DEF total, R, D
<1> QED BY <1>2, <1>3, <1>4, <1>5, CoreHolds

(* When a batch is to be formed there is a token of memory for each         *)
(* preempted request.                                                       *)
LEMMA RoomToDecode ==
    ASSUME LightInv, pc = "form"
    PROVE  CanDecode
<1> DEFINE D == DOMAIN allocation_map
<1>1. batch = <<>> /\ D = Range(preempted_requests)
  BY NoneRuns DEF LightInv, LoopStarts, Ids
<1>2. Due = allocation_map /\ IsFiniteSet(D)
  BY CoreHolds, DueIs, HeldTokens
<1>3. Len(preempted_requests) = Cardinality(D) /\ Cardinality(D) \in Nat
  BY <1>1, <1>2, TogetherWithinCap, FS_CardinalityType
<1>4. CASE D = {}
  <2>1. Cardinality(D) = 0
    BY <1>4, FS_EmptySet
  <2> QED BY <1>3, <2>1, MemoryDue, CoreHolds DEF CanDecode, FreeBlocks
<1>5. CASE D # {}
  <2>1. \A q \in D : Totals[q] - Due[q] >= 1 + 1
    BY <1>1, <1>2, HeldTokens
  <2>2. SumFunctionOnSet(Due, D) + 1 * Cardinality(D) < NumBlocks
    BY <1>5, <2>1, RoomForAll
  <2>3. SumFunctionOnSet(Due, D) = num_allocated_blocks
    BY <1>2, CounterIsSum
  <2>4. 1 * Cardinality(D) = Cardinality(D)
    BY <1>3
  <2> HIDE DEF D
  <2> QED BY <1>3, <2>2, <2>3, <2>4, MemoryDue, CoreHolds DEF CanDecode, FreeBlocks
<1> QED BY <1>4, <1>5

(* Whatever arrives and ends, every decode of all the preempted requests    *)
(* finds its memory and its place in the batch, so that the RuntimeError    *)
(* and the assertions of _get_decode_batch are never reached; and the       *)
(* counter counts what is held and stays within the replica.                *)
THEOREM NeverRunsOut == Spec => []NeverOutOfMemory
<1>1. LightInv => NeverOutOfMemory
  <2> SUFFICES ASSUME LightInv PROVE NeverOutOfMemory
    OBVIOUS
  <2>1. pc = "form" => CanDecode
    BY RoomToDecode
  <2>2. /\ num_allocated_blocks <= NumBlocks
        /\ pc = "decode" => FreeBlocks >= Len(preempted_requests)
    <3>1. Len(preempted_requests) \in Nat
      BY CoreHolds, LenProperties
    <3> QED BY <3>1, MemoryDue, CoreHolds DEF FreeBlocks
  <2>3. num_allocated_blocks = Cardinality(HeldBlocks)
    BY DEF LightInv
  <2>4. Len(batch) + Len(preempted_requests) <= MaxMicroBatchSize
    BY TogetherWithinCap DEF MaxMicroBatchSize
  <2> QED BY <2>1, <2>2, <2>3, <2>4 DEF NeverOutOfMemory
<1> QED BY <1>1, LightIsSafe, PTL

(* When a batch is to be formed the code's own look-ahead, taken for the    *)
(* requests already in memory, is still below what the replica has.         *)
THEOREM LookAheadHolds == Spec => []PeakHolds
<1>1. LightInv => PeakHolds
  <2> SUFFICES ASSUME LightInv, pc = "form", preempted_requests # <<>>
               PROVE  NeedMaxTokens(Range(preempted_requests)) < NumBlocks
    BY DEF PeakHolds
  <2>1. PICK D, due, New : D = DOMAIN allocation_map /\ due = Due /\ New = {}
    OBVIOUS
  <2>2. batch = <<>> /\ D = Range(preempted_requests)
    BY <2>1, NoneRuns DEF LightInv, LoopStarts, Ids
  <2>3. D # {}
    BY <2>2, TailRange, CoreHolds
  <2>4. due = allocation_map /\ due \in [D -> Nat] /\ PeakBelow(due, Totals)
    BY <2>1, CoreHolds, DueIs DEF ReplicaTypes, LightInv
  <2>5. Counted(D, due, Totals)
    <3>1. New \subseteq Range(request_queue) /\ IsFiniteSet(New)
      BY <2>1, FS_EmptySet
    <3>2. D = Range(preempted_requests) \cup Ids(batch) \cup New
      BY <2>1, <2>2 DEF Ids
    <3>3. \A q \in D : due[q] = IF q \in New THEN req[q].prefill ELSE allocation_map[q]
      BY <2>1, <2>4
    <3> QED BY <2>4, <3>1, <3>2, <3>3, CountsHoldings
  <2>6. \A q \in D : Totals[q] - due[q] >= 2
    BY <2>2, <2>4, HeldTokens
  <2>7. \A q \in D : HeldWithLast(D, q) = PeakOf(due, Totals, q)
    BY <2>5, <2>6, LookAhead
  <2>8. \A q \in D : HeldWithLast(D, q) < NumBlocks
    BY <2>4, <2>7 DEF PeakBelow
  <2> QED BY <2>2, <2>3, <2>5, <2>8, NeedBelow
<1> QED BY <1>1, LightIsSafe, PTL

-----------------------------------------------------------------------------
(* The refinement of TokenService. *)

(* The output of a request stops at the length it asked for. *)
LEMMA EmittedBound == LightInv => OutputBounded
<1> SUFFICES ASSUME LightInv, NEW r \in Requests
             PROVE  /\ Emitted(r) <= asked[r].decode
                    /\ req[r].completed <=> Emitted(r) = asked[r].decode
  BY DEF OutputBounded
<1>1. ReplicaTypes /\ NothingLost /\ RequestsInv /\ NotArrived
  BY CoreHolds DEF LightInv
<1>2. /\ asked[r].prefill \in Nat /\ asked[r].decode \in Nat \ {0}
      /\ req[r].prefill = asked[r].prefill /\ req[r].decode = asked[r].decode
      /\ req[r].processed \in Nat
      /\ TotalTokens(req[r]) = req[r].prefill + req[r].decode
  BY <1>1, RequestFields DEF RequestsInv
<1>3. CASE req[r].completed
  <2>1. req[r].prefill_complete /\ req[r].processed = TotalTokens(req[r])
    BY <1>1, <1>3 DEF RequestsInv
  <2> QED BY <1>2, <1>3, <2>1 DEF Emitted
<1>4. ASSUME ~req[r].completed PROVE Emitted(r) < asked[r].decode
  <2>1. CASE r \notin Arrived
    <3>1. req[r] = NewRequest(asked[r].prefill, asked[r].decode)
      BY <1>1, <2>1 DEF NotArrived
    <3>2. ~req[r].prefill_complete
      BY <3>1 DEF NewRequest
    <3> QED BY <1>2, <3>2 DEF Emitted
  <2>2. CASE Fresh(r)
    BY <1>2, <2>2 DEF Emitted, Fresh
  <2>3. CASE req[r].prefill_complete /\ req[r].processed < TotalTokens(req[r])
    BY <1>2, <2>3 DEF Emitted
  <2>4. CASE r \in Arrived
    <3>1. r \in Range(request_queue) \cup Range(preempted_requests)
                    \cup Ids(batch) \cup RunningIds
      BY <1>1, <1>4, <2>4 DEF NothingLost, Conserved, Live
    <3>2. r \in Range(request_queue) => Fresh(r)
      BY <1>1 DEF RequestsInv
    <3>3. r \in Range(preempted_requests) => ExactTokens(r)
      BY <1>1 DEF RequestsInv
    <3>4. r \in Ids(batch) \cup RunningIds => \E n : InBatch(r, n)
      BY <1>1 DEF RequestsInv, RunningIds, IdsIn, Ids, Range
    <3> QED BY <2>2, <2>3, <3>1, <3>2, <3>3, <3>4
            DEF InBatch, Prefilling, Decoding, ExactTokens
  <2> QED BY <2>1, <2>4
<1>5. Emitted(r) \in Int
  BY <1>2 DEF Emitted
<1> QED BY <1>2, <1>3, <1>4, <1>5

(* Each step of the scheduler is one of the service or is not seen.         *)
LEMMA ServiceSteps ==
    LightInv /\ Phases /\ Phases' /\ OutputBounded' /\ [LightNext]_lightVars
        => [Service!ServiceNext]_(Service!serviceVars)
<1> SUFFICES ASSUME LightInv, Phases, Phases', OutputBounded', [LightNext]_lightVars
             PROVE  Service!ServiceNext \/ UNCHANGED Service!serviceVars
  OBVIOUS
<1>0. asked' = asked /\ Core /\ Conserved(preempted_requests)
  BY AskedStays, CoreHolds
<1>1. CASE AddRequests
  BY <1>0, <1>1, ServiceSubmits
<1>2. CASE Admit
  <2>0. PICK r : r = Head(request_queue)
    OBVIOUS
  <2>1. /\ Cardinality(DOMAIN allocation_map) # BatchSizeCap
        /\ UNCHANGED <<req, num_arrived, preempted_requests, running_batches>>
    BY <1>2 DEF Admit, CanAdmit, pipeline
  <2>2. r \in Range(request_queue) /\ r \in Requests /\ Ids(batch') = Ids(batch) \cup {r}
    BY <1>2, <2>0, Admits
  <2> QED BY <1>0, <2>1, <2>2, ServiceBatches
<1>3. CASE Decode
  <2>0. PICK r : r = Head(preempted_requests)
    OBVIOUS
  <2>1. UNCHANGED <<req, num_arrived, running_batches>>
    BY <1>3 DEF Decode, pipeline
  <2>2. /\ r \in Requests /\ Ids(batch') = Ids(batch) \cup {r}
        /\ Range(preempted_requests) = Range(preempted_requests') \cup {r}
    BY <1>3, <2>0, Decodes
  <2> QED BY <1>0, <2>1, <2>2, ServiceBatches
<1>4. CASE EndRequest
  <2>0. PICK r, n : r = Head(batch).id /\ n = Head(batch).tokens
    OBVIOUS
  <2>1. UNCHANGED <<num_arrived, running_batches>>
    BY <1>4 DEF EndRequest, pipeline
  <2>2. /\ r \in Requests /\ n \in Nat /\ InBatch(r, n) /\ ~req[r].completed
        /\ Ids(batch) = Ids(batch') \cup {r}
        /\ req'[r] = OnBatchEnd(req[r], n)
        /\ \A q \in Requests \ {r} : req'[q] = req[q]
        /\ req'[r].completed => preempted_requests' = preempted_requests
        /\ ~req'[r].completed =>
                Range(preempted_requests') = Range(preempted_requests) \cup {r}
    BY <1>4, <2>0, Ends
  <2>3. Emitted(r)' = Emitted(r) + 1
    <3>1. /\ req'[r].prefill_complete
          /\ req'[r].processed =
                (IF req[r].prefill_complete THEN req[r].processed ELSE req[r].prefill) + 1
      BY <2>2, EndOfBatch
    <3>2. /\ asked[r].prefill \in Nat /\ req[r].prefill \in Nat
          /\ req[r].processed \in Nat
      BY <2>2, CoreHolds, RequestFields
    <3> QED BY <1>0, <3>1, <3>2 DEF Emitted
  <2> QED BY <1>0, <2>1, <2>2, <2>3, ServiceEmits
<1>5. CASE (PrefillDone \/ DecodeDone) /\ ReturnBatch
  BY <1>0, <1>5, Returns, ServiceRests
<1>6. CASE BatchEnd
  <2>1. UNCHANGED <<req, num_arrived, preempted_requests>>
    BY <1>6 DEF BatchEnd
  <2> QED BY <1>0, <1>6, <2>1, BatchEndMove, ServiceRests
<1>7. CASE \/ TryPrefill \/ StartDecode \/ (PrefillDone /\ ~ReturnBatch)
           \/ OnSchedule \/ BatchEnded \/ UNCHANGED lightVars
  <2>1. UNCHANGED <<req, num_arrived, preempted_requests, running_batches, batch>>
    BY <1>7 DEF TryPrefill, StartDecode, PrefillDone, OnSchedule, BatchEnded, lightVars,
                vars, pipeline
  <2>2. RunningIds' = RunningIds
    BY <2>1 DEF RunningIds
  <2> QED BY <1>0, <2>1, <2>2, ServiceRests
<1>8. DecodeDone => ReturnBatch
  BY DEF DecodeDone
<1> QED BY <1>1, <1>2, <1>3, <1>4, <1>5, <1>6, <1>7, <1>8 DEF LightNext

(* LightLLM's scheduler implements the same service: no output token is     *)
(* lost or produced twice, and at most BatchSizeCap requests are admitted.  *)
THEOREM ImplementsTheService == Spec => Service!ServiceSafety
<1>1. LightInv /\ Phases /\ Phases' /\ OutputBounded' /\ [LightNext]_lightVars
        => [Service!ServiceNext]_(Service!serviceVars)
  BY ServiceSteps
<1>2. LightInv => Phases
  BY CoreHolds, PhaseMeaning
<1>3. LightInit /\ Phases => Service!ServiceInit
  BY ServiceStarts DEF LightInit
<1> QED BY <1>1, <1>2, <1>3, EmittedBound, LightIsSafe, PTL DEF Spec, Service!ServiceSafety
=============================================================================
