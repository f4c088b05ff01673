---------------------- MODULE SarathiScheduler_proofs ----------------------
(***************************************************************************)
(* Proofs about SarathiScheduler, for every number of requests, blocks,    *)
(* stages, tokens and every size of a chunk.  A paused request is in one   *)
(* of three lists, joined by Paused; the moves of ReplicaLemmas are used   *)
(* with that list.                                                         *)
(***************************************************************************)
EXTENDS SarathiScheduler, ReplicaLemmas

-----------------------------------------------------------------------------
(* The common part of the invariant. *)

(* The lists of paused requests. *)
Lists ==
    /\ preempted_requests \in Seq(Requests)
    /\ running_prefills \in Seq(Requests)
    /\ skipped_requests \in Seq(Requests)

(* What the lists hold together, each request once. *)
LEMMA PausedLists ==
    /\ Lists =>
        /\ Range(Paused) = Range(preempted_requests) \cup Range(running_prefills)
                                \cup Range(skipped_requests)
        /\ IsInjective(Paused) <=>
            /\ IsInjective(preempted_requests) /\ IsInjective(running_prefills)
            /\ IsInjective(skipped_requests)
            /\ Range(preempted_requests) \cap Range(running_prefills) = {}
            /\ Range(preempted_requests) \cap Range(skipped_requests) = {}
            /\ Range(running_prefills) \cap Range(skipped_requests) = {}
    /\ Lists' =>
        /\ Range(Paused') = Range(preempted_requests') \cup Range(running_prefills')
                                \cup Range(skipped_requests')
        /\ IsInjective(Paused') <=>
            /\ IsInjective(preempted_requests') /\ IsInjective(running_prefills')
            /\ IsInjective(skipped_requests')
            /\ Range(preempted_requests') \cap Range(running_prefills') = {}
            /\ Range(preempted_requests') \cap Range(skipped_requests') = {}
            /\ Range(running_prefills') \cap Range(skipped_requests') = {}
BY ThreeQueues DEF Lists, Paused

(* The inductive invariant has all that the moves of ReplicaLemmas need. *)
LEMMA CoreHolds ==
    ASSUME IInv
    PROVE  /\ Core /\ ReplicaTypes /\ Conserved(Paused) /\ Lists
           /\ num_allocated_blocks <= NumBlocks
           /\ num_allocated_blocks \in Int /\ NumBlocks \in Int
BY ReplicaAssumption
   DEF IInv, TypeOK, Core, MemoryAccounting, NothingLost, ReplicaTypes, Lists

(* What the first part of the invariant says of the next state. *)
CommonNext ==
    /\ Core'
    /\ PlacesOK(request_queue', Paused', batch', running_batches',
                DOMAIN allocation_map', Live')
    /\ num_allocated_blocks' <= NumBlocks
    /\ Lists'

(* Those parts of it that a move of ReplicaLemmas gives. *)
LEMMA CommonParts ==
    ASSUME CommonNext, pc' \in {"idle", "form", "prefill", "admit", "end"}
    PROVE  TypeOK' /\ PipelineCount' /\ NotArrived' /\ NothingLost' /\ MemoryAccounting'
           /\ WithinCap'
BY DEF CommonNext, Core, TypeOK, PlacesOK, NothingLost, Conserved, RunningIds,
       MemoryAccounting, Lists

(* The tokens of a batch are counted by a natural number. *)
LEMMA TokensNat ==
    ASSUME NEW b \in Seq(BatchEntry)
    PROVE  TokensOf(b) \in Nat
<1> DEFINE f == [i \in DOMAIN b |-> b[i].tokens]
<1>1. DOMAIN b = 1 .. Len(b) /\ Len(b) \in Nat /\ b \in [1 .. Len(b) -> BatchEntry]
  BY LenProperties
<1>2. IsFiniteSet(DOMAIN b)
  BY <1>1, FS_Interval
<1>3. \A i \in DOMAIN b : f[i] \in Nat
  BY <1>1 DEF BatchEntry
<1>4. DOMAIN f = DOMAIN b
  OBVIOUS
<1> HIDE DEF f
<1>5. SumFunctionOnSet(f, DOMAIN b) \in Nat
  BY <1>2, <1>3, SumFacts
<1>6. SumFunction(f) \in Nat
  BY <1>4, <1>5 DEF SumFunction
<1> QED BY <1>6 DEF TokensOf, f

(* The chunk of a request: one token of a decode, or what remains of its    *)
(* prefill and of the batch's tokens, all of the latter if the prefill goes *)
(* on after it.                                                             *)
LEMMA ChunkFacts ==
    ASSUME ReplicaTypes, NEW r \in Requests
    PROVE  /\ NextNumTokens(r) \in Nat
           /\ req[r].prefill_complete => NextNumTokens(r) = 1
           /\ ~req[r].prefill_complete /\ NextNumTokens(r) # 0 =>
                /\ NextNumTokens(r) >= 1
                /\ req[r].processed + NextNumTokens(r) <= req[r].prefill
                /\ NextNumTokens(r) <= ChunkSize - TokensOf(batch)
                /\ req[r].processed + NextNumTokens(r) < req[r].prefill =>
                        NextNumTokens(r) = ChunkSize - TokensOf(batch)
           /\ ~req[r].prefill_complete /\ NextNumTokens(r) = 0
                        /\ req[r].processed < req[r].prefill =>
                ChunkSize <= TokensOf(batch)
<1>1. /\ req[r].prefill \in Nat /\ req[r].processed \in Nat
      /\ TokensOf(batch) \in Nat /\ ChunkSize \in Nat
  BY RequestFields, TokensNat, SarathiAssumption DEF ReplicaTypes
<1> DEFINE a == req[r].prefill - req[r].processed
           b == ChunkSize - TokensOf(batch)
           m == Min({a, b})
           n == Max({0, m})
<1>2. a \in Int /\ b \in Int
  BY <1>1
<1>3. a = req[r].prefill - req[r].processed /\ b = ChunkSize - TokensOf(batch)
  OBVIOUS
<1> HIDE DEF a, b
<1>4. m \in {a, b} /\ m <= a /\ m <= b
  <2>1. \E x \in {a, b} : \A y \in {a, b} : x <= y
    BY <1>2
  <2> QED BY <2>1, Zenon DEF Min
<1>5. m \in Int
  BY <1>2, <1>4
<1> HIDE DEF m
<1>6. n \in {0, m} /\ n >= 0 /\ n >= m
  <2>1. \E x \in {0, m} : \A y \in {0, m} : x >= y
    BY <1>5
  <2> QED BY <2>1, Zenon DEF Max
<1>7. NextNumTokens(r) = IF req[r].prefill_complete THEN 1 ELSE n
  BY DEF NextNumTokens, m, a, b
<1> HIDE DEF n
<1>8. /\ n \in Nat
      /\ n # 0 => n >= 1 /\ n <= a /\ n <= b /\ (n < a => n = b)
      /\ n = 0 /\ a > 0 => b <= 0
  BY <1>2, <1>4, <1>5, <1>6
<1>9. /\ n # 0 => /\ req[r].processed + n <= req[r].prefill
                  /\ req[r].processed + n < req[r].prefill => n = b
      /\ n = 0 /\ req[r].processed < req[r].prefill => ChunkSize <= TokensOf(batch)
  BY <1>1, <1>3, <1>8
<1> QED BY <1>3, <1>7, <1>8, <1>9

-----------------------------------------------------------------------------
(* The loops. *)

(* A paused request of which a prefill is under way joins those prefills.   *)
LEMMA SetsAside ==
    ASSUME IInv, SetAside, NEW r, r = Head(preempted_requests)
    PROVE  /\ CommonNext
           /\ r \in Requests /\ MidPrefill(r)
           /\ Range(preempted_requests') \subseteq Range(preempted_requests)
           /\ Range(running_prefills') = Range(running_prefills) \cup {r}
<1>1. /\ pc = "form" /\ preempted_requests # <<>> /\ ~req[r].prefill_complete
      /\ preempted_requests' = Tail(preempted_requests)
      /\ running_prefills' = Append(running_prefills, r)
      /\ skipped_requests' = skipped_requests
      /\ UNCHANGED <<asked, req, num_arrived, request_queue, memory, pipeline,
                     schedule_events, pc, batch>>
  BY DEF SetAside, MayPop
<1>2. Lists /\ IsInjective(Paused)
  BY CoreHolds DEF Conserved
<1>3. /\ r \in Range(preempted_requests) /\ r \in Requests
      /\ preempted_requests' \in Seq(Requests)
      /\ Range(preempted_requests) = Range(preempted_requests') \cup {r}
      /\ IsInjective(preempted_requests') /\ r \notin Range(preempted_requests')
  <2>1. r \in Range(preempted_requests) /\ r \in Requests
    BY <1>1, <1>2, TailRange, CoreHolds, BatchHolds, PausedLists DEF Lists
  <2> QED BY <1>1, <1>2, <2>1, TailRange, PausedLists DEF Lists
<1>4. /\ running_prefills' \in Seq(Requests)
      /\ Range(running_prefills') = Range(running_prefills) \cup {r}
      /\ IsInjective(running_prefills')
  BY <1>1, <1>2, <1>3, AppendRange, AppendProperties, PausedLists DEF Lists
<1>5. Lists'
  BY <1>1, <1>2, <1>3, <1>4 DEF Lists
<1>6. IsInjective(Paused') /\ Range(Paused') = Range(Paused)
  <2>1. /\ IsInjective(skipped_requests)
        /\ Range(preempted_requests) \cap Range(running_prefills) = {}
        /\ Range(preempted_requests) \cap Range(skipped_requests) = {}
        /\ Range(running_prefills) \cap Range(skipped_requests) = {}
        /\ Range(Paused) = Range(preempted_requests) \cup Range(running_prefills)
                                \cup Range(skipped_requests)
    BY <1>2, PausedLists
  <2>2. /\ Range(preempted_requests') \cap Range(running_prefills') = {}
        /\ Range(preempted_requests') \cap Range(skipped_requests') = {}
        /\ Range(running_prefills') \cap Range(skipped_requests') = {}
        /\ Range(Paused) = Range(preempted_requests') \cup Range(running_prefills')
                                \cup Range(skipped_requests')
    BY <1>1, <1>3, <1>4, <2>1
  <2> QED BY <1>1, <1>3, <1>4, <1>5, <2>1, <2>2, PausedLists
<1>7. /\ Core'
      /\ PlacesOK(request_queue', Paused', batch', running_batches',
                  DOMAIN allocation_map', Live')
  <2>1. pc \notin {"idle", "end"} /\ pc' # "idle"
    BY <1>1
  <2> QED BY <1>1, <1>3, <1>6, <2>1, CoreHolds, ShuffleMove
<1>8. MidPrefill(r)
  BY <1>1, <1>3 DEF IInv, RequestsInv, MidDecode
<1> QED BY <1>1, <1>3, <1>4, <1>5, <1>7, <1>8, CoreHolds DEF CommonNext, memory

(* A paused decode is resumed with the blocks of its context. *)
LEMMA Resumes ==
    ASSUME IInv, Resume, NEW r, r = Head(preempted_requests)
    PROVE  /\ CommonNext
           /\ r \in Requests /\ MidDecode(r)
           /\ r \notin Range(Paused') /\ r \notin Ids(batch) /\ r \notin RunningIds
           /\ Range(preempted_requests') \subseteq Range(preempted_requests)
           /\ Range(batch') = Range(batch) \cup {[id |-> r, tokens |-> 1]}
           /\ ExactFor(req[r].processed, allocation_map'[r])
           /\ \A x \in DOMAIN allocation_map \ {r} : allocation_map'[x] = allocation_map[x]
<1> DEFINE n == NextNumTokens(r)
           k == IF NumTokensRequired(r) = 0 THEN 0 ELSE 1
           covered == allocation_map[r] * BlockSize
<1>1. /\ pc = "form" /\ preempted_requests # <<>> /\ req[r].prefill_complete
      /\ AllocateRequest(r) /\ CanAllocateRequest(r)
      /\ batch' = Append(batch, [id |-> r, tokens |-> n])
      /\ preempted_requests' = Tail(preempted_requests)
      /\ UNCHANGED locals
      /\ UNCHANGED <<asked, req, num_arrived, request_queue, pipeline, schedule_events, pc>>
  BY DEF Resume, MayPop, InBatchNow
<1>2. Lists /\ IsInjective(Paused)
  BY CoreHolds DEF Conserved
<1>3. /\ r \in Range(preempted_requests) /\ r \in Range(Paused)
      /\ preempted_requests' \in Seq(Requests)
      /\ Range(preempted_requests) = Range(preempted_requests') \cup {r}
      /\ IsInjective(preempted_requests') /\ r \notin Range(preempted_requests')
  BY <1>1, <1>2, TailRange, PausedLists DEF Lists
<1>4. Lists'
  BY <1>1, <1>2, <1>3 DEF Lists, locals
<1>5. IsInjective(Paused') /\ Range(Paused) = Range(Paused') \cup {r} /\ r \notin Range(Paused')
  BY <1>1, <1>2, <1>3, <1>4, PausedLists DEF locals
<1>6. r \in DOMAIN allocation_map /\ r \in Requests /\ allocation_map[r] \in Nat
  BY <1>3, CoreHolds, BatchHolds DEF ReplicaTypes
<1>7. MidDecode(r)
  BY <1>1, <1>3 DEF IInv, RequestsInv, MidPrefill
<1>8. n = 1 /\ req[r].processed \in Nat \ {0}
  <2>1. req[r].prefill \in Nat /\ req[r].processed \in Nat
    BY <1>6, CoreHolds, RequestFields
  <2> QED BY <1>1, <1>7, <2>1 DEF MidDecode, NextNumTokens
<1>9. covered \in Nat
  BY <1>6, ReplicaAssumption
<1>10. /\ k \in Nat /\ k <= 1
       /\ Allocate(r, k) \/ (k = 0 /\ UNCHANGED memory)
       /\ ExactFor(req[r].processed, allocation_map[r] + k)
  <2>1. ExactFor(req[r].processed - 1, allocation_map[r])
    BY <1>7 DEF MidDecode
  <2>2. CASE NumTokensRequired(r) = 0
    <3>1. req[r].processed <= covered
      BY <1>8, <1>9, <2>2 DEF NumTokensRequired
    <3>2. ExactFor(req[r].processed, allocation_map[r])
      BY <1>6, <1>8, <2>1, <3>1, OneMoreBlock
    <3>3. allocation_map[r] + k = allocation_map[r] /\ k = 0
      BY <1>6, <2>2
    <3> QED BY <1>1, <1>6, <2>2, <3>2, <3>3 DEF AllocateRequest
  <2>3. CASE NumTokensRequired(r) # 0
    <3>1. req[r].processed > covered
      BY <1>8, <1>9, <2>3 DEF NumTokensRequired
    <3>2. ExactFor(req[r].processed, allocation_map[r] + 1)
      BY <1>6, <1>8, <2>1, <3>1, OneMoreBlock
    <3> QED BY <1>1, <1>6, <2>3, <3>2 DEF AllocateRequest
  <2> QED BY <2>2, <2>3
<1> HIDE DEF n, k, covered
<1>11. /\ Core'
       /\ PlacesOK(request_queue', Paused', batch', running_batches',
                   DOMAIN allocation_map', Live')
       /\ num_allocated_blocks' = num_allocated_blocks + k
       /\ r \notin Ids(batch) /\ r \notin RunningIds
       /\ Range(batch') = Range(batch) \cup {[id |-> r, tokens |-> n]}
       /\ allocation_map'[r] = allocation_map[r] + k
       /\ \A x \in DOMAIN allocation_map \ {r} : allocation_map'[x] = allocation_map[x]
  <2>1. pc \notin {"idle", "end"} /\ n \in Nat
    BY <1>1, <1>8
  <2>2. Core /\ Conserved(Paused)
    BY CoreHolds
  <2>3. k \in Nat /\ (Allocate(r, k) \/ (k = 0 /\ UNCHANGED memory))
    BY <1>10
  <2>4. /\ batch' = Append(batch, [id |-> r, tokens |-> n])
        /\ UNCHANGED <<asked, req, num_arrived, request_queue, pipeline, schedule_events, pc>>
    BY <1>1
  <2> QED BY <1>3, <1>5, <2>1, <2>2, <2>3, <2>4, ResumeMove
<1>12. num_allocated_blocks' <= NumBlocks
  <2>1. FreeBlocks >= 1
    BY <1>1, <1>6 DEF CanAllocateRequest
  <2> QED BY <1>10, <1>11, <2>1, CoreHolds DEF FreeBlocks
<1> QED BY <1>3, <1>4, <1>5, <1>6, <1>7, <1>8, <1>10, <1>11, <1>12 DEF CommonNext

(* The last paused request goes back to the head of the queue. *)
LEMMA Evicts ==
    ASSUME IInv, Evict, NEW r, r = Last(preempted_requests)
    PROVE  /\ CommonNext
           /\ r \in Requests /\ (MidPrefill(r) \/ MidDecode(r))
           /\ r \notin Range(Paused') /\ r \notin Ids(batch) /\ r \notin RunningIds
           /\ Range(preempted_requests') \subseteq Range(preempted_requests)
           /\ Range(request_queue') = Range(request_queue) \cup {r}
           /\ req'[r] = Restart(req[r])
           /\ \A x \in Requests \ {r} : req'[x] = req[x]
           /\ \A x \in DOMAIN allocation_map \ {r} : allocation_map'[x] = allocation_map[x]
<1>1. /\ pc = "form" /\ preempted_requests # <<>> /\ Free(r)
      /\ req' = [req EXCEPT ![r] = Restart(@)]
      /\ request_queue' = <<r>> \o request_queue
      /\ preempted_requests' = Front(preempted_requests)
      /\ UNCHANGED <<asked, num_arrived, pipeline, schedule_events, pc, batch>>
      /\ UNCHANGED locals
  BY DEF Evict, MayPop
<1>2. Lists /\ IsInjective(Paused)
  BY CoreHolds DEF Conserved
<1>3. /\ r \in Range(preempted_requests) /\ r \in Range(Paused)
      /\ preempted_requests' \in Seq(Requests)
      /\ Range(preempted_requests) = Range(preempted_requests') \cup {r}
      /\ IsInjective(preempted_requests') /\ r \notin Range(preempted_requests')
  BY <1>1, <1>2, FrontRange, PausedLists DEF Lists
<1>4. Lists'
  BY <1>1, <1>2, <1>3 DEF Lists, locals
<1>5. IsInjective(Paused') /\ Range(Paused) = Range(Paused') \cup {r} /\ r \notin Range(Paused')
  BY <1>1, <1>2, <1>3, <1>4, PausedLists DEF locals
<1>6. /\ Core'
      /\ PlacesOK(request_queue', Paused', batch', running_batches',
                  DOMAIN allocation_map', Live')
      /\ num_allocated_blocks' <= num_allocated_blocks
      /\ r \in Requests
      /\ r \notin Ids(batch) /\ r \notin RunningIds
      /\ Range(request_queue') = Range(request_queue) \cup {r}
      /\ req'[r] = Restart(req[r])
      /\ \A x \in Requests \ {r} : req'[x] = req[x]
      /\ \A x \in DOMAIN allocation_map \ {r} : allocation_map'[x] = allocation_map[x]
  <2>1. pc \notin {"idle", "end"}
    BY <1>1
  <2>2. Core /\ Conserved(Paused)
    BY CoreHolds
  <2>3. /\ Evicted(r)
        /\ UNCHANGED <<asked, num_arrived, pipeline, schedule_events, pc, batch>>
    BY <1>1 DEF Evicted
  <2> QED BY <1>3, <1>5, <2>1, <2>2, <2>3, EvictMove
<1>7. num_allocated_blocks' <= NumBlocks
  <2>1. num_allocated_blocks' \in Int
    BY <1>6 DEF Core, ReplicaTypes
  <2> QED BY <1>6, <2>1, CoreHolds
<1>8. MidPrefill(r) \/ MidDecode(r)
  BY <1>3 DEF IInv, RequestsInv
<1> QED BY <1>3, <1>4, <1>5, <1>6, <1>7, <1>8 DEF CommonNext

(* A prefill under way gets its next chunk. *)
LEMMA Continues ==
    ASSUME IInv, ContinuePrefill, NEW r, r = Head(running_prefills), NextNumTokens(r) # 0
    PROVE  /\ CommonNext
           /\ r \in Requests /\ MidPrefill(r)
           /\ r \notin Range(Paused') /\ r \notin Ids(batch) /\ r \notin RunningIds
           /\ Range(running_prefills') \subseteq Range(running_prefills)
           /\ skipped_requests' = skipped_requests
           /\ Range(batch') = Range(batch) \cup {[id |-> r, tokens |-> NextNumTokens(r)]}
           /\ \A x \in DOMAIN allocation_map \ {r} : allocation_map'[x] = allocation_map[x]
<1> DEFINE n == NextNumTokens(r)
<1>1. /\ pc = "prefill" /\ running_prefills # <<>>
      /\ batch' = Append(batch, [id |-> r, tokens |-> n])
      /\ running_prefills' = Tail(running_prefills)
      /\ UNCHANGED <<preempted_requests, skipped_requests>>
      /\ UNCHANGED memory
      /\ UNCHANGED <<asked, req, num_arrived, request_queue, pipeline, schedule_events, pc>>
  BY DEF ContinuePrefill, InBatchNow
<1>2. Lists /\ IsInjective(Paused)
  BY CoreHolds DEF Conserved
<1>3. /\ r \in Range(running_prefills) /\ r \in Range(Paused)
      /\ running_prefills' \in Seq(Requests)
      /\ Range(running_prefills) = Range(running_prefills') \cup {r}
      /\ IsInjective(running_prefills') /\ r \notin Range(running_prefills')
  BY <1>1, <1>2, TailRange, PausedLists DEF Lists
<1>4. Lists'
  BY <1>1, <1>2, <1>3 DEF Lists
<1>5. IsInjective(Paused') /\ Range(Paused) = Range(Paused') \cup {r} /\ r \notin Range(Paused')
  BY <1>1, <1>2, <1>3, <1>4, PausedLists
<1>6. r \in Requests /\ n \in Nat
  BY <1>3, CoreHolds, BatchHolds, ChunkFacts
<1> HIDE DEF n
<1>7. /\ Core'
      /\ PlacesOK(request_queue', Paused', batch', running_batches',
                  DOMAIN allocation_map', Live')
      /\ r \notin Ids(batch) /\ r \notin RunningIds
      /\ Range(batch') = Range(batch) \cup {[id |-> r, tokens |-> n]}
      /\ \A x \in DOMAIN allocation_map \ {r} : allocation_map'[x] = allocation_map[x]
  <2>1. pc \notin {"idle", "end"} /\ preempted_requests' \in Seq(Requests)
    BY <1>1, <1>4 DEF Lists
  <2>2. Core /\ Conserved(Paused)
    BY CoreHolds
  <2>3. PICK k \in Nat : Allocate(r, k) \/ (k = 0 /\ UNCHANGED memory)
    BY <1>1
  <2>4. /\ batch' = Append(batch, [id |-> r, tokens |-> n])
        /\ UNCHANGED <<asked, req, num_arrived, request_queue, pipeline, schedule_events, pc>>
    BY <1>1
  <2>5. r \in Range(Paused) /\ n \in Nat
    BY <1>3, <1>6
  <2> QED BY <1>5, <2>1, <2>2, <2>3, <2>4, <2>5, ResumeMove, SMTT(60)
<1>8. MidPrefill(r)
  BY <1>3 DEF IInv, RequestsInv
<1> QED BY <1>1, <1>3, <1>4, <1>5, <1>6, <1>7, <1>8, CoreHolds DEF CommonNext, memory, n

(* A prefill for which no token is left is skipped. *)
LEMMA Skips ==
    ASSUME IInv, ContinuePrefill, NEW r, r = Head(running_prefills), NextNumTokens(r) = 0
    PROVE  /\ CommonNext
           /\ Range(running_prefills') \cup Range(skipped_requests')
                    = Range(running_prefills) \cup Range(skipped_requests)
           /\ UNCHANGED <<req, request_queue, preempted_requests, allocation_map,
                          running_batches, batch>>
<1>1. /\ pc = "prefill" /\ running_prefills # <<>>
      /\ running_prefills' = Tail(running_prefills)
      /\ skipped_requests' = Append(skipped_requests, r)
      /\ preempted_requests' = preempted_requests
      /\ UNCHANGED <<asked, req, num_arrived, request_queue, memory, pipeline,
                     schedule_events, pc, batch>>
  BY DEF ContinuePrefill
<1>2. Lists /\ IsInjective(Paused)
  BY CoreHolds DEF Conserved
<1>3. /\ r \in Range(running_prefills) /\ r \in Requests
      /\ running_prefills' \in Seq(Requests)
      /\ Range(running_prefills) = Range(running_prefills') \cup {r}
      /\ IsInjective(running_prefills') /\ r \notin Range(running_prefills')
  <2>1. r \in Range(running_prefills) /\ r \in Requests
    BY <1>1, <1>2, TailRange, CoreHolds, BatchHolds, PausedLists DEF Lists
  <2> QED BY <1>1, <1>2, <2>1, TailRange, PausedLists DEF Lists
<1>4. /\ skipped_requests' \in Seq(Requests)
      /\ Range(skipped_requests') = Range(skipped_requests) \cup {r}
      /\ IsInjective(skipped_requests')
  BY <1>1, <1>2, <1>3, AppendRange, AppendProperties, PausedLists DEF Lists
<1>5. Lists'
  BY <1>1, <1>2, <1>3, <1>4 DEF Lists
<1>6. IsInjective(Paused') /\ Range(Paused') = Range(Paused)
  <2>1. /\ IsInjective(preempted_requests)
        /\ Range(preempted_requests) \cap Range(running_prefills) = {}
        /\ Range(preempted_requests) \cap Range(skipped_requests) = {}
        /\ Range(running_prefills) \cap Range(skipped_requests) = {}
        /\ Range(Paused) = Range(preempted_requests) \cup Range(running_prefills)
                                \cup Range(skipped_requests)
    BY <1>2, PausedLists
  <2>2. /\ Range(preempted_requests') \cap Range(running_prefills') = {}
        /\ Range(preempted_requests') \cap Range(skipped_requests') = {}
        /\ Range(running_prefills') \cap Range(skipped_requests') = {}
        /\ Range(Paused) = Range(preempted_requests') \cup Range(running_prefills')
                                \cup Range(skipped_requests')
    BY <1>1, <1>3, <1>4, <2>1
  <2> QED BY <1>1, <1>3, <1>4, <1>5, <2>1, <2>2, PausedLists
<1>7. /\ Core'
      /\ PlacesOK(request_queue', Paused', batch', running_batches',
                  DOMAIN allocation_map', Live')
  <2>1. pc \notin {"idle", "end"} /\ pc' # "idle" /\ preempted_requests' \in Seq(Requests)
    BY <1>1, <1>2 DEF Lists
  <2> QED BY <1>1, <1>6, <2>1, CoreHolds, ShuffleMove
<1> QED BY <1>1, <1>3, <1>4, <1>5, <1>7, CoreHolds DEF CommonNext, memory, pipeline

(* The skipped requests return to the paused ones, which are sorted. *)
LEMMA Sorts ==
    ASSUME IInv, PrefillsDone
    PROVE  /\ CommonNext /\ pc' = "admit" /\ running_prefills' = <<>> /\ skipped_requests' = <<>>
           /\ Range(preempted_requests') = Range(skipped_requests) \cup Range(preempted_requests)
           /\ UNCHANGED <<req, request_queue, allocation_map, running_batches, batch>>
<1> DEFINE waiting == skipped_requests \o preempted_requests
<1>1. /\ pc = "prefill" /\ pc' = "admit" /\ running_prefills = <<>>
      /\ running_prefills' = <<>> /\ skipped_requests' = <<>>
      /\ IsStableSort(waiting, preempted_requests')
      /\ UNCHANGED <<asked, req, num_arrived, request_queue, memory, pipeline,
                     schedule_events, batch>>
  BY DEF PrefillsDone
<1>2. Lists /\ IsInjective(Paused)
  BY CoreHolds DEF Conserved
<1>3. /\ waiting \in Seq(Requests) /\ IsInjective(waiting)
      /\ Range(waiting) = Range(skipped_requests) \cup Range(preempted_requests)
  BY <1>2, PausedLists, ConcatRange DEF Lists
<1> HIDE DEF waiting
<1>4. PICK p \in [DOMAIN waiting -> DOMAIN waiting] :
            /\ IsInjective(p)
            /\ preempted_requests' = [i \in DOMAIN waiting |-> waiting[p[i]]]
  BY <1>1 DEF IsStableSort
<1>5. /\ preempted_requests' \in Seq(Requests) /\ IsInjective(preempted_requests')
      /\ Range(preempted_requests') = Range(waiting)
  BY <1>3, <1>4, PermutationRange
<1>6. /\ <<>> \in Seq(Requests) /\ Range(<<>>) = {} /\ IsInjective(<<>>)
  BY DEF Range, IsInjective
<1>7. Lists'
  BY <1>1, <1>5, <1>6 DEF Lists
<1>8. IsInjective(Paused') /\ Range(Paused') = Range(Paused)
  BY <1>1, <1>2, <1>3, <1>5, <1>6, <1>7, PausedLists
<1>9. /\ Core'
      /\ PlacesOK(request_queue', Paused', batch', running_batches',
                  DOMAIN allocation_map', Live')
  <2>1. pc \notin {"idle", "end"} /\ pc' # "idle"
    BY <1>1
  <2> QED BY <1>1, <1>5, <1>8, <2>1, CoreHolds, ShuffleMove
<1> QED BY <1>1, <1>3, <1>5, <1>7, <1>9, CoreHolds DEF CommonNext, memory, pipeline

(* A request is admitted with the blocks of its prefill and its first       *)
(* chunk.                                                                   *)
LEMMA Admits ==
    ASSUME IInv, Admit, NEW r, r = Head(request_queue)
    PROVE  /\ CommonNext
           /\ r \in Requests /\ r \notin DOMAIN allocation_map /\ Fresh(r)
           /\ Range(request_queue') \subseteq Range(request_queue)
           /\ r \notin Range(request_queue')
           /\ Range(batch') = Range(batch) \cup {[id |-> r, tokens |-> NextNumTokens(r)]}
           /\ NextNumTokens(r) >= 1 /\ NextNumTokens(r) <= req[r].prefill
           /\ ExactFor(req[r].prefill, allocation_map'[r])
           /\ \A x \in DOMAIN allocation_map : allocation_map'[x] = allocation_map[x]
<1> DEFINE n == NextNumTokens(r)
           k == CeilDiv(req[r].prefill, BlockSize)
<1>1. /\ pc = "admit" /\ request_queue # <<>> /\ AllocateRequest(r) /\ CanAllocateRequest(r)
      /\ n # 0
      /\ batch' = Append(batch, [id |-> r, tokens |-> n])
      /\ request_queue' = Tail(request_queue)
      /\ Cardinality(DOMAIN allocation_map) # BatchSizeCap
      /\ UNCHANGED <<asked, req, num_arrived, preempted_requests, pipeline,
                     schedule_events, pc>>
      /\ UNCHANGED locals
  BY DEF Admit, CanAdmit, InBatchNow
<1>2. request_queue \in Seq(Requests)
  BY CoreHolds DEF ReplicaTypes
<1>3. r \in Range(request_queue) /\ r \in Requests /\ r \notin DOMAIN allocation_map
  <2>1. r \in Range(request_queue)
    BY <1>1, <1>2, TailRange
  <2> QED BY <2>1, CoreHolds, BatchHolds
<1>4. Fresh(r)
  BY <1>3 DEF IInv, RequestsInv
<1>5. n \in Nat /\ n >= 1 /\ n <= req[r].prefill /\ req[r].prefill \in Nat
  BY <1>1, <1>3, <1>4, CoreHolds, RequestFields, ChunkFacts DEF Fresh
<1>6. k \in Nat /\ ExactFor(req[r].prefill, k)
  BY <1>5, CeilDivNat, CeilDivExact, ReplicaAssumption
<1>7. Allocate(r, k) /\ FreeBlocks - k >= WatermarkBlocks
  BY <1>1, <1>3 DEF AllocateRequest, CanAllocateRequest
<1> HIDE DEF n, k
<1>8. /\ Core'
      /\ PlacesOK(request_queue', Paused, batch', running_batches',
                  DOMAIN allocation_map', Live')
      /\ num_allocated_blocks' = num_allocated_blocks + k
      /\ Range(request_queue') \subseteq Range(request_queue) /\ r \notin Range(request_queue')
      /\ Range(batch') = Range(batch) \cup {[id |-> r, tokens |-> n]}
      /\ allocation_map'[r] = k
      /\ \A x \in DOMAIN allocation_map : allocation_map'[x] = allocation_map[x]
  BY <1>1, <1>5, <1>6, <1>7, CoreHolds, AdmitMove
<1>9. num_allocated_blocks' <= NumBlocks
  <2>1. WatermarkBlocks \in Nat
    BY BlockAssumption, ReplicaAssumption
  <2> QED BY <1>6, <1>7, <1>8, <2>1, CoreHolds DEF FreeBlocks
<1>10. Paused' = Paused /\ Lists'
  BY <1>1, CoreHolds DEF Paused, Lists, locals
<1> QED BY <1>3, <1>4, <1>5, <1>6, <1>8, <1>9, <1>10 DEF CommonNext, n

(* The batch that was formed is returned. *)
LEMMA Returns ==
    ASSUME IInv, AdmitDone
    PROVE  /\ CommonNext /\ pc' \in {"idle", "form"} /\ batch' = <<>>
           /\ \A k \in DOMAIN running_batches' :
                \/ k \in DOMAIN running_batches /\ running_batches'[k] = running_batches[k]
                \/ running_batches'[k] = batch
<1>1. /\ pc \notin {"idle", "end"} /\ preempted_requests' \in Seq(Requests)
      /\ ReturnBatch
      /\ UNCHANGED <<asked, req, num_arrived, request_queue, memory, schedule_events>>
  BY CoreHolds DEF AdmitDone, Lists
<1>2. Paused' = Paused /\ Lists' /\ num_allocated_blocks' = num_allocated_blocks
  BY CoreHolds DEF AdmitDone, Paused, Lists, locals, memory
<1>3. /\ Core'
      /\ PlacesOK(request_queue', Paused, batch', running_batches',
                  DOMAIN allocation_map', Live')
      /\ pc' \in {"idle", "form"} /\ batch' = <<>>
      /\ \A k \in DOMAIN running_batches' :
            \/ k \in DOMAIN running_batches /\ running_batches'[k] = running_batches[k]
            \/ running_batches'[k] = batch
  BY <1>1, CoreHolds, ReturnMove
<1> QED BY <1>2, <1>3, CoreHolds DEF CommonNext

(* A request whose batch ends is done, or paused. *)
LEMMA Ends ==
    ASSUME IInv, EndRequest, UNCHANGED locals,
           NEW r, NEW n, r = Head(batch).id, n = Head(batch).tokens
    PROVE  /\ CommonNext
           /\ r \in Requests /\ n \in Nat /\ InBatch(r, n) /\ ~req[r].completed
           /\ r \notin Range(request_queue) /\ r \notin Range(Paused)
           /\ r \notin Ids(batch') /\ r \notin RunningIds'
           /\ Range(batch') \subseteq Range(batch)
           /\ req'[r] = OnBatchEnd(req[r], n)
           /\ \A x \in Requests \ {r} : req'[x] = req[x]
           /\ \A x \in DOMAIN allocation_map \ {r} : allocation_map'[x] = allocation_map[x]
           /\ req'[r].completed => preempted_requests' = preempted_requests
           /\ ~req'[r].completed =>
                /\ Range(preempted_requests') = Range(preempted_requests) \cup {r}
                /\ allocation_map' = allocation_map
<1>1. /\ Core' /\ num_allocated_blocks' <= num_allocated_blocks
      /\ Head(batch) \in Range(batch) /\ Range(batch') \subseteq Range(batch)
      /\ r \in Requests /\ n \in Nat /\ ~req[r].completed
      /\ r \notin Range(Paused) /\ r \notin Ids(batch') /\ r \notin RunningIds'
      /\ r \notin Range(request_queue)
      /\ req'[r] = OnBatchEnd(req[r], n)
      /\ \A x \in Requests \ {r} : req'[x] = req[x]
      /\ \A x \in DOMAIN allocation_map \ {r} : allocation_map'[x] = allocation_map[x]
      /\ req'[r].completed =>
            /\ preempted_requests' = preempted_requests
            /\ PlacesOK(request_queue', Paused, batch', running_batches',
                        DOMAIN allocation_map', Live')
      /\ ~req'[r].completed =>
            /\ preempted_requests' = Append(preempted_requests, r)
            /\ allocation_map' = allocation_map
            /\ \A p2 : IsInjective(p2) /\ Range(p2) = Range(Paused) \cup {r} =>
                    PlacesOK(request_queue', p2, batch', running_batches',
                             DOMAIN allocation_map', Live')
  BY CoreHolds, EndRequestMove
<1>2. /\ Lists /\ IsInjective(Paused)
      /\ running_prefills' = running_prefills /\ skipped_requests' = skipped_requests
  BY CoreHolds DEF Conserved, locals
<1>3. ASSUME ~req'[r].completed
      PROVE  /\ Lists' /\ IsInjective(Paused') /\ Range(Paused') = Range(Paused) \cup {r}
             /\ Range(preempted_requests') = Range(preempted_requests) \cup {r}
  <2>1. preempted_requests' = Append(preempted_requests, r)
    BY <1>1, <1>3
  <2>2. r \in Requests /\ r \notin Range(preempted_requests) /\ r \notin Range(running_prefills)
        /\ r \notin Range(skipped_requests) /\ IsInjective(preempted_requests)
    BY <1>1, <1>2, PausedLists
  <2>3. /\ IsInjective(preempted_requests') /\ preempted_requests' \in Seq(Requests)
        /\ Range(preempted_requests') = Range(preempted_requests) \cup {r}
    BY <1>2, <2>1, <2>2, AppendRange, AppendProperties DEF Lists
  <2>4. Lists'
    BY <1>2, <2>3 DEF Lists
  <2> QED BY <1>2, <2>2, <2>3, <2>4, PausedLists
<1>4. ASSUME req'[r].completed
      PROVE  Lists' /\ Paused' = Paused
  <2>1. preempted_requests' = preempted_requests
    BY <1>1, <1>4
  <2> QED BY <1>2, <2>1 DEF Lists, Paused
<1>5. PlacesOK(request_queue', Paused', batch', running_batches',
               DOMAIN allocation_map', Live')
  BY <1>1, <1>3, <1>4
<1>6. num_allocated_blocks' <= NumBlocks
  <2>1. num_allocated_blocks' \in Int
    BY <1>1 DEF Core, ReplicaTypes
  <2> QED BY <1>1, <2>1, CoreHolds
<1>7. InBatch(r, n)
  BY <1>1 DEF IInv, RequestsInv
<1> QED BY <1>1, <1>3, <1>4, <1>5, <1>6, <1>7 DEF CommonNext

(* The common part of the invariant is kept by every step. *)
LEMMA CommonStep ==
    ASSUME IInv, [SarathiNext]_sarathiVars
    PROVE  TypeOK' /\ PipelineCount' /\ NotArrived' /\ NothingLost' /\ MemoryAccounting'
           /\ WithinCap'
<1> SUFFICES CommonNext /\ pc' \in {"idle", "form", "prefill", "admit", "end"}
  BY CommonParts
<1>0. pc \in {"idle", "form", "prefill", "admit", "end"}
  BY DEF IInv, TypeOK
<1>1. CASE SetAside
  BY <1>1, SetsAside DEF SetAside, MayPop
<1>2. CASE Resume
  BY <1>2, Resumes DEF Resume, MayPop
<1>3. CASE Evict
  BY <1>3, Evicts DEF Evict, MayPop
<1>4. CASE DecodesDone
  <2>1. /\ pc \notin {"idle", "end"} /\ pc' = "prefill" /\ Paused' = Paused /\ Lists'
        /\ UNCHANGED <<asked, req, num_arrived, request_queue, memory, pipeline,
                       schedule_events, batch>>
    BY <1>4, CoreHolds DEF DecodesDone, Paused, Lists, locals
  <2>2. /\ Core'
        /\ PlacesOK(request_queue', Paused, batch', running_batches',
                    DOMAIN allocation_map', Live')
    BY <2>1, CoreHolds, ShuffleMove DEF Lists, Conserved
  <2> QED BY <2>1, <2>2, CoreHolds DEF CommonNext, memory
<1>5. CASE ContinuePrefill
  BY <1>5, Continues, Skips DEF ContinuePrefill
<1>6. CASE PrefillsDone
  BY <1>6, Sorts
<1>7. CASE Admit
  BY <1>7, Admits DEF Admit
<1>8. CASE AdmitDone
  BY <1>8, Returns
<1>9. ASSUME UNCHANGED locals, preempted_requests' = preempted_requests
      PROVE  Paused' = Paused /\ Lists'
  BY <1>9, CoreHolds DEF locals, Paused, Lists
<1>10. CASE AddRequests /\ UNCHANGED locals
  <2>1. preempted_requests' = preempted_requests /\ pc' = pc
        /\ num_allocated_blocks' = num_allocated_blocks
    BY <1>10 DEF AddRequests, memory
  <2> QED BY <1>0, <1>9, <1>10, <2>1, CoreHolds, ArrivalMove DEF CommonNext
<1>11. CASE (OnSchedule \/ BatchEnded) /\ UNCHANGED locals
  <2>1. /\ pc' \in {"idle", "form"} /\ preempted_requests' = preempted_requests
        /\ num_allocated_blocks' = num_allocated_blocks
    BY <1>11 DEF OnSchedule, BatchEnded, NextLoop, memory
  <2> QED BY <1>9, <1>11, <2>1, CoreHolds, EventMove DEF CommonNext
<1>12. CASE BatchEnd /\ UNCHANGED locals
  <2>1. /\ pc' = "end" /\ preempted_requests' = preempted_requests
        /\ num_allocated_blocks' = num_allocated_blocks
    BY <1>12 DEF BatchEnd, memory
  <2> QED BY <1>9, <1>12, <2>1, CoreHolds, BatchEndMove DEF CommonNext
<1>13. CASE EndRequest /\ UNCHANGED locals
  BY <1>13, Ends DEF EndRequest
<1>14. CASE UNCHANGED sarathiVars
  <2>1. /\ UNCHANGED <<asked, req, num_arrived, request_queue, preempted_requests,
                       allocation_map, num_allocated_blocks, num_running_batches,
                       running_batches, schedule_events, pc, batch>>
        /\ UNCHANGED locals
    BY <1>14 DEF sarathiVars, vars, memory, pipeline
  <2>2. Core'
    BY <2>1, CoreHolds DEF Core, ReplicaTypes, PipelineCount, NotArrived, Arrived,
                           HeldBlocks, WithinCap
  <2>3. Live' = Live
    BY <2>1 DEF Live, Arrived
  <2> QED BY <1>0, <1>9, <2>1, <2>2, <2>3, CoreHolds
          DEF CommonNext, PlacesOK, Conserved, RunningIds
<1> QED BY <1>1, <1>2, <1>3, <1>4, <1>5, <1>6, <1>7, <1>8, <1>10, <1>11, <1>12, <1>13,
           <1>14 DEF SarathiNext

(* The lists of the loops are filled and emptied by their loops only. *)
LEMMA LoopListsStep ==
    ASSUME IInv, [SarathiNext]_sarathiVars
    PROVE  LoopLists'
<1>1. LoopLists
  BY DEF IInv
<1>2. CASE UNCHANGED sarathiVars
  BY <1>1, <1>2 DEF LoopLists, sarathiVars, vars, locals
<1>3. CASE SetAside \/ Resume \/ Evict \/ DecodesDone \/ ContinuePrefill \/ Admit
  BY <1>1, <1>3 DEF LoopLists, SetAside, Resume, Evict, DecodesDone, ContinuePrefill, Admit,
                    MayPop, locals
<1>4. CASE PrefillsDone
  BY <1>4, Sorts DEF LoopLists
<1>5. CASE AdmitDone
  BY <1>1, <1>5, Returns DEF LoopLists, AdmitDone, locals
<1>6. CASE (AddRequests \/ OnSchedule \/ BatchEnd \/ EndRequest \/ BatchEnded) /\ UNCHANGED locals
  <2>1. pc \in {"idle", "end"}
    BY <1>6 DEF AddRequests, OnSchedule, BatchEnd, EndRequest, BatchEnded
  <2> QED BY <1>1, <1>6, <2>1 DEF LoopLists, locals
<1> QED BY <1>2, <1>3, <1>4, <1>5, <1>6 DEF SarathiNext

-----------------------------------------------------------------------------
(* Token counters. *)

(* What a request was asked for is never changed. *)
LEMMA AskedStays == [SarathiNext]_sarathiVars => asked' = asked
BY DEF SarathiNext, SetAside, Resume, Evict, DecodesDone, ContinuePrefill, PrefillsDone,
       Admit, AdmitDone, AddRequests, OnSchedule, BatchEnd, EndRequest, BatchEnded,
       sarathiVars, vars

(* The part of RequestsInv about a single request. *)
CountersOK(r) ==
    /\ TotalTokens(req[r]) = TotalTokens(asked[r])
    /\ req[r].completed => /\ req[r].prefill_complete
                           /\ req[r].processed = TotalTokens(req[r])

(* After a step that touches r, the requests other than r, in the places    *)
(* they were in before it.                                                  *)
OthersOK(r) ==
    /\ \A x \in Requests \ {r} : CountersOK(x)'
    /\ \A x \in Range(request_queue) \ {r} : Fresh(x)'
    /\ \A x \in Range(preempted_requests) \ {r} : MidPrefill(x)' \/ MidDecode(x)'
    /\ \A x \in (Range(running_prefills) \cup Range(skipped_requests)) \ {r} : MidPrefill(x)'
    /\ \A e \in Range(batch) : e.id # r => InBatch(e.id, e.tokens)'
    /\ \A k \in DOMAIN running_batches : \A e \in Range(running_batches[k]) :
        e.id # r => InBatch(e.id, e.tokens)'

(* Where requests are, and that they are in one place. *)
LEMMA PlaceFacts ==
    ASSUME IInv
    PROVE  /\ \A x \in Ids(batch) \cup RunningIds \cup Range(preempted_requests)
                            \cup Range(running_prefills) \cup Range(skipped_requests) :
                x \in DOMAIN allocation_map /\ x \in Requests
           /\ \A x \in Range(request_queue) : x \in Requests /\ x \notin DOMAIN allocation_map
           /\ \A e \in Range(batch) : e.id \in Ids(batch)
           /\ \A k \in DOMAIN running_batches : \A e \in Range(running_batches[k]) :
                e.id \in RunningIds
BY CoreHolds, BatchHolds, PausedLists, EntryIds

(* A step that touches one request leaves all the others consistent with    *)
(* the place they are in.                                                   *)
LEMMA RequestsFrame ==
    ASSUME IInv, [SarathiNext]_sarathiVars, NEW r,
           \A x \in Requests \ {r} : req'[x] = req[x],
           \A x \in DOMAIN allocation_map \ {r} : allocation_map'[x] = allocation_map[x]
    PROVE  OthersOK(r)
<1>1. asked' = asked /\ RequestsInv
  BY AskedStays DEF IInv
<1>2. \A x \in Requests \ {r} :
            /\ Fresh(x) => Fresh(x)'
            /\ x \in DOMAIN allocation_map /\ MidDecode(x) => MidDecode(x)'
            /\ x \in DOMAIN allocation_map /\ MidPrefill(x) => MidPrefill(x)'
            /\ \A n : x \in DOMAIN allocation_map /\ InBatch(x, n) => InBatch(x, n)'
  BY <1>1 DEF Fresh, MidPrefill, MidDecode, InBatch
<1>3. \A x \in Requests \ {r} : CountersOK(x)'
  BY <1>1 DEF RequestsInv, CountersOK
<1>4. \A e \in Range(batch) : e.id # r => InBatch(e.id, e.tokens)'
  BY <1>1, <1>2, PlaceFacts DEF RequestsInv
<1>5. \A k \in DOMAIN running_batches : \A e \in Range(running_batches[k]) :
            e.id # r => InBatch(e.id, e.tokens)'
  BY <1>1, <1>2, PlaceFacts DEF RequestsInv
<1>6. /\ \A x \in Range(request_queue) \ {r} : Fresh(x)'
      /\ \A x \in Range(preempted_requests) \ {r} : MidPrefill(x)' \/ MidDecode(x)'
      /\ \A x \in (Range(running_prefills) \cup Range(skipped_requests)) \ {r} : MidPrefill(x)'
  BY <1>1, <1>2, PlaceFacts DEF RequestsInv
<1> QED BY <1>3, <1>4, <1>5, <1>6 DEF OthersOK

(* A restarted request is fresh again and has not lost a token. *)
LEMMA RestartFresh ==
    ASSUME IInv, NEW r \in Requests, MidPrefill(r) \/ MidDecode(r), asked' = asked,
           req'[r] = Restart(req[r])
    PROVE  Fresh(r)' /\ CountersOK(r)'
<1>1. /\ req[r].prefill \in Nat /\ req[r].decode \in Int /\ req[r].processed \in Nat
      /\ TotalTokens(req[r]) = req[r].prefill + req[r].decode
  BY CoreHolds, RequestFields
<1>2. /\ req'[r].prefill = req[r].processed
      /\ req'[r].decode = TotalTokens(req[r]) - req[r].processed
      /\ req'[r].processed = 0
      /\ ~req'[r].prefill_complete /\ ~req'[r].completed
  BY DEF Restart, NewRequest
<1>3. req[r].processed < TotalTokens(req[r])
  BY <1>1 DEF MidDecode, MidPrefill
<1>4. TotalTokens(req[r]) = TotalTokens(asked[r])
  BY DEF IInv, RequestsInv
<1>5. TotalTokens(req'[r]) = TotalTokens(req[r])
  BY <1>1, <1>2 DEF TotalTokens
<1>6. req'[r].decode >= 1
  BY <1>1, <1>2, <1>3
<1> QED BY <1>2, <1>4, <1>5, <1>6 DEF Fresh, CountersOK

(* The end of a batch for one of its requests: a chunk of its prefill done, *)
(* with the first token when it was the last chunk, or one more token of    *)
(* its decode.                                                              *)
LEMMA EndOfBatch ==
    ASSUME IInv, NEW r \in Requests, NEW n \in Nat, InBatch(r, n), ~req[r].completed
    PROVE  LET q == OnBatchEnd(req[r], n)
           IN  /\ OnBatchEndAsserts(req[r], n)
               /\ q.prefill = req[r].prefill /\ q.decode = req[r].decode
               /\ q.completed => q.prefill_complete /\ q.processed = TotalTokens(q)
               /\ ~q.completed =>
                    \/ /\ ~q.prefill_complete /\ q.processed < q.prefill /\ q.decode >= 1
                       /\ ExactFor(q.prefill, allocation_map[r])
                    \/ /\ q.prefill_complete /\ q.prefill < q.processed
                       /\ q.processed < TotalTokens(q)
                       /\ ExactFor(q.processed - 1, allocation_map[r])
<1> DEFINE o == req[r]
           q == OnBatchEnd(o, n)
           prefilled == o.processed + n = o.prefill
<1>1. /\ o \in RequestRecord /\ o.prefill \in Nat /\ o.decode \in Int /\ o.processed \in Nat
      /\ o.prefill_complete \in BOOLEAN /\ TotalTokens(o) = o.prefill + o.decode
  BY CoreHolds, RequestFields
<1>2. /\ q.prefill = o.prefill /\ q.decode = o.decode
      /\ q.processed = o.processed + n + (IF prefilled THEN 1 ELSE 0)
      /\ q.prefill_complete = (o.prefill_complete \/ prefilled)
      /\ q.completed = (o.completed \/ q.processed = TotalTokens(o))
  BY <1>1 DEF OnBatchEnd, RequestRecord
<1>3. TotalTokens(q) = TotalTokens(o)
  BY <1>2 DEF TotalTokens
<1> HIDE DEF q
<1>4. q.completed <=> q.processed = TotalTokens(q)
  BY <1>2, <1>3
<1>5. q.processed \in Int /\ TotalTokens(q) \in Int
  BY <1>1, <1>2, <1>3
<1>6. CASE /\ ~o.prefill_complete /\ n >= 1 /\ o.processed + n <= o.prefill
           /\ o.decode >= 1 /\ ExactFor(o.prefill, allocation_map[r])
  <2>1. OnBatchEndAsserts(o, n)
    BY <1>1, <1>6 DEF OnBatchEndAsserts
  <2>2. CASE prefilled
    <3>1. q.processed = o.prefill + 1 /\ q.processed - 1 = o.prefill
      BY <1>1, <1>2, <2>2
    <3>2. q.prefill < q.processed /\ q.processed <= TotalTokens(q)
      BY <1>1, <1>2, <1>3, <1>6, <3>1
    <3>3. ExactFor(q.processed - 1, allocation_map[r])
      BY <1>6, <3>1
    <3>4. q.prefill_complete
      BY <1>2, <2>2
    <3> QED BY <1>2, <1>4, <1>5, <2>1, <3>2, <3>3, <3>4 DEF q
  <2>3. CASE ~prefilled
    <3>1. q.processed = o.processed + n /\ q.processed < q.prefill
      BY <1>1, <1>2, <1>6, <2>3
    <3>2. ~q.prefill_complete /\ q.processed < TotalTokens(o)
      BY <1>1, <1>2, <1>6, <2>3, <3>1
    <3>3. ~q.completed
      BY <1>1, <1>2, <3>1, <3>2
    <3> QED BY <1>2, <1>6, <2>1, <3>1, <3>2, <3>3 DEF q
  <2> QED BY <2>2, <2>3
<1>7. CASE /\ n = 1 /\ o.prefill_complete /\ o.prefill < o.processed
           /\ o.processed < TotalTokens(o) /\ ExactFor(o.processed, allocation_map[r])
  <2>1. ~prefilled
    BY <1>1, <1>7
  <2>2. q.processed = o.processed + 1 /\ q.processed - 1 = o.processed
    BY <1>1, <1>2, <1>7, <2>1
  <2>3. q.prefill < q.processed /\ q.processed <= TotalTokens(q)
    BY <1>1, <1>2, <1>3, <1>7, <2>2
  <2>4. ExactFor(q.processed - 1, allocation_map[r])
    BY <1>7, <2>2
  <2>5. OnBatchEndAsserts(o, n)
    BY <1>1, <1>7 DEF OnBatchEndAsserts
  <2>6. q.prefill_complete
    BY <1>2, <1>7
  <2> QED BY <1>2, <1>4, <1>5, <1>7, <2>3, <2>4, <2>5, <2>6 DEF q
<1> QED BY <1>6, <1>7 DEF InBatch

(* A step that leaves the requests and the blocks as they are, and the      *)
(* requests in places of the same kind.                                     *)
LEMMA UntouchedStep ==
    ASSUME IInv, [SarathiNext]_sarathiVars, UNCHANGED <<req, request_queue, allocation_map>>,
           \A x \in Range(preempted_requests') :
                x \in Range(preempted_requests) \cup Range(skipped_requests),
           \A x \in Range(running_prefills') \cup Range(skipped_requests') :
                \/ x \in Range(running_prefills) \cup Range(skipped_requests)
                \/ MidPrefill(x),
           \A e \in Range(batch') :
                \/ e \in Range(batch)
                \/ \E k \in DOMAIN running_batches : e \in Range(running_batches[k]),
           \A k \in DOMAIN running_batches' :
                \/ running_batches'[k] = batch
                \/ \E l \in DOMAIN running_batches : running_batches'[k] = running_batches[l]
    PROVE  RequestsInv'
<1>1. RequestsInv /\ asked' = asked
  BY AskedStays DEF IInv
<1>2. /\ \A x : Fresh(x) => Fresh(x)'
      /\ \A x : MidPrefill(x) => MidPrefill(x)'
      /\ \A x : MidDecode(x) => MidDecode(x)'
      /\ \A x, n : InBatch(x, n) => InBatch(x, n)'
  BY <1>1 DEF Fresh, MidPrefill, MidDecode, InBatch
<1>3. \A x \in Requests : CountersOK(x)'
  BY <1>1 DEF RequestsInv, CountersOK
<1>4. \A x \in Range(request_queue') : Fresh(x)'
  BY <1>1, <1>2 DEF RequestsInv
<1>5. \A x \in Range(preempted_requests') : MidPrefill(x)' \/ MidDecode(x)'
  BY <1>1, <1>2 DEF RequestsInv
<1>6. \A x \in Range(running_prefills') \cup Range(skipped_requests') : MidPrefill(x)'
  BY <1>1, <1>2 DEF RequestsInv
<1>7. \A e \in Range(batch') : InBatch(e.id, e.tokens)'
  BY <1>1, <1>2 DEF RequestsInv
<1>8. \A k \in DOMAIN running_batches' : \A e \in Range(running_batches'[k]) :
            InBatch(e.id, e.tokens)'
  BY <1>1, <1>2 DEF RequestsInv
<1> QED BY <1>3, <1>4, <1>5, <1>6, <1>7, <1>8 DEF RequestsInv, CountersOK

(* A step that adds r with n tokens to the batch. *)
LEMMA BatchedStep ==
    ASSUME IInv, [SarathiNext]_sarathiVars, NEW r \in Requests, NEW n,
           UNCHANGED <<req, running_batches>>,
           \A x \in DOMAIN allocation_map \ {r} : allocation_map'[x] = allocation_map[x],
           Range(request_queue') \subseteq Range(request_queue), r \notin Range(request_queue'),
           Range(preempted_requests') \subseteq Range(preempted_requests),
           Range(running_prefills') \subseteq Range(running_prefills),
           skipped_requests' = skipped_requests,
           r \notin Range(preempted_requests') \cup Range(running_prefills')
                        \cup Range(skipped_requests),
           r \notin Ids(batch), r \notin RunningIds,
           Range(batch') = Range(batch) \cup {[id |-> r, tokens |-> n]},
           InBatch(r, n)'
    PROVE  RequestsInv'
<1>1. RequestsInv /\ asked' = asked
  BY AskedStays DEF IInv
<1>2. OthersOK(r)
  BY RequestsFrame
<1>3. CountersOK(r)'
  BY <1>1 DEF RequestsInv, CountersOK
<1>4. \A x \in Requests : CountersOK(x)'
  BY <1>2, <1>3 DEF OthersOK
<1>5. \A e \in Range(batch') : InBatch(e.id, e.tokens)'
  <2> TAKE e \in Range(batch')
  <2>1. CASE e \in Range(batch)
    BY <1>2, <2>1, PlaceFacts DEF OthersOK
  <2>2. CASE e = [id |-> r, tokens |-> n]
    <3>1. e.id = r /\ e.tokens = n
      BY <2>2
    <3> QED BY <3>1
  <2> QED BY <2>1, <2>2
<1>6. \A k \in DOMAIN running_batches' : \A e \in Range(running_batches'[k]) :
            InBatch(e.id, e.tokens)'
  BY <1>2, PlaceFacts DEF OthersOK
<1>7. /\ \A x \in Range(request_queue') : Fresh(x)'
      /\ \A x \in Range(preempted_requests') : MidPrefill(x)' \/ MidDecode(x)'
      /\ \A x \in Range(running_prefills') \cup Range(skipped_requests') : MidPrefill(x)'
  BY <1>2 DEF OthersOK
<1> QED BY <1>4, <1>5, <1>6, <1>7 DEF RequestsInv, CountersOK

(* Each operation leaves the counters and blocks of every request           *)
(* consistent with the place the request is in.                             *)
LEMMA RequestsStep ==
    ASSUME IInv, [SarathiNext]_sarathiVars
    PROVE  RequestsInv'
<1>0. asked' = asked /\ RequestsInv /\ NotArrived
  BY AskedStays DEF IInv
<1>1. CASE SetAside
  <2>1. PICK r : r = Head(preempted_requests)
    OBVIOUS
  <2>2. /\ MidPrefill(r)
        /\ Range(preempted_requests') \subseteq Range(preempted_requests)
        /\ Range(running_prefills') = Range(running_prefills) \cup {r}
    BY <1>1, <2>1, SetsAside
  <2>3. UNCHANGED <<req, request_queue, allocation_map, skipped_requests, batch, running_batches>>
    BY <1>1 DEF SetAside, memory, pipeline
  <2> QED BY <2>2, <2>3, UntouchedStep
<1>2. CASE Resume
  <2>1. PICK r : r = Head(preempted_requests)
    OBVIOUS
  <2>2. /\ r \in Requests /\ MidDecode(r)
        /\ r \notin Range(Paused') /\ r \notin Ids(batch) /\ r \notin RunningIds
        /\ Range(preempted_requests') \subseteq Range(preempted_requests)
        /\ Range(batch') = Range(batch) \cup {[id |-> r, tokens |-> 1]}
        /\ ExactFor(req[r].processed, allocation_map'[r])
        /\ \A x \in DOMAIN allocation_map \ {r} : allocation_map'[x] = allocation_map[x]
        /\ CommonNext
    BY <1>2, <2>1, Resumes
  <2>3. UNCHANGED <<req, request_queue, running_prefills, skipped_requests, running_batches>>
    BY <1>2 DEF Resume, pipeline, locals
  <2>4. r \in Range(Paused)
    BY <1>2, <2>1, CoreHolds, TailRange, PausedLists DEF Resume, MayPop, Lists
  <2>5. r \notin Range(request_queue')
    BY <2>3, <2>4, CoreHolds, BatchHolds
  <2>6. r \notin Range(preempted_requests') \cup Range(running_prefills')
                    \cup Range(skipped_requests)
    BY <2>2, <2>3, PausedLists DEF CommonNext
  <2>7. InBatch(r, 1)'
    BY <2>2, <2>3 DEF InBatch, MidDecode
  <2> QED BY <2>2, <2>3, <2>5, <2>6, <2>7, BatchedStep
<1>3. CASE Evict
  <2>1. PICK r : r = Last(preempted_requests)
    OBVIOUS
  <2>2. /\ CommonNext
        /\ r \in Requests /\ (MidPrefill(r) \/ MidDecode(r))
        /\ r \notin Range(Paused') /\ r \notin Ids(batch) /\ r \notin RunningIds
        /\ Range(preempted_requests') \subseteq Range(preempted_requests)
        /\ Range(request_queue') = Range(request_queue) \cup {r}
        /\ req'[r] = Restart(req[r])
        /\ \A x \in Requests \ {r} : req'[x] = req[x]
        /\ \A x \in DOMAIN allocation_map \ {r} : allocation_map'[x] = allocation_map[x]
    BY <1>3, <2>1, Evicts
  <2>3. UNCHANGED <<batch, running_batches, running_prefills, skipped_requests>>
    BY <1>3 DEF Evict, pipeline, locals
  <2>4. Fresh(r)' /\ CountersOK(r)'
    BY <1>0, <2>2, RestartFresh
  <2>5. OthersOK(r)
    BY <2>2, RequestsFrame
  <2>6. r \notin Range(preempted_requests') \cup Range(running_prefills')
                    \cup Range(skipped_requests')
    BY <2>2, PausedLists DEF CommonNext
  <2>7. /\ \A f \in Range(batch') : InBatch(f.id, f.tokens)'
        /\ \A k \in DOMAIN running_batches' : \A f \in Range(running_batches'[k]) :
                InBatch(f.id, f.tokens)'
    BY <2>2, <2>3, <2>5, PlaceFacts DEF OthersOK
  <2>8. /\ \A x \in Range(request_queue') : Fresh(x)'
        /\ \A x \in Range(preempted_requests') : MidPrefill(x)' \/ MidDecode(x)'
        /\ \A x \in Range(running_prefills') \cup Range(skipped_requests') : MidPrefill(x)'
        /\ \A x \in Requests : CountersOK(x)'
    BY <2>2, <2>3, <2>4, <2>5, <2>6 DEF OthersOK
  <2> QED BY <2>7, <2>8 DEF RequestsInv, CountersOK
<1>4. CASE ContinuePrefill
  <2>1. PICK r : r = Head(running_prefills)
    OBVIOUS
  <2>2. CASE NextNumTokens(r) = 0
    <3>1. /\ Range(running_prefills') \cup Range(skipped_requests')
                    = Range(running_prefills) \cup Range(skipped_requests)
          /\ UNCHANGED <<req, request_queue, preempted_requests, allocation_map,
                         running_batches, batch>>
      BY <1>4, <2>1, <2>2, Skips
    <3> QED BY <3>1, UntouchedStep
  <2>3. CASE NextNumTokens(r) # 0
    <3>0. PICK n : n = NextNumTokens(r)
      OBVIOUS
    <3>1. /\ CommonNext
          /\ r \in Requests /\ MidPrefill(r)
          /\ r \notin Range(Paused') /\ r \notin Ids(batch) /\ r \notin RunningIds
          /\ Range(running_prefills') \subseteq Range(running_prefills)
          /\ skipped_requests' = skipped_requests
          /\ Range(batch') = Range(batch) \cup {[id |-> r, tokens |-> n]}
          /\ \A x \in DOMAIN allocation_map \ {r} : allocation_map'[x] = allocation_map[x]
      BY <1>4, <2>1, <2>3, <3>0, Continues
    <3>2. UNCHANGED <<req, request_queue, preempted_requests, allocation_map, running_batches>>
      BY <1>4 DEF ContinuePrefill, memory, pipeline
    <3>3. r \in Range(Paused)
      BY <1>4, <2>1, CoreHolds, TailRange, PausedLists DEF ContinuePrefill, Lists
    <3>4. r \notin Range(request_queue')
      BY <3>2, <3>3, CoreHolds, BatchHolds
    <3>5. r \notin Range(preempted_requests') \cup Range(running_prefills')
                        \cup Range(skipped_requests)
      BY <3>1, PausedLists DEF CommonNext
    <3>6. n >= 1 /\ req[r].processed + n <= req[r].prefill
      BY <2>3, <3>0, <3>1, CoreHolds, ChunkFacts DEF MidPrefill
    <3>7. InBatch(r, n)'
      BY <3>1, <3>2, <3>6 DEF InBatch, MidPrefill
    <3> QED BY <3>1, <3>2, <3>4, <3>5, <3>7, BatchedStep
  <2> QED BY <2>2, <2>3
<1>5. CASE PrefillsDone
  <2>1. /\ running_prefills' = <<>> /\ skipped_requests' = <<>>
        /\ Range(preempted_requests') = Range(skipped_requests) \cup Range(preempted_requests)
        /\ UNCHANGED <<req, request_queue, allocation_map, running_batches, batch>>
    BY <1>5, Sorts
  <2>2. Range(running_prefills') = {} /\ Range(skipped_requests') = {}
    BY <2>1 DEF Range
  <2> QED BY <2>1, <2>2, UntouchedStep
<1>6. CASE Admit
  <2>0. PICK r : r = Head(request_queue)
    OBVIOUS
  <2>1. PICK n : n = NextNumTokens(r)
    OBVIOUS
  <2>2. /\ r \in Requests /\ r \notin DOMAIN allocation_map /\ Fresh(r)
        /\ Range(request_queue') \subseteq Range(request_queue)
        /\ r \notin Range(request_queue')
        /\ Range(batch') = Range(batch) \cup {[id |-> r, tokens |-> n]}
        /\ n >= 1 /\ n <= req[r].prefill
        /\ ExactFor(req[r].prefill, allocation_map'[r])
        /\ \A x \in DOMAIN allocation_map : allocation_map'[x] = allocation_map[x]
    BY <1>6, <2>0, <2>1, Admits
  <2>3. /\ UNCHANGED <<req, preempted_requests, running_batches>>
        /\ UNCHANGED <<running_prefills, skipped_requests>>
    BY <1>6 DEF Admit, pipeline, locals
  <2>4. r \notin Ids(batch) \cup RunningIds \cup Range(preempted_requests)
                    \cup Range(running_prefills) \cup Range(skipped_requests)
    BY <2>2, PlaceFacts
  <2>5. InBatch(r, n)'
    <3>1. req[r].processed = 0 /\ ~req[r].prefill_complete /\ req[r].decode >= 1
      BY <2>2 DEF Fresh
    <3>2. n \in Nat
      BY <2>1, <2>2, CoreHolds, ChunkFacts
    <3>3. req[r].processed + n <= req[r].prefill
      BY <2>2, <3>1, <3>2
    <3> QED BY <2>2, <2>3, <3>1, <3>3 DEF InBatch
  <2> QED BY <2>2, <2>3, <2>4, <2>5, BatchedStep
<1>7. CASE AdmitDone
  <2>1. UNCHANGED <<req, request_queue, preempted_requests, allocation_map,
                    running_prefills, skipped_requests>>
    BY <1>7 DEF AdmitDone, memory, locals
  <2>2. /\ batch' = <<>>
        /\ \A k \in DOMAIN running_batches' :
                \/ k \in DOMAIN running_batches /\ running_batches'[k] = running_batches[k]
                \/ running_batches'[k] = batch
    BY <1>7, Returns
  <2>3. Range(batch') = {}
    BY <2>2 DEF Range
  <2> QED BY <2>1, <2>2, <2>3, UntouchedStep
<1>8. CASE AddRequests /\ UNCHANGED locals
  <2>1. UNCHANGED <<req, allocation_map, preempted_requests, batch, running_batches,
                    running_prefills, skipped_requests>>
    BY <1>8 DEF AddRequests, memory, pipeline, locals
  <2>2. 0 \notin Requests /\ OthersOK(0)
    BY <2>1, RequestsFrame DEF Requests
  <2>3. \A x \in Range(request_queue') : Fresh(x)'
    <3> TAKE x \in Range(request_queue')
    <3>1. CASE x \in Range(request_queue)
      BY <2>2, <3>1, PlaceFacts DEF OthersOK
    <3>2. CASE x \in Requests \ Arrived
      <4>1. req'[x] = NewRequest(asked[x].prefill, asked[x].decode)
        BY <1>0, <2>1, <3>2 DEF NotArrived
      <4>2. asked[x].prefill \in Nat \ {0} /\ asked[x].decode \in Nat \ {0}
        BY <3>2, CoreHolds, RequestFields
      <4> QED BY <4>1, <4>2 DEF Fresh, NewRequest
    <3> QED BY <1>8, <3>1, <3>2, CoreHolds, ArrivalMove
  <2>4. /\ \A x \in Requests : CountersOK(x)'
        /\ \A x \in Range(preempted_requests') : MidPrefill(x)' \/ MidDecode(x)'
        /\ \A x \in Range(running_prefills') \cup Range(skipped_requests') : MidPrefill(x)'
        /\ \A e \in Range(batch') : InBatch(e.id, e.tokens)'
        /\ \A k \in DOMAIN running_batches' : \A e \in Range(running_batches'[k]) :
                InBatch(e.id, e.tokens)'
    <3>1. \A x \in Requests : x # 0
      BY <2>2
    <3>2. /\ \A e \in Range(batch) : e.id # 0
          /\ \A k \in DOMAIN running_batches : \A e \in Range(running_batches[k]) : e.id # 0
      BY <3>1, PlaceFacts
    <3> QED BY <2>1, <2>2, <3>1, <3>2, PlaceFacts DEF OthersOK
  <2> QED BY <2>3, <2>4 DEF RequestsInv, CountersOK
<1>9. CASE BatchEnd /\ UNCHANGED locals
  <2>1. UNCHANGED <<req, request_queue, preempted_requests, allocation_map,
                    running_prefills, skipped_requests>>
    BY <1>9 DEF BatchEnd, memory, locals
  <2>2. /\ \E k \in DOMAIN running_batches : batch' = running_batches[k]
        /\ \A k \in DOMAIN running_batches' :
                \E l \in DOMAIN running_batches : running_batches'[k] = running_batches[l]
    BY <1>9, CoreHolds, BatchEndMove
  <2> QED BY <2>1, <2>2, UntouchedStep
<1>10. CASE \/ DecodesDone
            \/ (OnSchedule \/ BatchEnded) /\ UNCHANGED locals
            \/ UNCHANGED sarathiVars
  <2>1. UNCHANGED <<req, request_queue, preempted_requests, allocation_map,
                    running_prefills, skipped_requests, running_batches, batch>>
    BY <1>10 DEF DecodesDone, OnSchedule, BatchEnded, sarathiVars, vars, memory, pipeline, locals
  <2> QED BY <2>1, UntouchedStep
<1>11. CASE EndRequest /\ UNCHANGED locals
  <2>0. PICK r, n : r = Head(batch).id /\ n = Head(batch).tokens
    OBVIOUS
  <2>1. UNCHANGED <<request_queue, running_batches, running_prefills, skipped_requests>>
    BY <1>11 DEF EndRequest, pipeline, locals
  <2>2. /\ r \in Requests /\ n \in Nat /\ InBatch(r, n) /\ ~req[r].completed
        /\ r \notin Range(request_queue) /\ r \notin Range(Paused)
        /\ r \notin Ids(batch') /\ r \notin RunningIds' /\ Range(batch') \subseteq Range(batch)
        /\ req'[r] = OnBatchEnd(req[r], n)
        /\ \A x \in Requests \ {r} : req'[x] = req[x]
        /\ \A x \in DOMAIN allocation_map \ {r} : allocation_map'[x] = allocation_map[x]
        /\ req'[r].completed => preempted_requests' = preempted_requests
        /\ ~req'[r].completed =>
                /\ Range(preempted_requests') = Range(preempted_requests) \cup {r}
                /\ allocation_map' = allocation_map
    BY <2>0, <1>11, Ends
  <2>3. PICK q : q = OnBatchEnd(req[r], n)
    OBVIOUS
  <2>4. /\ q.prefill = req[r].prefill /\ q.decode = req[r].decode
        /\ q.completed => q.prefill_complete /\ q.processed = TotalTokens(q)
        /\ ~q.completed =>
                \/ /\ ~q.prefill_complete /\ q.processed < q.prefill /\ q.decode >= 1
                   /\ ExactFor(q.prefill, allocation_map[r])
                \/ /\ q.prefill_complete /\ q.prefill < q.processed
                   /\ q.processed < TotalTokens(q)
                   /\ ExactFor(q.processed - 1, allocation_map[r])
    BY <2>2, <2>3, EndOfBatch
  <2>5. CountersOK(r)'
    <3>1. TotalTokens(q) = TotalTokens(asked[r])
      BY <1>0, <2>2, <2>4 DEF RequestsInv, TotalTokens
    <3> QED BY <1>0, <2>2, <2>3, <2>4, <3>1 DEF CountersOK
  <2>6. ~req'[r].completed => MidPrefill(r)' \/ MidDecode(r)'
    BY <2>2, <2>3, <2>4 DEF MidPrefill, MidDecode
  <2>7. OthersOK(r)
    BY <2>2, RequestsFrame
  <2>8. r \notin Range(running_prefills) \cup Range(skipped_requests)
                    \cup Range(preempted_requests)
    BY <2>2, CoreHolds, PausedLists
  <2>9. \A f \in Range(batch') : InBatch(f.id, f.tokens)'
    <3>1. \A f \in Range(batch') : f.id \in Ids(batch')
      BY DEF Range, Ids
    <3> QED BY <2>2, <2>7, <3>1 DEF OthersOK
  <2>10. \A k \in DOMAIN running_batches' : \A f \in Range(running_batches'[k]) :
            InBatch(f.id, f.tokens)'
    <3>1. r \notin RunningIds
      BY <2>1, <2>2 DEF RunningIds
    <3> QED BY <2>1, <2>7, <3>1, PlaceFacts DEF OthersOK
  <2>11. /\ \A x \in Range(request_queue') : Fresh(x)'
         /\ \A x \in Range(preempted_requests') : MidPrefill(x)' \/ MidDecode(x)'
         /\ \A x \in Range(running_prefills') \cup Range(skipped_requests') : MidPrefill(x)'
         /\ \A x \in Requests : CountersOK(x)'
    BY <2>1, <2>2, <2>5, <2>6, <2>7, <2>8 DEF OthersOK
  <2> QED BY <2>9, <2>10, <2>11 DEF RequestsInv, CountersOK
<1> QED BY <1>1, <1>2, <1>3, <1>4, <1>5, <1>6, <1>7, <1>8, <1>9, <1>10, <1>11 DEF SarathiNext

-----------------------------------------------------------------------------
(* The inductive invariant. *)

(* The counters are consistent when requests are made. *)
LEMMA RequestsInit == SarathiInit => RequestsInv
<1> SUFFICES ASSUME SarathiInit PROVE RequestsInv
  OBVIOUS
<1>1. Range(<<>>) = {} /\ DOMAIN <<>> = {}
  BY DEF Range
<1>2. /\ request_queue = <<>> /\ preempted_requests = <<>> /\ batch = <<>>
      /\ running_batches = <<>> /\ running_prefills = <<>> /\ skipped_requests = <<>>
  BY DEF SarathiInit, Init
<1>3. ASSUME NEW r \in Requests
      PROVE  TotalTokens(req[r]) = TotalTokens(asked[r]) /\ ~req[r].completed
  <2>1. req[r] = NewRequest(asked[r].prefill, asked[r].decode)
    BY DEF SarathiInit, Init
  <2> QED BY <2>1 DEF NewRequest, TotalTokens
<1> QED BY <1>1, <1>2, <1>3 DEF RequestsInv

(* The inductive invariant holds of every reachable state, whatever the     *)
(* chunk size, the memory and the pipeline.                                 *)
THEOREM Invariance == Spec => []IInv
<1>1. SarathiInit => IInv
  <2> SUFFICES ASSUME SarathiInit PROVE IInv
    OBVIOUS
  <2>1. /\ preempted_requests = <<>> /\ running_prefills = <<>> /\ skipped_requests = <<>>
        /\ pc = "idle" /\ Init
    BY DEF SarathiInit, Init
  <2>2. Lists /\ Paused = <<>>
    <3>1. <<>> \in Seq(Requests) /\ <<>> \o <<>> \o <<>> = <<>>
      OBVIOUS
    <3> QED BY <2>1, <3>1 DEF Lists, Paused
  <2>3. Core /\ num_allocated_blocks = 0 /\ NothingLost
    BY <2>1, <2>2, CoreInit DEF NothingLost
  <2>4. TypeOK /\ PipelineCount /\ NotArrived /\ MemoryAccounting /\ WithinCap
    BY <2>1, <2>2, <2>3, ReplicaAssumption DEF Core, TypeOK, MemoryAccounting, Lists
  <2>5. RequestsInv /\ LoopLists
    BY <2>1, RequestsInit DEF LoopLists
  <2> QED BY <2>3, <2>4, <2>5 DEF IInv
<1>2. IInv /\ [SarathiNext]_sarathiVars => IInv'
  BY CommonStep, RequestsStep, LoopListsStep DEF IInv
<1> QED BY <1>1, <1>2, PTL DEF Spec

-----------------------------------------------------------------------------
(* Tokens of a batch. *)

(* The tokens of an entry are added to those of its batch. *)
LEMMA TokensAppend ==
    /\ TokensOf(<<>>) = 0
    /\ \A b \in Seq(BatchEntry) : \A e \in BatchEntry :
            TokensOf(Append(b, e)) = TokensOf(b) + e.tokens
<1>1. TokensOf(<<>>) = 0
  <2>1. PICK f : f = [i \in DOMAIN <<>> |-> <<>>[i].tokens]
    OBVIOUS
  <2>2. DOMAIN f = {}
    BY <2>1
  <2>3. SumFunctionOnSet(f, {}) = 0
    BY FS_EmptySet, SumFacts
  <2> QED BY <2>1, <2>2, <2>3 DEF TokensOf, SumFunction
<1>2. ASSUME NEW b \in Seq(BatchEntry), NEW e \in BatchEntry
      PROVE  TokensOf(Append(b, e)) = TokensOf(b) + e.tokens
  <2> DEFINE c == Append(b, e)
             N == Len(b)
  <2>1. /\ N \in Nat /\ DOMAIN b = 1 .. N /\ DOMAIN c = 1 .. N + 1
        /\ \A i \in 1 .. N : c[i] = b[i]
        /\ c[N + 1] = e
    BY AppendProperties, LenProperties
  <2>2. ASSUME NEW i \in 1 .. N PROVE b[i].tokens \in Int
    <3>1. b[i] \in BatchEntry
      BY ElementOfSeq
    <3> QED BY <3>1 DEF BatchEntry
  <2>3. e.tokens \in Int
    BY DEF BatchEntry
  <2> HIDE DEF c, N
  <2>4. PICK f : f = [i \in DOMAIN b |-> b[i].tokens]
    OBVIOUS
  <2>5. PICK g : g = [i \in DOMAIN c |-> c[i].tokens]
    OBVIOUS
  <2>6. /\ DOMAIN f = 1 .. N /\ DOMAIN g = 1 .. N + 1
        /\ \A i \in 1 .. N : f[i] \in Int /\ g[i] = f[i] + 0
        /\ g[N + 1] = e.tokens
        /\ \A i \in 1 .. N + 1 : g[i] \in Int
    BY <2>1, <2>2, <2>3, <2>4, <2>5
  <2>7. /\ IsFiniteSet(1 .. N) /\ IsFiniteSet(1 .. N + 1)
        /\ Cardinality(1 .. N) \in Nat
    BY <2>1, FS_Interval, FS_CardinalityType
  <2>8. SumFunctionOnSet(g, 1 .. N) = SumFunctionOnSet(f, 1 .. N) + 0 * Cardinality(1 .. N)
    <3>1. PICK z \in Int : z = 0
      OBVIOUS
    <3>2. \A i \in 1 .. N : f[i] \in Int /\ g[i] = f[i] + z
      BY <2>6, <3>1
    <3>3. SumFunctionOnSet(g, 1 .. N) = SumFunctionOnSet(f, 1 .. N) + z * Cardinality(1 .. N)
      BY <2>7, <3>2, SumShift
    <3> QED BY <3>1, <3>3
  <2>9. SumFunctionOnSet(f, 1 .. N) \in Int
    BY <2>6, <2>7, SumFacts
  <2>10. (1 .. N + 1) \ {N + 1} = 1 .. N /\ N + 1 \in 1 .. N + 1
    BY <2>1
  <2>11. SumFunctionOnSet(g, 1 .. N + 1) = g[N + 1] + SumFunctionOnSet(g, 1 .. N)
    <3>1. PICK D : D = 1 .. N + 1
      OBVIOUS
    <3>2. IsFiniteSet(D) /\ \A x \in D : g[x] \in Int
      BY <2>6, <2>7, <3>1
    <3>3. \A x \in D : SumFunctionOnSet(g, D) = g[x] + SumFunctionOnSet(g, D \ {x})
      BY <3>2, SumFacts
    <3>4. N + 1 \in D /\ D \ {N + 1} = 1 .. N
      BY <2>10, <3>1
    <3>5. SumFunctionOnSet(g, D) = g[N + 1] + SumFunctionOnSet(g, D \ {N + 1})
      BY <3>3, <3>4
    <3> QED BY <3>1, <3>4, <3>5
  <2>12. SumFunctionOnSet(g, 1 .. N + 1) = SumFunctionOnSet(f, 1 .. N) + e.tokens
    BY <2>3, <2>6, <2>7, <2>8, <2>9, <2>11
  <2>13. TokensOf(c) = SumFunctionOnSet(g, 1 .. N + 1)
    BY <2>5, <2>6 DEF TokensOf, SumFunction
  <2>14. TokensOf(b) = SumFunctionOnSet(f, 1 .. N)
    BY <2>4, <2>6 DEF TokensOf, SumFunction
  <2> QED BY <2>12, <2>13, <2>14 DEF c
<1> QED BY <1>1, <1>2

(* Whether the prefill goes on after an entry depends on its request only.  *)
LEMMA IncompleteKept ==
    ASSUME NEW e, req'[e.id] = req[e.id]
    PROVE  Incomplete(e)' <=> Incomplete(e)
BY DEF Incomplete

(* The batches in the pipeline keep to the budget when they were in it, or  *)
(* have just been formed, and their requests are not touched.               *)
LEMMA RunningBudgets ==
    ASSUME IInv, Budgets,
           \A k \in DOMAIN running_batches' :
                \/ \E l \in DOMAIN running_batches : running_batches'[k] = running_batches[l]
                \/ running_batches'[k] = batch /\ req' = req /\ pc = "admit",
           \A x \in RunningIds : req'[x] = req[x]
    PROVE  (\A k \in DOMAIN running_batches : WithinBudget(running_batches[k]))'
<1>1. ASSUME NEW k \in DOMAIN running_batches', NEW b, b = running_batches'[k]
      PROVE  WithinBudget(b)'
  <2>1. CASE \E l \in DOMAIN running_batches : b = running_batches[l]
    <3>1. PICK l \in DOMAIN running_batches : b = running_batches[l]
      BY <2>1
    <3>2. WithinBudget(b)
      BY <3>1 DEF Budgets
    <3>3. \A e \in Range(b) : Incomplete(e)' <=> Incomplete(e)
      BY <3>1, EntryIds, IncompleteKept
    <3> QED BY <3>2, <3>3 DEF WithinBudget, DecodesFit
  <2>2. CASE b = batch /\ req' = req /\ pc = "admit"
    <3>1. WithinBudget(b)
      BY <2>2 DEF Budgets, Forming
    <3>2. \A e \in Range(b) : Incomplete(e)' <=> Incomplete(e)
      BY <2>2, IncompleteKept
    <3> QED BY <3>1, <3>2 DEF WithinBudget, DecodesFit
  <2> QED BY <1>1, <2>1, <2>2
<1> QED BY <1>1 DEF WithinBudget, DecodesFit

(* The batch being formed keeps to the budget when it is not changed.       *)
LEMMA FormingKept ==
    ASSUME IInv, Forming, batch' = batch, pc' = "form" => pc = "form",
           \A x \in Ids(batch) : req'[x] = req[x]
    PROVE  Forming'
<1>1. PICK b : b = batch
  OBVIOUS
<1>2. \A e \in Range(b) : Incomplete(e)' <=> Incomplete(e)
  BY <1>1, EntryIds, IncompleteKept
<1> QED BY <1>1, <1>2 DEF Forming, WithinBudget, DecodesFit

(* An empty batch keeps to the budget. *)
LEMMA EmptyForms ==
    ASSUME batch' = <<>>
    PROVE  Forming'
<1>1. MaxMicroBatchSize \in Nat /\ ChunkSize \in Nat
  BY ReplicaAssumption, SarathiAssumption DEF MaxMicroBatchSize
<1>2. Range(<<>>) = {} /\ Len(<<>>) = 0 /\ TokensOf(<<>>) = 0
  BY TokensAppend DEF Range
<1> QED BY <1>1, <1>2 DEF Forming, WithinBudget, DecodesFit

(* What a batch is after a request joined it with n tokens. *)
LEMMA JoinFacts ==
    ASSUME IInv, NEW r \in Requests, NEW n \in Nat, NEW e, e = [id |-> r, tokens |-> n],
           batch' = Append(batch, e), req' = req
    PROVE  /\ Len(batch) \in Nat /\ TokensOf(batch) \in Nat
           /\ Len(batch') = Len(batch) + 1 /\ TokensOf(batch') = TokensOf(batch) + n
           /\ Range(batch') = Range(batch) \cup {e}
           /\ \A d : Incomplete(d)' <=> Incomplete(d)
           /\ Incomplete(e) <=> ~req[r].prefill_complete /\ req[r].processed + n < req[r].prefill
           /\ MaxMicroBatchSize \in Nat /\ ChunkSize \in Nat
<1>1. batch \in Seq(BatchEntry) /\ e \in BatchEntry /\ e.tokens = n /\ e.id = r
  BY CoreHolds DEF ReplicaTypes, BatchEntry
<1>2. MaxMicroBatchSize \in Nat /\ ChunkSize \in Nat
  BY ReplicaAssumption, SarathiAssumption DEF MaxMicroBatchSize
<1>3. Len(batch) \in Nat /\ Len(Append(batch, e)) = Len(batch) + 1
  BY <1>1, LenProperties, AppendProperties
<1>4. Range(Append(batch, e)) = Range(batch) \cup {e}
  BY <1>1, AppendRange
<1>5. TokensOf(batch) \in Nat /\ TokensOf(Append(batch, e)) = TokensOf(batch) + n
  BY <1>1, TokensNat, TokensAppend
<1> QED BY <1>1, <1>2, <1>3, <1>4, <1>5 DEF Incomplete

(* A decode joins the batch of the first loop. *)
LEMMA DecodeJoins ==
    ASSUME IInv, Forming, NEW r \in Requests, pc = "form",
           batch' = Append(batch, [id |-> r, tokens |-> 1]), req' = req,
           req[r].prefill_complete, Len(batch) # MaxMicroBatchSize
    PROVE  Forming'
<1>1. PICK e : e = [id |-> r, tokens |-> 1]
  OBVIOUS
<1>2. /\ Len(batch) \in Nat /\ TokensOf(batch) \in Nat
      /\ Len(batch') = Len(batch) + 1 /\ TokensOf(batch') = TokensOf(batch) + 1
      /\ Range(batch') = Range(batch) \cup {e}
      /\ \A d : Incomplete(d)' <=> Incomplete(d)
      /\ ~Incomplete(e)
      /\ MaxMicroBatchSize \in Nat /\ ChunkSize \in Nat
  BY <1>1, JoinFacts
<1>3. /\ TokensOf(batch) = Len(batch) /\ Len(batch) <= MaxMicroBatchSize
      /\ \A d \in Range(batch) : ~Incomplete(d)
  BY DEF Forming, WithinBudget
<1>4. \A d \in Range(batch') : ~Incomplete(d)'
  BY <1>2, <1>3
<1>5. TokensOf(batch') = Len(batch') /\ Len(batch') <= MaxMicroBatchSize
  BY <1>2, <1>3
<1>6. DecodesFit => TokensOf(batch') <= ChunkSize
  BY <1>2, <1>5 DEF DecodesFit
<1> QED BY <1>2, <1>4, <1>5, <1>6 DEF Forming, WithinBudget, DecodesFit

(* A chunk of a prefill joins the batch. *)
LEMMA ChunkJoins ==
    ASSUME IInv, Forming, NEW r \in Requests, pc' # "form",
           NEW n, n = NextNumTokens(r), n # 0,
           batch' = Append(batch, [id |-> r, tokens |-> n]), req' = req,
           ~req[r].prefill_complete,
           DecodesFit => Len(batch) # MaxMicroBatchSize
    PROVE  Forming'
<1>0. /\ n \in Nat /\ n >= 1 /\ n <= ChunkSize - TokensOf(batch)
      /\ req[r].processed + n < req[r].prefill => n = ChunkSize - TokensOf(batch)
  BY CoreHolds, ChunkFacts
<1>1. PICK e : e = [id |-> r, tokens |-> n]
  OBVIOUS
<1>2. /\ Len(batch) \in Nat /\ TokensOf(batch) \in Nat
      /\ Len(batch') = Len(batch) + 1 /\ TokensOf(batch') = TokensOf(batch) + n
      /\ Range(batch') = Range(batch) \cup {e}
      /\ \A d : Incomplete(d)' <=> Incomplete(d)
      /\ Incomplete(e) => req[r].processed + n < req[r].prefill
      /\ MaxMicroBatchSize \in Nat /\ ChunkSize \in Nat
  BY <1>0, <1>1, JoinFacts
<1>3. /\ Len(batch) <= TokensOf(batch) /\ Len(batch) <= MaxMicroBatchSize
      /\ (\E d \in Range(batch) : Incomplete(d)) => TokensOf(batch) >= ChunkSize
  BY DEF Forming, WithinBudget
<1>4. TokensOf(batch) < ChunkSize /\ TokensOf(batch') <= ChunkSize
  BY <1>0, <1>2
<1>5. \A d \in Range(batch) : ~Incomplete(d)
  BY <1>2, <1>3, <1>4
<1>6. Len(batch') <= MaxMicroBatchSize
  <2>1. CASE DecodesFit
    BY <1>2, <1>3, <2>1
  <2>2. CASE ~DecodesFit
    BY <1>2, <1>3, <1>4, <2>2 DEF DecodesFit
  <2> QED BY <2>1, <2>2
<1>7. \A d, f \in Range(batch') : Incomplete(d)' /\ Incomplete(f)' => d = f
  BY <1>2, <1>5
<1>8. (\E d \in Range(batch') : Incomplete(d)') => TokensOf(batch') >= ChunkSize
  <2>1. Incomplete(e) => TokensOf(batch') = ChunkSize
    BY <1>0, <1>2
  <2>2. (\E d \in Range(batch') : Incomplete(d)') => Incomplete(e)
    BY <1>2, <1>5
  <2> QED BY <1>2, <2>1, <2>2
<1>9. Len(batch') <= TokensOf(batch')
  BY <1>0, <1>2, <1>3
<1> QED BY <1>4, <1>6, <1>7, <1>8, <1>9 DEF Forming, WithinBudget, DecodesFit

(* Every step keeps the batches in the pipeline to the budget. *)
LEMMA PipelineBudgetStep ==
    ASSUME IInv, Budgets, [SarathiNext]_sarathiVars
    PROVE  (\A k \in DOMAIN running_batches : WithinBudget(running_batches[k]))'
<1>1. CASE AdmitDone
  <2>1. req' = req /\ pc = "admit"
    BY <1>1 DEF AdmitDone
  <2> QED BY <1>1, <2>1, Returns, RunningBudgets
<1>2. CASE BatchEnd /\ UNCHANGED locals
  <2>1. req' = req
    BY <1>2 DEF BatchEnd
  <2>2. \A k \in DOMAIN running_batches' :
            \E l \in DOMAIN running_batches : running_batches'[k] = running_batches[l]
    BY <1>2, CoreHolds, BatchEndMove
  <2> QED BY <2>1, <2>2, RunningBudgets
<1>3. CASE Evict
  <2>1. PICK r : r = Last(preempted_requests)
    OBVIOUS
  <2>2. r \notin RunningIds /\ \A x \in Requests \ {r} : req'[x] = req[x]
    BY <1>3, <2>1, Evicts
  <2>3. running_batches' = running_batches
    BY <1>3 DEF Evict, pipeline
  <2>4. \A x \in RunningIds : req'[x] = req[x]
    BY <2>2, PlaceFacts
  <2> QED BY <2>3, <2>4, RunningBudgets
<1>4. CASE EndRequest /\ UNCHANGED locals
  <2>1. PICK r : r = Head(batch).id
    OBVIOUS
  <2>2. r \notin RunningIds' /\ \A x \in Requests \ {r} : req'[x] = req[x]
    BY <1>4, <2>1, Ends
  <2>3. running_batches' = running_batches
    BY <1>4 DEF EndRequest, pipeline
  <2>4. RunningIds' = RunningIds
    BY <2>3 DEF RunningIds
  <2>5. \A x \in RunningIds : req'[x] = req[x]
    BY <2>2, <2>4, PlaceFacts
  <2> QED BY <2>3, <2>5, RunningBudgets
<1>5. CASE \/ SetAside \/ Resume \/ DecodesDone \/ ContinuePrefill \/ PrefillsDone \/ Admit
           \/ (AddRequests \/ OnSchedule \/ BatchEnded) /\ UNCHANGED locals
           \/ UNCHANGED sarathiVars
  <2>1. req' = req /\ running_batches' = running_batches
    BY <1>5 DEF SetAside, Resume, DecodesDone, ContinuePrefill, PrefillsDone, Admit,
                AddRequests, OnSchedule, BatchEnded, sarathiVars, vars, pipeline
  <2> QED BY <2>1, RunningBudgets
<1> QED BY <1>1, <1>2, <1>3, <1>4, <1>5 DEF SarathiNext

(* The lists that a loop goes through hold few enough requests for the      *)
(* batch when the decodes fit in a chunk.                                   *)
LEMMA RoomInBatch ==
    ASSUME IInv, BudgetInv, DecodesFit, pc # "admit"
    PROVE  /\ Len(preempted_requests) \in Nat /\ Len(running_prefills) \in Nat
           /\ Len(batch) \in Nat /\ MaxMicroBatchSize \in Nat
           /\ Len(preempted_requests) + Len(running_prefills) + Len(batch) <= MaxMicroBatchSize
           /\ preempted_requests # <<>> => Len(preempted_requests) >= 1
           /\ running_prefills # <<>> => Len(running_prefills) >= 1
<1>1. /\ preempted_requests \in Seq(Requests) /\ running_prefills \in Seq(Requests)
      /\ batch \in Seq(BatchEntry)
  BY CoreHolds DEF Lists, ReplicaTypes
<1>2. MaxMicroBatchSize \in Nat
  BY ReplicaAssumption DEF MaxMicroBatchSize
<1>3. /\ Len(preempted_requests) \in Nat /\ Len(running_prefills) \in Nat /\ Len(batch) \in Nat
      /\ preempted_requests # <<>> => Len(preempted_requests) # 0
      /\ running_prefills # <<>> => Len(running_prefills) # 0
  BY <1>1, LenProperties, EmptySeq
<1> QED BY <1>2, <1>3 DEF BudgetInv, ReformedWhole

(* Every step keeps the batch being formed to the budget. *)
LEMMA FormingStep ==
    ASSUME IInv, BudgetInv, [SarathiNext]_sarathiVars
    PROVE  pc' \in {"form", "prefill", "admit"} => Forming'
<1>0. pc \in {"form", "prefill", "admit"} => Forming
  BY DEF BudgetInv, Budgets
<1>1. CASE SetAside \/ DecodesDone \/ PrefillsDone \/ UNCHANGED sarathiVars
  <2>1. /\ batch' = batch /\ req' = req /\ (pc' = "form" => pc = "form")
        /\ pc' \in {"form", "prefill", "admit"} => pc \in {"form", "prefill", "admit"}
    BY <1>1 DEF SetAside, DecodesDone, PrefillsDone, MayPop, sarathiVars, vars
  <2> QED BY <1>0, <2>1, FormingKept
<1>2. CASE Evict
  <2>1. PICK r : r = Last(preempted_requests)
    OBVIOUS
  <2>2. r \notin Ids(batch) /\ \A x \in Requests \ {r} : req'[x] = req[x]
    BY <1>2, <2>1, Evicts
  <2>3. batch' = batch /\ pc = "form"
    BY <1>2 DEF Evict, MayPop
  <2>4. \A x \in Ids(batch) : req'[x] = req[x]
    BY <2>2, PlaceFacts
  <2> QED BY <1>0, <2>3, <2>4, FormingKept
<1>3. CASE Resume
  <2>1. PICK r : r = Head(preempted_requests)
    OBVIOUS
  <2>2. r \in Requests /\ MidDecode(r)
    BY <1>3, <2>1, Resumes
  <2>3. req[r].prefill_complete /\ NextNumTokens(r) = 1
    BY <2>2 DEF MidDecode, NextNumTokens
  <2>4. /\ pc = "form" /\ Len(batch) # MaxMicroBatchSize /\ req' = req
        /\ batch' = Append(batch, [id |-> r, tokens |-> 1])
    BY <1>3, <2>1, <2>3 DEF Resume, MayPop, InBatchNow
  <2> QED BY <1>0, <2>2, <2>3, <2>4, DecodeJoins
<1>4. CASE ContinuePrefill
  <2>1. PICK r, n : r = Head(running_prefills) /\ n = NextNumTokens(r)
    OBVIOUS
  <2>2. pc = "prefill" /\ pc' = "prefill" /\ req' = req /\ running_prefills # <<>>
    BY <1>4 DEF ContinuePrefill
  <2>3. CASE n = 0
    <3>1. batch' = batch
      BY <1>4, <2>1, <2>3, Skips
    <3> QED BY <1>0, <2>2, <3>1, FormingKept
  <2>4. CASE n # 0
    <3>1. r \in Requests /\ MidPrefill(r)
      BY <1>4, <2>1, <2>4, Continues
    <3>2. batch' = Append(batch, [id |-> r, tokens |-> n])
      BY <1>4, <2>1, <2>4 DEF ContinuePrefill, InBatchNow
    <3>3. DecodesFit => Len(batch) # MaxMicroBatchSize
      BY <2>2, RoomInBatch
    <3>4. ~req[r].prefill_complete
      BY <3>1 DEF MidPrefill
    <3> QED BY <1>0, <2>1, <2>2, <2>4, <3>1, <3>2, <3>3, <3>4, ChunkJoins
  <2> QED BY <2>3, <2>4
<1>5. CASE Admit
  <2>1. PICK r, n : r = Head(request_queue) /\ n = NextNumTokens(r)
    OBVIOUS
  <2>2. r \in Requests /\ Fresh(r)
    BY <1>5, <2>1, Admits
  <2>3. /\ pc = "admit" /\ pc' = "admit" /\ req' = req /\ Len(batch) # MaxMicroBatchSize
        /\ n # 0 /\ batch' = Append(batch, [id |-> r, tokens |-> n])
    BY <1>5, <2>1 DEF Admit, CanAdmit, InBatchNow
  <2>4. ~req[r].prefill_complete
    BY <2>2 DEF Fresh
  <2> QED BY <1>0, <2>1, <2>2, <2>3, <2>4, ChunkJoins
<1>6. CASE AdmitDone
  BY <1>6, Returns, EmptyForms
<1>7. CASE OnSchedule /\ UNCHANGED locals
  <2>1. batch' = <<>>
    BY <1>7 DEF OnSchedule, IInv, PipelineCount
  <2> QED BY <2>1, EmptyForms
<1>8. CASE (AddRequests \/ BatchEnd \/ EndRequest \/ BatchEnded) /\ UNCHANGED locals
  BY <1>8 DEF AddRequests, BatchEnd, EndRequest, BatchEnded
<1> QED BY <1>1, <1>2, <1>3, <1>4, <1>5, <1>6, <1>7, <1>8 DEF SarathiNext

(* The requests of Partial, before and after a step. *)
LEMMA PartialFacts ==
    /\ \A r : r \in Partial <=>
        \/ r \in Range(preempted_requests) \cup Range(running_prefills) /\ ~req[r].prefill_complete
        \/ pc = "end" /\ \E e \in Range(batch) : Incomplete(e) /\ r = e.id
    /\ \A r : r \in Partial' <=>
        \/ /\ r \in Range(preempted_requests') \cup Range(running_prefills')
           /\ ~req'[r].prefill_complete
        \/ pc' = "end" /\ \E e \in Range(batch') : Incomplete(e)' /\ r = e.id
BY DEF Partial

(* A step of the first loop moves a paused request to the prefills, to the  *)
(* batch or to the queue.                                                   *)
LEMMA DecodeLoopReforms ==
    ASSUME IInv, BudgetInv, DecodesFit, SetAside \/ Resume \/ Evict
    PROVE  ReformedWhole'
<1>0. /\ preempted_requests # <<>> /\ pc = "form" /\ pc' = "form"
      /\ skipped_requests' = skipped_requests
  BY DEF SetAside, Resume, Evict, MayPop, locals
<1>1. /\ preempted_requests \in Seq(Requests) /\ running_prefills \in Seq(Requests)
      /\ batch \in Seq(BatchEntry)
  BY CoreHolds DEF Lists, ReplicaTypes
<1>2. /\ Len(preempted_requests) \in Nat /\ Len(running_prefills) \in Nat
      /\ Len(batch) \in Nat /\ MaxMicroBatchSize \in Nat
      /\ Len(preempted_requests) + Len(running_prefills) + Len(batch) <= MaxMicroBatchSize
  BY <1>0, RoomInBatch
<1>3. skipped_requests' = <<>> /\ \A r, q \in Partial : r = q
  BY <1>0 DEF BudgetInv, ReformedWhole
<1>4. /\ Len(Tail(preempted_requests)) = Len(preempted_requests) - 1
      /\ Head(preempted_requests) \in Range(preempted_requests)
      /\ Len(Front(preempted_requests)) = Len(preempted_requests) - 1
  BY <1>0, <1>1, HeadTailProperties, TailRange, FrontRange
<1>5. CASE SetAside
  <2>1. PICK r : r = Head(preempted_requests)
    OBVIOUS
  <2>2. /\ r \in Requests /\ Range(preempted_requests') \subseteq Range(preempted_requests)
        /\ Range(running_prefills') = Range(running_prefills) \cup {r}
    BY <1>5, <2>1, SetsAside
  <2>3. /\ preempted_requests' = Tail(preempted_requests)
        /\ running_prefills' = Append(running_prefills, r)
        /\ req' = req /\ batch' = batch
    BY <1>5, <2>1 DEF SetAside
  <2>4. Len(running_prefills') = Len(running_prefills) + 1
    BY <1>1, <2>2, <2>3, AppendProperties
  <2>5. Len(preempted_requests') + Len(running_prefills') + Len(batch') <= MaxMicroBatchSize
    <3>1. /\ Len(preempted_requests') = Len(preempted_requests) - 1
          /\ Len(running_prefills') = Len(running_prefills) + 1 /\ Len(batch') = Len(batch)
      BY <1>4, <2>3, <2>4
    <3> QED BY <1>2, <3>1
  <2>6. \A x \in Partial' : x \in Partial
    BY <1>0, <1>4, <2>1, <2>2, <2>3, PartialFacts
  <2> QED BY <1>0, <1>3, <2>5, <2>6 DEF ReformedWhole
<1>6. CASE Resume
  <2>1. PICK r : r = Head(preempted_requests)
    OBVIOUS
  <2>2. r \in Requests /\ Range(preempted_requests') \subseteq Range(preempted_requests)
    BY <1>6, <2>1, Resumes
  <2>3. /\ preempted_requests' = Tail(preempted_requests)
        /\ batch' = Append(batch, [id |-> r, tokens |-> NextNumTokens(r)])
        /\ req' = req /\ running_prefills' = running_prefills
    BY <1>6, <2>1 DEF Resume, InBatchNow, locals
  <2>4. Len(batch') = Len(batch) + 1
    BY <1>1, <2>2, <2>3, CoreHolds, ChunkFacts, BatchAppend
  <2>5. Len(preempted_requests') + Len(running_prefills') + Len(batch') <= MaxMicroBatchSize
    <3>1. /\ Len(preempted_requests') = Len(preempted_requests) - 1
          /\ Len(running_prefills') = Len(running_prefills) /\ Len(batch') = Len(batch) + 1
      BY <1>4, <2>3, <2>4
    <3> QED BY <1>2, <3>1
  <2>6. \A x \in Partial' : x \in Partial
    BY <1>0, <2>2, <2>3, PartialFacts
  <2> QED BY <1>0, <1>3, <2>5, <2>6 DEF ReformedWhole
<1>7. CASE Evict
  <2>1. PICK r : r = Last(preempted_requests)
    OBVIOUS
  <2>2. /\ Range(preempted_requests') \subseteq Range(preempted_requests)
        /\ r \notin Range(Paused') /\ Lists'
        /\ \A x \in Requests \ {r} : req'[x] = req[x]
    BY <1>7, <2>1, Evicts DEF CommonNext
  <2>3. /\ preempted_requests' = Front(preempted_requests)
        /\ batch' = batch /\ running_prefills' = running_prefills
    BY <1>7 DEF Evict, locals
  <2>4. Len(preempted_requests') + Len(running_prefills') + Len(batch') <= MaxMicroBatchSize
    BY <1>2, <1>4, <2>3
  <2>5. \A x \in Range(preempted_requests') \cup Range(running_prefills') :
            x # r /\ x \in Requests
    BY <2>2, <2>3, PausedLists, PlaceFacts
  <2>6. \A x \in Partial' : x \in Partial
    BY <1>0, <2>2, <2>3, <2>5, PartialFacts
  <2> QED BY <1>0, <1>3, <2>4, <2>6 DEF ReformedWhole
<1> QED BY <1>5, <1>6, <1>7

(* The first loop ends when no request is paused any more: there is room in *)
(* the batch for all.                                                       *)
LEMMA DecodesDoneReforms ==
    ASSUME IInv, BudgetInv, DecodesFit, DecodesDone
    PROVE  ReformedWhole'
<1>1. /\ pc = "form" /\ pc' = "prefill" /\ ~MayPop
      /\ UNCHANGED <<req, preempted_requests, running_prefills, skipped_requests, batch>>
  BY DEF DecodesDone, locals
<1>2. /\ skipped_requests' = <<>> /\ \A r, q \in Partial : r = q
      /\ Len(preempted_requests) + Len(running_prefills) + Len(batch) <= MaxMicroBatchSize
  BY <1>1 DEF BudgetInv, ReformedWhole
<1>3. preempted_requests = <<>>
  BY <1>1, RoomInBatch DEF MayPop
<1>4. TokensOf(batch) = Len(batch)
  BY <1>1 DEF BudgetInv, Budgets, Forming
<1>5. \A x \in Partial' : x \in Partial
  BY <1>1, PartialFacts
<1> QED BY <1>1, <1>2, <1>3, <1>4, <1>5 DEF ReformedWhole

(* At most one prefill is under way, and there are tokens left for it. *)
LEMMA PrefillReforms ==
    ASSUME IInv, BudgetInv, DecodesFit, ContinuePrefill
    PROVE  ReformedWhole'
<1>1. PICK r, n : r = Head(running_prefills) /\ n = NextNumTokens(r)
  OBVIOUS
<1>2. /\ pc = "prefill" /\ pc' = "prefill" /\ running_prefills # <<>>
      /\ running_prefills' = Tail(running_prefills)
      /\ UNCHANGED <<req, preempted_requests>>
  BY DEF ContinuePrefill
<1>3. /\ skipped_requests = <<>> /\ preempted_requests = <<>>
      /\ \A x, y \in Partial : x = y
      /\ TokensOf(batch) = Len(batch)
  BY <1>2 DEF BudgetInv, ReformedWhole
<1>4. /\ running_prefills \in Seq(Requests) /\ batch \in Seq(BatchEntry)
      /\ IsInjective(running_prefills)
  BY CoreHolds, PausedLists DEF Lists, ReplicaTypes, Conserved
<1>5. /\ r \in Range(running_prefills) /\ Range(running_prefills') \subseteq Range(running_prefills)
      /\ r \notin Range(running_prefills') /\ running_prefills' \in Seq(Requests)
      /\ Len(running_prefills') = Len(running_prefills) - 1
  BY <1>1, <1>2, <1>4, TailRange, HeadTailProperties
<1>6. MidPrefill(r) /\ r \in Requests
  BY <1>5, PlaceFacts DEF IInv, RequestsInv
<1>7. n # 0
  <2>1. /\ Len(batch) \in Nat /\ MaxMicroBatchSize \in Nat /\ ChunkSize \in Nat
        /\ Len(batch) + 1 <= MaxMicroBatchSize
    BY <1>2, RoomInBatch, SarathiAssumption
  <2>2. TokensOf(batch) < ChunkSize
    BY <1>3, <2>1 DEF DecodesFit
  <2>3. ~req[r].prefill_complete /\ req[r].processed < req[r].prefill
    BY <1>6 DEF MidPrefill
  <2>4. n = 0 => ChunkSize <= TokensOf(batch)
    BY <1>1, <1>6, <2>3, CoreHolds, ChunkFacts
  <2> QED BY <1>3, <2>1, <2>2, <2>4
<1>8. skipped_requests' = skipped_requests /\ batch' = Append(batch, [id |-> r, tokens |-> n])
  BY <1>1, <1>7 DEF ContinuePrefill, InBatchNow
<1>9. running_prefills' = <<>>
  <2>1. \A x \in Range(running_prefills) : x \in Partial
    <3>1. \A x \in Range(running_prefills) : ~req[x].prefill_complete
      BY DEF IInv, RequestsInv, MidPrefill
    <3> QED BY <3>1, PartialFacts
  <2>2. Range(running_prefills') = {}
    BY <1>3, <1>5, <2>1
  <2>3. running_prefills' # <<>> => Head(running_prefills') \in Range(running_prefills')
    BY <1>5, TailRange
  <2> QED BY <2>2, <2>3
<1>10. Len(batch') = Len(batch) + 1
  BY <1>1, <1>4, <1>6, <1>8, CoreHolds, ChunkFacts, BatchAppend
<1>11. Len(preempted_requests') + Len(running_prefills') + Len(batch') <= MaxMicroBatchSize
  BY <1>2, <1>3, <1>5, <1>10, RoomInBatch
<1>12. \A x \in Partial' : x \in Partial
  BY <1>2, <1>5, PartialFacts
<1> QED BY <1>2, <1>3, <1>8, <1>9, <1>11, <1>12 DEF ReformedWhole

(* The lists are empty when new requests are admitted, and when the batch   *)
(* is returned.                                                             *)
LEMMA AdmissionReforms ==
    ASSUME IInv, BudgetInv, DecodesFit, PrefillsDone \/ Admit \/ AdmitDone
    PROVE  ReformedWhole'
<1>0. skipped_requests = <<>> /\ preempted_requests = <<>>
  BY DEF BudgetInv, ReformedWhole, PrefillsDone, Admit, AdmitDone
<1>1. skipped_requests' = <<>> /\ preempted_requests' = <<>> /\ running_prefills' = <<>>
  <2>1. CASE PrefillsDone
    <3>1. Range(preempted_requests') = Range(skipped_requests) \cup Range(preempted_requests)
          /\ Lists' /\ skipped_requests' = <<>> /\ running_prefills' = <<>>
      BY <2>1, Sorts DEF CommonNext
    <3>2. Range(<<>>) = {}
      BY DEF Range
    <3>3. Range(preempted_requests') = {} /\ preempted_requests' \in Seq(Requests)
      BY <1>0, <3>1, <3>2 DEF Lists
    <3>4. preempted_requests' # <<>> => Head(preempted_requests') \in Range(preempted_requests')
      BY <3>3, TailRange
    <3> QED BY <3>1, <3>3, <3>4
  <2>2. CASE Admit \/ AdmitDone
    <3>1. pc = "admit" /\ UNCHANGED <<preempted_requests, running_prefills, skipped_requests>>
      BY <2>2 DEF Admit, AdmitDone, locals
    <3>2. running_prefills = <<>>
      BY <3>1 DEF IInv, LoopLists
    <3> QED BY <1>0, <3>1, <3>2
  <2> QED BY <2>1, <2>2
<1>2. pc' # "end" /\ (pc' # "admit" => batch' = <<>>) /\ pc' # "prefill"
  BY Returns DEF PrefillsDone, Admit
<1>3. Range(<<>>) = {} /\ Len(<<>>) = 0 /\ MaxMicroBatchSize \in Nat
  BY ReplicaAssumption DEF Range, MaxMicroBatchSize
<1>4. \A x : x \notin Partial'
  BY <1>1, <1>2, <1>3, PartialFacts
<1> QED BY <1>1, <1>2, <1>3, <1>4 DEF ReformedWhole

(* The ReplicaScheduleEvent that a batch end leaves finds a free stage.     *)
LEMMA EventReforms ==
    ASSUME IInv, BudgetInv, DecodesFit, UNCHANGED locals,
           AddRequests \/ OnSchedule \/ BatchEnded
    PROVE  ReformedWhole'
<1>0. /\ UNCHANGED <<req, preempted_requests, running_prefills, skipped_requests, batch,
                     num_running_batches>>
      /\ pc' \in {"idle", "form"} /\ pc \in {"idle", "end"}
  BY DEF AddRequests, OnSchedule, BatchEnded, NextLoop, pipeline, locals
<1>1. /\ skipped_requests' = <<>> /\ \A r, q \in Partial : r = q
      /\ Len(preempted_requests) + Len(running_prefills) + Len(batch) <= MaxMicroBatchSize
  BY <1>0 DEF BudgetInv, ReformedWhole
<1>2. \A x \in Partial' : x \in Partial
  BY <1>0, PartialFacts
<1>3. /\ schedule_events \in Seq({"arrival", "batch_end"})
      /\ num_running_batches \in 0 .. NumStages /\ NumStages \in Nat
  BY CoreHolds, ReplicaAssumption DEF ReplicaTypes
<1>4. \A x \in {"arrival", "batch_end"} :
            Range(Append(schedule_events, x)) = Range(schedule_events) \cup {x}
  BY <1>3, AppendRange
<1>5. pc' = "idle" /\ preempted_requests' # <<>> =>
            "batch_end" \in Range(schedule_events') /\ num_running_batches' < NumStages
  <2>1. CASE AddRequests
    <3>1. pc = "idle" /\ schedule_events' = Append(schedule_events, "arrival")
      BY <2>1 DEF AddRequests
    <3> QED BY <1>0, <1>4, <3>1 DEF BudgetInv, ReformedWhole
  <2>2. CASE OnSchedule
    <3>1. pc = "idle" /\ (pc' = "idle" => ~(num_running_batches < NumStages))
      BY <2>2 DEF OnSchedule, NextLoop
    <3> QED BY <1>0, <3>1 DEF BudgetInv, ReformedWhole
  <2>3. CASE BatchEnded
    <3>1. pc = "end" /\ schedule_events' = Append(schedule_events, "batch_end")
      BY <2>3 DEF BatchEnded
    <3> QED BY <1>0, <1>4, <3>1 DEF BudgetInv, ReformedWhole
  <2> QED BY <2>1, <2>2, <2>3
<1> QED BY <1>0, <1>1, <1>2, <1>5 DEF ReformedWhole

(* No request of an earlier batch is paused when a batch ends. *)
LEMMA BatchEndReforms ==
    ASSUME IInv, BudgetInv, DecodesFit, UNCHANGED locals, BatchEnd
    PROVE  ReformedWhole'
<1>0. /\ pc = "idle" /\ pc' = "end" /\ "batch_end" \notin Range(schedule_events)
      /\ num_running_batches' = num_running_batches - 1
      /\ UNCHANGED <<req, preempted_requests, running_prefills, skipped_requests>>
  BY DEF BatchEnd, locals
<1>1. preempted_requests' = <<>> /\ running_prefills' = <<>> /\ skipped_requests' = <<>>
  BY <1>0 DEF BudgetInv, ReformedWhole, IInv, LoopLists
<1>2. num_running_batches' < NumStages
  <2>1. num_running_batches \in 0 .. NumStages /\ NumStages \in Nat
    BY CoreHolds, ReplicaAssumption DEF ReplicaTypes
  <2> QED BY <1>0, <2>1
<1>3. PICK k \in DOMAIN running_batches : batch' = running_batches[k]
  BY CoreHolds, BatchEndMove
<1>4. WithinBudget(batch') /\ Len(batch') \in Nat
  <2>1. running_batches[k] \in Seq(BatchEntry)
    BY CoreHolds DEF ReplicaTypes
  <2> QED BY <1>3, <2>1, LenProperties DEF BudgetInv, Budgets
<1>5. /\ Len(batch') <= MaxMicroBatchSize
      /\ \A e, d \in Range(batch') : Incomplete(e) /\ Incomplete(d) => e = d
  BY <1>4 DEF WithinBudget
<1>6. Range(<<>>) = {} /\ Len(<<>>) = 0
  BY DEF Range
<1>7. \A e : Incomplete(e)' <=> Incomplete(e)
  BY <1>0, IncompleteKept
<1>8. \A r, q \in Partial' : r = q
  BY <1>0, <1>1, <1>5, <1>6, <1>7, PartialFacts
<1>9. Len(preempted_requests') + Len(running_prefills') + Len(batch') <= MaxMicroBatchSize
  BY <1>1, <1>4, <1>5, <1>6
<1> QED BY <1>0, <1>1, <1>2, <1>8, <1>9 DEF ReformedWhole

(* A request is paused in its prefill when its entry in the batch was       *)
(* incomplete.                                                              *)
LEMMA EndReforms ==
    ASSUME IInv, BudgetInv, DecodesFit, UNCHANGED locals, EndRequest
    PROVE  ReformedWhole'
<1>0. /\ pc = "end" /\ pc' = "end" /\ batch # <<>> /\ batch' = Tail(batch)
      /\ UNCHANGED <<running_prefills, skipped_requests, num_running_batches>>
  BY DEF EndRequest, locals, pipeline
<1>1. /\ skipped_requests = <<>> /\ num_running_batches < NumStages
      /\ \A x, y \in Partial : x = y
  BY <1>0 DEF BudgetInv, ReformedWhole
<1>2. PICK r, n : r = Head(batch).id /\ n = Head(batch).tokens
  OBVIOUS
<1>3. /\ r \in Requests /\ n \in Nat /\ InBatch(r, n)
      /\ r \notin Ids(batch')
      /\ Range(batch') \subseteq Range(batch)
      /\ req'[r] = OnBatchEnd(req[r], n)
      /\ \A x \in Requests \ {r} : req'[x] = req[x]
      /\ req'[r].completed => preempted_requests' = preempted_requests
      /\ ~req'[r].completed => Range(preempted_requests') = Range(preempted_requests) \cup {r}
  BY <1>2, Ends
<1>4. /\ preempted_requests \in Seq(Requests) /\ batch \in Seq(BatchEntry)
      /\ Head(batch) \in Range(batch)
  <2>1. preempted_requests \in Seq(Requests) /\ batch \in Seq(BatchEntry)
    BY CoreHolds DEF ReplicaTypes
  <2> QED BY <1>0, <2>1, TailRange
<1>5. Len(preempted_requests') + Len(running_prefills') + Len(batch') <= MaxMicroBatchSize
  <2>1. Len(batch') = Len(batch) - 1
    BY <1>0, <1>4, HeadTailProperties
  <2>2. \/ preempted_requests' = preempted_requests
        \/ preempted_requests' = Append(preempted_requests, r)
    BY <1>2 DEF EndRequest
  <2>3. \/ Len(preempted_requests') = Len(preempted_requests)
        \/ Len(preempted_requests') = Len(preempted_requests) + 1
    BY <1>3, <1>4, <2>2, AppendProperties
  <2>4. Len(running_prefills') = Len(running_prefills)
    BY <1>0
  <2> QED BY <1>0, <2>1, <2>3, <2>4, RoomInBatch
<1>6. ~req'[r].prefill_complete => Incomplete(Head(batch))
  <2>1. req[r] \in RequestRecord
    BY <1>3, CoreHolds, RequestFields
  <2>2. ~req'[r].prefill_complete =>
            ~req[r].prefill_complete /\ req[r].processed + n # req[r].prefill
    BY <1>3, <2>1 DEF OnBatchEnd, RequestRecord
  <2>3. ~req[r].prefill_complete => req[r].processed + n <= req[r].prefill
    BY <1>3 DEF InBatch
  <2>4. req[r].processed \in Nat /\ req[r].prefill \in Nat
    BY <2>1 DEF RequestRecord
  <2> QED BY <1>2, <1>3, <2>2, <2>3, <2>4 DEF Incomplete
<1>7. ASSUME NEW x \in Partial' PROVE x \in Partial
  <2>1. CASE x = r /\ x \in Range(preempted_requests') \cup Range(running_prefills')
                   /\ ~req'[x].prefill_complete
    BY <1>0, <1>2, <1>4, <1>6, <2>1, PartialFacts
  <2>2. CASE x # r /\ x \in Range(preempted_requests') \cup Range(running_prefills')
                   /\ ~req'[x].prefill_complete
    <3>1. x \in Range(preempted_requests) \cup Range(running_prefills)
      BY <1>0, <1>3, <2>2
    <3>2. x \in Requests
      BY <3>1, PlaceFacts
    <3> QED BY <1>3, <2>2, <3>1, <3>2, PartialFacts
  <2>3. CASE \E e \in Range(batch') : Incomplete(e)' /\ x = e.id
    <3>1. PICK e \in Range(batch') : Incomplete(e)' /\ x = e.id
      BY <2>3
    <3>2. e \in Range(batch) /\ e.id \in Requests /\ e.id # r
      <4>1. e.id \in Ids(batch')
        BY DEF Range, Ids
      <4> QED BY <1>3, <4>1, PlaceFacts
    <3>3. Incomplete(e)
      BY <1>3, <3>1, <3>2, IncompleteKept
    <3> QED BY <1>0, <3>1, <3>2, <3>3, PartialFacts
  <2> QED BY <2>1, <2>2, <2>3, PartialFacts
<1> QED BY <1>0, <1>1, <1>5, <1>7 DEF ReformedWhole

(* The token budget, and that the next batch takes all paused requests, are *)
(* kept by every step.                                                      *)
LEMMA BudgetStep ==
    ASSUME IInv, BudgetInv, [SarathiNext]_sarathiVars
    PROVE  BudgetInv'
<1>1. Budgets'
  BY PipelineBudgetStep, FormingStep DEF Budgets, BudgetInv
<1>2. ASSUME DecodesFit PROVE ReformedWhole'
  <2>1. CASE UNCHANGED sarathiVars
    <3>1. /\ UNCHANGED <<req, preempted_requests, running_prefills, skipped_requests, batch,
                         num_running_batches, pc, schedule_events>>
      BY <2>1 DEF sarathiVars, vars, locals, pipeline
    <3>2. \A e : Incomplete(e)' <=> Incomplete(e)
      BY <3>1, IncompleteKept
    <3>3. \A x \in Partial' : x \in Partial
      BY <3>1, <3>2, PartialFacts
    <3> QED BY <1>2, <3>1, <3>3 DEF BudgetInv, ReformedWhole
  <2> QED BY <1>2, <2>1, DecodeLoopReforms, DecodesDoneReforms, PrefillReforms,
             AdmissionReforms, EventReforms, BatchEndReforms, EndReforms DEF SarathiNext
<1>3. ~DecodesFit => ReformedWhole'
  BY DEF ReformedWhole, DecodesFit
<1> QED BY <1>1, <1>2, <1>3 DEF BudgetInv

-----------------------------------------------------------------------------
(* The theorems. *)

(* No batch exceeds its budget, on any memory, pipeline and chunk size.     *)
LEMMA BudgetInvariance == Spec => [](IInv /\ BudgetInv)
<1>1. SarathiInit => BudgetInv
  <2> SUFFICES ASSUME SarathiInit PROVE BudgetInv
    OBVIOUS
  <2>1. /\ preempted_requests = <<>> /\ running_prefills = <<>> /\ skipped_requests = <<>>
        /\ pc = "idle" /\ batch = <<>> /\ running_batches = <<>>
    BY DEF SarathiInit, Init
  <2>2. /\ Range(<<>>) = {} /\ DOMAIN <<>> = {} /\ Len(<<>>) = 0
        /\ MaxMicroBatchSize \in Nat
    BY ReplicaAssumption DEF Range, MaxMicroBatchSize
  <2>3. Budgets
    BY <2>1, <2>2 DEF Budgets
  <2>4. \A x : x \notin Partial
    BY <2>1, <2>2, PartialFacts
  <2> QED BY <2>1, <2>2, <2>3, <2>4 DEF BudgetInv, ReformedWhole
<1>2. IInv /\ BudgetInv /\ [SarathiNext]_sarathiVars => BudgetInv'
  BY BudgetStep
<1> QED BY <1>1, <1>2, Invariance, PTL DEF Spec

(* Through chunks, skips, evictions, restarts and batch ends no request is  *)
(* lost, the blocks are counted right and every one of them is needed, no   *)
(* assertion of allocation, scheduling or batch end fails, and the batches  *)
(* keep to their budget.                                                    *)
THEOREM SarathiIsSafe == Spec => []SarathiInv
<1>1. ASSUME IInv, BudgetInv PROVE SarathiInv
  <2>1. ReplicaTypes /\ NothingLost /\ RequestsInv
    BY <1>1, CoreHolds DEF IInv
  <2>2. \A r \in Requests : TotalTokens(req[r]) = TotalTokens(asked[r])
    BY <2>1 DEF RequestsInv
  <2>3. ASSUME NEW r \in Range(Paused)
        PROVE  ~req[r].completed /\ (req[r].prefill_complete => NumTokensRequired(r) <= 1)
    <3>1. r \in Requests /\ r \in DOMAIN allocation_map /\ ~req[r].completed
      BY <1>1, <2>3, CoreHolds, BatchHolds
    <3>2. MidPrefill(r) \/ MidDecode(r)
      BY <1>1, <2>1, <2>3, CoreHolds, PausedLists DEF RequestsInv
    <3> DEFINE covered == allocation_map[r] * BlockSize
    <3>3. req[r].processed \in Nat /\ covered \in Int
      <4>1. allocation_map[r] \in Nat /\ BlockSize \in Nat
        BY <2>1, <3>1, ReplicaAssumption DEF ReplicaTypes
      <4> QED BY <2>1, <3>1, <4>1, RequestFields
    <3>4. MidDecode(r) => req[r].processed - 1 <= covered
      BY DEF MidDecode, ExactFor
    <3>5. NumTokensRequired(r) =
              IF req[r].processed - covered > 0 THEN req[r].processed - covered ELSE 0
      BY DEF NumTokensRequired
    <3>6. req[r].prefill_complete => MidDecode(r)
      BY <3>2 DEF MidPrefill
    <3> HIDE DEF covered
    <3> QED BY <3>1, <3>3, <3>4, <3>5, <3>6
  <2>4. ASSUME NEW k \in DOMAIN running_batches, NEW e \in Range(running_batches[k])
        PROVE  OnBatchEndAsserts(req[e.id], e.tokens)
    <3>1. e.id \in Requests /\ ~req[e.id].completed
      BY <1>1, CoreHolds, BatchHolds, EntryIds
    <3>2. e.tokens \in Nat
      <4>1. running_batches[k] \in Seq(BatchEntry)
        BY <2>1 DEF ReplicaTypes
      <4>2. e \in BatchEntry
        BY <4>1 DEF Range
      <4> QED BY <4>2 DEF BatchEntry
    <3>3. InBatch(e.id, e.tokens)
      BY <2>1 DEF RequestsInv
    <3> QED BY <1>1, <3>1, <3>2, <3>3, EndOfBatch
  <2> QED BY <1>1, <2>2, <2>3, <2>4 DEF SarathiInv, AssertionsHold
<1>2. IInv /\ BudgetInv => SarathiInv
  BY <1>1
<1> QED BY <1>2, BudgetInvariance, PTL

(* In every batch of the pipeline, whatever the parameters: chunk_size is   *)
(* kept when the decodes fit, the size of a micro batch is kept, and at     *)
(* most one prefill stays incomplete.                                       *)
THEOREM ChunkBudgetHolds == Spec => []ChunkBudget
<1>1. ASSUME BudgetInv PROVE ChunkBudget
  <2> SUFFICES ASSUME NEW k \in DOMAIN running_batches
               PROVE  /\ DecodesFit => TokensOf(running_batches[k]) <= ChunkSize
                      /\ Len(running_batches[k]) <= MaxMicroBatchSize
                      /\ Cardinality({e \in Range(running_batches[k]) : Incomplete(e)}) <= 1
    BY DEF ChunkBudget
  <2>1. WithinBudget(running_batches[k])
    BY <1>1 DEF BudgetInv, Budgets
  <2>2. PICK D : D = {e \in Range(running_batches[k]) : Incomplete(e)}
    OBVIOUS
  <2>3. Cardinality(D) <= 1
    <3>1. CASE D = {}
      BY <3>1, FS_EmptySet
    <3>2. CASE D # {}
      <4>1. PICK e \in D : D = {e}
        BY <2>1, <2>2, <3>2 DEF WithinBudget
      <4> QED BY <4>1, FS_Singleton
    <3> QED BY <3>1, <3>2
  <2> QED BY <2>1, <2>2, <2>3 DEF WithinBudget
<1>2. IInv /\ BudgetInv => ChunkBudget
  BY <1>1
<1> QED BY <1>2, BudgetInvariance, PTL

(* When the decodes of a full batch fit in a chunk, every batch that ends   *)
(* is re-formed whole and no prefill is ever skipped.                       *)
THEOREM NothingLeftBehind == Spec => []NoneLeftBehind
<1>1. IInv /\ BudgetInv => NoneLeftBehind
  BY DEF BudgetInv, ReformedWhole, NoneLeftBehind
<1> QED BY <1>1, BudgetInvariance, PTL
=============================================================================
