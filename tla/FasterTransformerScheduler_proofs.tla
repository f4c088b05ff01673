------------------- MODULE FasterTransformerScheduler_proofs -------------------
(***************************************************************************)
(* Proofs about FasterTransformerScheduler, for every number of requests,  *)
(* blocks and stages and every size of a batch.                            *)
(***************************************************************************)
EXTENDS FasterTransformerScheduler, ReplicaLemmas

-----------------------------------------------------------------------------
(* The requests of a batch that run again. *)

(* g is the function that Unfinished builds over the prefixes of b. *)
AgainOf(b, g) ==
    g = [n \in 0 .. Len(b) |->
            IF n = 0 THEN <<>>
            ELSE IF req[b[n].id].completed THEN g[n - 1]
            ELSE Append(g[n - 1], Entry(b[n].id))]

(* Unfinished is the value of that function, when there is one. *)
LEMMA AgainDef ==
    ASSUME NEW b, \E g : AgainOf(b, g)
    PROVE  \E g : AgainOf(b, g) /\ Unfinished(b) = g[Len(b)]
<1> DEFINE c == CHOOSE g : AgainOf(b, g)
<1>1. AgainOf(b, c)
  BY Zenon
<1>2. Unfinished(b) = c[Len(b)]
  BY DEF Unfinished, AgainOf
<1> QED BY <1>1, <1>2, Zenon

(* There is one: it can be built entry by entry. *)
LEMMA AgainExists ==
    ASSUME NEW b \in Seq(BatchEntry)
    PROVE  \E g : AgainOf(b, g)
<1> DEFINE Step(g, n) == IF n = 0 THEN <<>>
                         ELSE IF req[b[n].id].completed THEN g[n - 1]
                         ELSE Append(g[n - 1], Entry(b[n].id))
           UpTo(n) == \E g : \A m \in 0 .. n : g[m] = Step(g, m)
           T == {n \in Nat : UpTo(n)}
<1>1. 0 \in T
  <2> DEFINE g == [m \in 0 .. 0 |-> <<>>]
  <2>1. \A m \in 0 .. 0 : g[m] = Step(g, m)
    OBVIOUS
  <2>2. UpTo(0)
    BY <2>1
  <2> QED BY <2>2
<1>2. ASSUME NEW n \in Nat, n \in T PROVE n + 1 \in T
  <2>1. PICK g : \A m \in 0 .. n : g[m] = Step(g, m)
    BY <1>2
  <2> DEFINE h == [m \in 0 .. n + 1 |-> IF m <= n THEN g[m] ELSE Step(g, m)]
  <2>2. ASSUME NEW m \in 0 .. n + 1 PROVE h[m] = Step(h, m)
    <3>1. h[m] = Step(g, m)
      BY <2>1
    <3>2. m # 0 => m - 1 \in 0 .. n /\ h[m - 1] = g[m - 1]
      OBVIOUS
    <3> HIDE DEF h
    <3> QED BY <3>1, <3>2
  <2> HIDE DEF h
  <2>3. UpTo(n + 1)
    BY <2>2
  <2> QED BY <2>3
<1>3. Len(b) \in T
  <2> HIDE DEF T
  <2>1. Nat \subseteq T
    BY <1>1, <1>2, SetInduction
  <2> QED BY <2>1, LenProperties
<1>4. PICK g : \A m \in 0 .. Len(b) : g[m] = Step(g, m)
  BY <1>3
<1> DEFINE h == [m \in 0 .. Len(b) |-> g[m]]
<1>5. ASSUME NEW m \in 0 .. Len(b) PROVE h[m] = Step(h, m)
  <2>1. Len(b) \in Nat
    BY LenProperties
  <2>2. h[m] = Step(g, m)
    BY <1>4
  <2>3. m # 0 => m - 1 \in 0 .. Len(b) /\ h[m - 1] = g[m - 1]
    BY <2>1
  <2> HIDE DEF h
  <2> QED BY <2>2, <2>3
<1>6. h = [m \in 0 .. Len(b) |-> Step(h, m)]
  <2>1. h = [m \in 0 .. Len(b) |-> h[m]]
    OBVIOUS
  <2> HIDE DEF h
  <2> QED BY <1>5, <2>1
<1>7. AgainOf(b, h)
  BY <1>6 DEF AgainOf
<1> QED BY <1>7

(* The entry of a request is one of a batch. *)
LEMMA EntryType ==
    ASSUME TypeOK, NEW r \in Requests
    PROVE  /\ Entry(r).id = r /\ Entry(r).tokens \in Nat
           /\ Entry(r) = [id |-> r, tokens |-> Entry(r).tokens]
           /\ ~req[r].prefill_complete => Entry(r).tokens = req[r].prefill
<1>1. ReplicaTypes
  BY DEF TypeOK
<1> QED BY <1>1, RequestFields DEF Entry

(* A batch that runs again has the unfinished requests of the batch, each   *)
(* once.                                                                    *)
LEMMA UnfinishedFacts ==
    ASSUME TypeOK, NEW b \in Seq(BatchEntry)
    PROVE  /\ Unfinished(b) \in Seq(BatchEntry)
           /\ Ids(Unfinished(b)) = {r \in Ids(b) : ~req[r].completed}
           /\ DistinctIds(b) => DistinctIds(Unfinished(b))
<1>1. PICK g : AgainOf(b, g) /\ Unfinished(b) = g[Len(b)]
  BY AgainExists, AgainDef
<1>2. /\ Len(b) \in Nat /\ DOMAIN b = 1 .. Len(b)
      /\ \A i \in 1 .. Len(b) : b[i] \in BatchEntry
  BY LenProperties, ElementOfSeq
<1>3. /\ g[0] = <<>>
      /\ \A n \in Nat : n + 1 <= Len(b) =>
            g[n + 1] = IF req[b[n + 1].id].completed THEN g[n]
                       ELSE Append(g[n], Entry(b[n + 1].id))
  <2>1. ASSUME NEW n \in Nat, n <= Len(b)
        PROVE  g[n] = IF n = 0 THEN <<>>
                      ELSE IF req[b[n].id].completed THEN g[n - 1]
                      ELSE Append(g[n - 1], Entry(b[n].id))
    <3>1. n \in 0 .. Len(b)
      BY <1>2, <2>1
    <3> QED BY <1>1, <3>1 DEF AgainOf
  <2>2. ASSUME NEW n \in Nat, n + 1 <= Len(b)
        PROVE  g[n + 1] = IF req[b[n + 1].id].completed THEN g[n]
                          ELSE Append(g[n], Entry(b[n + 1].id))
    <3>1. n + 1 \in Nat /\ n + 1 # 0 /\ (n + 1) - 1 = n
      OBVIOUS
    <3> QED BY <2>1, <2>2, <3>1
  <2> QED BY <1>2, <2>1, <2>2
<1> DEFINE Kept(n) == {b[i].id : i \in {j \in 1 .. n : ~req[b[j].id].completed}}
           OK(n) == /\ g[n] \in Seq(BatchEntry)
                    /\ Ids(g[n]) = Kept(n)
                    /\ DistinctIds(b) => DistinctIds(g[n])
           T == {n \in Nat : n <= Len(b) => OK(n)}
<1>4. 0 \in T
  <2>1. <<>> \in Seq(BatchEntry) /\ Ids(<<>>) = {} /\ DistinctIds(<<>>)
    BY DEF Ids, DistinctIds
  <2>2. Kept(0) = {}
    OBVIOUS
  <2> HIDE DEF Kept
  <2> QED BY <1>3, <2>1, <2>2
<1>5. ASSUME NEW n \in Nat, n \in T PROVE n + 1 \in T
  <2> SUFFICES ASSUME n + 1 <= Len(b) PROVE OK(n + 1)
    OBVIOUS
  <2>1. OK(n)
    BY <1>2, <1>5
  <2>2. PICK r : r = b[n + 1].id
    OBVIOUS
  <2>3. n + 1 \in 1 .. Len(b) /\ r \in Requests
    BY <1>2, <2>2 DEF BatchEntry
  <2>4. CASE req[r].completed
    <3>1. g[n + 1] = g[n]
      BY <1>3, <2>2, <2>4
    <3>2. Kept(n + 1) = Kept(n)
      BY <2>2, <2>4
    <3> HIDE DEF Kept
    <3> QED BY <2>1, <3>1, <3>2
  <2>5. CASE ~req[r].completed
    <3>1. g[n + 1] = Append(g[n], Entry(r))
      BY <1>3, <2>2, <2>5
    <3>2. Kept(n + 1) = Kept(n) \cup {r}
      BY <2>2, <2>5
    <3>3. /\ Append(g[n], Entry(r)) \in Seq(BatchEntry)
          /\ Ids(Append(g[n], Entry(r))) = Ids(g[n]) \cup {r}
          /\ DistinctIds(g[n]) /\ r \notin Ids(g[n]) => DistinctIds(Append(g[n], Entry(r)))
      <4>1. PICK k \in Nat : Entry(r) = [id |-> r, tokens |-> k]
        BY <2>3, EntryType
      <4> QED BY <2>1, <2>3, <4>1, BatchAppend
    <3>4. DistinctIds(b) => r \notin Kept(n)
      BY <1>2, <2>2, <2>3 DEF DistinctIds
    <3> HIDE DEF Kept
    <3> QED BY <2>1, <3>1, <3>2, <3>3, <3>4
  <2> QED BY <2>4, <2>5
<1>6. OK(Len(b))
  <2> HIDE DEF OK
  <2>1. Len(b) \in T
    <3> HIDE DEF T
    <3>1. Nat \subseteq T
      BY <1>4, <1>5, SetInduction
    <3> QED BY <1>2, <3>1
  <2> QED BY <1>2, <2>1
<1>7. Kept(Len(b)) = {r \in Ids(b) : ~req[r].completed}
  BY <1>2 DEF Ids
<1> HIDE DEF Kept
<1> QED BY <1>1, <1>6, <1>7

-----------------------------------------------------------------------------
(* Memory: each request has the same number of blocks. *)

(* As many blocks are held as requests hold memory, times the blocks of a   *)
(* sequence.                                                                *)
LEMMA UniformHeld ==
    ASSUME NEW D, D \subseteq Requests, NEW m, DOMAIN m = D,
           \A r \in D : m[r] = MaxBlocksPerSequence
    PROVE  /\ IsFiniteSet(D) /\ Cardinality(D) \in Nat
           /\ Cardinality(BlocksIn(m)) = Cardinality(D) * MaxBlocksPerSequence
<1>1. IsFiniteSet(D) /\ Cardinality(D) \in Nat
  <2>1. IsFiniteSet(Requests)
    BY ReplicaAssumption, FS_Interval DEF Requests
  <2> QED BY <2>1, FS_Subset, FS_CardinalityType
<1> DEFINE I == 1 .. MaxBlocksPerSequence
<1>2. IsFiniteSet(I) /\ Cardinality(I) = MaxBlocksPerSequence
  <2>1. 1 \in Int /\ MaxBlocksPerSequence \in Int /\ MaxBlocksPerSequence > 0
    BY FasterTransformerAssumption
  <2>2. /\ IsFiniteSet(I)
        /\ Cardinality(I) = IF 1 > MaxBlocksPerSequence THEN 0
                            ELSE MaxBlocksPerSequence - 1 + 1
    BY <2>1, FS_Interval, Zenon
  <2> QED BY <2>1, <2>2
<1>3. BlocksIn(m) = D \X I
  <2>1. BlocksIn(m) = UNION {{r} \X I : r \in D}
    BY DEF BlocksIn
  <2> HIDE DEF I
  <2>2. UNION {{r} \X I : r \in D} = D \X I
    OBVIOUS
  <2> QED BY <2>1, <2>2
<1> HIDE DEF I
<1>4. Cardinality(D \X I) = Cardinality(D) * Cardinality(I)
  BY <1>1, <1>2, FS_Product, Zenon
<1> QED BY <1>1, <1>2, <1>3, <1>4

(* The sum of a constant is taken once for each element. *)
LEMMA SumConstant ==
    ASSUME NEW S, IsFiniteSet(S), NEW f, NEW c \in Nat, \A x \in S : f[x] = c
    PROVE  SumFunctionOnSet(f, S) = Cardinality(S) * c
<1> DEFINE T == {s \in SUBSET S : SumFunctionOnSet(f, s) = Cardinality(s) * c}
<1>1. {} \in T
  <2>1. SumFunctionOnSet(f, {}) = 0
    <3>1. IsFiniteSet({}) /\ \A x \in {} : f[x] \in Nat
      BY FS_EmptySet
    <3> QED BY <3>1, SumFacts
  <2>2. Cardinality({}) = 0
    BY FS_EmptySet
  <2> QED BY <2>1, <2>2
<1>2. ASSUME NEW s \in SUBSET S, NEW x \in s, s \ {x} \in T PROVE s \in T
  <2>1. IsFiniteSet(s) /\ \A y \in s : f[y] \in Nat
    BY FS_Subset
  <2>2. SumFunctionOnSet(f, s) = f[x] + SumFunctionOnSet(f, s \ {x})
    BY <2>1, SumFacts
  <2>3. Cardinality(s) \in Nat /\ Cardinality(s \ {x}) = Cardinality(s) - 1
    BY SubsetSizes
  <2> DEFINE k == Cardinality(s)
             j == Cardinality(s \ {x})
  <2>4. SumFunctionOnSet(f, s) = c + j * c
    BY <1>2, <2>2
  <2>5. j = k - 1 /\ k \in Nat
    BY <2>3
  <2> HIDE DEF k, j
  <2>6. c + j * c = k * c
    BY <2>5
  <2> QED BY <2>4, <2>6 DEF k
<1> HIDE DEF T
<1>3. SUBSET S \subseteq T
  BY <1>1, <1>2, SubsetInduction
<1> QED BY <1>3 DEF T

-----------------------------------------------------------------------------
(* The places of the requests. *)

(* What batches joined into one sequence hold, and when they are disjoint.  *)
LEMMA JoinedBatches ==
    ASSUME NEW s \in Seq(Seq(BatchEntry)), NEW t \in Seq(Seq(BatchEntry))
    PROVE  /\ s \o t \in Seq(Seq(BatchEntry))
           /\ IdsIn(s \o t) = IdsIn(s) \cup IdsIn(t)
           /\ DisjointBatches(s \o t) <=>
                /\ DisjointBatches(s) /\ DisjointBatches(t)
                /\ IdsIn(s) \cap IdsIn(t) = {}
<1> DEFINE u == s \o t
<1>1. /\ u \in Seq(Seq(BatchEntry))
      /\ Len(s) \in Nat /\ Len(t) \in Nat
      /\ DOMAIN s = 1 .. Len(s) /\ DOMAIN t = 1 .. Len(t)
      /\ DOMAIN u = 1 .. Len(s) + Len(t)
      /\ \A i \in 1 .. Len(s) : u[i] = s[i]
      /\ \A i \in 1 .. Len(t) : u[Len(s) + i] = t[i]
  BY ConcatProperties, LenProperties
<1> HIDE DEF u
<1>2. \A k \in DOMAIN u : \/ k \in DOMAIN s /\ u[k] = s[k]
                          \/ k - Len(s) \in DOMAIN t /\ u[k] = t[k - Len(s)]
  <2> TAKE k \in DOMAIN u
  <2>1. CASE k <= Len(s)
    BY <1>1, <2>1
  <2>2. CASE k > Len(s)
    <3>1. PICK i \in 1 .. Len(t) : k = Len(s) + i
      <4>1. k - Len(s) \in 1 .. Len(t) /\ k = Len(s) + (k - Len(s))
        BY <1>1, <2>2
      <4> QED BY <4>1
    <3>2. k - Len(s) = i
      BY <1>1, <3>1
    <3> QED BY <1>1, <3>1, <3>2
  <2> QED BY <1>1, <2>1, <2>2
<1>3. /\ \A i \in DOMAIN s : i \in DOMAIN u /\ u[i] = s[i]
      /\ \A i \in DOMAIN t : Len(s) + i \in DOMAIN u /\ u[Len(s) + i] = t[i]
  BY <1>1
<1>4. IdsIn(u) = IdsIn(s) \cup IdsIn(t)
  <2>1. \A x \in IdsIn(u) : x \in IdsIn(s) \cup IdsIn(t)
    BY <1>2 DEF IdsIn
  <2>2. \A x \in IdsIn(s) \cup IdsIn(t) : x \in IdsIn(u)
    BY <1>3 DEF IdsIn
  <2> QED BY <2>1, <2>2
<1>5. ASSUME DisjointBatches(u)
      PROVE  DisjointBatches(s) /\ DisjointBatches(t) /\ IdsIn(s) \cap IdsIn(t) = {}
  <2>1. /\ \A k \in DOMAIN u : DistinctIds(u[k])
        /\ \A k, l \in DOMAIN u : k # l => Ids(u[k]) \cap Ids(u[l]) = {}
    BY <1>5 DEF DisjointBatches
  <2>2. DisjointBatches(s)
    BY <1>3, <2>1 DEF DisjointBatches
  <2>3. DisjointBatches(t)
    <3>1. \A k \in DOMAIN t : DistinctIds(t[k])
      BY <1>3, <2>1
    <3>2. \A k, l \in DOMAIN t : k # l => Ids(t[k]) \cap Ids(t[l]) = {}
      <4> TAKE k, l \in DOMAIN t
      <4> HAVE k # l
      <4>1. Len(s) + k # Len(s) + l
        BY <1>1
      <4> QED BY <1>3, <2>1, <4>1
    <3> QED BY <3>1, <3>2 DEF DisjointBatches
  <2>4. \A k \in DOMAIN s, l \in DOMAIN t : Ids(s[k]) \cap Ids(t[l]) = {}
    <3> TAKE k \in DOMAIN s, l \in DOMAIN t
    <3>1. k # Len(s) + l
      BY <1>1
    <3> QED BY <1>3, <2>1, <3>1
  <2>5. IdsIn(s) \cap IdsIn(t) = {}
    BY <2>4 DEF IdsIn
  <2> QED BY <2>2, <2>3, <2>5
<1>6. ASSUME DisjointBatches(s), DisjointBatches(t), IdsIn(s) \cap IdsIn(t) = {}
      PROVE  DisjointBatches(u)
  <2>1. \A k \in DOMAIN u : DistinctIds(u[k])
    BY <1>2, <1>6 DEF DisjointBatches
  <2>2. \A k \in DOMAIN s, l \in DOMAIN t : Ids(s[k]) \cap Ids(t[l]) = {}
    BY <1>6 DEF IdsIn
  <2>3. ASSUME NEW k \in DOMAIN u, NEW l \in DOMAIN u, k # l
        PROVE  Ids(u[k]) \cap Ids(u[l]) = {}
    <3>1. CASE k \in DOMAIN s /\ u[k] = s[k] /\ l \in DOMAIN s /\ u[l] = s[l]
      BY <1>6, <2>3, <3>1 DEF DisjointBatches
    <3>2. CASE /\ k - Len(s) \in DOMAIN t /\ u[k] = t[k - Len(s)]
               /\ l - Len(s) \in DOMAIN t /\ u[l] = t[l - Len(s)]
      <4>1. k - Len(s) # l - Len(s)
        BY <1>1, <2>3
      <4> QED BY <1>6, <3>2, <4>1 DEF DisjointBatches
    <3> QED BY <1>2, <2>2, <3>1, <3>2
  <2> QED BY <2>1, <2>3 DEF DisjointBatches
<1> QED BY <1>1, <1>4, <1>5, <1>6 DEF u

(* The same of the batches that wait, those that run and the one that is    *)
(* formed.                                                                  *)
LEMMA BatchesParts ==
    ASSUME NEW s \in Seq(Seq(BatchEntry)), NEW t \in Seq(Seq(BatchEntry)),
           NEW b \in Seq(BatchEntry)
    PROVE  /\ IdsIn(s \o t \o <<b>>) = IdsIn(s) \cup IdsIn(t) \cup Ids(b)
           /\ DisjointBatches(s \o t \o <<b>>) <=>
                /\ DisjointBatches(s) /\ DisjointBatches(t) /\ DistinctIds(b)
                /\ IdsIn(s) \cap IdsIn(t) = {} /\ IdsIn(s) \cap Ids(b) = {}
                /\ IdsIn(t) \cap Ids(b) = {}
<1>1. /\ <<b>> \in Seq(Seq(BatchEntry))
      /\ IdsIn(<<b>>) = Ids(b)
      /\ DisjointBatches(<<b>>) <=> DistinctIds(b)
  BY DEF IdsIn, DisjointBatches
<1>2. s \o t \in Seq(Seq(BatchEntry)) /\ IdsIn(s \o t) = IdsIn(s) \cup IdsIn(t)
  BY JoinedBatches
<1>3. DisjointBatches(s \o t) <=>
        DisjointBatches(s) /\ DisjointBatches(t) /\ IdsIn(s) \cap IdsIn(t) = {}
  BY JoinedBatches
<1>4. /\ IdsIn(s \o t \o <<b>>) = IdsIn(s \o t) \cup IdsIn(<<b>>)
      /\ DisjointBatches(s \o t \o <<b>>) <=>
            /\ DisjointBatches(s \o t) /\ DisjointBatches(<<b>>)
            /\ IdsIn(s \o t) \cap IdsIn(<<b>>) = {}
  BY <1>1, <1>2, JoinedBatches
<1> QED BY <1>1, <1>2, <1>3, <1>4

(* The requests of all batches. *)
InBatches == IdsIn(preempted_batches) \cup RunningIds \cup Ids(batch)

(* NothingLost, batch by batch. *)
Placed ==
    /\ IsInjective(request_queue)
    /\ DisjointBatches(preempted_batches)
    /\ DisjointBatches(running_batches)
    /\ DistinctIds(batch)
    /\ IdsIn(preempted_batches) \cap RunningIds = {}
    /\ IdsIn(preempted_batches) \cap Ids(batch) = {}
    /\ RunningIds \cap Ids(batch) = {}
    /\ Range(request_queue) \cap DOMAIN allocation_map = {}
    /\ InBatches \subseteq DOMAIN allocation_map
    /\ Live = Range(request_queue) \cup {r \in InBatches : ~req[r].completed}
    /\ num_allocated_blocks = Cardinality(DOMAIN allocation_map) * MaxBlocksPerSequence
    /\ num_allocated_blocks <= NumBlocks

(* Both say the same, now and in the next state. *)
LEMMA Placement ==
    /\ TypeOK => /\ NothingLost <=> Placed
                 /\ IdsIn(Batches) = InBatches
                 /\ Leaked = DOMAIN allocation_map \ InBatches
    /\ TypeOK' => /\ NothingLost' <=> Placed'
                  /\ Leaked' = DOMAIN allocation_map' \ InBatches'
<1>1. ASSUME TypeOK
      PROVE  /\ NothingLost <=> Placed
             /\ IdsIn(Batches) = InBatches
             /\ Leaked = DOMAIN allocation_map \ InBatches
  <2>1. /\ preempted_batches \in Seq(Seq(BatchEntry))
        /\ running_batches \in Seq(Seq(BatchEntry))
        /\ batch \in Seq(BatchEntry)
        /\ DOMAIN allocation_map \subseteq Requests
        /\ \A r \in DOMAIN allocation_map : allocation_map[r] = MaxBlocksPerSequence
    BY <1>1 DEF TypeOK, ReplicaTypes
  <2>2. Cardinality(HeldBlocks) = Cardinality(DOMAIN allocation_map) * MaxBlocksPerSequence
    BY <2>1, UniformHeld DEF HeldBlocks
  <2>3. IdsIn(Batches) = InBatches
    BY <2>1, BatchesParts DEF Batches, InBatches, RunningIds
  <2>4. DisjointBatches(Batches) <=>
            /\ DisjointBatches(preempted_batches)
            /\ DisjointBatches(running_batches)
            /\ DistinctIds(batch)
            /\ IdsIn(preempted_batches) \cap RunningIds = {}
            /\ IdsIn(preempted_batches) \cap Ids(batch) = {}
            /\ RunningIds \cap Ids(batch) = {}
    BY <2>1, BatchesParts DEF Batches, RunningIds
  <2> QED BY <2>2, <2>3, <2>4 DEF NothingLost, Placed, Leaked
<1>2. ASSUME TypeOK'
      PROVE  /\ NothingLost' <=> Placed'
             /\ Leaked' = DOMAIN allocation_map' \ InBatches'
  <2>1. /\ preempted_batches' \in Seq(Seq(BatchEntry))
        /\ running_batches' \in Seq(Seq(BatchEntry))
        /\ batch' \in Seq(BatchEntry)
        /\ DOMAIN allocation_map' \subseteq Requests
        /\ \A r \in DOMAIN allocation_map' : allocation_map'[r] = MaxBlocksPerSequence
    BY <1>2 DEF TypeOK, ReplicaTypes
  <2>2. Cardinality(HeldBlocks') = Cardinality(DOMAIN allocation_map') * MaxBlocksPerSequence
    BY <2>1, UniformHeld DEF HeldBlocks
  <2>3. IdsIn(Batches') = InBatches'
    BY <2>1, BatchesParts DEF Batches, InBatches, RunningIds
  <2>4. DisjointBatches(Batches') <=>
            /\ DisjointBatches(preempted_batches')
            /\ DisjointBatches(running_batches')
            /\ DistinctIds(batch')
            /\ IdsIn(preempted_batches') \cap RunningIds' = {}
            /\ IdsIn(preempted_batches') \cap Ids(batch') = {}
            /\ RunningIds' \cap Ids(batch') = {}
    BY <2>1, BatchesParts DEF Batches, RunningIds
  <2> QED BY <2>2, <2>3, <2>4 DEF NothingLost, Placed, Leaked
<1> QED BY <1>1, <1>2

(* What the invariant says, for the steps that follow. *)
LEMMA Holds ==
    ASSUME FTInv
    PROVE  /\ TypeOK /\ ReplicaTypes /\ Placed /\ InPhase /\ LoopState
           /\ DOMAIN allocation_map \subseteq Arrived /\ Arrived \subseteq Requests
           /\ Cardinality(DOMAIN allocation_map) \in Nat
           /\ IsFiniteSet(DOMAIN allocation_map)
           /\ InBatches \subseteq DOMAIN allocation_map
           /\ num_arrived \in Nat
<1>1. /\ TypeOK /\ ReplicaTypes /\ Placed /\ InPhase /\ LoopState
      /\ DOMAIN allocation_map \subseteq Requests
  BY Placement DEF FTInv, TypeOK, ReplicaTypes
<1>2. \A r \in DOMAIN allocation_map : allocation_map[r] = MaxBlocksPerSequence
  BY <1>1 DEF TypeOK
<1>3. Cardinality(DOMAIN allocation_map) \in Nat /\ IsFiniteSet(DOMAIN allocation_map)
  BY <1>1, <1>2, UniformHeld
<1>4. num_arrived \in 0 .. NumRequests /\ NumRequests \in Nat
  BY <1>1, ReplicaAssumption DEF ReplicaTypes
<1>5. Arrived \subseteq Requests /\ num_arrived \in Nat
  BY <1>4 DEF Arrived, Requests
<1>6. InBatches \subseteq DOMAIN allocation_map
  BY <1>1 DEF Placed
<1> QED BY <1>1, <1>3, <1>5, <1>6 DEF LoopState

(* What has leaked leaves room, when it is not more than before.            *)
LEMMA SameLeak ==
    ASSUME RoomRemains, Leaked' = Leaked
    PROVE  RoomRemains'
BY DEF RoomRemains

-----------------------------------------------------------------------------
(* The steps. *)

(* The invariant holds at the start. *)
LEMMA InitHolds == FTInit => FTInv
<1> SUFFICES ASSUME FTInit PROVE FTInv
  OBVIOUS
<1>0. Init /\ preempted_batches = <<>>
  BY DEF FTInit
<1>1. /\ Core /\ num_allocated_blocks = 0 /\ Conserved(<<>>)
  BY <1>0, CoreInit
<1>2. /\ num_arrived = 0 /\ request_queue = <<>> /\ DOMAIN allocation_map = {}
      /\ running_batches = <<>> /\ pc = "idle" /\ batch = <<>>
  BY <1>0 DEF Init
<1>3. TypeOK
  BY <1>0, <1>1, <1>2 DEF TypeOK, Core
<1>4. LoopState
  BY <1>1, <1>2 DEF LoopState, Core
<1>5. InBatches = {} /\ IdsIn(preempted_batches) = {} /\ Range(request_queue) = {}
  BY <1>0, <1>2 DEF InBatches, RunningIds, IdsIn, Ids, Range
<1>6. Cardinality(DOMAIN allocation_map) = 0
  BY <1>2, FS_EmptySet
<1>7. Placed
  <2>1. DisjointBatches(preempted_batches)
    BY <1>0 DEF DisjointBatches
  <2>2. num_allocated_blocks = Cardinality(DOMAIN allocation_map) * MaxBlocksPerSequence
    BY <1>1, <1>6, FasterTransformerAssumption
  <2>3. num_allocated_blocks <= NumBlocks
    BY <1>1, ReplicaAssumption
  <2>4. Live = {}
    BY <1>1, <1>2, <1>5 DEF Conserved
  <2> QED BY <1>1, <1>2, <1>5, <2>1, <2>2, <2>3, <2>4 DEF Placed, Conserved, InBatches
<1>8. RoomRemains
  <2>1. Leaked = {} /\ Cardinality({}) = 0
    BY <1>2, <1>3, Placement, FS_EmptySet
  <2> QED BY <2>1, FasterTransformerAssumption, ReplicaAssumption DEF RoomRemains
<1>9. InPhase
  BY <1>0, <1>2, <1>5 DEF InPhase, FirstRun
<1> QED BY <1>3, <1>4, <1>7, <1>8, <1>9, Placement DEF FTInv

(* An event is taken from the heap. *)
LEMMA ScheduleStep ==
    ASSUME FTInv, OnSchedule, UNCHANGED preempted_batches
    PROVE  FTInv'
<1>0. /\ TypeOK /\ ReplicaTypes /\ Placed /\ InPhase /\ LoopState /\ RoomRemains
  BY Holds DEF FTInv
<1>1. /\ pc = "idle" /\ schedule_events # <<>> /\ schedule_events' = Tail(schedule_events)
      /\ pc' = NextLoop(num_running_batches)
      /\ UNCHANGED <<asked, req, num_arrived, request_queue, preempted_requests,
                     memory, pipeline, batch, preempted_batches>>
  BY DEF OnSchedule
<1>2. UNCHANGED <<allocation_map, num_allocated_blocks, num_running_batches, running_batches>>
  BY <1>1 DEF memory, pipeline
<1>3. TypeOK'
  <2>1. schedule_events' \in Seq({"arrival", "batch_end"})
    BY <1>0, <1>1, HeadTailProperties DEF ReplicaTypes
  <2>2. pc' \in {"idle", "form"}
    BY <1>1 DEF NextLoop
  <2> QED BY <1>0, <1>1, <1>2, <2>1, <2>2 DEF TypeOK, ReplicaTypes
<1>4. LoopState'
  <2>1. pc' = "form" => num_running_batches < NumStages
    BY <1>1 DEF NextLoop
  <2>2. PipelineCount'
    BY <1>0, <1>1, <1>2, <2>1 DEF LoopState, PipelineCount, NextLoop
  <2> QED BY <1>0, <1>1, <1>2, <2>2 DEF LoopState, NotArrived, Arrived
<1>5. Placed'
  BY <1>0, <1>1, <1>2 DEF Placed, InBatches, RunningIds, Live, Arrived
<1>6. RoomRemains'
  BY <1>0, <1>1, <1>2 DEF RoomRemains, Leaked, Batches
<1>7. InPhase'
  BY <1>0, <1>1, <1>2 DEF InPhase, FirstRun, LaterRun, Fresh
<1> QED BY <1>3, <1>4, <1>5, <1>6, <1>7, Placement DEF FTInv

(* Requests arrive at the end of the queue. *)
LEMMA ArrivalStep ==
    ASSUME FTInv, AddRequests, UNCHANGED preempted_batches
    PROVE  FTInv'
<1>0. /\ TypeOK /\ ReplicaTypes /\ Placed /\ InPhase /\ LoopState /\ RoomRemains
      /\ num_arrived \in Nat
  BY Holds DEF FTInv
<1>1. PICK last \in num_arrived + 1 .. NumRequests :
        /\ num_arrived' = last
        /\ request_queue' = request_queue \o
                [i \in 1 .. last - num_arrived |-> num_arrived + i]
  BY DEF AddRequests
<1>2. /\ pc = "idle" /\ schedule_events' = Append(schedule_events, "arrival")
      /\ UNCHANGED <<asked, req, preempted_requests, pc, batch, preempted_batches>>
      /\ UNCHANGED <<allocation_map, num_allocated_blocks, num_running_batches,
                     running_batches>>
  BY DEF AddRequests, memory, pipeline
<1> DEFINE new == [i \in 1 .. last - num_arrived |-> num_arrived + i]
<1>3. /\ last \in Nat /\ last <= NumRequests /\ num_arrived < last
      /\ last - num_arrived \in Nat
  BY <1>0, <1>1, ReplicaAssumption
<1>4. /\ new \in Seq(Requests)
      /\ Range(new) = Arrived' \ Arrived
      /\ IsInjective(new)
  <2>1. \A i \in 1 .. last - num_arrived :
            num_arrived + i \in Requests /\ num_arrived + i \in Arrived' \ Arrived
    BY <1>0, <1>1, <1>3, ReplicaAssumption DEF Requests, Arrived
  <2>2. new \in [1 .. last - num_arrived -> Requests] /\ last - num_arrived \in Nat
    BY <1>3, <2>1
  <2>3. new \in Seq(Requests)
    BY <2>2, SeqDef
  <2>4. ASSUME NEW r \in Arrived' \ Arrived PROVE r \in Range(new)
    <3>1. r - num_arrived \in 1 .. last - num_arrived /\ num_arrived + (r - num_arrived) = r
      BY <1>0, <1>1, <1>3 DEF Arrived
    <3>2. new[r - num_arrived] = r
      BY <3>1
    <3> QED BY <3>1, <3>2 DEF Range
  <2>5. Range(new) \subseteq Arrived' \ Arrived
    BY <2>1 DEF Range
  <2>6. IsInjective(new)
    BY <1>0 DEF IsInjective
  <2> QED BY <2>3, <2>4, <2>5, <2>6
<1> HIDE DEF new
<1>5. /\ request_queue' = request_queue \o new
      /\ request_queue \in Seq(Requests)
  BY <1>0, <1>1 DEF new, ReplicaTypes
<1>6. Range(request_queue) \subseteq Arrived
  BY <1>0 DEF Placed, Live
<1>7. /\ request_queue' \in Seq(Requests)
      /\ Range(request_queue') = Range(request_queue) \cup (Arrived' \ Arrived)
      /\ IsInjective(request_queue')
  <2>1. IsInjective(request_queue)
    BY <1>0 DEF Placed
  <2> QED BY <1>4, <1>5, <1>6, <2>1, ConcatRange
<1>8. TypeOK'
  <2>1. schedule_events' \in Seq({"arrival", "batch_end"})
    BY <1>0, <1>2, AppendProperties DEF ReplicaTypes
  <2>2. num_arrived' \in 0 .. NumRequests
    BY <1>1, <1>3
  <2> QED BY <1>0, <1>2, <1>7, <2>1, <2>2 DEF TypeOK, ReplicaTypes
<1>9. Arrived \subseteq Arrived' /\ Arrived' \subseteq Requests
  <2>1. Arrived' = 1 .. last
    BY <1>1 DEF Arrived
  <2>2. num_arrived \in Nat /\ NumRequests \in Nat
    BY <1>0, ReplicaAssumption
  <2>3. 1 .. num_arrived \subseteq 1 .. last /\ 1 .. last \subseteq 1 .. NumRequests
    BY <1>3, <2>2
  <2> QED BY <2>1, <2>3 DEF Arrived, Requests
<1>10. LoopState'
  BY <1>0, <1>2, <1>9 DEF LoopState, PipelineCount, NotArrived
<1>11. \A r \in Arrived' \ Arrived : /\ Fresh(r) /\ ~req[r].completed
                                     /\ r \notin DOMAIN allocation_map
  <2> TAKE r \in Arrived' \ Arrived
  <2>1. r \in Requests \ Arrived
    BY <1>9
  <2>2. req[r] = NewRequest(asked[r].prefill, asked[r].decode)
    BY <1>0, <2>1 DEF LoopState, NotArrived
  <2>3. r \notin DOMAIN allocation_map
    BY <1>0, <2>1 DEF LoopState
  <2> QED BY <2>2, <2>3 DEF NewRequest, Fresh
<1>12. Placed'
  <2>1. InBatches' = InBatches
    BY <1>2 DEF InBatches, RunningIds
  <2>2. Live' = Live \cup (Arrived' \ Arrived)
    BY <1>2, <1>9, <1>11 DEF Live
  <2>3. Range(request_queue') \cap DOMAIN allocation_map' = {}
    BY <1>0, <1>2, <1>7, <1>11 DEF Placed
  <2> QED BY <1>0, <1>2, <1>7, <2>1, <2>2, <2>3 DEF Placed, RunningIds
<1>13. RoomRemains'
  BY <1>0, <1>2 DEF RoomRemains, Leaked, Batches
<1>14. InPhase'
  BY <1>0, <1>2, <1>7, <1>11 DEF InPhase, FirstRun, LaterRun, Fresh
<1> QED BY <1>8, <1>10, <1>12, <1>13, <1>14, Placement DEF FTInv

(* A request is admitted to the batch that is formed. *)
LEMMA AdmitStep ==
    ASSUME FTInv, Admit
    PROVE  FTInv'
<1>0. /\ TypeOK /\ ReplicaTypes /\ Placed /\ InPhase /\ LoopState /\ RoomRemains
      /\ DOMAIN allocation_map \subseteq Arrived /\ Arrived \subseteq Requests
      /\ Cardinality(DOMAIN allocation_map) \in Nat
      /\ IsFiniteSet(DOMAIN allocation_map)
      /\ InBatches \subseteq DOMAIN allocation_map
  BY Holds DEF FTInv
<1>1. PICK r : r = Head(request_queue)
  OBVIOUS
<1>2. /\ pc = "form" /\ preempted_batches = <<>> /\ request_queue # <<>>
      /\ FreeBlocks >= MaxBlocksPerSequence
      /\ Allocate(r, MaxBlocksPerSequence)
      /\ batch' = Append(batch, Entry(r))
      /\ request_queue' = Tail(request_queue)
      /\ UNCHANGED <<asked, req, num_arrived, preempted_requests, schedule_events, pc,
                     preempted_batches, num_running_batches, running_batches>>
  BY <1>1 DEF Admit, CanAdmit, pipeline
<1>3. request_queue \in Seq(Requests) /\ IsInjective(request_queue)
  BY <1>0 DEF ReplicaTypes, Placed
<1>4. /\ r \in Range(request_queue) /\ r \in Requests
      /\ request_queue' \in Seq(Requests)
      /\ Range(request_queue) = Range(request_queue') \cup {r}
      /\ IsInjective(request_queue') /\ r \notin Range(request_queue')
  <2>1. Head(request_queue) \in Requests
    BY <1>2, <1>3, HeadTailProperties
  <2> QED BY <1>1, <1>2, <1>3, <2>1, TailRange
<1>5. r \notin DOMAIN allocation_map /\ r \in Live /\ r \in Arrived /\ Fresh(r)
  <2>1. r \in Live /\ r \notin DOMAIN allocation_map
    BY <1>0, <1>4 DEF Placed
  <2>2. Fresh(r)
    BY <1>0, <1>4 DEF InPhase
  <2> QED BY <2>1, <2>2 DEF Live
<1>6. /\ DOMAIN allocation_map' = DOMAIN allocation_map \cup {r}
      /\ \A x \in DOMAIN allocation_map : allocation_map'[x] = allocation_map[x]
      /\ allocation_map'[r] = MaxBlocksPerSequence
      /\ num_allocated_blocks' = num_allocated_blocks + MaxBlocksPerSequence
  BY <1>2, <1>5, FasterTransformerAssumption DEF Allocate, BlocksOf
<1>7. /\ batch' \in Seq(BatchEntry)
      /\ Ids(batch') = Ids(batch) \cup {r}
      /\ DistinctIds(batch')
      /\ DOMAIN batch = 1 .. Len(batch) /\ Len(batch) \in Nat
      /\ DOMAIN batch' = 1 .. Len(batch) + 1
      /\ \A i \in 1 .. Len(batch) : batch'[i] = batch[i]
      /\ batch'[Len(batch) + 1] = Entry(r)
  <2>1. PICK k \in Nat : Entry(r) = [id |-> r, tokens |-> k]
    BY <1>0, <1>4, EntryType
  <2>2. batch \in Seq(BatchEntry) /\ DistinctIds(batch) /\ r \notin Ids(batch)
    BY <1>0, <1>5 DEF ReplicaTypes, Placed, InBatches
  <2>3. Len(batch) \in Nat
    BY <2>2, LenProperties
  <2> QED BY <1>2, <1>4, <2>1, <2>2, <2>3, BatchAppend
<1>8. TypeOK'
  <2>1. allocation_map' \in [DOMAIN allocation_map' -> Nat]
    BY <1>0, <1>2, <1>6, FasterTransformerAssumption DEF TypeOK, Allocate
  <2>2. \A x \in DOMAIN allocation_map' : allocation_map'[x] = MaxBlocksPerSequence
    BY <1>0, <1>6 DEF TypeOK
  <2>3. num_allocated_blocks' \in Int
    BY <1>0, <1>6, FasterTransformerAssumption DEF ReplicaTypes
  <2>4. DOMAIN allocation_map' \subseteq Requests
    BY <1>0, <1>4, <1>6
  <2> QED BY <1>0, <1>2, <1>4, <1>7, <2>1, <2>2, <2>3, <2>4 DEF TypeOK, ReplicaTypes
<1>9. LoopState'
  <2>1. DOMAIN allocation_map' \subseteq Arrived'
    BY <1>0, <1>2, <1>5, <1>6 DEF Arrived
  <2> QED BY <1>0, <1>2, <2>1 DEF LoopState, PipelineCount, NotArrived, Arrived
<1>10. InBatches' = InBatches \cup {r}
  BY <1>2, <1>7 DEF InBatches, RunningIds
<1>11. Placed'
  <2>1. r \notin InBatches
    BY <1>0, <1>5
  <2>2. Live' = Live
    BY <1>2 DEF Live, Arrived
  <2>3. /\ Live' = Range(request_queue') \cup {x \in InBatches' : ~req'[x].completed}
        /\ InBatches' \subseteq DOMAIN allocation_map'
        /\ Range(request_queue') \cap DOMAIN allocation_map' = {}
    <3>1. /\ Live = Range(request_queue) \cup {x \in InBatches : ~req[x].completed}
          /\ Range(request_queue) \cap DOMAIN allocation_map = {}
      BY <1>0 DEF Placed
    <3>2. ~req[r].completed
      BY <1>5 DEF Live
    <3> QED BY <1>0, <1>2, <1>4, <1>6, <1>10, <2>2, <3>1, <3>2
  <2>4. num_allocated_blocks' =
            Cardinality(DOMAIN allocation_map') * MaxBlocksPerSequence
    <3>1. Cardinality(DOMAIN allocation_map') = Cardinality(DOMAIN allocation_map) + 1
      <4>1. Cardinality(DOMAIN allocation_map \cup {r}) =
                Cardinality(DOMAIN allocation_map) + 1
        BY <1>0, <1>5, FS_AddElement, Zenon
      <4> QED BY <1>6, <4>1
    <3> DEFINE n == Cardinality(DOMAIN allocation_map)
               k == Cardinality(DOMAIN allocation_map')
    <3>2. n \in Nat /\ k = n + 1 /\ MaxBlocksPerSequence \in Nat
          /\ num_allocated_blocks' = n * MaxBlocksPerSequence + MaxBlocksPerSequence
      BY <1>0, <1>6, <3>1, FasterTransformerAssumption DEF Placed
    <3> HIDE DEF n, k
    <3>3. num_allocated_blocks' = k * MaxBlocksPerSequence
      BY <3>2
    <3> QED BY <3>3 DEF k
  <2>5. num_allocated_blocks' <= NumBlocks
    BY <1>0, <1>2, <1>6, ReplicaAssumption, FasterTransformerAssumption
       DEF FreeBlocks, ReplicaTypes
  <2>6. /\ IdsIn(preempted_batches') \cap Ids(batch') = {}
        /\ RunningIds' \cap Ids(batch') = {}
        /\ RunningIds' = RunningIds
    BY <1>0, <1>2, <1>7, <2>1 DEF Placed, InBatches, RunningIds
  <2> QED BY <1>0, <1>2, <1>4, <1>7, <2>3, <2>4, <2>5, <2>6 DEF Placed
<1>12. RoomRemains'
  <2>1. Leaked' = DOMAIN allocation_map' \ InBatches'
    BY <1>8, Placement
  <2>2. Leaked = DOMAIN allocation_map \ InBatches
    BY <1>0, Placement
  <2>3. Leaked' = Leaked
    BY <1>5, <1>6, <1>10, <2>1, <2>2
  <2> QED BY <1>0, <2>3, SameLeak
<1>13. InPhase'
  <2>1. ASSUME NEW i \in DOMAIN batch'
        PROVE  /\ Fresh(batch'[i].id)
               /\ batch'[i].tokens = req[batch'[i].id].prefill
    <3>1. CASE i \in 1 .. Len(batch)
      <4>1. batch'[i] = batch[i] /\ i \in DOMAIN batch
        BY <1>7, <3>1
      <4> QED BY <1>0, <4>1 DEF InPhase, FirstRun
    <3>2. CASE i = Len(batch) + 1
      <4>1. batch'[i].id = r /\ batch'[i].tokens = req[r].prefill
        BY <1>0, <1>4, <1>5, <1>7, <3>2, EntryType DEF Fresh
      <4> QED BY <1>5, <4>1
    <3> QED BY <1>7, <3>1, <3>2
  <2>2. FirstRun(batch)'
    BY <1>2, <2>1 DEF FirstRun, Fresh
  <2>3. \A r1 \in Range(request_queue') : Fresh(r1)'
    BY <1>0, <1>2, <1>4 DEF InPhase, Fresh
  <2>4. (\A k \in DOMAIN running_batches :
            FirstRun(running_batches[k]) \/ LaterRun(running_batches[k]))'
    BY <1>0, <1>2 DEF InPhase, FirstRun, LaterRun, Fresh
  <2> QED BY <1>2, <2>2, <2>3, <2>4 DEF InPhase
<1> QED BY <1>8, <1>9, <1>11, <1>12, <1>13, Placement DEF FTInv

(* The batch that was formed enters the pipeline, or there is none.         *)
LEMMA AdmitDoneStep ==
    ASSUME FTInv, AdmitDone
    PROVE  FTInv'
<1>0. /\ TypeOK /\ ReplicaTypes /\ Placed /\ InPhase /\ LoopState /\ RoomRemains
  BY Holds DEF FTInv
<1>1. /\ pc = "form" /\ preempted_batches = <<>> /\ ReturnBatch
      /\ UNCHANGED <<asked, req, num_arrived, request_queue, preempted_requests,
                     allocation_map, num_allocated_blocks, schedule_events,
                     preempted_batches>>
  BY DEF AdmitDone, memory
<1>2. CASE batch = <<>>
  <2>1. /\ pc' = "idle"
        /\ UNCHANGED <<num_running_batches, running_batches, batch>>
    BY <1>1, <1>2 DEF ReturnBatch, pipeline
  <2>2. TypeOK' /\ LoopState'
    BY <1>0, <1>1, <1>2, <2>1
       DEF TypeOK, ReplicaTypes, LoopState, PipelineCount, NotArrived, Arrived
  <2>3. Placed'
    BY <1>0, <1>1, <2>1 DEF Placed, InBatches, RunningIds, Live, Arrived
  <2>4. RoomRemains'
    BY <1>0, <1>1, <2>1 DEF RoomRemains, Leaked, Batches
  <2>5. InPhase'
    BY <1>0, <1>1, <2>1 DEF InPhase, FirstRun, LaterRun, Fresh
  <2> QED BY <2>2, <2>3, <2>4, <2>5, Placement DEF FTInv
<1>3. CASE batch # <<>>
  <2>1. /\ running_batches' = Append(running_batches, batch)
        /\ num_running_batches' = num_running_batches + 1
        /\ pc' = NextLoop(num_running_batches + 1)
        /\ batch' = <<>>
    BY <1>1, <1>3 DEF ReturnBatch
  <2>2. /\ running_batches \in Seq(Seq(BatchEntry)) /\ batch \in Seq(BatchEntry)
        /\ num_running_batches = Len(running_batches) /\ num_running_batches \in Nat
        /\ num_running_batches < NumStages /\ NumStages \in Nat
    BY <1>0, <1>1, ReplicaAssumption DEF ReplicaTypes, LoopState, PipelineCount
  <2>3. /\ DisjointBatches(running_batches) /\ DistinctIds(batch)
        /\ Ids(batch) \cap IdsIn(running_batches) = {}
    BY <1>0 DEF Placed, RunningIds
  <2>4. /\ running_batches' \in Seq(Seq(BatchEntry))
        /\ Len(running_batches') = Len(running_batches) + 1
        /\ \A k \in DOMAIN running_batches' :
                \/ k \in DOMAIN running_batches /\ running_batches'[k] = running_batches[k]
                \/ running_batches'[k] = batch
        /\ RunningIds' = RunningIds \cup Ids(batch)
        /\ DisjointBatches(running_batches')
    BY <2>1, <2>2, <2>3, PipelineAppend DEF RunningIds
  <2>5. Ids(batch') = {} /\ batch' \in Seq(BatchEntry) /\ DistinctIds(batch')
    BY <2>1 DEF Ids, DistinctIds
  <2>6. pc' \in {"idle", "form"} /\ (pc' = "form" => num_running_batches' < NumStages)
    BY <2>1 DEF NextLoop
  <2>7. TypeOK'
    BY <1>0, <1>1, <2>1, <2>2, <2>4, <2>5, <2>6 DEF TypeOK, ReplicaTypes
  <2>8. LoopState'
    BY <1>0, <1>1, <2>1, <2>2, <2>4, <2>6
       DEF LoopState, PipelineCount, NotArrived, Arrived
  <2>9. InBatches' = InBatches
    BY <1>1, <2>4, <2>5 DEF InBatches
  <2>10. Placed'
    BY <1>0, <1>1, <2>4, <2>5, <2>9 DEF Placed, Live, Arrived
  <2>11. RoomRemains'
    <3>1. Leaked' = Leaked
      BY <1>0, <1>1, <2>7, <2>9, Placement
    <3> QED BY <1>0, <3>1, SameLeak
  <2>12. InPhase'
    <3>1. FirstRun(batch)'
      BY <2>1 DEF FirstRun
    <3>2. (\A k \in DOMAIN running_batches :
                FirstRun(running_batches[k]) \/ LaterRun(running_batches[k]))'
      <4> SUFFICES ASSUME NEW k \in DOMAIN running_batches'
                   PROVE  (FirstRun(running_batches[k]) \/ LaterRun(running_batches[k]))'
        OBVIOUS
      <4>1. CASE k \in DOMAIN running_batches /\ running_batches'[k] = running_batches[k]
        BY <1>0, <1>1, <4>1 DEF InPhase, FirstRun, LaterRun, Fresh
      <4>2. CASE running_batches'[k] = batch
        BY <1>0, <1>1, <4>2 DEF InPhase, FirstRun, Fresh
      <4> QED BY <2>4, <4>1, <4>2
    <3> QED BY <1>0, <1>1, <3>1, <3>2 DEF InPhase, LaterRun, Fresh
  <2> QED BY <2>7, <2>8, <2>10, <2>11, <2>12, Placement DEF FTInv
<1> QED BY <1>2, <1>3

(* The batch that waited longest runs again with the requests it has left:  *)
(* they are some, all of them have prefilled, and they are those of the     *)
(* batch that are not completed.                                            *)
LEMMA RunsAgain ==
    ASSUME FTInv, RunAgain
    PROVE  \E h, b : /\ h = Head(preempted_batches) /\ h \in Seq(BatchEntry)
                     /\ \E k \in DOMAIN preempted_batches : h = preempted_batches[k]
                     /\ b = Unfinished(h) /\ b \in Seq(BatchEntry)
                     /\ running_batches' = Append(running_batches, b)
                     /\ Ids(b) = {r \in Ids(h) : ~req[r].completed}
                     /\ Ids(b) # {}
                     /\ LaterRun(b)
                     /\ DistinctIds(h) => DistinctIds(b)
<1>0. /\ TypeOK /\ InPhase /\ preempted_batches \in Seq(Seq(BatchEntry))
  BY Holds DEF TypeOK
<1>1. PICK h : h = Head(preempted_batches)
  OBVIOUS
<1>2. PICK b : b = Unfinished(h)
  OBVIOUS
<1>3. preempted_batches # <<>> /\ running_batches' = Append(running_batches, b)
  BY <1>1, <1>2 DEF RunAgain
<1>4. /\ h \in Seq(BatchEntry)
      /\ \E k \in DOMAIN preempted_batches : h = preempted_batches[k]
  BY <1>0, <1>1, <1>3, PipelineTail
<1>5. LaterRun(h) /\ \E r \in Ids(h) : ~req[r].completed
  BY <1>0, <1>4 DEF InPhase
<1>6. /\ b \in Seq(BatchEntry)
      /\ Ids(b) = {r \in Ids(h) : ~req[r].completed}
      /\ DistinctIds(h) => DistinctIds(b)
  BY <1>0, <1>2, <1>4, UnfinishedFacts
<1>7. LaterRun(b) /\ Ids(b) # {}
  BY <1>5, <1>6 DEF LaterRun
<1> QED BY <1>1, <1>2, <1>3, <1>4, <1>6, <1>7

(* A batch runs again: its completed requests leak, and one of them at      *)
(* least does not.                                                          *)
LEMMA RunAgainStep ==
    ASSUME FTInv, RunAgain
    PROVE  FTInv'
<1>0. /\ TypeOK /\ ReplicaTypes /\ Placed /\ InPhase /\ LoopState /\ RoomRemains
      /\ IsFiniteSet(DOMAIN allocation_map)
      /\ InBatches \subseteq DOMAIN allocation_map
      /\ preempted_batches \in Seq(Seq(BatchEntry))
  BY Holds DEF FTInv, TypeOK
<1>1. /\ pc = "form" /\ preempted_batches # <<>>
      /\ num_running_batches' = num_running_batches + 1
      /\ pc' = NextLoop(num_running_batches + 1)
      /\ preempted_batches' = Tail(preempted_batches)
      /\ UNCHANGED <<asked, req, num_arrived, request_queue, preempted_requests,
                     allocation_map, num_allocated_blocks, schedule_events, batch>>
  BY DEF RunAgain, memory
<1>2. PICK h, b : /\ h = Head(preempted_batches) /\ h \in Seq(BatchEntry)
                  /\ b \in Seq(BatchEntry)
                  /\ running_batches' = Append(running_batches, b)
                  /\ Ids(b) = {r \in Ids(h) : ~req[r].completed}
                  /\ Ids(b) # {}
                  /\ LaterRun(b)
                  /\ DistinctIds(h) => DistinctIds(b)
  BY RunsAgain
<1>3. batch = <<>> /\ Ids(batch) = {}
  <2>1. batch = <<>>
    BY <1>0, <1>1 DEF LoopState
  <2> QED BY <2>1 DEF Ids
<1>4. /\ preempted_batches' \in Seq(Seq(BatchEntry))
      /\ \A k \in DOMAIN preempted_batches' :
            \E l \in DOMAIN preempted_batches : preempted_batches'[k] = preempted_batches[l]
      /\ IdsIn(preempted_batches) = IdsIn(preempted_batches') \cup Ids(h)
      /\ DisjointBatches(preempted_batches') /\ DistinctIds(h)
      /\ Ids(h) \cap IdsIn(preempted_batches') = {}
  <2>1. DisjointBatches(preempted_batches)
    BY <1>0 DEF Placed
  <2> QED BY <1>0, <1>1, <1>2, <2>1, PipelineTail
<1>5. /\ running_batches \in Seq(Seq(BatchEntry))
      /\ num_running_batches = Len(running_batches) /\ num_running_batches \in Nat
      /\ num_running_batches < NumStages /\ NumStages \in Nat
      /\ DisjointBatches(running_batches)
      /\ IdsIn(preempted_batches) \cap RunningIds = {}
  BY <1>0, <1>1, ReplicaAssumption DEF ReplicaTypes, LoopState, PipelineCount, Placed
<1>6. DistinctIds(b) /\ Ids(b) \cap IdsIn(running_batches) = {}
  BY <1>2, <1>4, <1>5 DEF RunningIds
<1>7. /\ running_batches' \in Seq(Seq(BatchEntry))
      /\ Len(running_batches') = Len(running_batches) + 1
      /\ \A k \in DOMAIN running_batches' :
            \/ k \in DOMAIN running_batches /\ running_batches'[k] = running_batches[k]
            \/ running_batches'[k] = b
      /\ RunningIds' = RunningIds \cup Ids(b)
      /\ DisjointBatches(running_batches')
  BY <1>2, <1>5, <1>6, PipelineAppend DEF RunningIds
<1>8. pc' \in {"idle", "form"} /\ (pc' = "form" => num_running_batches' < NumStages)
  BY <1>1 DEF NextLoop
<1>9. TypeOK'
  BY <1>0, <1>1, <1>4, <1>5, <1>7, <1>8 DEF TypeOK, ReplicaTypes
<1>10. LoopState'
  BY <1>0, <1>1, <1>3, <1>5, <1>7, <1>8
     DEF LoopState, PipelineCount, NotArrived, Arrived
<1>11. /\ InBatches' \subseteq InBatches
       /\ InBatches \ InBatches' = {r \in Ids(h) : req[r].completed}
       /\ Ids(b) \subseteq InBatches'
  BY <1>1, <1>2, <1>3, <1>4, <1>5, <1>7 DEF InBatches
<1>12. Placed'
  <2>1. {r \in InBatches' : ~req'[r].completed} = {r \in InBatches : ~req[r].completed}
    BY <1>1, <1>11
  <2>2. Live' = Live
    BY <1>1 DEF Live, Arrived
  <2>3. /\ IdsIn(preempted_batches') \cap RunningIds' = {}
        /\ IdsIn(preempted_batches') \cap Ids(batch') = {}
        /\ RunningIds' \cap Ids(batch') = {}
    BY <1>1, <1>2, <1>3, <1>4, <1>5, <1>7
  <2>4. InBatches' \subseteq DOMAIN allocation_map'
    BY <1>0, <1>1, <1>11
  <2> QED BY <1>0, <1>1, <1>4, <1>7, <2>1, <2>2, <2>3, <2>4 DEF Placed
<1>13. RoomRemains'
  <2> DEFINE D == DOMAIN allocation_map
  <2>1. Leaked' = D \ InBatches'
    BY <1>1, <1>9, Placement
  <2>2. PICK r \in Ids(b) : r \in D /\ r \notin Leaked'
    BY <1>0, <1>2, <1>11, <2>1
  <2>3. /\ Leaked' \subseteq D \ {r}
        /\ IsFiniteSet(D \ {r}) /\ Cardinality(D) \in Nat
        /\ Cardinality(D \ {r}) = Cardinality(D) - 1
    <3>1. Leaked' \subseteq D \ {r}
      BY <2>1, <2>2
    <3>2. IsFiniteSet(D)
      BY <1>0
    <3> HIDE DEF D
    <3>3. /\ IsFiniteSet(D \ {r}) /\ Cardinality(D) \in Nat
          /\ Cardinality(D \ {r}) = Cardinality(D) - 1
      BY <2>2, <3>2, FS_RemoveElement, FS_CardinalityType, Zenon
    <3> QED BY <3>1, <3>3
  <2>4. Cardinality(Leaked') \in Nat /\ Cardinality(Leaked') <= Cardinality(D \ {r})
    BY <2>3, FS_Subset, FS_CardinalityType
  <2>5. Cardinality(D) * MaxBlocksPerSequence <= NumBlocks
    BY <1>0 DEF Placed
  <2> DEFINE l == Cardinality(Leaked')
             n == Cardinality(D)
  <2>6. l \in Nat /\ n \in Nat /\ l + 1 <= n /\ n * MaxBlocksPerSequence <= NumBlocks
        /\ MaxBlocksPerSequence \in Nat /\ NumBlocks \in Nat
    BY <2>3, <2>4, <2>5, ReplicaAssumption, FasterTransformerAssumption
  <2> HIDE DEF l, n
  <2>7. (l + 1) * MaxBlocksPerSequence <= n * MaxBlocksPerSequence
    BY <2>6
  <2>8. (l + 1) * MaxBlocksPerSequence <= NumBlocks
    <3> DEFINE x == (l + 1) * MaxBlocksPerSequence
               y == n * MaxBlocksPerSequence
    <3>1. x \in Int /\ y \in Int /\ x <= y /\ y <= NumBlocks /\ NumBlocks \in Int
      BY <2>6, <2>7
    <3> HIDE DEF x, y
    <3>2. x <= NumBlocks
      BY <3>1
    <3> QED BY <3>2 DEF x
  <2> QED BY <2>8 DEF RoomRemains, l
<1>14. InPhase'
  <2>1. FirstRun(batch)'
    BY <1>1, <1>3 DEF FirstRun
  <2>2. (\A k \in DOMAIN running_batches :
            FirstRun(running_batches[k]) \/ LaterRun(running_batches[k]))'
    <3> SUFFICES ASSUME NEW k \in DOMAIN running_batches'
                 PROVE  (FirstRun(running_batches[k]) \/ LaterRun(running_batches[k]))'
      OBVIOUS
    <3>1. CASE k \in DOMAIN running_batches /\ running_batches'[k] = running_batches[k]
      BY <1>0, <1>1, <3>1 DEF InPhase, FirstRun, LaterRun, Fresh
    <3>2. CASE running_batches'[k] = b
      BY <1>1, <1>2, <3>2 DEF LaterRun
    <3> QED BY <1>7, <3>1, <3>2
  <2>3. (\A k \in DOMAIN preempted_batches :
            /\ LaterRun(preempted_batches[k])
            /\ \E r \in Ids(preempted_batches[k]) : ~req[r].completed)'
    BY <1>0, <1>1, <1>4 DEF InPhase, LaterRun
  <2>4. (\A r \in Range(request_queue) : Fresh(r))'
    BY <1>0, <1>1 DEF InPhase, Fresh
  <2> QED BY <2>1, <2>2, <2>3, <2>4 DEF InPhase
<1> QED BY <1>9, <1>10, <1>12, <1>13, <1>14, Placement DEF FTInv

(* What the end of a batch does to its requests. *)
LEMMA EndFacts ==
    ASSUME FTInv, FTBatchEnd, NEW b, b = Head(running_batches)
    PROVE  /\ b \in Seq(BatchEntry) /\ DistinctIds(b)
           /\ Ids(b) \subseteq RunningIds
           /\ \A i \in DOMAIN b : req'[b[i].id] = OnBatchEnd(req[b[i].id], b[i].tokens)
           /\ \A r \in Requests \ Ids(b) : req'[r] = req[r]
           /\ req' \in [Requests -> RequestRecord]
           /\ \A r \in Ids(b) : req'[r].prefill_complete
           /\ \/ /\ \A r \in Ids(b) : req'[r].completed
                 /\ FreeBatch(b)
                 /\ UNCHANGED preempted_batches
              \/ /\ \E r \in Ids(b) : ~req'[r].completed
                 /\ preempted_batches' = Append(preempted_batches, b)
                 /\ UNCHANGED <<allocation_map, num_allocated_blocks>>
<1>0. /\ TypeOK /\ ReplicaTypes /\ Placed /\ InPhase
      /\ DOMAIN allocation_map \subseteq Arrived /\ Arrived \subseteq Requests
      /\ InBatches \subseteq DOMAIN allocation_map
  BY Holds
<1>1. running_batches # <<>> /\ running_batches \in Seq(Seq(BatchEntry))
  BY <1>0 DEF FTBatchEnd, ReplicaTypes
<1>2. /\ b \in Seq(BatchEntry) /\ DistinctIds(b)
      /\ Ids(b) \subseteq RunningIds
      /\ \E k \in DOMAIN running_batches : b = running_batches[k]
  <2>1. DisjointBatches(running_batches)
    BY <1>0 DEF Placed
  <2> QED BY <1>1, <2>1, PipelineTail DEF RunningIds
<1>3. Ids(b) \subseteq Requests
  BY <1>0, <1>2 DEF InBatches
<1> DEFINE entry(r) == CHOOSE e \in Range(b) : e.id = r
<1>4. ASSUME NEW i \in DOMAIN b PROVE entry(b[i].id) = b[i]
  <2>1. b[i] \in Range(b)
    BY DEF Range
  <2>2. \A e \in Range(b) : e.id = b[i].id => e = b[i]
    BY <1>2 DEF Range, DistinctIds
  <2> QED BY <2>1, <2>2
<1> DEFINE ended == [r \in Ids(b) |-> OnBatchEnd(req[r], entry(r).tokens)]
<1>5. /\ req' = [r \in Requests |-> IF r \in Ids(b) THEN ended[r] ELSE req[r]]
      /\ \/ /\ \A r \in Ids(b) : ended[r].completed
            /\ FreeBatch(b)
            /\ UNCHANGED preempted_batches
         \/ /\ \E r \in Ids(b) : ~ended[r].completed
            /\ preempted_batches' = Append(preempted_batches, b)
            /\ UNCHANGED memory
  BY DEF FTBatchEnd
<1>6. ASSUME NEW i \in DOMAIN b
      PROVE  req'[b[i].id] = OnBatchEnd(req[b[i].id], b[i].tokens)
  <2>1. PICK r : r = b[i].id
    OBVIOUS
  <2>2. r \in Ids(b) /\ entry(r) = b[i]
    BY <1>4, <2>1 DEF Ids
  <2> HIDE DEF entry
  <2>3. req'[r] = OnBatchEnd(req[r], entry(r).tokens)
    BY <1>3, <1>5, <2>2
  <2> QED BY <2>1, <2>2, <2>3
<1> HIDE DEF entry
<1>7. /\ \A r \in Ids(b) : req'[r] = ended[r]
      /\ \A r \in Requests \ Ids(b) : req'[r] = req[r]
  BY <1>3, <1>5
<1> HIDE DEF ended
<1>8. ASSUME NEW i \in DOMAIN b
      PROVE  req'[b[i].id] \in RequestRecord /\ req'[b[i].id].prefill_complete
  <2>1. PICK r : r = b[i].id
    OBVIOUS
  <2>2. b[i].tokens \in Nat /\ r \in Requests /\ r \in Ids(b)
    <3>1. DOMAIN b = 1 .. Len(b)
      BY <1>2, LenProperties
    <3>2. b[i] \in BatchEntry
      BY <1>2, <3>1, ElementOfSeq
    <3> QED BY <1>3, <2>1, <3>2 DEF BatchEntry, Ids
  <2>3. req[r] \in RequestRecord
    BY <1>0, <2>2 DEF ReplicaTypes
  <2>4. OnBatchEnd(req[r], b[i].tokens) \in RequestRecord
    BY <2>2, <2>3, RequestTypes
  <2>5. req[r].prefill_complete \/ req[r].processed + b[i].tokens = req[r].prefill
    <3>1. CASE FirstRun(b)
      <4>1. req[r].processed = 0 /\ b[i].tokens = req[r].prefill
        BY <2>1, <3>1 DEF FirstRun, Fresh
      <4> QED BY <2>2, <4>1
    <3>2. CASE LaterRun(b)
      BY <2>2, <3>2 DEF LaterRun
    <3> QED BY <1>0, <1>2, <3>1, <3>2 DEF InPhase
  <2>6. OnBatchEnd(req[r], b[i].tokens).prefill_complete
    BY <2>3, <2>5 DEF OnBatchEnd, RequestRecord
  <2> QED BY <1>6, <2>1, <2>4, <2>6
<1>9. \A r \in Ids(b) : req'[r] \in RequestRecord /\ req'[r].prefill_complete
  BY <1>8 DEF Ids
<1>10. req' \in [Requests -> RequestRecord]
  <2>1. \A r \in Requests : req'[r] \in RequestRecord
    BY <1>0, <1>7, <1>9 DEF ReplicaTypes
  <2>2. DOMAIN req' = Requests /\ req' = [r \in Requests |-> req'[r]]
    BY <1>5
  <2> QED BY <2>1, <2>2
<1>11. \/ /\ \A r \in Ids(b) : req'[r].completed
          /\ FreeBatch(b)
          /\ UNCHANGED preempted_batches
       \/ /\ \E r \in Ids(b) : ~req'[r].completed
          /\ preempted_batches' = Append(preempted_batches, b)
          /\ UNCHANGED <<allocation_map, num_allocated_blocks>>
  BY <1>5, <1>7 DEF memory
<1> QED BY <1>2, <1>6, <1>7, <1>9, <1>10, <1>11

(* Freeing a batch gives back the memory of its requests, all of it.        *)
LEMMA FreeBatchFacts ==
    ASSUME TypeOK, Placed, NEW b \in Seq(BatchEntry),
           Ids(b) \subseteq DOMAIN allocation_map, FreeBatch(b)
    PROVE  /\ DOMAIN allocation_map' = DOMAIN allocation_map \ Ids(b)
           /\ \A r \in DOMAIN allocation_map' : allocation_map'[r] = MaxBlocksPerSequence
           /\ allocation_map' \in [DOMAIN allocation_map' -> Nat]
           /\ num_allocated_blocks' =
                Cardinality(DOMAIN allocation_map') * MaxBlocksPerSequence
           /\ num_allocated_blocks' <= num_allocated_blocks
           /\ num_allocated_blocks' \in Int
<1> DEFINE D == DOMAIN allocation_map
<1>1. /\ DOMAIN allocation_map' = D \ Ids(b)
      /\ \A r \in D \ Ids(b) : allocation_map'[r] = allocation_map[r]
      /\ allocation_map' = [r \in D \ Ids(b) |-> allocation_map[r]]
      /\ num_allocated_blocks' =
            num_allocated_blocks - SumFunctionOnSet(allocation_map, Ids(b))
  BY DEF FreeBatch
<1>2. /\ D \subseteq Requests /\ \A r \in D : allocation_map[r] = MaxBlocksPerSequence
      /\ MaxBlocksPerSequence \in Nat
  BY FasterTransformerAssumption DEF TypeOK, ReplicaTypes
<1>3. IsFiniteSet(D) /\ Cardinality(D) \in Nat
  BY <1>2, UniformHeld
<1>4. IsFiniteSet(Ids(b)) /\ Cardinality(Ids(b)) \in Nat
  BY <1>3, FS_Subset, FS_CardinalityType
<1>5. SumFunctionOnSet(allocation_map, Ids(b)) = Cardinality(Ids(b)) * MaxBlocksPerSequence
  BY <1>2, <1>4, SumConstant
<1>6. num_allocated_blocks = Cardinality(D) * MaxBlocksPerSequence
  BY DEF Placed
<1> HIDE DEF D
<1>7. Cardinality(D \ Ids(b)) = Cardinality(D) - Cardinality(Ids(b))
  <2>1. D \cap Ids(b) = Ids(b)
    BY DEF D
  <2>2. Cardinality(D \ Ids(b)) = Cardinality(D) - Cardinality(D \cap Ids(b))
    BY <1>3, <1>4, FS_Difference, Zenon
  <2> QED BY <2>1, <2>2
<1> DEFINE n == Cardinality(D)
           k == Cardinality(Ids(b))
           m == Cardinality(D \ Ids(b))
<1>8. /\ n \in Nat /\ k \in Nat /\ m = n - k
      /\ num_allocated_blocks = n * MaxBlocksPerSequence
      /\ num_allocated_blocks' =
            n * MaxBlocksPerSequence - k * MaxBlocksPerSequence
  BY <1>1, <1>3, <1>4, <1>5, <1>6, <1>7
<1> HIDE DEF n, k, m
<1>9. num_allocated_blocks' = m * MaxBlocksPerSequence
  BY <1>2, <1>8
<1>10. num_allocated_blocks' <= num_allocated_blocks /\ num_allocated_blocks' \in Int
  BY <1>2, <1>8
<1>11. num_allocated_blocks' = Cardinality(DOMAIN allocation_map') * MaxBlocksPerSequence
  BY <1>1, <1>9 DEF m
<1>12. /\ \A r \in DOMAIN allocation_map' : allocation_map'[r] = MaxBlocksPerSequence
       /\ allocation_map' \in [DOMAIN allocation_map' -> Nat]
  BY <1>1, <1>2
<1> QED BY <1>1, <1>10, <1>11, <1>12 DEF D

(* The oldest batch ends: it waits to run again, or it gives back all its   *)
(* memory.                                                                  *)
LEMMA BatchEndStep ==
    ASSUME FTInv, FTBatchEnd
    PROVE  FTInv'
<1>0. /\ TypeOK /\ ReplicaTypes /\ Placed /\ InPhase /\ LoopState /\ RoomRemains
      /\ DOMAIN allocation_map \subseteq Arrived /\ Arrived \subseteq Requests
      /\ InBatches \subseteq DOMAIN allocation_map
      /\ preempted_batches \in Seq(Seq(BatchEntry))
  BY Holds DEF FTInv, TypeOK
<1>1. /\ pc = "idle" /\ running_batches # <<>>
      /\ running_batches' = Tail(running_batches)
      /\ num_running_batches' = num_running_batches - 1
      /\ schedule_events' = Append(schedule_events, "batch_end")
      /\ UNCHANGED <<asked, num_arrived, request_queue, preempted_requests, pc, batch>>
  BY DEF FTBatchEnd
<1>2. PICK b : b = Head(running_batches)
  OBVIOUS
<1>3. /\ b \in Seq(BatchEntry) /\ DistinctIds(b)
      /\ Ids(b) \subseteq RunningIds
      /\ \A r \in Requests \ Ids(b) : req'[r] = req[r]
      /\ req' \in [Requests -> RequestRecord]
      /\ \A r \in Ids(b) : req'[r].prefill_complete
  BY <1>2, EndFacts
<1>4. \/ /\ \A r \in Ids(b) : req'[r].completed
         /\ FreeBatch(b)
         /\ UNCHANGED preempted_batches
      \/ /\ \E r \in Ids(b) : ~req'[r].completed
         /\ preempted_batches' = Append(preempted_batches, b)
         /\ UNCHANGED <<allocation_map, num_allocated_blocks>>
  BY <1>2, EndFacts
<1>5. /\ running_batches \in Seq(Seq(BatchEntry)) /\ DisjointBatches(running_batches)
      /\ IdsIn(preempted_batches) \cap RunningIds = {}
      /\ DisjointBatches(preempted_batches)
      /\ Ids(b) \subseteq DOMAIN allocation_map
      /\ num_running_batches = Len(running_batches)
      /\ num_running_batches \in 0 .. NumStages /\ NumStages \in Nat
      /\ batch = <<>> /\ Ids(batch) = {}
  <2>1. batch = <<>>
    BY <1>0, <1>1 DEF LoopState, PipelineCount
  <2>2. Ids(batch) = {}
    BY <2>1 DEF Ids
  <2> QED BY <1>0, <1>3, <2>1, <2>2, ReplicaAssumption
          DEF ReplicaTypes, Placed, LoopState, PipelineCount, InBatches
<1>6. /\ running_batches' \in Seq(Seq(BatchEntry))
      /\ Len(running_batches) \in Nat \ {0}
      /\ Len(running_batches') = Len(running_batches) - 1
      /\ \A k \in DOMAIN running_batches' :
            \E l \in DOMAIN running_batches : running_batches'[k] = running_batches[l]
      /\ RunningIds = RunningIds' \cup Ids(b)
      /\ DisjointBatches(running_batches')
      /\ Ids(b) \cap RunningIds' = {}
  <2>1. /\ Tail(running_batches) \in Seq(Seq(BatchEntry))
        /\ Len(running_batches) \in Nat \ {0}
        /\ Len(Tail(running_batches)) = Len(running_batches) - 1
        /\ \A k \in DOMAIN Tail(running_batches) :
              \E l \in DOMAIN running_batches : Tail(running_batches)[k] = running_batches[l]
        /\ IdsIn(running_batches) = IdsIn(Tail(running_batches)) \cup Ids(b)
        /\ DisjointBatches(Tail(running_batches))
        /\ Ids(b) \cap IdsIn(Tail(running_batches)) = {}
    BY <1>1, <1>2, <1>5, PipelineTail
  <2> QED BY <1>1, <2>1 DEF RunningIds
<1>7. /\ preempted_batches' \in Seq(Seq(BatchEntry))
      /\ DisjointBatches(preempted_batches')
      /\ \A k \in DOMAIN preempted_batches' :
            \/ k \in DOMAIN preempted_batches /\ preempted_batches'[k] = preempted_batches[k]
            \/ preempted_batches'[k] = b /\ \E r \in Ids(b) : ~req'[r].completed
      /\ \/ /\ \A r \in Ids(b) : req'[r].completed
            /\ IdsIn(preempted_batches') = IdsIn(preempted_batches)
         \/ IdsIn(preempted_batches') = IdsIn(preempted_batches) \cup Ids(b)
  <2>1. CASE UNCHANGED preempted_batches /\ \A r \in Ids(b) : req'[r].completed
    BY <1>0, <1>5, <2>1
  <2>2. CASE /\ preempted_batches' = Append(preempted_batches, b)
             /\ \E r \in Ids(b) : ~req'[r].completed
    <3>1. DistinctIds(b) /\ Ids(b) \cap IdsIn(preempted_batches) = {}
      BY <1>3, <1>5
    <3>2. /\ preempted_batches' \in Seq(Seq(BatchEntry))
          /\ \A k \in DOMAIN preempted_batches' :
                \/ k \in DOMAIN preempted_batches
                   /\ preempted_batches'[k] = preempted_batches[k]
                \/ preempted_batches'[k] = b
          /\ IdsIn(preempted_batches') = IdsIn(preempted_batches) \cup Ids(b)
          /\ DisjointBatches(preempted_batches')
      BY <1>0, <1>3, <1>5, <2>2, <3>1, PipelineAppend
    <3> QED BY <2>2, <3>2
  <2> QED BY <1>4, <2>1, <2>2
<1>8. /\ DOMAIN allocation_map' \subseteq DOMAIN allocation_map
      /\ \A r \in DOMAIN allocation_map' : allocation_map'[r] = MaxBlocksPerSequence
      /\ allocation_map' \in [DOMAIN allocation_map' -> Nat]
      /\ num_allocated_blocks' = Cardinality(DOMAIN allocation_map') * MaxBlocksPerSequence
      /\ num_allocated_blocks' <= NumBlocks
      /\ num_allocated_blocks' \in Int
  <2>1. /\ num_allocated_blocks <= NumBlocks /\ num_allocated_blocks \in Int
        /\ NumBlocks \in Int
        /\ \A r \in DOMAIN allocation_map : allocation_map[r] = MaxBlocksPerSequence
        /\ allocation_map \in [DOMAIN allocation_map -> Nat]
        /\ num_allocated_blocks = Cardinality(DOMAIN allocation_map) * MaxBlocksPerSequence
    BY <1>0, ReplicaAssumption DEF TypeOK, ReplicaTypes, Placed
  <2>2. CASE FreeBatch(b)
    <3>1. /\ DOMAIN allocation_map' = DOMAIN allocation_map \ Ids(b)
          /\ \A r \in DOMAIN allocation_map' : allocation_map'[r] = MaxBlocksPerSequence
          /\ allocation_map' \in [DOMAIN allocation_map' -> Nat]
          /\ num_allocated_blocks' =
                Cardinality(DOMAIN allocation_map') * MaxBlocksPerSequence
          /\ num_allocated_blocks' <= num_allocated_blocks
          /\ num_allocated_blocks' \in Int
      BY <1>0, <1>3, <1>5, <2>2, FreeBatchFacts
    <3> QED BY <2>1, <3>1
  <2>3. CASE UNCHANGED <<allocation_map, num_allocated_blocks>>
    BY <2>1, <2>3
  <2> QED BY <1>4, <2>2, <2>3
<1>9. /\ InBatches' = InBatches \ (DOMAIN allocation_map \ DOMAIN allocation_map')
      /\ DOMAIN allocation_map \ DOMAIN allocation_map' \subseteq Ids(b)
      /\ \A r \in DOMAIN allocation_map \ DOMAIN allocation_map' : req'[r].completed
  <2>1. CASE /\ FreeBatch(b) /\ UNCHANGED preempted_batches
             /\ \A r \in Ids(b) : req'[r].completed
    <3>1. DOMAIN allocation_map' = DOMAIN allocation_map \ Ids(b)
      BY <2>1 DEF FreeBatch
    <3>2. InBatches' = InBatches \ Ids(b)
      BY <1>1, <1>3, <1>5, <1>6, <2>1 DEF InBatches
    <3>3. DOMAIN allocation_map \ DOMAIN allocation_map' = Ids(b)
      BY <1>5, <3>1
    <3> QED BY <2>1, <3>2, <3>3
  <2>2. CASE /\ preempted_batches' = Append(preempted_batches, b)
             /\ UNCHANGED <<allocation_map, num_allocated_blocks>>
             /\ \E r \in Ids(b) : ~req'[r].completed
    <3>1. IdsIn(preempted_batches') = IdsIn(preempted_batches) \cup Ids(b)
      BY <1>7, <2>2
    <3>2. InBatches' = InBatches
      BY <1>1, <1>6, <3>1 DEF InBatches
    <3> QED BY <2>2, <3>2
  <2> QED BY <1>4, <2>1, <2>2
<1>10. TypeOK'
  <2>1. schedule_events' \in Seq({"arrival", "batch_end"})
    BY <1>0, <1>1, AppendProperties DEF ReplicaTypes
  <2>2. num_running_batches' \in 0 .. NumStages
    BY <1>1, <1>5, <1>6
  <2>3. DOMAIN allocation_map' \subseteq Requests
    BY <1>0, <1>8
  <2> QED BY <1>0, <1>1, <1>3, <1>6, <1>7, <1>8, <2>1, <2>2, <2>3
          DEF TypeOK, ReplicaTypes
<1>11. LoopState'
  <2>1. PipelineCount'
    BY <1>0, <1>1, <1>5, <1>6 DEF LoopState, PipelineCount
  <2>2. Arrived' = Arrived
    BY <1>1 DEF Arrived
  <2>3. NotArrived'
    <3>1. \A r \in Requests \ Arrived : req'[r] = req[r]
      BY <1>0, <1>3, <1>5
    <3> QED BY <1>0, <1>1, <2>2, <3>1 DEF LoopState, NotArrived
  <2> QED BY <1>0, <1>1, <1>5, <1>8, <2>1, <2>2, <2>3 DEF LoopState
<1>12. Placed'
  <2>1. /\ IdsIn(preempted_batches') \cap RunningIds' = {}
        /\ Ids(batch') = {} /\ DistinctIds(batch')
    BY <1>0, <1>1, <1>5, <1>6, <1>7 DEF Placed
  <2>2. Range(request_queue') \cap DOMAIN allocation_map' = {}
    BY <1>0, <1>1, <1>8 DEF Placed
  <2>3. InBatches' \subseteq DOMAIN allocation_map'
    BY <1>0, <1>9
  <2>4. Live' = Range(request_queue') \cup {r \in InBatches' : ~req'[r].completed}
    <3>1. Live' = {r \in Arrived : ~req'[r].completed}
      BY <1>1 DEF Live, Arrived
    <3>2. /\ Live = Range(request_queue) \cup {r \in InBatches : ~req[r].completed}
          /\ Live = {r \in Arrived : ~req[r].completed}
          /\ Range(request_queue) \cap DOMAIN allocation_map = {}
      BY <1>0 DEF Placed, Live
    <3>3. Ids(b) \subseteq InBatches /\ Ids(b) \subseteq Arrived
      BY <1>0, <1>3, <1>5 DEF InBatches
    <3>4. ASSUME NEW r \in Arrived, ~req'[r].completed
          PROVE  r \in Range(request_queue') \cup {x \in InBatches' : ~req'[x].completed}
      <4>1. CASE r \in Ids(b)
        BY <1>9, <3>3, <3>4, <4>1
      <4>2. CASE r \notin Ids(b)
        <5>1. r \in Live /\ req'[r] = req[r]
          BY <1>0, <1>3, <3>2, <3>4, <4>2
        <5> QED BY <1>1, <1>9, <3>2, <3>4, <4>2, <5>1
      <4> QED BY <4>1, <4>2
    <3>5. ASSUME NEW r \in Range(request_queue')
          PROVE  r \in Arrived /\ ~req'[r].completed
      <4>1. r \in Live /\ r \notin Ids(b)
        BY <1>1, <1>5, <3>2, <3>5
      <4> QED BY <1>0, <1>3, <3>2, <4>1
    <3>6. InBatches' \subseteq Arrived
      BY <1>0, <1>9
    <3> QED BY <3>1, <3>4, <3>5, <3>6
  <2> QED BY <1>0, <1>1, <1>6, <1>7, <1>8, <2>1, <2>2, <2>3, <2>4 DEF Placed
<1>13. RoomRemains'
  <2>1. /\ Leaked' = DOMAIN allocation_map' \ InBatches'
        /\ Leaked = DOMAIN allocation_map \ InBatches
    BY <1>0, <1>10, Placement
  <2>2. Leaked' = Leaked
    BY <1>3, <1>8, <1>9, <2>1 DEF InBatches
  <2> QED BY <1>0, <2>2, SameLeak
<1>14. InPhase'
  <2>1. FirstRun(batch)'
    BY <1>1, <1>5 DEF FirstRun
  <2>2. \A r \in Requests \ Ids(b) : Fresh(r)' <=> Fresh(r)
    BY <1>3 DEF Fresh
  <2>3. (\A k \in DOMAIN running_batches :
            FirstRun(running_batches[k]) \/ LaterRun(running_batches[k]))'
    <3> SUFFICES ASSUME NEW k \in DOMAIN running_batches'
                 PROVE  (FirstRun(running_batches[k]) \/ LaterRun(running_batches[k]))'
      OBVIOUS
    <3>1. PICK l \in DOMAIN running_batches : running_batches'[k] = running_batches[l]
      BY <1>6
    <3>2. \A r \in Ids(running_batches'[k]) : r \in Requests \ Ids(b)
      <4>1. Ids(running_batches'[k]) \subseteq RunningIds'
        BY DEF RunningIds, IdsIn
      <4>2. RunningIds' \subseteq Requests
        BY <1>0, <1>6 DEF InBatches
      <4> QED BY <1>6, <4>1, <4>2
    <3>3. FirstRun(running_batches[l]) \/ LaterRun(running_batches[l])
      BY <1>0 DEF InPhase
    <3>4. CASE FirstRun(running_batches[l])
      <4>1. \A i \in DOMAIN running_batches'[k] :
                running_batches'[k][i].id \in Requests \ Ids(b)
        BY <3>2 DEF Ids
      <4> QED BY <1>3, <2>2, <3>1, <3>4, <4>1 DEF FirstRun
    <3>5. CASE LaterRun(running_batches[l])
      BY <1>3, <3>1, <3>2, <3>5 DEF LaterRun
    <3> QED BY <3>3, <3>4, <3>5
  <2>4. (\A k \in DOMAIN preempted_batches :
            /\ LaterRun(preempted_batches[k])
            /\ \E r \in Ids(preempted_batches[k]) : ~req[r].completed)'
    <3> SUFFICES ASSUME NEW k \in DOMAIN preempted_batches'
                 PROVE  (/\ LaterRun(preempted_batches[k])
                         /\ \E r \in Ids(preempted_batches[k]) : ~req[r].completed)'
      OBVIOUS
    <3>1. CASE k \in DOMAIN preempted_batches /\ preempted_batches'[k] = preempted_batches[k]
      <4>1. \A r \in Ids(preempted_batches[k]) : r \in Requests \ Ids(b)
        <5>1. Ids(preempted_batches[k]) \subseteq IdsIn(preempted_batches)
          BY <3>1 DEF IdsIn
        <5>2. IdsIn(preempted_batches) \subseteq Requests
          BY <1>0 DEF InBatches
        <5> QED BY <1>3, <1>5, <5>1, <5>2
      <4>2. /\ LaterRun(preempted_batches[k])
            /\ \E r \in Ids(preempted_batches[k]) : ~req[r].completed
        BY <1>0, <3>1 DEF InPhase
      <4> QED BY <1>3, <3>1, <4>1, <4>2 DEF LaterRun
    <3>2. CASE preempted_batches'[k] = b /\ \E r \in Ids(b) : ~req'[r].completed
      BY <1>3, <3>2 DEF LaterRun
    <3> QED BY <1>7, <3>1, <3>2
  <2>5. (\A r \in Range(request_queue) : Fresh(r))'
    <3> SUFFICES ASSUME NEW r \in Range(request_queue') PROVE Fresh(r)'
      OBVIOUS
    <3>1. r \in Live /\ r \notin DOMAIN allocation_map /\ Fresh(r)
      BY <1>0, <1>1 DEF Placed, InPhase
    <3>2. r \in Requests \ Ids(b)
      BY <1>0, <1>5, <3>1 DEF Live
    <3> QED BY <2>2, <3>1, <3>2
  <2> QED BY <2>1, <2>3, <2>4, <2>5 DEF InPhase
<1> QED BY <1>10, <1>11, <1>12, <1>13, <1>14, Placement DEF FTInv

-----------------------------------------------------------------------------
(* The theorems. *)

(* Every step keeps the invariant. *)
LEMMA Inductive == FTInv /\ [FTNext]_ftVars => FTInv'
<1> SUFFICES ASSUME FTInv, [FTNext]_ftVars PROVE FTInv'
  OBVIOUS
<1>1. CASE RunAgain
  BY <1>1, RunAgainStep
<1>2. CASE Admit
  BY <1>2, AdmitStep
<1>3. CASE AdmitDone
  BY <1>3, AdmitDoneStep
<1>4. CASE FTBatchEnd
  BY <1>4, BatchEndStep
<1>5. CASE AddRequests /\ UNCHANGED preempted_batches
  BY <1>5, ArrivalStep
<1>6. CASE OnSchedule /\ UNCHANGED preempted_batches
  BY <1>6, ScheduleStep
<1>7. CASE UNCHANGED ftVars
  <2>1. UNCHANGED <<asked, req, num_arrived, request_queue, preempted_requests,
                    allocation_map, num_allocated_blocks, num_running_batches,
                    running_batches, schedule_events, pc, batch, preempted_batches>>
    BY <1>7 DEF ftVars, vars, memory, pipeline
  <2>2. TypeOK'
    BY <2>1 DEF FTInv, TypeOK, ReplicaTypes
  <2>3. LoopState'
    BY <2>1 DEF FTInv, LoopState, PipelineCount, NotArrived, Arrived
  <2>4. Placed'
    BY <2>1, Holds DEF Placed, InBatches, RunningIds, Live, Arrived
  <2>5. RoomRemains'
    BY <2>1 DEF FTInv, RoomRemains, Leaked, Batches
  <2>6. InPhase'
    BY <2>1 DEF FTInv, InPhase, FirstRun, LaterRun, Fresh
  <2> QED BY <2>2, <2>3, <2>4, <2>5, <2>6, Placement DEF FTInv
<1> QED BY <1>1, <1>2, <1>3, <1>4, <1>5, <1>6, <1>7 DEF FTNext

(* FasterTransformer loses no request: a live one is in the queue or in one *)
(* batch, where it holds its memory; the counter of blocks follows the map  *)
(* and never exceeds the replica's.                                         *)
THEOREM FasterTransformerIsSafe == Spec => []FTInv
<1>1. FTInit => FTInv
  BY InitHolds
<1>2. FTInv /\ [FTNext]_ftVars => FTInv'
  BY Inductive
<1> QED BY <1>1, <1>2, PTL DEF Spec

(* A replica without a batch can always form one, although the memory of    *)
(* requests that ended before their batch is never given back: what leaked  *)
(* leaves room for a sequence.                                              *)
THEOREM LeakNeverBlocks ==
    Spec => [](MaxBlocksPerSequence <= NumBlocks /\ IdsIn(Batches) = {}
                => FreeBlocks >= MaxBlocksPerSequence)
<1>1. ASSUME FTInv, MaxBlocksPerSequence <= NumBlocks, IdsIn(Batches) = {}
      PROVE  FreeBlocks >= MaxBlocksPerSequence
  <2>1. /\ Placed /\ TypeOK /\ RoomRemains
        /\ Cardinality(DOMAIN allocation_map) \in Nat
    BY <1>1, Holds DEF FTInv
  <2>2. Leaked = DOMAIN allocation_map
    BY <1>1 DEF Leaked
  <2> DEFINE n == Cardinality(DOMAIN allocation_map)
  <2>3. /\ n \in Nat /\ MaxBlocksPerSequence \in Nat /\ NumBlocks \in Nat
        /\ (n + 1) * MaxBlocksPerSequence <= NumBlocks
        /\ num_allocated_blocks = n * MaxBlocksPerSequence
    BY <1>1, <2>1, <2>2, ReplicaAssumption, FasterTransformerAssumption
       DEF RoomRemains, Placed
  <2> HIDE DEF n
  <2>4. NumBlocks - num_allocated_blocks >= MaxBlocksPerSequence
    BY <2>3
  <2> QED BY <2>4 DEF FreeBlocks
<1>2. FTInv => (MaxBlocksPerSequence <= NumBlocks /\ IdsIn(Batches) = {}
                    => FreeBlocks >= MaxBlocksPerSequence)
  BY <1>1
<1> QED BY <1>2, FasterTransformerIsSafe, PTL

(* What a batch that runs again has in common with the one that waited, and *)
(* what every step does to the pipeline.                                    *)
LEMMA StaticStep ==
    ASSUME FTInv, [FTNext]_ftVars, NEW k \in DOMAIN running_batches',
           NEW b, b = running_batches'[k]
    PROVE  \/ Ids(b) \in {Ids(running_batches[j]) : j \in DOMAIN running_batches}
           \/ Ids(b) = Ids(batch) /\ \A e \in Range(b) : ~req[e.id].prefill_complete
           \/ \E j \in DOMAIN preempted_batches :
                /\ Ids(b) = {r \in Ids(preempted_batches[j]) : ~req[r].completed}
                /\ b # <<>>
                /\ \A e \in Range(b) : req[e.id].prefill_complete
<1>0. /\ running_batches \in Seq(Seq(BatchEntry)) /\ batch \in Seq(BatchEntry)
      /\ InPhase
  BY Holds DEF ReplicaTypes
<1>1. CASE RunAgain
  <2>1. PICK h, a : /\ \E j \in DOMAIN preempted_batches : h = preempted_batches[j]
                    /\ a \in Seq(BatchEntry)
                    /\ running_batches' = Append(running_batches, a)
                    /\ Ids(a) = {r \in Ids(h) : ~req[r].completed}
                    /\ Ids(a) # {}
                    /\ LaterRun(a)
    BY <1>1, RunsAgain
  <2>2. \/ k \in DOMAIN running_batches /\ running_batches'[k] = running_batches[k]
        \/ running_batches'[k] = a
    BY <1>0, <2>1, PipelineAppend
  <2>3. a # <<>> /\ \A e \in Range(a) : req[e.id].prefill_complete
    <3>1. a # <<>>
      BY <2>1 DEF Ids
    <3>2. \A e \in Range(a) : e.id \in Ids(a)
      BY DEF Range, Ids
    <3> QED BY <2>1, <3>1, <3>2 DEF LaterRun
  <2> QED BY <2>1, <2>2, <2>3
<1>2. CASE AdmitDone
  <2>1. \/ running_batches' = running_batches
        \/ running_batches' = Append(running_batches, batch)
    BY <1>2 DEF AdmitDone, ReturnBatch, pipeline
  <2>2. \/ k \in DOMAIN running_batches /\ running_batches'[k] = running_batches[k]
        \/ running_batches'[k] = batch
    BY <1>0, <2>1, PipelineAppend
  <2>3. \A e \in Range(batch) : ~req[e.id].prefill_complete
    BY <1>0 DEF InPhase, FirstRun, Fresh, Range
  <2> QED BY <2>2, <2>3
<1>3. CASE FTBatchEnd
  <2>1. running_batches # <<>> /\ running_batches' = Tail(running_batches)
    BY <1>3 DEF FTBatchEnd
  <2>2. \E l \in DOMAIN running_batches : running_batches'[k] = running_batches[l]
    BY <1>0, <2>1, PipelineTail
  <2> QED BY <2>2
<1>4. CASE \/ Admit
           \/ (AddRequests \/ OnSchedule) /\ UNCHANGED preempted_batches
           \/ UNCHANGED ftVars
  <2>1. running_batches' = running_batches
    BY <1>4 DEF Admit, AddRequests, OnSchedule, ftVars, vars, pipeline
  <2> QED BY <2>1
<1> QED BY <1>1, <1>2, <1>3, <1>4 DEF FTNext

(* Batches are static: nobody joins a batch that runs; one that was formed  *)
(* anew prefills, one that runs again decodes for just those of its         *)
(* requests that are not completed.                                         *)
THEOREM BatchesAreStatic == Spec => StaticBatches
<1>1. FTInv /\ [FTNext]_ftVars =>
        [\A k \in DOMAIN running_batches' :
            LET b == running_batches'[k]
            IN  \/ Ids(b) \in {Ids(running_batches[j]) : j \in DOMAIN running_batches}
                \/ Ids(b) = Ids(batch) /\ \A e \in Range(b) : ~req[e.id].prefill_complete
                \/ \E j \in DOMAIN preempted_batches :
                    /\ Ids(b) = {r \in Ids(preempted_batches[j]) : ~req[r].completed}
                    /\ b # <<>>
                    /\ \A e \in Range(b) : req[e.id].prefill_complete]_ftVars
  BY StaticStep
<1> QED BY <1>1, FasterTransformerIsSafe, PTL DEF Spec, StaticBatches
=============================================================================
