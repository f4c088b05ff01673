--------------------------- MODULE BlockScheduler ---------------------------
(***************************************************************************)
(* What the vLLM and the Sarathi scheduler have in common: memory is       *)
(* allocated one block at a time as a request grows, new requests leave a  *)
(* watermark of blocks free.  Sarathi's code is a copy of vLLM's.          *)
(***************************************************************************)
EXTENDS ReplicaScheduler

CONSTANT WatermarkBlocks   \* int(watermark_blocks_fraction * num_blocks)

ASSUME BlockAssumption == WatermarkBlocks \in 0 .. NumBlocks

MaxMicroBatchSize == BatchSizeCap \div NumStages

CanAllocateRequest(r) ==
    IF r \notin DOMAIN allocation_map
    THEN FreeBlocks - CeilDiv(req[r].prefill, BlockSize) >= WatermarkBlocks
    ELSE FreeBlocks >= 1

(* Seeded fault: room is made for one token more than was processed. *)
NumTokensRequiredAhead(r) ==
    LET missing == req[r].processed + 1 - allocation_map[r] * BlockSize
    IN  IF missing > 0 THEN missing ELSE 0

(* Tokens a resumed request has processed beyond its blocks. *)
NumTokensRequired(r) ==
    LET missing == req[r].processed - allocation_map[r] * BlockSize
    IN  IF missing > 0 THEN missing ELSE 0

(* Seeded fault: a resumed request gets no block. *)
AllocateNewOnly(r) ==
    IF r \notin DOMAIN allocation_map
    THEN Allocate(r, CeilDiv(req[r].prefill, BlockSize))
    ELSE UNCHANGED memory

AllocateRequest(r) ==
    IF r \notin DOMAIN allocation_map
    THEN Allocate(r, CeilDiv(req[r].prefill, BlockSize))
    ELSE IF NumTokensRequired(r) = 0
    THEN UNCHANGED memory
    ELSE Allocate(r, 1)

(* t is s sorted by arrival time; the sort of Python is stable. *)
IsStableSort(s, t) ==
    \E p \in [DOMAIN s -> DOMAIN s] :
        /\ IsInjective(p)
        /\ t = [i \in DOMAIN s |-> s[p[i]]]
        /\ \A i, j \in DOMAIN s :
            i < j => \/ ArrivedAt[t[i]] < ArrivedAt[t[j]]
                     \/ ArrivedAt[t[i]] = ArrivedAt[t[j]] /\ p[i] < p[j]

=============================================================================
