--------------------------- MODULE ReplicaLemmas ---------------------------
(***************************************************************************)
(* What the proofs of the schedulers share: facts about queues and sums,   *)
(* and about the operators of ReplicaScheduler: batches and the pipeline,  *)
(* the counters of a request, the memory of a replica, the places of its   *)
(* requests, and the service that a scheduler implements.                  *)
(***************************************************************************)
EXTENDS ServiceRefinement, SequenceTheorems, FiniteSetTheorems, WellFoundedInduction, TLAPS

-----------------------------------------------------------------------------
(* Sequences used as queues. *)

(* Appending adds one element and keeps a duplicate-free queue so when the  *)
(* element is new.                                                          *)
LEMMA AppendRange ==
    ASSUME NEW S, NEW s \in Seq(S), NEW e \in S
    PROVE  /\ Range(Append(s, e)) = Range(s) \cup {e}
           /\ IsInjective(s) /\ e \notin Range(s) => IsInjective(Append(s, e))
<1> DEFINE t == Append(s, e)
<1>1. /\ Len(t) = Len(s) + 1 /\ Len(s) \in Nat /\ t \in Seq(S)
      /\ DOMAIN s = 1 .. Len(s) /\ DOMAIN t = 1 .. Len(s) + 1
  BY AppendProperties, LenProperties
<1>2. /\ \A i \in 1 .. Len(s) : t[i] = s[i]
      /\ t[Len(s) + 1] = e
  BY AppendProperties
<1>3. Range(t) = Range(s) \cup {e}
  <2>1. ASSUME NEW x \in Range(t) PROVE x \in Range(s) \cup {e}
    BY <1>1, <1>2 DEF Range
  <2>2. ASSUME NEW x \in Range(s) PROVE x \in Range(t)
    <3>1. PICK i \in 1 .. Len(s) : x = s[i]
      BY <1>1 DEF Range
    <3>2. i \in DOMAIN t /\ t[i] = x
      BY <1>1, <1>2, <3>1
    <3> QED BY <3>2 DEF Range
  <2>3. e \in Range(t)
    <3>1. Len(s) + 1 \in DOMAIN t
      BY <1>1
    <3> QED BY <1>2, <3>1 DEF Range
  <2> QED BY <2>1, <2>2, <2>3
<1>4. ASSUME IsInjective(s), e \notin Range(s) PROVE IsInjective(t)
  <2> SUFFICES ASSUME NEW a \in DOMAIN t, NEW b \in DOMAIN t, t[a] = t[b]
               PROVE  a = b
    BY DEF IsInjective
  <2>1. \A i \in 1 .. Len(s) : s[i] # e
    BY <1>1, <1>4 DEF Range
  <2>2. CASE a \in 1 .. Len(s) /\ b \in 1 .. Len(s)
    BY <1>1, <1>2, <1>4, <2>2 DEF IsInjective
  <2>3. CASE a = Len(s) + 1 \/ b = Len(s) + 1
    <3>1. CASE a \in 1 .. Len(s)
      BY <1>1, <1>2, <2>1, <2>3, <3>1
    <3>2. CASE b \in 1 .. Len(s)
      BY <1>1, <1>2, <2>1, <2>3, <3>2
    <3>3. CASE a = Len(s) + 1 /\ b = Len(s) + 1
      BY <3>3
    <3> QED BY <1>1, <3>1, <3>2, <3>3
  <2> QED BY <1>1, <2>2, <2>3
<1> QED BY <1>3, <1>4

(* Taking the head of a duplicate-free queue removes just that element.     *)
LEMMA TailRange ==
    ASSUME NEW S, NEW s \in Seq(S), s # <<>>
    PROVE  /\ Head(s) \in Range(s)
           /\ Tail(s) \in Seq(S)
           /\ Range(Tail(s)) \subseteq Range(s)
           /\ Range(s) = Range(Tail(s)) \cup {Head(s)}
           /\ IsInjective(s) => /\ IsInjective(Tail(s))
                                /\ Head(s) \notin Range(Tail(s))
<1> DEFINE t == Tail(s)
<1>1. /\ Len(s) \in Nat \ {0} /\ t \in Seq(S) /\ Len(t) = Len(s) - 1
      /\ DOMAIN s = 1 .. Len(s) /\ DOMAIN t = 1 .. Len(s) - 1
  BY EmptySeq, HeadTailProperties, LenProperties
<1>2. /\ \A i \in 1 .. Len(s) - 1 : t[i] = s[i + 1]
      /\ Head(s) = s[1]
  BY <1>1, HeadTailProperties
<1>3. Head(s) \in Range(s)
  BY <1>1, <1>2 DEF Range
<1>4. ASSUME NEW x \in Range(t) PROVE x \in Range(s)
  <2>1. PICK i \in 1 .. Len(s) - 1 : x = t[i]
    BY <1>1 DEF Range
  <2>2. i + 1 \in DOMAIN s /\ s[i + 1] = x
    BY <1>1, <1>2, <2>1
  <2> QED BY <2>2 DEF Range
<1>5. ASSUME NEW x \in Range(s), x # Head(s) PROVE x \in Range(t)
  <2>1. PICK i \in 1 .. Len(s) : x = s[i]
    BY <1>1 DEF Range
  <2>2. i # 1
    BY <1>2, <1>5, <2>1
  <2>3. i - 1 \in 1 .. Len(s) - 1 /\ t[i - 1] = s[(i - 1) + 1]
    BY <1>1, <1>2, <2>1, <2>2
  <2>4. i - 1 \in DOMAIN t /\ t[i - 1] = x
    BY <1>1, <2>1, <2>3
  <2> QED BY <2>4 DEF Range
<1>6. ASSUME IsInjective(s) PROVE IsInjective(t) /\ Head(s) \notin Range(t)
  <2>1. ASSUME NEW a \in DOMAIN t, NEW b \in DOMAIN t, t[a] = t[b] PROVE a = b
    <3>1. a + 1 \in DOMAIN s /\ b + 1 \in DOMAIN s /\ s[a + 1] = s[b + 1]
      BY <1>1, <1>2, <2>1
    <3>2. a + 1 = b + 1
      BY <1>6, <3>1 DEF IsInjective
    <3> QED BY <1>1, <3>2
  <2>2. ASSUME Head(s) \in Range(t) PROVE FALSE
    <3>1. PICK i \in 1 .. Len(s) - 1 : Head(s) = t[i]
      BY <1>1, <2>2 DEF Range
    <3>2. i + 1 \in DOMAIN s /\ 1 \in DOMAIN s /\ s[i + 1] = s[1]
      BY <1>1, <1>2, <3>1
    <3>3. i + 1 = 1
      BY <1>6, <3>2 DEF IsInjective
    <3> QED BY <3>3
  <2> QED BY <2>1, <2>2 DEF IsInjective
<1> QED BY <1>1, <1>3, <1>4, <1>5, <1>6

(* So does taking the last one.                                             *)
LEMMA FrontRange ==
    ASSUME NEW S, NEW s \in Seq(S), s # <<>>
    PROVE  /\ Last(s) \in Range(s)
           /\ Front(s) \in Seq(S) /\ Len(Front(s)) = Len(s) - 1
           /\ Range(Front(s)) \subseteq Range(s)
           /\ Range(s) = Range(Front(s)) \cup {Last(s)}
           /\ IsInjective(s) => /\ IsInjective(Front(s))
                                /\ Last(s) \notin Range(Front(s))
<1> DEFINE t == Front(s)
<1>1. Len(s) \in Nat \ {0} /\ DOMAIN s = 1 .. Len(s) /\ s \in [1 .. Len(s) -> S]
  BY EmptySeq, LenProperties
<1>2. \A i \in 1 .. Len(s) - 1 : s[i] \in S
  BY <1>1
<1>3. /\ t \in Seq(S) /\ Len(t) = Len(s) - 1
      /\ \A i \in 1 .. Len(s) - 1 : t[i] = s[i]
  BY <1>1, <1>2, SubSeqProperties DEF Front
<1>4. DOMAIN t = 1 .. Len(s) - 1 /\ Last(s) = s[Len(s)]
  BY <1>3, LenProperties DEF Last
<1>5. Last(s) \in Range(s)
  BY <1>1, <1>4 DEF Range
<1>6. ASSUME NEW x \in Range(t) PROVE x \in Range(s)
  <2>1. PICK i \in 1 .. Len(s) - 1 : x = t[i]
    BY <1>4 DEF Range
  <2>2. i \in DOMAIN s /\ s[i] = x
    BY <1>1, <1>3, <2>1
  <2> QED BY <2>2 DEF Range
<1>7. ASSUME NEW x \in Range(s), x # Last(s) PROVE x \in Range(t)
  <2>1. PICK i \in 1 .. Len(s) : x = s[i]
    BY <1>1 DEF Range
  <2>2. i # Len(s)
    BY <1>4, <1>7, <2>1
  <2>3. i \in 1 .. Len(s) - 1
    <3>1. Len(s) \in Nat
      BY <1>1
    <3> QED BY <2>2, <3>1
  <2>4. i \in DOMAIN t /\ t[i] = x
    BY <1>3, <1>4, <2>1, <2>3
  <2> QED BY <2>4 DEF Range
<1>8. ASSUME IsInjective(s) PROVE IsInjective(t) /\ Last(s) \notin Range(t)
  <2>1. ASSUME NEW a \in DOMAIN t, NEW b \in DOMAIN t, t[a] = t[b] PROVE a = b
    <3>1. a \in DOMAIN s /\ b \in DOMAIN s /\ s[a] = s[b]
      BY <1>1, <1>3, <1>4, <2>1
    <3> QED BY <1>8, <3>1 DEF IsInjective
  <2>2. ASSUME Last(s) \in Range(t) PROVE FALSE
    <3>1. PICK i \in 1 .. Len(s) - 1 : Last(s) = t[i]
      BY <1>4, <2>2 DEF Range
    <3>2. i \in DOMAIN s /\ Len(s) \in DOMAIN s /\ s[i] = s[Len(s)]
      BY <1>1, <1>3, <1>4, <3>1
    <3>3. i = Len(s)
      BY <1>8, <3>2 DEF IsInjective
    <3> QED BY <1>1, <3>3
  <2> QED BY <2>1, <2>2 DEF IsInjective
<1> QED BY <1>3, <1>5, <1>6, <1>7, <1>8

(* Queues without a common element can be joined. *)
LEMMA ConcatRange ==
    ASSUME NEW S, NEW s \in Seq(S), NEW t \in Seq(S)
    PROVE  /\ s \o t \in Seq(S)
           /\ Range(s \o t) = Range(s) \cup Range(t)
           /\ IsInjective(s) /\ IsInjective(t) /\ Range(s) \cap Range(t) = {}
                => IsInjective(s \o t)
<1> DEFINE u == s \o t
<1>1. /\ Len(s) \in Nat /\ Len(t) \in Nat /\ u \in Seq(S) /\ Len(u) = Len(s) + Len(t)
      /\ DOMAIN s = 1 .. Len(s) /\ DOMAIN t = 1 .. Len(t)
      /\ DOMAIN u = 1 .. Len(s) + Len(t)
  BY ConcatProperties, LenProperties
<1>2. \A i \in 1 .. Len(s) + Len(t) :
        u[i] = IF i <= Len(s) THEN s[i] ELSE t[i - Len(s)]
  BY ConcatProperties
<1>3. ASSUME IsInjective(s), IsInjective(t), Range(s) \cap Range(t) = {}
      PROVE  IsInjective(u)
  <2> SUFFICES ASSUME NEW a \in DOMAIN u, NEW b \in DOMAIN u, u[a] = u[b]
               PROVE  a = b
    BY DEF IsInjective
  <2>1. \A i \in DOMAIN s, j \in DOMAIN t : s[i] # t[j]
    BY <1>3 DEF Range
  <2>2. CASE a <= Len(s) /\ b <= Len(s)
    <3>1. a \in DOMAIN s /\ b \in DOMAIN s /\ s[a] = s[b]
      BY <1>1, <1>2, <2>2
    <3> QED BY <1>3, <3>1 DEF IsInjective
  <2>3. CASE a > Len(s) /\ b > Len(s)
    <3>1. /\ a - Len(s) \in DOMAIN t /\ b - Len(s) \in DOMAIN t
          /\ t[a - Len(s)] = t[b - Len(s)]
      BY <1>1, <1>2, <2>3
    <3>2. a - Len(s) = b - Len(s)
      BY <1>3, <3>1 DEF IsInjective
    <3> QED BY <1>1, <3>2
  <2>4. CASE a <= Len(s) /\ b > Len(s)
    <3>1. a \in DOMAIN s /\ b - Len(s) \in DOMAIN t /\ s[a] = t[b - Len(s)]
      BY <1>1, <1>2, <2>4
    <3> QED BY <2>1, <3>1
  <2>5. CASE a > Len(s) /\ b <= Len(s)
    <3>1. b \in DOMAIN s /\ a - Len(s) \in DOMAIN t /\ s[b] = t[a - Len(s)]
      BY <1>1, <1>2, <2>5
    <3> QED BY <2>1, <3>1
  <2> QED BY <1>1, <2>2, <2>3, <2>4, <2>5
<1> QED BY <1>1, <1>3, RangeConcatenation

(* What is joined to a queue without a duplicate has none in common with it. *)
LEMMA ConcatParts ==
    ASSUME NEW S, NEW s \in Seq(S), NEW t \in Seq(S), IsInjective(s \o t)
    PROVE  IsInjective(s) /\ IsInjective(t) /\ Range(s) \cap Range(t) = {}
<1> DEFINE u == s \o t
<1>1. /\ Len(s) \in Nat /\ Len(t) \in Nat
      /\ DOMAIN s = 1 .. Len(s) /\ DOMAIN t = 1 .. Len(t)
      /\ DOMAIN u = 1 .. Len(s) + Len(t)
  BY ConcatProperties, LenProperties
<1>2. /\ \A i \in DOMAIN s : i \in DOMAIN u /\ u[i] = s[i]
      /\ \A i \in DOMAIN t : Len(s) + i \in DOMAIN u /\ u[Len(s) + i] = t[i]
  BY <1>1, ConcatProperties
<1> HIDE DEF u
<1>3. IsInjective(u)
  BY DEF u
<1>4. IsInjective(s)
  BY <1>2, <1>3 DEF IsInjective
<1>5. ASSUME NEW i \in DOMAIN t, NEW j \in DOMAIN t, t[i] = t[j] PROVE i = j
  <2>1. Len(s) + i = Len(s) + j
    BY <1>2, <1>3, <1>5 DEF IsInjective
  <2> QED BY <1>1, <2>1
<1>6. ASSUME NEW i \in DOMAIN s, NEW j \in DOMAIN t PROVE s[i] # t[j]
  <2>1. i # Len(s) + j
    BY <1>1
  <2> QED BY <1>2, <1>3, <2>1 DEF IsInjective
<1> QED BY <1>4, <1>5, <1>6 DEF IsInjective, Range

(* Three queues joined into one. *)
LEMMA ThreeQueues ==
    ASSUME NEW S, NEW a \in Seq(S), NEW b \in Seq(S), NEW c \in Seq(S)
    PROVE  /\ a \o b \o c \in Seq(S)
           /\ Range(a \o b \o c) = Range(a) \cup Range(b) \cup Range(c)
           /\ IsInjective(a \o b \o c) <=>
                /\ IsInjective(a) /\ IsInjective(b) /\ IsInjective(c)
                /\ Range(a) \cap Range(b) = {} /\ Range(a) \cap Range(c) = {}
                /\ Range(b) \cap Range(c) = {}
<1>1. /\ a \o b \in Seq(S)
      /\ Range(a \o b) = Range(a) \cup Range(b)
      /\ IsInjective(a \o b) <=>
            IsInjective(a) /\ IsInjective(b) /\ Range(a) \cap Range(b) = {}
  BY ConcatRange, ConcatParts
<1> DEFINE d == a \o b
<1>2. d \in Seq(S)
  BY <1>1
<1> HIDE DEF d
<1>3. /\ d \o c \in Seq(S)
      /\ Range(d \o c) = Range(d) \cup Range(c)
      /\ IsInjective(d \o c) <=>
            IsInjective(d) /\ IsInjective(c) /\ Range(d) \cap Range(c) = {}
  BY <1>2, ConcatRange, ConcatParts
<1>4. d \o c = a \o b \o c
  BY DEF d
<1>5. Range(d) = Range(a) \cup Range(b)
  BY <1>1 DEF d
<1>6. IsInjective(d) <=> IsInjective(a) /\ IsInjective(b) /\ Range(a) \cap Range(b) = {}
  BY <1>1 DEF d
<1> QED BY <1>3, <1>4, <1>5, <1>6

(* Putting an element in front of a queue. *)
LEMMA PrependRange ==
    ASSUME NEW S, NEW s \in Seq(S), NEW e \in S
    PROVE  /\ <<e>> \o s \in Seq(S)
           /\ Range(<<e>> \o s) = Range(s) \cup {e}
           /\ IsInjective(s) /\ e \notin Range(s) => IsInjective(<<e>> \o s)
<1>1. <<e>> \in Seq(S) /\ DOMAIN <<e>> = {1} /\ <<e>>[1] = e
  OBVIOUS
<1>2. Range(<<e>>) = {e} /\ IsInjective(<<e>>)
  BY <1>1 DEF Range, IsInjective
<1>3. e \notin Range(s) => Range(<<e>>) \cap Range(s) = {}
  BY <1>2
<1>4. /\ <<e>> \o s \in Seq(S)
      /\ Range(<<e>> \o s) = Range(<<e>>) \cup Range(s)
      /\ IsInjective(<<e>>) /\ IsInjective(s) /\ Range(<<e>>) \cap Range(s) = {}
            => IsInjective(<<e>> \o s)
  BY <1>1, ConcatRange, Zenon
<1> QED BY <1>2, <1>3, <1>4, Zenon

(* A permutation of a queue holds the same elements, each as often. *)
LEMMA PermutationRange ==
    ASSUME NEW S, NEW s \in Seq(S),
           NEW p \in [DOMAIN s -> DOMAIN s], IsInjective(p)
    PROVE  /\ [i \in DOMAIN s |-> s[p[i]]] \in Seq(S)
           /\ Range([i \in DOMAIN s |-> s[p[i]]]) = Range(s)
           /\ IsInjective(s) => IsInjective([i \in DOMAIN s |-> s[p[i]]])
<1> DEFINE D == DOMAIN s
           t == [i \in D |-> s[p[i]]]
<1>1. Len(s) \in Nat /\ D = 1 .. Len(s) /\ s \in [D -> S]
  BY LenProperties
<1>2. t \in Seq(S)
  <2>1. t \in [1 .. Len(s) -> S]
    BY <1>1
  <2> QED BY <1>1, <2>1, SeqDef
<1>3. ASSUME NEW j \in D PROVE \E i \in D : p[i] = j
  <2>1. IsFiniteSet(D)
    BY <1>1, FS_Interval
  <2>2. p \in Injection(D, D)
    BY DEF Injection, IsInjective
  <2>3. p \in Surjection(D, D)
    BY <2>1, <2>2, FS_Injection
  <2> QED BY <2>3 DEF Surjection
<1>4. Range(t) = Range(s)
  BY <1>3 DEF Range
<1>5. IsInjective(s) => IsInjective(t)
  BY DEF IsInjective
<1> QED BY <1>2, <1>4, <1>5

-----------------------------------------------------------------------------
(* Sums over finite sets. *)

(* Induction over the natural numbers, for a set. *)
LEMMA SetInduction ==
    ASSUME NEW T, 0 \in T, \A n \in Nat : n \in T => n + 1 \in T
    PROVE  Nat \subseteq T
<1> SUFFICES ASSUME Nat \ T # {} PROVE FALSE
  OBVIOUS
<1>1. PICK m \in Nat \ T : \A y \in Nat \ T : ~(<<y, m>> \in OpToRel(<, Nat))
  BY NatLessThanWellFounded, WFMin, Zenon
<1>2. \A y \in Nat : y < m => y \in T
  <2>1. \A y \in Nat : y < m => <<y, m>> \in OpToRel(<, Nat)
    BY DEF OpToRel
  <2>2. \A y \in Nat \ T : ~(<<y, m>> \in OpToRel(<, Nat))
    BY <1>1, Zenon
  <2> QED BY <2>1, <2>2, Zenon
<1>3. m \in Nat /\ m \notin T
  OBVIOUS
<1> QED BY <1>2, <1>3

(* The subsets of a finite set, and what remains of them without an element. *)
LEMMA SubsetSizes ==
    ASSUME NEW S, IsFiniteSet(S), NEW s \in SUBSET S
    PROVE  /\ IsFiniteSet(s) /\ Cardinality(s) \in Nat /\ Cardinality(s) <= Cardinality(S)
           /\ Cardinality(s) <= 0 => s = {}
           /\ \A x \in s : /\ s \ {x} \in SUBSET S
                           /\ Cardinality(s \ {x}) = Cardinality(s) - 1
<1>1. IsFiniteSet(s) /\ Cardinality(s) \in Nat /\ Cardinality(s) <= Cardinality(S)
  BY FS_Subset, FS_CardinalityType
<1>2. Cardinality(s) <= 0 => s = {}
  <2> DEFINE n == Cardinality(s)
  <2>1. n \in Nat
    BY <1>1
  <2>2. n = 0 => s = {}
    BY <1>1, FS_EmptySet
  <2> HIDE DEF n
  <2> SUFFICES n <= 0 => s = {}
    BY DEF n
  <2> QED BY <2>1, <2>2
<1>3. \A x \in s : Cardinality(s \ {x}) = Cardinality(s) - 1
  BY <1>1, FS_RemoveElement, Zenon
<1> QED BY <1>1, <1>2, <1>3

(* g is the function by which SumFunctionOnSet sums f over the subsets of S. *)
Summed(f, S, g) ==
    g = [s \in SUBSET S |-> IF s = {} THEN 0
                            ELSE f[CHOOSE x \in s : TRUE] + g[s \ {CHOOSE x \in s : TRUE}]]

(* The sum is the value of that function, when there is one. *)
LEMMA SumDef ==
    ASSUME NEW f, NEW S, \E g : Summed(f, S, g)
    PROVE  \E g : Summed(f, S, g) /\ SumFunctionOnSet(f, S) = g[S]
<1> DEFINE c == CHOOSE g : Summed(f, S, g)
<1>1. Summed(f, S, c)
  BY Zenon
<1>2. SumFunctionOnSet(f, S) = c[S]
  BY DEF SumFunctionOnSet, FoldFunctionOnSet, MapThenFoldSet, Summed
<1> QED BY <1>1, <1>2, Zenon

(* A sum can be taken element by element. *)
LEMMA SumExists ==
    ASSUME NEW f, NEW S, IsFiniteSet(S)
    PROVE  \E g : Summed(f, S, g)
<1> DEFINE pick(s) == CHOOSE x \in s : TRUE
           Step(g, s) == IF s = {} THEN 0 ELSE f[pick(s)] + g[s \ {pick(s)}]
           UpTo(n) == \E g : \A s \in SUBSET S : Cardinality(s) <= n => g[s] = Step(g, s)
           T == {n \in Nat : UpTo(n)}
<1>0. \A s \in SUBSET S : s # {} => /\ pick(s) \in s
                                     /\ s \ {pick(s)} \in SUBSET S
                                     /\ Cardinality(s \ {pick(s)}) = Cardinality(s) - 1
  <2> TAKE s \in SUBSET S
  <2>1. s # {} => pick(s) \in s
    OBVIOUS
  <2> HIDE DEF pick
  <2> QED BY <2>1, SubsetSizes
<1> HIDE DEF pick
<1>1. 0 \in T
  <2>1. \A s \in SUBSET S : Cardinality(s) <= 0 => s = {}
    BY SubsetSizes
  <2> DEFINE g == [s \in SUBSET S |-> 0]
  <2>2. \A s \in SUBSET S : Cardinality(s) <= 0 => g[s] = Step(g, s)
    BY <2>1
  <2>3. UpTo(0)
    BY <2>2
  <2> QED BY <2>3
<1>2. ASSUME NEW n \in Nat, n \in T PROVE n + 1 \in T
  <2>1. PICK g : \A s \in SUBSET S : Cardinality(s) <= n => g[s] = Step(g, s)
    BY <1>2
  <2> DEFINE h == [s \in SUBSET S |-> IF Cardinality(s) <= n THEN g[s] ELSE Step(g, s)]
  <2>2. ASSUME NEW s \in SUBSET S, Cardinality(s) <= n + 1 PROVE h[s] = Step(h, s)
    <3>1. h[s] = Step(g, s)
      BY <2>1
    <3>2. CASE s = {}
      BY <3>1, <3>2
    <3>3. CASE s # {}
      <4>1. /\ s \ {pick(s)} \in SUBSET S
            /\ Cardinality(s \ {pick(s)}) <= n
        BY <1>0, <2>2, <3>3, SubsetSizes
      <4>2. h[s \ {pick(s)}] = g[s \ {pick(s)}]
        BY <4>1
      <4> QED BY <3>1, <3>3, <4>2
    <3> QED BY <3>2, <3>3
  <2> HIDE DEF h
  <2>3. UpTo(n + 1)
    BY <2>2
  <2> QED BY <2>3
<1>3. Cardinality(S) \in T
  <2> HIDE DEF T
  <2>1. Nat \subseteq T
    BY <1>1, <1>2, SetInduction
  <2> QED BY <2>1, FS_CardinalityType
<1>4. PICK g : \A s \in SUBSET S : Cardinality(s) <= Cardinality(S) => g[s] = Step(g, s)
  BY <1>3
<1>5. \A s \in SUBSET S : g[s] = Step(g, s)
  <2>1. \A s \in SUBSET S : Cardinality(s) <= Cardinality(S)
    BY SubsetSizes
  <2> QED BY <1>4, <2>1
<1> DEFINE h == [s \in SUBSET S |-> g[s]]
<1>6. h = [s \in SUBSET S |-> Step(h, s)]
  <2>1. \A s \in SUBSET S : h[s] = Step(h, s)
    BY <1>0, <1>5
  <2> QED BY <2>1
<1>7. Summed(f, S, h)
  BY <1>6 DEF Summed, pick
<1> QED BY <1>7

(* Sums over a set and over a part of it agree on the subsets of the part.  *)
LEMMA SumAgrees ==
    ASSUME NEW f, NEW S, IsFiniteSet(S), NEW P \in SUBSET S,
           NEW g, Summed(f, S, g), NEW h, Summed(f, P, h)
    PROVE  g[P] = h[P]
<1> DEFINE pick(s) == CHOOSE x \in s : TRUE
           T == {n \in Nat : \A s \in SUBSET P : Cardinality(s) <= n => g[s] = h[s]}
<1>0. IsFiniteSet(P)
  BY FS_Subset
<1>1. \A s \in SUBSET P : s # {} => /\ pick(s) \in s
                                     /\ s \ {pick(s)} \in SUBSET P
                                     /\ Cardinality(s \ {pick(s)}) = Cardinality(s) - 1
  <2> TAKE s \in SUBSET P
  <2>1. s # {} => pick(s) \in s
    OBVIOUS
  <2> HIDE DEF pick
  <2> QED BY <1>0, <2>1, SubsetSizes
<1>2. /\ \A s \in SUBSET P : g[s] = IF s = {} THEN 0 ELSE f[pick(s)] + g[s \ {pick(s)}]
      /\ \A s \in SUBSET P : h[s] = IF s = {} THEN 0 ELSE f[pick(s)] + h[s \ {pick(s)}]
  BY DEF Summed
<1> HIDE DEF pick
<1>3. 0 \in T
  <2>1. \A s \in SUBSET P : Cardinality(s) <= 0 => s = {}
    BY <1>0, SubsetSizes
  <2> QED BY <1>2, <2>1
<1>4. ASSUME NEW n \in Nat, n \in T PROVE n + 1 \in T
  <2>1. ASSUME NEW s \in SUBSET P, Cardinality(s) <= n + 1 PROVE g[s] = h[s]
    <3>1. CASE s = {}
      BY <1>2, <3>1
    <3>2. CASE s # {}
      <4>1. s \ {pick(s)} \in SUBSET P /\ Cardinality(s \ {pick(s)}) <= n
        BY <1>0, <1>1, <2>1, <3>2, SubsetSizes
      <4>2. g[s \ {pick(s)}] = h[s \ {pick(s)}]
        BY <1>4, <4>1
      <4> QED BY <1>2, <3>2, <4>2
    <3> QED BY <3>1, <3>2
  <2> QED BY <2>1
<1>5. Cardinality(P) \in T
  <2> HIDE DEF T
  <2>1. Nat \subseteq T
    BY <1>3, <1>4, SetInduction
  <2> QED BY <1>0, <2>1, FS_CardinalityType
<1>6. P \in SUBSET P /\ Cardinality(P) <= Cardinality(P)
  BY <1>0, SubsetSizes
<1> QED BY <1>5, <1>6

(* The sum of a function over a finite set. *)
LEMMA SumFacts ==
    ASSUME NEW f, NEW S, IsFiniteSet(S), NEW N \in {Nat, Int}, \A x \in S : f[x] \in N
    PROVE  /\ SumFunctionOnSet(f, {}) = 0
           /\ SumFunctionOnSet(f, S) \in N
           /\ \A x \in S : SumFunctionOnSet(f, S) = f[x] + SumFunctionOnSet(f, S \ {x})
<1> DEFINE pick(s) == CHOOSE x \in s : TRUE
           sum(s) == SumFunctionOnSet(f, s)
           OK(s) == sum(s) \in N /\ \A x \in s : sum(s) = f[x] + sum(s \ {x})
           T == {n \in Nat : \A s \in SUBSET S : Cardinality(s) <= n => OK(s)}
<1>1. \A s \in SUBSET S : /\ IsFiniteSet(s) /\ Cardinality(s) \in Nat
                          /\ s # {} => pick(s) \in s
  BY SubsetSizes
<1>2. ASSUME NEW s \in SUBSET S
      PROVE  sum(s) = IF s = {} THEN 0 ELSE f[pick(s)] + sum(s \ {pick(s)})
  <2>1. PICK g : Summed(f, s, g) /\ sum(s) = g[s]
    BY <1>1, SumExists, SumDef
  <2>2. g[s] = IF s = {} THEN 0 ELSE f[pick(s)] + g[s \ {pick(s)}]
    BY <2>1 DEF Summed
  <2> DEFINE rest == s \ {pick(s)}
  <2>3. g[rest] = sum(rest)
    <3>1. rest \in SUBSET s /\ IsFiniteSet(s) /\ IsFiniteSet(rest)
      BY <1>1, FS_Subset
    <3> HIDE DEF rest
    <3>2. PICK h : Summed(f, rest, h) /\ sum(rest) = h[rest]
      BY <3>1, SumExists, SumDef
    <3> QED BY <2>1, <3>1, <3>2, SumAgrees
  <2> QED BY <2>1, <2>2, <2>3
<1> HIDE DEF pick, sum
<1>3. sum({}) = 0
  BY <1>2
<1>4. 0 \in T
  <2>1. \A s \in SUBSET S : Cardinality(s) <= 0 => s = {}
    BY SubsetSizes
  <2>2. OK({})
    BY <1>3
  <2> HIDE DEF OK
  <2> QED BY <2>1, <2>2
<1>5. ASSUME NEW n \in Nat, n \in T PROVE n + 1 \in T
  <2>1. ASSUME NEW s \in SUBSET S, Cardinality(s) <= n + 1, s # {} PROVE OK(s)
    <3>1. PICK c \in s : c = pick(s)
      BY <1>1, <2>1
    <3>2. sum(s) = f[c] + sum(s \ {c})
      BY <1>2, <2>1, <3>1
    <3>3. \A x \in s : s \ {x} \in SUBSET S /\ Cardinality(s \ {x}) <= n
      BY <2>1, SubsetSizes
    <3>4. \A x \in s : OK(s \ {x})
      BY <1>5, <3>3
    <3>5. \A x \in s : f[x] \in N /\ sum(s \ {x}) \in N
      BY <3>4
    <3>6. sum(s) \in N
      BY <3>2, <3>5
    <3>7. ASSUME NEW x \in s, x # c PROVE sum(s) = f[x] + sum(s \ {x})
      <4>1. x \in s \ {c} /\ c \in s \ {x} /\ (s \ {c}) \ {x} = (s \ {x}) \ {c}
        BY <3>7
      <4>2. /\ sum(s \ {c}) = f[x] + sum((s \ {c}) \ {x})
            /\ sum(s \ {x}) = f[c] + sum((s \ {c}) \ {x})
        BY <3>4, <4>1
      <4>3. sum((s \ {c}) \ {x}) \in N
        <5>1. PICK u \in SUBSET S : u = (s \ {c}) \ {x}
          BY <4>1
        <5>2. Cardinality(u) <= Cardinality(s \ {c}) /\ Cardinality(u) \in Nat
              /\ Cardinality(s \ {c}) \in Nat /\ Cardinality(s \ {c}) <= n
          <6>1. s \ {c} \in SUBSET S /\ IsFiniteSet(s \ {c}) /\ u \in SUBSET (s \ {c})
            BY <3>3, <5>1, SubsetSizes
          <6> QED BY <3>3, <6>1, SubsetSizes
        <5>3. OK(u)
          BY <1>5, <5>2
        <5> QED BY <5>1, <5>3
      <4> HIDE DEF OK, T
      <4> QED BY <3>2, <3>5, <4>2, <4>3
    <3> QED BY <3>2, <3>6, <3>7
  <2>2. ASSUME NEW s \in SUBSET S, s = {} PROVE OK(s)
    BY <1>3, <2>2
  <2> HIDE DEF OK
  <2> QED BY <2>1, <2>2
<1>6. Cardinality(S) \in T
  <2> HIDE DEF T
  <2>1. Nat \subseteq T
    BY <1>4, <1>5, SetInduction
  <2> QED BY <2>1, FS_CardinalityType
<1>7. OK(S)
  <2>1. S \in SUBSET S /\ Cardinality(S) <= Cardinality(S)
    BY SubsetSizes
  <2> QED BY <1>6, <2>1
<1> QED BY <1>3, <1>7 DEF sum

(* Induction over the subsets of a finite set, one element at a time. *)
LEMMA SubsetInduction ==
    ASSUME NEW S, IsFiniteSet(S), NEW T, {} \in T,
           \A s \in SUBSET S : \A x \in s : s \ {x} \in T => s \in T
    PROVE  SUBSET S \subseteq T
<1> DEFINE U == {n \in Nat : \A s \in SUBSET S : Cardinality(s) <= n => s \in T}
<1>1. 0 \in U
  BY SubsetSizes
<1>2. ASSUME NEW n \in Nat, n \in U PROVE n + 1 \in U
  <2>1. ASSUME NEW s \in SUBSET S, Cardinality(s) <= n + 1, s # {} PROVE s \in T
    <3>1. PICK x \in s : TRUE
      BY <2>1
    <3>2. s \ {x} \in SUBSET S /\ Cardinality(s \ {x}) <= n
      <4>1. /\ s \ {x} \in SUBSET S /\ Cardinality(s \ {x}) = Cardinality(s) - 1
            /\ Cardinality(s) \in Nat
        BY SubsetSizes
      <4> QED BY <2>1, <4>1
    <3>3. s \ {x} \in T
      BY <1>2, <3>2
    <3> QED BY <3>3
  <2>2. \A s \in SUBSET S : Cardinality(s) <= n + 1 => s \in T
    BY <2>1
  <2> QED BY <2>2
<1> HIDE DEF U
<1>3. Nat \subseteq U
  BY <1>1, <1>2, SetInduction
<1> SUFFICES ASSUME NEW s \in SUBSET S PROVE s \in T
  OBVIOUS
<1>4. Cardinality(s) \in U /\ Cardinality(s) <= Cardinality(s)
  BY <1>3, SubsetSizes
<1> QED BY <1>4 DEF U

(* A sum of no larger terms over no more elements is no larger. *)
LEMMA SumMonotone ==
    ASSUME NEW S, IsFiniteSet(S), NEW R \in SUBSET S, NEW f, NEW g,
           \A x \in S : g[x] \in Nat,
           \A x \in R : f[x] \in Int /\ f[x] <= g[x]
    PROVE  SumFunctionOnSet(f, R) <= SumFunctionOnSet(g, S)
<1> DEFINE F(s) == SumFunctionOnSet(f, s)
           G(s) == SumFunctionOnSet(g, s)
           T == {s \in SUBSET S : F(s \cap R) <= G(s)}
<1>1. ASSUME NEW s \in SUBSET S
      PROVE  /\ F({}) = 0 /\ G({}) = 0
             /\ F(s \cap R) \in Int /\ G(s) \in Int
             /\ \A x \in s \cap R : F(s \cap R) = f[x] + F((s \cap R) \ {x})
             /\ \A x \in s : G(s) = g[x] + G(s \ {x})
  <2>1. IsFiniteSet(s) /\ IsFiniteSet(s \cap R)
    BY FS_Subset
  <2>2. \A x \in s \cap R : f[x] \in Int
    OBVIOUS
  <2>3. \A x \in s : g[x] \in Int
    OBVIOUS
  <2>4. /\ F({}) = 0 /\ F(s \cap R) \in Int
        /\ \A x \in s \cap R : F(s \cap R) = f[x] + F((s \cap R) \ {x})
    BY <2>1, <2>2, SumFacts
  <2>5. /\ G({}) = 0 /\ G(s) \in Int /\ \A x \in s : G(s) = g[x] + G(s \ {x})
    BY <2>1, <2>3, SumFacts
  <2> QED BY <2>4, <2>5
<1> HIDE DEF F, G
<1>2. {} \in T
  <2>1. {} \cap R = {} /\ F({}) = 0 /\ G({}) = 0
    BY <1>1
  <2>2. F({} \cap R) <= G({})
    BY <2>1
  <2> QED BY <2>2
<1>3. ASSUME NEW s \in SUBSET S, NEW x \in s, s \ {x} \in T PROVE s \in T
  <2>1. /\ F((s \ {x}) \cap R) <= G(s \ {x}) /\ G(s) = g[x] + G(s \ {x})
        /\ G(s \ {x}) \in Int /\ F((s \ {x}) \cap R) \in Int /\ g[x] \in Nat
    BY <1>1, <1>3
  <2>2. CASE x \in R
    <3>1. (s \cap R) \ {x} = (s \ {x}) \cap R
      OBVIOUS
    <3>2. F(s \cap R) = f[x] + F((s \ {x}) \cap R)
      BY <1>1, <2>2, <3>1
    <3>3. f[x] \in Int /\ f[x] <= g[x]
      BY <2>2
    <3>4. F(s \cap R) <= G(s)
      BY <2>1, <3>2, <3>3
    <3> QED BY <3>4
  <2>3. CASE x \notin R
    <3>1. s \cap R = (s \ {x}) \cap R
      BY <2>3
    <3> DEFINE a == F(s \cap R)
               b == G(s \ {x})
    <3>2. a \in Int /\ b \in Int /\ a <= b /\ G(s) = g[x] + b
      BY <2>1, <3>1
    <3> HIDE DEF a, b
    <3>3. a <= G(s)
      BY <2>1, <3>2
    <3> QED BY <3>3 DEF a
  <2> QED BY <2>2, <2>3
<1>4. S \in T
  <2>1. S \in SUBSET S
    OBVIOUS
  <2> HIDE DEF T
  <2>2. SUBSET S \subseteq T
    BY <1>2, <1>3, SubsetInduction
  <2> QED BY <2>1, <2>2
<1>5. S \cap R = R
  OBVIOUS
<1> QED BY <1>4, <1>5 DEF F, G

(* A constant added to each term is added as often as there are elements. *)
LEMMA SumShift ==
    ASSUME NEW S, IsFiniteSet(S), NEW f, NEW g, NEW c \in Int,
           \A x \in S : f[x] \in Int /\ g[x] = f[x] + c
    PROVE  SumFunctionOnSet(g, S) = SumFunctionOnSet(f, S) + c * Cardinality(S)
<1> DEFINE F(s) == SumFunctionOnSet(f, s)
           G(s) == SumFunctionOnSet(g, s)
           T == {s \in SUBSET S : G(s) = F(s) + c * Cardinality(s)}
<1>1. ASSUME NEW s \in SUBSET S
      PROVE  /\ F({}) = 0 /\ G({}) = 0
             /\ F(s) \in Int /\ G(s) \in Int
             /\ \A x \in s : F(s) = f[x] + F(s \ {x}) /\ G(s) = g[x] + G(s \ {x})
  <2>1. IsFiniteSet(s) /\ \A x \in s : f[x] \in Int /\ g[x] \in Int
    BY FS_Subset
  <2>2. /\ F({}) = 0 /\ F(s) \in Int /\ \A x \in s : F(s) = f[x] + F(s \ {x})
    BY <2>1, SumFacts
  <2>3. /\ G({}) = 0 /\ G(s) \in Int /\ \A x \in s : G(s) = g[x] + G(s \ {x})
    BY <2>1, SumFacts
  <2> QED BY <2>2, <2>3
<1> HIDE DEF F, G
<1>2. {} \in T
  <2>1. Cardinality({}) = 0
    BY FS_EmptySet
  <2>2. c * 0 = 0
    OBVIOUS
  <2> QED BY <1>1, <2>1, <2>2
<1>3. ASSUME NEW s \in SUBSET S, NEW x \in s, s \ {x} \in T PROVE s \in T
  <2>1. PICK k \in Nat : k = Cardinality(s \ {x}) /\ Cardinality(s) = k + 1
    <3>1. Cardinality(s \ {x}) = Cardinality(s) - 1 /\ Cardinality(s) \in Nat
      BY SubsetSizes
    <3>2. s \ {x} \in SUBSET S
      OBVIOUS
    <3>3. Cardinality(s \ {x}) \in Nat
      BY <3>2, SubsetSizes
    <3> QED BY <3>1, <3>3
  <2>2. G(s \ {x}) = F(s \ {x}) + c * k
    BY <1>3, <2>1
  <2>3. c * (k + 1) = c * k + c /\ c * k \in Int
    OBVIOUS
  <2>4. /\ F(s) = f[x] + F(s \ {x}) /\ G(s) = g[x] + G(s \ {x})
        /\ F(s \ {x}) \in Int /\ f[x] \in Int /\ g[x] = f[x] + c
    BY <1>1
  <2> DEFINE p == c * k
             q == c * (k + 1)
  <2>5. p \in Int /\ q = p + c /\ G(s \ {x}) = F(s \ {x}) + p
    BY <2>2, <2>3
  <2> HIDE DEF p, q
  <2>6. G(s) = F(s) + q
    BY <2>4, <2>5
  <2> QED BY <2>1, <2>6 DEF q
<1>4. S \in T
  <2>1. S \in SUBSET S
    OBVIOUS
  <2> HIDE DEF T
  <2>2. SUBSET S \subseteq T
    BY <1>2, <1>3, SubsetInduction
  <2> QED BY <2>1, <2>2
<1> QED BY <1>4 DEF F, G

(* One more for each element of R adds the size of R.                       *)
LEMMA SumOneMore ==
    ASSUME NEW S, IsFiniteSet(S), NEW R, R \subseteq S, NEW f, NEW g,
           \A x \in S : f[x] \in Int /\ g[x] = IF x \in R THEN f[x] + 1 ELSE f[x]
    PROVE  SumFunctionOnSet(g, S) = SumFunctionOnSet(f, S) + Cardinality(R)
<1> DEFINE F(s) == SumFunctionOnSet(f, s)
           G(s) == SumFunctionOnSet(g, s)
           T == {s \in SUBSET S : G(s) = F(s) + Cardinality(R \cap s)}
<1>1. ASSUME NEW s \in SUBSET S
      PROVE  /\ F({}) = 0 /\ G({}) = 0
             /\ F(s) \in Int /\ G(s) \in Int
             /\ \A x \in s : F(s) = f[x] + F(s \ {x}) /\ G(s) = g[x] + G(s \ {x})
  <2>1. IsFiniteSet(s) /\ \A x \in s : f[x] \in Int /\ g[x] \in Int
    BY FS_Subset
  <2>2. /\ F({}) = 0 /\ F(s) \in Int /\ \A x \in s : F(s) = f[x] + F(s \ {x})
    BY <2>1, SumFacts
  <2>3. /\ G({}) = 0 /\ G(s) \in Int /\ \A x \in s : G(s) = g[x] + G(s \ {x})
    BY <2>1, SumFacts
  <2> QED BY <2>2, <2>3
<1> HIDE DEF F, G
<1>2. {} \in T
  <2>1. R \cap {} = {} /\ Cardinality({}) = 0
    BY FS_EmptySet
  <2> QED BY <1>1, <2>1
<1>3. ASSUME NEW s \in SUBSET S, NEW x \in s, s \ {x} \in T PROVE s \in T
  <2>1. /\ G(s \ {x}) = F(s \ {x}) + Cardinality(R \cap (s \ {x}))
        /\ F(s) = f[x] + F(s \ {x}) /\ G(s) = g[x] + G(s \ {x})
        /\ F(s \ {x}) \in Int /\ f[x] \in Int
    BY <1>1, <1>3
  <2>2. IsFiniteSet(R \cap s) /\ R \cap s \in SUBSET S
    BY FS_Subset
  <2>3. CASE x \in R
    <3>1. R \cap (s \ {x}) = (R \cap s) \ {x} /\ x \in R \cap s
      BY <2>3
    <3>2. /\ Cardinality((R \cap s) \ {x}) = Cardinality(R \cap s) - 1
          /\ Cardinality(R \cap s) \in Nat
      BY <2>2, <3>1, SubsetSizes
    <3>3. g[x] = f[x] + 1
      BY <2>3
    <3>4. Cardinality(R \cap (s \ {x})) = Cardinality(R \cap s) - 1
      BY <3>1, <3>2
    <3>5. G(s) = F(s) + Cardinality(R \cap s)
      BY <2>1, <3>2, <3>3, <3>4
    <3> QED BY <3>5
  <2>4. CASE x \notin R
    <3>1. R \cap (s \ {x}) = R \cap s /\ Cardinality(R \cap s) \in Nat
      BY <2>2, <2>4, FS_CardinalityType
    <3>2. g[x] = f[x]
      BY <2>4
    <3>3. G(s) = F(s) + Cardinality(R \cap s)
      BY <2>1, <3>1, <3>2
    <3> QED BY <3>3
  <2> QED BY <2>3, <2>4
<1>4. S \in T
  <2>1. S \in SUBSET S
    OBVIOUS
  <2> HIDE DEF T
  <2>2. SUBSET S \subseteq T
    BY <1>2, <1>3, SubsetInduction
  <2> QED BY <2>1, <2>2
<1>5. R \cap S = R
  OBVIOUS
<1> QED BY <1>4, <1>5 DEF F, G

(* Of finitely many numbers one is the largest and one the smallest. *)
LEMMA Extremes ==
    ASSUME NEW S, IsFiniteSet(S), S # {}, NEW f, \A x \in S : f[x] \in Int
    PROVE  /\ \E x \in S : \A y \in S : f[y] <= f[x]
           /\ \E x \in S : \A y \in S : f[x] <= f[y]
<1> DEFINE High(s) == \E x \in s : \A y \in s : f[y] <= f[x]
           Low(s) == \E x \in s : \A y \in s : f[x] <= f[y]
           T == {s \in SUBSET S : s = {} \/ (High(s) /\ Low(s))}
<1>1. ASSUME NEW s \in SUBSET S, NEW x \in s, s \ {x} \in T PROVE s \in T
  <2>1. CASE s \ {x} = {}
    <3>1. s = {x} /\ f[x] <= f[x]
      BY <2>1
    <3> QED BY <3>1
  <2>2. CASE s \ {x} # {}
    <3>1. PICK h \in s \ {x} : \A y \in s \ {x} : f[y] <= f[h]
      BY <1>1, <2>2
    <3>2. PICK l \in s \ {x} : \A y \in s \ {x} : f[l] <= f[y]
      BY <1>1, <2>2
    <3>3. f[x] \in Int /\ f[h] \in Int /\ f[l] \in Int /\ \A y \in s : f[y] \in Int
      OBVIOUS
    <3>4. High(s)
      <4>1. CASE f[x] <= f[h]
        BY <3>1, <3>3, <4>1
      <4>2. CASE f[h] <= f[x]
        <5>1. \A y \in s : f[y] <= f[x]
          BY <3>1, <3>3, <4>2
        <5> QED BY <5>1
      <4> QED BY <3>3, <4>1, <4>2
    <3>5. Low(s)
      <4>1. CASE f[l] <= f[x]
        BY <3>2, <3>3, <4>1
      <4>2. CASE f[x] <= f[l]
        <5>1. \A y \in s : f[x] <= f[y]
          BY <3>2, <3>3, <4>2
        <5> QED BY <5>1
      <4> QED BY <3>3, <4>1, <4>2
    <3> QED BY <3>4, <3>5
  <2> QED BY <2>1, <2>2
<1>2. {} \in T
  OBVIOUS
<1>3. S \in T
  <2>1. S \in SUBSET S
    OBVIOUS
  <2> HIDE DEF T
  <2>2. SUBSET S \subseteq T
    BY <1>1, <1>2, SubsetInduction
  <2> QED BY <2>1, <2>2
<1> QED BY <1>3

(* A sequence without repetitions is as long as its range is large. *)
LEMMA DistinctLength ==
    ASSUME NEW S, NEW s \in Seq(S), IsInjective(s)
    PROVE  IsFiniteSet(Range(s)) /\ Cardinality(Range(s)) = Len(s)
<1> DEFINE D == 1 .. Len(s)
<1>1. Len(s) \in Nat /\ DOMAIN s = D /\ s \in [D -> Range(s)]
  BY LenProperties DEF Range
<1>2. IsFiniteSet(D) /\ Cardinality(D) = Len(s)
  BY <1>1, FS_Interval
<1>3. s \in Surjection(D, Range(s)) /\ s \in Injection(D, Range(s))
  BY <1>1 DEF Surjection, Injection, IsInjective, Range
<1> QED BY <1>2, <1>3, FS_Surjection

-----------------------------------------------------------------------------
(* Batches. *)

(* A request that joins a batch is one more id of it. *)
LEMMA BatchAppend ==
    ASSUME NEW b \in Seq(BatchEntry), NEW r \in Requests, NEW n \in Nat
    PROVE  LET e == [id |-> r, tokens |-> n]
           IN  /\ Append(b, e) \in Seq(BatchEntry)
               /\ Append(b, e) # <<>>
               /\ Len(Append(b, e)) = Len(b) + 1
               /\ DOMAIN b = 1 .. Len(b)
               /\ DOMAIN Append(b, e) = 1 .. Len(b) + 1
               /\ \A i \in 1 .. Len(b) : Append(b, e)[i] = b[i]
               /\ Append(b, e)[Len(b) + 1] = e
               /\ Ids(Append(b, e)) = Ids(b) \cup {r}
               /\ DistinctIds(b) /\ r \notin Ids(b) => DistinctIds(Append(b, e))
<1> DEFINE e == [id |-> r, tokens |-> n]
           t == Append(b, e)
<1>1. e \in BatchEntry /\ e.id = r
  BY DEF BatchEntry
<1>2. /\ t \in Seq(BatchEntry) /\ t # <<>> /\ Len(t) = Len(b) + 1 /\ Len(b) \in Nat
      /\ DOMAIN b = 1 .. Len(b) /\ DOMAIN t = 1 .. Len(b) + 1
  BY <1>1, AppendProperties, LenProperties
<1>3. /\ \A i \in 1 .. Len(b) : t[i] = b[i]
      /\ t[Len(b) + 1] = e
  BY <1>1, AppendProperties
<1> HIDE DEF t, e
<1>4. Ids(t) = Ids(b) \cup {r}
  <2>1. ASSUME NEW x \in Ids(t) PROVE x \in Ids(b) \cup {r}
    BY <1>1, <1>2, <1>3 DEF Ids
  <2>2. ASSUME NEW x \in Ids(b) PROVE x \in Ids(t)
    <3>1. PICK i \in 1 .. Len(b) : x = b[i].id
      BY <1>2 DEF Ids
    <3>2. i \in DOMAIN t /\ t[i].id = x
      BY <1>2, <1>3, <3>1
    <3> QED BY <3>2 DEF Ids
  <2>3. r \in Ids(t)
    <3>1. Len(b) + 1 \in DOMAIN t /\ t[Len(b) + 1].id = r
      BY <1>1, <1>2, <1>3
    <3> QED BY <3>1 DEF Ids
  <2> QED BY <2>1, <2>2, <2>3
<1>5. ASSUME DistinctIds(b), r \notin Ids(b) PROVE DistinctIds(t)
  <2>1. \A i \in 1 .. Len(b) : b[i].id # r
    BY <1>2, <1>5 DEF Ids
  <2> SUFFICES ASSUME NEW i \in 1 .. Len(b) + 1, NEW j \in 1 .. Len(b) + 1,
                      t[i].id = t[j].id
               PROVE  i = j
    BY <1>2 DEF DistinctIds
  <2>2. CASE i \in 1 .. Len(b) /\ j \in 1 .. Len(b)
    BY <1>2, <1>3, <1>5, <2>2 DEF DistinctIds
  <2>3. CASE i = Len(b) + 1 /\ j = Len(b) + 1
    BY <2>3
  <2>4. CASE i = Len(b) + 1 /\ j \in 1 .. Len(b)
    BY <1>1, <1>3, <2>1, <2>4
  <2>5. CASE j = Len(b) + 1 /\ i \in 1 .. Len(b)
    BY <1>1, <1>3, <2>1, <2>5
  <2> QED BY <1>2, <2>2, <2>3, <2>4, <2>5
<1> QED BY <1>2, <1>3, <1>4, <1>5 DEF e, t

(* Ending a batch request by request. *)
LEMMA BatchTail ==
    ASSUME NEW b \in Seq(BatchEntry), b # <<>>
    PROVE  /\ Head(b) \in BatchEntry
           /\ Tail(b) \in Seq(BatchEntry)
           /\ 1 \in DOMAIN b /\ Head(b) = b[1]
           /\ \A i \in DOMAIN Tail(b) : i + 1 \in DOMAIN b /\ Tail(b)[i] = b[i + 1]
           /\ Ids(b) = Ids(Tail(b)) \cup {Head(b).id}
           /\ DistinctIds(b) => /\ DistinctIds(Tail(b))
                                /\ Head(b).id \notin Ids(Tail(b))
<1> DEFINE t == Tail(b)
<1>1. /\ Len(b) \in Nat \ {0} /\ t \in Seq(BatchEntry) /\ Head(b) \in BatchEntry
      /\ DOMAIN b = 1 .. Len(b) /\ DOMAIN t = 1 .. Len(b) - 1
  BY EmptySeq, HeadTailProperties, LenProperties
<1>2. /\ \A i \in 1 .. Len(b) - 1 : i + 1 \in DOMAIN b /\ t[i] = b[i + 1]
      /\ Head(b) = b[1] /\ 1 \in DOMAIN b
  BY <1>1, HeadTailProperties
<1> HIDE DEF t
<1>3. Ids(b) = Ids(t) \cup {Head(b).id}
  <2>1. ASSUME NEW x \in Ids(t) PROVE x \in Ids(b)
    BY <1>1, <1>2 DEF Ids
  <2>2. Head(b).id \in Ids(b)
    BY <1>2 DEF Ids
  <2>3. ASSUME NEW x \in Ids(b), x # Head(b).id PROVE x \in Ids(t)
    <3>1. PICK i \in 1 .. Len(b) : x = b[i].id
      BY <1>1 DEF Ids
    <3>2. i # 1
      BY <1>2, <2>3, <3>1
    <3>3. i - 1 \in 1 .. Len(b) - 1 /\ (i - 1) + 1 = i
      BY <1>1, <3>2
    <3>4. i - 1 \in DOMAIN t /\ t[i - 1].id = x
      BY <1>1, <1>2, <3>1, <3>3
    <3> QED BY <3>4 DEF Ids
  <2> QED BY <2>1, <2>2, <2>3
<1>4. ASSUME DistinctIds(b) PROVE DistinctIds(t) /\ Head(b).id \notin Ids(t)
  <2>1. ASSUME NEW i \in DOMAIN t, NEW j \in DOMAIN t, t[i].id = t[j].id PROVE i = j
    <3>1. i + 1 \in DOMAIN b /\ j + 1 \in DOMAIN b /\ b[i + 1].id = b[j + 1].id
      BY <1>1, <1>2, <2>1
    <3>2. i + 1 = j + 1
      BY <1>4, <3>1 DEF DistinctIds
    <3> QED BY <1>1, <3>2
  <2>2. ASSUME NEW i \in DOMAIN t, t[i].id = Head(b).id PROVE FALSE
    <3>1. i + 1 \in DOMAIN b /\ b[i + 1].id = b[1].id /\ 1 \in DOMAIN b
      BY <1>1, <1>2, <2>2
    <3>2. i + 1 = 1
      BY <1>4, <3>1 DEF DistinctIds
    <3> QED BY <1>1, <3>2
  <2> QED BY <2>1, <2>2 DEF DistinctIds, Ids
<1> QED BY <1>1, <1>2, <1>3, <1>4 DEF t

(* A batch enters the pipeline. *)
LEMMA PipelineAppend ==
    ASSUME NEW bs \in Seq(Seq(BatchEntry)), NEW b \in Seq(BatchEntry)
    PROVE  /\ Append(bs, b) \in Seq(Seq(BatchEntry))
           /\ Len(Append(bs, b)) = Len(bs) + 1
           /\ \A k \in DOMAIN Append(bs, b) :
                \/ k \in DOMAIN bs /\ Append(bs, b)[k] = bs[k]
                \/ Append(bs, b)[k] = b
           /\ IdsIn(Append(bs, b)) = IdsIn(bs) \cup Ids(b)
           /\ DisjointBatches(bs) /\ DistinctIds(b) /\ Ids(b) \cap IdsIn(bs) = {}
                => DisjointBatches(Append(bs, b))
<1> DEFINE t == Append(bs, b)
<1>1. /\ t \in Seq(Seq(BatchEntry)) /\ Len(t) = Len(bs) + 1 /\ Len(bs) \in Nat
      /\ DOMAIN bs = 1 .. Len(bs) /\ DOMAIN t = 1 .. Len(bs) + 1
  BY AppendProperties, LenProperties
<1>2. /\ \A k \in 1 .. Len(bs) : t[k] = bs[k]
      /\ t[Len(bs) + 1] = b
  BY AppendProperties
<1> HIDE DEF t
<1>3. \A k \in DOMAIN t :
        \/ k \in DOMAIN bs /\ t[k] = bs[k]
        \/ k = Len(bs) + 1 /\ t[k] = b
  BY <1>1, <1>2
<1>4. IdsIn(t) = IdsIn(bs) \cup Ids(b)
  <2>1. ASSUME NEW x \in IdsIn(t) PROVE x \in IdsIn(bs) \cup Ids(b)
    BY <1>3 DEF IdsIn
  <2>2. ASSUME NEW x \in IdsIn(bs) PROVE x \in IdsIn(t)
    <3>1. PICK k \in DOMAIN bs : x \in Ids(bs[k])
      BY DEF IdsIn
    <3>2. k \in DOMAIN t /\ t[k] = bs[k]
      BY <1>1, <1>2
    <3> QED BY <3>1, <3>2 DEF IdsIn
  <2>3. Len(bs) + 1 \in DOMAIN t /\ t[Len(bs) + 1] = b
    BY <1>1, <1>2
  <2>4. Ids(b) \subseteq IdsIn(t)
    BY <2>3 DEF IdsIn
  <2> QED BY <2>1, <2>2, <2>4
<1>5. ASSUME DisjointBatches(bs), DistinctIds(b), Ids(b) \cap IdsIn(bs) = {}
      PROVE  DisjointBatches(t)
  <2>1. \A k \in DOMAIN t : DistinctIds(t[k])
    BY <1>3, <1>5 DEF DisjointBatches
  <2>2. \A k \in DOMAIN bs : Ids(bs[k]) \cap Ids(b) = {}
    BY <1>5 DEF IdsIn
  <2>3. ASSUME NEW k \in DOMAIN t, NEW l \in DOMAIN t, k # l
        PROVE  Ids(t[k]) \cap Ids(t[l]) = {}
    <3>1. CASE k \in DOMAIN bs /\ t[k] = bs[k] /\ l \in DOMAIN bs /\ t[l] = bs[l]
      BY <1>5, <2>3, <3>1 DEF DisjointBatches
    <3>2. CASE k \in DOMAIN bs /\ t[k] = bs[k] /\ t[l] = b
      BY <2>2, <3>2
    <3>3. CASE t[k] = b /\ l \in DOMAIN bs /\ t[l] = bs[l]
      BY <2>2, <3>3
    <3> QED BY <1>3, <2>3, <3>1, <3>2, <3>3
  <2> QED BY <2>1, <2>3 DEF DisjointBatches
<1> QED BY <1>1, <1>3, <1>4, <1>5 DEF t

(* The oldest batch leaves the pipeline. *)
LEMMA PipelineTail ==
    ASSUME NEW bs \in Seq(Seq(BatchEntry)), bs # <<>>
    PROVE  /\ Head(bs) \in Seq(BatchEntry)
           /\ Tail(bs) \in Seq(Seq(BatchEntry))
           /\ Len(bs) \in Nat \ {0}
           /\ Len(Tail(bs)) = Len(bs) - 1
           /\ \E k \in DOMAIN bs : Head(bs) = bs[k]
           /\ \A k \in DOMAIN Tail(bs) : \E l \in DOMAIN bs : Tail(bs)[k] = bs[l]
           /\ IdsIn(bs) = IdsIn(Tail(bs)) \cup Ids(Head(bs))
           /\ DisjointBatches(bs) => /\ DisjointBatches(Tail(bs))
                                     /\ DistinctIds(Head(bs))
                                     /\ Ids(Head(bs)) \cap IdsIn(Tail(bs)) = {}
<1> DEFINE t == Tail(bs)
           b == Head(bs)
<1>1. /\ Len(bs) \in Nat \ {0} /\ t \in Seq(Seq(BatchEntry)) /\ b \in Seq(BatchEntry)
      /\ Len(t) = Len(bs) - 1
      /\ DOMAIN bs = 1 .. Len(bs) /\ DOMAIN t = 1 .. Len(bs) - 1
  BY EmptySeq, HeadTailProperties, LenProperties
<1>2. /\ \A k \in DOMAIN t : k + 1 \in DOMAIN bs /\ t[k] = bs[k + 1] /\ k + 1 # 1
      /\ b = bs[1] /\ 1 \in DOMAIN bs
  BY <1>1, HeadTailProperties
<1> HIDE DEF t, b
<1>3. IdsIn(bs) = IdsIn(t) \cup Ids(b)
  <2>1. IdsIn(t) \subseteq IdsIn(bs)
    BY <1>2 DEF IdsIn
  <2>2. Ids(b) \subseteq IdsIn(bs)
    BY <1>2 DEF IdsIn
  <2>3. ASSUME NEW x \in IdsIn(bs) PROVE x \in IdsIn(t) \cup Ids(b)
    <3>1. PICK k \in 1 .. Len(bs) : x \in Ids(bs[k])
      BY <1>1 DEF IdsIn
    <3>2. CASE k = 1
      BY <1>2, <3>1, <3>2
    <3>3. CASE k # 1
      <4>1. k - 1 \in DOMAIN t /\ (k - 1) + 1 = k
        BY <1>1, <3>3
      <4>2. t[k - 1] = bs[k]
        BY <1>2, <4>1
      <4> QED BY <3>1, <4>1, <4>2 DEF IdsIn
    <3> QED BY <3>2, <3>3
  <2> QED BY <2>1, <2>2, <2>3
<1>4. ASSUME DisjointBatches(bs)
      PROVE  DisjointBatches(t) /\ DistinctIds(b) /\ Ids(b) \cap IdsIn(t) = {}
  <2>1. \A k \in DOMAIN t : DistinctIds(t[k]) /\ Ids(b) \cap Ids(t[k]) = {}
    BY <1>2, <1>4 DEF DisjointBatches
  <2>2. ASSUME NEW k \in DOMAIN t, NEW l \in DOMAIN t, k # l
        PROVE  Ids(t[k]) \cap Ids(t[l]) = {}
    <3>1. k + 1 # l + 1
      BY <1>1, <2>2
    <3> QED BY <1>2, <1>4, <3>1 DEF DisjointBatches
  <2>3. DistinctIds(b)
    BY <1>2, <1>4 DEF DisjointBatches
  <2>4. Ids(b) \cap IdsIn(t) = {}
    BY <2>1 DEF IdsIn
  <2> QED BY <2>1, <2>2, <2>3, <2>4 DEF DisjointBatches
<1> QED BY <1>1, <1>2, <1>3, <1>4 DEF t, b

(* The request of each entry of a batch is one of its ids. *)
LEMMA EntryIds ==
    /\ \A e \in Range(batch) : e.id \in Ids(batch)
    /\ \A k \in DOMAIN running_batches : \A e \in Range(running_batches[k]) :
        e.id \in RunningIds
BY DEF Range, Ids, IdsIn, RunningIds

-----------------------------------------------------------------------------
(* Token counters. *)

(* The counters of a request stay numbers. *)
LEMMA RequestTypes ==
    /\ \A p, d \in Nat : NewRequest(p, d) \in RequestRecord
    /\ \A q \in RequestRecord : Restart(q) \in RequestRecord
    /\ \A q \in RequestRecord, n \in Nat : OnBatchEnd(q, n) \in RequestRecord
<1>1. \A p \in Nat, d \in Int : NewRequest(p, d) \in RequestRecord
  BY DEF NewRequest, RequestRecord
<1>2. ASSUME NEW q \in RequestRecord PROVE Restart(q) \in RequestRecord
  <2>1. q.processed \in Nat /\ q.prefill \in Nat /\ q.decode \in Int
    BY DEF RequestRecord
  <2>2. TotalTokens(q) - q.processed \in Int
    BY <2>1 DEF TotalTokens
  <2> QED BY <1>1, <2>1, <2>2 DEF Restart
<1>3. ASSUME NEW q \in RequestRecord, NEW n \in Nat
      PROVE  OnBatchEnd(q, n) \in RequestRecord
  <2> DEFINE p == q.processed + n + (IF q.processed + n = q.prefill THEN 1 ELSE 0)
             c == q.prefill_complete \/ q.processed + n = q.prefill
             f == q.completed \/ p = TotalTokens(q)
  <2>1. p \in Nat /\ c \in BOOLEAN /\ f \in BOOLEAN
    BY DEF RequestRecord
  <2>2. OnBatchEnd(q, n) =
            [q EXCEPT !.processed = p, !.prefill_complete = c, !.completed = f]
    BY DEF OnBatchEnd
  <2> HIDE DEF p, c, f
  <2> QED BY <2>1, <2>2 DEF RequestRecord
<1> QED BY <1>1, <1>2, <1>3

(* Rounding up to whole blocks gives a number of blocks. *)
LEMMA CeilDivNat ==
    ASSUME NEW a \in Nat, NEW b \in Nat \ {0}
    PROVE  CeilDiv(a, b) \in Nat
<1>1. a + b - 1 \in Nat
  OBVIOUS
<1> QED BY <1>1 DEF CeilDiv

(* Rounding up to whole blocks is exact. *)
LEMMA CeilDivExact ==
    ASSUME NEW n \in Nat
    PROVE  ExactFor(n, CeilDiv(n, BlockSize))
<1> DEFINE b == BlockSize
           c == n + b - 1
           k == c \div b
<1>1. b \in Nat /\ b > 0 /\ c \in Nat
  BY ReplicaAssumption
<1>2. k \in Int /\ b * k <= c /\ c < b * k + b
  BY <1>1
<1>3. k * b = b * k
  BY <1>1, <1>2
<1> QED BY <1>1, <1>2, <1>3 DEF CeilDiv, ExactFor

(* One more block serves one more token when the last block is full. *)
LEMMA OneMoreBlock ==
    ASSUME NEW n \in Nat \ {0}, NEW k \in Nat, ExactFor(n - 1, k)
    PROVE  /\ n <= k * BlockSize => ExactFor(n, k)
           /\ n > k * BlockSize => ExactFor(n, k + 1)
<1> DEFINE b == BlockSize
           kb == k * b
<1>1. b \in Nat /\ b > 0 /\ kb \in Nat
  BY ReplicaAssumption
<1>2. (k + 1) * b = kb + b
  BY <1>1
<1>3. n - 1 <= kb /\ kb < n - 1 + b
  BY DEF ExactFor
<1> HIDE DEF kb
<1>4. n <= kb => n <= kb /\ kb < n + b
  BY <1>1, <1>3
<1>5. n > kb => n <= kb + b /\ kb + b < n + b
  BY <1>1, <1>3
<1> QED BY <1>2, <1>4, <1>5 DEF ExactFor, kb

-----------------------------------------------------------------------------
(* Memory. *)

(* A map over finitely many requests holds finitely many blocks. *)
LEMMA BlocksFinite ==
    ASSUME NEW D, IsFiniteSet(D), NEW m \in [D -> Nat]
    PROVE  IsFiniteSet(BlocksIn(m))
<1> DEFINE f == [r \in D |-> {r} \X (1 .. m[r])]
           T == {{r} \X (1 .. m[r]) : r \in D}
<1>1. f \in Surjection(D, T)
  BY DEF Surjection
<1>2. IsFiniteSet(T)
  BY <1>1, FS_Surjection
<1>3. ASSUME NEW r \in D PROVE IsFiniteSet({r} \X (1 .. m[r]))
  <2>1. m[r] \in Int /\ 1 \in Int
    OBVIOUS
  <2>2. IsFiniteSet(1 .. m[r])
    BY <2>1, FS_Interval
  <2>3. IsFiniteSet({r})
    BY FS_Singleton
  <2> QED BY <2>2, <2>3, FS_Product
<1>4. \A t \in T : IsFiniteSet(t)
  BY <1>3
<1>5. IsFiniteSet(UNION T)
  BY <1>2, <1>4, FS_UNION
<1>6. BlocksIn(m) = UNION T
  BY DEF BlocksIn
<1> QED BY <1>5, <1>6

(* n more blocks for one request are n more blocks. *)
LEMMA BlocksGrow ==
    ASSUME NEW D, NEW m \in [D -> Nat], IsFiniteSet(BlocksIn(m)),
           NEW r, NEW n \in Nat, NEW old \in Nat,
           old = IF r \in D THEN m[r] ELSE 0,
           NEW m2 \in [D \cup {r} -> Nat],
           m2[r] = old + n,
           \A q \in D \ {r} : m2[q] = m[q]
    PROVE  Cardinality(BlocksIn(m2)) = Cardinality(BlocksIn(m)) + n
<1> DEFINE new == {r} \X (old + 1 .. old + n)
<1>1. IsFiniteSet(new) /\ Cardinality(new) = n
  <2>1. IsFiniteSet(old + 1 .. old + n) /\ Cardinality(old + 1 .. old + n) = n
    <3>1. old + 1 \in Int /\ old + n \in Int
      OBVIOUS
    <3>2. /\ IsFiniteSet(old + 1 .. old + n)
          /\ Cardinality(old + 1 .. old + n) =
                IF old + 1 > old + n THEN 0 ELSE (old + n) - (old + 1) + 1
      BY <3>1, FS_Interval, Zenon
    <3> QED BY <3>2
  <2>2. IsFiniteSet({r}) /\ Cardinality({r}) = 1
    BY FS_Singleton
  <2> DEFINE I == old + 1 .. old + n
  <2>3. IsFiniteSet(I) /\ Cardinality(I) = n
    BY <2>1
  <2> HIDE DEF I
  <2>4. IsFiniteSet({r} \X I) /\ Cardinality({r} \X I) = 1 * n
    BY <2>2, <2>3, FS_Product, Zenon
  <2> QED BY <2>4 DEF I
<1>2. BlocksIn(m2) = BlocksIn(m) \cup new
  <2>1. ASSUME NEW x \in BlocksIn(m2) PROVE x \in BlocksIn(m) \cup new
    <3>1. PICK q \in D \cup {r} : x \in {q} \X (1 .. m2[q])
      BY DEF BlocksIn
    <3>2. CASE q = r
      <4>1. x = <<r, x[2]>> /\ x[2] \in 1 .. old + n
        BY <3>1, <3>2
      <4>2. CASE x[2] \in old + 1 .. old + n
        BY <4>1, <4>2
      <4>3. CASE x[2] \in 1 .. old
        <5>1. r \in D /\ x \in {r} \X (1 .. m[r])
          BY <4>1, <4>3
        <5> QED BY <5>1 DEF BlocksIn
      <4> QED BY <4>1, <4>2, <4>3
    <3>3. CASE q # r
      <4>1. q \in D /\ x \in {q} \X (1 .. m[q])
        BY <3>1, <3>3
      <4> QED BY <4>1 DEF BlocksIn
    <3> QED BY <3>2, <3>3
  <2>2. ASSUME NEW x \in BlocksIn(m) PROVE x \in BlocksIn(m2)
    <3>1. PICK q \in D : x \in {q} \X (1 .. m[q])
      BY DEF BlocksIn
    <3>2. q \in D \cup {r} /\ m[q] <= m2[q] /\ m[q] \in Nat /\ m2[q] \in Nat
      OBVIOUS
    <3>3. x \in {q} \X (1 .. m2[q])
      BY <3>1, <3>2
    <3> QED BY <3>2, <3>3 DEF BlocksIn
  <2>3. ASSUME NEW x \in new PROVE x \in BlocksIn(m2)
    <3>1. x \in {r} \X (1 .. m2[r])
      OBVIOUS
    <3> QED BY <3>1 DEF BlocksIn
  <2> QED BY <2>1, <2>2, <2>3
<1>3. BlocksIn(m) \cap new = {}
  <2> SUFFICES ASSUME NEW x \in BlocksIn(m), x \in new PROVE FALSE
    OBVIOUS
  <2>1. PICK q \in D : x \in {q} \X (1 .. m[q])
    BY DEF BlocksIn
  <2>2. q = r /\ x[2] \in 1 .. m[q] /\ x[2] \in old + 1 .. old + n
    BY <2>1
  <2> QED BY <2>2
<1> HIDE DEF new
<1>4. Cardinality(BlocksIn(m)) \in Nat
  BY FS_CardinalityType
<1>5. Cardinality(BlocksIn(m) \cup new) =
            Cardinality(BlocksIn(m)) + Cardinality(new) - Cardinality(BlocksIn(m) \cap new)
  BY <1>1, FS_Union, Zenon
<1>6. Cardinality(BlocksIn(m) \cap new) = 0
  BY <1>3, FS_EmptySet, Zenon
<1> QED BY <1>1, <1>2, <1>4, <1>5, <1>6

(* Freeing a request gives back just its blocks. *)
LEMMA BlocksShrink ==
    ASSUME NEW D, NEW m \in [D -> Nat], NEW r \in D,
           NEW m2 \in [D \ {r} -> Nat], IsFiniteSet(BlocksIn(m2)),
           \A q \in D \ {r} : m2[q] = m[q]
    PROVE  Cardinality(BlocksIn(m2)) = Cardinality(BlocksIn(m)) - m[r]
<1>1. D = (D \ {r}) \cup {r} /\ m[r] \in Nat
  OBVIOUS
<1>2. Cardinality(BlocksIn(m)) = Cardinality(BlocksIn(m2)) + m[r]
  <2> DEFINE E == D \ {r}
  <2>1. m \in [E \cup {r} -> Nat] /\ m[r] = 0 + m[r] /\ \A q \in E \ {r} : m[q] = m2[q]
    BY <1>1
  <2>2. r \notin E /\ m2 \in [E -> Nat]
    OBVIOUS
  <2> HIDE DEF E
  <2> QED BY <1>1, <2>1, <2>2, BlocksGrow
<1>3. Cardinality(BlocksIn(m2)) \in Nat
  BY FS_CardinalityType
<1> QED BY <1>1, <1>2, <1>3

(* What of their types the memory operations rely on. *)
MemoryTypes ==
    /\ DOMAIN allocation_map \subseteq Requests
    /\ allocation_map \in [DOMAIN allocation_map -> Nat]
    /\ num_allocated_blocks \in Int

(* What allocating and freeing do to the map, whatever it holds. *)
LEMMA AllocateType ==
    ASSUME MemoryTypes, NEW r \in Requests, NEW n \in Nat, Allocate(r, n)
    PROVE  /\ DOMAIN allocation_map' = DOMAIN allocation_map \cup {r}
           /\ allocation_map' \in [DOMAIN allocation_map' -> Nat]
           /\ num_allocated_blocks' \in Int
           /\ allocation_map'[r] = BlocksOf(r) + n
           /\ \A q \in DOMAIN allocation_map \ {r} : allocation_map'[q] = allocation_map[q]
BY DEF MemoryTypes, Allocate, BlocksOf

(* Freeing removes one request from the map and leaves the others alone. *)
LEMMA FreeType ==
    ASSUME MemoryTypes, NEW r \in DOMAIN allocation_map, Free(r)
    PROVE  /\ DOMAIN allocation_map' = DOMAIN allocation_map \ {r}
           /\ allocation_map' \in [DOMAIN allocation_map' -> Nat]
           /\ num_allocated_blocks' \in Int
           /\ \A q \in DOMAIN allocation_map' : allocation_map'[q] = allocation_map[q]
BY DEF MemoryTypes, Free

(* The map holds finitely many blocks. *)
LEMMA HeldFinite ==
    ASSUME MemoryTypes
    PROVE  IsFiniteSet(DOMAIN allocation_map) /\ IsFiniteSet(HeldBlocks)
<1>1. IsFiniteSet(Requests)
  BY ReplicaAssumption, FS_Interval DEF Requests
<1>2. IsFiniteSet(DOMAIN allocation_map)
  BY <1>1, FS_Subset DEF MemoryTypes
<1> QED BY <1>2, BlocksFinite DEF MemoryTypes, HeldBlocks

(* The counter and the limit on the requests that hold memory follow the    *)
(* map through an allocation ...                                            *)
LEMMA AllocateAccounting ==
    ASSUME MemoryTypes, MemoryTypes', NEW r \in Requests, NEW n \in Nat, Allocate(r, n),
           num_allocated_blocks = Cardinality(HeldBlocks), WithinCap
    PROVE  /\ num_allocated_blocks' = Cardinality(HeldBlocks')
           /\ num_allocated_blocks' = num_allocated_blocks + n
           /\ \/ r \in DOMAIN allocation_map
              \/ Cardinality(DOMAIN allocation_map) # BatchSizeCap
              => WithinCap'
<1> DEFINE D == DOMAIN allocation_map
<1>1. /\ DOMAIN allocation_map' = D \cup {r}
      /\ allocation_map'[r] = BlocksOf(r) + n
      /\ \A q \in D \ {r} : allocation_map'[q] = allocation_map[q]
  BY AllocateType
<1>2. allocation_map \in [D -> Nat] /\ allocation_map' \in [D \cup {r} -> Nat]
  BY <1>1 DEF MemoryTypes
<1>3. BlocksOf(r) \in Nat /\ BlocksOf(r) = IF r \in D THEN allocation_map[r] ELSE 0
  BY <1>2 DEF BlocksOf
<1>4. IsFiniteSet(BlocksIn(allocation_map))
  BY HeldFinite DEF HeldBlocks
<1>5. Cardinality(BlocksIn(allocation_map')) = Cardinality(BlocksIn(allocation_map)) + n
  BY <1>1, <1>2, <1>3, <1>4, BlocksGrow
<1>6. /\ IsFiniteSet(D) /\ Cardinality(D) \in Nat /\ BatchSizeCap \in Nat
      /\ Cardinality(D) <= BatchSizeCap
  BY HeldFinite, FS_CardinalityType, ReplicaAssumption DEF WithinCap
<1>7. CASE r \in D
  <2>1. DOMAIN allocation_map' = D
    BY <1>1, <1>7
  <2> QED BY <1>5, <1>6, <2>1 DEF WithinCap, HeldBlocks, Allocate
<1>8. CASE r \notin D
  <2>1. Cardinality(D \cup {r}) = Cardinality(D) + 1
    BY <1>6, <1>8, FS_AddElement, Zenon
  <2>2. Cardinality(D) # BatchSizeCap => WithinCap'
    BY <1>1, <1>6, <2>1 DEF WithinCap
  <2> QED BY <1>5, <1>8, <2>2 DEF HeldBlocks, Allocate
<1> QED BY <1>7, <1>8

(* ... and through a free. *)
LEMMA FreeAccounting ==
    ASSUME MemoryTypes, MemoryTypes', NEW r \in DOMAIN allocation_map, Free(r),
           num_allocated_blocks = Cardinality(HeldBlocks), WithinCap
    PROVE  /\ num_allocated_blocks' = Cardinality(HeldBlocks')
           /\ num_allocated_blocks' <= num_allocated_blocks
           /\ WithinCap'
<1> DEFINE D == DOMAIN allocation_map
<1>1. /\ DOMAIN allocation_map' = D \ {r}
      /\ \A q \in D \ {r} : allocation_map'[q] = allocation_map[q]
  BY FreeType
<1>2. /\ allocation_map \in [D -> Nat] /\ allocation_map' \in [D \ {r} -> Nat]
      /\ allocation_map[r] \in Nat
  BY <1>1 DEF MemoryTypes
<1>3. IsFiniteSet(BlocksIn(allocation_map'))
  BY <1>1, <1>2, HeldFinite, BlocksFinite, FS_Subset
<1>4. Cardinality(BlocksIn(allocation_map')) =
            Cardinality(BlocksIn(allocation_map)) - allocation_map[r]
  BY <1>1, <1>2, <1>3, BlocksShrink
<1>5. num_allocated_blocks' = num_allocated_blocks - allocation_map[r]
  BY DEF Free
<1>6. num_allocated_blocks \in Int
  BY DEF MemoryTypes
<1>7. /\ IsFiniteSet(D) /\ Cardinality(D) \in Nat /\ BatchSizeCap \in Nat
      /\ Cardinality(D) <= BatchSizeCap
  BY HeldFinite, FS_CardinalityType, ReplicaAssumption DEF WithinCap
<1>8. Cardinality(D \ {r}) = Cardinality(D) - 1
  BY <1>7, FS_RemoveElement, Zenon
<1>9. WithinCap'
  BY <1>1, <1>7, <1>8 DEF WithinCap
<1> QED BY <1>2, <1>4, <1>5, <1>6, <1>9 DEF HeldBlocks

-----------------------------------------------------------------------------
(* What the schedulers have in common of their inductive invariants.  The   *)
(* assertion of allocate is not part of it: each scheduler has its own      *)
(* reason why there is room for what it allocates.                          *)
Core ==
    /\ ReplicaTypes
    /\ PipelineCount
    /\ NotArrived
    /\ num_allocated_blocks = Cardinality(HeldBlocks)
    /\ WithinCap

(* The types give those of the memory. *)
LEMMA MemoryTyped ==
    /\ ReplicaTypes => MemoryTypes
    /\ ReplicaTypes' => MemoryTypes'
BY DEF ReplicaTypes, MemoryTypes

(* Conserved, of the values of its variables: a queue, the paused requests, *)
(* a batch, a pipeline, the requests with blocks and the live ones.         *)
PlacesOK(q, p, b, bs, D, L) ==
    /\ IsInjective(q)
    /\ IsInjective(p)
    /\ DistinctIds(b)
    /\ DisjointBatches(bs)
    /\ Range(p) \cap Ids(b) = {}
    /\ Range(p) \cap IdsIn(bs) = {}
    /\ Ids(b) \cap IdsIn(bs) = {}
    /\ Range(q) \cap D = {}
    /\ D = Range(p) \cup Ids(b) \cup IdsIn(bs)
    /\ Range(q) \cup D = L

(* Nothing is lost at the start. *)
LEMMA CoreInit ==
    Init => /\ Core
            /\ num_allocated_blocks = 0
            /\ \A p : p = <<>> => Conserved(p)
<1> SUFFICES ASSUME Init
             PROVE  Core /\ num_allocated_blocks = 0 /\ \A p : p = <<>> => Conserved(p)
  OBVIOUS
<1>1. /\ <<>> \in Seq(Requests) /\ <<>> \in Seq(Seq(BatchEntry)) /\ <<>> \in Seq(BatchEntry)
      /\ <<>> \in Seq({"arrival", "batch_end"}) /\ Len(<<>>) = 0
  OBVIOUS
<1>2. req \in [Requests -> RequestRecord]
  <2>1. \A r \in Requests : asked[r].prefill \in Nat /\ asked[r].decode \in Nat
    BY ReplicaAssumption DEF Init
  <2> QED BY <2>1, RequestTypes DEF Init
<1>3. 0 \in 0 .. NumRequests /\ 0 \in 0 .. NumStages
  BY ReplicaAssumption
<1>4. DOMAIN allocation_map = {} /\ allocation_map \in [DOMAIN allocation_map -> Nat]
  BY DEF Init
<1>5. /\ asked \in [Requests -> [prefill : PrefillLens, decode : DecodeLens]]
      /\ num_arrived = 0 /\ request_queue = <<>> /\ preempted_requests = <<>>
      /\ num_allocated_blocks = 0 /\ num_running_batches = 0
      /\ running_batches = <<>> /\ schedule_events = <<>> /\ pc = "idle" /\ batch = <<>>
  BY DEF Init
<1>6. ReplicaTypes /\ PipelineCount
  BY <1>1, <1>2, <1>3, <1>4, <1>5 DEF ReplicaTypes, PipelineCount
<1>7. NotArrived
  BY DEF Init, NotArrived
<1>8. num_allocated_blocks = Cardinality(HeldBlocks)
  <2>1. HeldBlocks = {}
    BY <1>4 DEF HeldBlocks, BlocksIn
  <2> QED BY <1>5, <2>1, FS_EmptySet
<1>9. WithinCap
  BY <1>4, FS_EmptySet, ReplicaAssumption DEF WithinCap
<1>10. \A p : p = <<>> => Conserved(p)
  <2>1. /\ DOMAIN <<>> = {} /\ Range(<<>>) = {} /\ Ids(<<>>) = {} /\ IdsIn(<<>>) = {}
        /\ IsInjective(<<>>) /\ DistinctIds(<<>>) /\ DisjointBatches(<<>>)
    BY DEF Range, Ids, IdsIn, IsInjective, DistinctIds, DisjointBatches
  <2>2. Live = {}
    BY <1>5 DEF Live, Arrived
  <2> QED BY <1>4, <1>5, <2>1, <2>2 DEF Conserved, RunningIds
<1> QED BY <1>5, <1>6, <1>7, <1>8, <1>9, <1>10 DEF Core

(* Where live requests and blocks can be. *)
LEMMA LiveFacts ==
    ASSUME Core, NEW p, Conserved(p)
    PROVE  /\ Live \subseteq Arrived /\ Arrived \subseteq Requests
           /\ DOMAIN allocation_map \subseteq Live
           /\ Range(request_queue) \subseteq Live
           /\ \A r \in Requests \ Arrived : req[r].completed = FALSE
<1>1. num_arrived \in 0 .. NumRequests /\ NumRequests \in Nat
  BY ReplicaAssumption DEF Core, ReplicaTypes
<1>2. Arrived \subseteq Requests
  BY <1>1 DEF Arrived, Requests
<1>3. \A r \in Requests \ Arrived : req[r].completed = FALSE
  <2> TAKE r \in Requests \ Arrived
  <2>1. req[r] = NewRequest(asked[r].prefill, asked[r].decode)
    BY DEF Core, NotArrived
  <2> QED BY <2>1 DEF NewRequest
<1>4. Range(request_queue) \cup DOMAIN allocation_map = Live
  BY DEF Conserved
<1>5. Live \subseteq Arrived
  BY DEF Live
<1> QED BY <1>2, <1>3, <1>4, <1>5

(* The counters of a request, asked for or reached, are numbers. *)
LEMMA RequestFields ==
    ASSUME ReplicaTypes, NEW r \in Requests
    PROVE  /\ req[r] \in RequestRecord
           /\ req[r].prefill \in Nat /\ req[r].decode \in Int /\ req[r].processed \in Nat
           /\ req[r].prefill_complete \in BOOLEAN /\ req[r].completed \in BOOLEAN
           /\ asked[r].prefill \in Nat \ {0} /\ asked[r].decode \in Nat \ {0}
           /\ TotalTokens(req[r]) = req[r].prefill + req[r].decode
           /\ TotalTokens(asked[r]) = asked[r].prefill + asked[r].decode
<1>1. asked[r].prefill \in PrefillLens /\ asked[r].decode \in DecodeLens
  BY DEF ReplicaTypes
<1> QED BY <1>1, ReplicaAssumption DEF ReplicaTypes, RequestRecord, TotalTokens

(* Nothing changes for the requests that have not arrived when only those   *)
(* that hold blocks do.                                                     *)
LEMMA NotArrivedFrame ==
    ASSUME Core, NEW p, Conserved(p), asked' = asked,
           num_arrived' \in Nat, num_arrived <= num_arrived',
           \A r \in Requests \ DOMAIN allocation_map : req'[r] = req[r]
    PROVE  NotArrived'
<1>1. num_arrived \in Nat
  BY DEF Core, ReplicaTypes
<1>2. \A r \in Requests : r \notin Arrived' => r \notin Arrived
  BY <1>1 DEF Arrived, Requests
<1> QED BY <1>2, LiveFacts DEF Core, NotArrived

-----------------------------------------------------------------------------
(* The steps of ReplicaScheduler: each keeps the common part of the         *)
(* invariant and moves requests from one place to another.                  *)

(* Requests arrive at the end of the queue. *)
LEMMA ArrivalMove ==
    ASSUME Core, NEW p, Conserved(p), AddRequests
    PROVE  /\ Core'
           /\ PlacesOK(request_queue', p, batch', running_batches',
                       DOMAIN allocation_map', Live')
           /\ \A r \in Range(request_queue') :
                r \in Range(request_queue) \/ r \in Requests \ Arrived
<1>0. ReplicaTypes /\ PipelineCount
  BY DEF Core
<1>1. PICK last \in num_arrived + 1 .. NumRequests :
            /\ request_queue' = request_queue \o
                    [i \in 1 .. last - num_arrived |-> num_arrived + i]
            /\ num_arrived' = last
  BY DEF AddRequests
<1>2. num_arrived \in 0 .. NumRequests /\ NumRequests \in Nat
  BY <1>0, ReplicaAssumption DEF ReplicaTypes
<1>3. last - num_arrived \in Nat /\ last \in 0 .. NumRequests
  BY <1>2
<1> DEFINE new == [i \in 1 .. last - num_arrived |-> num_arrived + i]
<1>4. /\ new \in [1 .. last - num_arrived -> Requests]
      /\ Range(new) = num_arrived + 1 .. last /\ IsInjective(new)
  <2>1. new \in [1 .. last - num_arrived -> Requests] /\ IsInjective(new)
    BY <1>2 DEF Requests, IsInjective
  <2>2. \A x \in num_arrived + 1 .. last :
            x - num_arrived \in 1 .. last - num_arrived /\ new[x - num_arrived] = x
    BY <1>2, <1>3
  <2>3. \A i \in 1 .. last - num_arrived : new[i] \in num_arrived + 1 .. last
    BY <1>2, <1>3
  <2> QED BY <2>1, <2>2, <2>3 DEF Range
<1>5. new \in Seq(Requests)
  BY <1>3, <1>4, SeqDef
<1>6. /\ Range(new) \cap Arrived = {} /\ Arrived' = Arrived \cup Range(new)
      /\ Range(new) \subseteq Requests
  <2>1. Range(new) = num_arrived + 1 .. last
    BY <1>4
  <2> HIDE DEF new
  <2> QED BY <1>1, <1>2, <2>1 DEF Arrived, Requests
<1>7. request_queue' = request_queue \o new /\ request_queue \in Seq(Requests)
  BY <1>0, <1>1 DEF ReplicaTypes
<1> HIDE DEF new
<1>8. UNCHANGED <<asked, req, preempted_requests, allocation_map, num_allocated_blocks,
                  num_running_batches, running_batches, pc, batch>>
  BY DEF AddRequests, memory, pipeline
<1>9. Range(request_queue) \cap Range(new) = {}
  BY <1>6, LiveFacts
<1>10. /\ request_queue' \in Seq(Requests)
       /\ Range(request_queue') = Range(request_queue) \cup Range(new)
       /\ IsInjective(request_queue')
  BY <1>4, <1>5, <1>7, <1>9, ConcatRange DEF Conserved
<1>11. schedule_events' \in Seq({"arrival", "batch_end"})
  BY <1>0, AppendProperties DEF ReplicaTypes, AddRequests
<1>12. ReplicaTypes' /\ PipelineCount'
  BY <1>0, <1>1, <1>3, <1>8, <1>10, <1>11 DEF ReplicaTypes, PipelineCount
<1>13. NotArrived'
  BY <1>1, <1>2, <1>3, <1>8, NotArrivedFrame
<1>14. Core'
  BY <1>8, <1>12, <1>13 DEF Core, HeldBlocks, WithinCap
<1>15. Live' = Live \cup Range(new)
  BY <1>6, <1>8, LiveFacts DEF Live
<1>16. Range(new) \cap DOMAIN allocation_map = {}
  BY <1>6, LiveFacts
<1> QED BY <1>6, <1>8, <1>10, <1>14, <1>15, <1>16 DEF PlacesOK, Conserved, RunningIds

(* Steps that only handle an event leave every request where it is. *)
LEMMA EventMove ==
    ASSUME Core, NEW p, Conserved(p), OnSchedule \/ BatchEnded
    PROVE  /\ Core'
           /\ PlacesOK(request_queue', p, batch', running_batches',
                       DOMAIN allocation_map', Live')
<1>0. ReplicaTypes /\ PipelineCount
  BY DEF Core
<1>1. UNCHANGED <<asked, req, num_arrived, request_queue, preempted_requests, allocation_map,
                  num_allocated_blocks, num_running_batches, running_batches, batch>>
  BY DEF OnSchedule, BatchEnded, memory, pipeline
<1>2. schedule_events' \in Seq({"arrival", "batch_end"})
  <2>1. CASE OnSchedule
    BY <1>0, <2>1, HeadTailProperties DEF ReplicaTypes, OnSchedule
  <2>2. CASE BatchEnded
    BY <1>0, <2>2, AppendProperties DEF ReplicaTypes, BatchEnded
  <2> QED BY <2>1, <2>2
<1>3. PipelineCount'
  BY <1>0, <1>1 DEF PipelineCount, OnSchedule, BatchEnded, NextLoop
<1>4. ReplicaTypes'
  BY <1>0, <1>1, <1>2 DEF ReplicaTypes
<1>5. Live' = Live /\ NotArrived'
  BY <1>1 DEF Live, Arrived, Core, NotArrived
<1> QED BY <1>1, <1>3, <1>4, <1>5
        DEF Core, PlacesOK, Conserved, RunningIds, HeldBlocks, WithinCap

(* The oldest batch leaves the pipeline. *)
LEMMA BatchEndMove ==
    ASSUME Core, NEW p, Conserved(p), BatchEnd
    PROVE  /\ Core'
           /\ PlacesOK(request_queue', p, batch', running_batches',
                       DOMAIN allocation_map', Live')
           /\ RunningIds' \cup Ids(batch') = RunningIds \cup Ids(batch)
           /\ \E k \in DOMAIN running_batches : batch' = running_batches[k]
           /\ \A k \in DOMAIN running_batches' :
                \E l \in DOMAIN running_batches : running_batches'[k] = running_batches[l]
<1>0. ReplicaTypes /\ PipelineCount
  BY DEF Core
<1>1. /\ running_batches' = Tail(running_batches) /\ batch' = Head(running_batches)
      /\ running_batches # <<>> /\ num_running_batches' = num_running_batches - 1
      /\ pc = "idle" /\ pc' = "end"
      /\ UNCHANGED <<asked, req, num_arrived, request_queue, preempted_requests,
                     allocation_map, num_allocated_blocks, schedule_events>>
  BY DEF BatchEnd, memory
<1>2. /\ running_batches \in Seq(Seq(BatchEntry)) /\ DisjointBatches(running_batches)
      /\ Ids(batch) = {}
  BY <1>0, <1>1 DEF ReplicaTypes, Conserved, PipelineCount, Ids
<1>3. /\ batch' \in Seq(BatchEntry) /\ running_batches' \in Seq(Seq(BatchEntry))
      /\ Len(running_batches) \in Nat \ {0}
      /\ Len(running_batches') = Len(running_batches) - 1
      /\ \E k \in DOMAIN running_batches : batch' = running_batches[k]
      /\ \A k \in DOMAIN running_batches' :
            \E l \in DOMAIN running_batches : running_batches'[k] = running_batches[l]
      /\ RunningIds = RunningIds' \cup Ids(batch')
      /\ DistinctIds(batch') /\ DisjointBatches(running_batches')
      /\ Ids(batch') \cap RunningIds' = {}
  BY <1>1, <1>2, PipelineTail DEF RunningIds
<1>4. num_running_batches' \in 0 .. NumStages
  BY <1>0, <1>1, <1>3, ReplicaAssumption DEF ReplicaTypes, PipelineCount
<1>5. ReplicaTypes' /\ PipelineCount'
  BY <1>0, <1>1, <1>3, <1>4 DEF ReplicaTypes, PipelineCount
<1>6. Live' = Live /\ NotArrived'
  BY <1>1 DEF Live, Arrived, Core, NotArrived
<1>7. Core'
  BY <1>1, <1>5, <1>6 DEF Core, HeldBlocks, WithinCap
<1> QED BY <1>1, <1>2, <1>3, <1>6, <1>7 DEF PlacesOK, Conserved, RunningIds

(* The requests of a batch hold blocks. *)
LEMMA BatchHolds ==
    ASSUME Core, NEW p, Conserved(p)
    PROVE  /\ \A r \in Ids(batch) \cup RunningIds \cup Range(p) :
                r \in DOMAIN allocation_map /\ r \in Requests /\ ~req[r].completed
           /\ \A r \in Range(request_queue) :
                r \notin DOMAIN allocation_map /\ r \in Requests /\ ~req[r].completed
BY LiveFacts DEF Conserved, Live

(* A request of the ending batch is completed and frees its blocks, or it   *)
(* joins the paused ones.                                                   *)
LEMMA EndRequestMove ==
    ASSUME Core, NEW p, Conserved(p), EndRequest
    PROVE  LET r == Head(batch).id
               n == Head(batch).tokens
           IN  /\ Core'
               /\ num_allocated_blocks' <= num_allocated_blocks
               /\ Head(batch) \in Range(batch) /\ Range(batch') \subseteq Range(batch)
               /\ r \in Requests /\ n \in Nat /\ ~req[r].completed
               /\ r \notin Range(p) /\ r \notin Ids(batch') /\ r \notin RunningIds'
               /\ r \notin Range(request_queue)
               /\ Ids(batch) = Ids(batch') \cup {r}
               /\ req'[r] = OnBatchEnd(req[r], n)
               /\ \A x \in Requests \ {r} : req'[x] = req[x]
               /\ \A x \in DOMAIN allocation_map \ {r} : allocation_map'[x] = allocation_map[x]
               /\ req'[r].completed =>
                    /\ preempted_requests' = preempted_requests
                    /\ PlacesOK(request_queue', p, batch', running_batches',
                                DOMAIN allocation_map', Live')
               /\ ~req'[r].completed =>
                    /\ preempted_requests' = Append(preempted_requests, r)
                    /\ allocation_map' = allocation_map
                    /\ \A p2 : IsInjective(p2) /\ Range(p2) = Range(p) \cup {r} =>
                            PlacesOK(request_queue', p2, batch', running_batches',
                                     DOMAIN allocation_map', Live')
<1> DEFINE r == Head(batch).id
           n == Head(batch).tokens
           q == OnBatchEnd(req[r], n)
<1>0. ReplicaTypes /\ PipelineCount
  BY DEF Core
<1>1. /\ batch \in Seq(BatchEntry) /\ batch # <<>> /\ batch' = Tail(batch)
      /\ req' = [req EXCEPT ![r] = q]
      /\ pc = "end"
      /\ UNCHANGED <<asked, num_arrived, request_queue, num_running_batches, running_batches,
                     schedule_events, pc>>
  BY <1>0 DEF ReplicaTypes, EndRequest, pipeline
<1>2. /\ Head(batch) \in BatchEntry /\ batch' \in Seq(BatchEntry)
      /\ Ids(batch) = Ids(batch') \cup {r} /\ r \notin Ids(batch') /\ DistinctIds(batch')
  BY <1>1, BatchTail DEF Conserved
<1>3. Head(batch) \in Range(batch) /\ Range(batch') \subseteq Range(batch)
  BY <1>1, TailRange
<1>4. /\ r \in DOMAIN allocation_map /\ r \in Live /\ r \in Requests /\ n \in Nat
      /\ r \notin Range(p) /\ r \notin RunningIds /\ r \notin Range(request_queue)
      /\ ~req[r].completed
  BY <1>2, LiveFacts DEF Conserved, BatchEntry, Live
<1>5. /\ req'[r] = q /\ \A x \in Requests \ {r} : req'[x] = req[x]
      /\ q \in RequestRecord
  BY <1>0, <1>1, <1>4, RequestTypes DEF ReplicaTypes
<1>6. req' \in [Requests -> RequestRecord]
  BY <1>0, <1>1, <1>4, <1>5 DEF ReplicaTypes
<1>7. RunningIds' = RunningIds /\ Arrived' = Arrived /\ q.completed \in BOOLEAN
  BY <1>1, <1>5 DEF RunningIds, Arrived, RequestRecord
<1> HIDE DEF q
<1>8. NotArrived'
  BY <1>0, <1>1, <1>4, <1>5, NotArrivedFrame DEF ReplicaTypes
<1>9. CASE q.completed /\ Free(r) /\ UNCHANGED preempted_requests
  <2>1. /\ DOMAIN allocation_map' = DOMAIN allocation_map \ {r}
        /\ allocation_map' \in [DOMAIN allocation_map' -> Nat]
        /\ num_allocated_blocks' \in Int
        /\ \A x \in DOMAIN allocation_map \ {r} : allocation_map'[x] = allocation_map[x]
    BY <1>0, <1>4, <1>9, FreeType, MemoryTyped
  <2>2. ReplicaTypes' /\ PipelineCount'
    BY <1>0, <1>1, <1>2, <1>6, <1>9, <2>1 DEF ReplicaTypes, PipelineCount
  <2>3. /\ num_allocated_blocks' = Cardinality(HeldBlocks')
        /\ num_allocated_blocks' <= num_allocated_blocks
        /\ WithinCap'
    BY <1>0, <1>4, <1>9, <2>2, FreeAccounting, MemoryTyped DEF Core
  <2>4. Live' = Live \ {r}
    BY <1>4, <1>5, <1>7, <1>9, LiveFacts DEF Live
  <2>5. PlacesOK(request_queue', p, batch', running_batches', DOMAIN allocation_map', Live')
    BY <1>1, <1>2, <1>4, <1>7, <2>1, <2>4 DEF PlacesOK, Conserved, RunningIds
  <2> QED BY <1>1, <1>2, <1>3, <1>4, <1>5, <1>7, <1>8, <1>9, <2>1, <2>2, <2>3, <2>5 DEF Core, q
<1>10. CASE ~q.completed /\ preempted_requests' = Append(preempted_requests, r)
                         /\ UNCHANGED memory
  <2>1. UNCHANGED <<allocation_map, num_allocated_blocks>>
    BY <1>10 DEF memory
  <2>2. preempted_requests' \in Seq(Requests)
    BY <1>0, <1>4, <1>10, AppendProperties DEF ReplicaTypes
  <2>3. ReplicaTypes' /\ PipelineCount'
    BY <1>0, <1>1, <1>2, <1>6, <2>1, <2>2 DEF ReplicaTypes, PipelineCount
  <2>4. Core' /\ num_allocated_blocks' <= num_allocated_blocks
    BY <1>0, <1>8, <2>1, <2>3 DEF Core, HeldBlocks, WithinCap, ReplicaTypes
  <2>5. Live' = Live
    BY <1>4, <1>5, <1>7, <1>10, LiveFacts DEF Live
  <2>6. ASSUME NEW p2, IsInjective(p2), Range(p2) = Range(p) \cup {r}
        PROVE  PlacesOK(request_queue', p2, batch', running_batches',
                        DOMAIN allocation_map', Live')
    BY <1>1, <1>2, <1>4, <1>7, <2>1, <2>5, <2>6 DEF PlacesOK, Conserved, RunningIds
  <2> QED BY <1>1, <1>2, <1>3, <1>4, <1>5, <1>7, <1>10, <2>1, <2>4, <2>6 DEF q
<1> QED BY <1>9, <1>10 DEF EndRequest, q

(* The batch that was formed enters the pipeline, or there is none.         *)
LEMMA ReturnMove ==
    ASSUME Core, NEW p, Conserved(p), pc \notin {"idle", "end"}, ReturnBatch,
           UNCHANGED <<asked, req, num_arrived, request_queue, memory, schedule_events>>,
           preempted_requests' \in Seq(Requests)
    PROVE  /\ Core'
           /\ PlacesOK(request_queue', p, batch', running_batches',
                       DOMAIN allocation_map', Live')
           /\ pc' \in {"idle", "form"}
           /\ batch' = <<>>
           /\ RunningIds' \cup Ids(batch') = RunningIds \cup Ids(batch)
           /\ \A k \in DOMAIN running_batches' :
                \/ k \in DOMAIN running_batches /\ running_batches'[k] = running_batches[k]
                \/ running_batches'[k] = batch
<1>0. ReplicaTypes /\ PipelineCount
  BY DEF Core
<1>1. /\ running_batches \in Seq(Seq(BatchEntry)) /\ batch \in Seq(BatchEntry)
      /\ NumStages \in Nat
      /\ num_running_batches \in Nat /\ num_running_batches < NumStages
      /\ num_running_batches = Len(running_batches)
      /\ DistinctIds(batch) /\ DisjointBatches(running_batches)
      /\ Ids(batch) \cap RunningIds = {}
  BY <1>0, ReplicaAssumption DEF ReplicaTypes, PipelineCount, Conserved
<1>2. /\ <<>> \in Seq(BatchEntry) /\ Ids(<<>>) = {} /\ DistinctIds(<<>>)
  BY DEF Ids, DistinctIds
<1>3. /\ batch' = <<>> /\ pc' \in {"idle", "form"}
      /\ running_batches' \in Seq(Seq(BatchEntry))
      /\ num_running_batches' \in 0 .. NumStages
      /\ num_running_batches' = Len(running_batches')
      /\ pc' = "form" => num_running_batches' < NumStages
      /\ RunningIds' = RunningIds \cup Ids(batch)
      /\ DisjointBatches(running_batches')
      /\ \A k \in DOMAIN running_batches' :
            \/ k \in DOMAIN running_batches /\ running_batches'[k] = running_batches[k]
            \/ running_batches'[k] = batch
  <2>1. CASE batch = <<>>
    <3>1. running_batches' = running_batches /\ num_running_batches' = num_running_batches
          /\ batch' = batch /\ pc' = "idle"
      BY <2>1 DEF ReturnBatch, pipeline
    <3> QED BY <1>1, <1>2, <2>1, <3>1 DEF RunningIds
  <2>2. CASE batch # <<>>
    <3>1. /\ running_batches' = Append(running_batches, batch) /\ batch' = <<>>
          /\ num_running_batches' = num_running_batches + 1
          /\ pc' = NextLoop(num_running_batches + 1)
      BY <2>2 DEF ReturnBatch
    <3>2. /\ running_batches' \in Seq(Seq(BatchEntry))
          /\ Len(running_batches') = Len(running_batches) + 1
          /\ RunningIds' = RunningIds \cup Ids(batch)
          /\ DisjointBatches(running_batches')
          /\ \A k \in DOMAIN running_batches' :
                \/ k \in DOMAIN running_batches /\ running_batches'[k] = running_batches[k]
                \/ running_batches'[k] = batch
      BY <1>1, <3>1, PipelineAppend DEF RunningIds
    <3>3. pc' \in {"idle", "form"} /\ (pc' = "form" => num_running_batches' < NumStages)
      BY <3>1 DEF NextLoop
    <3> QED BY <1>1, <3>1, <3>2, <3>3
  <2> QED BY <2>1, <2>2
<1>4. UNCHANGED <<asked, req, num_arrived, request_queue, allocation_map,
                  num_allocated_blocks, schedule_events>>
  BY DEF memory
<1>5. ReplicaTypes' /\ PipelineCount'
  BY <1>0, <1>2, <1>3, <1>4 DEF ReplicaTypes, PipelineCount
<1>6. Live' = Live /\ NotArrived'
  BY <1>4 DEF Live, Arrived, Core, NotArrived
<1>7. Core'
  BY <1>4, <1>5, <1>6 DEF Core, HeldBlocks, WithinCap
<1> QED BY <1>2, <1>3, <1>4, <1>6, <1>7 DEF PlacesOK, Conserved, RunningIds

(* The head of the queue is given k blocks and n tokens in the batch. *)
LEMMA AdmitMove ==
    ASSUME Core, NEW p, Conserved(p), pc \notin {"idle", "end"},
           request_queue # <<>>, NEW r, r = Head(request_queue),
           NEW k \in Nat, Allocate(r, k),
           NEW n \in Nat, batch' = Append(batch, [id |-> r, tokens |-> n]),
           request_queue' = Tail(request_queue),
           Cardinality(DOMAIN allocation_map) # BatchSizeCap,
           UNCHANGED <<asked, req, num_arrived, preempted_requests, pipeline,
                       schedule_events, pc>>
    PROVE  /\ Core'
           /\ PlacesOK(request_queue', p, batch', running_batches',
                       DOMAIN allocation_map', Live')
           /\ num_allocated_blocks' = num_allocated_blocks + k
           /\ r \in Requests /\ r \in Range(request_queue) /\ r \notin DOMAIN allocation_map
           /\ r \notin Range(request_queue')
           /\ Range(request_queue') \subseteq Range(request_queue)
           /\ Ids(batch') = Ids(batch) \cup {r}
           /\ Range(batch') = Range(batch) \cup {[id |-> r, tokens |-> n]}
           /\ allocation_map'[r] = k
           /\ \A x \in DOMAIN allocation_map : allocation_map'[x] = allocation_map[x]
<1>0. ReplicaTypes /\ PipelineCount
  BY DEF Core
<1>1. /\ request_queue \in Seq(Requests) /\ batch \in Seq(BatchEntry)
      /\ UNCHANGED <<num_running_batches, running_batches>>
  BY <1>0 DEF ReplicaTypes, pipeline
<1>2. /\ r \in Range(request_queue) /\ request_queue' \in Seq(Requests)
      /\ Range(request_queue) = Range(request_queue') \cup {r}
      /\ IsInjective(request_queue') /\ r \notin Range(request_queue')
  BY <1>1, TailRange DEF Conserved
<1>3. r \in Requests /\ r \notin DOMAIN allocation_map
  BY <1>2, BatchHolds
<1>4. /\ DOMAIN allocation_map' = DOMAIN allocation_map \cup {r}
      /\ allocation_map' \in [DOMAIN allocation_map' -> Nat]
      /\ num_allocated_blocks' \in Int
      /\ allocation_map'[r] = BlocksOf(r) + k
      /\ \A x \in DOMAIN allocation_map \ {r} : allocation_map'[x] = allocation_map[x]
  BY <1>0, <1>3, AllocateType, MemoryTyped
<1>5. allocation_map'[r] = k
  BY <1>3, <1>4 DEF BlocksOf
<1>6. /\ batch' \in Seq(BatchEntry) /\ Ids(batch') = Ids(batch) \cup {r}
      /\ DistinctIds(batch')
  BY <1>1, <1>3, BatchAppend DEF Conserved
<1>7. Range(batch') = Range(batch) \cup {[id |-> r, tokens |-> n]}
  <2>1. [id |-> r, tokens |-> n] \in BatchEntry
    BY <1>3 DEF BatchEntry
  <2> QED BY <1>1, <2>1, AppendRange
<1>8. ReplicaTypes' /\ PipelineCount'
  BY <1>0, <1>1, <1>2, <1>3, <1>4, <1>6 DEF ReplicaTypes, PipelineCount
<1>9. /\ num_allocated_blocks' = Cardinality(HeldBlocks')
      /\ num_allocated_blocks' = num_allocated_blocks + k
      /\ WithinCap'
  BY <1>0, <1>3, <1>8, AllocateAccounting, MemoryTyped DEF Core
<1>10. Live' = Live /\ NotArrived'
  BY DEF Live, Arrived, Core, NotArrived
<1>11. Core'
  BY <1>8, <1>9, <1>10 DEF Core
<1>12. PlacesOK(request_queue', p, batch', running_batches', DOMAIN allocation_map', Live')
  BY <1>1, <1>2, <1>3, <1>4, <1>6, <1>10 DEF PlacesOK, Conserved, RunningIds
<1> QED BY <1>2, <1>3, <1>4, <1>5, <1>6, <1>7, <1>9, <1>11, <1>12

(* A paused request joins the batch with k more blocks, or none. *)
LEMMA ResumeMove ==
    ASSUME Core, NEW p, Conserved(p), pc \notin {"idle", "end"},
           NEW r \in Range(p), NEW p2, IsInjective(p2),
           Range(p) = Range(p2) \cup {r}, r \notin Range(p2),
           NEW k \in Nat, Allocate(r, k) \/ (k = 0 /\ UNCHANGED memory),
           NEW n \in Nat, batch' = Append(batch, [id |-> r, tokens |-> n]),
           preempted_requests' \in Seq(Requests),
           UNCHANGED <<asked, req, num_arrived, request_queue, pipeline, schedule_events, pc>>
    PROVE  /\ Core'
           /\ PlacesOK(request_queue', p2, batch', running_batches',
                       DOMAIN allocation_map', Live')
           /\ num_allocated_blocks' = num_allocated_blocks + k
           /\ r \in Requests /\ r \in DOMAIN allocation_map
           /\ r \notin Ids(batch) /\ r \notin RunningIds
           /\ Ids(batch') = Ids(batch) \cup {r}
           /\ Range(batch') = Range(batch) \cup {[id |-> r, tokens |-> n]}
           /\ allocation_map'[r] = allocation_map[r] + k
           /\ \A x \in DOMAIN allocation_map \ {r} : allocation_map'[x] = allocation_map[x]
<1>0. ReplicaTypes /\ PipelineCount
  BY DEF Core
<1>1. /\ batch \in Seq(BatchEntry)
      /\ UNCHANGED <<num_running_batches, running_batches>>
  BY <1>0 DEF ReplicaTypes, pipeline
<1>3. /\ r \in Requests /\ r \in DOMAIN allocation_map /\ allocation_map[r] \in Nat
      /\ r \notin Ids(batch) /\ r \notin RunningIds
  <2>1. r \in Requests /\ r \in DOMAIN allocation_map
    BY BatchHolds
  <2> QED BY <1>0, <2>1 DEF ReplicaTypes, Conserved
<1>4. /\ DOMAIN allocation_map' = DOMAIN allocation_map
      /\ allocation_map' \in [DOMAIN allocation_map' -> Nat]
      /\ num_allocated_blocks' \in Int
      /\ allocation_map'[r] = allocation_map[r] + k
      /\ \A x \in DOMAIN allocation_map \ {r} : allocation_map'[x] = allocation_map[x]
  <2>1. CASE Allocate(r, k)
    <3>1. /\ DOMAIN allocation_map' = DOMAIN allocation_map \cup {r}
          /\ allocation_map' \in [DOMAIN allocation_map' -> Nat]
          /\ num_allocated_blocks' \in Int
          /\ allocation_map'[r] = BlocksOf(r) + k
          /\ \A x \in DOMAIN allocation_map \ {r} : allocation_map'[x] = allocation_map[x]
      BY <1>0, <1>3, <2>1, AllocateType, MemoryTyped
    <3>2. BlocksOf(r) = allocation_map[r]
      BY <1>3 DEF BlocksOf
    <3> QED BY <1>3, <3>1, <3>2
  <2>2. CASE k = 0 /\ UNCHANGED memory
    BY <1>0, <1>3, <2>2 DEF memory, ReplicaTypes
  <2> QED BY <2>1, <2>2
<1>6. /\ batch' \in Seq(BatchEntry) /\ Ids(batch') = Ids(batch) \cup {r}
      /\ DistinctIds(batch')
  BY <1>1, <1>3, BatchAppend DEF Conserved
<1>7. Range(batch') = Range(batch) \cup {[id |-> r, tokens |-> n]}
  <2>1. [id |-> r, tokens |-> n] \in BatchEntry
    BY <1>3 DEF BatchEntry
  <2> QED BY <1>1, <2>1, AppendRange
<1>8. ReplicaTypes' /\ PipelineCount'
  BY <1>0, <1>1, <1>3, <1>4, <1>6 DEF ReplicaTypes, PipelineCount
<1>9. /\ num_allocated_blocks' = Cardinality(HeldBlocks')
      /\ num_allocated_blocks' = num_allocated_blocks + k
      /\ WithinCap'
  <2>1. CASE Allocate(r, k)
    BY <1>0, <1>3, <1>8, <2>1, AllocateAccounting, MemoryTyped DEF Core
  <2>2. CASE k = 0 /\ UNCHANGED memory
    <3>1. num_allocated_blocks \in Int
      BY <1>0 DEF ReplicaTypes
    <3> QED BY <2>2, <3>1 DEF memory, Core, HeldBlocks, WithinCap
  <2> QED BY <2>1, <2>2
<1>10. Live' = Live /\ NotArrived'
  BY DEF Live, Arrived, Core, NotArrived
<1>11. Core'
  BY <1>8, <1>9, <1>10 DEF Core
<1>12. PlacesOK(request_queue', p2, batch', running_batches', DOMAIN allocation_map', Live')
  BY <1>1, <1>3, <1>4, <1>6, <1>10 DEF PlacesOK, Conserved, RunningIds
<1> QED BY <1>3, <1>4, <1>6, <1>7, <1>9, <1>11, <1>12

(* A paused request gives its blocks back and is restarted from the head of *)
(* the queue.                                                               *)
Evicted(r) ==
    /\ req' = [req EXCEPT ![r] = Restart(@)]
    /\ Free(r)
    /\ request_queue' = <<r>> \o request_queue

(* An eviction moves one request from the paused ones to the queue. *)
LEMMA EvictMove ==
    ASSUME Core, NEW p, Conserved(p), pc \notin {"idle", "end"},
           NEW r \in Range(p), NEW p2, IsInjective(p2),
           Range(p) = Range(p2) \cup {r}, r \notin Range(p2),
           Evicted(r), preempted_requests' \in Seq(Requests),
           UNCHANGED <<asked, num_arrived, pipeline, schedule_events, pc, batch>>
    PROVE  /\ Core'
           /\ PlacesOK(request_queue', p2, batch', running_batches',
                       DOMAIN allocation_map', Live')
           /\ num_allocated_blocks' <= num_allocated_blocks
           /\ r \in Requests /\ r \in DOMAIN allocation_map
           /\ r \notin Ids(batch) /\ r \notin RunningIds /\ r \notin Range(request_queue)
           /\ Range(request_queue') = Range(request_queue) \cup {r}
           /\ req'[r] = Restart(req[r])
           /\ \A x \in Requests \ {r} : req'[x] = req[x]
           /\ \A x \in DOMAIN allocation_map \ {r} : allocation_map'[x] = allocation_map[x]
<1>0. ReplicaTypes /\ PipelineCount
  BY DEF Core
<1>1. /\ request_queue \in Seq(Requests)
      /\ UNCHANGED <<num_running_batches, running_batches>>
  BY <1>0 DEF ReplicaTypes, pipeline
<1>2. /\ r \in Requests /\ r \in DOMAIN allocation_map
      /\ r \notin Ids(batch) /\ r \notin RunningIds /\ r \notin Range(request_queue)
  <2>1. r \in Requests /\ r \in DOMAIN allocation_map
    BY BatchHolds
  <2> QED BY <2>1 DEF Conserved
<1>3. /\ request_queue' \in Seq(Requests) /\ IsInjective(request_queue')
      /\ Range(request_queue') = Range(request_queue) \cup {r}
  BY <1>1, <1>2, PrependRange DEF Conserved, Evicted
<1>4. /\ DOMAIN allocation_map' = DOMAIN allocation_map \ {r}
      /\ allocation_map' \in [DOMAIN allocation_map' -> Nat]
      /\ num_allocated_blocks' \in Int
      /\ \A x \in DOMAIN allocation_map \ {r} : allocation_map'[x] = allocation_map[x]
  BY <1>0, <1>2, FreeType, MemoryTyped DEF Evicted
<1>5. /\ req'[r] = Restart(req[r]) /\ \A x \in Requests \ {r} : req'[x] = req[x]
      /\ req' \in [Requests -> RequestRecord]
  <2>1. Restart(req[r]) \in RequestRecord
    BY <1>0, <1>2, RequestTypes DEF ReplicaTypes
  <2> QED BY <1>0, <1>2, <2>1 DEF ReplicaTypes, Evicted
<1>6. ReplicaTypes' /\ PipelineCount'
  BY <1>0, <1>1, <1>3, <1>4, <1>5 DEF ReplicaTypes, PipelineCount
<1>7. /\ num_allocated_blocks' = Cardinality(HeldBlocks')
      /\ num_allocated_blocks' <= num_allocated_blocks
      /\ WithinCap'
  BY <1>0, <1>2, <1>6, FreeAccounting, MemoryTyped DEF Core, Evicted
<1>8. NotArrived'
  <2>1. num_arrived \in Nat /\ num_arrived <= num_arrived' /\ num_arrived' \in Nat
    BY <1>0 DEF ReplicaTypes
  <2>2. \A x \in Requests \ DOMAIN allocation_map : req'[x] = req[x]
    BY <1>2, <1>5
  <2> QED BY <2>1, <2>2, NotArrivedFrame
<1>9. Core'
  BY <1>6, <1>7, <1>8 DEF Core
<1>10. Live' = Live
  <2>1. req'[r].completed = FALSE
    BY <1>5 DEF Restart, NewRequest
  <2>2. Arrived' = Arrived /\ r \in Live
    BY <1>2, LiveFacts DEF Arrived
  <2> QED BY <1>5, <2>1, <2>2, LiveFacts DEF Live
<1>11. PlacesOK(request_queue', p2, batch', running_batches', DOMAIN allocation_map', Live')
  BY <1>1, <1>2, <1>3, <1>4, <1>10 DEF PlacesOK, Conserved, RunningIds
<1> QED BY <1>2, <1>3, <1>4, <1>5, <1>7, <1>9, <1>11

(* Only the order of the paused requests changes, or the list they are in. *)
LEMMA ShuffleMove ==
    ASSUME Core, NEW p, Conserved(p), pc \notin {"idle", "end"},
           NEW p2, IsInjective(p2), Range(p2) = Range(p),
           preempted_requests' \in Seq(Requests), pc' # "idle",
           UNCHANGED <<asked, req, num_arrived, request_queue, memory, pipeline,
                       schedule_events, batch>>
    PROVE  /\ Core'
           /\ PlacesOK(request_queue', p2, batch', running_batches',
                       DOMAIN allocation_map', Live')
<1>1. ReplicaTypes /\ PipelineCount
  BY DEF Core
<1>2. UNCHANGED <<allocation_map, num_allocated_blocks, num_running_batches, running_batches>>
  BY DEF memory, pipeline
<1>3. ReplicaTypes' /\ PipelineCount'
  BY <1>1, <1>2 DEF ReplicaTypes, PipelineCount
<1>4. Live' = Live /\ NotArrived'
  BY DEF Live, Arrived, Core, NotArrived
<1> QED BY <1>2, <1>3, <1>4 DEF Core, PlacesOK, Conserved, RunningIds, HeldBlocks, WithinCap

-----------------------------------------------------------------------------
(* The refinement of TokenService: what a scheduler has to show of its      *)
(* steps.                                                                   *)

(* A request has produced less than it asked for until it is completed. *)
OutputBounded ==
    \A r \in Requests : /\ Emitted(r) <= asked[r].decode
                        /\ req[r].completed <=> Emitted(r) = asked[r].decode

(* What the phases of the service are in the scheduler. *)
Phases ==
    \A r \in Requests :
        /\ PhaseOf(r) = "coming" <=> r \notin Arrived
        /\ PhaseOf(r) = "done" <=> r \in Arrived /\ req[r].completed
        /\ PhaseOf(r) = "paused" <=> r \in Range(preempted_requests)
        /\ PhaseOf(r) = "running" <=> r \in RunningIds \cup Ids(batch)
        /\ PhaseOf(r) = "waiting" <=> r \in Range(request_queue)
        /\ PhaseOf(r) \in {"coming", "done", "paused", "running", "waiting"}

(* Since no request is lost or duplicated it is in the one place its phase  *)
(* names.                                                                   *)
LEMMA PhaseMeaning == Core /\ Conserved(preempted_requests) => Phases
<1> SUFFICES ASSUME Core, Conserved(preempted_requests), NEW r \in Requests
             PROVE  /\ PhaseOf(r) = "coming" <=> r \notin Arrived
                    /\ PhaseOf(r) = "done" <=> r \in Arrived /\ req[r].completed
                    /\ PhaseOf(r) = "paused" <=> r \in Range(preempted_requests)
                    /\ PhaseOf(r) = "running" <=> r \in RunningIds \cup Ids(batch)
                    /\ PhaseOf(r) = "waiting" <=> r \in Range(request_queue)
                    /\ PhaseOf(r) \in {"coming", "done", "paused", "running", "waiting"}
  BY DEF Phases
<1> DEFINE queued  == r \in Range(request_queue)
           paused  == r \in Range(preempted_requests)
           running == r \in RunningIds \cup Ids(batch)
           live    == r \in Arrived /\ ~req[r].completed
<1>1. /\ r > num_arrived <=> r \notin Arrived
  <2>1. r \in Int /\ 1 <= r /\ num_arrived \in Int
    BY ReplicaAssumption DEF Core, ReplicaTypes, Requests
  <2> QED BY <2>1 DEF Arrived
<1>2. /\ queued \/ paused \/ running <=> live
      /\ ~(queued /\ paused) /\ ~(queued /\ running) /\ ~(paused /\ running)
  BY DEF Conserved, Live
<1>3. PhaseOf(r) = CASE r > num_arrived  -> "coming"
                     [] req[r].completed -> "done"
                     [] paused           -> "paused"
                     [] running          -> "running"
                     [] OTHER            -> "waiting"
  BY DEF PhaseOf
<1>4. req[r].completed => r \in Arrived
  BY LiveFacts
<1> HIDE DEF queued, paused, running
<1>5. CASE r \notin Arrived
  <2>1. PhaseOf(r) = "coming"
    BY <1>1, <1>2, <1>3, <1>4, <1>5
  <2> QED BY <1>2, <1>5, <2>1 DEF queued, paused, running
<1>6. CASE r \in Arrived /\ req[r].completed
  <2>1. PhaseOf(r) = "done"
    BY <1>1, <1>2, <1>3, <1>6
  <2> QED BY <1>2, <1>6, <2>1 DEF queued, paused, running
<1>7. CASE live
  <2>1. /\ paused => PhaseOf(r) = "paused"
        /\ running => PhaseOf(r) = "running"
        /\ queued => PhaseOf(r) = "waiting"
    BY <1>1, <1>2, <1>3, <1>7
  <2> QED BY <1>2, <1>7, <2>1 DEF queued, paused, running
<1> QED BY <1>5, <1>6, <1>7

(* What the users see is unchanged when no request changes its phase and    *)
(* none emits a token.                                                      *)
LEMMA ServiceStutters ==
    ASSUME asked' = asked,
           \A r \in Requests : PhaseOf(r)' = PhaseOf(r) /\ Emitted(r)' = Emitted(r)
    PROVE  UNCHANGED Service!serviceVars
BY DEF Service!serviceVars

(* A request is thrown out or started when only its phase changes. *)
LEMMA ServiceMoves ==
    ASSUME asked' = asked, NEW r \in Requests,
           \A q \in Requests : Emitted(q)' = Emitted(q),
           \A q \in Requests \ {r} : PhaseOf(q)' = PhaseOf(q)
    PROVE  /\ PhaseOf(r) = "paused" /\ PhaseOf(r)' = "waiting" => Service!ThrowOut(r)
           /\ PhaseOf(r) = "paused" /\ PhaseOf(r)' = "running" => Service!Start(r)
           /\ /\ PhaseOf(r) = "waiting" /\ PhaseOf(r)' = "running"
              /\ Cardinality(Service!Admitted) < BatchSizeCap
              => Service!Start(r)
<1> DEFINE phase == [q \in Requests |-> PhaseOf(q)]
<1>1. \A p : PhaseOf(r)' = p => phase' = [phase EXCEPT ![r] = p]
  OBVIOUS
<1>2. UNCHANGED [q \in Requests |-> asked[q].decode]
  OBVIOUS
<1>3. UNCHANGED [q \in Requests |-> Emitted(q)]
  OBVIOUS
<1>4. phase[r] = PhaseOf(r)
  OBVIOUS
<1>5. \A S : Service!Cardinality(S) = Cardinality(S)
  BY DEF Service!Cardinality, Cardinality
<1>6. ASSUME PhaseOf(r) = "paused", PhaseOf(r)' = "waiting" PROVE Service!ThrowOut(r)
  BY <1>1, <1>2, <1>3, <1>4, <1>6 DEF Service!ThrowOut
<1>7. ASSUME PhaseOf(r) = "paused", PhaseOf(r)' = "running" PROVE Service!Start(r)
  BY <1>1, <1>2, <1>3, <1>4, <1>7 DEF Service!Start
<1>8. ASSUME PhaseOf(r) = "waiting", PhaseOf(r)' = "running",
             Cardinality(Service!Admitted) < BatchSizeCap
      PROVE  Service!Start(r)
  BY <1>1, <1>2, <1>3, <1>4, <1>5, <1>8 DEF Service!Start
<1> QED BY <1>6, <1>7, <1>8

(* The requests the service counts as admitted are those that hold memory. *)
LEMMA AdmittedHold ==
    ASSUME Core, Conserved(preempted_requests), Phases
    PROVE  Service!Admitted = DOMAIN allocation_map
<1> DEFINE phase == [q \in Requests |-> PhaseOf(q)]
<1>1. /\ Service!In("running") = {r \in Requests : PhaseOf(r) = "running"}
      /\ Service!In("paused") = {r \in Requests : PhaseOf(r) = "paused"}
  BY DEF Service!In
<1>2. DOMAIN allocation_map \subseteq Requests
  BY DEF Core, ReplicaTypes
<1>3. DOMAIN allocation_map = Range(preempted_requests) \cup Ids(batch) \cup RunningIds
  BY DEF Conserved
<1> QED BY <1>1, <1>2, <1>3 DEF Service!Admitted, Phases

(* A request stays in its phase when it stays in its place. *)
LEMMA SamePhase ==
    ASSUME Phases, Phases', NEW r \in Requests,
           r \in Arrived' <=> r \in Arrived,
           req'[r].completed <=> req[r].completed,
           r \in Range(preempted_requests') <=> r \in Range(preempted_requests),
           r \in RunningIds' \cup Ids(batch') <=> r \in RunningIds \cup Ids(batch)
    PROVE  PhaseOf(r)' = PhaseOf(r)
BY DEF Phases

(* Nothing that the users see changes at the start. *)
LEMMA ServiceStarts == Init /\ Phases => Service!ServiceInit
<1> SUFFICES ASSUME Init, Phases PROVE Service!ServiceInit
  OBVIOUS
<1>1. ReplicaTypes
  BY CoreInit DEF Core
<1>2. ASSUME NEW r \in Requests
      PROVE  asked[r].decode \in Nat \ {0} /\ PhaseOf(r) = "coming" /\ Emitted(r) = 0
  <2>1. asked[r].prefill \in Nat /\ asked[r].decode \in Nat \ {0}
    BY <1>1, RequestFields
  <2>2. req[r] = NewRequest(asked[r].prefill, asked[r].decode)
    BY DEF Init
  <2>3. Emitted(r) = 0
    BY <2>1, <2>2 DEF Emitted, NewRequest
  <2>4. PhaseOf(r) = "coming"
    <3>1. Arrived = {}
      BY DEF Init, Arrived
    <3> QED BY <3>1 DEF Phases
  <2> QED BY <2>1, <2>3, <2>4
<1> QED BY <1>2 DEF Service!ServiceInit

(* The output of a request that is not touched is what it was. *)
LEMMA EmittedStays ==
    ASSUME asked' = asked, NEW r, req'[r] = req[r]
    PROVE  Emitted(r)' = Emitted(r)
BY DEF Emitted

(* A step that changes no counter and leaves each request where it is is    *)
(* not seen.                                                                *)
LEMMA ServiceRests ==
    ASSUME Phases, Phases', UNCHANGED <<asked, req, num_arrived>>,
           Range(preempted_requests') = Range(preempted_requests),
           RunningIds' \cup Ids(batch') = RunningIds \cup Ids(batch)
    PROVE  UNCHANGED Service!serviceVars
<1>1. Arrived' = Arrived
  BY DEF Arrived
<1>2. \A r \in Requests : PhaseOf(r)' = PhaseOf(r) /\ Emitted(r)' = Emitted(r)
  BY <1>1, SamePhase, EmittedStays
<1> QED BY <1>2, ServiceStutters

(* An arrival submits requests. *)
LEMMA ServiceSubmits ==
    ASSUME Core, Conserved(preempted_requests), Phases, Phases', AddRequests
    PROVE  Service!ServiceNext
<1>1. PICK last \in num_arrived + 1 .. NumRequests : num_arrived' = last
  BY DEF AddRequests
<1>2. UNCHANGED <<asked, req, preempted_requests, running_batches, batch>>
  BY DEF AddRequests, pipeline
<1>3. RunningIds' = RunningIds
  BY <1>2 DEF RunningIds
<1>4. num_arrived \in Nat /\ NumRequests \in Nat
  BY ReplicaAssumption DEF Core, ReplicaTypes
<1> DEFINE new == num_arrived + 1 .. last
           phase == [r \in Requests |-> PhaseOf(r)]
<1>5. /\ new \subseteq Requests /\ new \cap Arrived = {}
      /\ \A r \in Requests : r \in Arrived' <=> r \in Arrived \/ r \in new
  BY <1>1, <1>4 DEF Requests, Arrived
<1> HIDE DEF new
<1>6. ASSUME NEW r \in new PROVE PhaseOf(r) = "coming" /\ PhaseOf(r)' = "waiting"
  <2>1. PhaseOf(r) = "coming"
    BY <1>5 DEF Phases
  <2>2. r \notin Range(preempted_requests) /\ r \notin RunningIds \cup Ids(batch)
    BY <1>5, <2>1 DEF Phases
  <2>3. ~req[r].completed
    BY <1>5, LiveFacts
  <2> QED BY <1>2, <1>3, <1>5, <2>1, <2>2, <2>3 DEF Phases
<1>7. \A r \in Requests \ new : PhaseOf(r)' = PhaseOf(r)
  BY <1>2, <1>3, <1>5, SamePhase
<1>8. phase' = [r \in Requests |-> IF r \in new THEN "waiting" ELSE phase[r]]
  BY <1>6, <1>7
<1>9. new \subseteq Service!In("coming")
  BY <1>5, <1>6 DEF Service!In
<1>10. /\ UNCHANGED [r \in Requests |-> Emitted(r)]
       /\ UNCHANGED [r \in Requests |-> asked[r].decode]
  <2>1. \A r \in Requests : Emitted(r)' = Emitted(r)
    BY <1>2, EmittedStays
  <2> QED BY <1>2, <2>1
<1>11. Service!Submit(new)
  BY <1>8, <1>9, <1>10 DEF Service!Submit
<1> QED BY <1>5, <1>11 DEF Service!ServiceNext

(* A request that joins a batch is started: one of the queue, when fewer    *)
(* requests than the limit hold memory, or a paused one.                    *)
LEMMA ServiceBatches ==
    ASSUME Core, Conserved(preempted_requests), Phases, Phases',
           UNCHANGED <<asked, req, num_arrived, running_batches>>,
           NEW r \in Requests, Ids(batch') = Ids(batch) \cup {r},
           \/ /\ r \in Range(request_queue)
              /\ preempted_requests' = preempted_requests
              /\ Cardinality(DOMAIN allocation_map) # BatchSizeCap
           \/ Range(preempted_requests) = Range(preempted_requests') \cup {r}
    PROVE  Service!ServiceNext
<1>1. RunningIds' = RunningIds /\ Arrived' = Arrived
  BY DEF RunningIds, Arrived
<1>2. PhaseOf(r) \in {"waiting", "paused"} /\ PhaseOf(r)' = "running"
  BY <1>1 DEF Phases
<1>3. \A q \in Requests \ {r} : PhaseOf(q)' = PhaseOf(q)
  BY <1>1, SamePhase
<1>4. \A q \in Requests : Emitted(q)' = Emitted(q)
  BY EmittedStays
<1>5. CASE r \in Range(request_queue) /\ Cardinality(DOMAIN allocation_map) # BatchSizeCap
  <2>1. Cardinality(DOMAIN allocation_map) < BatchSizeCap
    <3>1. Cardinality(DOMAIN allocation_map) \in Nat
      BY HeldFinite, MemoryTyped, FS_CardinalityType DEF Core
    <3> QED BY <1>5, <3>1, ReplicaAssumption DEF Core, WithinCap
  <2>2. Cardinality(Service!Admitted) < BatchSizeCap
    BY <2>1, AdmittedHold, Zenon
  <2>3. PhaseOf(r) = "waiting"
    BY <1>5 DEF Phases
  <2>4. Service!Start(r)
    BY <1>2, <1>3, <1>4, <2>2, <2>3, ServiceMoves
  <2> QED BY <2>4 DEF Service!ServiceNext
<1>6. CASE Range(preempted_requests) = Range(preempted_requests') \cup {r}
  <2>1. PhaseOf(r) = "paused"
    BY <1>6 DEF Phases
  <2>2. Service!Start(r)
    BY <1>2, <1>3, <1>4, <2>1, ServiceMoves
  <2> QED BY <2>2 DEF Service!ServiceNext
<1> QED BY <1>5, <1>6

(* A paused request that goes back to the queue with its output is thrown   *)
(* out.                                                                     *)
LEMMA ServiceThrowsOut ==
    ASSUME Phases, Phases', UNCHANGED <<asked, num_arrived, running_batches, batch>>,
           NEW r \in Requests, Emitted(r)' = Emitted(r),
           \A q \in Requests \ {r} : req'[q] = req[q],
           Range(preempted_requests) = Range(preempted_requests') \cup {r},
           Range(request_queue') = Range(request_queue) \cup {r}
    PROVE  Service!ServiceNext
<1>1. RunningIds' = RunningIds /\ Arrived' = Arrived
  BY DEF RunningIds, Arrived
<1>2. PhaseOf(r) = "paused" /\ PhaseOf(r)' = "waiting"
  BY DEF Phases
<1>3. \A q \in Requests \ {r} : PhaseOf(q)' = PhaseOf(q)
  BY <1>1, SamePhase
<1>4. \A q \in Requests : Emitted(q)' = Emitted(q)
  BY EmittedStays
<1>5. Service!ThrowOut(r)
  BY <1>2, <1>3, <1>4, ServiceMoves
<1> QED BY <1>5 DEF Service!ServiceNext

(* A request of the ending batch emits a token, and is done when it was its *)
(* last.                                                                    *)
LEMMA ServiceEmits ==
    ASSUME Phases, Phases', OutputBounded',
           UNCHANGED <<asked, num_arrived, running_batches>>,
           NEW r \in Requests, ~req[r].completed,
           Emitted(r)' = Emitted(r) + 1,
           \A q \in Requests \ {r} : req'[q] = req[q],
           Ids(batch) = Ids(batch') \cup {r},
           req'[r].completed => preempted_requests' = preempted_requests,
           ~req'[r].completed =>
                Range(preempted_requests') = Range(preempted_requests) \cup {r}
    PROVE  Service!ServiceNext
<1>1. RunningIds' = RunningIds /\ Arrived' = Arrived
  BY DEF RunningIds, Arrived
<1>2. \A q \in Requests \ {r} : Emitted(q)' = Emitted(q)
  BY EmittedStays
<1>3. PhaseOf(r) = "running"
  BY DEF Phases
<1>4. PhaseOf(r)' = IF Emitted(r) + 1 = asked[r].decode THEN "done" ELSE "paused"
  <2>1. req'[r].completed <=> Emitted(r) + 1 = asked[r].decode
    BY DEF OutputBounded
  <2>2. r \in Arrived'
    BY <1>1, <1>3 DEF Phases
  <2> QED BY <2>1, <2>2 DEF Phases
<1>5. \A q \in Requests \ {r} : PhaseOf(q)' = PhaseOf(q)
  BY <1>1, SamePhase
<1> DEFINE phase   == [q \in Requests |-> PhaseOf(q)]
           emitted == [q \in Requests |-> Emitted(q)]
           wanted  == [q \in Requests |-> asked[q].decode]
<1>6. phase' = [phase EXCEPT
                    ![r] = IF emitted[r] + 1 = wanted[r] THEN "done" ELSE "paused"]
  BY <1>4, <1>5
<1>7. emitted' = [emitted EXCEPT ![r] = @ + 1]
  BY <1>2
<1>8. wanted' = wanted /\ phase[r] = "running"
  BY <1>3
<1>9. Service!Emit(r)
  BY <1>6, <1>7, <1>8 DEF Service!Emit
<1> QED BY <1>9 DEF Service!ServiceNext
=============================================================================
