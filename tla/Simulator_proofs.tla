-------------------------- MODULE Simulator_proofs --------------------------
(***************************************************************************)
(* Theorems about the simulator, for any number of requests, replicas and  *)
(* stages, any arrival, execution and limit of time and any global         *)
(* scheduler: no component waits without an event that will serve it, the  *)
(* assertion that ends a run holds, the batches of a pipeline do not       *)
(* overtake each other, no request or batch is lost or doubled, and the    *)
(* times of a request account for all the time it took.                    *)
(***************************************************************************)
EXTENDS Simulator, SequenceTheorems, FiniteSetTheorems, WellFoundedInduction, TLAPS

-----------------------------------------------------------------------------
(* Sequences. *)

(* Appending adds one element and keeps a duplicate-free queue so when the  *)
(* element is new.                                                          *)
LEMMA AppendRange ==
    ASSUME NEW S, NEW s \in Seq(S), NEW e \in S
    PROVE  /\ Range(Append(s, e)) = Range(s) \cup {e}
           /\ IsInjective(s) /\ e \notin Range(s) => IsInjective(Append(s, e))
<1> DEFINE t == Append(s, e)
<1>1. /\ Len(t) = Len(s) + 1 /\ Len(s) \in Nat /\ t \in Seq(S)
      /\ DOMAIN s = 1 .. Len(s) /\ DOMAIN t = 1 .. Len(s) + 1
  BY AppendProperties, LenProperties
<1>2. /\ \A i \in 1 .. Len(s) : t[i] = s[i]
      /\ t[Len(s) + 1] = e
  BY AppendProperties
<1>3. Range(t) = Range(s) \cup {e}
  <2>1. ASSUME NEW x \in Range(t) PROVE x \in Range(s) \cup {e}
    BY <1>1, <1>2 DEF Range
  <2>2. ASSUME NEW x \in Range(s) PROVE x \in Range(t)
    <3>1. PICK i \in 1 .. Len(s) : x = s[i]
      BY <1>1 DEF Range
    <3>2. i \in DOMAIN t /\ t[i] = x
      BY <1>1, <1>2, <3>1
    <3> QED BY <3>2 DEF Range
  <2>3. e \in Range(t)
    <3>1. Len(s) + 1 \in DOMAIN t
      BY <1>1
    <3> QED BY <1>2, <3>1 DEF Range
  <2> QED BY <2>1, <2>2, <2>3
<1>4. ASSUME IsInjective(s), e \notin Range(s) PROVE IsInjective(t)
  <2> SUFFICES ASSUME NEW a \in DOMAIN t, NEW b \in DOMAIN t, t[a] = t[b]
               PROVE  a = b
    BY DEF IsInjective
  <2>1. \A i \in 1 .. Len(s) : s[i] # e
    BY <1>1, <1>4 DEF Range
  <2>2. CASE a \in 1 .. Len(s) /\ b \in 1 .. Len(s)
    BY <1>1, <1>2, <1>4, <2>2 DEF IsInjective
  <2>3. CASE a = Len(s) + 1 \/ b = Len(s) + 1
    <3>1. CASE a \in 1 .. Len(s)
      BY <1>1, <1>2, <2>1, <2>3, <3>1
    <3>2. CASE b \in 1 .. Len(s)
      BY <1>1, <1>2, <2>1, <2>3, <3>2
    <3>3. CASE a = Len(s) + 1 /\ b = Len(s) + 1
      BY <3>3
    <3> QED BY <1>1, <3>1, <3>2, <3>3
  <2> QED BY <1>1, <2>2, <2>3
<1> QED BY <1>3, <1>4

(* Taking the head of a duplicate-free queue removes just that element.     *)
LEMMA TailRange ==
    ASSUME NEW S, NEW s \in Seq(S), s # <<>>
    PROVE  /\ Head(s) \in Range(s)
           /\ Tail(s) \in Seq(S)
           /\ Range(Tail(s)) \subseteq Range(s)
           /\ Range(s) = Range(Tail(s)) \cup {Head(s)}
           /\ IsInjective(s) => /\ IsInjective(Tail(s))
                                /\ Head(s) \notin Range(Tail(s))
<1> DEFINE t == Tail(s)
<1>1. /\ Len(s) \in Nat \ {0} /\ t \in Seq(S) /\ Len(t) = Len(s) - 1
      /\ DOMAIN s = 1 .. Len(s) /\ DOMAIN t = 1 .. Len(s) - 1
  BY EmptySeq, HeadTailProperties, LenProperties
<1>2. /\ \A i \in 1 .. Len(s) - 1 : t[i] = s[i + 1]
      /\ Head(s) = s[1]
  BY <1>1, HeadTailProperties
<1>3. Head(s) \in Range(s)
  BY <1>1, <1>2 DEF Range
<1>4. ASSUME NEW x \in Range(t) PROVE x \in Range(s)
  <2>1. PICK i \in 1 .. Len(s) - 1 : x = t[i]
    BY <1>1 DEF Range
  <2>2. i + 1 \in DOMAIN s /\ s[i + 1] = x
    BY <1>1, <1>2, <2>1
  <2> QED BY <2>2 DEF Range
<1>5. ASSUME NEW x \in Range(s), x # Head(s) PROVE x \in Range(t)
  <2>1. PICK i \in 1 .. Len(s) : x = s[i]
    BY <1>1 DEF Range
  <2>2. i # 1
    BY <1>2, <1>5, <2>1
  <2>3. i - 1 \in 1 .. Len(s) - 1 /\ t[i - 1] = s[(i - 1) + 1]
    BY <1>1, <1>2, <2>1, <2>2
  <2>4. i - 1 \in DOMAIN t /\ t[i - 1] = x
    BY <1>1, <2>1, <2>3
  <2> QED BY <2>4 DEF Range
<1>6. ASSUME IsInjective(s) PROVE IsInjective(t) /\ Head(s) \notin Range(t)
  <2>1. ASSUME NEW a \in DOMAIN t, NEW b \in DOMAIN t, t[a] = t[b] PROVE a = b
    <3>1. a + 1 \in DOMAIN s /\ b + 1 \in DOMAIN s /\ s[a + 1] = s[b + 1]
      BY <1>1, <1>2, <2>1
    <3>2. a + 1 = b + 1
      BY <1>6, <3>1 DEF IsInjective
    <3> QED BY <1>1, <3>2
  <2>2. ASSUME Head(s) \in Range(t) PROVE FALSE
    <3>1. PICK i \in 1 .. Len(s) - 1 : Head(s) = t[i]
      BY <1>1, <2>2 DEF Range
    <3>2. i + 1 \in DOMAIN s /\ 1 \in DOMAIN s /\ s[i + 1] = s[1]
      BY <1>1, <1>2, <3>1
    <3>3. i + 1 = 1
      BY <1>6, <3>2 DEF IsInjective
    <3> QED BY <3>3
  <2> QED BY <2>1, <2>2 DEF IsInjective
<1> QED BY <1>1, <1>3, <1>4, <1>5, <1>6

(* Queues without a common element can be joined. *)
LEMMA ConcatRange ==
    ASSUME NEW S, NEW s \in Seq(S), NEW t \in Seq(S)
    PROVE  /\ s \o t \in Seq(S)
           /\ Range(s \o t) = Range(s) \cup Range(t)
           /\ IsInjective(s) /\ IsInjective(t) /\ Range(s) \cap Range(t) = {}
                => IsInjective(s \o t)
<1> DEFINE u == s \o t
<1>1. /\ Len(s) \in Nat /\ Len(t) \in Nat /\ u \in Seq(S) /\ Len(u) = Len(s) + Len(t)
      /\ DOMAIN s = 1 .. Len(s) /\ DOMAIN t = 1 .. Len(t)
      /\ DOMAIN u = 1 .. Len(s) + Len(t)
  BY ConcatProperties, LenProperties
<1>2. \A i \in 1 .. Len(s) + Len(t) :
        u[i] = IF i <= Len(s) THEN s[i] ELSE t[i - Len(s)]
  BY ConcatProperties
<1>3. ASSUME IsInjective(s), IsInjective(t), Range(s) \cap Range(t) = {}
      PROVE  IsInjective(u)
  <2> SUFFICES ASSUME NEW a \in DOMAIN u, NEW b \in DOMAIN u, u[a] = u[b]
               PROVE  a = b
    BY DEF IsInjective
  <2>1. \A i \in DOMAIN s, j \in DOMAIN t : s[i] # t[j]
    BY <1>3 DEF Range
  <2>2. CASE a <= Len(s) /\ b <= Len(s)
    <3>1. a \in DOMAIN s /\ b \in DOMAIN s /\ s[a] = s[b]
      BY <1>1, <1>2, <2>2
    <3> QED BY <1>3, <3>1 DEF IsInjective
  <2>3. CASE a > Len(s) /\ b > Len(s)
    <3>1. /\ a - Len(s) \in DOMAIN t /\ b - Len(s) \in DOMAIN t
          /\ t[a - Len(s)] = t[b - Len(s)]
      BY <1>1, <1>2, <2>3
    <3>2. a - Len(s) = b - Len(s)
      BY <1>3, <3>1 DEF IsInjective
    <3> QED BY <1>1, <3>2
  <2>4. CASE a <= Len(s) /\ b > Len(s)
    <3>1. a \in DOMAIN s /\ b - Len(s) \in DOMAIN t /\ s[a] = t[b - Len(s)]
      BY <1>1, <1>2, <2>4
    <3> QED BY <2>1, <3>1
  <2>5. CASE a > Len(s) /\ b <= Len(s)
    <3>1. b \in DOMAIN s /\ a - Len(s) \in DOMAIN t /\ s[b] = t[a - Len(s)]
      BY <1>1, <1>2, <2>5
    <3> QED BY <2>1, <3>1
  <2> QED BY <1>1, <2>2, <2>3, <2>4, <2>5
<1> QED BY <1>1, <1>3, RangeConcatenation

(* A permutation of a queue holds the same elements, each as often. *)
LEMMA PermutationRange ==
    ASSUME NEW S, NEW s \in Seq(S),
           NEW p \in [DOMAIN s -> DOMAIN s], IsInjective(p)
    PROVE  /\ [i \in DOMAIN s |-> s[p[i]]] \in Seq(S)
           /\ Range([i \in DOMAIN s |-> s[p[i]]]) = Range(s)
           /\ IsInjective(s) => IsInjective([i \in DOMAIN s |-> s[p[i]]])
<1> DEFINE D == DOMAIN s
           t == [i \in D |-> s[p[i]]]
<1>1. Len(s) \in Nat /\ D = 1 .. Len(s) /\ s \in [D -> S]
  BY LenProperties
<1>2. t \in Seq(S)
  <2>1. t \in [1 .. Len(s) -> S]
    BY <1>1
  <2> QED BY <1>1, <2>1, SeqDef
<1>3. ASSUME NEW j \in D PROVE \E i \in D : p[i] = j
  <2>1. IsFiniteSet(D)
    BY <1>1, FS_Interval
  <2>2. p \in Injection(D, D)
    BY DEF Injection, IsInjective
  <2>3. p \in Surjection(D, D)
    BY <2>1, <2>2, FS_Injection
  <2> QED BY <2>3 DEF Surjection
<1>4. Range(t) = Range(s)
  BY <1>3 DEF Range
<1>5. IsInjective(s) => IsInjective(t)
  BY DEF IsInjective
<1> QED BY <1>2, <1>4, <1>5

-----------------------------------------------------------------------------
(* Finite sets. *)

(* Induction over the natural numbers, for a set. *)
LEMMA SetInduction ==
    ASSUME NEW T, 0 \in T, \A n \in Nat : n \in T => n + 1 \in T
    PROVE  Nat \subseteq T
<1> SUFFICES ASSUME Nat \ T # {} PROVE FALSE
  OBVIOUS
<1>1. PICK m \in Nat \ T : \A y \in Nat \ T : ~(<<y, m>> \in OpToRel(<, Nat))
  BY NatLessThanWellFounded, WFMin, Zenon
<1>2. \A y \in Nat : y < m => y \in T
  <2>1. \A y \in Nat : y < m => <<y, m>> \in OpToRel(<, Nat)
    BY DEF OpToRel
  <2>2. \A y \in Nat \ T : ~(<<y, m>> \in OpToRel(<, Nat))
    BY <1>1, Zenon
  <2> QED BY <2>1, <2>2, Zenon
<1>3. m \in Nat /\ m \notin T
  OBVIOUS
<1> QED BY <1>2, <1>3

(* The subsets of a finite set, and what remains of them without an element. *)
LEMMA SubsetSizes ==
    ASSUME NEW S, IsFiniteSet(S), NEW s \in SUBSET S
    PROVE  /\ IsFiniteSet(s) /\ Cardinality(s) \in Nat /\ Cardinality(s) <= Cardinality(S)
           /\ Cardinality(s) <= 0 => s = {}
           /\ \A x \in s : /\ s \ {x} \in SUBSET S
                           /\ Cardinality(s \ {x}) = Cardinality(s) - 1
<1>1. IsFiniteSet(s) /\ Cardinality(s) \in Nat /\ Cardinality(s) <= Cardinality(S)
  BY FS_Subset, FS_CardinalityType
<1>2. Cardinality(s) <= 0 => s = {}
  <2> DEFINE n == Cardinality(s)
  <2>1. n \in Nat
    BY <1>1
  <2>2. n = 0 => s = {}
    BY <1>1, FS_EmptySet
  <2> HIDE DEF n
  <2> SUFFICES n <= 0 => s = {}
    BY DEF n
  <2> QED BY <2>1, <2>2
<1>3. \A x \in s : Cardinality(s \ {x}) = Cardinality(s) - 1
  BY <1>1, FS_RemoveElement, Zenon
<1> QED BY <1>1, <1>2, <1>3

(* Induction over the subsets of a finite set, one element at a time. *)
LEMMA SubsetInduction ==
    ASSUME NEW S, IsFiniteSet(S), NEW T, {} \in T,
           \A s \in SUBSET S : \A x \in s : s \ {x} \in T => s \in T
    PROVE  SUBSET S \subseteq T
<1> DEFINE U == {n \in Nat : \A s \in SUBSET S : Cardinality(s) <= n => s \in T}
<1>1. 0 \in U
  BY SubsetSizes
<1>2. ASSUME NEW n \in Nat, n \in U PROVE n + 1 \in U
  <2>1. ASSUME NEW s \in SUBSET S, Cardinality(s) <= n + 1, s # {} PROVE s \in T
    <3>1. PICK x \in s : TRUE
      BY <2>1
    <3>2. s \ {x} \in SUBSET S /\ Cardinality(s \ {x}) <= n
      <4>1. /\ s \ {x} \in SUBSET S /\ Cardinality(s \ {x}) = Cardinality(s) - 1
            /\ Cardinality(s) \in Nat
        BY SubsetSizes
      <4> QED BY <2>1, <4>1
    <3>3. s \ {x} \in T
      BY <1>2, <3>2
    <3> QED BY <3>3
  <2>2. \A s \in SUBSET S : Cardinality(s) <= n + 1 => s \in T
    BY <2>1
  <2> QED BY <2>2
<1> HIDE DEF U
<1>3. Nat \subseteq U
  BY <1>1, <1>2, SetInduction
<1> SUFFICES ASSUME NEW s \in SUBSET S PROVE s \in T
  OBVIOUS
<1>4. Cardinality(s) \in U /\ Cardinality(s) <= Cardinality(s)
  BY <1>3, SubsetSizes
<1> QED BY <1>4 DEF U

(* Of finitely many numbers one is the largest and one the smallest. *)
LEMMA Extremes ==
    ASSUME NEW S, IsFiniteSet(S), S # {}, NEW f, \A x \in S : f[x] \in Int
    PROVE  /\ \E x \in S : \A y \in S : f[y] <= f[x]
           /\ \E x \in S : \A y \in S : f[x] <= f[y]
<1> DEFINE High(s) == \E x \in s : \A y \in s : f[y] <= f[x]
           Low(s) == \E x \in s : \A y \in s : f[x] <= f[y]
           T == {s \in SUBSET S : s = {} \/ (High(s) /\ Low(s))}
<1>1. ASSUME NEW s \in SUBSET S, NEW x \in s, s \ {x} \in T PROVE s \in T
  <2>1. CASE s \ {x} = {}
    <3>1. s = {x} /\ f[x] <= f[x]
      BY <2>1
    <3> QED BY <3>1
  <2>2. CASE s \ {x} # {}
    <3>1. PICK h \in s \ {x} : \A y \in s \ {x} : f[y] <= f[h]
      BY <1>1, <2>2
    <3>2. PICK l \in s \ {x} : \A y \in s \ {x} : f[l] <= f[y]
      BY <1>1, <2>2
    <3>3. f[x] \in Int /\ f[h] \in Int /\ f[l] \in Int /\ \A y \in s : f[y] \in Int
      OBVIOUS
    <3>4. High(s)
      <4>1. CASE f[x] <= f[h]
        BY <3>1, <3>3, <4>1
      <4>2. CASE f[h] <= f[x]
        <5>1. \A y \in s : f[y] <= f[x]
          BY <3>1, <3>3, <4>2
        <5> QED BY <5>1
      <4> QED BY <3>3, <4>1, <4>2
    <3>5. Low(s)
      <4>1. CASE f[l] <= f[x]
        BY <3>2, <3>3, <4>1
      <4>2. CASE f[x] <= f[l]
        <5>1. \A y \in s : f[x] <= f[y]
          BY <3>2, <3>3, <4>2
        <5> QED BY <5>1
      <4> QED BY <3>3, <4>1, <4>2
    <3> QED BY <3>4, <3>5
  <2> QED BY <2>1, <2>2
<1>2. {} \in T
  OBVIOUS
<1>3. S \in T
  <2>1. S \in SUBSET S
    OBVIOUS
  <2> HIDE DEF T
  <2>2. SUBSET S \subseteq T
    BY <1>1, <1>2, SubsetInduction
  <2> QED BY <2>1, <2>2
<1> QED BY <1>3

-----------------------------------------------------------------------------
(* Sequences of anything. *)

(* What is a sequence of anything is a sequence of its own elements. *)
LEMMA SeqIsSeq ==
    ASSUME NEW S, NEW q \in Seq(S)
    PROVE  IsSeq(q) /\ Range(q) \subseteq S
BY SeqOfRange, RangeOfSeq DEF IsSeq

(* The length and the elements of a sequence. *)
LEMMA IsSeqFacts ==
    ASSUME NEW q, IsSeq(q)
    PROVE  /\ q \in Seq(Range(q))
           /\ Len(q) \in Nat /\ DOMAIN q = 1 .. Len(q)
           /\ Range(q) = {q[i] : i \in 1 .. Len(q)}
           /\ \A i \in 1 .. Len(q) : q[i] \in Range(q)
           /\ q = <<>> <=> Len(q) = 0
           /\ q = <<>> <=> Range(q) = {}
           /\ IsFiniteSet(Range(q))
<1>1. q \in Seq(Range(q))
  BY DEF IsSeq
<1>2. Len(q) \in Nat /\ DOMAIN q = 1 .. Len(q)
  BY <1>1, LenProperties
<1>3. q = <<>> <=> Len(q) = 0
  BY <1>1, EmptySeq
<1>4. Range(q) = {q[i] : i \in 1 .. Len(q)}
  BY <1>2 DEF Range
<1>5. q = <<>> <=> Range(q) = {}
  <2>1. Len(q) # 0 => q[1] \in Range(q)
    BY <1>2, <1>4
  <2>2. Len(q) = 0 => Range(q) = {}
    BY <1>2, <1>4
  <2> QED BY <1>3, <2>1, <2>2
<1>6. IsFiniteSet(Range(q))
  <2>1. IsFiniteSet(1 .. Len(q))
    BY <1>2, FS_Interval
  <2> DEFINE f == [i \in 1 .. Len(q) |-> q[i]]
  <2>2. f \in Surjection(1 .. Len(q), Range(q))
    BY <1>4 DEF Surjection
  <2> HIDE DEF f
  <2> QED BY <2>1, <2>2, FS_Surjection
<1>7. \A i \in 1 .. Len(q) : q[i] \in Range(q)
  BY <1>4
<1> QED BY <1>1, <1>2, <1>3, <1>4, <1>5, <1>6, <1>7

(* A function on an interval from 1 is a sequence. *)
LEMMA FunctionIsSeq ==
    ASSUME NEW n \in Nat, NEW q, q = [i \in 1 .. n |-> q[i]]
    PROVE  IsSeq(q) /\ Len(q) = n
<1> DEFINE S == {q[i] : i \in 1 .. n}
<1>1. q \in Seq(S)
  <2>1. q \in [1 .. n -> S]
    OBVIOUS
  <2> HIDE DEF S
  <2> QED BY <2>1, SeqDef
<1>2. IsSeq(q)
  BY <1>1, SeqIsSeq
<1>3. DOMAIN q = 1 .. n /\ DOMAIN q = 1 .. Len(q) /\ Len(q) \in Nat
  BY <1>2, IsSeqFacts
<1> QED BY <1>2, <1>3

(* Appending to a sequence and joining two of them. *)
LEMMA AppendIsSeq ==
    ASSUME NEW q, IsSeq(q), NEW x
    PROVE  /\ IsSeq(Append(q, x)) /\ Range(Append(q, x)) = Range(q) \cup {x}
           /\ Len(Append(q, x)) = Len(q) + 1
           /\ \A i \in 1 .. Len(q) : Append(q, x)[i] = q[i]
           /\ Append(q, x)[Len(q) + 1] = x
<1> DEFINE S == Range(q) \cup {x}
<1>1. q \in Seq(S) /\ x \in S
  <2>1. q \in Seq(Range(q)) /\ Range(q) \subseteq S /\ x \in S
    BY DEF IsSeq
  <2> HIDE DEF S
  <2> QED BY <2>1, SeqMonotonic
<1> HIDE DEF S
<1>2. Append(q, x) \in Seq(S)
  BY <1>1, AppendProperties
<1>3. IsSeq(Append(q, x))
  BY <1>2, SeqIsSeq
<1>4. Range(Append(q, x)) = Range(q) \cup {x}
  BY <1>1, AppendRange
<1> QED BY <1>1, <1>3, <1>4, AppendProperties

(* Two sequences joined have the elements of both.                          *)
LEMMA ConcatIsSeq ==
    ASSUME NEW p, NEW q, IsSeq(p), IsSeq(q)
    PROVE  /\ IsSeq(p \o q) /\ Range(p \o q) = Range(p) \cup Range(q)
           /\ Len(p \o q) = Len(p) + Len(q)
           /\ q = <<>> => p \o q = p
<1> DEFINE S == Range(p) \cup Range(q)
<1>1. p \in Seq(S) /\ q \in Seq(S)
  <2>1. /\ p \in Seq(Range(p)) /\ Range(p) \subseteq S
        /\ q \in Seq(Range(q)) /\ Range(q) \subseteq S
    BY DEF IsSeq
  <2> HIDE DEF S
  <2> QED BY <2>1, SeqMonotonic
<1> HIDE DEF S
<1>2. p \o q \in Seq(S)
  BY <1>1, ConcatProperties
<1>3. IsSeq(p \o q)
  BY <1>2, SeqIsSeq
<1>4. Range(p \o q) = Range(p) \cup Range(q)
  BY <1>1, ConcatRange
<1>5. q = <<>> => p \o q = p
  BY <1>1, ConcatEmptySeq
<1> QED BY <1>1, <1>3, <1>4, <1>5, ConcatProperties

(* What remains without the first element. *)
LEMMA TailIsSeq ==
    ASSUME NEW q, IsSeq(q), q # <<>>
    PROVE  /\ IsSeq(Tail(q)) /\ Range(q) = Range(Tail(q)) \cup {Head(q)}
           /\ Len(Tail(q)) = Len(q) - 1
<1>1. q \in Seq(Range(q))
  BY DEF IsSeq
<1> QED BY <1>1, SeqIsSeq, TailRange, HeadTailProperties

(* The first elements of a sequence. *)
LEMMA PrefixIsSeq ==
    ASSUME NEW q, IsSeq(q), NEW n \in Int, n <= Len(q)
    PROVE  /\ IsSeq(SubSeq(q, 1, n)) /\ Range(SubSeq(q, 1, n)) \subseteq Range(q)
           /\ SubSeq(q, 1, n) = <<>> => n <= 0
<1>1. \A i \in 1 .. n : q[i] \in Range(q)
  BY IsSeqFacts
<1>2. /\ SubSeq(q, 1, n) \in Seq(Range(q))
      /\ Len(SubSeq(q, 1, n)) = IF 1 <= n THEN n - 1 + 1 ELSE 0
  BY <1>1, SubSeqProperties
<1>3. IsSeq(SubSeq(q, 1, n)) /\ Range(SubSeq(q, 1, n)) \subseteq Range(q)
  BY <1>2, SeqIsSeq
<1>4. SubSeq(q, 1, n) = <<>> => Len(SubSeq(q, 1, n)) = 0
  BY <1>3, IsSeqFacts
<1> QED BY <1>2, <1>3, <1>4

(* f is the loop of N rounds from base, each given by G. *)
Loop(N, base, G, f) ==
    f = [n \in 0 .. N |-> IF n = 0 THEN base ELSE G[<<f[n - 1], n>>]]

(* A loop of N rounds, round n from a state in S[n - 1] to one in S[n]: the *)
(* recursive function that describes it exists and its values are in S.     *)
LEMMA Iteration ==
    ASSUME NEW N \in Nat, NEW S, NEW base \in S[0], NEW G,
           \A n \in 1 .. N : \A w \in S[n - 1] : G[<<w, n>>] \in S[n]
    PROVE  \E f : Loop(N, base, G, f) /\ \A n \in 0 .. N : f[n] \in S[n]
<1> DEFINE Step(g, n) == IF n = 0 THEN base ELSE G[<<g[n - 1], n>>]
           UpTo(n) == \E g : \A m \in 0 .. n : g[m] = Step(g, m) /\ g[m] \in S[m]
           T == {n \in Nat : n <= N => UpTo(n)}
<1>1. 0 \in T
  <2> DEFINE g == [m \in 0 .. 0 |-> base]
  <2>1. \A m \in 0 .. 0 : g[m] = Step(g, m) /\ g[m] \in S[m]
    OBVIOUS
  <2>2. UpTo(0)
    BY <2>1
  <2> QED BY <2>2
<1>2. ASSUME NEW n \in Nat, n \in T PROVE n + 1 \in T
  <2> SUFFICES ASSUME n + 1 <= N PROVE UpTo(n + 1)
    OBVIOUS
  <2>1. PICK g : \A m \in 0 .. n : g[m] = Step(g, m) /\ g[m] \in S[m]
    BY <1>2
  <2> DEFINE h == [m \in 0 .. n + 1 |-> IF m <= n THEN g[m] ELSE Step(g, m)]
  <2>2. ASSUME NEW m \in 0 .. n + 1 PROVE h[m] = Step(h, m) /\ h[m] \in S[m]
    <3>1. h[m] = Step(g, m)
      BY <2>1
    <3>2. m # 0 => m - 1 \in 0 .. n /\ h[m - 1] = g[m - 1]
      OBVIOUS
    <3>3. m # 0 => g[m - 1] \in S[m - 1] /\ m \in 1 .. N
      <4>1. PICK l : l = m - 1
        OBVIOUS
      <4>2. m # 0 => l \in 0 .. n
        BY <4>1
      <4>3. m # 0 => g[l] \in S[l]
        BY <2>1, <4>2
      <4> QED BY <4>1, <4>3
    <3>4. h[m] \in S[m]
      BY <3>1, <3>3
    <3> HIDE DEF h
    <3> QED BY <3>1, <3>2, <3>4
  <2> HIDE DEF h
  <2> QED BY <2>2
<1>3. N \in T
  <2> HIDE DEF T
  <2>1. Nat \subseteq T
    BY <1>1, <1>2, SetInduction
  <2> QED BY <2>1
<1>4. PICK g : \A m \in 0 .. N : g[m] = Step(g, m) /\ g[m] \in S[m]
  BY <1>3
<1> DEFINE h == [m \in 0 .. N |-> g[m]]
<1>5. ASSUME NEW m \in 0 .. N PROVE h[m] = Step(h, m) /\ h[m] \in S[m]
  <2>1. h[m] = Step(g, m) /\ h[m] \in S[m]
    BY <1>4
  <2>2. m # 0 => m - 1 \in 0 .. N /\ h[m - 1] = g[m - 1]
    OBVIOUS
  <2> HIDE DEF h
  <2> QED BY <2>1, <2>2
<1>6. h = [m \in 0 .. N |-> Step(h, m)]
  <2>1. h = [m \in 0 .. N |-> h[m]]
    OBVIOUS
  <2> HIDE DEF h
  <2> QED BY <1>5, <2>1
<1> QED BY <1>5, <1>6 DEF Loop

(* g is the function that Without builds over the prefixes of q. *)
KeptBy(q, X, g) ==
    g = [n \in 0 .. Len(q) |->
            IF n = 0 THEN <<>>
            ELSE IF q[n] \in X THEN g[n - 1] ELSE Append(g[n - 1], q[n])]

(* Without is the value of that function, when there is one. *)
LEMMA WithoutDef ==
    ASSUME NEW q, NEW X, \E g : KeptBy(q, X, g)
    PROVE  LET g == CHOOSE h : KeptBy(q, X, h)
           IN  KeptBy(q, X, g) /\ Without(q, X) = g[Len(q)]
<1> DEFINE g == CHOOSE h : KeptBy(q, X, h)
<1>1. KeptBy(q, X, g)
  BY Zenon
<1>2. Without(q, X) = g[Len(q)]
  BY DEF Without, KeptBy
<1> QED BY <1>1, <1>2

(* What a loop over q keeps, its result Without has: S[n] is the set of the *)
(* values after n elements.                                                 *)
LEMMA WithoutLoop ==
    ASSUME NEW q, IsSeq(q), NEW X, NEW S, <<>> \in S[0],
           \A n \in 1 .. Len(q) : \A w \in S[n - 1] :
                (IF q[n] \in X THEN w ELSE Append(w, q[n])) \in S[n]
    PROVE  Without(q, X) \in S[Len(q)]
<1> DEFINE N == Len(q)
           Step(w, n) == IF q[n] \in X THEN w ELSE Append(w, q[n])
           D == UNION {S[n] : n \in 0 .. N}
           G == [p \in D \X (1 .. N) |-> Step(p[1], p[2])]
<1>1. N \in Nat
  BY IsSeqFacts
<1> HIDE DEF N
<1>2. ASSUME NEW n \in 1 .. N, NEW w \in S[n - 1]
      PROVE  G[<<w, n>>] = Step(w, n) /\ Step(w, n) \in S[n]
  <2>1. n - 1 \in 0 .. N
    BY <1>1
  <2>2. w \in D
    BY <2>1
  <2>3. G[<<w, n>>] = Step(w, n)
    <3> HIDE DEF D, Step
    <3> QED BY <2>2
  <2>4. Step(w, n) \in S[n]
    BY DEF N
  <2> QED BY <2>3, <2>4
<1> HIDE DEF D, G, Step
<1>3. PICK f : Loop(N, <<>>, G, f) /\ \A n \in 0 .. N : f[n] \in S[n]
  <2>1. \A n \in 1 .. N : \A w \in S[n - 1] : G[<<w, n>>] \in S[n]
    BY <1>2
  <2> QED BY <1>1, <2>1, Iteration
<1>4. KeptBy(q, X, f)
  <2>1. ASSUME NEW n \in 0 .. N, n # 0
        PROVE  G[<<f[n - 1], n>>] = Step(f[n - 1], n)
    <3>1. n \in 1 .. N /\ n - 1 \in 0 .. N
      BY <1>1, <2>1
    <3>2. f[n - 1] \in S[n - 1]
      BY <1>3, <3>1
    <3> QED BY <1>2, <3>1, <3>2
  <2>2. f = [n \in 0 .. N |-> IF n = 0 THEN <<>> ELSE Step(f[n - 1], n)]
    BY <1>1, <1>3, <2>1 DEF Loop
  <2> QED BY <2>2 DEF KeptBy, N, Step
<1>5. ASSUME NEW g, KeptBy(q, X, g) PROVE g[N] \in S[N]
  <2> DEFINE T == {n \in Nat : n <= N => g[n] \in S[n]}
  <2>1. \A n \in 0 .. N : g[n] = IF n = 0 THEN <<>> ELSE Step(g[n - 1], n)
    BY <1>5 DEF KeptBy, N, Step
  <2>2. 0 \in T
    BY <1>1, <2>1
  <2>3. ASSUME NEW n \in Nat, n \in T PROVE n + 1 \in T
    <3> SUFFICES ASSUME n + 1 <= N PROVE g[n + 1] \in S[n + 1]
      OBVIOUS
    <3>1. PICK m : m = n + 1
      OBVIOUS
    <3>2. m \in 1 .. N /\ m \in 0 .. N /\ m - 1 = n /\ m # 0
      BY <1>1, <3>1
    <3>3. g[m] = Step(g[n], m)
      BY <2>1, <3>2
    <3>4. g[n] \in S[m - 1]
      BY <1>1, <2>3, <3>2
    <3> QED BY <1>2, <3>1, <3>2, <3>3, <3>4
  <2>4. N \in T
    <3> HIDE DEF T
    <3>1. Nat \subseteq T
      BY <2>2, <2>3, SetInduction
    <3> QED BY <1>1, <3>1
  <2> QED BY <1>1, <2>4
<1> QED BY <1>4, <1>5, WithoutDef, Zenon DEF N

(* Without keeps exactly the elements that are not in X. *)
LEMMA WithoutFacts ==
    ASSUME NEW q, IsSeq(q), NEW X
    PROVE  IsSeq(Without(q, X)) /\ Range(Without(q, X)) = Range(q) \ X
<1> DEFINE N == Len(q)
           First(n) == {q[i] : i \in 1 .. n}
           S == [n \in 0 .. N |-> {w \in Seq(Range(q)) : Range(w) = First(n) \ X}]
           Step(w, n) == IF q[n] \in X THEN w ELSE Append(w, q[n])
<1>1. N \in Nat /\ Range(q) = First(N) /\ \A i \in 1 .. N : q[i] \in Range(q)
  BY IsSeqFacts
<1> HIDE DEF N
<1>2. <<>> \in S[0]
  <2>1. First(0) = {} /\ 0 \in 0 .. N
    BY <1>1
  <2>2. <<>> \in Seq(Range(q)) /\ Range(<<>>) = {}
    BY EmptySeq DEF Range
  <2> QED BY <2>1, <2>2
<1>3. ASSUME NEW n \in 1 .. N, NEW w \in S[n - 1] PROVE Step(w, n) \in S[n]
  <2>1. n - 1 \in 0 .. N /\ n \in 0 .. N
    BY <1>1
  <2>2. w \in Seq(Range(q)) /\ Range(w) = First(n - 1) \ X
    BY <2>1
  <2>3. First(n) = First(n - 1) \cup {q[n]}
    <3>1. \A i \in 1 .. n : i = n \/ i \in 1 .. n - 1
      BY <1>1
    <3>2. \A i \in 1 .. n - 1 : i \in 1 .. n
      BY <1>1
    <3> QED BY <1>1, <3>1, <3>2
  <2>4. /\ Append(w, q[n]) \in Seq(Range(q))
        /\ Range(Append(w, q[n])) = Range(w) \cup {q[n]}
    <3>1. q[n] \in Range(q)
      BY <1>1
    <3> QED BY <2>2, <3>1, AppendRange, AppendProperties
  <2>5. Step(w, n) \in Seq(Range(q)) /\ Range(Step(w, n)) = First(n) \ X
    <3> HIDE DEF First
    <3> QED BY <2>2, <2>3, <2>4
  <2> QED BY <2>1, <2>5
<1>4. Without(q, X) \in S[N]
  <2> HIDE DEF S
  <2>1. \A n \in 1 .. Len(q) : \A w \in S[n - 1] :
            (IF q[n] \in X THEN w ELSE Append(w, q[n])) \in S[n]
    BY <1>3 DEF N
  <2> QED BY <1>2, <2>1, WithoutLoop DEF N
<1>5. Without(q, X) \in Seq(Range(q)) /\ Range(Without(q, X)) = Range(q) \ X
  BY <1>1, <1>4 DEF S
<1> QED BY <1>5, SeqIsSeq

(* Without the first element, when it occurs once.                          *)
LEMMA WithoutHead ==
    ASSUME NEW q, IsSeq(q), q # <<>>, NEW b, b = q[1],
           \A i \in 2 .. Len(q) : q[i] # b
    PROVE  /\ Len(Without(q, {b})) = Len(q) - 1
           /\ \A i \in 1 .. Len(q) - 1 : Without(q, {b})[i] = q[i + 1]
<1> DEFINE N == Len(q)
           After(n) == IF n = 0 THEN 0 ELSE n - 1
           S == [n \in 0 .. N |-> {w \in Seq(Range(q)) :
                    Len(w) = After(n) /\ \A i \in 1 .. After(n) : w[i] = q[i + 1]}]
           Step(w, n) == IF q[n] \in {b} THEN w ELSE Append(w, q[n])
<1>1. N \in Nat /\ N # 0 /\ \A i \in 1 .. N : q[i] \in Range(q)
  BY IsSeqFacts
<1> HIDE DEF N
<1>2. <<>> \in S[0]
  <2>1. <<>> \in Seq(Range(q)) /\ Len(<<>>) = 0 /\ 0 \in 0 .. N
    BY <1>1, EmptySeq
  <2> QED BY <2>1
<1>3. ASSUME NEW n \in 1 .. N, NEW w \in S[n - 1] PROVE Step(w, n) \in S[n]
  <2>1. n - 1 \in 0 .. N /\ n \in 0 .. N
    BY <1>1
  <2>2. /\ w \in Seq(Range(q)) /\ Len(w) = After(n - 1)
        /\ \A i \in 1 .. After(n - 1) : w[i] = q[i + 1]
    BY <2>1
  <2>3. CASE n = 1
    <3>1. Step(w, n) = w /\ After(n) = 0 /\ After(n - 1) = 0
      BY <2>3
    <3> QED BY <2>1, <2>2, <3>1
  <2>4. CASE n # 1
    <3>1. n \in 2 .. Len(q) /\ After(n - 1) = n - 2 /\ After(n) = n - 1
      BY <1>1, <2>4 DEF N
    <3>2. Step(w, n) = Append(w, q[n])
      BY <3>1
    <3>3. PICK v : v = Append(w, q[n])
      OBVIOUS
    <3>4. /\ v \in Seq(Range(q)) /\ Len(v) = Len(w) + 1 /\ v[Len(w) + 1] = q[n]
          /\ \A i \in 1 .. Len(w) : v[i] = w[i]
      <4>1. q[n] \in Range(q)
        BY <1>1
      <4> QED BY <2>2, <3>3, <4>1, AppendProperties
    <3>5. Len(w) = n - 2 /\ Len(v) = n - 1 /\ v[n - 1] = q[n]
      <4>1. PICK m : m = Len(w)
        OBVIOUS
      <4>2. m = n - 2 /\ n \in Int
        BY <2>2, <3>1, <4>1
      <4>3. m + 1 = n - 1
        BY <4>2
      <4> QED BY <3>4, <4>1, <4>2, <4>3
    <3>6. ASSUME NEW i \in 1 .. n - 1 PROVE v[i] = q[i + 1]
      <4>1. CASE i = n - 1
        <5>1. i + 1 = n
          BY <4>1
        <5> QED BY <3>5, <4>1, <5>1
      <4>2. CASE i # n - 1
        <5>1. i \in 1 .. n - 2
          BY <4>2
        <5> QED BY <2>2, <3>1, <3>4, <3>5, <5>1
      <4> QED BY <4>1, <4>2
    <3> QED BY <2>1, <3>1, <3>2, <3>3, <3>4, <3>5, <3>6
  <2> QED BY <2>3, <2>4
<1>4. Without(q, {b}) \in S[N]
  <2> HIDE DEF S
  <2>1. \A n \in 1 .. Len(q) : \A w \in S[n - 1] :
            (IF q[n] \in {b} THEN w ELSE Append(w, q[n])) \in S[n]
    BY <1>3 DEF N
  <2> QED BY <1>2, <2>1, WithoutLoop DEF N
<1>5. N \in 0 .. N /\ After(N) = N - 1
  BY <1>1
<1>6. /\ Len(Without(q, {b})) = After(N)
      /\ \A i \in 1 .. After(N) : Without(q, {b})[i] = q[i + 1]
  BY <1>4, <1>5
<1> QED BY <1>5, <1>6 DEF N

-----------------------------------------------------------------------------
(* The replica scheduler. *)

(* The least of a few numbers is one of them and no larger than any. *)
LEMMA MinOfSet ==
    ASSUME NEW S, NEW m \in S, \A y \in S : m <= y
    PROVE  Min(S) \in S /\ \A y \in S : Min(S) <= y
<1>1. Min(S) = CHOOSE x \in S : \A y \in S : x <= y
  BY DEF Min
<1> QED BY <1>1, Zenon

(* The lesser of two numbers.                                               *)
LEMMA MinOfTwo ==
    ASSUME NEW a \in Int, NEW b \in Int
    PROVE  /\ Min({a, b}) \in Int
           /\ Min({a, b}) = a \/ Min({a, b}) = b
           /\ Min({a, b}) <= a /\ Min({a, b}) <= b
<1>1. \E m \in {a, b} : \A y \in {a, b} : m <= y
  OBVIOUS
<1>2. Min({a, b}) \in {a, b} /\ \A y \in {a, b} : Min({a, b}) <= y
  BY <1>1, MinOfSet, Zenon
<1> QED BY <1>2

(* The least of three numbers.                                              *)
LEMMA MinOfThree ==
    ASSUME NEW a \in Int, NEW b \in Int, NEW c \in Int
    PROVE  /\ Min({a, b, c}) \in Int
           /\ Min({a, b, c}) = a \/ Min({a, b, c}) = b \/ Min({a, b, c}) = c
           /\ Min({a, b, c}) <= b
<1>1. \E m \in {a, b, c} : \A y \in {a, b, c} : m <= y
  <2>1. CASE a <= b /\ a <= c
    BY <2>1
  <2>2. CASE b <= a /\ b <= c
    BY <2>2
  <2>3. CASE c <= a /\ c <= b
    BY <2>3
  <2> QED BY <2>1, <2>2, <2>3
<1>2. Min({a, b, c}) \in {a, b, c} /\ \A y \in {a, b, c} : Min({a, b, c}) <= y
  BY <1>1, MinOfSet, Zenon
<1> QED BY <1>2

(* A batch is formed of queued and of preempted requests; there is one as   *)
(* long as a request is preempted, and as long as one is queued when no     *)
(* memory is allocated.                                                     *)
LEMMA NextBatchFacts ==
    ASSUME NEW s, SchedulerInv(s), NEW b, b = NextBatch(s)
    PROVE  /\ IsSeq(b) /\ Range(b) \subseteq Range(s.queue) \cup Range(s.preempted)
           /\ b = <<>> => s.preempted = <<>>
           /\ b = <<>> /\ s.allocated = {} => s.queue = <<>>
<1>1. PICK r : r = Min({MaxBatchSize, Len(s.preempted)})
  OBVIOUS
<1>2. PICK a : a = Min({MaxBatchSize - r, Len(s.queue), Slots - Cardinality(s.allocated)})
  OBVIOUS
<1>3. /\ MaxBatchSize \in Nat \ {0} /\ Slots \in Nat \ {0}
      /\ Len(s.preempted) \in Nat /\ Len(s.queue) \in Nat
      /\ Cardinality(s.allocated) \in Nat
  BY SimulatorAssumption, IsSeqFacts, FS_CardinalityType DEF SchedulerInv
<1>4. /\ r \in Int /\ r <= Len(s.preempted)
      /\ r = MaxBatchSize \/ r = Len(s.preempted)
  <2>1. MaxBatchSize \in Int /\ Len(s.preempted) \in Int
    BY <1>3
  <2>2. /\ r \in Int /\ r <= MaxBatchSize /\ r <= Len(s.preempted)
        /\ r = MaxBatchSize \/ r = Len(s.preempted)
    BY <1>1, <2>1, MinOfTwo, Zenon
  <2> QED BY <2>2
<1>5. /\ a \in Int /\ a <= Len(s.queue)
      /\ \/ a = MaxBatchSize - r \/ a = Len(s.queue)
         \/ a = Slots - Cardinality(s.allocated)
  <2>1. MaxBatchSize - r \in Int /\ Slots - Cardinality(s.allocated) \in Int
    BY <1>3, <1>4
  <2>2. Len(s.queue) \in Int
    BY <1>3
  <2> QED BY <1>2, <2>1, <2>2, MinOfThree, Zenon
<1>6. b = SubSeq(s.preempted, 1, r) \o SubSeq(s.queue, 1, a)
  BY <1>1, <1>2 DEF NextBatch
<1>7. /\ IsSeq(SubSeq(s.preempted, 1, r))
      /\ Range(SubSeq(s.preempted, 1, r)) \subseteq Range(s.preempted)
      /\ SubSeq(s.preempted, 1, r) = <<>> => r <= 0
  BY <1>4, PrefixIsSeq DEF SchedulerInv
<1>8. /\ IsSeq(SubSeq(s.queue, 1, a))
      /\ Range(SubSeq(s.queue, 1, a)) \subseteq Range(s.queue)
      /\ SubSeq(s.queue, 1, a) = <<>> => a <= 0
  BY <1>5, PrefixIsSeq DEF SchedulerInv
<1>9. /\ IsSeq(b)
      /\ Range(b) = Range(SubSeq(s.preempted, 1, r)) \cup Range(SubSeq(s.queue, 1, a))
  BY <1>6, <1>7, <1>8, ConcatIsSeq
<1>10. b = <<>> => r <= 0 /\ a <= 0
  <2> SUFFICES ASSUME b = <<>> PROVE r <= 0 /\ a <= 0
    OBVIOUS
  <2>1. Range(b) = {}
    BY <1>9, IsSeqFacts
  <2> QED BY <1>7, <1>8, <1>9, <2>1, IsSeqFacts
<1>11. b = <<>> => s.preempted = <<>>
  <2>1. r <= 0 => Len(s.preempted) = 0
    BY <1>3, <1>4
  <2> QED BY <1>10, <2>1, IsSeqFacts DEF SchedulerInv
<1>12. b = <<>> /\ s.allocated = {} => s.queue = <<>>
  <2> SUFFICES ASSUME b = <<>>, s.allocated = {} PROVE s.queue = <<>>
    OBVIOUS
  <2>1. Cardinality(s.allocated) = 0
    BY FS_EmptySet
  <2>2. Len(s.preempted) = 0
    BY <1>11, IsSeqFacts DEF SchedulerInv
  <2>3. Len(s.queue) = 0
    BY <1>3, <1>4, <1>5, <1>10, <2>1, <2>2
  <2> QED BY <2>3, IsSeqFacts DEF SchedulerInv
<1> QED BY <1>7, <1>8, <1>9, <1>11, <1>12

(* What dispatching a batch changes. *)
LEMMA DispatchedFacts ==
    ASSUME NEW s, SchedulerInv(s), NEW b, IsSeq(b), NEW d, d = Dispatched(s, b)
    PROVE  /\ SchedulerInv(d)
           /\ d.running = s.running + 1
           /\ d.allocated = s.allocated \cup Range(b)
           /\ Range(d.preempted) = Range(s.preempted) \ Range(b)
           /\ Range(d.queue) \subseteq Range(s.queue)
<1>1. /\ d.queue = Without(s.queue, Range(b))
      /\ d.preempted = Without(s.preempted, Range(b))
      /\ d.allocated = s.allocated \cup Range(b) /\ d.running = s.running + 1
      /\ d = [queue |-> d.queue, preempted |-> d.preempted,
              allocated |-> d.allocated, running |-> d.running]
  BY DEF Dispatched
<1>2. /\ IsSeq(d.queue) /\ Range(d.queue) = Range(s.queue) \ Range(b)
      /\ IsSeq(d.preempted) /\ Range(d.preempted) = Range(s.preempted) \ Range(b)
  BY <1>1, WithoutFacts DEF SchedulerInv
<1>3. IsFiniteSet(d.allocated)
  <2>1. IsFiniteSet(s.allocated) /\ IsFiniteSet(Range(b))
    BY IsSeqFacts DEF SchedulerInv
  <2> QED BY <1>1, <2>1, FS_Union
<1>4. d.running \in Nat
  BY <1>1 DEF SchedulerInv
<1> QED BY <1>1, <1>2, <1>3, <1>4 DEF SchedulerInv

(* One round of the loop of on_schedule. *)
Round(was) ==
    IF was.after.running < NumStages /\ NextBatch(was.after) # <<>>
    THEN [after |-> Dispatched(was.after, NextBatch(was.after)),
          batches |-> Append(was.batches, NextBatch(was.after))]
    ELSE was

(* f is the function that OnSchedule builds over the stages. *)
RoundsOf(s, f) ==
    f = [k \in 0 .. NumStages |->
            IF k = 0 THEN [after |-> s, batches |-> <<>>] ELSE Round(f[k - 1])]

(* There is one: it can be built round by round. *)
LEMMA RoundsExist ==
    ASSUME NEW s
    PROVE  \E f : RoundsOf(s, f)
<1> DEFINE base == [after |-> s, batches |-> <<>>]
           Step(g, n) == IF n = 0 THEN base ELSE Round(g[n - 1])
           UpTo(n) == \E g : \A m \in 0 .. n : g[m] = Step(g, m)
           T == {n \in Nat : UpTo(n)}
<1> HIDE DEF base
<1>1. 0 \in T
  <2> DEFINE g == [m \in 0 .. 0 |-> base]
  <2>1. \A m \in 0 .. 0 : g[m] = Step(g, m)
    OBVIOUS
  <2>2. UpTo(0)
    BY <2>1
  <2> QED BY <2>2
<1>2. ASSUME NEW n \in Nat, n \in T PROVE n + 1 \in T
  <2>1. PICK g : \A m \in 0 .. n : g[m] = Step(g, m)
    BY <1>2
  <2> DEFINE h == [m \in 0 .. n + 1 |-> IF m <= n THEN g[m] ELSE Step(g, m)]
  <2>2. ASSUME NEW m \in 0 .. n + 1 PROVE h[m] = Step(h, m)
    <3>1. h[m] = Step(g, m)
      BY <2>1
    <3>2. m # 0 => m - 1 \in 0 .. n /\ h[m - 1] = g[m - 1]
      OBVIOUS
    <3> HIDE DEF h
    <3> QED BY <3>1, <3>2
  <2> HIDE DEF h
  <2>3. UpTo(n + 1)
    BY <2>2
  <2> QED BY <2>3
<1>3. NumStages \in T
  <2> HIDE DEF T
  <2>1. Nat \subseteq T
    BY <1>1, <1>2, SetInduction
  <2> QED BY <2>1, SimulatorAssumption
<1>4. PICK g : \A m \in 0 .. NumStages : g[m] = Step(g, m)
  BY <1>3
<1> DEFINE h == [m \in 0 .. NumStages |-> g[m]]
<1>5. ASSUME NEW m \in 0 .. NumStages PROVE h[m] = Step(h, m)
  <2>1. NumStages \in Nat
    BY SimulatorAssumption
  <2>2. h[m] = Step(g, m)
    BY <1>4
  <2>3. m # 0 => m - 1 \in 0 .. NumStages /\ h[m - 1] = g[m - 1]
    BY <2>1
  <2> HIDE DEF h
  <2> QED BY <2>2, <2>3
<1>6. h = [m \in 0 .. NumStages |-> Step(h, m)]
  <2>1. h = [m \in 0 .. NumStages |-> h[m]]
    OBVIOUS
  <2> HIDE DEF h
  <2> QED BY <1>5, <2>1
<1>7. RoundsOf(s, h)
  BY <1>6 DEF RoundsOf, base
<1> QED BY <1>7

(* OnSchedule is the value of that function after the last stage. *)
LEMMA OnScheduleDef ==
    ASSUME NEW s
    PROVE  \E f : RoundsOf(s, f) /\ OnSchedule(s) = f[NumStages]
<1> DEFINE c == CHOOSE f : RoundsOf(s, f)
<1>1. RoundsOf(s, c)
  BY RoundsExist, Zenon
<1>2. OnSchedule(s) = c[NumStages]
  BY DEF OnSchedule, RoundsOf, Round
<1> QED BY <1>1, <1>2, Zenon

(* After n rounds from s: the batches are counted as running and hold the   *)
(* requests that have memory and are neither preempted nor were in a batch  *)
(* before; there are n of them, or no further batch can be formed.          *)
AfterRounds(s, n, w) ==
    /\ SchedulerInv(w.after) /\ IsSeq(w.batches)
    /\ \A b \in Range(w.batches) : IsSeq(b)
    /\ w.after.running = s.running + Len(w.batches)
    /\ \A q \in w.after.allocated :
            \/ q \in Range(w.after.preempted)
            \/ q \in s.allocated /\ q \notin Range(s.preempted)
            \/ \E b \in Range(w.batches) : q \in Range(b)
    /\ \/ w.after.running >= n
       \/ w.after.running >= NumStages
       \/ NextBatch(w.after) = <<>>

(* A round does so. *)
LEMMA RoundFacts ==
    ASSUME NEW s, s.running \in Nat, NEW n \in Nat, NEW w, AfterRounds(s, n, w)
    PROVE  AfterRounds(s, n + 1, Round(w))
<1>1. CASE ~(w.after.running < NumStages /\ NextBatch(w.after) # <<>>)
  <2>1. Round(w) = w
    BY <1>1 DEF Round
  <2>2. w.after.running \in Nat /\ NumStages \in Nat
    BY SimulatorAssumption DEF AfterRounds, SchedulerInv
  <2>3. w.after.running >= NumStages \/ NextBatch(w.after) = <<>>
    BY <1>1, <2>2
  <2> QED BY <2>1, <2>3 DEF AfterRounds
<1>2. CASE w.after.running < NumStages /\ NextBatch(w.after) # <<>>
  <2>1. PICK b : b = NextBatch(w.after)
    OBVIOUS
  <2>2. PICK d : d = Dispatched(w.after, b)
    OBVIOUS
  <2>3. PICK v : v = Round(w)
    OBVIOUS
  <2>4. v.after = d /\ v.batches = Append(w.batches, b)
    BY <1>2, <2>1, <2>2, <2>3 DEF Round
  <2>5. SchedulerInv(w.after) /\ IsSeq(w.batches)
    BY DEF AfterRounds
  <2>6. IsSeq(b)
    BY <2>1, <2>5, NextBatchFacts
  <2>7. /\ SchedulerInv(d)
        /\ d.running = w.after.running + 1
        /\ d.allocated = w.after.allocated \cup Range(b)
        /\ Range(d.preempted) = Range(w.after.preempted) \ Range(b)
    BY <2>2, <2>5, <2>6, DispatchedFacts
  <2>8. /\ IsSeq(v.batches) /\ Range(v.batches) = Range(w.batches) \cup {b}
        /\ Len(v.batches) = Len(w.batches) + 1 /\ Len(w.batches) \in Nat
    BY <2>4, <2>5, AppendIsSeq, IsSeqFacts
  <2>9. \A x \in Range(v.batches) : IsSeq(x)
    BY <2>6, <2>8 DEF AfterRounds
  <2>10. v.after.running = s.running + Len(v.batches)
    <3>1. w.after.running = s.running + Len(w.batches)
      BY DEF AfterRounds
    <3>2. v.after.running = w.after.running + 1 /\ Len(v.batches) = Len(w.batches) + 1
      BY <2>4, <2>7, <2>8
    <3>3. Len(w.batches) \in Nat /\ s.running \in Nat
      BY <2>8
    <3>4. (s.running + Len(w.batches)) + 1 = s.running + (Len(w.batches) + 1)
      BY <3>3
    <3> QED BY <3>1, <3>2, <3>4
  <2>11. ASSUME NEW q \in v.after.allocated
         PROVE  \/ q \in Range(v.after.preempted)
                \/ q \in s.allocated /\ q \notin Range(s.preempted)
                \/ \E x \in Range(v.batches) : q \in Range(x)
    <3>1. CASE q \in Range(b)
      BY <2>8, <3>1
    <3>2. CASE q \notin Range(b)
      <4>1. q \in w.after.allocated
        BY <2>4, <2>7, <3>2
      <4> QED BY <2>4, <2>7, <2>8, <3>2, <4>1 DEF AfterRounds
    <3> QED BY <3>1, <3>2
  <2>12. v.after.running >= n + 1
    <3>1. w.after.running \in Nat /\ NumStages \in Nat
      BY <2>5, SimulatorAssumption DEF SchedulerInv
    <3>2. w.after.running >= n
      BY <1>2, <3>1 DEF AfterRounds
    <3> QED BY <2>4, <2>7, <3>1, <3>2
  <2>13. AfterRounds(s, n + 1, v)
    BY <2>4, <2>7, <2>8, <2>9, <2>10, <2>11, <2>12 DEF AfterRounds
  <2> QED BY <2>3, <2>13
<1> QED BY <1>1, <1>2

(* on_schedule leaves no free stage for which a batch can be formed. *)
LEMMA OnScheduleFacts ==
    ASSUME NEW s, SchedulerInv(s)
    PROVE  AfterRounds(s, NumStages, OnSchedule(s))
<1>1. PICK f : RoundsOf(s, f) /\ OnSchedule(s) = f[NumStages]
  BY OnScheduleDef
<1>2. NumStages \in Nat
  BY SimulatorAssumption
<1>3. \A n \in 0 .. NumStages :
        f[n] = IF n = 0 THEN [after |-> s, batches |-> <<>>] ELSE Round(f[n - 1])
  BY <1>1 DEF RoundsOf
<1> DEFINE T == {n \in Nat : n <= NumStages => AfterRounds(s, n, f[n])}
<1>4. 0 \in T
  <2>1. PICK w : w = [after |-> s, batches |-> <<>>]
    OBVIOUS
  <2>2. w.after = s /\ w.batches = <<>>
    BY <2>1
  <2>3. IsSeq(<<>>) /\ Range(<<>>) = {} /\ Len(<<>>) = 0
    BY EmptySeq DEF IsSeq, Range
  <2>4. s.running \in Nat
    BY DEF SchedulerInv
  <2>5. w.after.running = s.running + Len(w.batches) /\ w.after.running >= 0
    BY <2>2, <2>3, <2>4
  <2>6. \A q \in s.allocated :
            q \in Range(s.preempted) \/ (q \in s.allocated /\ q \notin Range(s.preempted))
    OBVIOUS
  <2>7. AfterRounds(s, 0, w)
    BY <2>2, <2>3, <2>5, <2>6 DEF AfterRounds
  <2>8. f[0] = w
    BY <1>2, <1>3, <2>1
  <2> QED BY <2>7, <2>8
<1>5. ASSUME NEW n \in Nat, n \in T PROVE n + 1 \in T
  <2> SUFFICES ASSUME n + 1 <= NumStages PROVE AfterRounds(s, n + 1, f[n + 1])
    OBVIOUS
  <2>1. PICK m : m = n + 1
    OBVIOUS
  <2>2. m \in 0 .. NumStages /\ m # 0 /\ m - 1 = n /\ n <= NumStages
    BY <1>2, <2>1
  <2>3. f[m] = Round(f[n])
    BY <1>3, <2>2
  <2>4. AfterRounds(s, n, f[n])
    BY <1>5, <2>2
  <2>5. AfterRounds(s, n + 1, Round(f[n]))
    BY <2>4, RoundFacts DEF SchedulerInv
  <2> QED BY <2>1, <2>3, <2>5
<1>6. NumStages \in T
  <2> HIDE DEF T
  <2>1. Nat \subseteq T
    BY <1>4, <1>5, SetInduction
  <2> QED BY <1>2, <2>1
<1> QED BY <1>1, <1>2, <1>6

-----------------------------------------------------------------------------
(* The global schedulers. *)

(* There is a replica with the fewest waiting requests and the least index. *)
LEMMA LeastPendingIsReplica ==
    ASSUME NEW pending \in [Replicas -> Nat]
    PROVE  LeastPending(pending) \in Replicas
<1> DEFINE Least(r) == \A q \in Replicas \ {r} :
                \/ pending[r] < pending[q]
                \/ (pending[r] = pending[q] /\ r < q)
<1>1. /\ 0 \in Replicas /\ Replicas \subseteq Nat
      /\ IsFiniteSet(Replicas)
  <2>1. NumReplicas \in Nat \ {0}
    BY SimulatorAssumption
  <2>2. IsFiniteSet(0 .. NumReplicas - 1)
    <3>1. 0 \in Int /\ NumReplicas - 1 \in Int
      BY <2>1
    <3> QED BY <3>1, FS_Interval, Zenon
  <2> QED BY <2>1, <2>2 DEF Replicas
<1>2. PICK a \in Replicas : \A q \in Replicas : pending[a] <= pending[q]
  <2>1. \A q \in Replicas : pending[q] \in Int
    OBVIOUS
  <2> QED BY <1>1, <2>1, Extremes
<1> DEFINE best == {q \in Replicas : pending[q] = pending[a]}
           id == [q \in best |-> q]
<1>3. PICK b \in best : \A q \in best : b <= q
  <2>1. /\ best # {} /\ best \in SUBSET Replicas
        /\ \A q \in best : id[q] = q /\ id[q] \in Int
    BY <1>1
  <2> HIDE DEF best, id
  <2>2. IsFiniteSet(best)
    BY <1>1, <2>1, FS_Subset, Zenon
  <2>3. PICK b \in best : \A q \in best : id[b] <= id[q]
    BY <2>1, <2>2, Extremes
  <2> QED BY <2>1, <2>3
<1>4. Least(b)
  <2> SUFFICES ASSUME NEW q \in Replicas \ {b}
               PROVE  \/ pending[b] < pending[q]
                      \/ (pending[b] = pending[q] /\ b < q)
    OBVIOUS
  <2>1. pending[b] <= pending[q] /\ pending[b] \in Nat /\ pending[q] \in Nat
    BY <1>2, <1>3
  <2>2. pending[b] = pending[q] => b <= q
    BY <1>3
  <2>3. b \in Nat /\ q \in Nat /\ b # q
    BY <1>1
  <2> QED BY <2>1, <2>2, <2>3
<1>5. LeastPending(pending) = CHOOSE r \in Replicas : Least(r)
  BY DEF LeastPending
<1> HIDE DEF Least
<1> QED BY <1>3, <1>4, <1>5, Zenon

(* One request more for the replica with the fewest. *)
Place(was) ==
    [pending |-> [was.pending EXCEPT ![LeastPending(was.pending)] = @ + 1],
     placed |-> Append(was.placed, LeastPending(was.pending))]

(* f is the function that LorPlacement builds over the requests. *)
PlacesOf(n, f) ==
    f = [k \in 0 .. n |->
            IF k = 0
            THEN [pending |-> [r \in Replicas |-> Len(scheduler[r].queue)], placed |-> <<>>]
            ELSE Place(f[k - 1])]

(* The loop places its k-th request after k - 1 others. *)
Placed(k) == {w \in [pending : [Replicas -> Nat], placed : Seq(Replicas)] : Len(w.placed) = k}

(* A round of the loop places one request more, at a replica.               *)
LEMMA PlaceFacts ==
    ASSUME NEW k \in Nat, NEW w \in Placed(k)
    PROVE  Place(w) \in Placed(k + 1)
<1>1. PICK r : r = LeastPending(w.pending)
  OBVIOUS
<1>2. w.pending \in [Replicas -> Nat] /\ w.placed \in Seq(Replicas) /\ Len(w.placed) = k
  BY DEF Placed
<1>3. r \in Replicas
  BY <1>1, <1>2, LeastPendingIsReplica
<1>4. [w.pending EXCEPT ![r] = @ + 1] \in [Replicas -> Nat]
  BY <1>2, <1>3
<1>5. Append(w.placed, r) \in Seq(Replicas) /\ Len(Append(w.placed, r)) = k + 1
  BY <1>2, <1>3, AppendProperties
<1> QED BY <1>1, <1>4, <1>5 DEF Place, Placed

(* Least outstanding requests gives each request to a replica. *)
LEMMA LorPlacementFacts ==
    ASSUME PartsInv, NEW n \in Nat
    PROVE  LorPlacement(n) \in Seq(Replicas) /\ Len(LorPlacement(n)) = n
<1> DEFINE base == [pending |-> [r \in Replicas |-> Len(scheduler[r].queue)], placed |-> <<>>]
           S == [k \in 0 .. n |-> Placed(k)]
           All == {w \in [pending : [Replicas -> Nat], placed : Seq(Replicas)] : TRUE}
           G == [p \in All \X (1 .. n) |-> Place(p[1])]
<1>1. base \in Placed(0)
  <2>1. \A r \in Replicas : Len(scheduler[r].queue) \in Nat
    BY IsSeqFacts DEF PartsInv, SchedulerInv
  <2>2. <<>> \in Seq(Replicas) /\ Len(<<>>) = 0
    BY EmptySeq
  <2> QED BY <2>1, <2>2 DEF Placed
<1> HIDE DEF base
<1>2. ASSUME NEW k \in 1 .. n, NEW w \in S[k - 1]
      PROVE  G[<<w, k>>] = Place(w) /\ Place(w) \in S[k]
  <2>1. k - 1 \in 0 .. n /\ k \in 0 .. n /\ (k - 1) + 1 = k /\ k - 1 \in Nat
    OBVIOUS
  <2>2. w \in Placed(k - 1)
    BY <2>1
  <2>3. Place(w) \in Placed(k)
    BY <2>1, <2>2, PlaceFacts
  <2>4. w \in All
    BY <2>2 DEF Placed
  <2>5. G[<<w, k>>] = Place(w)
    <3> HIDE DEF All
    <3> QED BY <2>4
  <2> QED BY <2>1, <2>3, <2>5
<1>3. base \in S[0]
  BY <1>1
<1> HIDE DEF S, G
<1>4. PICK f : Loop(n, base, G, f) /\ \A k \in 0 .. n : f[k] \in S[k]
  <2>1. \A k \in 1 .. n : \A w \in S[k - 1] : G[<<w, k>>] \in S[k]
    BY <1>2
  <2> QED BY <1>3, <2>1, Iteration
<1>5. ASSUME NEW k \in 0 .. n, k # 0 PROVE G[<<f[k - 1], k>>] = Place(f[k - 1])
  <2>1. k \in 1 .. n /\ k - 1 \in 0 .. n
    BY <1>5
  <2>2. f[k - 1] \in S[k - 1]
    BY <1>4, <2>1
  <2> QED BY <1>2, <2>1, <2>2
<1>6. PlacesOf(n, f)
  <2>1. f = [k \in 0 .. n |-> IF k = 0 THEN base ELSE Place(f[k - 1])]
    BY <1>4, <1>5 DEF Loop
  <2> QED BY <2>1 DEF PlacesOf, base
<1> DEFINE c == CHOOSE g : PlacesOf(n, g)
<1>7. PlacesOf(n, c)
  BY <1>6, Zenon
<1>8. LorPlacement(n) = c[n].placed
  BY DEF LorPlacement, PlacesOf, Place
<1> HIDE DEF c
<1>9. \A k \in 0 .. n : c[k] = IF k = 0 THEN base ELSE Place(c[k - 1])
  BY <1>7 DEF PlacesOf, base
<1> DEFINE T == {k \in Nat : k <= n => c[k] \in Placed(k)}
<1>10. 0 \in T
  BY <1>1, <1>9
<1>11. ASSUME NEW k \in Nat, k \in T PROVE k + 1 \in T
  <2> SUFFICES ASSUME k + 1 <= n PROVE c[k + 1] \in Placed(k + 1)
    OBVIOUS
  <2>1. PICK m : m = k + 1
    OBVIOUS
  <2>2. m \in 0 .. n /\ m # 0 /\ m - 1 = k /\ k <= n
    BY <2>1
  <2>3. c[m] = Place(c[k])
    BY <1>9, <2>2
  <2>4. Place(c[k]) \in Placed(k + 1)
    BY <1>11, <2>2, PlaceFacts
  <2> QED BY <2>1, <2>3, <2>4
<1>12. n \in T
  <2> HIDE DEF T
  <2>1. Nat \subseteq T
    BY <1>10, <1>11, SetInduction
  <2> QED BY <2>1
<1> QED BY <1>8, <1>12 DEF Placed

(* Every global scheduler gives each request of the queue to a replica. *)
LEMMA PlacementFacts ==
    ASSUME PartsInv, NEW n \in Nat, NEW placed \in Placements(n)
    PROVE  placed \in Seq(Replicas) /\ DOMAIN placed = 1 .. n
<1>1. policy \in {"round_robin", "random", "lor"}
  BY SimulatorAssumption DEF PartsInv
<1>2. CASE policy = "round_robin"
  <2>1. placed = [k \in 1 .. n |-> (request_counter + k - 1) % NumReplicas]
    BY <1>2 DEF Placements, RoundRobinPlacement
  <2>2. request_counter \in Nat /\ NumReplicas \in Nat \ {0}
    BY SimulatorAssumption DEF PartsInv
  <2>3. \A k \in 1 .. n : (request_counter + k - 1) % NumReplicas \in Replicas
    <3> TAKE k \in 1 .. n
    <3>1. request_counter + k - 1 \in Int
      BY <2>2
    <3>2. (request_counter + k - 1) % NumReplicas \in 0 .. NumReplicas - 1
      BY <2>2, <3>1
    <3> QED BY <3>2 DEF Replicas
  <2>4. placed \in [1 .. n -> Replicas]
    BY <2>1, <2>3
  <2> QED BY <2>4, SeqDef
<1>3. CASE policy = "random"
  <2>1. placed \in [1 .. n -> Replicas]
    BY <1>3 DEF Placements, RandomPlacements
  <2> QED BY <2>1, SeqDef
<1>4. CASE policy = "lor"
  <2>1. placed = LorPlacement(n)
    BY <1>4 DEF Placements
  <2>2. placed \in Seq(Replicas) /\ Len(placed) = n
    BY <2>1, LorPlacementFacts
  <2> QED BY <2>2, LenProperties
<1> QED BY <1>1, <1>2, <1>3, <1>4

(* The events are made for each replica of a set. *)
LEMMA OrderCovers ==
    ASSUME NEW S, IsFiniteSet(S), NEW order \in SetToSeqs(S)
    PROVE  /\ IsSeq(order) /\ Range(order) = S
<1> DEFINE n == Cardinality(S)
<1>1. n \in Nat /\ IsFiniteSet(1 .. n) /\ Cardinality(1 .. n) = n
  <2>1. n \in Nat
    BY FS_CardinalityType
  <2>2. /\ IsFiniteSet(1 .. n)
        /\ Cardinality(1 .. n) = IF 1 > n THEN 0 ELSE n - 1 + 1
    <3> HIDE DEF n
    <3> QED BY <2>1, FS_Interval
  <2> HIDE DEF n
  <2> QED BY <2>1, <2>2
<1>2. order \in [1 .. n -> S] /\ \A i, j \in 1 .. n : i # j => order[i] # order[j]
  BY DEF SetToSeqs
<1>3. order \in Injection(1 .. n, S)
  <2> HIDE DEF n
  <2> QED BY <1>2 DEF Injection, IsInjective
<1>4. order \in Surjection(1 .. n, S)
  <2> HIDE DEF n
  <2>1. Cardinality(1 .. n) = Cardinality(S)
    BY <1>1 DEF n
  <2> QED BY <1>3, <2>1, FS_Injection
<1>5. order \in Seq(S)
  <2> HIDE DEF n
  <2> QED BY <1>1, <1>2, SeqDef
<1>6. DOMAIN order = 1 .. n
  BY <1>2
<1>7. Range(order) = S
  <2> HIDE DEF n
  <2>1. \A x \in S : \E i \in 1 .. n : order[i] = x
    BY <1>4 DEF Surjection
  <2> QED BY <1>2, <1>6, <2>1 DEF Range
<1> QED BY <1>5, <1>7, SeqIsSeq

-----------------------------------------------------------------------------
(* The event heap. *)

(* The i-th of the events that a handler makes, as it is queued. *)
Fresh(events, i) ==
    [time |-> events[i].time, id |-> last_id + i, call |-> events[i].call]

(* One iteration of the loop of run: e is taken, events are queued. *)
Iterated(e, events) ==
    /\ e \in event_queue /\ e.time >= now
    /\ \A f \in event_queue : f.time >= e.time
    /\ now' = e.time
    /\ IsSeq(events)
    /\ event_queue' = (event_queue \ {e}) \cup {Fresh(events, i) : i \in DOMAIN events}
    /\ \A i \in DOMAIN events : Fresh(events, i) \notin event_queue

(* A call made now or later, that a handler can serve. *)
Timely(e, x) == x.time \in Nat /\ x.time >= e.time /\ CallInv(x.call)

(* An iteration keeps the heap in order and time does not go back. *)
LEMMA HandledFacts ==
    ASSUME HeapInv, Punctual, NEW type, NEW e \in Popped(type),
           NEW events, IsSeq(events), \A x \in Range(events) : Timely(e, x),
           Handled(e, events)
    PROVE  /\ Iterated(e, events) /\ HeapInv' /\ Punctual' /\ policy' = policy
           /\ e \in event_queue /\ e.call.type = type /\ e.time \in Nat /\ CallInv(e.call)
<1>1. e \in event_queue /\ e.call.type = type /\ e.time \in Nat /\ CallInv(e.call)
  BY DEF Popped, HeapInv
<1>2. \A f \in event_queue : f.time >= e.time
  <2> SUFFICES ASSUME NEW f \in event_queue, f # e PROVE f.time >= e.time
    BY <1>1
  <2>1. Before(e, f)
    BY DEF Popped
  <2>2. f.time \in Nat
    BY DEF HeapInv
  <2> QED BY <1>1, <2>1, <2>2 DEF Before
<1>3. now' = e.time /\ last_id' = last_id + Len(events) /\ policy' = policy
  BY DEF Handled, SetTime, config
<1>4. event_queue' = (event_queue \ {e}) \cup {Fresh(events, i) : i \in DOMAIN events}
  BY DEF Handled, Numbered, Fresh
<1>5. Len(events) \in Nat /\ last_id \in Nat /\ DOMAIN events = 1 .. Len(events)
      /\ \A i \in DOMAIN events : events[i] \in Range(events)
  BY IsSeqFacts DEF HeapInv
<1>6. ASSUME NEW i \in DOMAIN events
      PROVE  /\ Fresh(events, i).time = events[i].time
             /\ Fresh(events, i).call = events[i].call
             /\ Fresh(events, i).id = last_id + i
             /\ Fresh(events, i) \notin event_queue
  <2>1. Fresh(events, i).id = last_id + i
    BY DEF Fresh
  <2>2. \A f \in event_queue : f.id \in 1 .. last_id
    BY DEF HeapInv
  <2>3. last_id + i \notin 1 .. last_id
    BY <1>5
  <2>4. Fresh(events, i) \notin event_queue
    BY <2>1, <2>2, <2>3
  <2> QED BY <2>1, <2>4 DEF Fresh
<1>7. Iterated(e, events)
  BY <1>1, <1>2, <1>3, <1>4, <1>6 DEF Iterated, Punctual
<1>8. ASSUME NEW f \in event_queue'
      PROVE  f.time \in Nat /\ f.id \in 1 .. last_id' /\ CallInv(f.call) /\ f.time >= now'
  <2>1. CASE f \in event_queue
    <3>1. f.time \in Nat /\ f.id \in 1 .. last_id /\ CallInv(f.call)
      BY <2>1 DEF HeapInv
    <3> QED BY <1>2, <1>3, <1>5, <2>1, <3>1
  <2>2. CASE \E i \in DOMAIN events : f = Fresh(events, i)
    <3>1. PICK i \in DOMAIN events : f = Fresh(events, i)
      BY <2>2
    <3>2. f.time = events[i].time /\ f.call = events[i].call /\ f.id = last_id + i
      BY <1>6, <3>1
    <3>3. Timely(e, events[i])
      BY <1>5
    <3>4. f.id \in 1 .. last_id'
      BY <1>3, <1>5, <3>2
    <3> QED BY <1>3, <3>2, <3>3, <3>4 DEF Timely
  <2> QED BY <1>4, <2>1, <2>2
<1>9. now' \in Nat /\ last_id' \in Nat
  BY <1>1, <1>3, <1>5
<1> QED BY <1>1, <1>3, <1>7, <1>8, <1>9 DEF HeapInv, Punctual

(* The events of the present time stay there until they are taken, and the  *)
(* new ones are queued.                                                     *)
LEMMA PresentStays ==
    ASSUME NEW e, NEW events, Iterated(e, events), Punctual, HeapInv,
           NEW f \in event_queue, f # e
    PROVE  f \in event_queue' /\ (f.time = now => f.time = now')
<1>1. f.time >= e.time /\ e.time >= now /\ f.time \in Nat /\ e.time \in Nat /\ now \in Nat
  BY DEF Iterated, HeapInv
<1>2. f \in event_queue'
  BY DEF Iterated
<1>3. now' = e.time
  BY DEF Iterated
<1> QED BY <1>1, <1>2, <1>3

(* Every event that a handler makes is in the heap afterwards.              *)
LEMMA Queues ==
    ASSUME NEW e, NEW events, Iterated(e, events), NEW i \in 1 .. Len(events)
    PROVE  \E f \in event_queue' : f.time = events[i].time /\ f.call = events[i].call
<1>1. i \in DOMAIN events
  BY IsSeqFacts DEF Iterated
<1>2. Fresh(events, i) \in event_queue'
  BY <1>1 DEF Iterated
<1> QED BY <1>2 DEF Fresh

(* Where an event of the next state comes from. *)
LEMMA Origins ==
    ASSUME NEW e, NEW events, Iterated(e, events), NEW f \in event_queue'
    PROVE  \/ f \in event_queue /\ f # e
           \/ \E x \in Range(events) : f.call = x.call /\ f.time = x.time
<1>1. CASE f \in event_queue /\ f # e
  BY <1>1
<1>2. CASE \E i \in DOMAIN events : f = Fresh(events, i)
  <2>1. PICK i \in DOMAIN events : f = Fresh(events, i)
    BY <1>2
  <2>2. events[i] \in Range(events)
    BY DEF Range
  <2> QED BY <2>1, <2>2 DEF Fresh
<1> QED BY <1>1, <1>2 DEF Iterated

-----------------------------------------------------------------------------
(* Who waits for an event of the present time, and who does not. *)

(* The calls that wake a replica, wake a stage and end a batch in a stage. *)
WakesReplica(c, r) == c.type = "replica_schedule" /\ c.replica = r
WakesStage(c, r, s) == c.type = "replica_stage_schedule" /\ c.replica = r /\ c.stage = s
EndsStage(c, r, s) == c.type = "batch_stage_end" /\ c.replica = r /\ c.stage = s
CarriesBatch(c, r) == c.type \in BatchTypes /\ c.replica = r

(* What an iteration does not touch stays awake. *)
LEMMA GlobalKept ==
    ASSUME NEW e, NEW events, Iterated(e, events), Punctual, HeapInv, GlobalAwake,
           global_queue' = global_queue, e.call.type # "global_schedule"
    PROVE  GlobalAwake'
<1> SUFFICES ASSUME global_queue # <<>> PROVE Now(Calls("global_schedule"))'
  BY DEF GlobalAwake
<1>1. PICK f \in event_queue : f.call.type = "global_schedule" /\ f.time = now
  BY DEF GlobalAwake, Now, Calls
<1>2. f \in event_queue' /\ f.time = now'
  BY <1>1, PresentStays
<1> QED BY <1>1, <1>2 DEF Now, Calls

(* A replica that an iteration does not touch keeps its schedule event.     *)
LEMMA ReplicaKept ==
    ASSUME NEW e, NEW events, Iterated(e, events), Punctual, HeapInv, NEW r, ReplicaAwake(r),
           scheduler'[r] = scheduler[r], ~WakesReplica(e.call, r)
    PROVE  ReplicaAwake(r)'
<1> SUFFICES ASSUME scheduler[r].running < NumStages, NextBatch(scheduler[r]) # <<>>
             PROVE  Now(CallsOf("replica_schedule", r))'
  BY DEF ReplicaAwake
<1>1. PICK f \in event_queue : WakesReplica(f.call, r) /\ f.time = now
  BY DEF ReplicaAwake, Now, Calls, CallsOf, WakesReplica
<1>2. f \in event_queue' /\ f.time = now'
  BY <1>1, PresentStays
<1> QED BY <1>1, <1>2 DEF Now, Calls, CallsOf, WakesReplica

(* A stage that an iteration does not touch keeps its schedule event.       *)
LEMMA StageKept ==
    ASSUME NEW e, NEW events, Iterated(e, events), Punctual, HeapInv,
           NEW r, NEW s, StageAwake(r, s),
           stage'[r][s] = stage[r][s], ~WakesStage(e.call, r, s)
    PROVE  StageAwake(r, s)'
<1> SUFFICES ASSUME stage[r][s].batch_queue # <<>>, ~stage[r][s].busy
             PROVE  Now(CallsAt("replica_stage_schedule", r, s))'
  BY DEF StageAwake
<1>1. PICK f \in event_queue : WakesStage(f.call, r, s) /\ f.time = now
  BY DEF StageAwake, Now, Calls, CallsOf, CallsAt, WakesStage
<1>2. f \in event_queue' /\ f.time = now'
  BY <1>1, PresentStays
<1> QED BY <1>1, <1>2 DEF Now, Calls, CallsOf, CallsAt, WakesStage

(* A stage keeps its one event while it stays busy, or idle. *)
LEMMA BusyKept ==
    ASSUME NEW e, NEW events, Iterated(e, events), NEW r, NEW s, BusyAt(r, s),
           stage'[r][s].busy = stage[r][s].busy, ~EndsStage(e.call, r, s),
           \A x \in Range(events) : ~EndsStage(x.call, r, s)
    PROVE  BusyAt(r, s)'
<1>1. ASSUME NEW f, f \in event_queue, EndsStage(f.call, r, s) PROVE f \in event_queue'
  BY <1>1 DEF Iterated
<1>2. ASSUME NEW f, f \in event_queue', EndsStage(f.call, r, s) PROVE f \in event_queue
  <2>1. ~\E x \in Range(events) : f.call = x.call
    BY <1>2
  <2> QED BY <1>2, <2>1, Origins
<1>3. CallsAt("batch_stage_end", r, s)' = CallsAt("batch_stage_end", r, s)
  BY <1>1, <1>2 DEF CallsAt, CallsOf, Calls, EndsStage
<1>4. ASSUME NEW f \in event_queue, CallsAt("batch_stage_end", r, s) = {f}
      PROVE  f \in event_queue'
  <2>1. f \in CallsAt("batch_stage_end", r, s)
    BY <1>4
  <2> QED BY <1>1, <2>1 DEF CallsAt, CallsOf, Calls, EndsStage
<1> QED BY <1>3, <1>4 DEF BusyAt

-----------------------------------------------------------------------------
(* The batches that a pipeline carries. *)

(* No event that carries a batch of the replica is taken or made. *)
LEMMA EventsKept ==
    ASSUME NEW e, NEW events, Iterated(e, events), NEW r, ~CarriesBatch(e.call, r),
           \A x \in Range(events) : ~CarriesBatch(x.call, r)
    PROVE  BatchEvents(r)' = BatchEvents(r)
<1>1. ASSUME NEW f, f \in event_queue, CarriesBatch(f.call, r) PROVE f \in event_queue'
  BY <1>1 DEF Iterated
<1>2. ASSUME NEW f, f \in event_queue', CarriesBatch(f.call, r) PROVE f \in event_queue
  <2>1. ~\E x \in Range(events) : f.call = x.call
    BY <1>2
  <2> QED BY <1>2, <2>1, Origins
<1> QED BY <1>1, <1>2 DEF BatchEvents, CarriesBatch

(* A pipeline in which nothing moves. *)
LEMMA CarriedKept ==
    ASSUME NEW r, CarriedAt(r), BatchEvents(r)' = BatchEvents(r), stage'[r] = stage[r],
           scheduler'[r].running = scheduler[r].running,
           scheduler'[r].allocated = scheduler[r].allocated,
           scheduler'[r].preempted = scheduler[r].preempted
    PROVE  CarriedAt(r)'
<1>1. Queued(r)' = Queued(r)
  BY DEF Queued
<1>2. Carried(r)' = Carried(r)
  BY DEF Carried
<1>3. ASSUME NEW q \in scheduler[r].allocated
      PROVE  q \in Range(scheduler[r].preempted) \/ \E b \in Carried(r)' : q \in Members(b)
  BY <1>2 DEF CarriedAt
<1> QED BY <1>1, <1>3 DEF CarriedAt

(* Who is awake has one event that ends the batch of a busy stage. *)
LEMMA NobodyWaits == WakeInv => NoLostWakeup
<1>1. ASSUME NEW r, NEW s, BusyAt(r, s)
      PROVE  Cardinality(CallsAt("batch_stage_end", r, s)) =
                IF stage[r][s].busy THEN 1 ELSE 0
  <2>1. CASE stage[r][s].busy
    <3>1. PICK e : CallsAt("batch_stage_end", r, s) = {e}
      BY <1>1, <2>1 DEF BusyAt
    <3>2. Cardinality({e}) = 1
      BY FS_Singleton
    <3> QED BY <2>1, <3>1, <3>2
  <2>2. CASE ~stage[r][s].busy
    <3>1. CallsAt("batch_stage_end", r, s) = {}
      BY <1>1, <2>2 DEF BusyAt
    <3> QED BY <2>2, <3>1, FS_EmptySet
  <2> QED BY <2>1, <2>2
<1> QED BY <1>1 DEF WakeInv, NoLostWakeup

-----------------------------------------------------------------------------
(* The handlers. *)

(* The handlers that make no event, one event and two events. *)
LEMMA FewEvents ==
    /\ IsSeq(<<>>) /\ Range(<<>>) = {}
    /\ \A x : IsSeq(<<x>>) /\ Range(<<x>>) = {x} /\ Len(<<x>>) = 1 /\ <<x>>[1] = x
    /\ \A x, y : /\ IsSeq(<<x, y>>) /\ Range(<<x, y>>) = {x, y} /\ Len(<<x, y>>) = 2
                 /\ <<x, y>>[1] = x /\ <<x, y>>[2] = y
<1>1. IsSeq(<<>>) /\ Range(<<>>) = {}
  BY EmptySeq DEF IsSeq, Range
<1>2. ASSUME NEW x
      PROVE  IsSeq(<<x>>) /\ Range(<<x>>) = {x} /\ Len(<<x>>) = 1 /\ <<x>>[1] = x
  <2>1. Range(<<x>>) = {x}
    BY DEF Range
  <2> QED BY <2>1 DEF IsSeq
<1>3. ASSUME NEW x, NEW y
      PROVE  /\ IsSeq(<<x, y>>) /\ Range(<<x, y>>) = {x, y} /\ Len(<<x, y>>) = 2
             /\ <<x, y>>[1] = x /\ <<x, y>>[2] = y
  <2>1. Range(<<x, y>>) = {x, y}
    BY DEF Range
  <2> QED BY <2>1 DEF IsSeq
<1> QED BY <1>1, <1>2, <1>3

(* RequestArrivalEvent: the global scheduler has a request and is called. *)
LEMMA ArrivalKeeps == WakeInv /\ RequestArrival => WakeInv'
<1> SUFFICES ASSUME WakeInv, RequestArrival PROVE WakeInv'
  OBVIOUS
<1>1. PICK e \in Popped("request_arrival") :
        /\ global_queue' = Append(global_queue, e.call.request)
        /\ Handled(e, <<At(e.time, [type |-> "global_schedule"])>>)
        /\ UNCHANGED <<request_counter, scheduler, stage, req, times, last_batch_id, history>>
  BY DEF RequestArrival
<1>2. PICK x : x = At(e.time, [type |-> "global_schedule"])
  OBVIOUS
<1>3. PICK events : events = <<x>>
  OBVIOUS
<1>4. x.time = e.time /\ x.call.type = "global_schedule" /\ CallInv(x.call)
  BY <1>2 DEF At, CallInv, BatchTypes, StageTypes
<1>5. IsSeq(events) /\ Range(events) = {x} /\ Len(events) = 1 /\ events[1] = x
  BY <1>3, FewEvents
<1>6. /\ HeapInv /\ PartsInv /\ Punctual /\ GlobalAwake
      /\ e \in event_queue /\ e.time \in Nat
  BY DEF WakeInv, Popped, HeapInv
<1>7. /\ Iterated(e, events) /\ HeapInv' /\ Punctual' /\ policy' = policy
      /\ e.call.type = "request_arrival"
  <2>1. \A y \in Range(events) : Timely(e, y)
    BY <1>4, <1>5, <1>6 DEF Timely
  <2>2. Handled(e, events)
    BY <1>1, <1>2, <1>3
  <2> QED BY <1>5, <1>6, <2>1, <2>2, HandledFacts
<1>8. PartsInv'
  <2>1. IsSeq(global_queue')
    BY <1>1, <1>6, AppendIsSeq DEF PartsInv
  <2> QED BY <1>1, <1>6, <1>7, <2>1 DEF PartsInv
<1>9. GlobalAwake'
  <2>1. PICK f \in event_queue' : f.time = x.time /\ f.call = x.call
    BY <1>5, <1>7, Queues
  <2>2. now' = e.time
    BY <1>7 DEF Iterated
  <2> QED BY <1>4, <2>1, <2>2 DEF GlobalAwake, Now, Calls
<1>10. ASSUME NEW r \in Replicas
       PROVE  CarriedAt(r)' /\ ReplicaAwake(r)'
  <2>1. BatchEvents(r)' = BatchEvents(r)
    BY <1>4, <1>5, <1>7, EventsKept DEF CarriesBatch, BatchTypes
  <2>2. CarriedAt(r)'
    BY <1>1, <2>1, CarriedKept DEF WakeInv
  <2>3. ReplicaAwake(r)'
    BY <1>1, <1>6, <1>7, ReplicaKept DEF WakeInv, WakesReplica
  <2> QED BY <2>2, <2>3
<1>11. ASSUME NEW r \in Replicas, NEW s \in Stages
       PROVE  StageAwake(r, s)' /\ BusyAt(r, s)'
  <2>1. StageAwake(r, s)'
    BY <1>1, <1>6, <1>7, StageKept DEF WakeInv, WakesStage
  <2>2. BusyAt(r, s)'
    BY <1>1, <1>4, <1>5, <1>7, BusyKept DEF WakeInv, EndsStage
  <2> QED BY <2>1, <2>2
<1> QED BY <1>7, <1>8, <1>9, <1>10, <1>11 DEF WakeInv

(* A replica scheduler that is given more requests. *)
Given(s, more) == [s EXCEPT !.queue = @ \o more]

(* What a replica is given by the global scheduler comes after its queue,   *)
(* and a replica that is given nothing is left as it was.                   *)
LEMMA GivenFacts ==
    ASSUME NEW s, SchedulerInv(s), NEW more, IsSeq(more),
           NEW t, t = Given(s, more)
    PROVE  /\ SchedulerInv(t) /\ t.preempted = s.preempted
           /\ t.allocated = s.allocated /\ t.running = s.running
           /\ more = <<>> => t = s
<1>1. s = [queue |-> s.queue, preempted |-> s.preempted,
           allocated |-> s.allocated, running |-> s.running]
  BY DEF SchedulerInv
<1>2. t = [queue |-> s.queue \o more, preempted |-> s.preempted,
           allocated |-> s.allocated, running |-> s.running]
  BY <1>1 DEF Given
<1>3. /\ t.queue = s.queue \o more /\ t.preempted = s.preempted
      /\ t.allocated = s.allocated /\ t.running = s.running
  BY <1>2
<1>4. IsSeq(t.queue) /\ (more = <<>> => t.queue = s.queue)
  BY <1>3, ConcatIsSeq DEF SchedulerInv
<1>5. SchedulerInv(t)
  <2>1. t = [queue |-> t.queue, preempted |-> t.preempted,
             allocated |-> t.allocated, running |-> t.running]
    BY <1>2, <1>3
  <2> QED BY <1>3, <1>4, <2>1 DEF SchedulerInv
<1> QED BY <1>1, <1>2, <1>3, <1>4, <1>5

(* What the handler does with a placement and an order of the replicas. *)
Spread(e, placed, order) ==
    /\ scheduler' = [r \in Replicas |->
            LET mine == Without([k \in DOMAIN placed |-> k],
                                {k \in DOMAIN placed : placed[k] # r})
            IN  [scheduler[r] EXCEPT !.queue =
                    @ \o [k \in DOMAIN mine |-> SortedQueue[mine[k]]]]]
    /\ global_queue' = <<>>
    /\ request_counter' = IF policy = "round_robin"
            THEN request_counter + Len(global_queue) ELSE request_counter
    /\ Handled(e, [k \in DOMAIN order |->
            At(e.time, [type |-> "replica_schedule", replica |-> order[k],
                        cause |-> "arrival"])])
    /\ UNCHANGED <<stage, req, times, last_batch_id, history>>

(* GlobalScheduleEvent: every replica that is given a request is called. *)
LEMMA GlobalKeeps == WakeInv /\ GlobalSchedule => WakeInv'
<1> SUFFICES ASSUME WakeInv, GlobalSchedule PROVE WakeInv'
  OBVIOUS
<1>1. PICK e \in Popped("global_schedule") :
        \E placed \in Placements(Len(global_queue)) :
            \E order \in SetToSeqs(Range(placed)) : Spread(e, placed, order)
  BY DEF GlobalSchedule, Spread
<1> PICK placed \in Placements(Len(global_queue)) :
        \E order \in SetToSeqs(Range(placed)) : Spread(e, placed, order)
  BY <1>1
<1> PICK order \in SetToSeqs(Range(placed)) : Spread(e, placed, order)
  OBVIOUS
<1>2. /\ HeapInv /\ PartsInv /\ Punctual /\ GlobalAwake
      /\ e \in event_queue /\ e.time \in Nat
  BY DEF WakeInv, Popped, HeapInv
<1>3. /\ Len(global_queue) \in Nat /\ placed \in Seq(Replicas)
      /\ DOMAIN placed = 1 .. Len(global_queue)
  <2>1. Len(global_queue) \in Nat
    BY <1>2, IsSeqFacts DEF PartsInv
  <2> QED BY <1>2, <2>1, PlacementFacts
<1>4. /\ IsSeq(placed) /\ Range(placed) \subseteq Replicas
      /\ IsSeq(order) /\ Range(order) = Range(placed)
      /\ Len(order) \in Nat /\ DOMAIN order = 1 .. Len(order)
      /\ \A k \in 1 .. Len(order) : order[k] \in Replicas
  <2>1. IsSeq(placed) /\ Range(placed) \subseteq Replicas /\ IsFiniteSet(Range(placed))
    BY <1>3, SeqIsSeq, IsSeqFacts
  <2>2. IsSeq(order) /\ Range(order) = Range(placed)
    BY <2>1, OrderCovers
  <2> QED BY <2>1, <2>2, IsSeqFacts
<1>5. PICK events : events = [k \in 1 .. Len(order) |->
                At(e.time, [type |-> "replica_schedule", replica |-> order[k],
                            cause |-> "arrival"])]
  OBVIOUS
<1>6. ASSUME NEW k \in 1 .. Len(order)
      PROVE  /\ events[k].time = e.time /\ events[k].call.type = "replica_schedule"
             /\ events[k].call.replica = order[k]
  BY <1>5 DEF At
<1>7. IsSeq(events) /\ Len(events) = Len(order)
  <2>1. events = [k \in 1 .. Len(order) |-> events[k]]
    BY <1>5
  <2> QED BY <1>4, <2>1, FunctionIsSeq
<1>8. ASSUME NEW x \in Range(events)
      PROVE  x.time = e.time /\ x.call.type = "replica_schedule" /\ CallInv(x.call)
  <2>1. PICK k \in 1 .. Len(order) : x = events[k]
    BY <1>5 DEF Range
  <2>2. x.call.replica \in Replicas
    BY <1>4, <1>6, <2>1
  <2> QED BY <1>6, <2>1, <2>2 DEF CallInv, BatchTypes, StageTypes
<1>9. /\ Iterated(e, events) /\ HeapInv' /\ Punctual' /\ policy' = policy
      /\ e.call.type = "global_schedule"
  <2>1. \A y \in Range(events) : Timely(e, y)
    BY <1>2, <1>8 DEF Timely
  <2>2. Handled(e, events)
    BY <1>4, <1>5 DEF Spread
  <2> QED BY <1>2, <1>7, <2>1, <2>2, HandledFacts
<1>10. ASSUME NEW r \in Replicas
       PROVE  /\ SchedulerInv(scheduler'[r])
              /\ scheduler'[r].preempted = scheduler[r].preempted
              /\ scheduler'[r].allocated = scheduler[r].allocated
              /\ scheduler'[r].running = scheduler[r].running
              /\ r \notin Range(placed) => scheduler'[r] = scheduler[r]
  <2>1. PICK all : all = [k \in DOMAIN placed |-> k]
    OBVIOUS
  <2>2. PICK others : others = {k \in DOMAIN placed : placed[k] # r}
    OBVIOUS
  <2>3. PICK mine : mine = Without(all, others)
    OBVIOUS
  <2>4. PICK more : more = [k \in DOMAIN mine |-> SortedQueue[mine[k]]]
    OBVIOUS
  <2>5. IsSeq(all) /\ Range(all) = DOMAIN placed
    <3>1. all = [k \in 1 .. Len(global_queue) |-> all[k]]
      BY <1>3, <2>1
    <3>2. Range(all) = DOMAIN placed
      BY <2>1 DEF Range
    <3> QED BY <1>3, <3>1, <3>2, FunctionIsSeq
  <2>6. IsSeq(mine) /\ Range(mine) = DOMAIN placed \ others
    BY <2>3, <2>5, WithoutFacts
  <2>7. IsSeq(more) /\ Len(more) = Len(mine)
    <3>1. Len(mine) \in Nat /\ DOMAIN mine = 1 .. Len(mine)
      BY <2>6, IsSeqFacts
    <3>2. more = [k \in 1 .. Len(mine) |-> more[k]]
      BY <2>4, <3>1
    <3> QED BY <3>1, <3>2, FunctionIsSeq
  <2>8. scheduler'[r] = Given(scheduler[r], more)
    BY <2>1, <2>2, <2>3, <2>4 DEF Spread, Given
  <2>9. r \notin Range(placed) => more = <<>>
    <3> SUFFICES ASSUME r \notin Range(placed) PROVE more = <<>>
      OBVIOUS
    <3>1. others = DOMAIN placed
      BY <2>2 DEF Range
    <3>2. Len(mine) = 0
      BY <2>6, <3>1, IsSeqFacts
    <3> QED BY <2>7, <3>2, IsSeqFacts
  <2>10. SchedulerInv(scheduler[r])
    BY <1>2 DEF PartsInv
  <2>11. PICK t : t = scheduler'[r]
    OBVIOUS
  <2>12. /\ SchedulerInv(t) /\ t.preempted = scheduler[r].preempted
         /\ t.allocated = scheduler[r].allocated /\ t.running = scheduler[r].running
         /\ more = <<>> => t = scheduler[r]
    BY <2>7, <2>8, <2>10, <2>11, GivenFacts
  <2> QED BY <2>9, <2>11, <2>12
<1>11. PartsInv'
  <2>1. IsSeq(global_queue')
    BY FewEvents DEF Spread
  <2>2. request_counter' \in Nat
    BY <1>2, <1>3 DEF PartsInv, Spread
  <2>3. DOMAIN scheduler' = Replicas /\ stage' = stage
    BY DEF Spread
  <2> QED BY <1>2, <1>9, <1>10, <2>1, <2>2, <2>3 DEF PartsInv
<1>12. GlobalAwake'
  BY DEF GlobalAwake, Spread
<1>13. ASSUME NEW r \in Replicas
       PROVE  CarriedAt(r)' /\ ReplicaAwake(r)'
  <2>1. BatchEvents(r)' = BatchEvents(r)
    BY <1>8, <1>9, EventsKept DEF CarriesBatch, BatchTypes
  <2>2. CarriedAt(r)'
    BY <1>10, <2>1, CarriedKept DEF WakeInv, Spread
  <2>3. CASE r \in Range(placed)
    <3>1. PICK k \in 1 .. Len(order) : order[k] = r
      BY <1>4, <2>3 DEF Range
    <3>2. k \in 1 .. Len(events)
      BY <1>7
    <3>3. PICK f \in event_queue' : f.time = events[k].time /\ f.call = events[k].call
      BY <1>9, <3>2, Queues
    <3>4. now' = e.time
      BY <1>9 DEF Iterated
    <3>5. f.time = now' /\ f.call.type = "replica_schedule" /\ f.call.replica = r
      BY <1>6, <3>1, <3>3, <3>4
    <3> QED BY <2>2, <3>3, <3>5 DEF ReplicaAwake, Now, CallsOf, Calls
  <2>4. CASE r \notin Range(placed)
    <3>1. ReplicaAwake(r)'
      BY <1>2, <1>9, <1>10, <2>4, ReplicaKept DEF WakeInv, WakesReplica
    <3> QED BY <2>2, <3>1
  <2> QED BY <2>3, <2>4
<1>14. ASSUME NEW r \in Replicas, NEW s \in Stages
       PROVE  StageAwake(r, s)' /\ BusyAt(r, s)'
  <2>1. StageAwake(r, s)'
    BY <1>2, <1>9, StageKept DEF WakeInv, WakesStage, Spread
  <2>2. BusyAt(r, s)'
    BY <1>8, <1>9, BusyKept DEF WakeInv, EndsStage, Spread
  <2> QED BY <2>1, <2>2
<1> QED BY <1>9, <1>11, <1>12, <1>13, <1>14 DEF WakeInv

(* The batches of a replica are more by the events that carry new ones. *)
LEMMA MoreEvents ==
    ASSUME HeapInv, NEW e, NEW events, Iterated(e, events), NEW r,
           IsFiniteSet(BatchEvents(r)), ~CarriesBatch(e.call, r),
           \A x \in Range(events) : CarriesBatch(x.call, r)
    PROVE  /\ IsFiniteSet(BatchEvents(r)')
           /\ Cardinality(BatchEvents(r)') = Cardinality(BatchEvents(r)) + Len(events)
           /\ BatchEvents(r) \subseteq BatchEvents(r)'
           /\ \A i \in 1 .. Len(events) : \E f \in BatchEvents(r)' : f.call = events[i].call
<1> DEFINE n == Len(events)
           F == {Fresh(events, i) : i \in 1 .. n}
           g == [i \in 1 .. n |-> Fresh(events, i)]
<1>1. /\ IsSeq(events) /\ n \in Nat /\ DOMAIN events = 1 .. n /\ last_id \in Nat
      /\ \A i \in 1 .. n : events[i] \in Range(events)
  BY IsSeqFacts DEF Iterated, HeapInv
<1>2. ASSUME NEW i \in 1 .. n
      PROVE  /\ Fresh(events, i).id = last_id + i /\ Fresh(events, i).call = events[i].call
             /\ Fresh(events, i) \notin event_queue /\ Fresh(events, i) \in event_queue'
  BY <1>1 DEF Fresh, Iterated
<1>3. BatchEvents(r)' = BatchEvents(r) \cup F
  <2>1. ASSUME NEW f \in BatchEvents(r) PROVE f \in BatchEvents(r)'
    BY DEF BatchEvents, Iterated, CarriesBatch
  <2>2. ASSUME NEW f \in F PROVE f \in BatchEvents(r)'
    <3>1. PICK i \in 1 .. n : f = Fresh(events, i)
      OBVIOUS
    <3>2. CarriesBatch(f.call, r) /\ f \in event_queue'
      BY <1>1, <1>2, <3>1
    <3> QED BY <3>2 DEF BatchEvents, CarriesBatch
  <2>3. ASSUME NEW f \in BatchEvents(r)', f \notin F PROVE f \in BatchEvents(r)
    <3>1. f \in event_queue /\ f.call.type \in BatchTypes /\ f.call.replica = r
      BY <1>1, <2>3 DEF BatchEvents, Iterated
    <3> QED BY <3>1 DEF BatchEvents
  <2> QED BY <2>1, <2>2, <2>3
<1>4. IsFiniteSet(F) /\ Cardinality(F) = n
  <2>1. \A i, j \in 1 .. n : g[i] = g[j] => i = j
    <3> TAKE i, j \in 1 .. n
    <3>1. g[i].id = last_id + i /\ g[j].id = last_id + j
      BY <1>2
    <3> QED BY <1>1, <3>1
  <2>2. g \in [1 .. n -> F] /\ DOMAIN g = 1 .. n
    OBVIOUS
  <2>3. \A f \in F : \E i \in 1 .. n : g[i] = f
    OBVIOUS
  <2> HIDE DEF g, F, n
  <2>4. g \in Bijection(1 .. n, F)
    BY <2>1, <2>2, <2>3 DEF Bijection, Injection, Surjection, IsInjective
  <2>5. ExistsBijection(1 .. n, F)
    BY <2>4 DEF ExistsBijection
  <2>6. IsFiniteSet(1 .. n) /\ Cardinality(1 .. n) = n
    <3>1. /\ IsFiniteSet(1 .. n)
          /\ Cardinality(1 .. n) = IF 1 > n THEN 0 ELSE n - 1 + 1
      BY <1>1, FS_Interval
    <3> QED BY <1>1, <3>1
  <2> QED BY <2>5, <2>6, FS_Bijection
<1>5. BatchEvents(r) \cap F = {}
  BY <1>2 DEF BatchEvents
<1>6. /\ IsFiniteSet(BatchEvents(r) \cup F)
      /\ Cardinality(BatchEvents(r) \cup F) = Cardinality(BatchEvents(r)) + n
  <2> HIDE DEF F, n
  <2>1. /\ IsFiniteSet(BatchEvents(r) \cup F)
        /\ Cardinality(BatchEvents(r) \cup F) =
              Cardinality(BatchEvents(r)) + Cardinality(F) - Cardinality(BatchEvents(r) \cap F)
    BY <1>4, FS_Union
  <2>2. Cardinality(BatchEvents(r) \cap F) = 0
    BY <1>5, FS_EmptySet
  <2>3. Cardinality(BatchEvents(r)) \in Nat
    BY FS_CardinalityType
  <2> QED BY <1>1, <1>4, <2>1, <2>2, <2>3
<1>7. ASSUME NEW i \in 1 .. n PROVE \E f \in BatchEvents(r)' : f.call = events[i].call
  BY <1>2, <1>3
<1> QED BY <1>3, <1>6, <1>7

(* What the handler of a ReplicaScheduleEvent does with the batches that    *)
(* the scheduler returned.                                                  *)
BatchOf(id, ids, t) ==
    [id |-> id, entries |-> [i \in DOMAIN ids |-> Entry(ids[i])], scheduled_at |-> t]
StageCall(r, b, t) ==
    At(t, [type |-> "batch_stage_arrival", replica |-> r, stage |-> 0, batch |-> b])
Send(e, r, result) ==
    /\ scheduler' = [scheduler EXCEPT ![r] = result.after]
    /\ Handled(e, [k \in DOMAIN result.batches |->
            StageCall(r, BatchOf(last_batch_id + k, result.batches[k], e.time), e.time)])
    /\ in_flight' = [in_flight EXCEPT ![r] = @ \o [k \in DOMAIN result.batches |->
            BatchOf(last_batch_id + k, result.batches[k], e.time)]]
    /\ last_batch_id' = last_batch_id + Len([k \in DOMAIN result.batches |->
            BatchOf(last_batch_id + k, result.batches[k], e.time)])
    /\ UNCHANGED <<global, stage>>

(* A batch has the requests it was made of. *)
LEMMA BatchOfFacts ==
    ASSUME NEW id, NEW ids, IsSeq(ids), NEW t, NEW b, b = BatchOf(id, ids, t)
    PROVE  IsSeq(b.entries) /\ Members(b) = Range(ids) /\ b.id = id
<1>1. Len(ids) \in Nat /\ DOMAIN ids = 1 .. Len(ids)
  BY IsSeqFacts
<1>2. PICK es : es = [i \in 1 .. Len(ids) |-> Entry(ids[i])]
  OBVIOUS
<1>3. b.entries = es
  BY <1>1, <1>2 DEF BatchOf
<1>4. IsSeq(es)
  <2>1. es = [i \in 1 .. Len(ids) |-> es[i]]
    BY <1>2
  <2> QED BY <1>1, <2>1, FunctionIsSeq
<1>5. DOMAIN es = DOMAIN ids /\ \A i \in DOMAIN ids : es[i].id = ids[i]
  BY <1>1, <1>2 DEF Entry
<1>6. Members(b) = Range(ids)
  BY <1>3, <1>5 DEF Members, Range
<1>7. b.id = id
  BY DEF BatchOf
<1> QED BY <1>3, <1>4, <1>6, <1>7

(* ReplicaScheduleEvent: the scheduler fills the free stages, or it has     *)
(* nothing to fill them with.                                               *)
LEMMA ReplicaKeeps == WakeInv /\ ReplicaSchedule => WakeInv'
<1> SUFFICES ASSUME WakeInv, ReplicaSchedule PROVE WakeInv'
  OBVIOUS
<1>1. PICK e \in Popped("replica_schedule") :
        Send(e, e.call.replica, OnSchedule(scheduler[e.call.replica]))
  BY DEF ReplicaSchedule, Send, BatchOf, StageCall
<1>2. PICK r : r = e.call.replica
  OBVIOUS
<1>3. PICK result : result = OnSchedule(scheduler[r])
  OBVIOUS
<1>4. Send(e, r, result)
  BY <1>1, <1>2, <1>3
<1>5. /\ HeapInv /\ PartsInv /\ Punctual /\ GlobalAwake
      /\ e \in event_queue /\ e.time \in Nat /\ e.call.type = "replica_schedule"
      /\ r \in Replicas /\ ~CarriesBatch(e.call, r)
  BY <1>2 DEF WakeInv, Popped, HeapInv, CallInv, CarriesBatch, BatchTypes
<1>6. SchedulerInv(scheduler[r]) /\ AfterRounds(scheduler[r], NumStages, result)
  BY <1>3, <1>5, OnScheduleFacts DEF PartsInv
<1>7. PICK ids : ids = result.batches
  OBVIOUS
<1>8. /\ IsSeq(ids) /\ Len(ids) \in Nat /\ DOMAIN ids = 1 .. Len(ids)
      /\ \A k \in 1 .. Len(ids) : IsSeq(ids[k])
      /\ \A b \in Range(ids) : \E k \in 1 .. Len(ids) : b = ids[k]
  <2>1. IsSeq(ids) /\ \A b \in Range(ids) : IsSeq(b)
    BY <1>6, <1>7 DEF AfterRounds
  <2>2. /\ Len(ids) \in Nat /\ DOMAIN ids = 1 .. Len(ids)
        /\ Range(ids) = {ids[k] : k \in 1 .. Len(ids)}
    BY <2>1, IsSeqFacts
  <2> QED BY <2>1, <2>2
<1>9. PICK events : events = [k \in 1 .. Len(ids) |->
                        StageCall(r, BatchOf(last_batch_id + k, ids[k], e.time), e.time)]
  OBVIOUS
<1>10. ASSUME NEW k \in 1 .. Len(ids)
       PROVE  /\ events[k].time = e.time
              /\ events[k].call.type = "batch_stage_arrival"
              /\ events[k].call.replica = r /\ events[k].call.stage = 0
              /\ IsSeq(events[k].call.batch.entries)
              /\ Members(events[k].call.batch) = Range(ids[k])
  <2>1. PICK b : b = BatchOf(last_batch_id + k, ids[k], e.time)
    OBVIOUS
  <2>2. events[k] = StageCall(r, b, e.time)
    BY <1>9, <2>1
  <2>3. IsSeq(b.entries) /\ Members(b) = Range(ids[k])
    BY <1>8, <2>1, BatchOfFacts
  <2> QED BY <2>2, <2>3 DEF StageCall, At
<1>11. IsSeq(events) /\ Len(events) = Len(ids)
  <2>1. events = [k \in 1 .. Len(ids) |-> events[k]]
    BY <1>9
  <2> QED BY <1>8, <2>1, FunctionIsSeq
<1>12. ASSUME NEW x \in Range(events)
       PROVE  /\ x.time = e.time /\ CallInv(x.call) /\ CarriesBatch(x.call, r)
              /\ x.call.type = "batch_stage_arrival"
  <2>1. PICK k \in 1 .. Len(ids) : x = events[k]
    BY <1>9 DEF Range
  <2>2. 0 \in Stages
    BY SimulatorAssumption DEF Stages
  <2> QED BY <1>5, <1>10, <2>1, <2>2 DEF CallInv, CarriesBatch, BatchTypes, StageTypes
<1>13. Iterated(e, events) /\ HeapInv' /\ Punctual' /\ policy' = policy
  <2>1. \A y \in Range(events) : Timely(e, y)
    BY <1>5, <1>12 DEF Timely
  <2>2. Handled(e, events)
    BY <1>4, <1>7, <1>8, <1>9 DEF Send
  <2> QED BY <1>5, <1>11, <2>1, <2>2, HandledFacts
<1>14. /\ scheduler'[r] = result.after /\ DOMAIN scheduler' = Replicas
       /\ \A q \in Replicas \ {r} : scheduler'[q] = scheduler[q]
       /\ global_queue' = global_queue /\ request_counter' = request_counter
       /\ stage' = stage
  BY <1>4, <1>5 DEF Send, PartsInv, global
<1>15. PartsInv'
  <2>1. SchedulerInv(scheduler'[r])
    BY <1>6, <1>14 DEF AfterRounds
  <2> QED BY <1>5, <1>13, <1>14, <2>1 DEF PartsInv
<1>16. GlobalAwake'
  BY <1>5, <1>13, <1>14, GlobalKept
<1>17. CarriedAt(r)'
  <2>1. CarriedAt(r)
    BY <1>5 DEF WakeInv
  <2>2. /\ IsFiniteSet(BatchEvents(r)')
        /\ Cardinality(BatchEvents(r)') = Cardinality(BatchEvents(r)) + Len(ids)
        /\ BatchEvents(r) \subseteq BatchEvents(r)'
        /\ \A i \in 1 .. Len(ids) : \E f \in BatchEvents(r)' : f.call = events[i].call
    BY <1>5, <1>11, <1>12, <1>13, <2>1, MoreEvents DEF CarriedAt
  <2>3. Queued(r)' = Queued(r)
    BY <1>14 DEF Queued
  <2>4. result.after.running = Cardinality(BatchEvents(r)') + Cardinality(Queued(r))
    <3>1. result.after.running = scheduler[r].running + Len(ids)
      BY <1>6, <1>7 DEF AfterRounds
    <3>2. scheduler[r].running = Cardinality(BatchEvents(r)) + Cardinality(Queued(r))
      BY <2>1 DEF CarriedAt
    <3>3. Cardinality(BatchEvents(r)) \in Nat /\ Cardinality(Queued(r)) \in Nat
      BY <2>1, FS_CardinalityType DEF CarriedAt
    <3> QED BY <1>8, <2>2, <3>1, <3>2, <3>3
  <2>5. Carried(r) \subseteq Carried(r)'
    BY <1>14, <2>2 DEF Carried
  <2>6. ASSUME NEW q \in result.after.allocated
        PROVE  \/ q \in Range(result.after.preempted)
               \/ \E b \in Carried(r)' : q \in Members(b)
    <3>1. CASE q \in scheduler[r].allocated /\ q \notin Range(scheduler[r].preempted)
      BY <2>1, <2>5, <3>1 DEF CarriedAt
    <3>2. CASE \E b \in Range(ids) : q \in Range(b)
      <4>1. PICK k \in 1 .. Len(ids) : q \in Range(ids[k])
        BY <1>8, <3>2
      <4>2. PICK f \in BatchEvents(r)' : f.call = events[k].call
        BY <2>2
      <4>3. f.call.batch \in Carried(r)' /\ q \in Members(f.call.batch)
        BY <1>10, <4>1, <4>2 DEF Carried
      <4> QED BY <4>3
    <3> QED BY <1>6, <1>7, <3>1, <3>2 DEF AfterRounds
  <2> QED BY <1>14, <2>1, <2>2, <2>3, <2>4, <2>6 DEF CarriedAt
<1>18. ReplicaAwake(r)'
  <2>1. /\ result.after.running \in Nat
        /\ result.after.running >= NumStages \/ NextBatch(result.after) = <<>>
    BY <1>6 DEF AfterRounds, SchedulerInv
  <2>2. NumStages \in Nat
    BY SimulatorAssumption
  <2>3. ~(result.after.running < NumStages /\ NextBatch(result.after) # <<>>)
    BY <2>1, <2>2
  <2> QED BY <1>14, <2>3 DEF ReplicaAwake
<1>19. ASSUME NEW q \in Replicas, q # r
       PROVE  CarriedAt(q)' /\ ReplicaAwake(q)'
  <2>1. BatchEvents(q)' = BatchEvents(q)
    <3>1. ~CarriesBatch(e.call, q) /\ \A x \in Range(events) : ~CarriesBatch(x.call, q)
      BY <1>2, <1>12, <1>19 DEF CarriesBatch
    <3> QED BY <1>13, <3>1, EventsKept
  <2>2. scheduler'[q] = scheduler[q] /\ stage'[q] = stage[q]
    BY <1>14, <1>19
  <2>3. CarriedAt(q)'
    BY <2>1, <2>2, CarriedKept DEF WakeInv
  <2>4. ~WakesReplica(e.call, q)
    BY <1>2, <1>19 DEF WakesReplica
  <2>5. ReplicaAwake(q)'
    BY <1>5, <1>13, <2>2, <2>4, ReplicaKept DEF WakeInv
  <2> QED BY <2>3, <2>5
<1>20. ASSUME NEW q \in Replicas, NEW s \in Stages
       PROVE  StageAwake(q, s)' /\ BusyAt(q, s)'
  <2>1. StageAwake(q, s)'
    BY <1>5, <1>13, <1>14, StageKept DEF WakeInv, WakesStage
  <2>2. BusyAt(q, s)'
    BY <1>5, <1>12, <1>13, <1>14, BusyKept DEF WakeInv, EndsStage
  <2> QED BY <2>1, <2>2
<1> QED BY <1>13, <1>15, <1>16, <1>17, <1>18, <1>19, <1>20 DEF WakeInv

(* The batches of a replica are fewer by the event that carried one. *)
LEMMA LessEvents ==
    ASSUME NEW e, NEW events, Iterated(e, events), NEW r,
           IsFiniteSet(BatchEvents(r)), CarriesBatch(e.call, r),
           \A x \in Range(events) : ~CarriesBatch(x.call, r)
    PROVE  /\ BatchEvents(r)' = BatchEvents(r) \ {e}
           /\ IsFiniteSet(BatchEvents(r)') /\ Cardinality(BatchEvents(r)) \in Nat \ {0}
           /\ Cardinality(BatchEvents(r)') = Cardinality(BatchEvents(r)) - 1
<1>1. e \in BatchEvents(r)
  BY DEF Iterated, BatchEvents, CarriesBatch
<1>2. ASSUME NEW f, f \in BatchEvents(r) \ {e} PROVE f \in BatchEvents(r)'
  BY <1>2 DEF Iterated, BatchEvents
<1>3. ASSUME NEW f, f \in BatchEvents(r)' PROVE f \in BatchEvents(r) \ {e}
  <2>1. f \in event_queue' /\ CarriesBatch(f.call, r)
    BY <1>3 DEF BatchEvents, CarriesBatch
  <2>2. ~\E x \in Range(events) : f.call = x.call
    BY <2>1
  <2>3. f \in event_queue /\ f # e
    BY <2>1, <2>2, Origins
  <2> QED BY <2>1, <2>3 DEF BatchEvents, CarriesBatch
<1>4. BatchEvents(r)' = BatchEvents(r) \ {e}
  BY <1>2, <1>3
<1>5. /\ IsFiniteSet(BatchEvents(r) \ {e})
      /\ Cardinality(BatchEvents(r) \ {e}) = Cardinality(BatchEvents(r)) - 1
  BY <1>1, FS_RemoveElement
<1>6. Cardinality(BatchEvents(r)) \in Nat /\ Cardinality(BatchEvents(r)) # 0
  BY <1>1, FS_CardinalityType, FS_EmptySet
<1> QED BY <1>4, <1>5, <1>6

(* One stage of one replica changes. *)
Put(r, s, v) == [stage EXCEPT ![r][s] = v]

(* The other stages and replicas keep their state.                          *)
LEMMA PutFacts ==
    ASSUME PartsInv, NEW r \in Replicas, NEW s \in Stages, NEW v, stage' = Put(r, s, v)
    PROVE  /\ stage'[r][s] = v /\ DOMAIN stage' = Replicas
           /\ \A q \in Replicas : DOMAIN stage'[q] = Stages
           /\ \A q \in Replicas \ {r} : stage'[q] = stage[q]
           /\ \A q \in Replicas, t \in Stages :
                q # r \/ t # s => stage'[q][t] = stage[q][t]
BY DEF Put, PartsInv

(* The queue of one stage has a batch more, or a batch less. *)
LEMMA QueuedMoves ==
    ASSUME NEW r, NEW s \in Stages, \A t \in Stages \ {s} : stage'[r][t] = stage[r][t],
           IsSeq(stage[r][s].batch_queue), IsSeq(stage'[r][s].batch_queue),
           IsFiniteSet(Queued(r))
    PROVE  /\ Len(stage'[r][s].batch_queue) = Len(stage[r][s].batch_queue) + 1 =>
                /\ IsFiniteSet(Queued(r)')
                /\ Cardinality(Queued(r)') = Cardinality(Queued(r)) + 1
           /\ Len(stage[r][s].batch_queue) = Len(stage'[r][s].batch_queue) + 1 =>
                /\ IsFiniteSet(Queued(r)')
                /\ Cardinality(Queued(r)') = Cardinality(Queued(r)) - 1
<1>1. PICK m : m = Len(stage[r][s].batch_queue)
  OBVIOUS
<1>2. PICK n : n = Len(stage'[r][s].batch_queue)
  OBVIOUS
<1>3. /\ m \in Nat /\ DOMAIN stage[r][s].batch_queue = 1 .. m
      /\ n \in Nat /\ DOMAIN stage'[r][s].batch_queue = 1 .. n
  BY <1>1, <1>2, IsSeqFacts
<1> DEFINE rest == UNION {{t} \X DOMAIN stage[r][t].batch_queue : t \in Stages \ {s}}
<1>4. Queued(r) = rest \cup ({s} \X (1 .. m))
  BY <1>3 DEF Queued
<1>5. Queued(r)' = rest \cup ({s} \X (1 .. n))
  BY <1>3 DEF Queued
<1>6. \A k : <<s, k>> \notin rest
  OBVIOUS
<1> HIDE DEF rest
<1>7. CASE n = m + 1
  <2>1. Queued(r)' = Queued(r) \cup {<<s, n>>} /\ <<s, n>> \notin Queued(r)
    <3>1. 1 .. n = (1 .. m) \cup {n} /\ n \notin 1 .. m
      BY <1>3, <1>7
    <3> QED BY <1>4, <1>5, <1>6, <3>1
  <2>2. /\ IsFiniteSet(Queued(r)')
        /\ Cardinality(Queued(r)') = Cardinality(Queued(r)) + 1
    BY <2>1, FS_AddElement
  <2>3. m # n + 1
    BY <1>3, <1>7
  <2> QED BY <1>1, <1>2, <2>2, <2>3
<1>8. CASE m = n + 1
  <2>1. Queued(r)' = Queued(r) \ {<<s, m>>} /\ <<s, m>> \in Queued(r)
    <3>1. 1 .. n = (1 .. m) \ {m} /\ m \in 1 .. m
      BY <1>3, <1>8
    <3> QED BY <1>4, <1>5, <1>6, <3>1
  <2>2. /\ IsFiniteSet(Queued(r)')
        /\ Cardinality(Queued(r)') = Cardinality(Queued(r)) - 1
    BY <2>1, FS_RemoveElement
  <2>3. n # m + 1
    BY <1>3, <1>8
  <2> QED BY <1>1, <1>2, <2>2, <2>3
<1> QED BY <1>1, <1>2, <1>7, <1>8

(* The replicas whose pipeline and scheduler an iteration does not touch. *)
LEMMA OthersKept ==
    ASSUME WakeInv, NEW e, NEW events, Iterated(e, events), NEW q \in Replicas,
           stage'[q] = stage[q], scheduler'[q] = scheduler[q],
           ~CarriesBatch(e.call, q), ~WakesReplica(e.call, q),
           \A x \in Range(events) : ~CarriesBatch(x.call, q)
    PROVE  CarriedAt(q)' /\ ReplicaAwake(q)'
<1>1. BatchEvents(q)' = BatchEvents(q)
  BY EventsKept
<1>2. CarriedAt(q)'
  BY <1>1, CarriedKept DEF WakeInv
<1>3. ReplicaAwake(q)'
  BY ReplicaKept DEF WakeInv
<1> QED BY <1>2, <1>3

(* BatchStageArrivalEvent: the stage has a batch more and is called. *)
LEMMA StageArrivalKeeps == WakeInv /\ BatchStageArrival => WakeInv'
<1> SUFFICES ASSUME WakeInv, BatchStageArrival PROVE WakeInv'
  OBVIOUS
<1>1. PICK e \in Popped("batch_stage_arrival") :
        /\ stage' = [stage EXCEPT ![e.call.replica][e.call.stage] =
                        AddBatch(@, e.call.batch)]
        /\ Handled(e, <<At(e.time, [type |-> "replica_stage_schedule",
                                    replica |-> e.call.replica, stage |-> e.call.stage])>>)
        /\ UNCHANGED <<global, scheduler, req, times, last_batch_id, history>>
  BY DEF BatchStageArrival
<1>2. PICK r, s, b : r = e.call.replica /\ s = e.call.stage /\ b = e.call.batch
  OBVIOUS
<1>3. /\ HeapInv /\ PartsInv /\ Punctual /\ GlobalAwake
      /\ e \in event_queue /\ e.time \in Nat /\ e.call.type = "batch_stage_arrival"
      /\ r \in Replicas /\ s \in Stages /\ IsSeq(b.entries) /\ CarriesBatch(e.call, r)
  BY <1>2 DEF WakeInv, Popped, HeapInv, CallInv, CarriesBatch, BatchTypes, StageTypes
<1>4. PICK x : x = At(e.time, [type |-> "replica_stage_schedule", replica |-> r, stage |-> s])
  OBVIOUS
<1>5. PICK events : events = <<x>>
  OBVIOUS
<1>6. x.time = e.time /\ WakesStage(x.call, r, s) /\ CallInv(x.call)
  BY <1>3, <1>4 DEF At, WakesStage, CallInv, BatchTypes, StageTypes
<1>7. IsSeq(events) /\ Range(events) = {x} /\ Len(events) = 1 /\ events[1] = x
  BY <1>5, FewEvents
<1>8. Iterated(e, events) /\ HeapInv' /\ Punctual' /\ policy' = policy
  <2>1. \A y \in Range(events) : Timely(e, y)
    BY <1>3, <1>6, <1>7 DEF Timely
  <2>2. Handled(e, events)
    BY <1>1, <1>2, <1>4, <1>5
  <2> QED BY <1>3, <1>7, <2>1, <2>2, HandledFacts
<1>9. PICK old, new : old = stage[r][s] /\ new = AddBatch(old, b)
  OBVIOUS
<1>10. /\ stage' = Put(r, s, new) /\ scheduler' = scheduler
       /\ global_queue' = global_queue /\ request_counter' = request_counter
  BY <1>1, <1>2, <1>9 DEF Put, global
<1>11. /\ stage'[r][s] = new /\ DOMAIN stage' = Replicas
       /\ \A q \in Replicas : DOMAIN stage'[q] = Stages
       /\ \A q \in Replicas \ {r} : stage'[q] = stage[q]
       /\ \A q \in Replicas, t \in Stages : q # r \/ t # s => stage'[q][t] = stage[q][t]
  BY <1>3, <1>10, PutFacts
<1>12. /\ StageInv(old) /\ StageInv(new) /\ new.busy = old.busy
       /\ Len(new.batch_queue) = Len(old.batch_queue) + 1
       /\ Range(new.batch_queue) = Range(old.batch_queue) \cup {b}
  <2>1. StageInv(old)
    BY <1>3, <1>9 DEF PartsInv
  <2>2. new = [batch_queue |-> Append(old.batch_queue, b), busy |-> old.busy]
    BY <1>9, <2>1 DEF AddBatch, StageInv
  <2>3. new.batch_queue = Append(old.batch_queue, b) /\ new.busy = old.busy
    BY <2>2
  <2>4. /\ IsSeq(new.batch_queue) /\ Len(new.batch_queue) = Len(old.batch_queue) + 1
        /\ Range(new.batch_queue) = Range(old.batch_queue) \cup {b}
    BY <2>1, <2>3, AppendIsSeq DEF StageInv
  <2> QED BY <1>3, <2>1, <2>2, <2>3, <2>4 DEF StageInv
<1>13. PartsInv'
  <2>1. ASSUME NEW q \in Replicas, NEW t \in Stages PROVE StageInv(stage'[q][t])
    <3>1. CASE q = r /\ t = s
      BY <1>11, <1>12, <3>1
    <3>2. CASE q # r \/ t # s
      BY <1>3, <1>11, <3>2 DEF PartsInv
    <3> QED BY <3>1, <3>2
  <2> QED BY <1>3, <1>8, <1>10, <1>11, <2>1 DEF PartsInv
<1>14. GlobalAwake'
  BY <1>3, <1>8, <1>10, GlobalKept
<1>15. CarriedAt(r)'
  <2>1. CarriedAt(r)
    BY <1>3 DEF WakeInv
  <2>2. /\ BatchEvents(r)' = BatchEvents(r) \ {e}
        /\ IsFiniteSet(BatchEvents(r)') /\ Cardinality(BatchEvents(r)) \in Nat \ {0}
        /\ Cardinality(BatchEvents(r)') = Cardinality(BatchEvents(r)) - 1
    <3>1. \A y \in Range(events) : ~CarriesBatch(y.call, r)
      BY <1>6, <1>7 DEF CarriesBatch, WakesStage, BatchTypes
    <3> QED BY <1>3, <1>8, <2>1, <3>1, LessEvents DEF CarriedAt
  <2>3. IsFiniteSet(Queued(r)') /\ Cardinality(Queued(r)') = Cardinality(Queued(r)) + 1
    <3>1. /\ \A t \in Stages \ {s} : stage'[r][t] = stage[r][t]
          /\ IsSeq(stage[r][s].batch_queue) /\ IsSeq(stage'[r][s].batch_queue)
          /\ Len(stage'[r][s].batch_queue) = Len(stage[r][s].batch_queue) + 1
      BY <1>3, <1>9, <1>11, <1>12 DEF StageInv
    <3> QED BY <1>3, <2>1, <3>1, QueuedMoves DEF CarriedAt
  <2>4. scheduler[r].running = Cardinality(BatchEvents(r)') + Cardinality(Queued(r)')
    <3>1. scheduler[r].running = Cardinality(BatchEvents(r)) + Cardinality(Queued(r))
      BY <2>1 DEF CarriedAt
    <3>2. Cardinality(BatchEvents(r)) \in Nat /\ Cardinality(Queued(r)) \in Nat
      BY <2>1, FS_CardinalityType DEF CarriedAt
    <3> QED BY <2>2, <2>3, <3>1, <3>2
  <2>5. ASSUME NEW c \in Carried(r) PROVE c \in Carried(r)'
    <3>1. CASE \E f \in BatchEvents(r) : c = f.call.batch
      <4>1. PICK f \in BatchEvents(r) : c = f.call.batch
        BY <3>1
      <4>2. CASE f = e
        <5>1. c \in Range(stage'[r][s].batch_queue)
          BY <1>2, <1>11, <1>12, <4>1, <4>2
        <5> QED BY <1>3, <5>1 DEF Carried
      <4>3. CASE f # e
        BY <2>2, <4>1, <4>3 DEF Carried
      <4> QED BY <4>2, <4>3
    <3>2. CASE \E t \in Stages : c \in Range(stage[r][t].batch_queue)
      <4>1. PICK t \in Stages : c \in Range(stage[r][t].batch_queue)
        BY <3>2
      <4>2. c \in Range(stage'[r][t].batch_queue)
        BY <1>3, <1>9, <1>11, <1>12, <4>1
      <4> QED BY <4>2 DEF Carried
    <3> QED BY <3>1, <3>2 DEF Carried
  <2> QED BY <1>10, <2>1, <2>2, <2>3, <2>4, <2>5 DEF CarriedAt
<1>16. ReplicaAwake(r)'
  BY <1>3, <1>8, <1>10, ReplicaKept DEF WakeInv, WakesReplica
<1>17. ASSUME NEW q \in Replicas, q # r
       PROVE  CarriedAt(q)' /\ ReplicaAwake(q)'
  <2>1. ~CarriesBatch(e.call, q) /\ ~WakesReplica(e.call, q)
    BY <1>2, <1>3, <1>17 DEF CarriesBatch, WakesReplica
  <2>2. \A y \in Range(events) : ~CarriesBatch(y.call, q)
    BY <1>6, <1>7 DEF CarriesBatch, WakesStage, BatchTypes
  <2>3. stage'[q] = stage[q] /\ scheduler'[q] = scheduler[q]
    BY <1>10, <1>11, <1>17
  <2> QED BY <1>8, <2>1, <2>2, <2>3, OthersKept
<1>18. ASSUME NEW q \in Replicas, NEW t \in Stages
       PROVE  StageAwake(q, t)' /\ BusyAt(q, t)'
  <2>1. ASSUME q = r, t = s PROVE StageAwake(q, t)'
    <3>1. PICK f \in event_queue' : f.time = x.time /\ f.call = x.call
      BY <1>7, <1>8, Queues
    <3>2. now' = e.time
      BY <1>8 DEF Iterated
    <3> QED BY <1>6, <2>1, <3>1, <3>2 DEF StageAwake, Now, CallsAt, CallsOf, Calls, WakesStage
  <2>2. ASSUME q # r \/ t # s PROVE StageAwake(q, t)'
    BY <1>3, <1>8, <1>11, <2>2, StageKept DEF WakeInv, WakesStage
  <2>3. BusyAt(q, t)'
    <3>1. stage'[q][t].busy = stage[q][t].busy
      BY <1>9, <1>11, <1>12
    <3>2. /\ ~EndsStage(e.call, q, t)
          /\ \A y \in Range(events) : ~EndsStage(y.call, q, t)
      BY <1>3, <1>6, <1>7 DEF EndsStage, WakesStage
    <3> QED BY <1>8, <3>1, <3>2, BusyKept DEF WakeInv
  <2> QED BY <2>1, <2>2, <2>3
<1> QED BY <1>8, <1>13, <1>14, <1>15, <1>16, <1>17, <1>18 DEF WakeInv

(* A busy stage, or one without a batch, ignores its event. *)
LEMMA IgnoredKeeps ==
    ASSUME WakeInv, NEW e \in Popped("replica_stage_schedule"),
           ~CanStart(stage[e.call.replica][e.call.stage]), Handled(e, <<>>),
           UNCHANGED <<global, scheduler, stage>>
    PROVE  WakeInv'
<1>1. /\ HeapInv /\ PartsInv /\ Punctual /\ GlobalAwake
      /\ e.call.type = "replica_stage_schedule"
  BY DEF WakeInv, Popped
<1>2. PICK events : events = <<>>
  OBVIOUS
<1>3. IsSeq(events) /\ Range(events) = {}
  BY <1>2, FewEvents
<1>4. Iterated(e, events) /\ HeapInv' /\ Punctual' /\ policy' = policy
  <2>1. \A y \in Range(events) : Timely(e, y)
    BY <1>3
  <2>2. Handled(e, events)
    BY <1>2
  <2> QED BY <1>1, <1>3, <2>1, <2>2, HandledFacts
<1>5. /\ stage' = stage /\ scheduler' = scheduler
      /\ global_queue' = global_queue /\ request_counter' = request_counter
  BY DEF global
<1>6. PartsInv'
  BY <1>1, <1>4, <1>5 DEF PartsInv
<1>7. GlobalAwake'
  BY <1>1, <1>4, <1>5, GlobalKept
<1>8. ASSUME NEW q \in Replicas PROVE CarriedAt(q)' /\ ReplicaAwake(q)'
  <2>1. ~CarriesBatch(e.call, q) /\ ~WakesReplica(e.call, q)
    BY <1>1 DEF CarriesBatch, WakesReplica, BatchTypes
  <2>2. \A y \in Range(events) : ~CarriesBatch(y.call, q)
    BY <1>3
  <2> QED BY <1>4, <1>5, <2>1, <2>2, OthersKept
<1>9. ASSUME NEW q \in Replicas, NEW t \in Stages PROVE StageAwake(q, t)' /\ BusyAt(q, t)'
  <2>1. ASSUME WakesStage(e.call, q, t) PROVE StageAwake(q, t)'
    BY <1>5, <2>1 DEF StageAwake, WakesStage, CanStart
  <2>2. ASSUME ~WakesStage(e.call, q, t) PROVE StageAwake(q, t)'
    BY <1>1, <1>4, <1>5, <2>2, StageKept DEF WakeInv
  <2>3. BusyAt(q, t)'
    BY <1>1, <1>3, <1>4, <1>5, BusyKept DEF WakeInv, EndsStage
  <2> QED BY <2>1, <2>2, <2>3
<1> QED BY <1>4, <1>6, <1>7, <1>8, <1>9 DEF WakeInv

(* An idle stage takes its first batch and queues the event of its end. *)
LEMMA StartKeeps ==
    ASSUME WakeInv, NEW e \in Popped("replica_stage_schedule"),
           NEW r, r = e.call.replica, NEW s, s = e.call.stage,
           NEW b, b = Head(stage[r][s].batch_queue), CanStart(stage[r][s]),
           stage' = Put(r, s, Started(stage[r][s])), UNCHANGED <<global, scheduler>>,
           NEW d \in ExecutionTimes,
           Handled(e, <<At(e.time + d,
               [type |-> "batch_stage_end", replica |-> r, stage |-> s, batch |-> b,
                execution_time |-> d])>>)
    PROVE  WakeInv'
<1>1. /\ HeapInv /\ PartsInv /\ Punctual /\ GlobalAwake
      /\ e \in event_queue /\ e.time \in Nat /\ e.call.type = "replica_stage_schedule"
      /\ r \in Replicas /\ s \in Stages /\ d \in Nat
  BY SimulatorAssumption DEF WakeInv, Popped, HeapInv, CallInv, BatchTypes, StageTypes
<1>2. PICK old, new : old = stage[r][s] /\ new = Started(old)
  OBVIOUS
<1>3. /\ StageInv(old) /\ StageInv(new) /\ ~old.busy /\ new.busy = TRUE
      /\ Len(old.batch_queue) = Len(new.batch_queue) + 1
      /\ Range(old.batch_queue) = Range(new.batch_queue) \cup {b}
      /\ IsSeq(b.entries)
  <2>1. StageInv(old) /\ old.batch_queue # <<>> /\ ~old.busy /\ IsSeq(old.batch_queue)
    BY <1>1, <1>2 DEF PartsInv, CanStart, StageInv
  <2>2. /\ new.batch_queue = Tail(old.batch_queue) /\ new.busy = TRUE
        /\ new = [batch_queue |-> new.batch_queue, busy |-> new.busy]
    BY <1>2 DEF Started
  <2>3. /\ IsSeq(new.batch_queue) /\ Len(new.batch_queue) = Len(old.batch_queue) - 1
        /\ Range(old.batch_queue) = Range(new.batch_queue) \cup {b}
    BY <1>2, <2>1, <2>2, TailIsSeq
  <2>4. Len(old.batch_queue) \in Nat
    BY <2>1, IsSeqFacts
  <2>5. \A c \in Range(old.batch_queue) : IsSeq(c.entries)
    BY <2>1 DEF StageInv
  <2>6. Len(old.batch_queue) = Len(new.batch_queue) + 1
    <3>1. PICK m, n : m = Len(old.batch_queue) /\ n = Len(new.batch_queue)
      OBVIOUS
    <3>2. m \in Nat /\ n = m - 1
      BY <2>3, <2>4, <3>1
    <3>3. m = n + 1
      BY <3>2
    <3> QED BY <3>1, <3>3
  <2> QED BY <2>1, <2>2, <2>3, <2>5, <2>6 DEF StageInv
<1>4. PICK x : x = At(e.time + d,
               [type |-> "batch_stage_end", replica |-> r, stage |-> s, batch |-> b,
                execution_time |-> d])
  OBVIOUS
<1>5. PICK events : events = <<x>>
  OBVIOUS
<1>6. /\ x.time = e.time + d /\ EndsStage(x.call, r, s) /\ CarriesBatch(x.call, r)
      /\ x.call.batch = b /\ CallInv(x.call)
  BY <1>1, <1>3, <1>4 DEF At, EndsStage, CarriesBatch, CallInv, BatchTypes, StageTypes
<1>7. IsSeq(events) /\ Range(events) = {x} /\ Len(events) = 1 /\ events[1] = x
  BY <1>5, FewEvents
<1>8. Iterated(e, events) /\ HeapInv' /\ Punctual' /\ policy' = policy
  <2>1. \A y \in Range(events) : Timely(e, y)
    <3>1. Timely(e, x)
      BY <1>1, <1>6 DEF Timely
    <3> QED BY <1>7, <3>1
  <2>2. Handled(e, events)
    BY <1>4, <1>5
  <2> QED BY <1>1, <1>7, <2>1, <2>2, HandledFacts
<1>9. /\ stage' = Put(r, s, new) /\ scheduler' = scheduler
      /\ global_queue' = global_queue /\ request_counter' = request_counter
  BY <1>2 DEF global
<1>10. /\ stage'[r][s] = new /\ DOMAIN stage' = Replicas
       /\ \A q \in Replicas : DOMAIN stage'[q] = Stages
       /\ \A q \in Replicas \ {r} : stage'[q] = stage[q]
       /\ \A q \in Replicas, t \in Stages : q # r \/ t # s => stage'[q][t] = stage[q][t]
  <2>1. PartsInv /\ r \in Replicas /\ s \in Stages /\ stage' = Put(r, s, new)
    BY <1>1, <1>2
  <2> QED BY <2>1, PutFacts, SMTT(40)
<1>11. PartsInv'
  <2>1. ASSUME NEW q \in Replicas, NEW t \in Stages PROVE StageInv(stage'[q][t])
    <3>1. CASE q = r /\ t = s
      BY <1>3, <1>10, <3>1
    <3>2. CASE q # r \/ t # s
      BY <1>1, <1>10, <3>2 DEF PartsInv
    <3> QED BY <3>1, <3>2
  <2> QED BY <1>1, <1>8, <1>9, <1>10, <2>1 DEF PartsInv
<1>12. GlobalAwake'
  BY <1>1, <1>8, <1>9, GlobalKept
<1>13. CarriedAt(r)'
  <2>1. CarriedAt(r)
    BY <1>1 DEF WakeInv
  <2>2. /\ IsFiniteSet(BatchEvents(r)')
        /\ Cardinality(BatchEvents(r)') = Cardinality(BatchEvents(r)) + 1
        /\ BatchEvents(r) \subseteq BatchEvents(r)'
        /\ \E f \in BatchEvents(r)' : f.call = x.call
    <3>1. ~CarriesBatch(e.call, r) /\ \A y \in Range(events) : CarriesBatch(y.call, r)
      BY <1>1, <1>6, <1>7 DEF CarriesBatch, BatchTypes
    <3>2. /\ IsFiniteSet(BatchEvents(r)')
          /\ Cardinality(BatchEvents(r)') = Cardinality(BatchEvents(r)) + Len(events)
          /\ BatchEvents(r) \subseteq BatchEvents(r)'
          /\ \A i \in 1 .. Len(events) : \E f \in BatchEvents(r)' : f.call = events[i].call
      <4>1. HeapInv /\ Iterated(e, events) /\ IsFiniteSet(BatchEvents(r))
        BY <1>1, <1>8, <2>1 DEF CarriedAt
      <4> QED BY <3>1, <4>1, MoreEvents, SMTT(40)
    <3> QED BY <1>7, <3>2
  <2>3. IsFiniteSet(Queued(r)') /\ Cardinality(Queued(r)') = Cardinality(Queued(r)) - 1
    <3>1. /\ \A t \in Stages \ {s} : stage'[r][t] = stage[r][t]
          /\ IsSeq(stage[r][s].batch_queue) /\ IsSeq(stage'[r][s].batch_queue)
          /\ Len(stage[r][s].batch_queue) = Len(stage'[r][s].batch_queue) + 1
      <4>1. /\ stage[r][s] = old /\ stage'[r][s] = new
            /\ \A t \in Stages \ {s} : stage'[r][t] = stage[r][t]
        BY <1>1, <1>2, <1>10
      <4>2. IsSeq(old.batch_queue) /\ IsSeq(new.batch_queue)
        BY <1>3 DEF StageInv
      <4> QED BY <1>3, <4>1, <4>2
    <3> QED BY <1>1, <2>1, <3>1, QueuedMoves DEF CarriedAt
  <2>4. scheduler[r].running = Cardinality(BatchEvents(r)') + Cardinality(Queued(r)')
    <3>1. scheduler[r].running = Cardinality(BatchEvents(r)) + Cardinality(Queued(r))
      BY <2>1 DEF CarriedAt
    <3>2. Cardinality(BatchEvents(r)) \in Nat /\ Cardinality(Queued(r)) \in Nat
      BY <2>1, FS_CardinalityType DEF CarriedAt
    <3> QED BY <2>2, <2>3, <3>1, <3>2
  <2>5. ASSUME NEW c \in Carried(r) PROVE c \in Carried(r)'
    <3>1. CASE \E f \in BatchEvents(r) : c = f.call.batch
      BY <2>2, <3>1 DEF Carried
    <3>2. CASE \E t \in Stages : c \in Range(stage[r][t].batch_queue)
      <4>1. PICK t \in Stages : c \in Range(stage[r][t].batch_queue)
        BY <3>2
      <4>2. CASE c \in Range(stage'[r][t].batch_queue)
        BY <4>2 DEF Carried
      <4>3. CASE c \notin Range(stage'[r][t].batch_queue)
        <5>1. c = b
          <6>1. t = s
            BY <1>1, <1>10, <4>1, <4>3
          <6>2. c \in Range(old.batch_queue) /\ c \notin Range(new.batch_queue)
            BY <1>2, <1>10, <4>1, <4>3, <6>1
          <6> QED BY <1>3, <6>2
        <5> QED BY <1>6, <2>2, <5>1 DEF Carried
      <4> QED BY <4>2, <4>3
    <3> QED BY <3>1, <3>2 DEF Carried
  <2> QED BY <1>9, <2>1, <2>2, <2>3, <2>4, <2>5 DEF CarriedAt
<1>14. ReplicaAwake(r)'
  BY <1>1, <1>8, <1>9, ReplicaKept DEF WakeInv, WakesReplica
<1>15. ASSUME NEW q \in Replicas, q # r
       PROVE  CarriedAt(q)' /\ ReplicaAwake(q)'
  <2>1. ~CarriesBatch(e.call, q) /\ ~WakesReplica(e.call, q)
    BY <1>1, <1>15 DEF CarriesBatch, WakesReplica
  <2>2. \A y \in Range(events) : ~CarriesBatch(y.call, q)
    BY <1>6, <1>7, <1>15 DEF CarriesBatch
  <2>3. stage'[q] = stage[q] /\ scheduler'[q] = scheduler[q]
    BY <1>9, <1>10, <1>15
  <2> QED BY <1>8, <2>1, <2>2, <2>3, OthersKept
<1>16. ASSUME NEW q \in Replicas, NEW t \in Stages
       PROVE  StageAwake(q, t)' /\ BusyAt(q, t)'
  <2>1. ASSUME q = r, t = s PROVE StageAwake(q, t)' /\ BusyAt(q, t)'
    <3>1. StageAwake(q, t)'
      BY <1>3, <1>10, <2>1 DEF StageAwake
    <3>2. CallsAt("batch_stage_end", r, s) = {}
      BY <1>1, <1>2, <1>3 DEF WakeInv, BusyAt
    <3>3. PICK f \in event_queue' : f.call = x.call /\ f = Fresh(events, 1)
      <4>1. 1 \in DOMAIN events /\ events[1] = x
        BY <1>7, IsSeqFacts
      <4>2. Fresh(events, 1) \in event_queue' /\ Fresh(events, 1).call = x.call
        BY <1>8, <4>1 DEF Iterated, Fresh
      <4> QED BY <4>2
    <3>4. \A g \in event_queue' : EndsStage(g.call, r, s) => g = f
      <4> SUFFICES ASSUME NEW g \in event_queue', EndsStage(g.call, r, s) PROVE g = f
        OBVIOUS
      <4>1. g \notin event_queue
        BY <3>2 DEF CallsAt, CallsOf, Calls, EndsStage
      <4>2. PICK i \in DOMAIN events : g = Fresh(events, i)
        BY <1>8, <4>1 DEF Iterated
      <4>3. i = 1
        <5>1. DOMAIN events = 1 .. 1
          BY <1>7, IsSeqFacts
        <5> QED BY <4>2, <5>1
      <4> QED BY <3>3, <4>2, <4>3
    <3>5. CallsAt("batch_stage_end", r, s)' = {f}
      BY <1>6, <3>3, <3>4 DEF CallsAt, CallsOf, Calls, EndsStage
    <3>6. BusyAt(q, t)'
      <4>1. stage'[r][s].busy = TRUE
        BY <1>3, <1>10
      <4>2. BusyAt(r, s)'
        BY <3>3, <3>5, <4>1 DEF BusyAt
      <4> QED BY <2>1, <4>2
    <3> QED BY <3>1, <3>6
  <2>2. ASSUME q # r \/ t # s PROVE StageAwake(q, t)' /\ BusyAt(q, t)'
    <3>1. stage'[q][t] = stage[q][t]
      BY <1>10, <2>2
    <3>2. StageAwake(q, t)'
      BY <1>1, <1>8, <2>2, <3>1, StageKept DEF WakeInv, WakesStage
    <3>3. /\ ~EndsStage(e.call, q, t)
          /\ \A y \in Range(events) : ~EndsStage(y.call, q, t)
      BY <1>1, <1>6, <1>7, <2>2 DEF EndsStage
    <3>4. BusyAt(q, t)'
      BY <1>8, <3>1, <3>3, BusyKept DEF WakeInv
    <3> QED BY <3>2, <3>4
  <2> QED BY <2>1, <2>2
<1> QED BY <1>8, <1>11, <1>12, <1>13, <1>14, <1>15, <1>16 DEF WakeInv

(* ReplicaStageScheduleEvent. *)
LEMMA StageScheduleKeeps == WakeInv /\ ReplicaStageSchedule => WakeInv'
<1> SUFFICES ASSUME WakeInv, ReplicaStageSchedule PROVE WakeInv'
  OBVIOUS
<1>1. PICK e \in Popped("replica_stage_schedule") :
        LET here == stage[e.call.replica][e.call.stage]
            b == Head(here.batch_queue)
        IN  \/ /\ ~CanStart(here)
               /\ Handled(e, <<>>)
               /\ UNCHANGED <<global, scheduler, stage>>
            \/ /\ CanStart(here)
               /\ stage' = [stage EXCEPT ![e.call.replica][e.call.stage] = Started(@)]
               /\ \E t \in ExecutionTimes :
                    Handled(e, <<At(e.time + t,
                        [type |-> "batch_stage_end", replica |-> e.call.replica,
                         stage |-> e.call.stage, batch |-> b, execution_time |-> t])>>)
               /\ UNCHANGED <<global, scheduler>>
  BY DEF ReplicaStageSchedule
<1>2. PICK r, s, b : /\ r = e.call.replica /\ s = e.call.stage
                     /\ b = Head(stage[r][s].batch_queue)
  OBVIOUS
<1>3. CASE ~CanStart(stage[r][s])
  BY <1>1, <1>2, <1>3, IgnoredKeeps
<1>4. CASE CanStart(stage[r][s])
  <2>1. PICK d \in ExecutionTimes :
            Handled(e, <<At(e.time + d,
                [type |-> "batch_stage_end", replica |-> r, stage |-> s, batch |-> b,
                 execution_time |-> d])>>)
    BY <1>1, <1>2, <1>4
  <2>2. stage' = Put(r, s, Started(stage[r][s])) /\ UNCHANGED <<global, scheduler>>
    BY <1>1, <1>2, <1>4 DEF Put
  <2> QED BY <1>2, <1>4, <2>1, <2>2, StartKeeps
<1> QED BY <1>3, <1>4

(* A batch goes on: the event that carried it is followed by another one. *)
LEMMA BatchGoesOn ==
    ASSUME NEW e, NEW events, Iterated(e, events), NEW r,
           IsFiniteSet(BatchEvents(r)), CarriesBatch(e.call, r),
           DOMAIN events = {1, 2}, ~CarriesBatch(events[1].call, r),
           CarriesBatch(events[2].call, r), events[2].call.batch = e.call.batch
    PROVE  /\ IsFiniteSet(BatchEvents(r)')
           /\ Cardinality(BatchEvents(r)') = Cardinality(BatchEvents(r))
           /\ \A f \in BatchEvents(r) : \E g \in BatchEvents(r)' : g.call.batch = f.call.batch
<1>1. PICK n : n = Fresh(events, 2)
  OBVIOUS
<1>2. /\ n.call = events[2].call /\ n \in event_queue' /\ n \notin event_queue
      /\ Fresh(events, 1).call = events[1].call
      /\ event_queue' = (event_queue \ {e}) \cup {Fresh(events, 1), n}
  BY <1>1 DEF Iterated, Fresh
<1>3. e \in BatchEvents(r) /\ n \notin BatchEvents(r)
  BY <1>2 DEF Iterated, BatchEvents, CarriesBatch
<1>4. BatchEvents(r)' = (BatchEvents(r) \ {e}) \cup {n}
  <2>1. ASSUME NEW f \in BatchEvents(r) \ {e} PROVE f \in BatchEvents(r)'
    BY <1>2 DEF BatchEvents
  <2>2. n \in BatchEvents(r)'
    BY <1>2 DEF BatchEvents, CarriesBatch
  <2>3. ASSUME NEW f \in BatchEvents(r)', f # n PROVE f \in BatchEvents(r) \ {e}
    <3>1. f # Fresh(events, 1)
      BY <1>2 DEF BatchEvents, CarriesBatch
    <3>2. f \in event_queue \ {e}
      BY <1>2, <2>3, <3>1 DEF BatchEvents
    <3> QED BY <3>2 DEF BatchEvents
  <2> QED BY <2>1, <2>2, <2>3
<1>5. /\ IsFiniteSet(BatchEvents(r) \ {e})
      /\ Cardinality(BatchEvents(r) \ {e}) = Cardinality(BatchEvents(r)) - 1
  BY <1>3, FS_RemoveElement
<1>6. n \notin BatchEvents(r) \ {e}
  BY <1>3
<1>7. /\ IsFiniteSet((BatchEvents(r) \ {e}) \cup {n})
      /\ Cardinality((BatchEvents(r) \ {e}) \cup {n}) = Cardinality(BatchEvents(r) \ {e}) + 1
  BY <1>5, <1>6, FS_AddElement
<1>8. Cardinality(BatchEvents(r)) \in Nat
  BY FS_CardinalityType
<1>9. Cardinality(BatchEvents(r)') = Cardinality(BatchEvents(r))
  BY <1>4, <1>5, <1>7, <1>8
<1>10. ASSUME NEW f \in BatchEvents(r)
       PROVE  \E g \in BatchEvents(r)' : g.call.batch = f.call.batch
  <2>1. CASE f = e
    BY <1>2, <1>4, <2>1
  <2>2. CASE f # e
    BY <1>4, <2>2
  <2> QED BY <2>1, <2>2
<1> QED BY <1>4, <1>7, <1>9, <1>10

(* BatchStageEndEvent: the stage is idle and called again, the batch goes   *)
(* on to the next stage or to its end.                                      *)
LEMMA StageEndKeeps == WakeInv /\ BatchStageEnd => WakeInv'
<1> SUFFICES ASSUME WakeInv, BatchStageEnd PROVE WakeInv'
  OBVIOUS
<1> DEFINE Again(e) == At(e.time, [type |-> "replica_stage_schedule",
                                   replica |-> e.call.replica, stage |-> e.call.stage])
           Onward(e) == IF e.call.stage = NumStages - 1
                      THEN At(e.time, [type |-> "batch_end", replica |-> e.call.replica,
                                       batch |-> e.call.batch])
                      ELSE At(e.time, [type |-> "batch_stage_arrival",
                                       replica |-> e.call.replica,
                                       stage |-> e.call.stage + 1,
                                       batch |-> e.call.batch])
<1>1. PICK e \in Popped("batch_stage_end") :
        /\ stage' = [stage EXCEPT ![e.call.replica][e.call.stage] = OnStageEnd(@)]
        /\ Handled(e, <<Again(e), Onward(e)>>)
        /\ UNCHANGED <<global, scheduler>>
  BY DEF BatchStageEnd
<1>2. PICK r, s, b : r = e.call.replica /\ s = e.call.stage /\ b = e.call.batch
  OBVIOUS
<1>3. /\ HeapInv /\ PartsInv /\ Punctual /\ GlobalAwake
      /\ e \in event_queue /\ e.time \in Nat /\ e.call.type = "batch_stage_end"
      /\ r \in Replicas /\ s \in Stages /\ IsSeq(b.entries)
      /\ CarriesBatch(e.call, r) /\ EndsStage(e.call, r, s)
  BY <1>2
     DEF WakeInv, Popped, HeapInv, CallInv, CarriesBatch, EndsStage, BatchTypes, StageTypes
<1>4. PICK x, y : x = Again(e) /\ y = Onward(e)
  OBVIOUS
<1>5. x.time = e.time /\ WakesStage(x.call, r, s) /\ CallInv(x.call)
  BY <1>2, <1>3, <1>4 DEF At, WakesStage, CallInv, BatchTypes, StageTypes
<1>6. /\ y.time = e.time /\ CarriesBatch(y.call, r) /\ y.call.batch = b /\ CallInv(y.call)
      /\ y.call.type \in {"batch_end", "batch_stage_arrival"}
  <2>1. CASE s = NumStages - 1
    <3>1. y = At(e.time, [type |-> "batch_end", replica |-> r, batch |-> b])
      BY <1>2, <1>4, <2>1
    <3> QED BY <1>3, <3>1 DEF At, CarriesBatch, CallInv, BatchTypes, StageTypes
  <2>2. CASE s # NumStages - 1
    <3>1. y = At(e.time, [type |-> "batch_stage_arrival", replica |-> r, stage |-> s + 1,
                          batch |-> b])
      BY <1>2, <1>4, <2>2
    <3>2. s + 1 \in Stages
      BY <1>3, <2>2, SimulatorAssumption DEF Stages
    <3> QED BY <1>3, <3>1, <3>2 DEF At, CarriesBatch, CallInv, BatchTypes, StageTypes
  <2> QED BY <2>1, <2>2
<1>7. PICK events : events = <<x, y>>
  OBVIOUS
<1>8. /\ IsSeq(events) /\ Range(events) = {x, y} /\ Len(events) = 2
      /\ events[1] = x /\ events[2] = y /\ DOMAIN events = {1, 2}
  <2>1. /\ IsSeq(events) /\ Range(events) = {x, y} /\ Len(events) = 2
        /\ events[1] = x /\ events[2] = y
    BY <1>7, FewEvents
  <2>2. DOMAIN events = 1 .. 2
    BY <2>1, IsSeqFacts
  <2> QED BY <2>1, <2>2
<1>9. Iterated(e, events) /\ HeapInv' /\ Punctual' /\ policy' = policy
  <2>1. \A z \in Range(events) : Timely(e, z)
    BY <1>3, <1>5, <1>6, <1>8 DEF Timely
  <2>2. Handled(e, events)
    BY <1>1, <1>4, <1>7
  <2> HIDE DEF Again, Onward
  <2> QED BY <1>3, <1>8, <2>1, <2>2, HandledFacts
<1>10. PICK old, new : old = stage[r][s] /\ new = OnStageEnd(old)
  OBVIOUS
<1>11. /\ stage' = Put(r, s, new) /\ scheduler' = scheduler
       /\ global_queue' = global_queue /\ request_counter' = request_counter
  BY <1>1, <1>2, <1>10 DEF Put, global
<1> HIDE DEF Again, Onward
<1>12. /\ stage'[r][s] = new /\ DOMAIN stage' = Replicas
       /\ \A q \in Replicas : DOMAIN stage'[q] = Stages
       /\ \A q \in Replicas \ {r} : stage'[q] = stage[q]
       /\ \A q \in Replicas, t \in Stages : q # r \/ t # s => stage'[q][t] = stage[q][t]
  BY <1>3, <1>11, PutFacts
<1>13. /\ StageInv(new) /\ new.busy = FALSE /\ new.batch_queue = old.batch_queue
  <2>1. StageInv(old)
    BY <1>3, <1>10 DEF PartsInv
  <2>2. new = [batch_queue |-> old.batch_queue, busy |-> FALSE]
    BY <1>10, <2>1 DEF OnStageEnd, StageInv
  <2> QED BY <2>1, <2>2 DEF StageInv
<1>14. PartsInv'
  <2>1. ASSUME NEW q \in Replicas, NEW t \in Stages PROVE StageInv(stage'[q][t])
    <3>1. CASE q = r /\ t = s
      BY <1>12, <1>13, <3>1
    <3>2. CASE q # r \/ t # s
      BY <1>3, <1>12, <3>2 DEF PartsInv
    <3> QED BY <3>1, <3>2
  <2> QED BY <1>3, <1>9, <1>11, <1>12, <2>1 DEF PartsInv
<1>15. GlobalAwake'
  BY <1>3, <1>9, <1>11, GlobalKept
<1>16. CarriedAt(r)'
  <2>1. CarriedAt(r)
    BY <1>3 DEF WakeInv
  <2>2. /\ IsFiniteSet(BatchEvents(r)')
        /\ Cardinality(BatchEvents(r)') = Cardinality(BatchEvents(r))
        /\ \A f \in BatchEvents(r) : \E g \in BatchEvents(r)' : g.call.batch = f.call.batch
    <3>1. ~CarriesBatch(x.call, r)
      BY <1>5 DEF CarriesBatch, WakesStage, BatchTypes
    <3> QED BY <1>2, <1>3, <1>6, <1>8, <1>9, <2>1, <3>1, BatchGoesOn DEF CarriedAt
  <2>3. \A t \in Stages : stage'[r][t].batch_queue = stage[r][t].batch_queue
    BY <1>3, <1>10, <1>12, <1>13
  <2>4. Queued(r)' = Queued(r)
    BY <2>3 DEF Queued
  <2>5. ASSUME NEW c \in Carried(r) PROVE c \in Carried(r)'
    BY <2>2, <2>3 DEF Carried
  <2> QED BY <1>11, <2>1, <2>2, <2>4, <2>5 DEF CarriedAt
<1>17. ReplicaAwake(r)'
  BY <1>3, <1>9, <1>11, ReplicaKept DEF WakeInv, WakesReplica
<1>18. ASSUME NEW q \in Replicas, q # r
       PROVE  CarriedAt(q)' /\ ReplicaAwake(q)'
  <2>1. ~CarriesBatch(e.call, q) /\ ~WakesReplica(e.call, q)
    BY <1>2, <1>3, <1>18 DEF CarriesBatch, WakesReplica
  <2>2. \A z \in Range(events) : ~CarriesBatch(z.call, q)
    BY <1>5, <1>6, <1>8, <1>18 DEF CarriesBatch, WakesStage, BatchTypes
  <2>3. stage'[q] = stage[q] /\ scheduler'[q] = scheduler[q]
    BY <1>11, <1>12, <1>18
  <2> QED BY <1>9, <2>1, <2>2, <2>3, OthersKept
<1>19. ASSUME NEW q \in Replicas, NEW t \in Stages
       PROVE  StageAwake(q, t)' /\ BusyAt(q, t)'
  <2>1. \A z \in Range(events) : ~EndsStage(z.call, q, t)
    BY <1>5, <1>6, <1>8 DEF EndsStage, WakesStage
  <2>2. ASSUME q = r, t = s PROVE StageAwake(q, t)' /\ BusyAt(q, t)'
    <3>1. PICK f \in event_queue' : f.time = x.time /\ f.call = x.call
      BY <1>8, <1>9, Queues
    <3>2. now' = e.time
      BY <1>9 DEF Iterated
    <3>3. StageAwake(q, t)'
      BY <1>5, <2>2, <3>1, <3>2 DEF StageAwake, Now, CallsAt, CallsOf, Calls, WakesStage
    <3>4. CallsAt("batch_stage_end", r, s) = {e}
      <4>1. e \in CallsAt("batch_stage_end", r, s)
        BY <1>3 DEF CallsAt, CallsOf, Calls, EndsStage
      <4> QED BY <1>3, <4>1 DEF WakeInv, BusyAt
    <3>5. ASSUME NEW g \in event_queue', EndsStage(g.call, r, s) PROVE FALSE
      <4>1. g \in event_queue /\ g # e
        BY <1>9, <2>1, <2>2, <3>5, Origins
      <4> QED BY <3>4, <3>5, <4>1 DEF CallsAt, CallsOf, Calls, EndsStage
    <3>6. CallsAt("batch_stage_end", r, s)' = {}
      BY <3>5 DEF CallsAt, CallsOf, Calls, EndsStage
    <3>7. BusyAt(q, t)'
      BY <1>12, <1>13, <2>2, <3>6 DEF BusyAt
    <3> QED BY <3>3, <3>7
  <2>3. ASSUME q # r \/ t # s PROVE StageAwake(q, t)' /\ BusyAt(q, t)'
    <3>1. stage'[q][t] = stage[q][t]
      BY <1>12, <2>3
    <3>2. StageAwake(q, t)'
      BY <1>3, <1>9, <3>1, StageKept DEF WakeInv, WakesStage
    <3>3. ~EndsStage(e.call, q, t)
      BY <1>3, <2>3 DEF EndsStage
    <3>4. BusyAt(q, t)'
      BY <1>9, <2>1, <3>1, <3>3, BusyKept DEF WakeInv
    <3> QED BY <3>2, <3>4
  <2> QED BY <2>2, <2>3
<1> QED BY <1>9, <1>14, <1>15, <1>16, <1>17, <1>18, <1>19 DEF WakeInv

(* on_batch_end takes the completed requests out of memory and keeps the    *)
(* others for the next batch.                                               *)
LEMMA OnBatchEndFacts ==
    ASSUME NEW s, SchedulerInv(s), s.running # 0, NEW ids, IsSeq(ids), NEW done,
           NEW t, t = OnBatchEndOrca(s, ids, done)
    PROVE  /\ SchedulerInv(t) /\ t.running = s.running - 1
           /\ t.allocated = s.allocated \ done
           /\ Range(t.preempted) = Range(s.preempted) \cup (Range(ids) \ done)
<1>1. PICK rest : rest = Without(ids, done)
  OBVIOUS
<1>2. IsSeq(rest) /\ Range(rest) = Range(ids) \ done
  BY <1>1, WithoutFacts
<1>3. t = [queue |-> s.queue, preempted |-> s.preempted \o rest,
           allocated |-> s.allocated \ done, running |-> s.running - 1]
  BY <1>1 DEF OnBatchEndOrca, SchedulerInv
<1>4. /\ t.queue = s.queue /\ t.preempted = s.preempted \o rest
      /\ t.allocated = s.allocated \ done /\ t.running = s.running - 1
  BY <1>3
<1>5. /\ IsSeq(t.preempted)
      /\ Range(t.preempted) = Range(s.preempted) \cup (Range(ids) \ done)
  BY <1>2, <1>4, ConcatIsSeq DEF SchedulerInv
<1>6. IsFiniteSet(t.allocated)
  <2>1. IsFiniteSet(s.allocated)
    BY DEF SchedulerInv
  <2>2. IsFiniteSet(s.allocated \ done)
    BY <2>1, FS_Subset, Zenon
  <2> QED BY <1>4, <2>2
<1>7. t.running \in Nat
  BY <1>4 DEF SchedulerInv
<1>8. t = [queue |-> t.queue, preempted |-> t.preempted,
           allocated |-> t.allocated, running |-> t.running]
  BY <1>3, <1>4
<1> QED BY <1>4, <1>5, <1>6, <1>7, <1>8 DEF SchedulerInv

(* BatchEndEvent: the requests of the batch leave or wait again, and the    *)
(* replica is called.                                                       *)
LEMMA BatchEndKeeps == WakeInv /\ BatchEnd => WakeInv'
<1> SUFFICES ASSUME WakeInv, BatchEnd PROVE WakeInv'
  OBVIOUS
<1>1. PICK e \in Popped("batch_end") : \E done :
        /\ scheduler' = [scheduler EXCEPT ![e.call.replica] =
                OnBatchEndOrca(@, [i \in DOMAIN e.call.batch.entries |->
                                        e.call.batch.entries[i].id], done)]
        /\ Handled(e, <<At(e.time, [type |-> "replica_schedule", replica |-> e.call.replica,
                                    cause |-> "batch_end"])>>)
        /\ UNCHANGED <<global, stage>>
  <2>1. PICK e \in Popped("batch_end") :
        LET r == e.call.replica
            entries == e.call.batch.entries
            ended == Members(e.call.batch)
            tokens(q) == (CHOOSE x \in Range(entries) : x.id = q).tokens
            after == [q \in Requests |->
                        IF q \in ended THEN OnBatchEnd(req[q], tokens(q)) ELSE req[q]]
        IN  /\ scheduler' = [scheduler EXCEPT ![r] =
                    OnBatchEndOrca(@, [i \in DOMAIN entries |-> entries[i].id],
                                   {q \in ended : after[q].completed})]
            /\ Handled(e, <<At(e.time, [type |-> "replica_schedule", replica |-> r,
                                        cause |-> "batch_end"])>>)
            /\ UNCHANGED <<global, stage>>
    BY DEF BatchEnd
  <2> QED BY <2>1
<1>2. PICK r, b : r = e.call.replica /\ b = e.call.batch
  OBVIOUS
<1>3. /\ HeapInv /\ PartsInv /\ Punctual /\ GlobalAwake
      /\ e \in event_queue /\ e.time \in Nat /\ e.call.type = "batch_end"
      /\ r \in Replicas /\ IsSeq(b.entries) /\ CarriesBatch(e.call, r)
  BY <1>2 DEF WakeInv, Popped, HeapInv, CallInv, CarriesBatch, BatchTypes
<1>4. PICK x : x = At(e.time, [type |-> "replica_schedule", replica |-> r,
                              cause |-> "batch_end"])
  OBVIOUS
<1>5. PICK events : events = <<x>>
  OBVIOUS
<1>6. x.time = e.time /\ WakesReplica(x.call, r) /\ CallInv(x.call)
  BY <1>3, <1>4 DEF At, WakesReplica, CallInv, BatchTypes, StageTypes
<1>7. IsSeq(events) /\ Range(events) = {x} /\ Len(events) = 1 /\ events[1] = x
  BY <1>5, FewEvents
<1>8. Iterated(e, events) /\ HeapInv' /\ Punctual' /\ policy' = policy
  <2>1. \A y \in Range(events) : Timely(e, y)
    BY <1>3, <1>6, <1>7 DEF Timely
  <2>2. Handled(e, events)
    BY <1>1, <1>2, <1>4, <1>5
  <2> QED BY <1>3, <1>7, <2>1, <2>2, HandledFacts
<1>9. PICK ids : ids = [i \in DOMAIN b.entries |-> b.entries[i].id]
  OBVIOUS
<1>10. IsSeq(ids) /\ Range(ids) = Members(b)
  <2>1. Len(b.entries) \in Nat /\ DOMAIN b.entries = 1 .. Len(b.entries)
    BY <1>3, IsSeqFacts
  <2>2. ids = [i \in 1 .. Len(b.entries) |-> ids[i]]
    BY <1>9, <2>1
  <2>3. Range(ids) = Members(b)
    BY <1>9 DEF Range, Members
  <2> QED BY <2>1, <2>2, <2>3, FunctionIsSeq
<1>11. PICK done, old, new :
        /\ old = scheduler[r] /\ new = OnBatchEndOrca(old, ids, done)
        /\ scheduler' = [scheduler EXCEPT ![r] = new]
  BY <1>1, <1>2, <1>9
<1>12. /\ scheduler'[r] = new /\ DOMAIN scheduler' = Replicas
       /\ \A q \in Replicas \ {r} : scheduler'[q] = scheduler[q]
       /\ global_queue' = global_queue /\ request_counter' = request_counter
       /\ stage' = stage
  BY <1>1, <1>3, <1>11 DEF PartsInv, global
<1>13. CarriedAt(r) /\ SchedulerInv(old)
  BY <1>3, <1>11 DEF WakeInv, PartsInv
<1>14. /\ BatchEvents(r)' = BatchEvents(r) \ {e}
       /\ IsFiniteSet(BatchEvents(r)') /\ Cardinality(BatchEvents(r)) \in Nat \ {0}
       /\ Cardinality(BatchEvents(r)') = Cardinality(BatchEvents(r)) - 1
  <2>1. \A y \in Range(events) : ~CarriesBatch(y.call, r)
    BY <1>6, <1>7 DEF CarriesBatch, WakesReplica, BatchTypes
  <2> QED BY <1>3, <1>8, <1>13, <2>1, LessEvents DEF CarriedAt
<1>15. /\ old.running = Cardinality(BatchEvents(r)) + Cardinality(Queued(r))
       /\ Cardinality(Queued(r)) \in Nat
  BY <1>11, <1>13, FS_CardinalityType DEF CarriedAt
<1>16. old.running # 0
  BY <1>14, <1>15
<1>17. /\ SchedulerInv(new) /\ new.running = old.running - 1
       /\ new.allocated = old.allocated \ done
       /\ Range(new.preempted) = Range(old.preempted) \cup (Range(ids) \ done)
  BY <1>10, <1>11, <1>13, <1>16, OnBatchEndFacts
<1>18. PartsInv'
  BY <1>3, <1>8, <1>12, <1>17 DEF PartsInv
<1>19. GlobalAwake'
  BY <1>3, <1>8, <1>12, GlobalKept
<1>20. CarriedAt(r)'
  <2>1. Queued(r)' = Queued(r)
    BY <1>12 DEF Queued
  <2>2. new.running = Cardinality(BatchEvents(r)') + Cardinality(Queued(r))
    BY <1>14, <1>15, <1>17
  <2>3. ASSUME NEW q \in new.allocated
        PROVE  q \in Range(new.preempted) \/ \E c \in Carried(r)' : q \in Members(c)
    <3>1. q \in old.allocated /\ q \notin done
      BY <1>17, <2>3
    <3>2. CASE q \in Range(old.preempted)
      BY <1>17, <3>2
    <3>3. CASE \E c \in Carried(r) : q \in Members(c)
      <4>1. PICK c \in Carried(r) : q \in Members(c)
        BY <3>3
      <4>2. CASE c = b
        BY <1>10, <1>17, <3>1, <4>1, <4>2
      <4>3. CASE c # b
        <5>1. c \in Carried(r)'
          BY <1>2, <1>12, <1>14, <4>3 DEF Carried
        <5> QED BY <4>1, <5>1
      <4> QED BY <4>2, <4>3
    <3> QED BY <1>11, <1>13, <3>1, <3>2, <3>3 DEF CarriedAt
  <2> QED BY <1>12, <1>13, <1>14, <2>1, <2>2, <2>3 DEF CarriedAt
<1>21. ReplicaAwake(r)'
  <2>1. PICK f \in event_queue' : f.time = x.time /\ f.call = x.call
    BY <1>7, <1>8, Queues
  <2>2. now' = e.time
    BY <1>8 DEF Iterated
  <2> QED BY <1>6, <2>1, <2>2 DEF ReplicaAwake, Now, CallsOf, Calls, WakesReplica
<1>22. ASSUME NEW q \in Replicas, q # r
       PROVE  CarriedAt(q)' /\ ReplicaAwake(q)'
  <2>1. ~CarriesBatch(e.call, q) /\ ~WakesReplica(e.call, q)
    BY <1>2, <1>3, <1>22 DEF CarriesBatch, WakesReplica
  <2>2. \A y \in Range(events) : ~CarriesBatch(y.call, q)
    BY <1>6, <1>7 DEF CarriesBatch, WakesReplica, BatchTypes
  <2>3. stage'[q] = stage[q] /\ scheduler'[q] = scheduler[q]
    BY <1>12, <1>22
  <2> QED BY <1>8, <2>1, <2>2, <2>3, OthersKept
<1>23. ASSUME NEW q \in Replicas, NEW t \in Stages
       PROVE  StageAwake(q, t)' /\ BusyAt(q, t)'
  <2>1. StageAwake(q, t)'
    BY <1>3, <1>8, <1>12, StageKept DEF WakeInv, WakesStage
  <2>2. BusyAt(q, t)'
    <3>1. /\ ~EndsStage(e.call, q, t)
          /\ \A y \in Range(events) : ~EndsStage(y.call, q, t)
      BY <1>3, <1>6, <1>7 DEF EndsStage, WakesReplica
    <3> QED BY <1>8, <1>12, <3>1, BusyKept DEF WakeInv
  <2> QED BY <2>1, <2>2
<1> QED BY <1>8, <1>18, <1>19, <1>20, <1>21, <1>22, <1>23 DEF WakeInv

-----------------------------------------------------------------------------
(* The theorems. *)

(* A replica with no request in its queues forms no batch.                  *)
LEMMA NothingToBatch ==
    ASSUME NEW s, SchedulerInv(s), s.queue = <<>>, s.preempted = <<>>
    PROVE  NextBatch(s) = <<>>
<1>1. PICK b : b = NextBatch(s)
  OBVIOUS
<1>2. IsSeq(b) /\ Range(b) \subseteq Range(s.queue) \cup Range(s.preempted)
  BY <1>1, NextBatchFacts
<1>3. Range(s.queue) = {} /\ Range(s.preempted) = {}
  BY IsSeqFacts DEF SchedulerInv
<1> QED BY <1>1, <1>2, <1>3, IsSeqFacts

(* Simulator.__init__ makes the arrival events only: nothing is in a queue. *)
LEMMA WakeInit == Init => WakeInv
<1> SUFFICES ASSUME Init PROVE WakeInv
  OBVIOUS
<1>1. \A e \in event_queue : \E q \in Requests :
        e = [time |-> ArrivedAt[q], id |-> q,
             call |-> [type |-> "request_arrival", request |-> q]]
  BY DEF Init
<1>2. \A e \in event_queue : /\ e.time \in Nat /\ e.id \in 1 .. last_id
                             /\ e.call.type = "request_arrival"
  <2>1. \A q \in Requests : ArrivedAt[q] \in Nat /\ q \in 1 .. last_id
    BY SimulatorAssumption DEF Init, Requests
  <2> QED BY <1>1, <2>1
<1>3. HeapInv /\ Punctual
  <2>1. now = 0 /\ last_id \in Nat
    BY SimulatorAssumption DEF Init
  <2>2. \A e \in event_queue : CallInv(e.call)
    BY <1>2 DEF CallInv, BatchTypes, StageTypes
  <2> QED BY <1>2, <2>1, <2>2 DEF HeapInv, Punctual
<1>4. IsSeq(<<>>) /\ Range(<<>>) = {}
  BY FewEvents
<1>5. ASSUME NEW r \in Replicas
      PROVE  /\ scheduler[r] = [queue |-> <<>>, preempted |-> <<>>, allocated |-> {},
                                running |-> 0]
             /\ SchedulerInv(scheduler[r])
  <2>1. scheduler[r] = [queue |-> <<>>, preempted |-> <<>>, allocated |-> {}, running |-> 0]
    BY DEF Init
  <2>2. IsFiniteSet({})
    BY FS_EmptySet
  <2> QED BY <1>4, <2>1, <2>2 DEF SchedulerInv
<1>6. ASSUME NEW r \in Replicas, NEW s \in Stages
      PROVE  /\ stage[r][s].batch_queue = <<>> /\ stage[r][s].busy = FALSE
             /\ StageInv(stage[r][s])
  <2>1. stage[r][s] = [batch_queue |-> <<>>, busy |-> FALSE]
    BY DEF Init
  <2> QED BY <1>4, <2>1 DEF StageInv
<1>7. PartsInv
  BY <1>4, <1>5, <1>6 DEF Init, PartsInv
<1>8. GlobalAwake
  BY DEF Init, GlobalAwake
<1>9. ASSUME NEW r \in Replicas PROVE CarriedAt(r)
  <2>1. BatchEvents(r) = {}
    BY <1>2 DEF BatchEvents, BatchTypes
  <2>2. DOMAIN <<>> = {}
    BY <1>4, IsSeqFacts
  <2>3. Queued(r) = {}
    BY <1>6, <2>2 DEF Queued
  <2>4. IsFiniteSet({}) /\ Cardinality({}) = 0
    BY FS_EmptySet
  <2> QED BY <1>5, <2>1, <2>3, <2>4 DEF CarriedAt
<1>10. ASSUME NEW r \in Replicas PROVE ReplicaAwake(r)
  BY <1>5, NothingToBatch DEF ReplicaAwake
<1>11. ASSUME NEW r \in Replicas, NEW s \in Stages PROVE StageAwake(r, s) /\ BusyAt(r, s)
  BY <1>2, <1>6 DEF StageAwake, BusyAt, CallsAt, CallsOf, Calls
<1> QED BY <1>3, <1>7, <1>8, <1>9, <1>10, <1>11 DEF WakeInv

(* Every iteration of the loop of Simulator.run keeps the invariant.        *)
LEMMA WakeStep == WakeInv /\ [Next]_vars => WakeInv'
<1> SUFFICES ASSUME WakeInv, [Next]_vars PROVE WakeInv'
  OBVIOUS
<1>1. CASE RequestArrival
  BY <1>1, ArrivalKeeps
<1>2. CASE GlobalSchedule
  BY <1>2, GlobalKeeps
<1>3. CASE ReplicaSchedule
  BY <1>3, ReplicaKeeps
<1>4. CASE BatchStageArrival
  BY <1>4, StageArrivalKeeps
<1>5. CASE ReplicaStageSchedule
  BY <1>5, StageScheduleKeeps
<1>6. CASE BatchStageEnd
  BY <1>6, StageEndKeeps
<1>7. CASE BatchEnd
  BY <1>7, BatchEndKeeps
<1>8. CASE UNCHANGED vars
  <2>1. /\ now' = now /\ last_id' = last_id /\ event_queue' = event_queue
        /\ global_queue' = global_queue /\ request_counter' = request_counter
        /\ policy' = policy /\ scheduler' = scheduler /\ stage' = stage
    BY <1>8 DEF vars, config, clock, global
  <2>2. HeapInv' /\ PartsInv' /\ Punctual' /\ GlobalAwake'
    BY <2>1 DEF WakeInv, HeapInv, PartsInv, Punctual, GlobalAwake, Calls, Now
  <2>3. ASSUME NEW r \in Replicas PROVE CarriedAt(r)' /\ ReplicaAwake(r)'
    BY <2>1 DEF WakeInv, CarriedAt, BatchEvents, Queued, Carried, ReplicaAwake, CallsOf,
       Calls, Now
  <2>4. ASSUME NEW r \in Replicas, NEW s \in Stages PROVE StageAwake(r, s)' /\ BusyAt(r, s)'
    BY <2>1 DEF WakeInv, StageAwake, BusyAt, CallsAt, CallsOf, Calls, Now
  <2> QED BY <2>2, <2>3, <2>4 DEF WakeInv
<1> QED BY <1>1, <1>2, <1>3, <1>4, <1>5, <1>6, <1>7, <1>8 DEF Next

(* The invariant holds of every state of the simulator: its types, its      *)
(* wake-ups, and that a replica counts as running exactly the batches that  *)
(* its pipeline carries.                                                    *)
THEOREM WakeInvariance == Spec => []WakeInv
BY WakeInit, WakeStep, PTL DEF Spec

(* No component waits without the event that will serve it: a request at    *)
(* the global scheduler, a replica that could form a batch and an idle      *)
(* stage with a batch have their schedule event at the present time, and a  *)
(* busy stage has the one event that ends its batch (the handle_event       *)
(* methods of src/vidur/events).                                            *)
THEOREM NobodyIsForgotten == Spec => []NoLostWakeup
BY WakeInvariance, NobodyWaits, PTL

(* Without events every queue is empty and no memory is in use.             *)
LEMMA NoEventsNothingLeft == WakeInv /\ event_queue = {} => SchedulerEmpty
<1> SUFFICES ASSUME WakeInv, event_queue = {} PROVE SchedulerEmpty
  OBVIOUS
<1>1. global_queue = <<>>
  BY DEF WakeInv, GlobalAwake, Calls, Now
<1>2. ASSUME NEW r \in Replicas, NEW s \in Stages PROVE stage[r][s].batch_queue = <<>>
  <2>1. stage[r][s].busy \in BOOLEAN
    BY DEF WakeInv, PartsInv, StageInv
  <2>2. stage[r][s].busy = FALSE
    BY <2>1 DEF WakeInv, BusyAt
  <2> QED BY <2>2 DEF WakeInv, StageAwake, CallsAt, CallsOf, Calls, Now
<1>3. ASSUME NEW r \in Replicas PROVE scheduler[r].queue = <<>> /\ scheduler[r].allocated = {}
  <2>1. SchedulerInv(scheduler[r]) /\ CarriedAt(r) /\ ReplicaAwake(r)
    BY DEF WakeInv, PartsInv
  <2>2. DOMAIN <<>> = {} /\ Range(<<>>) = {}
    BY FewEvents, IsSeqFacts
  <2>3. BatchEvents(r) = {} /\ Queued(r) = {} /\ Carried(r) = {}
    BY <1>2, <2>2 DEF BatchEvents, Queued, Carried
  <2>4. Cardinality({}) = 0
    BY FS_EmptySet
  <2>5. scheduler[r].running = 0
    BY <2>1, <2>3, <2>4 DEF CarriedAt
  <2>6. NextBatch(scheduler[r]) = <<>>
    BY <2>1, <2>5, SimulatorAssumption DEF ReplicaAwake, CallsOf, Calls, Now
  <2>7. PICK b : b = NextBatch(scheduler[r])
    OBVIOUS
  <2>8. scheduler[r].preempted = <<>>
    BY <2>1, <2>6, <2>7, NextBatchFacts
  <2>9. scheduler[r].allocated = {}
    BY <2>1, <2>2, <2>3, <2>8 DEF CarriedAt
  <2> QED BY <2>1, <2>6, <2>7, <2>9, NextBatchFacts
<1> QED BY <1>1, <1>2, <1>3 DEF SchedulerEmpty

(* The assertion that ends Simulator.run never fails, whatever the replicas *)
(* and the pipelines were doing: when the loop stops and the time limit did *)
(* not stop it, no scheduler holds a request and no stage a batch.          *)
THEOREM EmptyWhenDone == Spec => []EmptyAtEnd
<1>1. WakeInv => EmptyAtEnd
  BY NoEventsNothingLeft DEF EmptyAtEnd, Running
<1> QED BY <1>1, WakeInvariance, PTL

-----------------------------------------------------------------------------
(* The order of batches: a pipeline does not let them overtake each other.  *)

(* One iteration with the numbers of its events: e is the first of the heap *)
(* and what it makes is numbered after all that was made before.            *)
Stepped(e, events) ==
    /\ Iterated(e, events) /\ HeapInv /\ HeapInv' /\ Punctual
    /\ \A f \in event_queue \ {e} : Before(e, f)
    /\ last_id' = last_id + Len(events)

(* Every handled event is such an iteration.                                *)
LEMMA HandledSteps ==
    ASSUME HeapInv, Punctual, NEW type, NEW e \in Popped(type),
           NEW events, IsSeq(events), \A x \in Range(events) : Timely(e, x),
           Handled(e, events)
    PROVE  Stepped(e, events)
<1>1. Iterated(e, events) /\ HeapInv'
  BY HandledFacts
<1>2. \A f \in event_queue \ {e} : Before(e, f)
  BY DEF Popped
<1>3. last_id' = last_id + Len(events)
  BY DEF Handled
<1> QED BY <1>1, <1>2, <1>3 DEF Stepped

(* Where an event of the next state comes from, with its number.            *)
LEMMA Numbers ==
    ASSUME NEW e, NEW events, Stepped(e, events), NEW f \in event_queue'
    PROVE  \/ f \in event_queue /\ f # e /\ f.id <= last_id
           \/ \E i \in 1 .. Len(events) :
                /\ events[i] \in Range(events) /\ f = Fresh(events, i)
                /\ f.id = last_id + i /\ f.call = events[i].call
                /\ f.time = events[i].time
<1>1. IsSeq(events)
  BY DEF Stepped, Iterated
<1>2. DOMAIN events = 1 .. Len(events) /\ \A i \in 1 .. Len(events) : events[i] \in Range(events)
  BY <1>1, IsSeqFacts
<1>3. CASE f \in event_queue /\ f # e
  <2>1. f.id \in 1 .. last_id /\ last_id \in Nat
    BY <1>3 DEF Stepped, HeapInv
  <2> QED BY <1>3, <2>1
<1>4. CASE \E i \in DOMAIN events : f = Fresh(events, i)
  <2>1. PICK i \in DOMAIN events : f = Fresh(events, i)
    BY <1>4
  <2>2. f.id = last_id + i /\ f.call = events[i].call /\ f.time = events[i].time
    BY <2>1 DEF Fresh
  <2> QED BY <1>2, <2>1, <2>2
<1> QED BY <1>3, <1>4 DEF Stepped, Iterated

(* While an event that is due at once waits, the clock stands still.        *)
Prompt(c) == c.type \notin {"request_arrival", "batch_stage_end"}
LEMMA ClockStands ==
    ASSUME DueInv, NEW e, NEW events, Stepped(e, events),
           NEW f \in event_queue, Prompt(f.call)
    PROVE  f.time = now /\ e.time = now /\ now' = now
<1>1. f.time = now
  BY DEF DueInv, Prompt
<1>2. e.time >= now /\ f.time >= e.time /\ now' = e.time /\ e \in event_queue
  BY DEF Stepped, Iterated
<1>3. e.time \in Nat /\ now \in Nat
  BY <1>2 DEF Stepped, HeapInv
<1> QED BY <1>1, <1>2, <1>3

(* Handlers make no arrivals, and all but the end of a stage for now.       *)
LEMMA DueKept ==
    ASSUME DueInv, NEW e, NEW events, Stepped(e, events),
           \A x \in Range(events) : /\ x.call.type # "request_arrival"
                                    /\ Prompt(x.call) => x.time = e.time
    PROVE  DueInv'
<1>1. last_id \in Nat /\ Len(events) \in Nat /\ NumRequests \in Nat
  BY IsSeqFacts, SimulatorAssumption DEF Stepped, Iterated, HeapInv
<1>2. last_id' = last_id + Len(events) /\ now' = e.time /\ last_id >= NumRequests
  BY DEF Stepped, Iterated, DueInv
<1>3. last_id' >= NumRequests
  BY <1>1, <1>2
<1>4. ASSUME NEW f \in event_queue'
      PROVE  /\ f.id <= NumRequests <=> f.call.type = "request_arrival"
             /\ f.call.type \in {"request_arrival", "batch_stage_end"} \/ f.time = now'
  <2>1. CASE f \in event_queue
    <3>1. Prompt(f.call) => f.time = now'
      BY <2>1, ClockStands
    <3> QED BY <2>1, <3>1 DEF DueInv, Prompt
  <2>2. CASE f \notin event_queue
    <3>1. PICK i \in 1 .. Len(events) :
            /\ events[i] \in Range(events) /\ f.id = last_id + i
            /\ f.call = events[i].call /\ f.time = events[i].time
      BY <2>2, Numbers
    <3>2. ~(f.id <= NumRequests)
      BY <1>1, <1>2, <3>1
    <3> QED BY <1>2, <3>1, <3>2 DEF Prompt
  <2> QED BY <2>1, <2>2
<1>5. ASSUME NEW f \in event_queue', NEW g \in event_queue', f.id = g.id
      PROVE  f = g
  <2>1. CASE f \in event_queue /\ g \in event_queue
    BY <1>5, <2>1 DEF DueInv
  <2>2. CASE f \notin event_queue /\ g \notin event_queue
    <3>1. PICK i \in 1 .. Len(events) : f = Fresh(events, i) /\ f.id = last_id + i
      BY <2>2, Numbers
    <3>2. PICK j \in 1 .. Len(events) : g = Fresh(events, j) /\ g.id = last_id + j
      BY <2>2, Numbers
    <3>3. i = j
      BY <1>1, <1>5, <3>1, <3>2
    <3> QED BY <3>1, <3>2, <3>3
  <2>3. ASSUME NEW u \in event_queue', NEW v \in event_queue', u \in event_queue,
               v \notin event_queue
        PROVE  u.id # v.id
    <3>1. PICK j \in 1 .. Len(events) : v.id = last_id + j
      BY <2>3, Numbers
    <3>2. u.id \in 1 .. last_id
      BY <2>3 DEF Stepped, HeapInv
    <3> QED BY <1>1, <3>1, <3>2
  <2> QED BY <1>5, <2>1, <2>2, <2>3
<1> QED BY <1>3, <1>4, <1>5 DEF DueInv

-----------------------------------------------------------------------------
(* The last stage ends one batch at a time. *)

(* The calls that follow the end of the last stage.                         *)
Ends(c, r) ==
    \/ c.type = "batch_end" /\ c.replica = r
    \/ c.type = "replica_schedule" /\ c.replica = r /\ c.cause = "batch_end"
LEMMA EndingIs ==
    ASSUME NEW r
    PROVE  /\ Ending(r) = {f \in event_queue : Ends(f.call, r)}
           /\ Ending(r)' = {f \in event_queue' : Ends(f.call, r)}
BY DEF Ending, CallsOf, Calls, Woken, Ends

(* No batch of the replica ends in this iteration.                          *)
LEMMA EndKept ==
    ASSUME DueInv, NEW e, NEW events, Stepped(e, events), NEW r, EndInv(r),
           \A x \in Range(events) :
                /\ ~Ends(x.call, r)
                /\ EndsStage(x.call, r, NumStages - 1) => x.time > e.time
    PROVE  EndInv(r)'
<1>1. ASSUME NEW f \in Ending(r)' PROVE f \in Ending(r)
  <2>1. f \in event_queue' /\ Ends(f.call, r)
    BY EndingIs
  <2>2. f \in event_queue
    BY <2>1, Numbers
  <2> QED BY <2>1, <2>2, EndingIs
<1>2. ASSUME NEW f \in Ending(r)', NEW g \in CallsAt("batch_stage_end", r, NumStages - 1)'
      PROVE  g.time > now'
  <2>1. f \in event_queue /\ Prompt(f.call) /\ Ending(r) # {}
    BY <1>1, EndingIs DEF Ends, Prompt
  <2>2. e.time = now /\ now' = now
    BY <2>1, ClockStands
  <2>3. g \in event_queue' /\ EndsStage(g.call, r, NumStages - 1)
    BY DEF CallsAt, CallsOf, Calls, EndsStage
  <2>4. CASE g \in event_queue
    <3>1. g \in CallsAt("batch_stage_end", r, NumStages - 1)
      BY <2>3, <2>4 DEF CallsAt, CallsOf, Calls, EndsStage
    <3> QED BY <2>1, <2>2, <3>1 DEF EndInv
  <2>5. CASE g \notin event_queue
    <3>1. PICK i \in 1 .. Len(events) :
            events[i] \in Range(events) /\ g.call = events[i].call /\ g.time = events[i].time
      BY <2>3, <2>5, Numbers
    <3> QED BY <2>2, <2>3, <3>1
  <2> QED BY <2>4, <2>5
<1> QED BY <1>1, <1>2 DEF EndInv

(* The iteration makes the one event that follows the end of a batch.       *)
LEMMA EndMoved ==
    ASSUME DueInv, NEW e, NEW events, Stepped(e, events), NEW r,
           Ending(r) \subseteq {e}, NEW j,
           \A i \in 1 .. Len(events) : Ends(events[i].call, r) => i = j,
           \A x \in Range(events) : ~EndsStage(x.call, r, NumStages - 1),
           \A g \in CallsAt("batch_stage_end", r, NumStages - 1) \ {e} : g.time > e.time
    PROVE  EndInv(r)'
<1>1. ASSUME NEW f \in Ending(r)' PROVE f = Fresh(events, j)
  <2>1. f \in event_queue' /\ Ends(f.call, r)
    BY EndingIs
  <2>2. ~(f \in event_queue /\ f # e)
    BY <2>1, EndingIs
  <2>3. PICK i \in 1 .. Len(events) : f = Fresh(events, i) /\ f.call = events[i].call
    BY <2>1, <2>2, Numbers
  <2> QED BY <2>1, <2>3
<1>2. ASSUME NEW g \in CallsAt("batch_stage_end", r, NumStages - 1)'
      PROVE  g.time > now'
  <2>1. g \in event_queue' /\ EndsStage(g.call, r, NumStages - 1)
    BY DEF CallsAt, CallsOf, Calls, EndsStage
  <2>2. g \in event_queue /\ g # e
    BY <2>1, Numbers
  <2>3. g \in CallsAt("batch_stage_end", r, NumStages - 1) \ {e}
    BY <2>1, <2>2 DEF CallsAt, CallsOf, Calls, EndsStage
  <2>4. now' = e.time
    BY DEF Stepped, Iterated
  <2> QED BY <2>3, <2>4
<1> QED BY <1>1, <1>2 DEF EndInv

-----------------------------------------------------------------------------
(* The requests of one time are placed together. *)

(* The call of a replica that has new requests.                             *)
Brings(c, r) == c.type = "replica_schedule" /\ c.replica = r /\ c.cause = "arrival"
LEMMA WokenIs ==
    ASSUME NEW r
    PROVE  /\ Woken(r, "arrival") = {f \in event_queue : Brings(f.call, r)}
           /\ Woken(r, "arrival")' = {f \in event_queue' : Brings(f.call, r)}
BY DEF Woken, CallsOf, Calls, Brings

(* No request is placed in this iteration.                                  *)
LEMMA PlacedKept ==
    ASSUME DueInv, NEW e, NEW events, Stepped(e, events), NEW r, PlacedInv(r),
           \A x \in Range(events) : ~Brings(x.call, r) /\ x.call.type # "request_arrival",
           e.call.type = "request_arrival" \/ global_queue' \in {global_queue, <<>>}
    PROVE  PlacedInv(r)'
<1>1. ASSUME NEW f \in Woken(r, "arrival")' PROVE f \in Woken(r, "arrival")
  <2>1. f \in event_queue' /\ Brings(f.call, r)
    BY WokenIs
  <2>2. f \in event_queue
    BY <2>1, Numbers
  <2> QED BY <2>1, <2>2, WokenIs
<1>2. ASSUME NEW f \in Woken(r, "arrival")'
      PROVE  global_queue' = <<>> /\ ~Now(Calls("request_arrival"))'
  <2>1. f \in event_queue /\ Prompt(f.call) /\ Woken(r, "arrival") # {}
    BY <1>1, WokenIs DEF Brings, Prompt
  <2>2. e.time = now /\ now' = now /\ e \in event_queue
    BY <2>1, ClockStands DEF Stepped, Iterated
  <2>3. global_queue = <<>> /\ ~Now(Calls("request_arrival"))
    BY <2>1 DEF PlacedInv
  <2>4. e.call.type # "request_arrival"
    BY <2>2, <2>3 DEF Now, Calls
  <2>5. ASSUME NEW g \in event_queue', g.call.type = "request_arrival", g.time = now'
        PROVE  FALSE
    <3>1. g \in event_queue
      BY <2>5, Numbers
    <3> QED BY <2>2, <2>3, <2>5, <3>1 DEF Now, Calls
  <2>6. ~Now(Calls("request_arrival"))'
    BY <2>5 DEF Now, Calls
  <2> QED BY <2>3, <2>4, <2>6
<1> QED BY <1>1, <1>2 DEF PlacedInv

-----------------------------------------------------------------------------
(* The places of the batches in a pipeline. *)

Waiting(r) ==
    UNION {{SlotPlace(r, s, k) : k \in DOMAIN stage[r][s].batch_queue} : s \in Stages}

(* The batches in events and the batches in queues.                         *)
LEMMA LineIs ==
    ASSUME NEW r
    PROVE  /\ Line(r) = {EventPlace(f) : f \in BatchEvents(r)} \cup Waiting(r)
           /\ Line(r)' = {EventPlace(f) : f \in BatchEvents(r)'} \cup Waiting(r)'
BY DEF Line, Waiting

(* The place of an event.                                                   *)
LEMMA EventPlaceFacts ==
    ASSUME HeapInv, NEW r, NEW f \in BatchEvents(r), NEW x, x = EventPlace(f)
    PROVE  /\ x.number = f.id /\ x.batch = f.call.batch /\ x.level \in Nat
           /\ f \in event_queue /\ f.id \in Nat /\ f.id <= last_id /\ f.time \in Nat
           /\ NumStages \in Nat /\ f.call.type \in BatchTypes /\ f.call.replica = r
           /\ f.call.type \in {"batch_stage_arrival", "batch_stage_end"} =>
                 /\ f.call.stage \in Stages
                 /\ f.call.stage \in Nat /\ f.call.stage < NumStages
           /\ f.call.type = "batch_stage_arrival" => x.level = 3 * f.call.stage
           /\ f.call.type = "batch_stage_end" => x.level = 3 * f.call.stage + 2
           /\ f.call.type = "batch_end" => x.level = 3 * NumStages
<1>1. /\ f \in event_queue /\ f.id \in 1 .. last_id /\ f.time \in Nat /\ last_id \in Nat
      /\ CallInv(f.call) /\ f.call.type \in BatchTypes /\ f.call.replica = r
  BY DEF HeapInv, BatchEvents
<1>2. NumStages \in Nat
  BY SimulatorAssumption
<1>3. f.call.type \in {"batch_stage_arrival", "batch_stage_end"} =>
        f.call.stage \in Stages /\ f.call.stage \in Nat /\ f.call.stage < NumStages
  BY <1>1, <1>2 DEF CallInv, StageTypes, Stages
<1>4. x.number = f.id /\ x.batch = f.call.batch /\ x.level = Level(f.call)
  BY DEF EventPlace
<1>5. /\ f.call.type = "batch_stage_arrival" => x.level = 3 * f.call.stage
      /\ f.call.type = "batch_stage_end" => x.level = 3 * f.call.stage + 2
      /\ f.call.type = "batch_end" => x.level = 3 * NumStages
  BY <1>4 DEF Level
<1>6. x.level \in Nat
  BY <1>1, <1>2, <1>3, <1>5 DEF BatchTypes
<1> QED BY <1>1, <1>2, <1>3, <1>4, <1>5, <1>6

(* The place in a queue.                                                    *)
LEMMA SlotPlaceFacts ==
    ASSUME PartsInv, NEW r \in Replicas, NEW s \in Stages,
           NEW k \in DOMAIN stage[r][s].batch_queue, NEW x, x = SlotPlace(r, s, k)
    PROVE  /\ x.level = 3 * s + 1 /\ x.number = k
           /\ x.batch = stage[r][s].batch_queue[k]
           /\ s \in Nat /\ s < NumStages /\ NumStages \in Nat /\ k \in Nat \ {0}
           /\ x.level \in Nat /\ k <= Len(stage[r][s].batch_queue)
           /\ Len(stage[r][s].batch_queue) \in Nat
<1>1. DOMAIN stage[r][s].batch_queue = 1 .. Len(stage[r][s].batch_queue)
      /\ Len(stage[r][s].batch_queue) \in Nat
  BY IsSeqFacts DEF PartsInv, StageInv
<1>2. s \in Nat /\ s < NumStages /\ NumStages \in Nat
  BY SimulatorAssumption DEF Stages
<1>3. x.level = 3 * s + 1 /\ x.number = k /\ x.batch = stage[r][s].batch_queue[k]
  BY DEF SlotPlace
<1> QED BY <1>1, <1>2, <1>3

(* The events that carry batches after an iteration.                        *)
LEMMA NextBatchEvents ==
    ASSUME NEW e, NEW events, Stepped(e, events), NEW r
    PROVE  BatchEvents(r)' = (BatchEvents(r) \ {e}) \cup
                {Fresh(events, i) : i \in {i \in 1 .. Len(events) :
                                                CarriesBatch(events[i].call, r)}}
<1>1. DOMAIN events = 1 .. Len(events)
  BY IsSeqFacts DEF Stepped, Iterated
<1>2. event_queue' = (event_queue \ {e}) \cup {Fresh(events, i) : i \in 1 .. Len(events)}
  BY <1>1 DEF Stepped, Iterated
<1>3. \A i \in 1 .. Len(events) : Fresh(events, i).call = events[i].call
  BY DEF Fresh
<1> QED BY <1>2, <1>3 DEF BatchEvents, CarriesBatch

(* Order is kept when whoever is ahead was ahead before.                    *)
LEMMA LineFollows ==
    ASSUME NEW r, LineInv(r), in_flight'[r] = in_flight[r],
           last_batch_id' \in Int, last_batch_id \in Int, last_batch_id' >= last_batch_id,
           {x.batch : x \in Line(r)'} = {x.batch : x \in Line(r)},
           \A x, y \in Line(r)' : Ahead(x, y) =>
                \E u, v \in Line(r) : u.batch = x.batch /\ v.batch = y.batch /\ Ahead(u, v)
    PROVE  LineInv(r)'
<1>1. InOrder(Line(r)')
  BY DEF LineInv, InOrder
<1>2. InOrder(Line(r))'
  BY <1>1 DEF InOrder
<1>3. \A b \in Range(in_flight'[r]) : b.id \in Nat /\ b.id <= last_batch_id'
  BY DEF LineInv
<1> QED BY <1>2, <1>3 DEF LineInv

(* One batch moves from place o to place n, the others rest.                *)
LEMMA LineMoves ==
    ASSUME NEW r, LineInv(r), in_flight'[r] = in_flight[r],
           last_batch_id \in Int, last_batch_id' = last_batch_id,
           NEW rest, NEW o, NEW n, n.batch = o.batch, ~Ahead(n, n),
           Line(r) = rest \cup {o}, Line(r)' = rest \cup {n},
           \A y \in rest : /\ Ahead(n, y) => Ahead(o, y)
                           /\ Ahead(y, n) => Ahead(y, o)
    PROVE  LineInv(r)'
<1>1. {x.batch : x \in Line(r)'} = {x.batch : x \in Line(r)}
  OBVIOUS
<1>2. \A x, y \in Line(r)' : Ahead(x, y) =>
        \E u, v \in Line(r) : u.batch = x.batch /\ v.batch = y.batch /\ Ahead(u, v)
  OBVIOUS
<1> QED BY <1>1, <1>2, LineFollows

(* A pipeline in which nothing moves.                                       *)
LEMMA LineKept ==
    ASSUME NEW r, LineInv(r), in_flight'[r] = in_flight[r],
           last_batch_id \in Int, last_batch_id' \in Int, last_batch_id' >= last_batch_id,
           NEW e, NEW events, Stepped(e, events),
           ~CarriesBatch(e.call, r), \A x \in Range(events) : ~CarriesBatch(x.call, r),
           \A s \in Stages : stage'[r][s].batch_queue = stage[r][s].batch_queue
    PROVE  LineInv(r)'
<1>1. BatchEvents(r)' = BatchEvents(r)
  BY EventsKept DEF Stepped
<1>2. Waiting(r)' = Waiting(r)
  BY DEF Waiting, SlotPlace
<1>3. Line(r)' = Line(r)
  BY <1>1, <1>2, LineIs
<1> QED BY <1>3, LineFollows

(* A queue that has one batch more has one place more.                      *)
LEMMA SlotsGrow ==
    ASSUME PartsInv, NEW r \in Replicas, NEW s \in Stages, NEW q, NEW b,
           q = stage[r][s].batch_queue, NEW p, stage'[r][s].batch_queue = p,
           DOMAIN p = 1 .. Len(q) + 1, p[Len(q) + 1] = b, \A i \in 1 .. Len(q) : p[i] = q[i],
           \A t \in Stages \ {s} : stage'[r][t] = stage[r][t],
           NEW n, n = [level |-> 3 * s + 1, number |-> Len(q) + 1, batch |-> b]
    PROVE  Waiting(r)' = Waiting(r) \cup {n}
<1>1. IsSeq(q) /\ Len(q) \in Nat /\ DOMAIN q = 1 .. Len(q)
  BY IsSeqFacts DEF PartsInv, StageInv
<1>5. ASSUME NEW x \in Waiting(r) PROVE x \in Waiting(r)'
  <2>1. PICK t \in Stages : \E k \in DOMAIN stage[r][t].batch_queue : x = SlotPlace(r, t, k)
    BY DEF Waiting
  <2>2. PICK k \in DOMAIN stage[r][t].batch_queue : x = SlotPlace(r, t, k)
    BY <2>1
  <2>3. CASE t = s
    <3>1. k \in DOMAIN p /\ p[k] = q[k]
      <4>1. k \in 1 .. Len(q)
        BY <1>1, <2>2, <2>3
      <4> QED BY <1>1, <4>1
    <3> QED BY <2>2, <2>3, <3>1 DEF Waiting, SlotPlace
  <2>4. CASE t # s
    BY <2>2, <2>4 DEF Waiting, SlotPlace
  <2> QED BY <2>3, <2>4
<1>6. n \in Waiting(r)'
  <2>1. Len(q) + 1 \in DOMAIN p
    BY <1>1
  <2> QED BY <2>1 DEF Waiting, SlotPlace
<1>7. ASSUME NEW x \in Waiting(r)', x # n PROVE x \in Waiting(r)
  <2>1. PICK t \in Stages : \E k \in DOMAIN stage'[r][t].batch_queue :
            x = [level |-> 3 * t + 1, number |-> k, batch |-> stage'[r][t].batch_queue[k]]
    BY DEF Waiting, SlotPlace
  <2>2. PICK k \in DOMAIN stage'[r][t].batch_queue :
            x = [level |-> 3 * t + 1, number |-> k, batch |-> stage'[r][t].batch_queue[k]]
    BY <2>1
  <2>3. CASE t = s
    <3>1. k \in DOMAIN p /\ k # Len(q) + 1
      BY <1>7, <2>2, <2>3
    <3>2. k \in DOMAIN q /\ p[k] = q[k]
      <4>1. k \in 1 .. Len(q)
        BY <1>1, <3>1
      <4> QED BY <1>1, <4>1
    <3> QED BY <2>2, <2>3, <3>2 DEF Waiting, SlotPlace
  <2>4. CASE t # s
    BY <2>2, <2>4 DEF Waiting, SlotPlace
  <2> QED BY <2>3, <2>4
<1> QED BY <1>5, <1>6, <1>7

(* The call of a handler for a batch in a stage.                            *)
IsCall(c, type, r, s, b) ==
    c.type = type /\ c.replica = r /\ c.stage = s /\ c.batch = b

(* A batch that arrives at a stage goes behind those that wait there.       *)
LEMMA ArrivalInLine ==
    ASSUME WakeInv, DueInv, NEW e, NEW r, NEW s, NEW b,
           IsCall(e.call, "batch_stage_arrival", r, s, b), NEW events, Stepped(e, events),
           \A x \in Range(events) : ~CarriesBatch(x.call, r),
           NEW v, v = AddBatch(stage[r][s], b), stage' = Put(r, s, v), LineInv(r),
           in_flight'[r] = in_flight[r],
           last_batch_id \in Int, last_batch_id' = last_batch_id
    PROVE  LineInv(r)'
<1>1. HeapInv /\ PartsInv
  BY DEF WakeInv
<1>2. e \in BatchEvents(r) /\ r \in Replicas /\ s \in Stages
  BY <1>1 DEF Stepped, Iterated, BatchEvents, BatchTypes, HeapInv, CallInv, StageTypes, IsCall
<1>3. PICK q : q = stage[r][s].batch_queue
  OBVIOUS
<1>4. PICK o : o = EventPlace(e)
  OBVIOUS
<1>5. PICK n : n = [level |-> 3 * s + 1, number |-> Len(q) + 1, batch |-> b]
  OBVIOUS
<1>6. PICK rest : rest = {EventPlace(f) : f \in BatchEvents(r) \ {e}} \cup Waiting(r)
  OBVIOUS
<1>7. Line(r) = rest \cup {o}
  BY <1>2, <1>4, <1>6, LineIs
<1>8. Line(r)' = rest \cup {n}
  <2>1. \A i \in 1 .. Len(events) : ~CarriesBatch(events[i].call, r)
    BY IsSeqFacts DEF Stepped, Iterated
  <2>2. BatchEvents(r)' = BatchEvents(r) \ {e}
    BY <2>1, NextBatchEvents
  <2>3. Waiting(r)' = Waiting(r) \cup {n}
    <3>1. /\ stage'[r][s] = v /\ DOMAIN stage' = Replicas
          /\ \A u \in Replicas : DOMAIN stage'[u] = Stages
          /\ \A u \in Replicas \ {r} : stage'[u] = stage[u]
          /\ \A u \in Replicas, t \in Stages : u # r \/ t # s => stage'[u][t] = stage[u][t]
      BY <1>1, <1>2, PutFacts
    <3>2. v.batch_queue = Append(q, b)
      <4>1. StageInv(stage[r][s])
        BY <1>1, <1>2 DEF PartsInv
      <4> QED BY <1>3, <4>1 DEF AddBatch, StageInv
    <3>3. PICK p : p = Append(q, b)
      OBVIOUS
    <3>4. /\ stage'[r][s].batch_queue = p
          /\ \A t \in Stages \ {s} : stage'[r][t] = stage[r][t]
      BY <1>2, <3>1, <3>2, <3>3
    <3>5. IsSeq(q)
      BY <1>1, <1>2, <1>3 DEF PartsInv, StageInv
    <3>6. /\ DOMAIN p = 1 .. Len(q) + 1 /\ p[Len(q) + 1] = b
          /\ \A i \in 1 .. Len(q) : p[i] = q[i]
      <4>1. /\ IsSeq(p) /\ Len(p) = Len(q) + 1 /\ p[Len(q) + 1] = b
            /\ \A i \in 1 .. Len(q) : p[i] = q[i]
        BY <3>3, <3>5, AppendIsSeq
      <4>2. DOMAIN p = 1 .. Len(p)
        BY <4>1, IsSeqFacts
      <4> QED BY <4>1, <4>2
    <3>7. /\ PartsInv /\ r \in Replicas /\ s \in Stages /\ q = stage[r][s].batch_queue
          /\ n = [level |-> 3 * s + 1, number |-> Len(q) + 1, batch |-> b]
      BY <1>1, <1>2, <1>3, <1>5
    <3>8. /\ stage'[r][s].batch_queue = p /\ DOMAIN p = 1 .. Len(q) + 1
          /\ p[Len(q) + 1] = b
      BY <3>4, <3>6
    <3>9. \A i \in 1 .. Len(q) : p[i] = q[i]
      BY <3>6
    <3>10. \A t \in Stages \ {s} : stage'[r][t] = stage[r][t]
      BY <3>4
    <3> QED BY <3>7, <3>8, <3>9, <3>10, SlotsGrow
  <2> QED BY <1>6, <2>2, <2>3, LineIs
<1>9. /\ o.level = 3 * s /\ o.number = e.id /\ o.batch = b /\ e.id \in Nat /\ e.time \in Nat
      /\ n.level = 3 * s + 1 /\ n.number = Len(q) + 1 /\ n.batch = b
      /\ s \in Nat /\ s < NumStages /\ NumStages \in Nat /\ Len(q) \in Nat
  <2>1. /\ o.level = 3 * s /\ o.number = e.id /\ o.batch = b /\ e.id \in Nat
        /\ e.time \in Nat /\ s \in Nat /\ s < NumStages /\ NumStages \in Nat
    BY <1>1, <1>2, <1>4, EventPlaceFacts DEF IsCall
  <2>2. Len(q) \in Nat
    BY <1>1, <1>2, <1>3, IsSeqFacts DEF PartsInv, StageInv
  <2> QED BY <1>5, <2>1, <2>2
<1>10. ASSUME NEW y \in rest
       PROVE  (Ahead(n, y) => Ahead(o, y)) /\ (Ahead(y, n) => Ahead(y, o))
  <2>1. CASE \E f \in BatchEvents(r) \ {e} : y = EventPlace(f)
    <3>1. PICK f \in BatchEvents(r) \ {e} : y = EventPlace(f)
      BY <2>1
    <3>2. /\ y.number = f.id /\ y.level \in Nat /\ f.id \in Nat /\ f.time \in Nat
          /\ f \in event_queue /\ f.call.type \in BatchTypes
          /\ f.call.type \in {"batch_stage_arrival", "batch_stage_end"} =>
                f.call.stage \in Nat /\ f.call.stage < NumStages
          /\ f.call.type = "batch_stage_arrival" => y.level = 3 * f.call.stage
          /\ f.call.type = "batch_stage_end" => y.level = 3 * f.call.stage + 2
          /\ f.call.type = "batch_end" => y.level = 3 * NumStages
      BY <1>1, <3>1, EventPlaceFacts
    <3>3. CASE f.call.type = "batch_stage_arrival"
      <4>1. f.time = now /\ e.time = now
        BY <3>2, <3>3, ClockStands DEF Prompt
      <4>2. Before(e, f)
        BY <3>1, <3>2 DEF Stepped
      <4>3. e.id < f.id
        BY <1>9, <3>2, <4>1, <4>2 DEF Before
      <4> QED BY <1>9, <3>2, <3>3, <4>3 DEF Ahead
    <3>4. CASE f.call.type = "batch_stage_end"
      <4>1. PICK t \in Nat : y.level = 3 * t + 2
        BY <3>2, <3>4
      <4> QED BY <1>9, <4>1 DEF Ahead
    <3>5. CASE f.call.type = "batch_end"
      BY <1>9, <3>2, <3>5 DEF Ahead
    <3> QED BY <3>2, <3>3, <3>4, <3>5 DEF BatchTypes
  <2>2. CASE y \in Waiting(r)
    <3>1. PICK t \in Stages : \E k \in DOMAIN stage[r][t].batch_queue : y = SlotPlace(r, t, k)
      BY <2>2 DEF Waiting
    <3>2. PICK k \in DOMAIN stage[r][t].batch_queue : y = SlotPlace(r, t, k)
      BY <3>1
    <3>3. /\ y.level = 3 * t + 1 /\ y.number = k /\ t \in Nat /\ k \in Nat
          /\ k <= Len(stage[r][t].batch_queue)
      BY <1>1, <1>2, <3>2, SlotPlaceFacts
    <3>4. t = s => k <= Len(q)
      BY <1>3, <3>3
    <3> QED BY <1>9, <3>3, <3>4 DEF Ahead
  <2> QED BY <1>6, <2>1, <2>2
<1>11. ~Ahead(n, n)
  BY <1>9 DEF Ahead
<1> QED BY <1>7, <1>8, <1>9, <1>10, <1>11, LineMoves

(* A batch that leaves a stage goes behind those on their way to the next.  *)
LEMMA OnwardInLine ==
    ASSUME WakeInv, NEW e, NEW r, NEW s, NEW b,
           IsCall(e.call, "batch_stage_end", r, s, b), NEW events, Stepped(e, events),
           Len(events) = 2, ~CarriesBatch(events[1].call, r),
           CarriesBatch(events[2].call, r), events[2].call.batch = b,
           Level(events[2].call) = 3 * s + 3,
           \A t \in Stages : stage'[r][t].batch_queue = stage[r][t].batch_queue,
           LineInv(r), in_flight'[r] = in_flight[r],
           last_batch_id \in Int, last_batch_id' = last_batch_id
    PROVE  LineInv(r)'
<1>1. HeapInv /\ PartsInv
  BY DEF WakeInv
<1>2. e \in BatchEvents(r) /\ r \in Replicas /\ s \in Stages
  BY <1>1 DEF Stepped, Iterated, BatchEvents, BatchTypes, HeapInv, CallInv, StageTypes, IsCall
<1>3. PICK o : o = EventPlace(e)
  OBVIOUS
<1>4. PICK g, n : g = Fresh(events, 2) /\ n = EventPlace(g)
  OBVIOUS
<1>5. PICK rest : rest = {EventPlace(f) : f \in BatchEvents(r) \ {e}} \cup Waiting(r)
  OBVIOUS
<1>6. Line(r) = rest \cup {o}
  BY <1>2, <1>3, <1>5, LineIs
<1>7. Line(r)' = rest \cup {n}
  <2>1. {i \in 1 .. Len(events) : CarriesBatch(events[i].call, r)} = {2}
    OBVIOUS
  <2>2. BatchEvents(r)' = (BatchEvents(r) \ {e}) \cup {g}
    BY <1>4, <2>1, NextBatchEvents
  <2>3. Waiting(r)' = Waiting(r)
    BY DEF Waiting, SlotPlace
  <2> QED BY <1>4, <1>5, <2>2, <2>3, LineIs
<1>8. /\ o.level = 3 * s + 2 /\ o.number = e.id /\ o.batch = b /\ e.id \in Nat
      /\ n.level = 3 * s + 3 /\ n.number = last_id + 2 /\ n.batch = b
      /\ s \in Nat /\ s < NumStages /\ NumStages \in Nat /\ last_id \in Nat
  <2>1. /\ o.level = 3 * s + 2 /\ o.number = e.id /\ o.batch = b /\ e.id \in Nat
        /\ s \in Nat /\ s < NumStages /\ NumStages \in Nat
    BY <1>1, <1>2, <1>3, EventPlaceFacts DEF IsCall
  <2>2. g.id = last_id + 2 /\ g.call = events[2].call
    BY <1>4 DEF Fresh
  <2>3. n.level = 3 * s + 3 /\ n.number = last_id + 2 /\ n.batch = b
    BY <1>4, <2>2 DEF EventPlace
  <2> QED BY <1>1, <2>1, <2>3 DEF HeapInv
<1>9. ASSUME NEW y \in rest
      PROVE  (Ahead(n, y) => Ahead(o, y)) /\ (Ahead(y, n) => Ahead(y, o))
  <2>1. CASE \E f \in BatchEvents(r) \ {e} : y = EventPlace(f)
    <3>1. PICK f \in BatchEvents(r) \ {e} : y = EventPlace(f)
      BY <2>1
    <3>2. /\ y.number = f.id /\ y.level \in Nat /\ f.id \in Nat /\ f.id <= last_id
          /\ f \in event_queue /\ f.call.type \in BatchTypes /\ f.call.replica = r
          /\ f.call.type \in {"batch_stage_arrival", "batch_stage_end"} =>
                f.call.stage \in Nat /\ f.call.stage < NumStages
          /\ f.call.type = "batch_stage_arrival" => y.level = 3 * f.call.stage
          /\ f.call.type = "batch_stage_end" => y.level = 3 * f.call.stage + 2
          /\ f.call.type = "batch_end" => y.level = 3 * NumStages
      BY <1>1, <3>1, EventPlaceFacts
    <3>3. CASE f.call.type = "batch_stage_arrival"
      <4>1. PICK t \in Nat : y.level = 3 * t
        BY <3>2, <3>3
      <4> QED BY <1>8, <3>2, <4>1 DEF Ahead
    <3>4. CASE f.call.type = "batch_stage_end"
      <4>1. PICK t \in Nat : y.level = 3 * t + 2 /\ t = f.call.stage
        BY <3>2, <3>4
      <4>2. t # s
        <5> SUFFICES ASSUME t = s PROVE FALSE
          OBVIOUS
        <5>1. EndsStage(f.call, r, s) /\ EndsStage(e.call, r, s)
          BY <3>2, <3>4, <4>1 DEF EndsStage, IsCall
        <5>2. {e, f} \subseteq CallsAt("batch_stage_end", r, s)
          BY <1>2, <3>2, <5>1 DEF CallsAt, CallsOf, Calls, EndsStage, BatchEvents
        <5>3. BusyAt(r, s)
          BY <1>2 DEF WakeInv
        <5> QED BY <3>1, <5>2, <5>3 DEF BusyAt
      <4> QED BY <1>8, <4>1, <4>2 DEF Ahead
    <3>5. CASE f.call.type = "batch_end"
      BY <1>8, <3>2, <3>5 DEF Ahead
    <3> QED BY <3>2, <3>3, <3>4, <3>5 DEF BatchTypes
  <2>2. CASE y \in Waiting(r)
    <3>1. PICK t \in Stages : \E k \in DOMAIN stage[r][t].batch_queue : y = SlotPlace(r, t, k)
      BY <2>2 DEF Waiting
    <3>2. PICK k \in DOMAIN stage[r][t].batch_queue : y = SlotPlace(r, t, k)
      BY <3>1
    <3>3. y.level = 3 * t + 1 /\ t \in Nat
      BY <1>1, <1>2, <3>2, SlotPlaceFacts
    <3> QED BY <1>8, <3>3 DEF Ahead
  <2> QED BY <1>5, <2>1, <2>2
<1>10. ~Ahead(n, n)
  BY <1>8 DEF Ahead
<1> QED BY <1>6, <1>7, <1>8, <1>9, <1>10, LineMoves

(* Where a place of the next state comes from when stage s starts the first *)
(* of its queue: that one executes, and the others move up.                 *)
MovedUp(u, x, s) ==
    /\ x.level \in Nat /\ x.number \in Nat /\ u.batch = x.batch
    /\ \/ x.level # 3 * s + 1 /\ x.level # 3 * s + 2 /\ u.level = x.level
                              /\ u.number = x.number
       \/ x.level = 3 * s + 1 /\ u.level = 3 * s + 1 /\ u.number = x.number + 1
                              /\ x.number >= 1
       \/ x.level = 3 * s + 2 /\ u.level = 3 * s + 1 /\ u.number = 1

(* Who is ahead after that was ahead before.                                *)
LEMMA MovedUpOrder ==
    ASSUME NEW s \in Nat, NEW x, NEW y, NEW u, NEW v, MovedUp(u, x, s), MovedUp(v, y, s),
           Ahead(x, y), ~(x.level = 3 * s + 2 /\ y.level = 3 * s + 2)
    PROVE  Ahead(u, v)
<1>1. /\ x.level \in Nat /\ x.number \in Nat /\ y.level \in Nat /\ y.number \in Nat
      /\ x.level > y.level \/ (x.level = y.level /\ x.number < y.number)
  BY DEF MovedUp, Ahead
<1>2. CASE x.level # 3 * s + 1 /\ x.level # 3 * s + 2
  <2>1. u.level = x.level /\ u.number = x.number
    BY <1>2 DEF MovedUp
  <2>2. \/ v.level = y.level /\ v.number = y.number
        \/ y.level = 3 * s + 1 /\ v.level = 3 * s + 1
        \/ y.level = 3 * s + 2 /\ v.level = 3 * s + 1
    BY DEF MovedUp
  <2> QED BY <1>1, <1>2, <2>1, <2>2 DEF Ahead
<1>3. CASE x.level = 3 * s + 1
  <2>1. u.level = 3 * s + 1 /\ u.number = x.number + 1
    BY <1>3 DEF MovedUp
  <2>2. \/ v.level = y.level /\ v.number = y.number /\ y.level # 3 * s + 1
        \/ y.level = 3 * s + 1 /\ v.level = 3 * s + 1 /\ v.number = y.number + 1
        \/ y.level = 3 * s + 2
    BY DEF MovedUp
  <2> QED BY <1>1, <1>3, <2>1, <2>2 DEF Ahead
<1>4. CASE x.level = 3 * s + 2
  <2>1. u.level = 3 * s + 1 /\ u.number = 1
    BY <1>4 DEF MovedUp
  <2>2. \/ v.level = y.level /\ v.number = y.number /\ y.level # 3 * s + 1
        \/ y.level = 3 * s + 1 /\ v.level = 3 * s + 1 /\ v.number = y.number + 1
                               /\ y.number >= 1
        \/ y.level = 3 * s + 2
    BY DEF MovedUp
  <2> QED BY <1>1, <1>4, <2>1, <2>2 DEF Ahead
<1> QED BY <1>2, <1>3, <1>4

(* The first batch b of a queue leaves it.                                  *)
Starting(r, s, b) ==
    LET q == stage[r][s].batch_queue
        p == stage'[r][s].batch_queue
    IN  /\ q # <<>> /\ b = q[1] /\ DOMAIN p = 1 .. Len(q) - 1
        /\ \A i \in 1 .. Len(q) - 1 : p[i] = q[i + 1]
        /\ \A t \in Stages \ {s} : stage'[r][t] = stage[r][t]

(* The first batch of a queue starts ahead of those that stay in it.        *)
LEMMA StartInLine ==
    ASSUME WakeInv, NEW e, NEW r \in Replicas, NEW s \in Stages,
           e.call.type = "replica_stage_schedule", NEW events, Stepped(e, events),
           Len(events) = 1, EndsStage(events[1].call, r, s),
           Starting(r, s, events[1].call.batch), CallsAt("batch_stage_end", r, s) = {},
           LineInv(r), in_flight'[r] = in_flight[r],
           last_batch_id \in Int, last_batch_id' = last_batch_id
    PROVE  LineInv(r)'
<1> PICK q, p : q = stage[r][s].batch_queue /\ p = stage'[r][s].batch_queue
  OBVIOUS
<1> /\ q # <<>> /\ events[1].call.batch = q[1] /\ DOMAIN p = 1 .. Len(q) - 1
    /\ \A i \in 1 .. Len(q) - 1 : p[i] = q[i + 1]
    /\ \A t \in Stages \ {s} : stage'[r][t] = stage[r][t]
  BY DEF Starting
<1>1. HeapInv /\ PartsInv
  BY DEF WakeInv
<1>2. /\ DOMAIN q = 1 .. Len(q) /\ Len(q) \in Nat /\ Len(q) # 0 /\ s \in Nat
      /\ s < NumStages /\ NumStages \in Nat
  <2>1. DOMAIN q = 1 .. Len(q) /\ Len(q) \in Nat /\ Len(q) # 0
    BY <1>1, IsSeqFacts DEF PartsInv, StageInv
  <2> QED BY <2>1, SimulatorAssumption DEF Stages
<1>3. PICK g, n : g = Fresh(events, 1) /\ n = EventPlace(g)
  OBVIOUS
<1>4. BatchEvents(r)' = BatchEvents(r) \cup {g}
  <2>1. {i \in 1 .. Len(events) : CarriesBatch(events[i].call, r)} = {1}
    BY DEF EndsStage, CarriesBatch, BatchTypes
  <2>2. e \notin BatchEvents(r)
    BY DEF BatchEvents, BatchTypes
  <2> QED BY <1>3, <2>1, <2>2, NextBatchEvents
<1>5. n.level = 3 * s + 2 /\ n.number = last_id + 1 /\ n.batch = q[1] /\ last_id \in Nat
  <2>1. g.id = last_id + 1 /\ g.call = events[1].call
    BY <1>3 DEF Fresh
  <2>2. Level(g.call) = 3 * s + 2
    BY <2>1 DEF Level, EndsStage
  <2> QED BY <1>1, <1>3, <2>1, <2>2 DEF EventPlace, HeapInv
<1>6. \A t \in Stages \ {s} : stage'[r][t].batch_queue = stage[r][t].batch_queue
  OBVIOUS
<1>7. ASSUME NEW f \in BatchEvents(r), NEW x, x = EventPlace(f)
      PROVE  MovedUp(x, x, s) /\ x.level # 3 * s + 2
  <2>1. /\ x.number = f.id /\ x.level \in Nat /\ f.id \in Nat
        /\ f \in event_queue /\ f.call.type \in BatchTypes /\ f.call.replica = r
        /\ f.call.type \in {"batch_stage_arrival", "batch_stage_end"} =>
              f.call.stage \in Nat /\ f.call.stage < NumStages
        /\ f.call.type = "batch_stage_arrival" => x.level = 3 * f.call.stage
        /\ f.call.type = "batch_stage_end" => x.level = 3 * f.call.stage + 2
        /\ f.call.type = "batch_end" => x.level = 3 * NumStages
    BY <1>1, <1>7, EventPlaceFacts
  <2>2. f.call.type = "batch_stage_end" => f.call.stage # s
    BY <2>1 DEF CallsAt, CallsOf, Calls
  <2>3. x.level # 3 * s + 1 /\ x.level # 3 * s + 2
    <3>1. CASE f.call.type = "batch_stage_arrival"
      <4>1. PICK t \in Nat : x.level = 3 * t
        BY <2>1, <3>1
      <4> QED BY <1>2, <4>1
    <3>2. CASE f.call.type = "batch_stage_end"
      <4>1. PICK t \in Nat : x.level = 3 * t + 2 /\ t # s
        BY <2>1, <2>2, <3>2
      <4> QED BY <1>2, <4>1
    <3>3. CASE f.call.type = "batch_end"
      BY <1>2, <2>1, <3>3
    <3> QED BY <2>1, <3>1, <3>2, <3>3 DEF BatchTypes
  <2> QED BY <2>1, <2>3 DEF MovedUp
<1>8. ASSUME NEW t \in Stages \ {s}, NEW k \in DOMAIN stage[r][t].batch_queue,
             NEW x, x = SlotPlace(r, t, k)
      PROVE  MovedUp(x, x, s) /\ x.level # 3 * s + 2
  <2>1. x.level = 3 * t + 1 /\ x.number = k /\ t \in Nat /\ k \in Nat /\ x.level \in Nat
    BY <1>1, <1>8, SlotPlaceFacts
  <2>2. x.level # 3 * s + 1 /\ x.level # 3 * s + 2
    BY <1>2, <2>1
  <2> QED BY <2>1, <2>2 DEF MovedUp
<1>9. ASSUME NEW x \in Line(r)'
      PROVE  \E u \in Line(r) : MovedUp(u, x, s) /\ (x.level = 3 * s + 2 => x = n)
  <2>1. CASE \E f \in BatchEvents(r) : x = EventPlace(f)
    <3>1. x \in Line(r) /\ MovedUp(x, x, s) /\ x.level # 3 * s + 2
      BY <1>7, <2>1 DEF Line
    <3> QED BY <3>1
  <2>2. CASE x = n
    <3>1. 1 \in DOMAIN q
      BY <1>2
    <3>2. PICK u : u = SlotPlace(r, s, 1)
      OBVIOUS
    <3>3. u \in Line(r)
      BY <3>1, <3>2 DEF Line
    <3>4. u.level = 3 * s + 1 /\ u.number = 1 /\ u.batch = q[1]
      BY <3>2 DEF SlotPlace
    <3>5. MovedUp(u, x, s)
      BY <1>2, <1>5, <2>2, <3>4 DEF MovedUp
    <3> QED BY <2>2, <3>3, <3>5
  <2>3. CASE x \in Waiting(r)'
    <3>1. PICK t \in Stages : \E k \in DOMAIN stage'[r][t].batch_queue :
              x = [level |-> 3 * t + 1, number |-> k, batch |-> stage'[r][t].batch_queue[k]]
      BY <2>3 DEF Waiting, SlotPlace
    <3>2. PICK k \in DOMAIN stage'[r][t].batch_queue :
              x = [level |-> 3 * t + 1, number |-> k, batch |-> stage'[r][t].batch_queue[k]]
      BY <3>1
    <3>3. CASE t = s
      <4> k \in DOMAIN p
        BY <3>2, <3>3
      <4>0. k \in 1 .. Len(q) - 1
        OBVIOUS
      <4>7. k + 1 \in 1 .. Len(q)
        BY <1>2, <4>0
      <4>8. p[k] = q[k + 1]
        BY <4>0
      <4>1. k \in 1 .. Len(q) - 1 /\ p[k] = q[k + 1] /\ k + 1 \in DOMAIN q
        BY <1>2, <4>0, <4>7, <4>8
      <4>2. PICK u : u = SlotPlace(r, s, k + 1)
        OBVIOUS
      <4>3. u \in Line(r)
        BY <4>1, <4>2 DEF Line
      <4>4. u.level = 3 * s + 1 /\ u.number = k + 1 /\ u.batch = q[k + 1]
        BY <4>2 DEF SlotPlace
      <4>5. x.level = 3 * s + 1 /\ x.number = k /\ x.batch = p[k]
        BY <3>2, <3>3
      <4>6. MovedUp(u, x, s)
        BY <1>2, <4>1, <4>4, <4>5 DEF MovedUp
      <4> QED BY <1>2, <4>3, <4>5, <4>6
    <3>4. CASE t # s
      <4>1. k \in DOMAIN stage[r][t].batch_queue /\ x = SlotPlace(r, t, k)
        BY <1>6, <3>2, <3>4 DEF SlotPlace
      <4>2. x \in Line(r)
        BY <4>1 DEF Line
      <4>3. MovedUp(x, x, s) /\ x.level # 3 * s + 2
        BY <1>8, <3>4, <4>1
      <4> QED BY <4>2, <4>3
    <3> QED BY <3>3, <3>4
  <2>4. Line(r)' = {EventPlace(f) : f \in BatchEvents(r)'} \cup Waiting(r)'
    BY LineIs
  <2> QED BY <1>3, <1>4, <2>1, <2>2, <2>3, <2>4
<1>10. ASSUME NEW u \in Line(r) PROVE \E x \in Line(r)' : x.batch = u.batch
  <2>1. CASE \E f \in BatchEvents(r) : u = EventPlace(f)
    <3>1. u \in Line(r)'
      BY <1>4, <2>1 DEF Line
    <3> QED BY <3>1
  <2>2. CASE u \in Waiting(r)
    <3>1. PICK t \in Stages : \E k \in DOMAIN stage[r][t].batch_queue : u = SlotPlace(r, t, k)
      BY <2>2 DEF Waiting
    <3>2. PICK k \in DOMAIN stage[r][t].batch_queue : u = SlotPlace(r, t, k)
      BY <3>1
    <3>3. CASE t # s
      <4>1. u \in Line(r)'
        BY <1>6, <3>2, <3>3 DEF Line, SlotPlace
      <4> QED BY <4>1
    <3>4. CASE t = s /\ k = 1
      <4>1. u.batch = q[1]
        BY <3>2, <3>4 DEF SlotPlace
      <4>2. n \in Line(r)'
        BY <1>3, <1>4 DEF Line
      <4> QED BY <1>5, <4>1, <4>2
    <3>5. CASE t = s /\ k # 1
      <4>1. k \in 1 .. Len(q)
        BY <1>2, <3>2, <3>5
      <4>2. PICK j : j = k - 1
        OBVIOUS
      <4>3. j \in 1 .. Len(q) - 1 /\ j + 1 = k
        BY <1>2, <3>5, <4>1, <4>2
      <4>4. u.batch = q[k] /\ p[j] = q[k]
        BY <3>2, <3>5, <4>3 DEF SlotPlace
      <4>5. PICK x : x = [level |-> 3 * s + 1, number |-> j, batch |-> p[j]]
        OBVIOUS
      <4>6. x \in Line(r)'
        BY <4>3, <4>5 DEF Line, SlotPlace
      <4> QED BY <4>4, <4>5, <4>6
    <3> QED BY <3>3, <3>4, <3>5
  <2> QED BY <2>1, <2>2, LineIs
<1>11. {x.batch : x \in Line(r)'} = {x.batch : x \in Line(r)}
  <2>1. \A x \in Line(r)' : \E u \in Line(r) : u.batch = x.batch
    BY <1>9 DEF MovedUp
  <2>2. \A u \in Line(r) : \E x \in Line(r)' : x.batch = u.batch
    BY <1>10
  <2> QED BY <2>1, <2>2
<1>12. ASSUME NEW x \in Line(r)', NEW y \in Line(r)', Ahead(x, y)
       PROVE  \E u, v \in Line(r) : u.batch = x.batch /\ v.batch = y.batch /\ Ahead(u, v)
  <2>1. PICK u \in Line(r) : MovedUp(u, x, s) /\ (x.level = 3 * s + 2 => x = n)
    BY <1>9
  <2>2. PICK v \in Line(r) : MovedUp(v, y, s) /\ (y.level = 3 * s + 2 => y = n)
    BY <1>9
  <2>3. ~(x.level = 3 * s + 2 /\ y.level = 3 * s + 2)
    <3>1. ~Ahead(n, n)
      BY <1>2, <1>5 DEF Ahead
    <3> QED BY <1>12, <2>1, <2>2, <3>1
  <2>4. Ahead(u, v)
    BY <1>2, <1>12, <2>1, <2>2, <2>3, MovedUpOrder
  <2> QED BY <2>1, <2>2, <2>4 DEF MovedUp
<1>13. \A x, y \in Line(r)' : Ahead(x, y) =>
         \E u, v \in Line(r) : u.batch = x.batch /\ v.batch = y.batch /\ Ahead(u, v)
  BY <1>12
<1>14. last_batch_id' \in Int /\ last_batch_id' >= last_batch_id
  OBVIOUS
<1> QED BY <1>11, <1>13, <1>14, LineFollows, Zenon

(* Batches with ids after those of a sequence extend it in their order.     *)
LEMMA JoinedAscends ==
    ASSUME NEW p, NEW q, IsSeq(p), IsSeq(q), NEW m \in Int,
           \A i \in DOMAIN p : p[i].id \in Int /\ p[i].id <= m,
           \A i, j \in DOMAIN p : i < j => p[i].id < p[j].id,
           \A k \in 1 .. Len(q) : q[k].id = m + k,
           NEW z, z = p \o q
    PROVE  \A i, j \in DOMAIN z : i < j => z[i].id < z[j].id
<1> DEFINE S == Range(p) \cup Range(q)
<1>1. p \in Seq(S) /\ q \in Seq(S)
  <2>1. /\ p \in Seq(Range(p)) /\ Range(p) \subseteq S
        /\ q \in Seq(Range(q)) /\ Range(q) \subseteq S
    BY DEF IsSeq
  <2> HIDE DEF S
  <2> QED BY <2>1, SeqMonotonic
<1> HIDE DEF S
<1>2. PICK a, b : a = Len(p) /\ b = Len(q)
  OBVIOUS
<1>3. /\ a \in Nat /\ b \in Nat /\ DOMAIN p = 1 .. a
      /\ DOMAIN z = 1 .. a + b
      /\ \A i \in 1 .. a + b : z[i] = IF i <= a THEN p[i] ELSE q[i - a]
  <2>1. a \in Nat /\ b \in Nat /\ DOMAIN p = 1 .. a
    BY <1>2, IsSeqFacts
  <2>2. IsSeq(z) /\ Len(z) = a + b
    BY <1>2, ConcatIsSeq
  <2>3. DOMAIN z = 1 .. a + b
    BY <2>2, IsSeqFacts
  <2> QED BY <1>1, <1>2, <2>1, <2>3, ConcatProperties
<1>4. ASSUME NEW i \in 1 .. a + b, i > a
      PROVE  z[i].id = m + (i - a)
  <2>1. PICK k : k = i - a
    OBVIOUS
  <2>2. k \in 1 .. b /\ z[i] = q[k]
    BY <1>3, <1>4, <2>1
  <2>3. z[i].id = m + k
    BY <1>2, <2>2
  <2> QED BY <2>1, <2>3
<1>5. ASSUME NEW i \in DOMAIN z, NEW j \in DOMAIN z, i < j
      PROVE  z[i].id < z[j].id
  <2>1. i \in 1 .. a + b /\ j \in 1 .. a + b
    BY <1>3
  <2>2. CASE j <= a
    <3>1. i \in DOMAIN p /\ j \in DOMAIN p /\ z[i] = p[i] /\ z[j] = p[j]
      BY <1>3, <1>5, <2>1, <2>2
    <3> QED BY <1>5, <3>1
  <2>3. CASE i <= a /\ j > a
    <3>1. i \in DOMAIN p /\ z[i] = p[i]
      BY <1>3, <2>1, <2>3
    <3>2. z[i].id \in Int /\ z[i].id <= m
      BY <3>1
    <3>3. PICK k : k = j - a
      OBVIOUS
    <3>4. k \in Nat /\ k >= 1
      BY <1>3, <2>1, <2>3, <3>3
    <3>5. z[j].id = m + (j - a)
      BY <1>4, <2>1, <2>3
    <3>6. z[j].id = m + k
      BY <3>3, <3>5
    <3> QED BY <3>2, <3>4, <3>6
  <2>4. CASE i > a
    <3>1. PICK k, l : k = i - a /\ l = j - a
      OBVIOUS
    <3>2. i \in Int /\ j \in Int /\ a \in Int /\ i < j
      BY <1>3, <1>5, <2>1
    <3>3. z[i].id = m + (i - a)
      BY <1>4, <2>1, <2>4
    <3>4. z[j].id = m + (j - a)
      BY <1>4, <2>1, <2>4, <3>2
    <3>5. z[i].id = m + k /\ z[j].id = m + l
      BY <3>1, <3>3, <3>4
    <3>6. k < l /\ k \in Int /\ l \in Int
      BY <3>1, <3>2
    <3> QED BY <3>5, <3>6
  <2> QED BY <1>3, <2>1, <2>2, <2>3, <2>4
<1> QED BY <1>5

(* New batches go behind all others, in the order they were made.           *)
LEMMA NewInLine ==
    ASSUME WakeInv, NEW e, NEW r \in Replicas, e.call.type = "replica_schedule",
           NEW events, Stepped(e, events), NEW bs, IsSeq(bs), Len(events) = Len(bs),
           \A k \in 1 .. Len(bs) :
                /\ CarriesBatch(events[k].call, r) /\ Level(events[k].call) = 0
                /\ events[k].call.batch = bs[k] /\ bs[k].id = last_batch_id + k,
           stage' = stage, NEW z, z = in_flight[r] \o bs, in_flight'[r] = z,
           last_batch_id \in Nat \cup {-1}, last_batch_id' = last_batch_id + Len(bs),
           LineInv(r)
    PROVE  LineInv(r)'
<1>1. /\ HeapInv /\ PartsInv /\ Len(bs) \in Nat /\ last_id \in Nat
      /\ IsSeq(in_flight[r])
  BY IsSeqFacts DEF WakeInv, HeapInv, LineInv
<1> DEFINE New(k) == EventPlace(Fresh(events, k))
<1>2. ASSUME NEW k \in 1 .. Len(bs)
      PROVE  /\ New(k).level = 0 /\ New(k).number = last_id + k /\ New(k).batch = bs[k]
             /\ New(k).batch.id = last_batch_id + k
  <2>1. Fresh(events, k).id = last_id + k /\ Fresh(events, k).call = events[k].call
    BY DEF Fresh
  <2> QED BY <2>1 DEF EventPlace
<1>3. Line(r)' = Line(r) \cup {New(k) : k \in 1 .. Len(bs)}
  <2>1. {i \in 1 .. Len(events) : CarriesBatch(events[i].call, r)} = 1 .. Len(bs)
    OBVIOUS
  <2>2. e \notin BatchEvents(r)
    BY DEF BatchEvents, BatchTypes
  <2>3. BatchEvents(r)' = BatchEvents(r) \cup {Fresh(events, k) : k \in 1 .. Len(bs)}
    BY <2>1, <2>2, NextBatchEvents
  <2>4. Waiting(r)' = Waiting(r)
    BY DEF Waiting, SlotPlace
  <2> QED BY <2>3, <2>4, LineIs
<1> HIDE DEF New
<1>4. ASSUME NEW x \in Line(r)
      PROVE  /\ x.level \in Nat
             /\ x.level = 0 => (x.number \in Nat /\ x.number <= last_id)
             /\ x.batch.id \in Nat /\ x.batch.id <= last_batch_id
  <2>1. x.batch \in Range(in_flight[r])
    BY DEF LineInv
  <2>2. x.batch.id \in Nat /\ x.batch.id <= last_batch_id
    BY <2>1 DEF LineInv
  <2>3. CASE \E f \in BatchEvents(r) : x = EventPlace(f)
    <3>1. PICK f \in BatchEvents(r) : x = EventPlace(f)
      BY <2>3
    <3>2. /\ x.number = f.id /\ x.level \in Nat /\ f.id \in Nat /\ f.id <= last_id
      BY <1>1, <3>1, EventPlaceFacts
    <3> QED BY <2>2, <3>2
  <2>4. CASE x \in Waiting(r)
    <3>1. PICK t \in Stages : \E k \in DOMAIN stage[r][t].batch_queue : x = SlotPlace(r, t, k)
      BY <2>4 DEF Waiting
    <3>2. PICK k \in DOMAIN stage[r][t].batch_queue : x = SlotPlace(r, t, k)
      BY <3>1
    <3>3. x.level = 3 * t + 1 /\ t \in Nat
      BY <1>1, <3>2, SlotPlaceFacts
    <3> QED BY <2>2, <3>3
  <2> QED BY <2>3, <2>4, LineIs
<1>5. ASSUME NEW x \in Line(r)', NEW y \in Line(r)', Ahead(x, y)
      PROVE  x.batch.id < y.batch.id
  <2>1. CASE x \in Line(r) /\ y \in Line(r)
    BY <1>5, <2>1 DEF LineInv, InOrder
  <2>2. CASE x \in Line(r) /\ \E k \in 1 .. Len(bs) : y = New(k)
    <3>1. PICK k \in 1 .. Len(bs) : y = New(k)
      BY <2>2
    <3>2. x.batch.id \in Nat /\ x.batch.id <= last_batch_id /\ y.batch.id = last_batch_id + k
      BY <1>2, <1>4, <2>2, <3>1
    <3> QED BY <1>1, <3>2
  <2>3. CASE y \in Line(r) /\ \E k \in 1 .. Len(bs) : x = New(k)
    <3>1. PICK k \in 1 .. Len(bs) : x = New(k)
      BY <2>3
    <3>2. /\ x.level = 0 /\ x.number = last_id + k /\ y.level \in Nat
          /\ y.level = 0 => (y.number \in Nat /\ y.number <= last_id)
      BY <1>2, <1>4, <2>3, <3>1
    <3> QED BY <1>1, <1>5, <3>2 DEF Ahead
  <2>4. CASE /\ \E k \in 1 .. Len(bs) : x = New(k)
             /\ \E k \in 1 .. Len(bs) : y = New(k)
    <3>1. PICK k \in 1 .. Len(bs) : x = New(k)
      BY <2>4
    <3>2. PICK l \in 1 .. Len(bs) : y = New(l)
      BY <2>4
    <3>3. k < l
      BY <1>1, <1>2, <1>5, <3>1, <3>2 DEF Ahead
    <3> QED BY <1>2, <3>1, <3>2, <3>3
  <2> QED BY <1>3, <2>1, <2>2, <2>3, <2>4
<1>6. /\ IsSeq(z) /\ Range(z) = Range(in_flight[r]) \cup Range(bs)
  BY <1>1, ConcatIsSeq
<1>7. Range(bs) = {bs[k] : k \in 1 .. Len(bs)}
  BY IsSeqFacts
<1>8. Range(z) = {x.batch : x \in Line(r)'}
  BY <1>2, <1>3, <1>6, <1>7 DEF LineInv
<1>9. ASSUME NEW b \in Range(z) PROVE b.id \in Nat /\ b.id <= last_batch_id'
  <2>1. CASE b \in Range(in_flight[r])
    <3>1. b.id \in Nat /\ b.id <= last_batch_id
      BY <2>1 DEF LineInv
    <3> QED BY <1>1, <3>1
  <2>2. CASE b \in Range(bs)
    <3>1. PICK k \in 1 .. Len(bs) : b.id = last_batch_id + k
      BY <1>7, <2>2
    <3> QED BY <1>1, <3>1
  <2> QED BY <1>6, <2>1, <2>2
<1>10. \A i, j \in DOMAIN z : i < j => z[i].id < z[j].id
  <2>1. \A i \in DOMAIN in_flight[r] :
            in_flight[r][i].id \in Int /\ in_flight[r][i].id <= last_batch_id
    <3>1. \A i \in DOMAIN in_flight[r] : in_flight[r][i] \in Range(in_flight[r])
      BY <1>1, IsSeqFacts
    <3> QED BY <3>1 DEF LineInv
  <2>2. \A i, j \in DOMAIN in_flight[r] : i < j => in_flight[r][i].id < in_flight[r][j].id
    BY DEF LineInv
  <2>3. \A k \in 1 .. Len(bs) : bs[k].id = last_batch_id + k
    OBVIOUS
  <2>4. last_batch_id \in Int
    OBVIOUS
  <2> QED BY <1>1, <2>1, <2>2, <2>3, <2>4, JoinedAscends
<1>11. InOrder(Line(r))'
  BY <1>5 DEF InOrder
<1> QED BY <1>6, <1>8, <1>9, <1>10, <1>11 DEF LineInv

(* The call for a batch that has left the last stage.                       *)
IsEnd(c, r, b) == c.type = "batch_end" /\ c.replica = r /\ c.batch = b

(* The places of a pipeline but that of one event.                          *)
Others(r, e) == {EventPlace(f) : f \in BatchEvents(r) \ {e}} \cup Waiting(r)

(* The batch that has left the last stage is ahead of all the others: it is *)
(* the first of those in flight.                                            *)
LEMMA EndIsFirst ==
    ASSUME HeapInv, PartsInv, NEW r \in Replicas, LineInv(r), EndInv(r),
           NEW e \in BatchEvents(r), NEW b, IsEnd(e.call, r, b)
    PROVE  /\ Line(r) = Others(r, e) \cup {EventPlace(e)}
           /\ in_flight[r] # <<>> /\ b = in_flight[r][1]
           /\ \A x \in Others(r, e) : x.batch # b
<1> DEFINE rest == Others(r, e)
<1>1. PICK p : p = EventPlace(e)
  OBVIOUS
<1>2. p.level = 3 * NumStages /\ p.batch = b /\ NumStages \in Nat
  BY <1>1, EventPlaceFacts DEF IsEnd
<1>3. Line(r) = rest \cup {p}
  BY <1>1, LineIs DEF Others
<1>4. ASSUME NEW x \in rest PROVE x.level \in Nat /\ x.level < 3 * NumStages
  <2>1. CASE \E f \in BatchEvents(r) \ {e} : x = EventPlace(f)
    <3>1. PICK f \in BatchEvents(r) \ {e} : x = EventPlace(f)
      BY <2>1
    <3>2. /\ x.level \in Nat
          /\ f \in event_queue /\ f.call.type \in BatchTypes /\ f.call.replica = r
          /\ f.call.type \in {"batch_stage_arrival", "batch_stage_end"} =>
                f.call.stage \in Nat /\ f.call.stage < NumStages
          /\ f.call.type = "batch_stage_arrival" => x.level = 3 * f.call.stage
          /\ f.call.type = "batch_stage_end" => x.level = 3 * f.call.stage + 2
      BY <3>1, EventPlaceFacts
    <3>3. f.call.type # "batch_end"
      <4>1. e \in event_queue /\ e.call.replica = r /\ e.call.type = "batch_end"
        BY DEF BatchEvents, IsEnd
      <4>2. f.call.type = "batch_end" => e \in Ending(r) /\ f \in Ending(r)
        BY <3>2, <4>1 DEF Ending, CallsOf, Calls
      <4> QED BY <3>1, <4>2 DEF EndInv
    <3>4. CASE f.call.type = "batch_stage_arrival"
      BY <1>2, <3>2, <3>4
    <3>5. CASE f.call.type = "batch_stage_end"
      BY <1>2, <3>2, <3>5
    <3> QED BY <3>2, <3>3, <3>4, <3>5 DEF BatchTypes
  <2>2. CASE x \in Waiting(r)
    <3>1. PICK t \in Stages : \E k \in DOMAIN stage[r][t].batch_queue : x = SlotPlace(r, t, k)
      BY <2>2 DEF Waiting
    <3>2. PICK k \in DOMAIN stage[r][t].batch_queue : x = SlotPlace(r, t, k)
      BY <3>1
    <3>3. x.level = 3 * t + 1 /\ t \in Nat /\ t < NumStages
      BY <3>2, SlotPlaceFacts
    <3> QED BY <1>2, <3>3
  <2> QED BY <2>1, <2>2 DEF Others
<1> HIDE DEF rest
<1>5. ASSUME NEW x \in rest PROVE b.id < x.batch.id
  <2>1. Ahead(p, x)
    BY <1>2, <1>4 DEF Ahead
  <2> QED BY <1>2, <1>3, <2>1 DEF LineInv, InOrder
<1>6. PICK q : q = in_flight[r]
  OBVIOUS
<1>7. /\ IsSeq(q) /\ Range(q) = {x.batch : x \in Line(r)}
      /\ \A i, j \in DOMAIN q : i < j => q[i].id < q[j].id
      /\ \A c \in Range(q) : c.id \in Nat
  BY <1>6 DEF LineInv
<1>8. b \in Range(q)
  BY <1>2, <1>3, <1>7
<1>9. /\ q # <<>> /\ Len(q) \in Nat \ {0} /\ DOMAIN q = 1 .. Len(q)
      /\ q[1] \in Range(q) /\ Range(q) = {q[i] : i \in 1 .. Len(q)}
  <2>1. /\ Len(q) \in Nat /\ DOMAIN q = 1 .. Len(q)
        /\ Range(q) = {q[i] : i \in 1 .. Len(q)}
        /\ \A i \in 1 .. Len(q) : q[i] \in Range(q)
        /\ (q = <<>> <=> Len(q) = 0)
    BY <1>7, IsSeqFacts
  <2>2. Len(q) # 0
    BY <1>8, <2>1
  <2>3. 1 \in 1 .. Len(q)
    BY <2>1, <2>2
  <2> QED BY <2>1, <2>2, <2>3
<1>10. b.id \in Nat /\ q[1].id \in Nat
  BY <1>7, <1>8, <1>9
<1>11. b = q[1]
  <2> SUFFICES ASSUME b # q[1] PROVE FALSE
    OBVIOUS
  <2>1. PICK x \in Line(r) : q[1] = x.batch
    BY <1>7, <1>9
  <2>2. b.id < q[1].id
    BY <1>2, <1>3, <1>5, <2>1
  <2>3. PICK i \in 1 .. Len(q) : b = q[i]
    BY <1>8, <1>9
  <2>4. 1 < i
    BY <1>9, <2>3
  <2>5. q[1].id < b.id
    BY <1>7, <1>9, <2>3, <2>4
  <2> QED BY <1>10, <2>2, <2>5
<1>12. \A x \in rest : x.batch # b
  BY <1>5, <1>10
<1> QED BY <1>1, <1>3, <1>6, <1>9, <1>11, <1>12 DEF rest

(* The first batch in flight leaves the pipeline.                           *)
LEMMA LastInLine ==
    ASSUME WakeInv, NEW r \in Replicas, LineInv(r), EndInv(r),
           NEW e, NEW b, IsEnd(e.call, r, b), NEW events, Stepped(e, events),
           \A x \in Range(events) : ~CarriesBatch(x.call, r), stage' = stage,
           NEW z, z = Without(in_flight[r], {b}), in_flight'[r] = z,
           last_batch_id' = last_batch_id
    PROVE  LineInv(r)'
<1>1. HeapInv /\ PartsInv
  BY DEF WakeInv
<1>2. e \in BatchEvents(r)
  BY DEF BatchEvents, BatchTypes, Stepped, Iterated, IsEnd
<1>3. PICK rest : rest = Others(r, e)
  OBVIOUS
<1>4. PICK q : q = in_flight[r]
  OBVIOUS
<1>5. /\ Line(r) = rest \cup {EventPlace(e)}
      /\ q # <<>> /\ b = q[1] /\ \A x \in rest : x.batch # b
  BY <1>1, <1>2, <1>3, <1>4, EndIsFirst
<1>6. Line(r)' = rest
  <2>1. {i \in 1 .. Len(events) : CarriesBatch(events[i].call, r)} = {}
    BY IsSeqFacts DEF Stepped, Iterated
  <2>2. BatchEvents(r)' = BatchEvents(r) \ {e}
    BY <2>1, NextBatchEvents
  <2>3. Waiting(r)' = Waiting(r)
    BY DEF Waiting, SlotPlace
  <2> QED BY <1>3, <2>2, <2>3, LineIs DEF Others
<1>7. /\ IsSeq(q) /\ Range(q) = {x.batch : x \in Line(r)}
      /\ \A c \in Range(q) : c.id \in Nat /\ c.id <= last_batch_id
      /\ \A i, j \in DOMAIN q : i < j => q[i].id < q[j].id
  BY <1>4 DEF LineInv
<1>8. Len(q) \in Nat \ {0} /\ DOMAIN q = 1 .. Len(q)
  BY <1>5, <1>7, IsSeqFacts
<1>9. IsSeq(z) /\ Range(z) = Range(q) \ {b}
  BY <1>4, <1>7, WithoutFacts
<1>10. DOMAIN z = 1 .. Len(q) - 1 /\ \A i \in 1 .. Len(q) - 1 : z[i] = q[i + 1]
  <2>1. \A i \in 2 .. Len(q) : q[i] # b
    <3> TAKE i \in 2 .. Len(q)
    <3>1. 1 \in DOMAIN q /\ i \in DOMAIN q /\ 1 < i
      BY <1>8
    <3>2. q[1].id < q[i].id /\ q[1] \in Range(q)
      BY <1>7, <1>8, <3>1, IsSeqFacts
    <3>3. q[1].id \in Nat
      BY <1>7, <3>2
    <3> QED BY <1>5, <3>2, <3>3
  <2>2. Len(z) = Len(q) - 1 /\ \A i \in 1 .. Len(q) - 1 : z[i] = q[i + 1]
    BY <1>4, <1>5, <1>7, <2>1, WithoutHead
  <2> QED BY <1>9, <2>2, IsSeqFacts
<1>11. Range(z) = {x.batch : x \in Line(r)'}
  <2>1. EventPlace(e).batch = b
    BY DEF EventPlace, IsEnd
  <2> QED BY <1>5, <1>6, <1>7, <1>9, <2>1
<1>12. \A i, j \in DOMAIN z : i < j => z[i].id < z[j].id
  <2> TAKE i, j \in DOMAIN z
  <2> HAVE i < j
  <2>1. PICK k, l : k = i + 1 /\ l = j + 1
    OBVIOUS
  <2>2. k \in DOMAIN q /\ l \in DOMAIN q /\ k < l
    BY <1>8, <1>10, <2>1
  <2>3. q[k].id < q[l].id
    BY <1>7, <2>2
  <2>4. z[i] = q[k] /\ z[j] = q[l]
    BY <1>10, <2>1
  <2> QED BY <2>3, <2>4
<1>13. InOrder(Line(r))'
  <2>1. \A x, y \in rest : Ahead(x, y) => x.batch.id < y.batch.id
    BY <1>5 DEF LineInv, InOrder
  <2> QED BY <1>6, <2>1 DEF InOrder
<1> QED BY <1>7, <1>9, <1>11, <1>12, <1>13 DEF LineInv

(* What an event does not touch.                                            *)
LEMMA RestKept ==
    ASSUME FifoInv, NEW e, NEW events, Stepped(e, events), NEW r \in Replicas,
           ~CarriesBatch(e.call, r), in_flight'[r] = in_flight[r],
           \A s \in Stages : stage'[r][s].batch_queue = stage[r][s].batch_queue,
           last_batch_id' \in Int, last_batch_id' >= last_batch_id,
           \A x \in Range(events) : /\ ~CarriesBatch(x.call, r) /\ ~Ends(x.call, r)
                                    /\ ~Brings(x.call, r) /\ x.call.type # "request_arrival",
           e.call.type = "request_arrival" \/ global_queue' \in {global_queue, <<>>}
    PROVE  LineInv(r)' /\ EndInv(r)' /\ PlacedInv(r)'
<1>1. /\ DueInv /\ LineInv(r) /\ EndInv(r) /\ PlacedInv(r) /\ last_batch_id \in Int
  BY DEF FifoInv
<1>2. LineInv(r)'
  BY <1>1, LineKept
<1>3. \A x \in Range(events) : ~EndsStage(x.call, r, NumStages - 1)
  BY DEF CarriesBatch, EndsStage, BatchTypes
<1>4. EndInv(r)'
  BY <1>1, <1>3, EndKept
<1>5. PlacedInv(r)'
  BY <1>1, PlacedKept
<1> QED BY <1>2, <1>4, <1>5

(* RequestArrivalEvent. *)
LEMMA ArrivalKeepsOrder == FifoInv /\ RequestArrival => FifoInv'
<1> SUFFICES ASSUME FifoInv, RequestArrival PROVE FifoInv'
  OBVIOUS
<1>1. WakeInv' /\ WakeInv /\ DueInv /\ HeapInv /\ Punctual
  BY ArrivalKeeps DEF FifoInv, WakeInv
<1>2. PICK e \in Popped("request_arrival") :
        /\ Handled(e, <<At(e.time, [type |-> "global_schedule"])>>)
        /\ UNCHANGED <<stage, last_batch_id, history>>
  BY DEF RequestArrival
<1>3. PICK x : x = At(e.time, [type |-> "global_schedule"])
  OBVIOUS
<1>4. PICK events : events = <<x>>
  OBVIOUS
<1>5. e.call.type = "request_arrival" /\ x.time = e.time /\ x.call.type = "global_schedule"
      /\ e.time \in Nat /\ CallInv(x.call)
  BY <1>1, <1>3 DEF At, Popped, HeapInv, CallInv, BatchTypes, StageTypes
<1>6. IsSeq(events) /\ Range(events) = {x}
  BY <1>4, FewEvents
<1>7. Stepped(e, events)
  <2>1. \A y \in Range(events) : Timely(e, y)
    BY <1>5, <1>6 DEF Timely
  <2>2. Handled(e, events)
    BY <1>2, <1>3, <1>4
  <2> QED BY <1>1, <1>6, <2>1, <2>2, HandledSteps
<1>8. DueInv'
  BY <1>1, <1>5, <1>6, <1>7, DueKept
<1>9. /\ in_flight' = in_flight /\ stage' = stage /\ last_batch_id' = last_batch_id
      /\ last_batch_id \in Nat \cup {-1} /\ DOMAIN in_flight = Replicas
  BY <1>2 DEF history, FifoInv
<1>10. ASSUME NEW r \in Replicas PROVE LineInv(r)' /\ EndInv(r)' /\ PlacedInv(r)'
  <2>1. ~CarriesBatch(e.call, r)
    BY <1>5 DEF CarriesBatch, BatchTypes
  <2>2. \A y \in Range(events) : /\ ~CarriesBatch(y.call, r) /\ ~Ends(y.call, r)
                                 /\ ~Brings(y.call, r) /\ y.call.type # "request_arrival"
    BY <1>5, <1>6 DEF CarriesBatch, BatchTypes, Ends, Brings
  <2>3. last_batch_id' \in Int /\ last_batch_id' >= last_batch_id
    BY <1>9
  <2> QED BY <1>5, <1>7, <1>9, <2>1, <2>2, <2>3, RestKept
<1> QED BY <1>1, <1>8, <1>9, <1>10 DEF FifoInv

(* BatchStageArrivalEvent: the batch goes behind those that wait. *)
LEMMA StageArrivalKeepsOrder == FifoInv /\ BatchStageArrival => FifoInv'
<1> SUFFICES ASSUME FifoInv, BatchStageArrival PROVE FifoInv'
  OBVIOUS
<1>1. WakeInv' /\ WakeInv /\ DueInv /\ HeapInv /\ PartsInv /\ Punctual
  BY StageArrivalKeeps DEF FifoInv, WakeInv
<1>2. PICK e \in Popped("batch_stage_arrival") :
        /\ stage' = Put(e.call.replica, e.call.stage,
                        AddBatch(stage[e.call.replica][e.call.stage], e.call.batch))
        /\ Handled(e, <<At(e.time, [type |-> "replica_stage_schedule",
                                    replica |-> e.call.replica, stage |-> e.call.stage])>>)
        /\ UNCHANGED <<global, last_batch_id, history>>
  BY DEF BatchStageArrival, Put
<1>3. PICK r, s, b : r = e.call.replica /\ s = e.call.stage /\ b = e.call.batch
  OBVIOUS
<1>4. PICK x : x = At(e.time, [type |-> "replica_stage_schedule", replica |-> r, stage |-> s])
  OBVIOUS
<1>5. PICK events : events = <<x>>
  OBVIOUS
<1>6. /\ e.call.type = "batch_stage_arrival" /\ IsCall(e.call, "batch_stage_arrival", r, s, b)
      /\ r \in Replicas /\ s \in Stages /\ e.time \in Nat
      /\ x.time = e.time /\ WakesStage(x.call, r, s) /\ CallInv(x.call)
  <2>1. /\ e.call.type = "batch_stage_arrival" /\ e.time \in Nat
        /\ r \in Replicas /\ s \in Stages
    BY <1>1, <1>3 DEF Popped, HeapInv, CallInv, BatchTypes, StageTypes
  <2> QED BY <1>3, <1>4, <2>1 DEF IsCall, At, WakesStage, CallInv, BatchTypes, StageTypes
<1>7. IsSeq(events) /\ Range(events) = {x}
  BY <1>5, FewEvents
<1>8. Stepped(e, events)
  <2>1. \A y \in Range(events) : Timely(e, y)
    BY <1>6, <1>7 DEF Timely
  <2>2. Handled(e, events)
    BY <1>2, <1>3, <1>4, <1>5
  <2> QED BY <1>1, <1>7, <2>1, <2>2, HandledSteps
<1>9. ASSUME NEW q \in Replicas, NEW y \in Range(events)
      PROVE  /\ ~CarriesBatch(y.call, q) /\ ~Ends(y.call, q) /\ ~Brings(y.call, q)
             /\ ~EndsStage(y.call, q, NumStages - 1)
             /\ y.call.type # "request_arrival" /\ y.time = e.time
  BY <1>6, <1>7 DEF CarriesBatch, BatchTypes, Ends, Brings, EndsStage, WakesStage
<1>10. DueInv'
  BY <1>1, <1>6, <1>8, <1>9, DueKept
<1>11. /\ in_flight' = in_flight /\ last_batch_id' = last_batch_id
       /\ global_queue' = global_queue
       /\ last_batch_id \in Nat \cup {-1} /\ DOMAIN in_flight = Replicas
  BY <1>2 DEF history, global, FifoInv
<1>12. last_batch_id' \in Int /\ last_batch_id \in Int /\ last_batch_id' >= last_batch_id
  BY <1>11
<1>13. PICK v : v = AddBatch(stage[r][s], b)
  OBVIOUS
<1>14. stage' = Put(r, s, v)
  BY <1>2, <1>3, <1>13
<1>15. ASSUME NEW q \in Replicas PROVE LineInv(q)' /\ EndInv(q)' /\ PlacedInv(q)'
  <2>1. LineInv(q) /\ EndInv(q) /\ PlacedInv(q)
    BY DEF FifoInv
  <2>2. CASE q = r
    <3>1. LineInv(r)'
      BY <1>1, <1>6, <1>8, <1>9, <1>11, <1>12, <1>13, <1>14, <2>1, <2>2, ArrivalInLine
    <3>2. EndInv(q)'
      BY <1>1, <1>8, <1>9, <2>1, EndKept
    <3>3. PlacedInv(q)'
      BY <1>1, <1>8, <1>9, <1>11, <2>1, PlacedKept
    <3> QED BY <2>2, <3>1, <3>2, <3>3
  <2>3. CASE q # r
    <3>1. \A t \in Stages : stage'[q][t].batch_queue = stage[q][t].batch_queue
      BY <1>1, <1>6, <1>14, <2>3, PutFacts
    <3>2. ~CarriesBatch(e.call, q)
      BY <1>6, <2>3 DEF CarriesBatch, IsCall
    <3> QED BY <1>8, <1>9, <1>11, <1>12, <3>1, <3>2, RestKept
  <2> QED BY <2>2, <2>3
<1> QED BY <1>1, <1>10, <1>11, <1>15 DEF FifoInv

(* ReplicaStageScheduleEvent, when the stage has nothing to do.             *)
LEMMA IgnoredKeepsOrder ==
    ASSUME FifoInv, WakeInv', NEW e \in Popped("replica_stage_schedule"), Handled(e, <<>>),
           UNCHANGED <<global, stage, last_batch_id, history>>
    PROVE  FifoInv'
<1>1. WakeInv /\ DueInv /\ HeapInv /\ Punctual
  BY DEF FifoInv, WakeInv
<1>2. PICK events : events = <<>>
  OBVIOUS
<1>3. IsSeq(events) /\ Range(events) = {}
  BY <1>2, FewEvents
<1>4. Stepped(e, events)
  <2>1. \A y \in Range(events) : Timely(e, y)
    BY <1>3
  <2>2. Handled(e, events)
    BY <1>2
  <2> QED BY <1>1, <1>3, <2>1, <2>2, HandledSteps
<1>5. DueInv'
  BY <1>1, <1>3, <1>4, DueKept
<1>6. /\ in_flight' = in_flight /\ last_batch_id' = last_batch_id
      /\ global_queue' = global_queue /\ stage' = stage
      /\ last_batch_id \in Nat \cup {-1} /\ DOMAIN in_flight = Replicas
  BY DEF history, global, FifoInv
<1>7. ASSUME NEW q \in Replicas PROVE LineInv(q)' /\ EndInv(q)' /\ PlacedInv(q)'
  <2>1. ~CarriesBatch(e.call, q)
    BY DEF Popped, CarriesBatch, BatchTypes
  <2>2. last_batch_id' \in Int /\ last_batch_id' >= last_batch_id
    BY <1>6
  <2> QED BY <1>3, <1>4, <1>6, <2>1, <2>2, RestKept
<1> QED BY <1>5, <1>6, <1>7 DEF FifoInv

(* When it takes the first batch of its queue.                              *)
LEMMA StartKeepsOrder ==
    ASSUME FifoInv, WakeInv', NEW e \in Popped("replica_stage_schedule"),
           NEW r, NEW s, WakesStage(e.call, r, s),
           NEW b, b = Head(stage[r][s].batch_queue), CanStart(stage[r][s]),
           stage' = Put(r, s, Started(stage[r][s])),
           UNCHANGED <<global, last_batch_id, in_flight>>,
           NEW d \in ExecutionTimes,
           Handled(e, <<At(e.time + d,
               [type |-> "batch_stage_end", replica |-> r, stage |-> s, batch |-> b,
                execution_time |-> d])>>)
    PROVE  FifoInv'
<1>1. /\ WakeInv /\ DueInv /\ HeapInv /\ PartsInv /\ Punctual
      /\ e.time \in Nat /\ e.call.type = "replica_stage_schedule"
      /\ r \in Replicas /\ s \in Stages /\ d \in Nat \ {0}
  BY SimulatorAssumption
     DEF FifoInv, WakeInv, Popped, HeapInv, CallInv, BatchTypes, StageTypes, WakesStage
<1>2. PICK q : q = stage[r][s].batch_queue
  OBVIOUS
<1>3. IsSeq(q) /\ q # <<>> /\ stage[r][s].busy = FALSE /\ StageInv(stage[r][s])
  BY <1>1, <1>2 DEF PartsInv, StageInv, CanStart
<1>4. PICK p : p = Tail(q)
  OBVIOUS
<1>5. /\ b = q[1] /\ DOMAIN p = 1 .. Len(q) - 1
      /\ \A i \in 1 .. Len(q) - 1 : p[i] = q[i + 1]
      /\ b \in Range(q)
  <2>1. q \in Seq(Range(q))
    BY <1>3 DEF IsSeq
  <2>2. /\ Tail(q) \in Seq(Range(q)) /\ Len(Tail(q)) = Len(q) - 1
        /\ \A i \in 1 .. Len(q) - 1 : Tail(q)[i] = q[i + 1]
        /\ Head(q) \in Range(q)
    BY <1>3, <2>1, HeadTailProperties
  <2>3. DOMAIN p = 1 .. Len(p)
    BY <1>4, <2>2, LenProperties
  <2>4. Head(q) = q[1]
    BY <1>3, <2>1
  <2> QED BY <1>2, <1>4, <2>2, <2>3, <2>4
<1>6. PICK x : x = At(e.time + d,
               [type |-> "batch_stage_end", replica |-> r, stage |-> s, batch |-> b,
                execution_time |-> d])
  OBVIOUS
<1>7. PICK events : events = <<x>>
  OBVIOUS
<1>8. /\ x.time = e.time + d /\ x.time > e.time /\ EndsStage(x.call, r, s)
      /\ x.call.batch = b /\ CallInv(x.call)
  <2>1. IsSeq(b.entries)
    BY <1>2, <1>3, <1>5 DEF StageInv
  <2>2. x.time = e.time + d /\ x.time > e.time
    BY <1>1, <1>6 DEF At
  <2> QED BY <1>1, <1>6, <2>1, <2>2 DEF At, EndsStage, CallInv, BatchTypes, StageTypes
<1>9. IsSeq(events) /\ Range(events) = {x} /\ Len(events) = 1 /\ events[1] = x
  BY <1>7, FewEvents
<1>10. Stepped(e, events)
  <2>1. \A y \in Range(events) : Timely(e, y)
    BY <1>1, <1>8, <1>9 DEF Timely
  <2>2. Handled(e, events)
    BY <1>6, <1>7
  <2> QED BY <1>1, <1>9, <2>1, <2>2, HandledSteps
<1>11. ASSUME NEW t \in Replicas, NEW y \in Range(events)
       PROVE  /\ ~Ends(y.call, t) /\ ~Brings(y.call, t) /\ ~Prompt(y.call)
              /\ y.time > e.time /\ y.call.type # "request_arrival"
              /\ t # r => ~CarriesBatch(y.call, t)
  BY <1>8, <1>9 DEF CarriesBatch, Ends, Brings, EndsStage, Prompt
<1>12. DueInv'
  BY <1>1, <1>10, <1>11, DueKept
<1>13. /\ in_flight' = in_flight /\ last_batch_id' = last_batch_id
       /\ global_queue' = global_queue
       /\ last_batch_id \in Nat \cup {-1} /\ DOMAIN in_flight = Replicas
  BY DEF global, FifoInv
<1>14. last_batch_id' \in Int /\ last_batch_id \in Int /\ last_batch_id' >= last_batch_id
  BY <1>13
<1>15. PICK v : v = Started(stage[r][s])
  OBVIOUS
<1>16. /\ stage'[r][s] = v /\ v.batch_queue = p
       /\ \A t \in Replicas \ {r} : stage'[t] = stage[t]
       /\ \A t \in Stages \ {s} : stage'[r][t] = stage[r][t]
  <2>1. stage' = Put(r, s, v) /\ v.batch_queue = p
    BY <1>2, <1>4, <1>15 DEF Started
  <2> QED BY <1>1, <2>1, PutFacts
<1>17. ASSUME NEW t \in Replicas PROVE LineInv(t)' /\ EndInv(t)' /\ PlacedInv(t)'
  <2>1. LineInv(t) /\ EndInv(t) /\ PlacedInv(t)
    BY DEF FifoInv
  <2>2. CASE t = r
    <3>1. CallsAt("batch_stage_end", r, s) = {}
      BY <1>1, <1>3 DEF WakeInv, BusyAt
    <3>2. p = stage'[r][s].batch_queue
      BY <1>16
    <3>3. Starting(r, s, events[1].call.batch)
      BY <1>2, <1>3, <1>5, <1>8, <1>9, <1>16, <3>2 DEF Starting
    <3>7. /\ EndsStage(events[1].call, r, s) /\ LineInv(r) /\ in_flight'[r] = in_flight[r]
          /\ last_batch_id' = last_batch_id
      BY <1>8, <1>9, <1>13, <2>1, <2>2
    <3>6. LineInv(r)'
      BY <1>1, <1>9, <1>10, <1>14, <3>1, <3>3, <3>7, StartInLine
    <3>4. EndInv(t)'
      BY <1>1, <1>10, <1>11, <2>1, EndKept
    <3>5. PlacedInv(t)'
      BY <1>1, <1>10, <1>11, <1>13, <2>1, PlacedKept
    <3> QED BY <2>2, <3>4, <3>5, <3>6
  <2>3. CASE t # r
    <3>1. ~CarriesBatch(e.call, t)
      BY <1>1 DEF CarriesBatch, BatchTypes
    <3>2. \A u \in Stages : stage'[t][u].batch_queue = stage[t][u].batch_queue
      BY <1>16, <2>3
    <3> QED BY <1>10, <1>11, <1>13, <1>14, <2>3, <3>1, <3>2, RestKept
  <2> QED BY <2>2, <2>3
<1> QED BY <1>12, <1>13, <1>17 DEF FifoInv

(* ReplicaStageScheduleEvent. *)
LEMMA StageScheduleKeepsOrder == FifoInv /\ ReplicaStageSchedule => FifoInv'
<1> SUFFICES ASSUME FifoInv, ReplicaStageSchedule PROVE FifoInv'
  OBVIOUS
<1>1. WakeInv'
  BY StageScheduleKeeps DEF FifoInv
<1>2. PICK e \in Popped("replica_stage_schedule") :
        LET here == stage[e.call.replica][e.call.stage]
            b == Head(here.batch_queue)
        IN  \/ /\ ~CanStart(here)
               /\ Handled(e, <<>>)
               /\ UNCHANGED <<global, stage, last_batch_id, history>>
            \/ /\ CanStart(here)
               /\ stage' = [stage EXCEPT ![e.call.replica][e.call.stage] = Started(@)]
               /\ \E t \in ExecutionTimes :
                    Handled(e, <<At(e.time + t,
                        [type |-> "batch_stage_end", replica |-> e.call.replica,
                         stage |-> e.call.stage, batch |-> b, execution_time |-> t])>>)
               /\ UNCHANGED <<global, last_batch_id, in_flight>>
  BY DEF ReplicaStageSchedule
<1>3. PICK r, s, b : /\ r = e.call.replica /\ s = e.call.stage
                     /\ b = Head(stage[r][s].batch_queue)
  OBVIOUS
<1>4. CASE ~CanStart(stage[r][s])
  BY <1>1, <1>2, <1>3, <1>4, IgnoredKeepsOrder
<1>5. CASE CanStart(stage[r][s])
  <2>1. PICK d \in ExecutionTimes :
            Handled(e, <<At(e.time + d,
                [type |-> "batch_stage_end", replica |-> r, stage |-> s, batch |-> b,
                 execution_time |-> d])>>)
    BY <1>2, <1>3, <1>5
  <2>2. stage' = Put(r, s, Started(stage[r][s])) /\ UNCHANGED <<global, last_batch_id, in_flight>>
    BY <1>2, <1>3, <1>5 DEF Put
  <2>3. WakesStage(e.call, r, s)
    BY <1>3 DEF WakesStage, Popped
  <2> QED BY <1>1, <1>3, <1>5, <2>1, <2>2, <2>3, StartKeepsOrder
<1> QED BY <1>4, <1>5

(* BatchStageEndEvent: the batch goes on its way. *)
LEMMA StageEndKeepsOrder == FifoInv /\ BatchStageEnd => FifoInv'
<1> SUFFICES ASSUME FifoInv, BatchStageEnd PROVE FifoInv'
  OBVIOUS
<1>1. WakeInv' /\ WakeInv /\ DueInv /\ HeapInv /\ PartsInv /\ Punctual
  BY StageEndKeeps DEF FifoInv, WakeInv
<1> DEFINE Again(e) == At(e.time, [type |-> "replica_stage_schedule",
                                   replica |-> e.call.replica, stage |-> e.call.stage])
           Onward(e) == IF e.call.stage = NumStages - 1
                      THEN At(e.time, [type |-> "batch_end", replica |-> e.call.replica,
                                       batch |-> e.call.batch])
                      ELSE At(e.time, [type |-> "batch_stage_arrival",
                                       replica |-> e.call.replica,
                                       stage |-> e.call.stage + 1,
                                       batch |-> e.call.batch])
<1>2. PICK e \in Popped("batch_stage_end") :
        /\ stage' = Put(e.call.replica, e.call.stage,
                        OnStageEnd(stage[e.call.replica][e.call.stage]))
        /\ Handled(e, <<Again(e), Onward(e)>>)
        /\ UNCHANGED <<global, last_batch_id, history>>
  BY DEF BatchStageEnd, Put
<1>3. PICK r, s, b : r = e.call.replica /\ s = e.call.stage /\ b = e.call.batch
  OBVIOUS
<1>4. /\ IsCall(e.call, "batch_stage_end", r, s, b) /\ EndsStage(e.call, r, s)
      /\ e.time \in Nat /\ r \in Replicas /\ s \in Stages /\ IsSeq(b.entries)
      /\ e \in event_queue /\ ~Prompt(e.call)
  <2>1. /\ e.call.type = "batch_stage_end" /\ e \in event_queue
        /\ r \in Replicas /\ s \in Stages /\ IsSeq(b.entries) /\ e.time \in Nat
    BY <1>1, <1>3 DEF Popped, HeapInv, CallInv, BatchTypes, StageTypes
  <2> QED BY <1>3, <2>1 DEF IsCall, EndsStage, Prompt
<1>5. PICK x, y : x = Again(e) /\ y = Onward(e)
  OBVIOUS
<1>6. x.time = e.time /\ WakesStage(x.call, r, s) /\ CallInv(x.call)
  BY <1>3, <1>4, <1>5 DEF At, WakesStage, CallInv, BatchTypes, StageTypes
<1>7. /\ y.time = e.time /\ CarriesBatch(y.call, r) /\ y.call.batch = b /\ CallInv(y.call)
      /\ Level(y.call) = 3 * s + 3
      /\ y.call.type = IF s = NumStages - 1 THEN "batch_end" ELSE "batch_stage_arrival"
  <2>1. s \in Nat /\ NumStages \in Nat
    BY <1>4, SimulatorAssumption DEF Stages
  <2>2. CASE s = NumStages - 1
    <3>1. y = At(e.time, [type |-> "batch_end", replica |-> r, batch |-> b])
      BY <1>3, <1>5, <2>2
    <3>2. /\ y.time = e.time /\ y.call.type = "batch_end" /\ y.call.replica = r
          /\ y.call.batch = b
      BY <3>1 DEF At
    <3>3. Level(y.call) = 3 * NumStages
      BY <3>2 DEF Level
    <3>4. Level(y.call) = 3 * s + 3
      BY <2>1, <2>2, <3>3
    <3> QED BY <1>4, <2>2, <3>2, <3>4 DEF CarriesBatch, CallInv, BatchTypes, StageTypes
  <2>3. CASE s # NumStages - 1
    <3>1. y = At(e.time, [type |-> "batch_stage_arrival", replica |-> r, stage |-> s + 1,
                          batch |-> b])
      BY <1>3, <1>5, <2>3
    <3>2. /\ y.time = e.time /\ y.call.type = "batch_stage_arrival" /\ y.call.replica = r
          /\ y.call.batch = b /\ y.call.stage = s + 1
      BY <3>1 DEF At
    <3>3. s + 1 \in Stages
      BY <1>4, <2>3, SimulatorAssumption DEF Stages
    <3>4. Level(y.call) = 3 * (s + 1)
      BY <3>2 DEF Level
    <3>5. Level(y.call) = 3 * s + 3
      BY <2>1, <3>4
    <3> QED BY <1>4, <2>3, <3>2, <3>3, <3>5 DEF CarriesBatch, CallInv, BatchTypes, StageTypes
  <2> QED BY <2>2, <2>3
<1>8. PICK events : events = <<x, y>>
  OBVIOUS
<1>9. /\ IsSeq(events) /\ Range(events) = {x, y} /\ Len(events) = 2
      /\ events[1] = x /\ events[2] = y
  BY <1>8, FewEvents
<1>10. Stepped(e, events)
  <2>1. \A z \in Range(events) : Timely(e, z)
    BY <1>4, <1>6, <1>7, <1>9 DEF Timely
  <2>2. Handled(e, events)
    BY <1>2, <1>5, <1>8
  <2> HIDE DEF Again, Onward
  <2> QED BY <1>1, <1>9, <2>1, <2>2, HandledSteps
<1> HIDE DEF Again, Onward
<1>11. ASSUME NEW q \in Replicas, NEW z \in Range(events)
       PROVE  /\ ~Brings(z.call, q) /\ z.call.type # "request_arrival" /\ z.time = e.time
              /\ ~EndsStage(z.call, q, NumStages - 1)
              /\ q # r => ~CarriesBatch(z.call, q)
              /\ q # r \/ s # NumStages - 1 => ~Ends(z.call, q)
  <2>1. CASE z = x
    BY <1>6, <2>1 DEF Brings, EndsStage, CarriesBatch, Ends, WakesStage, BatchTypes
  <2>2. CASE z = y
    BY <1>7, <2>2 DEF Brings, EndsStage, CarriesBatch, Ends
  <2> QED BY <1>9, <2>1, <2>2
<1>12. DueInv'
  BY <1>1, <1>4, <1>10, <1>11, DueKept
<1>13. /\ in_flight' = in_flight /\ last_batch_id' = last_batch_id
       /\ global_queue' = global_queue
       /\ last_batch_id \in Nat \cup {-1} /\ DOMAIN in_flight = Replicas
  BY <1>2 DEF history, global, FifoInv
<1>14. last_batch_id' \in Int /\ last_batch_id \in Int /\ last_batch_id' >= last_batch_id
  BY <1>13
<1>15. \A q \in Replicas, t \in Stages : stage'[q][t].batch_queue = stage[q][t].batch_queue
  <2>1. PICK v : v = OnStageEnd(stage[r][s])
    OBVIOUS
  <2>2. stage' = Put(r, s, v)
    BY <1>2, <1>3, <2>1
  <2>3. StageInv(stage[r][s])
    BY <1>1, <1>4 DEF PartsInv
  <2>4. v.batch_queue = stage[r][s].batch_queue
    BY <2>1, <2>3 DEF OnStageEnd, StageInv
  <2>5. /\ stage'[r][s] = v
        /\ \A q \in Replicas, t \in Stages : q # r \/ t # s => stage'[q][t] = stage[q][t]
    BY <1>1, <1>4, <2>2, PutFacts
  <2> QED BY <2>4, <2>5
<1>16. ASSUME NEW q \in Replicas PROVE LineInv(q)' /\ EndInv(q)' /\ PlacedInv(q)'
  <2>1. LineInv(q) /\ EndInv(q) /\ PlacedInv(q)
    BY DEF FifoInv
  <2>2. CASE q = r
    <3>1. LineInv(r)'
      <4>1. /\ ~CarriesBatch(events[1].call, r) /\ CarriesBatch(events[2].call, r)
            /\ events[2].call.batch = b /\ Level(events[2].call) = 3 * s + 3
        BY <1>6, <1>7, <1>9 DEF CarriesBatch, WakesStage, BatchTypes
      <4>2. /\ LineInv(r) /\ in_flight'[r] = in_flight[r]
            /\ \A t \in Stages : stage'[r][t].batch_queue = stage[r][t].batch_queue
        BY <1>4, <1>13, <1>15, <2>1, <2>2
      <4> QED BY <1>1, <1>4, <1>9, <1>10, <1>13, <1>14, <4>1, <4>2, OnwardInLine
    <3>2. ASSUME s # NumStages - 1 PROVE EndInv(q)'
      BY <1>1, <1>10, <1>11, <2>1, <3>2, EndKept
    <3>3. ASSUME s = NumStages - 1 PROVE EndInv(q)'
      <4>1. CallsAt("batch_stage_end", r, NumStages - 1) = {e}
        <5>1. e \in CallsAt("batch_stage_end", r, s)
          BY <1>4 DEF CallsAt, CallsOf, Calls, EndsStage
        <5>2. BusyAt(r, s)
          BY <1>1, <1>4 DEF WakeInv
        <5> QED BY <3>3, <5>1, <5>2 DEF BusyAt
      <4>2. Ending(r) = {}
        <5> SUFFICES ASSUME Ending(r) # {} PROVE FALSE
          OBVIOUS
        <5>1. e.time > now
          BY <2>1, <2>2, <4>1 DEF EndInv
        <5>2. PICK f \in event_queue : Prompt(f.call)
          <6>1. PICK f : f \in Ending(r)
            OBVIOUS
          <6> QED BY <6>1, EndingIs DEF Ends, Prompt
        <5>3. e.time = now /\ now \in Nat
          BY <1>1, <1>10, <5>2, ClockStands DEF HeapInv
        <5> QED BY <5>1, <5>3
      <4>3. \A i \in 1 .. Len(events) : Ends(events[i].call, r) => i = 2
        <5>1. ~Ends(events[1].call, r)
          BY <1>6, <1>9 DEF Ends, WakesStage
        <5> QED BY <1>9, <5>1
      <4>4. \A z \in Range(events) : ~EndsStage(z.call, r, NumStages - 1)
        BY <1>4, <1>11
      <4>5. \A g \in CallsAt("batch_stage_end", r, NumStages - 1) \ {e} : g.time > e.time
        BY <4>1
      <4>6. Ending(r) \subseteq {e}
        BY <4>2
      <4>7. EndInv(r)'
        BY <1>1, <1>10, <4>3, <4>4, <4>5, <4>6, EndMoved
      <4> QED BY <2>2, <4>7
    <3>4. PlacedInv(q)'
      BY <1>1, <1>10, <1>11, <1>13, <2>1, PlacedKept
    <3> QED BY <2>2, <3>1, <3>2, <3>3, <3>4
  <2>3. CASE q # r
    <3>1. ~CarriesBatch(e.call, q)
      BY <1>4, <2>3 DEF CarriesBatch, EndsStage
    <3> QED BY <1>10, <1>11, <1>13, <1>14, <1>15, <2>3, <3>1, RestKept
  <2> QED BY <2>2, <2>3
<1> QED BY <1>1, <1>12, <1>13, <1>16 DEF FifoInv

(* BatchEndEvent: the first batch in flight leaves.                         *)
LEMMA BatchEndKeepsOrder == FifoInv /\ BatchEnd => FifoInv'
<1> SUFFICES ASSUME FifoInv, BatchEnd PROVE FifoInv'
  OBVIOUS
<1>1. WakeInv' /\ WakeInv /\ DueInv /\ HeapInv /\ PartsInv /\ Punctual
  BY BatchEndKeeps DEF FifoInv, WakeInv
<1>2. PICK e \in Popped("batch_end") :
        /\ in_flight' = [in_flight EXCEPT ![e.call.replica] = Without(@, {e.call.batch})]
        /\ Handled(e, <<At(e.time, [type |-> "replica_schedule", replica |-> e.call.replica,
                                    cause |-> "batch_end"])>>)
        /\ UNCHANGED <<global, stage, last_batch_id>>
  BY DEF BatchEnd
<1>3. PICK r, b : r = e.call.replica /\ b = e.call.batch
  OBVIOUS
<1>4. PICK x : x = At(e.time, [type |-> "replica_schedule", replica |-> r,
                              cause |-> "batch_end"])
  OBVIOUS
<1>5. PICK events : events = <<x>>
  OBVIOUS
<1>6. /\ IsEnd(e.call, r, b) /\ CarriesBatch(e.call, r) /\ Prompt(e.call)
      /\ r \in Replicas /\ e.time \in Nat /\ e \in event_queue
      /\ x.time = e.time /\ x.call.type = "replica_schedule" /\ x.call.replica = r
      /\ x.call.cause = "batch_end" /\ CallInv(x.call)
  <2>1. /\ e.call.type = "batch_end" /\ e \in event_queue
        /\ r \in Replicas /\ e.time \in Nat
    BY <1>1, <1>3 DEF Popped, HeapInv, CallInv, BatchTypes, StageTypes
  <2>2. /\ x.time = e.time /\ x.call.type = "replica_schedule" /\ x.call.replica = r
        /\ x.call.cause = "batch_end"
    BY <1>4 DEF At
  <2> QED BY <1>3, <2>1, <2>2
       DEF IsEnd, CarriesBatch, Prompt, CallInv, BatchTypes, StageTypes
<1>7. IsSeq(events) /\ Range(events) = {x} /\ Len(events) = 1
  BY <1>5, FewEvents
<1>8. Stepped(e, events)
  <2>1. \A y \in Range(events) : Timely(e, y)
    BY <1>6, <1>7 DEF Timely
  <2>2. Handled(e, events)
    BY <1>2, <1>3, <1>4, <1>5
  <2> QED BY <1>1, <1>7, <2>1, <2>2, HandledSteps
<1>9. ASSUME NEW q \in Replicas, NEW y \in Range(events)
      PROVE  /\ ~CarriesBatch(y.call, q) /\ ~Brings(y.call, q)
             /\ ~EndsStage(y.call, q, NumStages - 1)
             /\ y.call.type # "request_arrival" /\ y.time = e.time
             /\ q # r => ~Ends(y.call, q)
  BY <1>6, <1>7 DEF CarriesBatch, BatchTypes, Ends, Brings, EndsStage
<1>10. DueInv'
  BY <1>1, <1>6, <1>8, <1>9, DueKept
<1>11. PICK z : z = Without(in_flight[r], {b})
  OBVIOUS
<1>12. /\ in_flight'[r] = z /\ DOMAIN in_flight' = Replicas
       /\ \A q \in Replicas \ {r} : in_flight'[q] = in_flight[q]
       /\ last_batch_id' = last_batch_id /\ last_batch_id \in Nat \cup {-1}
       /\ global_queue' = global_queue /\ stage' = stage
  BY <1>2, <1>3, <1>6, <1>11 DEF global, FifoInv
<1>13. last_batch_id' \in Int /\ last_batch_id \in Int /\ last_batch_id' >= last_batch_id
  BY <1>12
<1>14. ASSUME NEW q \in Replicas PROVE LineInv(q)' /\ EndInv(q)' /\ PlacedInv(q)'
  <2>1. LineInv(q) /\ EndInv(q) /\ PlacedInv(q)
    BY DEF FifoInv
  <2>2. CASE q = r
    <3>1. LineInv(r) /\ EndInv(r)
      BY <2>1, <2>2
    <3>2. LineInv(r)'
      BY <1>1, <1>6, <1>8, <1>9, <1>11, <1>12, <3>1, LastInLine
    <3>3. e \in Ending(r) /\ e.time = now
      <4>1. e \in Ending(r)
        BY <1>6, EndingIs DEF Ends, IsEnd
      <4> QED BY <1>1, <1>6, <1>8, <4>1, ClockStands
    <3>4. Ending(r) \subseteq {e}
      BY <3>1, <3>3 DEF EndInv
    <3>5. \A g \in CallsAt("batch_stage_end", r, NumStages - 1) \ {e} : g.time > e.time
      BY <3>1, <3>3 DEF EndInv
    <3>6. \A i \in 1 .. Len(events) : Ends(events[i].call, r) => i = 1
      BY <1>7
    <3>7. \A y \in Range(events) : ~EndsStage(y.call, r, NumStages - 1)
      BY <1>6, <1>9
    <3>8. EndInv(r)'
      BY <1>1, <1>8, <3>4, <3>5, <3>6, <3>7, EndMoved
    <3>9. PlacedInv(q)'
      BY <1>1, <1>8, <1>9, <1>12, <2>1, PlacedKept
    <3> QED BY <2>2, <3>2, <3>8, <3>9
  <2>3. CASE q # r
    <3>1. ~CarriesBatch(e.call, q)
      BY <1>6, <2>3 DEF CarriesBatch, IsEnd
    <3>2. in_flight'[q] = in_flight[q]
      BY <1>12, <2>3
    <3> QED BY <1>8, <1>9, <1>12, <1>13, <2>3, <3>1, <3>2, RestKept
  <2> QED BY <2>2, <2>3
<1> QED BY <1>1, <1>10, <1>12, <1>14 DEF FifoInv

(* ReplicaScheduleEvent: new batches enter the pipeline. *)
LEMMA ReplicaKeepsOrder == FifoInv /\ ReplicaSchedule => FifoInv'
<1> SUFFICES ASSUME FifoInv, ReplicaSchedule PROVE FifoInv'
  OBVIOUS
<1>1. WakeInv' /\ WakeInv /\ DueInv /\ HeapInv /\ PartsInv /\ Punctual
  BY ReplicaKeeps DEF FifoInv, WakeInv
<1>2. PICK e \in Popped("replica_schedule") :
        Send(e, e.call.replica, OnSchedule(scheduler[e.call.replica]))
  BY DEF ReplicaSchedule, Send, BatchOf, StageCall
<1>3. PICK r : r = e.call.replica
  OBVIOUS
<1>4. PICK result : result = OnSchedule(scheduler[r])
  OBVIOUS
<1>5. Send(e, r, result)
  BY <1>2, <1>3, <1>4
<1>6. e.time \in Nat /\ WakesReplica(e.call, r) /\ r \in Replicas
  BY <1>1, <1>3 DEF Popped, HeapInv, CallInv, BatchTypes, StageTypes, WakesReplica
<1>7. PICK ids : ids = result.batches
  OBVIOUS
<1>8. /\ IsSeq(ids) /\ Len(ids) \in Nat /\ DOMAIN ids = 1 .. Len(ids)
      /\ \A k \in 1 .. Len(ids) : IsSeq(ids[k])
  <2>1. AfterRounds(scheduler[r], NumStages, result)
    BY <1>1, <1>4, <1>6, OnScheduleFacts DEF PartsInv
  <2>2. IsSeq(ids) /\ \A b \in Range(ids) : IsSeq(b)
    BY <1>7, <2>1 DEF AfterRounds
  <2> QED BY <2>2, IsSeqFacts
<1>9. PICK bs : bs = [k \in 1 .. Len(ids) |-> BatchOf(last_batch_id + k, ids[k], e.time)]
  OBVIOUS
<1>10. ASSUME NEW k \in 1 .. Len(ids)
       PROVE  bs[k].id = last_batch_id + k /\ IsSeq(bs[k].entries)
  <2>1. bs[k] = BatchOf(last_batch_id + k, ids[k], e.time)
    BY <1>9
  <2> QED BY <1>8, <2>1, BatchOfFacts
<1>11. IsSeq(bs) /\ Len(bs) = Len(ids)
  <2>1. bs = [k \in 1 .. Len(ids) |-> bs[k]]
    BY <1>9
  <2> QED BY <1>8, <2>1, FunctionIsSeq
<1>12. PICK events : events = [k \in 1 .. Len(ids) |-> StageCall(r, bs[k], e.time)]
  OBVIOUS
<1>13. ASSUME NEW k \in 1 .. Len(ids)
       PROVE  /\ events[k].time = e.time /\ events[k].call.type = "batch_stage_arrival"
              /\ events[k].call.replica = r /\ events[k].call.batch = bs[k]
              /\ CallInv(events[k].call) /\ CarriesBatch(events[k].call, r)
              /\ Level(events[k].call) = 0
  <2>1. /\ events[k].time = e.time /\ events[k].call.type = "batch_stage_arrival"
        /\ events[k].call.replica = r /\ events[k].call.stage = 0
        /\ events[k].call.batch = bs[k]
    BY <1>12 DEF StageCall, At
  <2>2. 0 \in Stages
    BY SimulatorAssumption DEF Stages
  <2>3. Level(events[k].call) = 0
    BY <2>1 DEF Level
  <2> QED BY <1>6, <1>10, <2>1, <2>2, <2>3 DEF CallInv, CarriesBatch, BatchTypes, StageTypes
<1>14. IsSeq(events) /\ Len(events) = Len(bs)
  <2>1. events = [k \in 1 .. Len(ids) |-> events[k]]
    BY <1>12
  <2> QED BY <1>8, <1>11, <2>1, FunctionIsSeq
<1>15. \A x \in Range(events) : \E k \in 1 .. Len(ids) : x = events[k]
  BY <1>11, <1>14, IsSeqFacts
<1>16. Stepped(e, events)
  <2>1. \A x \in Range(events) : Timely(e, x)
    BY <1>6, <1>13, <1>15 DEF Timely
  <2>2. events = [k \in 1 .. Len(ids) |->
                    StageCall(r, BatchOf(last_batch_id + k, ids[k], e.time), e.time)]
    BY <1>9, <1>12
  <2>3. Handled(e, events)
    BY <1>5, <1>7, <1>8, <2>2 DEF Send
  <2> QED BY <1>1, <1>14, <2>1, <2>3, HandledSteps
<1>17. ASSUME NEW q \in Replicas, NEW x \in Range(events)
       PROVE  /\ ~Ends(x.call, q) /\ ~Brings(x.call, q)
              /\ ~EndsStage(x.call, q, NumStages - 1)
              /\ x.call.type # "request_arrival" /\ x.time = e.time
              /\ q # r => ~CarriesBatch(x.call, q)
  <2>1. PICK k \in 1 .. Len(ids) : x = events[k]
    BY <1>15
  <2> QED BY <1>13, <2>1 DEF Ends, Brings, EndsStage, CarriesBatch
<1>18. DueInv'
  BY <1>1, <1>6, <1>16, <1>17, DueKept
<1>19. PICK z : z = in_flight[r] \o bs
  OBVIOUS
<1>20. /\ in_flight'[r] = z /\ DOMAIN in_flight' = Replicas
       /\ \A q \in Replicas \ {r} : in_flight'[q] = in_flight[q]
       /\ last_batch_id' = last_batch_id + Len(bs)
       /\ global_queue' = global_queue /\ stage' = stage
       /\ last_batch_id \in Nat \cup {-1}
  <2>1. bs = [k \in DOMAIN result.batches |->
                BatchOf(last_batch_id + k, result.batches[k], e.time)]
    BY <1>7, <1>8, <1>9
  <2>2. /\ in_flight' = [in_flight EXCEPT ![r] = @ \o bs]
        /\ last_batch_id' = last_batch_id + Len(bs)
        /\ global_queue' = global_queue /\ stage' = stage
    BY <1>5, <2>1 DEF Send, global
  <2> QED BY <1>6, <1>19, <2>2 DEF FifoInv
<1>21. /\ last_batch_id' \in Int /\ last_batch_id \in Int /\ last_batch_id' >= last_batch_id
       /\ last_batch_id' \in Nat \cup {-1}
  BY <1>8, <1>11, <1>20
<1>22. ASSUME NEW q \in Replicas PROVE LineInv(q)' /\ EndInv(q)' /\ PlacedInv(q)'
  <2>1. LineInv(q) /\ EndInv(q) /\ PlacedInv(q)
    BY DEF FifoInv
  <2>2. CASE q = r
    <3>1. LineInv(r)'
      <4>1. \A k \in 1 .. Len(bs) :
                /\ CarriesBatch(events[k].call, r) /\ Level(events[k].call) = 0
                /\ events[k].call.batch = bs[k] /\ bs[k].id = last_batch_id + k
        BY <1>10, <1>11, <1>13
      <4>2. LineInv(r) /\ e.call.type = "replica_schedule"
        BY <1>6, <2>1, <2>2 DEF WakesReplica
      <4> QED BY <1>1, <1>6, <1>11, <1>14, <1>16, <1>19, <1>20, <4>1, <4>2, NewInLine
    <3>2. EndInv(q)'
      BY <1>1, <1>16, <1>17, <2>1, EndKept
    <3>3. PlacedInv(q)'
      BY <1>1, <1>16, <1>17, <1>20, <2>1, PlacedKept
    <3> QED BY <2>2, <3>1, <3>2, <3>3
  <2>3. CASE q # r
    <3>1. ~CarriesBatch(e.call, q)
      BY <1>6 DEF CarriesBatch, WakesReplica, BatchTypes
    <3>2. in_flight'[q] = in_flight[q]
      BY <1>20, <2>3
    <3> QED BY <1>16, <1>17, <1>20, <1>21, <2>3, <3>1, <3>2, RestKept
  <2> QED BY <2>2, <2>3
<1> QED BY <1>1, <1>18, <1>20, <1>21, <1>22 DEF FifoInv

(* GlobalScheduleEvent: the requests of one time are placed together. *)
LEMMA GlobalKeepsOrder == FifoInv /\ GlobalSchedule => FifoInv'
<1> SUFFICES ASSUME FifoInv, GlobalSchedule PROVE FifoInv'
  OBVIOUS
<1>1. WakeInv' /\ WakeInv /\ DueInv /\ HeapInv /\ PartsInv /\ Punctual
  BY GlobalKeeps DEF FifoInv, WakeInv
<1>2. PICK e \in Popped("global_schedule") :
        \E placed \in Placements(Len(global_queue)) :
            \E order \in SetToSeqs(Range(placed)) : Spread(e, placed, order)
  BY DEF GlobalSchedule, Spread
<1> PICK placed \in Placements(Len(global_queue)) :
        \E order \in SetToSeqs(Range(placed)) : Spread(e, placed, order)
  BY <1>2
<1> PICK order \in SetToSeqs(Range(placed)) : Spread(e, placed, order)
  OBVIOUS
<1>3. /\ e \in event_queue /\ e.time \in Nat /\ e.call.type = "global_schedule"
      /\ e.time = now /\ ~(e.id <= NumRequests)
  BY <1>1 DEF Popped, HeapInv, DueInv
<1>4. /\ Len(global_queue) \in Nat /\ IsSeq(placed) /\ Range(placed) \subseteq Replicas
      /\ DOMAIN placed = 1 .. Len(global_queue)
  <2>1. Len(global_queue) \in Nat
    BY <1>1, IsSeqFacts DEF PartsInv
  <2> QED BY <1>1, <2>1, PlacementFacts, SeqIsSeq
<1>5. /\ IsSeq(order) /\ Len(order) \in Nat /\ DOMAIN order = 1 .. Len(order)
      /\ \A k \in 1 .. Len(order) : order[k] \in Replicas
      /\ \A i, j \in 1 .. Len(order) : order[i] = order[j] => i = j
      /\ Range(order) = Range(placed)
  <2>1. IsFiniteSet(Range(placed))
    BY <1>4, IsSeqFacts
  <2>2. IsSeq(order) /\ Range(order) = Range(placed)
    BY <2>1, OrderCovers
  <2>3. Len(order) \in Nat /\ DOMAIN order = 1 .. Len(order)
        /\ \A k \in 1 .. Len(order) : order[k] \in Range(placed)
    BY <2>2, IsSeqFacts
  <2>4. \A i, j \in DOMAIN order : order[i] = order[j] => i = j
    BY DEF SetToSeqs
  <2> QED BY <1>4, <2>2, <2>3, <2>4
<1>6. PICK events : events = [k \in 1 .. Len(order) |->
                At(e.time, [type |-> "replica_schedule", replica |-> order[k],
                            cause |-> "arrival"])]
  OBVIOUS
<1>7. ASSUME NEW k \in 1 .. Len(order)
      PROVE  /\ events[k].time = e.time /\ events[k].call.type = "replica_schedule"
             /\ events[k].call.replica = order[k] /\ events[k].call.cause = "arrival"
             /\ CallInv(events[k].call)
  <2>1. /\ events[k].time = e.time /\ events[k].call.type = "replica_schedule"
        /\ events[k].call.replica = order[k] /\ events[k].call.cause = "arrival"
    BY <1>6 DEF At
  <2> QED BY <1>5, <2>1 DEF CallInv, BatchTypes, StageTypes
<1>8. IsSeq(events) /\ Len(events) = Len(order)
  <2>1. events = [k \in 1 .. Len(order) |-> events[k]]
    BY <1>6
  <2> QED BY <1>5, <2>1, FunctionIsSeq
<1>9. \A x \in Range(events) : \E k \in 1 .. Len(order) : x = events[k]
  BY <1>8, IsSeqFacts
<1>10. Stepped(e, events)
  <2>1. \A x \in Range(events) : Timely(e, x)
    BY <1>3, <1>7, <1>9 DEF Timely
  <2>2. Handled(e, events)
    BY <1>5, <1>6 DEF Spread
  <2> QED BY <1>1, <1>8, <2>1, <2>2, HandledSteps
<1>11. ASSUME NEW q \in Replicas, NEW x \in Range(events)
       PROVE  /\ ~CarriesBatch(x.call, q) /\ ~Ends(x.call, q)
              /\ ~EndsStage(x.call, q, NumStages - 1)
              /\ x.call.type # "request_arrival" /\ x.time = e.time
  <2>1. PICK k \in 1 .. Len(order) : x = events[k]
    BY <1>9
  <2> QED BY <1>7, <2>1 DEF CarriesBatch, Ends, EndsStage, BatchTypes
<1>12. DueInv'
  <2>1. \A x \in Range(events) : x.call.type # "request_arrival" /\ x.time = e.time
    <3> TAKE x \in Range(events)
    <3>1. PICK k \in 1 .. Len(order) : x = events[k]
      BY <1>9
    <3> QED BY <1>7, <3>1
  <2> QED BY <1>1, <1>10, <2>1, DueKept
<1>13. /\ in_flight' = in_flight /\ last_batch_id' = last_batch_id /\ global_queue' = <<>>
       /\ stage' = stage /\ last_batch_id \in Nat \cup {-1} /\ DOMAIN in_flight = Replicas
  BY DEF Spread, history, FifoInv
<1>14. last_batch_id' \in Int /\ last_batch_id \in Int /\ last_batch_id' >= last_batch_id
  BY <1>13
<1>15. ASSUME NEW r \in Replicas PROVE LineInv(r)' /\ EndInv(r)' /\ PlacedInv(r)'
  <2>1. LineInv(r) /\ EndInv(r) /\ PlacedInv(r)
    BY DEF FifoInv
  <2>2. ~CarriesBatch(e.call, r)
    BY <1>3 DEF CarriesBatch, BatchTypes
  <2>3. LineInv(r)'
    BY <1>10, <1>11, <1>13, <1>14, <2>1, <2>2, LineKept
  <2>4. EndInv(r)'
    BY <1>1, <1>10, <1>11, <2>1, EndKept
  <2>5. CASE Len(order) = 0
    <3>1. Range(events) = {}
      BY <1>9, <2>5
    <3> QED BY <1>1, <1>10, <1>13, <2>1, <2>3, <2>4, <3>1, PlacedKept
  <2>6. CASE Len(order) # 0
    <3>1. Woken(r, "arrival") = {}
      <4>1. global_queue # <<>>
        <5> SUFFICES ASSUME global_queue = <<>> PROVE FALSE
          OBVIOUS
        <5>1. Len(global_queue) = 0
          OBVIOUS
        <5>2. DOMAIN placed = {}
          BY <1>4, <5>1
        <5>3. Range(placed) = {}
          BY <5>2 DEF Range
        <5> QED BY <1>5, <2>6, <5>3, IsSeqFacts
      <4> QED BY <2>1, <4>1 DEF PlacedInv
    <3>2. ASSUME NEW f \in Woken(r, "arrival")'
          PROVE  \E i \in 1 .. Len(order) : f = Fresh(events, i) /\ order[i] = r
      <4>1. f \in event_queue' /\ Brings(f.call, r)
        BY WokenIs
      <4>2. f \notin event_queue
        BY <3>1, <4>1, WokenIs
      <4>3. PICK i \in 1 .. Len(events) : f = Fresh(events, i) /\ f.call = events[i].call
        BY <1>10, <4>1, <4>2, Numbers
      <4> QED BY <1>7, <1>8, <4>1, <4>3 DEF Brings
    <3>3. \A f, g \in Woken(r, "arrival")' : f = g
      <4> TAKE f, g \in Woken(r, "arrival")'
      <4>1. PICK i \in 1 .. Len(order) : f = Fresh(events, i) /\ order[i] = r
        BY <3>2
      <4>2. PICK j \in 1 .. Len(order) : g = Fresh(events, j) /\ order[j] = r
        BY <3>2
      <4> QED BY <1>5, <4>1, <4>2
    <3>4. ASSUME NEW f \in event_queue', f.call.type = "request_arrival", f.time = now'
          PROVE  FALSE
      <4>1. f \in event_queue /\ f # e
        <5>1. \A i \in 1 .. Len(events) : events[i].call.type # "request_arrival"
          BY <1>7, <1>8
        <5> QED BY <1>10, <3>4, <5>1, Numbers
      <4>2. Before(e, f) /\ now' = e.time
        BY <1>10, <4>1 DEF Stepped, Iterated
      <4>3. f.id <= NumRequests
        BY <1>1, <3>4, <4>1 DEF DueInv
      <4>4. e.id \in Nat /\ f.id \in Nat /\ NumRequests \in Nat
        BY <1>1, <1>3, <4>1, SimulatorAssumption DEF HeapInv
      <4> QED BY <1>3, <3>4, <4>2, <4>3, <4>4 DEF Before
    <3>5. PlacedInv(r)'
      <4>1. ~Now(Calls("request_arrival"))'
        BY <3>4 DEF Now, Calls
      <4> QED BY <1>13, <3>3, <4>1 DEF PlacedInv
    <3> QED BY <2>3, <2>4, <3>5
  <2> QED BY <2>3, <2>4, <2>5, <2>6
<1> QED BY <1>1, <1>12, <1>13, <1>15 DEF FifoInv

(* Nothing is in flight when the simulation begins. *)
LEMMA FifoInit == Init => FifoInv
<1> SUFFICES ASSUME Init PROVE FifoInv
  OBVIOUS
<1>1. WakeInv
  BY WakeInit
<1>2. \A e \in event_queue : \E q \in Requests :
        e = [time |-> ArrivedAt[q], id |-> q,
             call |-> [type |-> "request_arrival", request |-> q]]
  BY DEF Init
<1>3. ASSUME NEW e \in event_queue
      PROVE  e.id \in Requests /\ e.id <= NumRequests /\ e.call.type = "request_arrival"
  BY <1>2, SimulatorAssumption DEF Requests
<1>4. DueInv
  <2>1. last_id >= NumRequests
    BY SimulatorAssumption DEF Init
  <2>2. \A e, f \in event_queue : e.id = f.id => e = f
    BY <1>2
  <2> QED BY <1>3, <2>1, <2>2 DEF DueInv
<1>5. /\ last_batch_id \in Nat \cup {-1} /\ DOMAIN in_flight = Replicas
      /\ \A r \in Replicas : in_flight[r] = <<>>
  BY DEF Init
<1>6. ASSUME NEW r \in Replicas PROVE LineInv(r) /\ EndInv(r) /\ PlacedInv(r)
  <2>1. BatchEvents(r) = {} /\ Ending(r) = {} /\ Woken(r, "arrival") = {}
    BY <1>3 DEF BatchEvents, BatchTypes, Ending, Woken, CallsOf, Calls
  <2>2. Line(r) = {}
    <3>1. ASSUME NEW s \in Stages PROVE DOMAIN stage[r][s].batch_queue = {}
      <4>1. stage[r][s].batch_queue = <<>>
        BY DEF Init
      <4> QED BY <4>1, FewEvents, IsSeqFacts
    <3> QED BY <2>1, <3>1 DEF Line
  <2>3. IsSeq(<<>>) /\ Range(<<>>) = {} /\ DOMAIN <<>> = {}
    BY FewEvents, IsSeqFacts
  <2>4. LineInv(r)
    BY <1>5, <2>2, <2>3 DEF LineInv, InOrder
  <2> QED BY <2>1, <2>4 DEF EndInv, PlacedInv
<1> QED BY <1>1, <1>4, <1>5, <1>6 DEF FifoInv

(* Every iteration of the loop of Simulator.run keeps the order.            *)
LEMMA FifoStep == FifoInv /\ [Next]_vars => FifoInv'
<1> SUFFICES ASSUME FifoInv, [Next]_vars PROVE FifoInv'
  OBVIOUS
<1>1. CASE RequestArrival
  BY <1>1, ArrivalKeepsOrder
<1>2. CASE GlobalSchedule
  BY <1>2, GlobalKeepsOrder
<1>3. CASE ReplicaSchedule
  BY <1>3, ReplicaKeepsOrder
<1>4. CASE BatchStageArrival
  BY <1>4, StageArrivalKeepsOrder
<1>5. CASE ReplicaStageSchedule
  BY <1>5, StageScheduleKeepsOrder
<1>6. CASE BatchStageEnd
  BY <1>6, StageEndKeepsOrder
<1>7. CASE BatchEnd
  BY <1>7, BatchEndKeepsOrder
<1>8. CASE UNCHANGED vars
  <2>1. /\ now' = now /\ last_id' = last_id /\ event_queue' = event_queue
        /\ global_queue' = global_queue /\ stage' = stage
        /\ last_batch_id' = last_batch_id /\ in_flight' = in_flight
    BY <1>8 DEF vars, clock, global, history
  <2>2. WakeInv'
    BY <1>8, WakeStep DEF FifoInv
  <2>3. DueInv'
    BY <2>1 DEF FifoInv, DueInv
  <2>4. ASSUME NEW r \in Replicas PROVE LineInv(r)' /\ EndInv(r)' /\ PlacedInv(r)'
    <3>1. LineInv(r) /\ EndInv(r) /\ PlacedInv(r)
      BY DEF FifoInv
    <3>2. BatchEvents(r)' = BatchEvents(r) /\ Waiting(r)' = Waiting(r)
      BY <2>1 DEF BatchEvents, Waiting, SlotPlace
    <3>3. Line(r)' = Line(r)
      BY <3>2, LineIs
    <3>4. LineInv(r)'
      BY <2>1, <3>1, <3>3 DEF LineInv, InOrder
    <3>5. EndInv(r)'
      BY <2>1, <3>1 DEF EndInv, Ending, Woken, CallsAt, CallsOf, Calls
    <3>6. PlacedInv(r)'
      BY <2>1, <3>1 DEF PlacedInv, Woken, CallsOf, Calls, Now
    <3> QED BY <3>4, <3>5, <3>6
  <2> QED BY <2>1, <2>2, <2>3, <2>4 DEF FifoInv
<1> QED BY <1>1, <1>2, <1>3, <1>4, <1>5, <1>6, <1>7, <1>8 DEF Next

(* In every state of the simulator events are numbered in the order they    *)
(* were made, and the batches of a replica are in its pipeline in the order *)
(* they were made, none lost and none passing another.                      *)
THEOREM FifoInvariance == Spec => []FifoInv
BY FifoInit, FifoStep, PTL DEF Spec

(* A set without two elements is empty or has one.                          *)
LEMMA AtMostOne ==
    ASSUME NEW S, \A x, y \in S : x = y
    PROVE  Cardinality(S) <= 1
<1>1. CASE S = {}
  <2>1. Cardinality(S) = 0
    BY <1>1, FS_EmptySet, Zenon
  <2> QED BY <2>1
<1>2. CASE S # {}
  <2>1. PICK x : x \in S
    BY <1>2
  <2>2. S = {x}
    BY <2>1
  <2>3. Cardinality(S) = 1
    BY <2>2, FS_Singleton, Zenon
  <2> QED BY <2>3
<1> QED BY <1>1, <1>2

(* The order of the pipeline is what the model of one replica asks for.     *)
LEMMA OrderIsFIFO == FifoInv => PipelineIsFIFO
<1> SUFFICES ASSUME FifoInv, NEW r \in Replicas
             PROVE  /\ \A e \in CallsOf("batch_end", r) : e.call.batch = Head(in_flight[r])
                    /\ Cardinality(Ending(r)) <= 1
                    /\ Cardinality(Woken(r, "arrival")) <= 1
                    /\ Woken(r, "arrival") # {} => /\ global_queue = <<>>
                                                   /\ ~Now(Calls("request_arrival"))
  BY DEF PipelineIsFIFO
<1>1. HeapInv /\ PartsInv /\ LineInv(r) /\ EndInv(r) /\ PlacedInv(r)
  BY DEF FifoInv, WakeInv
<1>2. ASSUME NEW e \in CallsOf("batch_end", r) PROVE e.call.batch = Head(in_flight[r])
  <2>1. PICK b : b = e.call.batch
    OBVIOUS
  <2>2. e \in BatchEvents(r) /\ IsEnd(e.call, r, b)
    BY <2>1 DEF CallsOf, Calls, BatchEvents, BatchTypes, IsEnd
  <2>3. in_flight[r] # <<>> /\ b = in_flight[r][1]
    BY <1>1, <2>2, EndIsFirst
  <2>4. PICK q : q = in_flight[r]
    OBVIOUS
  <2>5. q \in Seq(Range(q)) /\ q # <<>>
    BY <1>1, <2>3, <2>4 DEF LineInv, IsSeq
  <2>6. Head(q) = q[1]
    BY <2>5
  <2> QED BY <2>1, <2>3, <2>4, <2>6
<1>3. Cardinality(Ending(r)) <= 1
  BY <1>1, AtMostOne DEF EndInv
<1>4. Cardinality(Woken(r, "arrival")) <= 1
  BY <1>1, AtMostOne DEF PlacedInv
<1> QED BY <1>1, <1>2, <1>3, <1>4 DEF PlacedInv

(* The batches of a replica end in the order they were dispatched, one at a *)
(* time; at most one ReplicaScheduleEvent of each cause waits, it is        *)
(* handled before the next batch ends and before more requests come (the    *)
(* handle_event methods of src/vidur/events, ReplicaStageScheduler).        *)
THEOREM PipelineInOrder == Spec => []PipelineIsFIFO
BY FifoInvariance, OrderIsFIFO, PTL

-----------------------------------------------------------------------------
(* Sequences without repetitions. *)

(* A sequence of its own elements is one of any set that holds them.        *)
LEMMA SeqWithin ==
    ASSUME NEW q, IsSeq(q), NEW S, Range(q) \subseteq S
    PROVE  q \in Seq(S)
<1>1. q \in Seq(Range(q))
  BY DEF IsSeq
<1> QED BY <1>1, SeqMonotonic

(* Without repeats no element that the sequence does not repeat.            *)
LEMMA WithoutDistinct ==
    ASSUME NEW q, IsSeq(q), IsInjective(q), NEW X
    PROVE  IsInjective(Without(q, X))
<1> DEFINE N == Len(q)
           First(n) == {q[i] : i \in 1 .. n}
           S == [n \in 0 .. N |-> {w \in Seq(First(n)) : IsInjective(w)}]
           Step(w, n) == IF q[n] \in X THEN w ELSE Append(w, q[n])
<1>1. N \in Nat /\ DOMAIN q = 1 .. N
  BY IsSeqFacts
<1> HIDE DEF N
<1>2. <<>> \in S[0]
  <2>1. 0 \in 0 .. N
    BY <1>1
  <2>2. <<>> \in Seq(First(0)) /\ IsInjective(<<>>)
    <3> HIDE DEF First
    <3> QED BY EmptySeq DEF IsInjective
  <2> QED BY <2>1, <2>2
<1>3. ASSUME NEW n \in 1 .. N, NEW w \in S[n - 1] PROVE Step(w, n) \in S[n]
  <2>1. n - 1 \in 0 .. N /\ n \in 0 .. N
    BY <1>1
  <2>2. w \in Seq(First(n - 1)) /\ IsInjective(w)
    BY <2>1
  <2>3. First(n - 1) \subseteq First(n) /\ q[n] \in First(n) /\ q[n] \notin First(n - 1)
    <3>1. \A i \in 1 .. n - 1 : i \in 1 .. n /\ i \in 1 .. N /\ i # n
      BY <1>1
    <3>2. n \in 1 .. n
      BY <1>1
    <3>3. \A i \in 1 .. n - 1 : q[i] # q[n]
      BY <1>1, <3>1 DEF IsInjective
    <3> QED BY <3>1, <3>2, <3>3
  <2> HIDE DEF First
  <2>4. w \in Seq(First(n))
    BY <2>2, <2>3, SeqMonotonic
  <2>5. Range(w) \subseteq First(n - 1)
    BY <2>2, RangeOfSeq
  <2>6. Append(w, q[n]) \in Seq(First(n)) /\ IsInjective(Append(w, q[n]))
    BY <2>2, <2>3, <2>4, <2>5, AppendRange, AppendProperties
  <2>7. Step(w, n) \in Seq(First(n)) /\ IsInjective(Step(w, n))
    BY <2>2, <2>4, <2>6
  <2> QED BY <2>1, <2>7
<1>4. Without(q, X) \in S[N]
  <2> HIDE DEF S
  <2>1. \A n \in 1 .. Len(q) : \A w \in S[n - 1] :
            (IF q[n] \in X THEN w ELSE Append(w, q[n])) \in S[n]
    BY <1>3 DEF N
  <2> QED BY <1>2, <2>1, WithoutLoop DEF N
<1> QED BY <1>1, <1>4

(* Nor do the first elements of it.                                         *)
LEMMA PrefixDistinct ==
    ASSUME NEW q, IsSeq(q), IsInjective(q), NEW n \in Int, n <= Len(q)
    PROVE  IsInjective(SubSeq(q, 1, n))
<1>1. Len(q) \in Nat /\ DOMAIN q = 1 .. Len(q) /\ \A i \in 1 .. Len(q) : q[i] \in Range(q)
  BY IsSeqFacts
<1>2. \A i \in 1 .. n : q[i] \in Range(q)
  BY <1>1
<1>3. PICK p : p = SubSeq(q, 1, n)
  OBVIOUS
<1>4. /\ p \in Seq(Range(q)) /\ Len(p) = IF 1 <= n THEN n - 1 + 1 ELSE 0
      /\ \A i \in 1 .. n - 1 + 1 : p[i] = q[1 + i - 1]
  BY <1>2, <1>3, SubSeqProperties
<1>5. DOMAIN p = 1 .. Len(p)
  BY <1>4, LenProperties
<1>6. ASSUME NEW i \in DOMAIN p PROVE i \in DOMAIN q /\ p[i] = q[i]
  <2>1. i \in 1 .. n /\ i \in Int
    BY <1>4, <1>5
  <2>2. i \in 1 .. n - 1 + 1 /\ 1 + i - 1 = i
    BY <2>1
  <2>3. p[i] = q[i]
    BY <1>4, <2>2
  <2> QED BY <1>1, <2>1, <2>3
<1>7. IsInjective(p)
  BY <1>6 DEF IsInjective
<1> QED BY <1>3, <1>7

(* Two sequences without repetitions that share nothing, joined.            *)
LEMMA ConcatDistinct ==
    ASSUME NEW p, NEW q, IsSeq(p), IsSeq(q), IsInjective(p), IsInjective(q),
           Range(p) \cap Range(q) = {}
    PROVE  IsInjective(p \o q)
<1> DEFINE S == Range(p) \cup Range(q)
<1>1. p \in Seq(S) /\ q \in Seq(S)
  <2>1. Range(p) \subseteq S /\ Range(q) \subseteq S
    OBVIOUS
  <2> HIDE DEF S
  <2> QED BY <2>1, SeqWithin
<1> HIDE DEF S
<1> QED BY <1>1, ConcatRange

-----------------------------------------------------------------------------
(* The global scheduler's queue, sorted and dealt out. *)

(* The requests that come before a place, in the order of the sort.         *)
Seen(i) == {j \in DOMAIN global_queue : Prior(j, i)}

(* The order is total.                                                      *)
LEMMA PriorFacts ==
    ASSUME global_queue \in Seq(Requests), NEW i \in DOMAIN global_queue,
           NEW j \in DOMAIN global_queue
    PROVE  /\ Prior(i, i) /\ (Prior(i, j) \/ Prior(j, i))
           /\ Prior(i, j) /\ i # j => Seen(i) \subseteq Seen(j) \ {j}
<1>1. /\ DOMAIN global_queue \subseteq Int
      /\ \A k \in DOMAIN global_queue : ArrivedAt[global_queue[k]] \in Int
  BY SimulatorAssumption, LenProperties
<1>2. Prior(i, i) /\ (Prior(i, j) \/ Prior(j, i))
  BY <1>1 DEF Prior
<1>3. ASSUME Prior(i, j), i # j, NEW k \in Seen(i) PROVE k \in Seen(j) \ {j}
  BY <1>1, <1>3 DEF Seen, Prior
<1> QED BY <1>2, <1>3

(* Each place has a rank of its own.                                        *)
LEMMA RankFacts ==
    ASSUME global_queue \in Seq(Requests), NEW D, D = DOMAIN global_queue
    PROVE  [i \in D |-> Rank(i)] \in Bijection(D, D)
<1>1. Len(global_queue) \in Nat /\ D = 1 .. Len(global_queue)
  BY LenProperties
<1>2. IsFiniteSet(D) /\ Cardinality(D) = Len(global_queue)
  BY <1>1, FS_Interval
<1>3. ASSUME NEW i \in D
      PROVE  /\ IsFiniteSet(Seen(i)) /\ Rank(i) = Cardinality(Seen(i)) /\ Rank(i) \in D
             /\ i \in Seen(i)
  <2>1. Seen(i) \in SUBSET D /\ i \in Seen(i)
    BY PriorFacts DEF Seen
  <2>2. IsFiniteSet(Seen(i)) /\ Cardinality(Seen(i)) <= Cardinality(D)
    BY <1>2, <2>1, FS_Subset
  <2>3. Rank(i) = Cardinality(Seen(i))
    BY DEF Rank, Seen
  <2>4. Cardinality(Seen(i)) \in Nat
    BY <2>2, FS_CardinalityType
  <2>5. Cardinality(Seen(i)) # 0
    BY <2>1, <2>2, FS_EmptySet
  <2> QED BY <1>1, <1>2, <2>1, <2>2, <2>3, <2>4, <2>5
<1>4. ASSUME NEW i \in D, NEW j \in D, Prior(i, j), i # j PROVE Rank(i) # Rank(j)
  <2>1. PICK X : X = Seen(j) \ {j}
    OBVIOUS
  <2>2. Seen(i) \in SUBSET X
    BY <1>4, <2>1, PriorFacts
  <2>3. IsFiniteSet(X) /\ Cardinality(X) = Cardinality(Seen(j)) - 1
    BY <1>3, <2>1, FS_RemoveElement
  <2>4. Cardinality(Seen(i)) <= Cardinality(X)
    BY <2>2, <2>3, FS_Subset
  <2>5. Rank(i) \in Int /\ Rank(j) \in Int
    BY <1>1, <1>3
  <2>6. Rank(i) <= Rank(j) - 1
    BY <1>3, <2>3, <2>4
  <2> QED BY <2>5, <2>6
<1>5. PICK f : f = [i \in D |-> Rank(i)]
  OBVIOUS
<1>6. f \in Injection(D, D)
  <2>1. f \in [D -> D]
    BY <1>3, <1>5
  <2>2. \A i, j \in D : f[i] = f[j] => i = j
    BY <1>4, <1>5, PriorFacts
  <2> QED BY <2>1, <2>2 DEF Injection, IsInjective
<1>7. f \in Surjection(D, D)
  BY <1>2, <1>6, FS_Injection
<1> QED BY <1>5, <1>6, <1>7 DEF Bijection

(* The sorted queue has the requests of the queue, each as often.           *)
LEMMA SortedFacts ==
    ASSUME global_queue \in Seq(Requests)
    PROVE  /\ SortedQueue \in Seq(Requests) /\ DOMAIN SortedQueue = DOMAIN global_queue
           /\ Range(SortedQueue) = Range(global_queue)
           /\ IsInjective(global_queue) => IsInjective(SortedQueue)
<1>1. PICK D : D = DOMAIN global_queue
  OBVIOUS
<1>2. \A i \in D : Rank(i) \in D
  <2>1. [i \in D |-> Rank(i)] \in [D -> D]
    BY <1>1, RankFacts DEF Bijection, Injection
  <2> QED BY <2>1
<1>3. \A k \in D : \E i \in D : Rank(i) = k
  BY <1>1, RankFacts DEF Bijection, Surjection
<1>4. PICK p : p = [k \in D |-> CHOOSE i \in D : Rank(i) = k]
  OBVIOUS
<1>5. \A k \in D : p[k] \in D /\ Rank(p[k]) = k
  <2> TAKE k \in D
  <2>1. p[k] = CHOOSE i \in D : Rank(i) = k
    BY <1>4
  <2> QED BY <1>3, <2>1, Zenon
<1>6. p \in [D -> D] /\ IsInjective(p)
  BY <1>4, <1>5 DEF IsInjective
<1>7. SortedQueue = [k \in D |-> global_queue[p[k]]]
  BY <1>1, <1>4 DEF SortedQueue
<1> QED BY <1>1, <1>6, <1>7, PermutationRange

(* What a replica is given by a placement.                                  *)
Share(placed, r) ==
    LET mine == Without([k \in DOMAIN placed |-> k],
                        {k \in DOMAIN placed : placed[k] # r})
    IN  [k \in DOMAIN mine |-> SortedQueue[mine[k]]]

(* These are the requests that are placed there, each once.                 *)
LEMMA ShareFacts ==
    ASSUME global_queue \in Seq(Requests), IsInjective(global_queue), NEW placed,
           DOMAIN placed = DOMAIN global_queue, NEW r
    PROVE  /\ Share(placed, r) \in Seq(Requests) /\ IsInjective(Share(placed, r))
           /\ Range(Share(placed, r)) =
                {SortedQueue[k] : k \in {k \in DOMAIN global_queue : placed[k] = r}}
<1>1. PICK D, n : D = DOMAIN global_queue /\ n = Len(global_queue)
  OBVIOUS
<1>2. n \in Nat /\ D = 1 .. n
  BY <1>1, LenProperties
<1>3. PICK all, others : /\ all = [k \in DOMAIN placed |-> k]
                         /\ others = {k \in DOMAIN placed : placed[k] # r}
  OBVIOUS
<1>4. IsSeq(all) /\ IsInjective(all) /\ Range(all) = D
  <2>1. all = [k \in 1 .. n |-> all[k]] /\ DOMAIN all = D
    BY <1>1, <1>2, <1>3
  <2>2. IsSeq(all)
    BY <1>2, <2>1, FunctionIsSeq
  <2>3. \A k \in D : all[k] = k
    <3>1. D = DOMAIN placed
      BY <1>1
    <3> QED BY <1>3, <3>1
  <2>4. IsInjective(all)
    BY <2>1, <2>3 DEF IsInjective
  <2>5. Range(all) = D
    <3>1. \A x : x \in Range(all) <=> \E k \in D : x = all[k]
      BY <2>1 DEF Range
    <3>2. Range(all) \subseteq D
      BY <2>3, <3>1
    <3>3. D \subseteq Range(all)
      BY <2>3, <3>1
    <3> QED BY <3>2, <3>3
  <2> QED BY <2>2, <2>4, <2>5
<1>5. PICK mine : mine = Without(all, others)
  OBVIOUS
<1>6. IsSeq(mine) /\ IsInjective(mine) /\ Range(mine) = D \ others
  BY <1>4, <1>5, WithoutFacts, WithoutDistinct
<1>7. PICK more : more = [k \in DOMAIN mine |-> SortedQueue[mine[k]]]
  OBVIOUS
<1>8. Share(placed, r) = more
  BY <1>3, <1>5, <1>7 DEF Share
<1>9. /\ DOMAIN mine = 1 .. Len(mine) /\ Len(mine) \in Nat
      /\ \A k \in DOMAIN mine : mine[k] \in D
      /\ \A i \in D : placed[i] = r <=> \E k \in DOMAIN mine : mine[k] = i
  <2>1. DOMAIN mine = 1 .. Len(mine) /\ Len(mine) \in Nat
    BY <1>6, IsSeqFacts
  <2>2. \A i : (i \in D /\ placed[i] = r) <=> \E k \in DOMAIN mine : mine[k] = i
    BY <1>1, <1>3, <1>6 DEF Range
  <2> QED BY <2>1, <2>2
<1>10. /\ \A i \in D : SortedQueue[i] \in Requests
       /\ \A i, j \in D : SortedQueue[i] = SortedQueue[j] => i = j
  <2>1. SortedQueue \in Seq(Requests) /\ DOMAIN SortedQueue = D /\ IsInjective(SortedQueue)
    BY <1>1, SortedFacts
  <2>2. SortedQueue \in [D -> Requests]
    BY <2>1, LenProperties
  <2> QED BY <2>1, <2>2 DEF IsInjective
<1>11. more \in [1 .. Len(mine) -> Requests]
  BY <1>7, <1>9, <1>10
<1>12. more \in Seq(Requests)
  BY <1>9, <1>11, SeqDef
<1>13. IsInjective(more)
  BY <1>6, <1>7, <1>9, <1>10 DEF IsInjective
<1>14. Range(more) = {SortedQueue[k] : k \in {k \in D : placed[k] = r}}
  <2>1. Range(more) = {SortedQueue[mine[k]] : k \in DOMAIN mine}
    BY <1>7 DEF Range
  <2> QED BY <1>9, <2>1
<1> QED BY <1>1, <1>8, <1>12, <1>13, <1>14

-----------------------------------------------------------------------------
(* The rounds of a replica scheduler move requests, and lose none. *)

(* A scheduler whose queues share nothing: what is preempted has memory,    *)
(* what is queued has none.                                                 *)
Sound(s) ==
    /\ SchedulerInv(s) /\ IsInjective(s.queue) /\ IsInjective(s.preempted)
    /\ Range(s.queue) \cap s.allocated = {} /\ Range(s.preempted) \subseteq s.allocated

(* The requests that have memory and are in batches.                        *)
Batched(s) == s.allocated \ Range(s.preempted)

(* The next batch has no request twice, and only those of the scheduler.    *)
LEMMA NextBatchDistinct ==
    ASSUME NEW s, Sound(s), NEW b, b = NextBatch(s)
    PROVE  IsSeq(b) /\ IsInjective(b) /\ Range(b) \subseteq Range(s.queue) \cup Range(s.preempted)
<1>1. PICK n : n = Min({MaxBatchSize, Len(s.preempted)})
  OBVIOUS
<1>2. PICK a : a = Min({MaxBatchSize - n, Len(s.queue), Slots - Cardinality(s.allocated)})
  OBVIOUS
<1>3. /\ MaxBatchSize \in Nat /\ Slots \in Nat
      /\ IsSeq(s.preempted) /\ Len(s.preempted) \in Nat
      /\ IsSeq(s.queue) /\ Len(s.queue) \in Nat
      /\ Cardinality(s.allocated) \in Nat
  BY SimulatorAssumption, IsSeqFacts, FS_CardinalityType DEF Sound, SchedulerInv
<1>4. n \in Int /\ n <= Len(s.preempted)
  <2>1. MaxBatchSize \in Int /\ Len(s.preempted) \in Int
    BY <1>3
  <2> QED BY <1>1, <2>1, MinOfTwo, Zenon
<1>5. a \in Int /\ a <= Len(s.queue)
  <2>1. MaxBatchSize - n \in Int /\ Slots - Cardinality(s.allocated) \in Int
    BY <1>3, <1>4
  <2>2. Len(s.queue) \in Int
    BY <1>3
  <2> QED BY <1>2, <2>1, <2>2, MinOfThree, Zenon
<1>6. b = SubSeq(s.preempted, 1, n) \o SubSeq(s.queue, 1, a)
  BY <1>1, <1>2 DEF NextBatch
<1>7. PICK p, q : p = SubSeq(s.preempted, 1, n) /\ q = SubSeq(s.queue, 1, a)
  OBVIOUS
<1>8. IsSeq(p) /\ IsInjective(p) /\ Range(p) \subseteq Range(s.preempted)
  BY <1>3, <1>4, <1>7, PrefixIsSeq, PrefixDistinct DEF Sound
<1>9. IsSeq(q) /\ IsInjective(q) /\ Range(q) \subseteq Range(s.queue)
  BY <1>3, <1>5, <1>7, PrefixIsSeq, PrefixDistinct DEF Sound
<1>10. Range(p) \cap Range(q) = {}
  BY <1>8, <1>9 DEF Sound
<1>11. b = p \o q
  BY <1>6, <1>7
<1> QED BY <1>8, <1>9, <1>10, <1>11, ConcatIsSeq, ConcatDistinct

(* Dispatching a batch moves its requests.                                  *)
LEMMA DispatchedSound ==
    ASSUME NEW s, Sound(s), NEW b, IsSeq(b),
           Range(b) \subseteq Range(s.queue) \cup Range(s.preempted),
           NEW d, d = Dispatched(s, b)
    PROVE  /\ Sound(d) /\ d.running = s.running + 1
           /\ Range(d.queue) \cup d.allocated = Range(s.queue) \cup s.allocated
           /\ Range(d.preempted) = Range(s.preempted) \ Range(b)
           /\ Batched(d) = Batched(s) \cup Range(b)
           /\ Batched(s) \cap Range(b) = {}
<1>1. /\ d.queue = Without(s.queue, Range(b))
      /\ d.preempted = Without(s.preempted, Range(b))
      /\ d.allocated = s.allocated \cup Range(b)
  BY DEF Dispatched
<1>2. SchedulerInv(d) /\ d.running = s.running + 1
  BY DispatchedFacts DEF Sound
<1>3. IsSeq(s.queue) /\ IsSeq(s.preempted) /\ IsInjective(s.queue) /\ IsInjective(s.preempted)
  BY DEF Sound, SchedulerInv
<1>4. /\ IsInjective(d.queue) /\ Range(d.queue) = Range(s.queue) \ Range(b)
      /\ IsInjective(d.preempted) /\ Range(d.preempted) = Range(s.preempted) \ Range(b)
  BY <1>1, <1>3, WithoutFacts, WithoutDistinct
<1>5. Range(s.queue) \cap s.allocated = {} /\ Range(s.preempted) \subseteq s.allocated
  BY DEF Sound
<1>6. Sound(d)
  BY <1>1, <1>2, <1>4, <1>5 DEF Sound
<1>7. Range(d.queue) \cup d.allocated = Range(s.queue) \cup s.allocated
  BY <1>1, <1>4, <1>5
<1>8. Batched(d) = Batched(s) \cup Range(b) /\ Batched(s) \cap Range(b) = {}
  BY <1>1, <1>4, <1>5 DEF Batched
<1> QED BY <1>2, <1>4, <1>6, <1>7, <1>8

(* The batches ids share no request, nor has one of them any twice.         *)
Apart(ids) ==
    \A i \in DOMAIN ids :
        /\ IsSeq(ids[i]) /\ IsInjective(ids[i])
        /\ \A j \in DOMAIN ids : i # j => Range(ids[i]) \cap Range(ids[j]) = {}

(* After rounds from s: the scheduler has the requests it had, and those of *)
(* the new batches were in none.                                            *)
Moved(s, w) ==
    /\ Sound(w.after) /\ IsSeq(w.batches) /\ Apart(w.batches)
    /\ w.after.running = s.running + Len(w.batches) /\ w.after.running <= NumStages
    /\ Range(w.after.queue) \cup w.after.allocated = Range(s.queue) \cup s.allocated
    /\ Batched(w.after) = Batched(s) \cup UNION {Range(w.batches[i]) : i \in DOMAIN w.batches}
    /\ \A i \in DOMAIN w.batches : Range(w.batches[i]) \cap Batched(s) = {}

(* A round does so.                                                         *)
LEMMA RoundMoves ==
    ASSUME NEW s, s.running \in Nat, NEW w, Moved(s, w)
    PROVE  Moved(s, Round(w))
<1>1. CASE ~(w.after.running < NumStages /\ NextBatch(w.after) # <<>>)
  BY <1>1 DEF Round
<1>2. CASE w.after.running < NumStages /\ NextBatch(w.after) # <<>>
  <2>1. PICK b : b = NextBatch(w.after)
    OBVIOUS
  <2>2. PICK d : d = Dispatched(w.after, b)
    OBVIOUS
  <2>3. PICK v, ids, old : v = Round(w) /\ ids = v.batches /\ old = w.batches
    OBVIOUS
  <2>4. v.after = d /\ ids = Append(old, b)
    BY <1>2, <2>1, <2>2, <2>3 DEF Round
  <2>5. Sound(w.after) /\ IsSeq(old) /\ Apart(old)
    BY <2>3 DEF Moved
  <2>6. /\ IsSeq(b) /\ IsInjective(b)
        /\ Range(b) \subseteq Range(w.after.queue) \cup Range(w.after.preempted)
    BY <2>1, <2>5, NextBatchDistinct
  <2>7. /\ Sound(d) /\ d.running = w.after.running + 1
        /\ Range(d.queue) \cup d.allocated = Range(w.after.queue) \cup w.after.allocated
        /\ Batched(d) = Batched(w.after) \cup Range(b)
        /\ Batched(w.after) \cap Range(b) = {}
    BY <2>2, <2>5, <2>6, DispatchedSound
  <2>8. PICK n : n = Len(old)
    OBVIOUS
  <2>9. /\ IsSeq(ids) /\ Len(ids) = n + 1 /\ n \in Nat
        /\ DOMAIN old = 1 .. n /\ DOMAIN ids = 1 .. n + 1
        /\ \A i \in 1 .. n : ids[i] = old[i]
        /\ ids[n + 1] = b
    <3>1. /\ IsSeq(ids) /\ Len(ids) = n + 1 /\ ids[n + 1] = b
          /\ \A i \in 1 .. n : ids[i] = old[i]
      BY <2>4, <2>5, <2>8, AppendIsSeq
    <3>2. n \in Nat /\ DOMAIN old = 1 .. n
      BY <2>5, <2>8, IsSeqFacts
    <3>3. DOMAIN ids = 1 .. Len(ids)
      BY <3>1, IsSeqFacts
    <3> QED BY <3>1, <3>2, <3>3
  <2>10. Batched(w.after) = Batched(s) \cup UNION {Range(old[i]) : i \in DOMAIN old}
    BY <2>3 DEF Moved
  <2>11. \A i \in 1 .. n : Range(old[i]) \cap Range(b) = {}
    <3>1. \A i \in 1 .. n : Range(old[i]) \subseteq Batched(w.after)
      BY <2>9, <2>10
    <3> QED BY <2>7, <3>1
  <2>12. Batched(s) \subseteq Batched(w.after)
    BY <2>10
  <2>13. \A i \in 1 .. n + 1 : i \in 1 .. n \/ i = n + 1
    BY <2>9
  <2>14. Apart(ids)
    <3>1. ASSUME NEW i \in 1 .. n + 1 PROVE IsSeq(ids[i]) /\ IsInjective(ids[i])
      <4>1. CASE i \in 1 .. n
        BY <2>5, <2>9, <4>1 DEF Apart
      <4>2. CASE i = n + 1
        BY <2>6, <2>9, <4>2
      <4> QED BY <2>13, <4>1, <4>2
    <3>2. ASSUME NEW i \in 1 .. n + 1, NEW j \in 1 .. n + 1, i # j
          PROVE  Range(ids[i]) \cap Range(ids[j]) = {}
      <4>1. CASE i \in 1 .. n /\ j \in 1 .. n
        BY <2>5, <2>9, <3>2, <4>1 DEF Apart
      <4>2. CASE i = n + 1 /\ j \in 1 .. n
        BY <2>9, <2>11, <4>2
      <4>3. CASE i \in 1 .. n /\ j = n + 1
        BY <2>9, <2>11, <4>3
      <4> QED BY <2>13, <3>2, <4>1, <4>2, <4>3
    <3> QED BY <2>9, <3>1, <3>2 DEF Apart
  <2>15. d.running = s.running + Len(ids) /\ d.running <= NumStages
    <3>1. PICK x, m : x = w.after.running /\ m = s.running
      OBVIOUS
    <3>2. x = m + n /\ m \in Nat /\ n \in Nat /\ NumStages \in Nat /\ x < NumStages
      BY <1>2, <2>3, <2>8, <2>9, <3>1, SimulatorAssumption DEF Moved
    <3>3. d.running = x + 1 /\ Len(ids) = n + 1
      BY <2>7, <2>9, <3>1
    <3> QED BY <3>1, <3>2, <3>3
  <2>16. Range(d.queue) \cup d.allocated = Range(s.queue) \cup s.allocated
    BY <2>7 DEF Moved
  <2>17. Batched(d) = Batched(s) \cup UNION {Range(ids[i]) : i \in DOMAIN ids}
    <3>1. ASSUME NEW i \in 1 .. n + 1
          PROVE  Range(ids[i]) \subseteq Batched(d)
      <4>1. CASE i \in 1 .. n
        BY <2>7, <2>9, <2>10, <4>1
      <4>2. CASE i = n + 1
        BY <2>7, <2>9, <4>2
      <4> QED BY <2>13, <4>1, <4>2
    <3>2. n + 1 \in 1 .. n + 1 /\ \A i \in 1 .. n : i \in 1 .. n + 1
      BY <2>9
    <3>3. ASSUME NEW x \in Batched(d), x \notin Batched(s)
          PROVE  \E i \in 1 .. n + 1 : x \in Range(ids[i])
      <4>1. CASE x \in Range(b)
        BY <2>9, <3>2, <4>1
      <4>2. CASE x \notin Range(b)
        <5>1. PICK i \in 1 .. n : x \in Range(old[i])
          BY <2>7, <2>9, <2>10, <3>3, <4>2
        <5> QED BY <2>9, <3>2, <5>1
      <4> QED BY <4>1, <4>2
    <3> QED BY <2>7, <2>9, <2>12, <3>1, <3>3
  <2>18. \A i \in DOMAIN ids : Range(ids[i]) \cap Batched(s) = {}
    <3>1. \A i \in 1 .. n : Range(old[i]) \cap Batched(s) = {}
      BY <2>3, <2>9 DEF Moved
    <3>2. Range(b) \cap Batched(s) = {}
      BY <2>7, <2>12
    <3> QED BY <2>9, <2>13, <3>1, <3>2
  <2>19. Moved(s, v)
    BY <2>3, <2>4, <2>7, <2>9, <2>14, <2>15, <2>16, <2>17, <2>18 DEF Moved
  <2> QED BY <2>3, <2>19
<1> QED BY <1>1, <1>2

(* And so does on_schedule.                                                 *)
LEMMA OnScheduleMoves ==
    ASSUME NEW s, Sound(s), s.running <= NumStages
    PROVE  Moved(s, OnSchedule(s))
<1>1. PICK f : RoundsOf(s, f) /\ OnSchedule(s) = f[NumStages]
  BY OnScheduleDef
<1>2. NumStages \in Nat
  BY SimulatorAssumption
<1>3. \A n \in 0 .. NumStages :
        f[n] = IF n = 0 THEN [after |-> s, batches |-> <<>>] ELSE Round(f[n - 1])
  BY <1>1 DEF RoundsOf
<1>4. s.running \in Nat
  BY DEF Sound, SchedulerInv
<1> DEFINE T == {n \in Nat : n <= NumStages => Moved(s, f[n])}
<1>5. 0 \in T
  <2>1. PICK w : w = [after |-> s, batches |-> <<>>]
    OBVIOUS
  <2>2. w.after = s /\ w.batches = <<>>
    BY <2>1
  <2>3. IsSeq(<<>>) /\ Len(<<>>) = 0 /\ DOMAIN <<>> = {}
    BY EmptySeq DEF IsSeq, Range
  <2>4. Moved(s, w)
    BY <1>4, <2>2, <2>3 DEF Moved, Apart
  <2>5. f[0] = w
    BY <1>2, <1>3, <2>1
  <2> QED BY <2>4, <2>5
<1>6. ASSUME NEW n \in Nat, n \in T PROVE n + 1 \in T
  <2> SUFFICES ASSUME n + 1 <= NumStages PROVE Moved(s, f[n + 1])
    OBVIOUS
  <2>1. PICK m : m = n + 1
    OBVIOUS
  <2>2. m \in 0 .. NumStages /\ m # 0 /\ m - 1 = n /\ n <= NumStages
    BY <1>2, <2>1
  <2>3. f[m] = Round(f[n])
    BY <1>3, <2>2
  <2>4. Moved(s, f[n])
    BY <1>6, <2>2
  <2> QED BY <1>4, <2>1, <2>3, <2>4, RoundMoves
<1>7. NumStages \in T
  <2> HIDE DEF T
  <2>1. Nat \subseteq T
    BY <1>5, <1>6, SetInduction
  <2> QED BY <1>2, <2>1
<1> QED BY <1>1, <1>2, <1>7

-----------------------------------------------------------------------------
(* Every action keeps the requests together. *)

(* Only the arrival of a request takes one from those still to arrive.      *)
LEMMA ArrivalsKept ==
    ASSUME NEW e \in event_queue, NEW events, Handled(e, events),
           e.call.type # "request_arrival",
           \A i \in DOMAIN events : events[i].call.type # "request_arrival"
    PROVE  Calls("request_arrival")' = Calls("request_arrival") /\ terminate' \in BOOLEAN
<1>1. event_queue' = (event_queue \ {e}) \cup {Fresh(events, i) : i \in DOMAIN events}
  BY DEF Handled, Numbered, Fresh
<1>2. \A i \in DOMAIN events : Fresh(events, i).call.type # "request_arrival"
  BY DEF Fresh
<1>3. Calls("request_arrival")' = Calls("request_arrival")
  BY <1>1, <1>2 DEF Calls
<1>4. terminate' \in BOOLEAN
  BY DEF Handled, SetTime
<1> QED BY <1>3, <1>4

(* The owners are as they were when no request moves between them.          *)
LEMMA OwnersKept ==
    ASSUME OwnerInv, CountInv, Calls("request_arrival")' = Calls("request_arrival"),
           UNCHANGED global, Live' = Live, \A r \in Replicas : Owned(r)' = Owned(r)
    PROVE  OwnerInv' /\ CountInv'
<1>1. global_queue' = global_queue /\ request_counter' = request_counter
  BY DEF global
<1>2. Coming' = Coming
  BY DEF Coming
<1>3. CountInv'
  BY <1>1 DEF CountInv
<1>4. UNION {Owned(r) : r \in Replicas}' = UNION {Owned(r) : r \in Replicas}
  OBVIOUS
<1>5. OwnerInv'
  BY <1>1, <1>2, <1>4 DEF OwnerInv
<1> QED BY <1>3, <1>5

(* A replica that nothing happens to keeps what it has.                     *)
LEMMA HeldKept ==
    ASSUME NEW r \in Replicas, HeldInv(r), scheduler'[r] = scheduler[r],
           in_flight'[r] = in_flight[r]
    PROVE  HeldInv(r)' /\ Owned(r)' = Owned(r)
BY DEF HeldInv, BatchInv, Owned

(* The events of the pipeline's stages move no request.                     *)
LEMMA PipelineConserves ==
    ASSUME ConservedInv, FifoInv', NEW e \in event_queue, NEW events, Handled(e, events),
           e.call.type # "request_arrival",
           \A i \in DOMAIN events : events[i].call.type # "request_arrival",
           UNCHANGED <<global, scheduler, in_flight, req>>
    PROVE  ConservedInv'
<1>1. Calls("request_arrival")' = Calls("request_arrival") /\ terminate' \in BOOLEAN
  BY ArrivalsKept
<1>2. UNCHANGED global /\ scheduler' = scheduler /\ in_flight' = in_flight /\ req' = req
  OBVIOUS
<1>3. ASSUME NEW r \in Replicas PROVE HeldInv(r)' /\ Owned(r)' = Owned(r)
  <2>1. HeldInv(r) /\ scheduler'[r] = scheduler[r] /\ in_flight'[r] = in_flight[r]
    BY <1>2 DEF ConservedInv
  <2> QED BY <2>1, HeldKept
<1>4. Live' = Live /\ \A r \in Replicas : Owned(r)' = Owned(r)
  BY <1>2, <1>3 DEF Live
<1>5. OwnerInv' /\ CountInv'
  BY <1>1, <1>2, <1>4, OwnersKept DEF ConservedInv
<1> QED BY <1>1, <1>3, <1>5 DEF ConservedInv

(* BatchStageArrivalEvent *)
LEMMA StageArrivalConserves == ConservedInv /\ BatchStageArrival => ConservedInv'
<1> SUFFICES ASSUME ConservedInv, BatchStageArrival PROVE ConservedInv'
  OBVIOUS
<1>1. FifoInv'
  BY StageArrivalKeepsOrder DEF ConservedInv
<1>2. PICK e \in Popped("batch_stage_arrival") :
        /\ Handled(e, <<At(e.time, [type |-> "replica_stage_schedule",
                            replica |-> e.call.replica, stage |-> e.call.stage])>>)
        /\ UNCHANGED <<global, scheduler, in_flight, req>>
  BY DEF BatchStageArrival, history
<1>3. e \in event_queue /\ e.call.type # "request_arrival"
  BY DEF Popped
<1>4. PICK x : x = At(e.time, [type |-> "replica_stage_schedule",
                            replica |-> e.call.replica, stage |-> e.call.stage])
  OBVIOUS
<1>5. PICK events : events = <<x>>
  OBVIOUS
<1>6. \A i \in DOMAIN events : events[i].call.type # "request_arrival"
  BY <1>4, <1>5 DEF At
<1>7. Handled(e, events)
  BY <1>2, <1>4, <1>5
<1> QED BY <1>1, <1>2, <1>3, <1>6, <1>7, PipelineConserves

(* ReplicaStageScheduleEvent *)
LEMMA StageScheduleConserves == ConservedInv /\ ReplicaStageSchedule => ConservedInv'
<1> SUFFICES ASSUME ConservedInv, ReplicaStageSchedule PROVE ConservedInv'
  OBVIOUS
<1>1. FifoInv'
  BY StageScheduleKeepsOrder DEF ConservedInv
<1>2. PICK e \in Popped("replica_stage_schedule") : \E b :
        /\ \/ Handled(e, <<>>)
           \/ \E t \in ExecutionTimes :
                Handled(e, <<At(e.time + t,
                    [type |-> "batch_stage_end", replica |-> e.call.replica,
                     stage |-> e.call.stage, batch |-> b, execution_time |-> t])>>)
        /\ UNCHANGED <<global, scheduler, in_flight, req>>
  BY DEF ReplicaStageSchedule, history
<1>3. e \in event_queue /\ e.call.type # "request_arrival"
  BY DEF Popped
<1>4. CASE Handled(e, <<>>)
  <2>1. \A i \in DOMAIN <<>> : <<>>[i].call.type # "request_arrival"
    OBVIOUS
  <2> QED BY <1>1, <1>2, <1>3, <1>4, <2>1, PipelineConserves
<1>5. ASSUME NEW b, NEW t,
             Handled(e, <<At(e.time + t,
                    [type |-> "batch_stage_end", replica |-> e.call.replica,
                     stage |-> e.call.stage, batch |-> b, execution_time |-> t])>>)
      PROVE  ConservedInv'
  <2>1. PICK x : x = At(e.time + t,
                    [type |-> "batch_stage_end", replica |-> e.call.replica,
                     stage |-> e.call.stage, batch |-> b, execution_time |-> t])
    OBVIOUS
  <2>2. PICK events : events = <<x>>
    OBVIOUS
  <2>3. \A i \in DOMAIN events : events[i].call.type # "request_arrival"
    BY <2>1, <2>2 DEF At
  <2>4. Handled(e, events)
    BY <1>5, <2>1, <2>2
  <2> QED BY <1>1, <1>2, <1>3, <2>3, <2>4, PipelineConserves
<1> QED BY <1>2, <1>4, <1>5

(* BatchStageEndEvent *)
LEMMA StageEndConserves == ConservedInv /\ BatchStageEnd => ConservedInv'
<1> SUFFICES ASSUME ConservedInv, BatchStageEnd PROVE ConservedInv'
  OBVIOUS
<1>1. FifoInv'
  BY StageEndKeepsOrder DEF ConservedInv
<1>2. PICK e \in Popped("batch_stage_end") : \E x, y :
        /\ x.call.type # "request_arrival" /\ y.call.type # "request_arrival"
        /\ Handled(e, <<x, y>>)
        /\ UNCHANGED <<global, scheduler, in_flight, req>>
  <2>1. PICK e \in Popped("batch_stage_end") :
        LET c == e.call
            again == At(e.time, [type |-> "replica_stage_schedule",
                                 replica |-> c.replica, stage |-> c.stage])
            onward == IF c.stage = NumStages - 1
                      THEN At(e.time, [type |-> "batch_end", replica |-> c.replica,
                                       batch |-> c.batch])
                      ELSE At(e.time, [type |-> "batch_stage_arrival",
                                       replica |-> c.replica, stage |-> c.stage + 1,
                                       batch |-> c.batch])
        IN  /\ Handled(e, <<again, onward>>)
            /\ UNCHANGED <<global, scheduler, in_flight, req>>
    BY DEF BatchStageEnd, history
  <2>2. PICK x : x = At(e.time, [type |-> "replica_stage_schedule",
                                 replica |-> e.call.replica, stage |-> e.call.stage])
    OBVIOUS
  <2>3. PICK y : y = IF e.call.stage = NumStages - 1
                      THEN At(e.time, [type |-> "batch_end", replica |-> e.call.replica,
                                       batch |-> e.call.batch])
                      ELSE At(e.time, [type |-> "batch_stage_arrival",
                                       replica |-> e.call.replica, stage |-> e.call.stage + 1,
                                       batch |-> e.call.batch])
    OBVIOUS
  <2>4. x.call.type # "request_arrival"
    BY <2>2 DEF At
  <2>5. y.call.type # "request_arrival"
    BY <2>3 DEF At
  <2>6. Handled(e, <<x, y>>) /\ UNCHANGED <<global, scheduler, in_flight, req>>
    BY <2>1, <2>2, <2>3
  <2> QED BY <2>4, <2>5, <2>6
<1>3. e \in event_queue /\ e.call.type # "request_arrival"
  BY DEF Popped
<1>4. PICK x, y : /\ x.call.type # "request_arrival" /\ y.call.type # "request_arrival"
                  /\ Handled(e, <<x, y>>)
  BY <1>2
<1>5. PICK events : events = <<x, y>>
  OBVIOUS
<1>6. \A i \in DOMAIN events : events[i].call.type # "request_arrival"
  BY <1>4, <1>5
<1>7. Handled(e, events)
  BY <1>4, <1>5
<1> QED BY <1>1, <1>2, <1>3, <1>6, <1>7, PipelineConserves

(* RequestArrivalEvent: the request of the event goes to the global queue.  *)
LEMMA ArrivalConserves == ConservedInv /\ RequestArrival => ConservedInv'
<1> SUFFICES ASSUME ConservedInv, RequestArrival PROVE ConservedInv'
  OBVIOUS
<1>1. FifoInv' /\ OwnerInv /\ CountInv /\ DueInv
  BY ArrivalKeepsOrder DEF ConservedInv, FifoInv
<1>2. PICK e \in Popped("request_arrival") :
        /\ global_queue' = Append(global_queue, e.call.request)
        /\ Handled(e, <<At(e.time, [type |-> "global_schedule"])>>)
        /\ UNCHANGED <<request_counter, scheduler, in_flight, req>>
  BY DEF RequestArrival, history
<1>3. PICK A, q : A = Calls("request_arrival") /\ q = e.call.request
  OBVIOUS
<1>4. e \in event_queue /\ e \in A
  BY <1>3 DEF Popped, Calls
<1>5. Calls("request_arrival")' = A \ {e} /\ terminate' \in BOOLEAN
  <2>1. PICK x : x = At(e.time, [type |-> "global_schedule"])
    OBVIOUS
  <2>2. PICK events : events = <<x>>
    OBVIOUS
  <2>3. event_queue' = (event_queue \ {e}) \cup {Fresh(events, i) : i \in DOMAIN events}
    BY <1>2, <2>1, <2>2 DEF Handled, Numbered, Fresh
  <2>4. \A i \in DOMAIN events : Fresh(events, i).call.type # "request_arrival"
    BY <2>1, <2>2 DEF Fresh, At
  <2>5. terminate' \in BOOLEAN
    BY <1>2 DEF Handled, SetTime
  <2> QED BY <1>3, <2>3, <2>4, <2>5 DEF Calls
<1>6. q \in Requests /\ q \in Coming /\ Coming' = Coming \ {q}
  <2>1. \A f \in A : f.call.request \in Requests /\ f.id = f.call.request
    BY <1>1, <1>3 DEF OwnerInv
  <2>2. \A f \in A : f # e => f.call.request # q
    <3>1. \A f \in A : f \in event_queue
      BY <1>3 DEF Calls
    <3> QED BY <1>1, <1>3, <1>4, <2>1, <3>1 DEF DueInv
  <2>3. Coming = {f.call.request : f \in A} /\ Coming' = {f.call.request : f \in A \ {e}}
    BY <1>3, <1>5 DEF Coming
  <2> QED BY <1>3, <1>4, <2>1, <2>2, <2>3
<1>7. /\ global_queue' \in Seq(Requests) /\ IsInjective(global_queue')
      /\ Range(global_queue') = Range(global_queue) \cup {q}
      /\ Len(global_queue') = Len(global_queue) + 1 /\ Len(global_queue) \in Nat
  <2>1. /\ global_queue \in Seq(Requests) /\ IsInjective(global_queue)
        /\ q \notin Range(global_queue) /\ global_queue' = Append(global_queue, q)
    BY <1>1, <1>2, <1>3, <1>6 DEF OwnerInv
  <2> QED BY <1>6, <2>1, AppendRange, AppendProperties
<1>8. CountInv'
  <2>1. IsFiniteSet(A) /\ IsFiniteSet(A \ {e}) /\ Cardinality(A \ {e}) = Cardinality(A) - 1
    BY <1>1, <1>3, <1>4, FS_RemoveElement DEF CountInv
  <2>2. Cardinality(A) \in Nat
    BY <2>1, FS_CardinalityType
  <2>3. request_counter + Len(global_queue) + Cardinality(A) <= NumRequests
    BY <1>1, <1>3 DEF CountInv
  <2>4. request_counter \in Nat /\ NumRequests \in Nat /\ request_counter' = request_counter
    BY <1>2, SimulatorAssumption DEF ConservedInv, FifoInv, WakeInv, PartsInv
  <2>5. PICK l, m, n : l = Len(global_queue) /\ m = Cardinality(A) /\ n = request_counter
    OBVIOUS
  <2>6. n + (l + 1) + (m - 1) <= NumRequests
    BY <1>7, <2>2, <2>3, <2>4, <2>5
  <2> QED BY <1>5, <1>7, <2>1, <2>4, <2>5, <2>6 DEF CountInv
<1>9. Live' = Live /\ \A r \in Replicas : Owned(r)' = Owned(r)
  BY <1>2 DEF Live, Owned
<1>10. OwnerInv'
  <2>1. \A f \in Calls("request_arrival")' : f.call.request \in Requests /\ f.id = f.call.request
    BY <1>1, <1>3, <1>5 DEF OwnerInv
  <2>2. Live' = Coming' \cup Range(global_queue') \cup UNION {Owned(r)' : r \in Replicas}
    BY <1>1, <1>6, <1>7, <1>9 DEF OwnerInv
  <2>3. Coming' \cap Range(global_queue') = {}
    BY <1>1, <1>6, <1>7 DEF OwnerInv
  <2>4. Coming' \cup Range(global_queue') = Coming \cup Range(global_queue)
    BY <1>6, <1>7
  <2>5. ASSUME NEW r \in Replicas
        PROVE  /\ Owned(r)' \cap (Coming' \cup Range(global_queue')) = {}
               /\ \A s \in Replicas \ {r} : Owned(r)' \cap Owned(s)' = {}
    BY <1>1, <1>9, <2>4 DEF OwnerInv
  <2> QED BY <1>7, <2>1, <2>2, <2>3, <2>5 DEF OwnerInv
<1>11. \A r \in Replicas : HeldInv(r)'
  BY <1>2 DEF ConservedInv, HeldInv, BatchInv
<1> QED BY <1>1, <1>5, <1>8, <1>10, <1>11 DEF ConservedInv

(* GlobalScheduleEvent: the requests of the global queue go to the replicas *)
(* they are placed at.                                                      *)
LEMMA GlobalConserves == ConservedInv /\ GlobalSchedule => ConservedInv'
<1> SUFFICES ASSUME ConservedInv, GlobalSchedule PROVE ConservedInv'
  OBVIOUS
<1>1. /\ FifoInv' /\ OwnerInv /\ CountInv /\ PartsInv
      /\ global_queue \in Seq(Requests) /\ IsInjective(global_queue)
  BY GlobalKeepsOrder DEF ConservedInv, FifoInv, WakeInv, OwnerInv
<1>2. PICK e \in Popped("global_schedule") :
        \E placed \in Placements(Len(global_queue)) :
            \E order \in SetToSeqs(Range(placed)) : Spread(e, placed, order)
  BY DEF GlobalSchedule, Spread
<1> PICK placed \in Placements(Len(global_queue)) :
        \E order \in SetToSeqs(Range(placed)) : Spread(e, placed, order)
  BY <1>2
<1> PICK order \in SetToSeqs(Range(placed)) : Spread(e, placed, order)
  OBVIOUS
<1>3. PICK G : G = DOMAIN global_queue
  OBVIOUS
<1>4. /\ Len(global_queue) \in Nat /\ G = 1 .. Len(global_queue)
      /\ DOMAIN placed = G /\ \A k \in G : placed[k] \in Replicas
  <2>1. Len(global_queue) \in Nat /\ G = 1 .. Len(global_queue)
    BY <1>1, <1>3, LenProperties
  <2>2. placed \in Seq(Replicas) /\ DOMAIN placed = 1 .. Len(global_queue)
    BY <1>1, <2>1, PlacementFacts
  <2>3. placed \in [1 .. Len(placed) -> Replicas] /\ DOMAIN placed = 1 .. Len(placed)
    BY <2>2, LenProperties
  <2> QED BY <2>1, <2>2, <2>3
<1>5. e \in event_queue /\ e.call.type # "request_arrival"
  BY DEF Popped
<1>6. Calls("request_arrival")' = Calls("request_arrival") /\ terminate' \in BOOLEAN
  <2>1. PICK events : events = [k \in DOMAIN order |->
            At(e.time, [type |-> "replica_schedule", replica |-> order[k],
                        cause |-> "arrival"])]
    OBVIOUS
  <2>2. \A i \in DOMAIN events : events[i].call.type # "request_arrival"
    BY <2>1 DEF At
  <2>3. Handled(e, events)
    BY <2>1 DEF Spread
  <2> QED BY <1>5, <2>2, <2>3, ArrivalsKept
<1>7. /\ global_queue' = <<>> /\ req' = req /\ in_flight' = in_flight
      /\ request_counter' = IF policy = "round_robin"
            THEN request_counter + Len(global_queue) ELSE request_counter
  BY DEF Spread, history
<1>8. <<>> \in Seq(Requests) /\ IsInjective(<<>>) /\ Range(<<>>) = {} /\ Len(<<>>) = 0
  BY EmptySeq DEF IsInjective, Range
<1>9. CountInv'
  <2>1. PICK l, m, n :
            l = Len(global_queue) /\ m = Cardinality(Calls("request_arrival"))
                /\ n = request_counter
    OBVIOUS
  <2>2. /\ n \in Nat /\ l \in Nat /\ m \in Nat /\ NumRequests \in Nat
        /\ n + l + m <= NumRequests
    BY <1>1, <1>4, <2>1, SimulatorAssumption, FS_CardinalityType DEF CountInv, PartsInv
  <2>3. request_counter' \in Nat /\ request_counter' <= n + l
    BY <1>7, <2>1, <2>2
  <2>4. PICK c : c = request_counter'
    OBVIOUS
  <2>5. c \in Nat /\ c <= n + l
    BY <2>3, <2>4
  <2>6. c + 0 + m <= NumRequests
    BY <2>2, <2>5
  <2> QED BY <1>1, <1>6, <1>7, <1>8, <2>1, <2>4, <2>6 DEF CountInv
<1>10. PICK at : at = [r \in Replicas |-> Range(Share(placed, r))]
  OBVIOUS
<1>11. ASSUME NEW r \in Replicas
       PROVE  /\ Share(placed, r) \in Seq(Requests) /\ IsInjective(Share(placed, r))
              /\ at[r] = Range(Share(placed, r))
              /\ at[r] = {SortedQueue[k] : k \in {k \in G : placed[k] = r}}
  BY <1>1, <1>3, <1>4, <1>10, ShareFacts
<1>12. /\ \A k \in G : SortedQueue[k] \in Range(global_queue)
       /\ \A q \in Range(global_queue) : \E k \in G : SortedQueue[k] = q
       /\ \A j, k \in G : SortedQueue[j] = SortedQueue[k] => j = k
  <2>1. /\ DOMAIN SortedQueue = G /\ IsInjective(SortedQueue)
        /\ Range(SortedQueue) = Range(global_queue)
    BY <1>1, <1>3, SortedFacts
  <2> QED BY <2>1 DEF Range, IsInjective
<1>13. /\ \A r \in Replicas : at[r] \subseteq Range(global_queue)
       /\ \A q \in Range(global_queue) : \E r \in Replicas : q \in at[r]
       /\ \A r, s \in Replicas : r # s => at[r] \cap at[s] = {}
  <2>1. \A r \in Replicas : at[r] \subseteq Range(global_queue)
    BY <1>11, <1>12
  <2>2. ASSUME NEW q \in Range(global_queue) PROVE \E r \in Replicas : q \in at[r]
    <3>1. PICK k \in G : SortedQueue[k] = q
      BY <1>12
    <3> QED BY <1>4, <1>11, <3>1
  <2>3. ASSUME NEW r \in Replicas, NEW s \in Replicas, r # s, NEW q \in at[r] \cap at[s]
        PROVE  FALSE
    <3>1. PICK j \in G : placed[j] = r /\ SortedQueue[j] = q
      BY <1>11, <2>3
    <3>2. PICK k \in G : placed[k] = s /\ SortedQueue[k] = q
      BY <1>11, <2>3
    <3> QED BY <1>12, <2>3, <3>1, <3>2
  <2> QED BY <2>1, <2>2, <2>3
<1>14. ASSUME NEW r \in Replicas
       PROVE  /\ HeldInv(r)' /\ Owned(r)' = Owned(r) \cup at[r]
  <2>1. PICK s, more, t : s = scheduler[r] /\ more = Share(placed, r) /\ t = scheduler'[r]
    OBVIOUS
  <2>2. SchedulerInv(s)
    BY <1>1, <2>1 DEF PartsInv
  <2>3. t = Given(s, more)
    BY <2>1 DEF Spread, Given, Share
  <2>4. /\ t.queue = s.queue \o more /\ t.preempted = s.preempted
        /\ t.allocated = s.allocated /\ t.running = s.running
    BY <2>2, <2>3 DEF Given, SchedulerInv
  <2>5. /\ s.queue \in Seq(Requests) /\ IsInjective(s.queue)
        /\ s.preempted \in Seq(Requests) /\ IsInjective(s.preempted)
        /\ Range(s.queue) \cap s.allocated = {}
        /\ s.allocated = Range(s.preempted) \cup UNION {Members(b) : b \in Range(in_flight[r])}
        /\ \A b \in Range(in_flight[r]) : BatchInv(r, b)
        /\ s.running = Len(in_flight[r]) /\ s.running <= NumStages
    BY <2>1 DEF ConservedInv, HeldInv
  <2>6. Owned(r) = Range(s.queue) \cup s.allocated /\ Owned(r) \cap Range(global_queue) = {}
    BY <1>1, <2>1 DEF Owned, OwnerInv
  <2>7. at[r] = Range(more) /\ Range(more) \subseteq Range(global_queue)
    BY <1>11, <1>13, <2>1
  <2>8. more \in Seq(Requests) /\ IsInjective(more)
    BY <1>11, <2>1
  <2>9. /\ t.queue \in Seq(Requests) /\ IsInjective(t.queue)
        /\ Range(t.queue) = Range(s.queue) \cup at[r]
    <3>1. Range(s.queue) \cap Range(more) = {}
      BY <2>6, <2>7
    <3> QED BY <2>4, <2>5, <2>7, <2>8, <3>1, ConcatRange
  <2>10. Range(t.queue) \cap t.allocated = {}
    BY <2>4, <2>5, <2>6, <2>7, <2>9
  <2>11. \A b \in Range(in_flight'[r]) : BatchInv(r, b)'
    BY <1>7, <2>1, <2>4, <2>5 DEF BatchInv
  <2>12. HeldInv(r)'
    BY <1>7, <2>1, <2>4, <2>5, <2>9, <2>10, <2>11 DEF HeldInv
  <2>13. Owned(r)' = Owned(r) \cup at[r]
    BY <2>1, <2>4, <2>6, <2>9 DEF Owned
  <2> QED BY <2>12, <2>13
<1>15. OwnerInv'
  <2>1. Coming' = Coming /\ Live' = Live /\ Range(global_queue') = {}
    BY <1>6, <1>7, <1>8 DEF Coming, Live
  <2>2. UNION {Owned(r)' : r \in Replicas}
            = Range(global_queue) \cup UNION {Owned(r) : r \in Replicas}
    BY <1>13, <1>14
  <2>3. Live' = Coming' \cup Range(global_queue') \cup UNION {Owned(r)' : r \in Replicas}
    BY <1>1, <2>1, <2>2 DEF OwnerInv
  <2>4. ASSUME NEW r \in Replicas
        PROVE  /\ Owned(r)' \cap (Coming' \cup Range(global_queue')) = {}
               /\ \A s \in Replicas \ {r} : Owned(r)' \cap Owned(s)' = {}
    <3>1. Owned(r)' \cap Coming = {}
      BY <1>1, <1>13, <1>14 DEF OwnerInv
    <3>2. ASSUME NEW s \in Replicas \ {r} PROVE Owned(r)' \cap Owned(s)' = {}
      <4>1. Owned(r) \cap Owned(s) = {} /\ at[r] \cap at[s] = {}
        BY <1>1, <1>13 DEF OwnerInv
      <4>2. Owned(r) \cap at[s] = {} /\ Owned(s) \cap at[r] = {}
        BY <1>1, <1>13 DEF OwnerInv
      <4> QED BY <1>14, <4>1, <4>2
    <3> QED BY <2>1, <3>1, <3>2
  <2>5. \A f \in Calls("request_arrival")' : f.call.request \in Requests /\ f.id = f.call.request
    BY <1>1, <1>6 DEF OwnerInv
  <2>6. global_queue' \in Seq(Requests) /\ IsInjective(global_queue')
    BY <1>7, <1>8
  <2> QED BY <2>1, <2>3, <2>4, <2>5, <2>6 DEF OwnerInv
<1> QED BY <1>1, <1>6, <1>9, <1>14, <1>15 DEF ConservedInv

(* The scheduler of a replica is sound, and its batches hold what has       *)
(* memory and is not preempted.                                             *)
LEMMA HeldFacts ==
    ASSUME ConservedInv, NEW r \in Replicas, NEW s, s = scheduler[r]
    PROVE  /\ Sound(s) /\ s.running <= NumStages
           /\ Owned(r) = Range(s.queue) \cup s.allocated /\ Owned(r) \subseteq Live
           /\ Batched(s) = UNION {Members(b) : b \in Range(in_flight[r])}
           /\ \A b \in Range(in_flight[r]) : BatchInv(r, b) /\ Members(b) \subseteq Batched(s)
<1>1. SchedulerInv(s)
  BY DEF ConservedInv, FifoInv, WakeInv, PartsInv
<1>2. /\ s.queue \in Seq(Requests) /\ IsInjective(s.queue)
      /\ s.preempted \in Seq(Requests) /\ IsInjective(s.preempted)
      /\ Range(s.queue) \cap s.allocated = {}
      /\ s.allocated = Range(s.preempted) \cup UNION {Members(b) : b \in Range(in_flight[r])}
      /\ \A b \in Range(in_flight[r]) : BatchInv(r, b)
      /\ s.running <= NumStages
  BY DEF ConservedInv, HeldInv
<1>3. Sound(s)
  BY <1>1, <1>2 DEF Sound
<1>4. Owned(r) = Range(s.queue) \cup s.allocated
  BY DEF Owned
<1>5. Owned(r) \subseteq Live
  BY DEF ConservedInv, OwnerInv
<1>6. \A b \in Range(in_flight[r]) : Members(b) \cap Range(s.preempted) = {}
  BY <1>2 DEF BatchInv
<1>7. Batched(s) = UNION {Members(b) : b \in Range(in_flight[r])}
  BY <1>2, <1>6 DEF Batched
<1> QED BY <1>2, <1>3, <1>4, <1>5, <1>7

(* The requests of a new batch are those it was made of, each once.         *)
LEMMA BatchOfDistinct ==
    ASSUME NEW id, NEW ids, IsSeq(ids), IsInjective(ids), NEW t, NEW b,
           b = BatchOf(id, ids, t)
    PROVE  /\ IsSeq(b.entries) /\ Members(b) = Range(ids)
           /\ IsInjective([i \in DOMAIN b.entries |-> b.entries[i].id])
<1>1. IsSeq(b.entries) /\ Members(b) = Range(ids)
  BY BatchOfFacts
<1>2. b.entries = [i \in DOMAIN ids |-> Entry(ids[i])]
  BY DEF BatchOf
<1>3. PICK f : f = [i \in DOMAIN b.entries |-> b.entries[i].id]
  OBVIOUS
<1>4. DOMAIN f = DOMAIN ids /\ \A i \in DOMAIN ids : f[i] = ids[i]
  BY <1>2, <1>3 DEF Entry
<1>5. IsInjective(f)
  BY <1>4 DEF IsInjective
<1> QED BY <1>1, <1>3, <1>5

(* ReplicaScheduleEvent: requests that are queued or preempted go into new  *)
(* batches of the replica.                                                  *)
LEMMA ReplicaConserves == ConservedInv /\ ReplicaSchedule => ConservedInv'
<1> SUFFICES ASSUME ConservedInv, ReplicaSchedule PROVE ConservedInv'
  OBVIOUS
<1>1. /\ FifoInv' /\ OwnerInv /\ CountInv /\ HeapInv /\ PartsInv /\ DOMAIN in_flight = Replicas
      /\ \A q \in Replicas : HeldInv(q)
  BY ReplicaKeepsOrder DEF ConservedInv, FifoInv, WakeInv
<1>2. PICK e \in Popped("replica_schedule") :
        /\ Send(e, e.call.replica, OnSchedule(scheduler[e.call.replica]))
        /\ req' = req
  BY DEF ReplicaSchedule, Send, BatchOf, StageCall
<1>3. PICK r, s : r = e.call.replica /\ s = scheduler[r]
  OBVIOUS
<1>4. PICK w : w = OnSchedule(s)
  OBVIOUS
<1>5. Send(e, r, w)
  BY <1>2, <1>3, <1>4
<1>6. e \in event_queue /\ e.call.type # "request_arrival" /\ r \in Replicas
  BY <1>1, <1>3 DEF Popped, HeapInv, CallInv
<1>7. /\ Sound(s) /\ s.running <= NumStages
      /\ Owned(r) = Range(s.queue) \cup s.allocated /\ Owned(r) \subseteq Live
      /\ Batched(s) = UNION {Members(b) : b \in Range(in_flight[r])}
      /\ \A b \in Range(in_flight[r]) : BatchInv(r, b) /\ Members(b) \subseteq Batched(s)
  BY <1>3, <1>6, HeldFacts
<1>8. Moved(s, w)
  BY <1>4, <1>7, OnScheduleMoves
<1>9. PICK t, ids, new :
        /\ t = w.after /\ ids = w.batches
        /\ new = [k \in DOMAIN ids |-> BatchOf(last_batch_id + k, ids[k], e.time)]
  OBVIOUS
<1>10. /\ Sound(t) /\ IsSeq(ids) /\ Apart(ids)
       /\ t.running = s.running + Len(ids) /\ t.running <= NumStages
       /\ Range(t.queue) \cup t.allocated = Range(s.queue) \cup s.allocated
       /\ Batched(t) = Batched(s) \cup UNION {Range(ids[i]) : i \in DOMAIN ids}
       /\ \A i \in DOMAIN ids : Range(ids[i]) \cap Batched(s) = {}
  BY <1>8, <1>9 DEF Moved
<1>11. Calls("request_arrival")' = Calls("request_arrival") /\ terminate' \in BOOLEAN
  <2>1. PICK events : events = [k \in DOMAIN w.batches |->
            StageCall(r, BatchOf(last_batch_id + k, w.batches[k], e.time), e.time)]
    OBVIOUS
  <2>2. \A i \in DOMAIN events : events[i].call.type # "request_arrival"
    BY <2>1 DEF StageCall, At
  <2>3. Handled(e, events)
    BY <1>5, <2>1 DEF Send
  <2> QED BY <1>6, <2>2, <2>3, ArrivalsKept
<1>12. /\ scheduler'[r] = t /\ in_flight'[r] = in_flight[r] \o new
       /\ \A q \in Replicas \ {r} : scheduler'[q] = scheduler[q] /\ in_flight'[q] = in_flight[q]
       /\ UNCHANGED global /\ req' = req
  BY <1>1, <1>2, <1>5, <1>6, <1>9 DEF Send, PartsInv
<1>13. ASSUME NEW k \in DOMAIN ids
       PROVE  /\ IsSeq(new[k].entries) /\ Members(new[k]) = Range(ids[k])
              /\ IsInjective([i \in DOMAIN new[k].entries |-> new[k].entries[i].id])
  <2>1. IsSeq(ids[k]) /\ IsInjective(ids[k])
    BY <1>10 DEF Apart
  <2>2. PICK b : b = BatchOf(last_batch_id + k, ids[k], e.time)
    OBVIOUS
  <2>3. new[k] = b
    BY <1>9, <2>2
  <2> QED BY <2>1, <2>2, <2>3, BatchOfDistinct
<1>14. /\ IsSeq(new) /\ Len(new) = Len(ids) /\ DOMAIN new = DOMAIN ids
       /\ Range(new) = {new[k] : k \in DOMAIN ids}
  <2>1. Len(ids) \in Nat /\ DOMAIN ids = 1 .. Len(ids)
    BY <1>10, IsSeqFacts
  <2>2. new = [k \in 1 .. Len(ids) |-> new[k]] /\ DOMAIN new = DOMAIN ids
    BY <1>9, <2>1
  <2> QED BY <2>1, <2>2, FunctionIsSeq DEF Range
<1>15. PICK old, all : old = in_flight[r] /\ all = in_flight'[r]
  OBVIOUS
<1>16. IsSeq(old) /\ Range(all) = Range(old) \cup Range(new) /\ Len(all) = Len(old) + Len(new)
  <2>1. IsSeq(old)
    BY <1>6, <1>15 DEF ConservedInv, FifoInv, LineInv
  <2> QED BY <1>12, <1>14, <1>15, <2>1, ConcatIsSeq
<1>17. \A b \in Range(all) : b \in Range(old) \/ \E k \in DOMAIN ids : b = new[k]
  BY <1>14, <1>16
<1>18. \A b \in Range(old) : BatchInv(r, b) /\ Members(b) \subseteq Batched(s)
  BY <1>7, <1>15
<1>19. ASSUME NEW b \in Range(all)
       PROVE  Members(b) \subseteq Batched(t)
  <2>1. CASE b \in Range(old)
    BY <1>10, <1>18, <2>1
  <2>2. ASSUME NEW k \in DOMAIN ids, b = new[k] PROVE Members(b) \subseteq Batched(t)
    BY <1>10, <1>13, <2>2
  <2> QED BY <1>17, <2>1, <2>2
<1>20. ASSUME NEW b \in Range(all)
       PROVE  BatchInv(r, b)'
  <2>1. IsSeq(b.entries) /\ IsInjective([i \in DOMAIN b.entries |-> b.entries[i].id])
    <3>1. CASE b \in Range(old)
      BY <1>18, <3>1 DEF BatchInv
    <3>2. ASSUME NEW k \in DOMAIN ids, b = new[k]
          PROVE  IsSeq(b.entries) /\ IsInjective([i \in DOMAIN b.entries |-> b.entries[i].id])
      BY <1>13, <3>2
    <3> QED BY <1>17, <3>1, <3>2
  <2>2. Members(b) \cap Range(t.preempted) = {}
    BY <1>19 DEF Batched
  <2>3. ASSUME NEW c \in Range(all), c # b PROVE Members(b) \cap Members(c) = {}
    <3>1. CASE b \in Range(old) /\ c \in Range(old)
      BY <1>15, <1>18, <2>3, <3>1 DEF BatchInv
    <3>2. ASSUME NEW k \in DOMAIN ids, b = new[k], c \in Range(old)
          PROVE  Members(b) \cap Members(c) = {}
      BY <1>10, <1>13, <1>18, <3>2
    <3>3. ASSUME NEW k \in DOMAIN ids, c = new[k], b \in Range(old)
          PROVE  Members(b) \cap Members(c) = {}
      BY <1>10, <1>13, <1>18, <3>3
    <3>4. ASSUME NEW j \in DOMAIN ids, NEW k \in DOMAIN ids, b = new[j], c = new[k]
          PROVE  Members(b) \cap Members(c) = {}
      BY <1>10, <1>13, <2>3, <3>4 DEF Apart
    <3> QED BY <1>17, <3>1, <3>2, <3>3, <3>4
  <2> QED BY <1>12, <1>15, <2>1, <2>2, <2>3 DEF BatchInv
<1>21. Owned(r)' = Owned(r)
  BY <1>7, <1>10, <1>12 DEF Owned
<1>22. HeldInv(r)'
  <2>1. /\ IsSeq(t.queue) /\ IsInjective(t.queue) /\ IsSeq(t.preempted)
        /\ IsInjective(t.preempted) /\ Range(t.queue) \cap t.allocated = {}
        /\ Range(t.preempted) \subseteq t.allocated
    BY <1>10 DEF Sound, SchedulerInv
  <2>2. Range(t.queue) \subseteq Requests /\ t.allocated \subseteq Requests
    BY <1>7, <1>10 DEF Live
  <2>3. t.queue \in Seq(Requests) /\ t.preempted \in Seq(Requests)
    BY <2>1, <2>2, SeqWithin
  <2>4. Batched(t) = UNION {Members(b) : b \in Range(all)}
    <3>1. ASSUME NEW q \in Batched(t) PROVE \E b \in Range(all) : q \in Members(b)
      <4>1. CASE q \in Batched(s)
        BY <1>7, <1>15, <1>16, <4>1
      <4>2. ASSUME NEW k \in DOMAIN ids, q \in Range(ids[k])
            PROVE  \E b \in Range(all) : q \in Members(b)
        BY <1>13, <1>14, <1>16, <4>2
      <4> QED BY <1>10, <4>1, <4>2
    <3> QED BY <1>19, <3>1
  <2>5. t.allocated = Range(t.preempted) \cup UNION {Members(b) : b \in Range(all)}
    BY <2>1, <2>4 DEF Batched
  <2>6. t.running = Len(all)
    <3>1. PICK x, l, m : x = s.running /\ l = Len(old) /\ m = Len(ids)
      OBVIOUS
    <3>2. x = l
      BY <1>1, <1>3, <1>6, <1>15, <3>1 DEF HeldInv
    <3>3. t.running = x + m /\ Len(all) = l + m
      BY <1>10, <1>14, <1>16, <3>1
    <3> QED BY <3>2, <3>3
  <2> QED BY <1>10, <1>12, <1>15, <1>20, <2>1, <2>3, <2>5, <2>6 DEF HeldInv
<1>23. \A q \in Replicas : HeldInv(q)' /\ Owned(q)' = Owned(q)
  <2>1. \A q \in Replicas \ {r} : HeldInv(q)' /\ Owned(q)' = Owned(q)
    BY <1>1, <1>12, HeldKept
  <2> QED BY <1>21, <1>22, <2>1
<1>24. OwnerInv' /\ CountInv'
  <2>1. Live' = Live
    BY <1>12 DEF Live
  <2> QED BY <1>1, <1>11, <1>12, <1>23, <2>1, OwnersKept
<1> QED BY <1>1, <1>11, <1>23, <1>24 DEF ConservedInv

(* BatchEndEvent: of the requests of the batch, those that are completed    *)
(* leave the replica, and the others are preempted.                         *)
LEMMA BatchEndConserves == ConservedInv /\ BatchEnd => ConservedInv'
<1> SUFFICES ASSUME ConservedInv, BatchEnd PROVE ConservedInv'
  OBVIOUS
<1>1. /\ FifoInv' /\ FifoInv /\ OwnerInv /\ CountInv /\ HeapInv /\ PartsInv
      /\ DOMAIN in_flight = Replicas /\ \A q \in Replicas : HeldInv(q)
  BY BatchEndKeepsOrder DEF ConservedInv, FifoInv, WakeInv
<1>2. PICK e \in Popped("batch_end") :
        /\ \A q \in Requests \ Members(e.call.batch) : req'[q] = req[q]
        /\ scheduler' = [scheduler EXCEPT ![e.call.replica] =
                OnBatchEndOrca(@, [i \in DOMAIN e.call.batch.entries |->
                                        e.call.batch.entries[i].id],
                               {q \in Members(e.call.batch) : req'[q].completed})]
        /\ in_flight' = [in_flight EXCEPT ![e.call.replica] = Without(@, {e.call.batch})]
        /\ Handled(e, <<At(e.time, [type |-> "replica_schedule", replica |-> e.call.replica,
                                    cause |-> "batch_end"])>>)
        /\ UNCHANGED global
  <2>1. PICK e \in Popped("batch_end") :
        LET r == e.call.replica
            entries == e.call.batch.entries
            ended == Members(e.call.batch)
            tokens(q) == (CHOOSE x \in Range(entries) : x.id = q).tokens
            after == [q \in Requests |->
                        IF q \in ended THEN OnBatchEnd(req[q], tokens(q)) ELSE req[q]]
        IN  /\ req' = after
            /\ scheduler' = [scheduler EXCEPT ![r] =
                    OnBatchEndOrca(@, [i \in DOMAIN entries |-> entries[i].id],
                                   {q \in ended : after[q].completed})]
            /\ in_flight' = [in_flight EXCEPT ![r] = Without(@, {e.call.batch})]
            /\ Handled(e, <<At(e.time, [type |-> "replica_schedule", replica |-> r,
                                        cause |-> "batch_end"])>>)
            /\ UNCHANGED global
    BY DEF BatchEnd
  <2>2. PICK after :
        /\ req' = after
        /\ \A q \in Requests \ Members(e.call.batch) : after[q] = req[q]
        /\ scheduler' = [scheduler EXCEPT ![e.call.replica] =
                OnBatchEndOrca(@, [i \in DOMAIN e.call.batch.entries |->
                                        e.call.batch.entries[i].id],
                               {q \in Members(e.call.batch) : after[q].completed})]
    BY <2>1
  <2> QED BY <2>1, <2>2
<1>3. PICK r, b, s : r = e.call.replica /\ b = e.call.batch /\ s = scheduler[r]
  OBVIOUS
<1>4. /\ e \in event_queue /\ e.call.type = "batch_end" /\ r \in Replicas
      /\ e \in BatchEvents(r) /\ IsEnd(e.call, r, b)
  <2>1. e \in event_queue /\ e.call.type = "batch_end"
    BY DEF Popped
  <2> QED BY <1>1, <1>3, <2>1 DEF HeapInv, CallInv, BatchTypes, BatchEvents, IsEnd
<1>5. Calls("request_arrival")' = Calls("request_arrival") /\ terminate' \in BOOLEAN
  <2>1. PICK x : x = At(e.time, [type |-> "replica_schedule", replica |-> e.call.replica,
                                 cause |-> "batch_end"])
    OBVIOUS
  <2>2. PICK events : events = <<x>>
    OBVIOUS
  <2>3. \A i \in DOMAIN events : events[i].call.type # "request_arrival"
    BY <2>1, <2>2 DEF At
  <2>4. Handled(e, events) /\ e.call.type # "request_arrival"
    BY <1>2, <1>4, <2>1, <2>2
  <2> QED BY <1>4, <2>3, <2>4, ArrivalsKept
<1>6. PICK old, all : old = in_flight[r] /\ all = in_flight'[r]
  OBVIOUS
<1>7. /\ IsSeq(old) /\ old # <<>> /\ b = old[1] /\ b \in Range(old)
      /\ \A i \in 2 .. Len(old) : old[i] # b
  <2>1. LineInv(r) /\ EndInv(r)
    BY <1>1, <1>4 DEF FifoInv
  <2>2. old # <<>> /\ b = old[1]
    BY <1>1, <1>4, <1>6, <2>1, EndIsFirst
  <2>3. /\ IsSeq(old) /\ \A x \in Range(old) : x.id \in Nat
        /\ \A i, j \in DOMAIN old : i < j => old[i].id < old[j].id
    BY <1>6, <2>1 DEF LineInv
  <2>4. /\ DOMAIN old = 1 .. Len(old) /\ Len(old) \in Nat /\ Len(old) # 0
        /\ \A i \in 1 .. Len(old) : old[i] \in Range(old)
    BY <2>2, <2>3, IsSeqFacts
  <2>5. ASSUME NEW i \in 2 .. Len(old) PROVE old[i] # b
    <3>1. i \in DOMAIN old /\ 1 \in DOMAIN old /\ 1 < i
      BY <2>4
    <3>2. old[1].id < old[i].id /\ old[1].id \in Nat /\ old[i].id \in Nat
      BY <2>3, <2>4, <3>1
    <3> QED BY <2>2, <3>2
  <2> QED BY <2>2, <2>3, <2>4, <2>5
<1>8. /\ Range(all) = Range(old) \ {b} /\ Len(all) = Len(old) - 1 /\ Len(old) \in Nat
  <2>1. all = Without(old, {b})
    BY <1>1, <1>2, <1>3, <1>4, <1>6
  <2> QED BY <1>7, <2>1, WithoutFacts, WithoutHead, IsSeqFacts
<1>9. PICK ids, done, t :
        /\ ids = [i \in DOMAIN b.entries |-> b.entries[i].id]
        /\ done = {q \in Members(b) : req'[q].completed}
        /\ t = OnBatchEndOrca(s, ids, done)
  OBVIOUS
<1>10. /\ scheduler'[r] = t
       /\ \A q \in Replicas \ {r} : scheduler'[q] = scheduler[q] /\ in_flight'[q] = in_flight[q]
  <2>1. scheduler' = [scheduler EXCEPT ![r] = t]
    BY <1>2, <1>3, <1>9
  <2> QED BY <1>1, <1>2, <1>3, <1>4, <2>1 DEF PartsInv
<1>11. /\ Sound(s) /\ s.running <= NumStages
       /\ Owned(r) = Range(s.queue) \cup s.allocated /\ Owned(r) \subseteq Live
       /\ Batched(s) = UNION {Members(c) : c \in Range(old)}
       /\ \A c \in Range(old) : BatchInv(r, c) /\ Members(c) \subseteq Batched(s)
  BY <1>3, <1>4, <1>6, HeldFacts
<1>12. IsSeq(ids) /\ IsInjective(ids) /\ Range(ids) = Members(b) /\ done \subseteq Members(b)
  <2>1. IsSeq(b.entries) /\ IsInjective(ids)
    BY <1>7, <1>9, <1>11 DEF BatchInv
  <2>2. Len(b.entries) \in Nat /\ DOMAIN b.entries = 1 .. Len(b.entries)
    BY <2>1, IsSeqFacts
  <2>3. ids = [i \in 1 .. Len(b.entries) |-> ids[i]]
    BY <1>9, <2>2
  <2>4. IsSeq(ids)
    BY <2>2, <2>3, FunctionIsSeq
  <2>5. Range(ids) = Members(b)
    BY <1>9 DEF Range, Members
  <2> QED BY <1>9, <2>1, <2>4, <2>5
<1>13. PICK rest : rest = Without(ids, done)
  OBVIOUS
<1>14. IsSeq(rest) /\ IsInjective(rest) /\ Range(rest) = Members(b) \ done
  BY <1>12, <1>13, WithoutFacts, WithoutDistinct
<1>15. /\ t.queue = s.queue /\ t.preempted = s.preempted \o rest
       /\ t.allocated = s.allocated \ done /\ t.running = s.running - 1
  BY <1>9, <1>11, <1>13 DEF OnBatchEndOrca, Sound, SchedulerInv
<1>16. /\ s.queue \in Seq(Requests) /\ IsInjective(s.queue)
       /\ s.preempted \in Seq(Requests) /\ IsInjective(s.preempted)
       /\ Range(s.queue) \cap s.allocated = {}
       /\ s.allocated = Range(s.preempted) \cup UNION {Members(c) : c \in Range(old)}
       /\ s.running = Len(old) /\ s.running <= NumStages
  BY <1>1, <1>3, <1>4, <1>6 DEF HeldInv
<1>17. Members(b) \subseteq Requests /\ Members(b) \subseteq Owned(r)
  <2>1. Members(b) \subseteq Owned(r)
    BY <1>7, <1>11 DEF Batched
  <2> QED BY <1>11, <2>1 DEF Live
<1>18. /\ t.preempted \in Seq(Requests) /\ IsInjective(t.preempted)
       /\ Range(t.preempted) = Range(s.preempted) \cup (Members(b) \ done)
  <2>1. rest \in Seq(Requests)
    BY <1>14, <1>17, SeqWithin
  <2>2. Range(s.preempted) \cap Range(rest) = {}
    BY <1>7, <1>11, <1>14 DEF Batched
  <2> QED BY <1>14, <1>15, <1>16, <2>1, <2>2, ConcatRange
<1>19. \A c \in Range(all) : Members(c) \cap Members(b) = {} /\ c \in Range(old)
  <2>1. \A c \in Range(old) \ {b} : Members(b) \cap Members(c) = {}
    BY <1>6, <1>7, <1>11 DEF BatchInv
  <2> QED BY <1>8, <2>1
<1>20. t.allocated = Range(t.preempted) \cup UNION {Members(c) : c \in Range(all)}
  <2>1. ASSUME NEW q \in t.allocated
        PROVE  q \in Range(t.preempted) \/ \E c \in Range(all) : q \in Members(c)
    <3>1. q \in s.allocated /\ q \notin done
      BY <1>15
    <3>2. CASE q \in Range(s.preempted)
      BY <1>18, <3>2
    <3>3. ASSUME NEW c \in Range(old), q \in Members(c)
          PROVE  q \in Range(t.preempted) \/ \E d \in Range(all) : q \in Members(d)
      <4>1. CASE c = b
        BY <1>18, <3>1, <3>3, <4>1
      <4>2. CASE c # b
        BY <1>8, <3>3, <4>2
      <4> QED BY <4>1, <4>2
    <3> QED BY <1>16, <3>1, <3>2, <3>3
  <2>2. ASSUME NEW q \in Range(t.preempted) PROVE q \in t.allocated
    <3>1. q \in Range(s.preempted) => q \notin Members(b)
      BY <1>7, <1>11 DEF Batched
    <3>2. Members(b) \subseteq s.allocated
      BY <1>7, <1>16
    <3> QED BY <1>12, <1>15, <1>16, <1>18, <3>1, <3>2
  <2>3. ASSUME NEW c \in Range(all) PROVE Members(c) \subseteq t.allocated
    BY <1>12, <1>15, <1>16, <1>19
  <2> QED BY <2>1, <2>2, <2>3
<1>21. ASSUME NEW c \in Range(all) PROVE BatchInv(r, c)'
  <2>1. BatchInv(r, c) /\ c \in Range(old)
    BY <1>11, <1>19
  <2>2. IsSeq(c.entries) /\ IsInjective([i \in DOMAIN c.entries |-> c.entries[i].id])
    BY <2>1 DEF BatchInv
  <2>3. Members(c) \cap Range(t.preempted) = {}
    <3>1. Members(c) \cap Range(s.preempted) = {}
      BY <1>3, <2>1 DEF BatchInv
    <3> QED BY <1>18, <1>19, <3>1
  <2>4. \A d \in Range(all) \ {c} : Members(c) \cap Members(d) = {}
    BY <1>6, <1>19, <2>1 DEF BatchInv
  <2> QED BY <1>6, <1>10, <2>2, <2>3, <2>4 DEF BatchInv
<1>22. HeldInv(r)'
  <2>1. Range(t.queue) \cap t.allocated = {}
    BY <1>15, <1>16
  <2>2. t.running = Len(all) /\ t.running <= NumStages
    <3>1. PICK n, x : n = Len(old) /\ x = s.running
      OBVIOUS
    <3>2. n \in Nat /\ x = n /\ x <= NumStages /\ NumStages \in Nat
      BY <1>8, <1>16, <3>1, SimulatorAssumption
    <3>3. t.running = x - 1 /\ Len(all) = n - 1
      BY <1>8, <1>15, <3>1
    <3> QED BY <3>2, <3>3
  <2> QED BY <1>6, <1>10, <1>15, <1>16, <1>18, <1>20, <1>21, <2>1, <2>2 DEF HeldInv
<1>23. \A q \in Replicas \ {r} : HeldInv(q)' /\ Owned(q)' = Owned(q)
  BY <1>1, <1>10, HeldKept
<1>24. Owned(r)' = Owned(r) \ done
  <2>1. Range(s.queue) \cap done = {}
    BY <1>7, <1>12, <1>16
  <2> QED BY <1>10, <1>11, <1>15, <2>1 DEF Owned
<1>25. Live' = Live \ done
  <2>1. \A q \in Requests \ Members(b) : req'[q] = req[q]
    BY <1>2, <1>3
  <2> QED BY <1>9, <1>11, <1>17, <2>1 DEF Live
<1>26. CountInv' /\ Coming' = Coming /\ global_queue' = global_queue
  BY <1>1, <1>2, <1>5 DEF CountInv, Coming, global
<1>27. OwnerInv'
  <2>1. \A q \in Replicas \ {r} : Owned(q) \cap Owned(r) = {}
    BY <1>1, <1>4 DEF OwnerInv
  <2>2. Owned(r) \cap (Coming \cup Range(global_queue)) = {} /\ done \subseteq Owned(r)
    BY <1>1, <1>4, <1>12, <1>17 DEF OwnerInv
  <2>3. Live' = Coming' \cup Range(global_queue') \cup UNION {Owned(q)' : q \in Replicas}
    <3>1. Live = Coming \cup Range(global_queue) \cup UNION {Owned(q) : q \in Replicas}
      BY <1>1 DEF OwnerInv
    <3>2. ASSUME NEW x, x \in UNION {Owned(q)' : q \in Replicas}
          PROVE  x \in (UNION {Owned(q) : q \in Replicas}) \ done
      BY <1>4, <1>23, <1>24, <2>1, <2>2, <3>2
    <3>3. ASSUME NEW x, x \in (UNION {Owned(q) : q \in Replicas}) \ done
          PROVE  x \in UNION {Owned(q)' : q \in Replicas}
      BY <1>4, <1>23, <1>24, <3>3
    <3>4. UNION {Owned(q)' : q \in Replicas} = (UNION {Owned(q) : q \in Replicas}) \ done
      BY <3>2, <3>3
    <3> QED BY <1>25, <1>26, <2>2, <3>1, <3>4
  <2>4. \A q \in Replicas : Owned(q)' \subseteq Owned(q)
    BY <1>23, <1>24
  <2>5. ASSUME NEW q \in Replicas
        PROVE  /\ Owned(q)' \cap (Coming' \cup Range(global_queue')) = {}
               /\ \A p \in Replicas \ {q} : Owned(q)' \cap Owned(p)' = {}
    BY <1>1, <1>26, <2>4 DEF OwnerInv
  <2> QED BY <1>1, <1>5, <1>26, <2>3, <2>5 DEF OwnerInv
<1> QED BY <1>1, <1>5, <1>22, <1>23, <1>26, <1>27 DEF ConservedInv

-----------------------------------------------------------------------------
(* The requests are kept from the start of the simulation to its end. *)

(* Simulator.__init__: every request is still to arrive.                    *)
LEMMA ConservedInit == Init => ConservedInv
<1> SUFFICES ASSUME Init PROVE ConservedInv
  OBVIOUS
<1>1. FifoInv
  BY FifoInit
<1>2. PICK A, E : /\ A = Calls("request_arrival")
                  /\ E = [q \in Requests |-> [time |-> ArrivedAt[q], id |-> q,
                            call |-> [type |-> "request_arrival", request |-> q]]]
  OBVIOUS
<1>3. \A q \in Requests : /\ E[q].id = q /\ E[q].call.request = q
                          /\ E[q].call.type = "request_arrival"
  BY <1>2
<1>4. A = {E[q] : q \in Requests}
  <2>1. event_queue = {E[q] : q \in Requests}
    BY <1>2 DEF Init
  <2> QED BY <1>2, <1>3, <2>1 DEF Calls
<1>5. Coming = Requests
  <2>1. Coming = {e.call.request : e \in A}
    BY <1>2 DEF Coming
  <2> QED BY <1>3, <1>4, <2>1
<1>6. /\ IsSeq(<<>>) /\ Range(<<>>) = {} /\ DOMAIN <<>> = {} /\ Len(<<>>) = 0
      /\ <<>> \in Seq(Requests) /\ IsInjective(<<>>)
  <2>1. IsSeq(<<>>) /\ Range(<<>>) = {}
    BY FewEvents
  <2>2. DOMAIN <<>> = {} /\ Len(<<>>) = 0
    BY <2>1, IsSeqFacts
  <2> QED BY <2>1, <2>2, SeqWithin DEF IsInjective
<1>7. global_queue = <<>> /\ request_counter = 0 /\ terminate = FALSE
  BY DEF Init
<1>8. Live = Requests
  <2>1. PICK p \in [Requests -> PrefillLens], d \in [Requests -> DecodeLens] :
            req = [r \in Requests |-> NewRequest(p[r], d[r])]
    BY DEF Init
  <2>2. \A r \in Requests : ~req[r].completed
    BY <2>1 DEF NewRequest
  <2> QED BY <2>2 DEF Live
<1>9. ASSUME NEW r \in Replicas
      PROVE  /\ scheduler[r] = [queue |-> <<>>, preempted |-> <<>>, allocated |-> {},
                                running |-> 0]
             /\ in_flight[r] = <<>>
  BY <1>9 DEF Init
<1>10. ASSUME NEW r \in Replicas PROVE Owned(r) = {} /\ HeldInv(r)
  <2>1. Owned(r) = {}
    BY <1>6, <1>9 DEF Owned
  <2>2. NumStages \in Nat
    BY SimulatorAssumption
  <2>3. HeldInv(r)
    <3>1. PICK s : s = scheduler[r]
      OBVIOUS
    <3>2. s.queue = <<>> /\ s.preempted = <<>> /\ s.allocated = {} /\ s.running = 0
      BY <1>9, <3>1
    <3>3. Range(in_flight[r]) = {} /\ Len(in_flight[r]) = 0
      BY <1>6, <1>9
    <3>4. UNION {Members(b) : b \in Range(in_flight[r])} = {}
      BY <3>3
    <3>5. s.running <= NumStages
      BY <2>2, <3>2
    <3> QED BY <1>6, <3>1, <3>2, <3>3, <3>4, <3>5 DEF HeldInv
  <2> QED BY <2>1, <2>3
<1>11. OwnerInv
  <2>1. \A e \in A : e.call.request \in Requests /\ e.id = e.call.request
    BY <1>3, <1>4
  <2>2. UNION {Owned(r) : r \in Replicas} = {}
    BY <1>10
  <2> QED BY <1>2, <1>5, <1>6, <1>7, <1>8, <1>10, <2>1, <2>2 DEF OwnerInv
<1>12. CountInv
  <2>1. IsFiniteSet(Requests) /\ Cardinality(Requests) = NumRequests
    <3>1. NumRequests \in Nat
      BY SimulatorAssumption
    <3> QED BY <3>1, FS_Interval DEF Requests
  <2>2. E \in Surjection(Requests, A)
    BY <1>2, <1>4 DEF Surjection
  <2>3. IsFiniteSet(A) /\ Cardinality(A) <= Cardinality(Requests)
    BY <2>1, <2>2, FS_Surjection
  <2>4. Cardinality(A) \in Nat
    BY <2>3, FS_CardinalityType
  <2>5. 0 + 0 + Cardinality(A) <= NumRequests
    BY <2>1, <2>3, <2>4
  <2> QED BY <1>2, <1>6, <1>7, <2>3, <2>5 DEF CountInv
<1> QED BY <1>1, <1>7, <1>10, <1>11, <1>12 DEF ConservedInv

(* Every iteration of the loop of Simulator.run keeps the requests.         *)
LEMMA ConservedStep == ConservedInv /\ [Next]_vars => ConservedInv'
<1> SUFFICES ASSUME ConservedInv, [Next]_vars PROVE ConservedInv'
  OBVIOUS
<1>1. CASE RequestArrival
  BY <1>1, ArrivalConserves
<1>2. CASE GlobalSchedule
  BY <1>2, GlobalConserves
<1>3. CASE ReplicaSchedule
  BY <1>3, ReplicaConserves
<1>4. CASE BatchStageArrival
  BY <1>4, StageArrivalConserves
<1>5. CASE ReplicaStageSchedule
  BY <1>5, StageScheduleConserves
<1>6. CASE BatchStageEnd
  BY <1>6, StageEndConserves
<1>7. CASE BatchEnd
  BY <1>7, BatchEndConserves
<1>8. CASE UNCHANGED vars
  <2>1. /\ UNCHANGED global /\ event_queue' = event_queue /\ scheduler' = scheduler
        /\ in_flight' = in_flight /\ req' = req /\ terminate' = terminate
    BY <1>8 DEF vars, clock, history
  <2>2. FifoInv'
    BY FifoStep DEF ConservedInv
  <2>3. \A r \in Replicas : HeldInv(r)' /\ Owned(r)' = Owned(r)
    BY <2>1, HeldKept DEF ConservedInv
  <2>4. Live' = Live /\ Calls("request_arrival")' = Calls("request_arrival")
    BY <2>1 DEF Live, Calls
  <2>5. OwnerInv' /\ CountInv'
    BY <2>1, <2>3, <2>4, OwnersKept DEF ConservedInv
  <2> QED BY <2>1, <2>2, <2>3, <2>5 DEF ConservedInv
<1> QED BY <1>1, <1>2, <1>3, <1>4, <1>5, <1>6, <1>7, <1>8 DEF Next

(* In every state of the simulator a request that is not completed is still *)
(* to arrive, at the global scheduler or owned by one replica, there queued,*)
(* preempted or in one batch, and no request is counted twice.              *)
THEOREM ConservedInvariance == Spec => []ConservedInv
BY ConservedInit, ConservedStep, PTL DEF Spec

-----------------------------------------------------------------------------
(* What the requests' owners say of their places. *)

(* The state of the simulator has its types.                                *)
LEMMA TypesConserved == ConservedInv => TypeOK
<1> SUFFICES ASSUME ConservedInv PROVE TypeOK
  OBVIOUS
<1>1. /\ HeapInv /\ PartsInv /\ OwnerInv /\ CountInv /\ terminate \in BOOLEAN
      /\ \A r \in Replicas : LineInv(r)
  BY DEF ConservedInv, FifoInv, WakeInv
<1>2. /\ now \in Nat /\ last_id \in Nat
      /\ \A e \in event_queue : e.time \in Nat /\ e.id \in 1 .. last_id
  BY <1>1 DEF HeapInv
<1>3. global_queue \in Seq(Requests) /\ request_counter \in 0 .. NumRequests
  <2>1. global_queue \in Seq(Requests)
    BY <1>1 DEF OwnerInv
  <2>2. PICK n, l, m : /\ n = request_counter /\ l = Len(global_queue)
                       /\ m = Cardinality(Calls("request_arrival"))
    OBVIOUS
  <2>3. l \in Nat
    BY <2>1, <2>2, LenProperties
  <2>4. m \in Nat
    BY <1>1, <2>2, FS_CardinalityType DEF CountInv
  <2>5. n \in Nat /\ NumRequests \in Nat
    BY <1>1, <2>2, SimulatorAssumption DEF PartsInv
  <2>6. n + l + m <= NumRequests
    BY <1>1, <2>2 DEF CountInv
  <2> QED BY <2>1, <2>2, <2>3, <2>4, <2>5, <2>6
<1>4. ASSUME NEW r \in Replicas
      PROVE  /\ scheduler[r].queue \in Seq(Requests)
             /\ scheduler[r].preempted \in Seq(Requests)
             /\ scheduler[r].allocated \subseteq Requests
             /\ scheduler[r].running \in 0 .. NumStages
  <2>1. PICK s : s = scheduler[r]
    OBVIOUS
  <2>2. s.queue \in Seq(Requests) /\ s.preempted \in Seq(Requests)
    BY <2>1 DEF ConservedInv, HeldInv
  <2>3. s.running <= NumStages /\ s.allocated \subseteq Live
    BY <2>1, HeldFacts
  <2>4. s.running \in Nat /\ NumStages \in Nat
    BY <1>1, <2>1, SimulatorAssumption DEF PartsInv, SchedulerInv
  <2>5. s.running \in 0 .. NumStages /\ s.allocated \subseteq Requests
    BY <2>3, <2>4 DEF Live
  <2> QED BY <2>1, <2>2, <2>5
<1>5. ASSUME NEW r \in Replicas, NEW s \in Stages
      PROVE  /\ stage[r][s].busy \in BOOLEAN
             /\ stage[r][s].batch_queue \in Seq(Range(in_flight[r]))
  <2>1. PICK q : q = stage[r][s].batch_queue
    OBVIOUS
  <2>2. IsSeq(q) /\ stage[r][s].busy \in BOOLEAN
    BY <1>1, <2>1 DEF PartsInv, StageInv
  <2>3. ASSUME NEW b \in Range(q) PROVE b \in Range(in_flight[r])
    <3>1. PICK k \in DOMAIN q : b = q[k]
      BY DEF Range
    <3>2. PICK x : x = SlotPlace(r, s, k)
      OBVIOUS
    <3>3. x \in Line(r) /\ x.batch = b
      BY <2>1, <3>1, <3>2 DEF Line, SlotPlace
    <3> QED BY <1>1, <3>3 DEF LineInv
  <2> QED BY <2>1, <2>2, <2>3, SeqWithin
<1> QED BY <1>1, <1>2, <1>3, <1>4, <1>5 DEF TypeOK

(* What a sequence does not repeat is at one place of it.                   *)
LEMMA OnePlace ==
    ASSUME NEW s, IsInjective(s), NEW q
    PROVE  /\ q \notin Range(s) => {k \in DOMAIN s : s[k] = q} = {}
           /\ q \in Range(s) => \E k \in DOMAIN s : {j \in DOMAIN s : s[j] = q} = {k}
BY DEF IsInjective, Range

(* The places that replica r has for the request q.                         *)
QueuePlaces(r, q) ==
    {<<"queue", r, k>> : k \in {k \in DOMAIN scheduler[r].queue : scheduler[r].queue[k] = q}}
PreemptedPlaces(r, q) ==
    {<<"preempted", r, k>> : k \in {k \in DOMAIN scheduler[r].preempted :
                                    scheduler[r].preempted[k] = q}}
FlightPlaces(r, q) ==
    {<<"batch", r, k>> : k \in {k \in DOMAIN in_flight[r] : q \in Members(in_flight[r][k])}}
HeldPlaces(r, q) == QueuePlaces(r, q) \cup PreemptedPlaces(r, q) \cup FlightPlaces(r, q)

(* A request has one place in the replica that owns it, none in another.    *)
LEMMA HeldPlacesFacts ==
    ASSUME ConservedInv, NEW r \in Replicas, NEW q
    PROVE  /\ q \notin Owned(r) => HeldPlaces(r, q) = {}
           /\ q \in Owned(r) => \E x : HeldPlaces(r, q) = {x}
<1>1. PICK s, w : s = scheduler[r] /\ w = in_flight[r]
  OBVIOUS
<1>2. /\ IsInjective(s.queue) /\ IsInjective(s.preempted)
      /\ Range(s.queue) \cap s.allocated = {}
      /\ s.allocated = Range(s.preempted) \cup UNION {Members(b) : b \in Range(w)}
      /\ \A b \in Range(w) : BatchInv(r, b)
  BY <1>1 DEF ConservedInv, HeldInv
<1>3. Owned(r) = Range(s.queue) \cup s.allocated
  BY <1>1 DEF Owned
<1>4. /\ \A b \in Range(w) : Members(b) \cap Range(s.preempted) = {}
      /\ \A b, c \in Range(w) : b # c => Members(b) \cap Members(c) = {}
  BY <1>1, <1>2 DEF BatchInv
<1>5. \A i, j \in DOMAIN w : i # j => w[i] # w[j]
  <2>1. IsSeq(w) /\ \A i, j \in DOMAIN w : i < j => w[i].id < w[j].id
    BY <1>1 DEF ConservedInv, FifoInv, LineInv
  <2>2. \A b \in Range(w) : b.id \in Nat
    BY <1>1 DEF ConservedInv, FifoInv, LineInv
  <2>3. DOMAIN w = 1 .. Len(w) /\ Len(w) \in Nat /\ \A i \in 1 .. Len(w) : w[i] \in Range(w)
    BY <2>1, IsSeqFacts
  <2>4. ASSUME NEW i \in DOMAIN w, NEW j \in DOMAIN w, i # j PROVE w[i] # w[j]
    <3>1. i \in Nat /\ j \in Nat /\ w[i].id \in Nat /\ w[j].id \in Nat
      BY <2>2, <2>3
    <3>2. w[i].id < w[j].id \/ w[j].id < w[i].id
      BY <2>1, <2>4, <3>1
    <3> QED BY <3>1, <3>2
  <2> QED BY <2>4
<1>6. q \notin Range(s.queue) => QueuePlaces(r, q) = {}
  BY <1>1, <1>2, OnePlace DEF QueuePlaces
<1>7. q \notin Range(s.preempted) => PreemptedPlaces(r, q) = {}
  BY <1>1, <1>2, OnePlace DEF PreemptedPlaces
<1>8. (\A b \in Range(w) : q \notin Members(b)) => FlightPlaces(r, q) = {}
  BY <1>1 DEF FlightPlaces, Range
<1>9. ASSUME q \notin Owned(r) PROVE HeldPlaces(r, q) = {}
  <2>1. /\ q \notin Range(s.queue) /\ q \notin Range(s.preempted)
        /\ \A b \in Range(w) : q \notin Members(b)
    BY <1>2, <1>3, <1>9
  <2> QED BY <1>6, <1>7, <1>8, <2>1 DEF HeldPlaces
<1>10. CASE q \in Range(s.queue)
  <2>1. /\ q \in Owned(r) /\ q \notin Range(s.preempted)
        /\ \A b \in Range(w) : q \notin Members(b)
    BY <1>2, <1>3, <1>10
  <2>2. PICK k : {j \in DOMAIN s.queue : s.queue[j] = q} = {k}
    BY <1>2, <1>10, OnePlace
  <2>3. QueuePlaces(r, q) = {<<"queue", r, k>>}
    BY <1>1, <2>2 DEF QueuePlaces
  <2>4. HeldPlaces(r, q) = {<<"queue", r, k>>}
    BY <1>7, <1>8, <2>1, <2>3 DEF HeldPlaces
  <2> QED BY <2>1, <2>4
<1>11. CASE q \in Range(s.preempted)
  <2>1. /\ q \in Owned(r) /\ q \notin Range(s.queue)
        /\ \A b \in Range(w) : q \notin Members(b)
    BY <1>2, <1>3, <1>4, <1>11
  <2>2. PICK k : {j \in DOMAIN s.preempted : s.preempted[j] = q} = {k}
    BY <1>2, <1>11, OnePlace
  <2>3. PreemptedPlaces(r, q) = {<<"preempted", r, k>>}
    BY <1>1, <2>2 DEF PreemptedPlaces
  <2>4. HeldPlaces(r, q) = {<<"preempted", r, k>>}
    BY <1>6, <1>8, <2>1, <2>3 DEF HeldPlaces
  <2> QED BY <2>1, <2>4
<1>12. ASSUME NEW b \in Range(w), q \in Members(b)
       PROVE  q \in Owned(r) /\ \E x : HeldPlaces(r, q) = {x}
  <2>1. q \in Owned(r) /\ q \notin Range(s.queue) /\ q \notin Range(s.preempted)
    BY <1>2, <1>3, <1>4, <1>12
  <2>2. PICK k \in DOMAIN w : w[k] = b
    BY DEF Range
  <2>3. ASSUME NEW j \in DOMAIN w, q \in Members(w[j]) PROVE j = k
    <3>1. w[j] \in Range(w)
      BY DEF Range
    <3>2. w[j] = b
      BY <1>4, <1>12, <2>3, <3>1
    <3> QED BY <1>5, <2>2, <3>2
  <2>4. {j \in DOMAIN w : q \in Members(w[j])} = {k}
    BY <1>12, <2>2, <2>3
  <2>5. FlightPlaces(r, q) = {<<"batch", r, k>>}
    BY <1>1, <2>4 DEF FlightPlaces
  <2>6. HeldPlaces(r, q) = {<<"batch", r, k>>}
    BY <1>6, <1>7, <2>1, <2>5 DEF HeldPlaces
  <2> QED BY <2>1, <2>6
<1>13. q \in Owned(r) => \/ q \in Range(s.queue) \/ q \in Range(s.preempted)
                         \/ \E b \in Range(w) : q \in Members(b)
  BY <1>2, <1>3
<1> QED BY <1>9, <1>10, <1>11, <1>12, <1>13

(* One element and none.                                                    *)
LEMMA OneOrNone ==
    ASSUME NEW S
    PROVE  /\ S = {} => Cardinality(S) = 0
           /\ (\E x : S = {x}) => Cardinality(S) = 1
BY FS_EmptySet, FS_Singleton, Zenon

(* The places outside the replicas.                                         *)
ArrivalPlaces(q) == {e \in Calls("request_arrival") : e.call.request = q}
GlobalPlaces(q) == {<<"global", k>> : k \in {k \in DOMAIN global_queue : global_queue[k] = q}}

(* A request that is not completed is in one place, one that is in none.    *)
LEMMA OneRequestPlace ==
    ASSUME ConservedInv, NEW q \in Requests
    PROVE  Cardinality(RequestPlaces(q)) = IF req[q].completed THEN 0 ELSE 1
<1>1. PICK H : H = UNION {HeldPlaces(r, q) : r \in Replicas}
  OBVIOUS
<1>2. RequestPlaces(q) = ArrivalPlaces(q) \cup GlobalPlaces(q) \cup H
  BY <1>1 DEF RequestPlaces, ArrivalPlaces, GlobalPlaces, HeldPlaces, QueuePlaces,
              PreemptedPlaces, FlightPlaces
<1>3. OwnerInv /\ DueInv
  BY DEF ConservedInv, FifoInv
<1>4. q \in Live <=> ~req[q].completed
  BY DEF Live
<1>5. q \notin Coming => ArrivalPlaces(q) = {}
  BY DEF Coming, ArrivalPlaces
<1>6. IsInjective(global_queue)
  BY <1>3 DEF OwnerInv
<1>7. q \notin Range(global_queue) => GlobalPlaces(q) = {}
  BY <1>6, OnePlace DEF GlobalPlaces
<1>8. (\A r \in Replicas : q \notin Owned(r)) => H = {}
  BY <1>1, HeldPlacesFacts
<1>9. CASE q \notin Live
  <2>1. q \notin Coming /\ q \notin Range(global_queue) /\ \A r \in Replicas : q \notin Owned(r)
    BY <1>3, <1>9 DEF OwnerInv
  <2>2. RequestPlaces(q) = {}
    BY <1>2, <1>5, <1>7, <1>8, <2>1
  <2> QED BY <1>4, <1>9, <2>2, OneOrNone
<1>10. CASE q \in Coming
  <2>1. /\ q \in Live /\ q \notin Range(global_queue)
        /\ \A r \in Replicas : q \notin Owned(r)
    BY <1>3, <1>10 DEF OwnerInv
  <2>2. PICK e \in Calls("request_arrival") : e.call.request = q
    BY <1>10 DEF Coming
  <2>3. ASSUME NEW f \in ArrivalPlaces(q) PROVE f = e
    <3>1. f \in Calls("request_arrival") /\ f.call.request = q
      BY DEF ArrivalPlaces
    <3>2. f.id = q /\ e.id = q /\ f \in event_queue /\ e \in event_queue
      BY <1>3, <2>2, <3>1 DEF OwnerInv, Calls
    <3> QED BY <1>3, <3>2 DEF DueInv
  <2>4. ArrivalPlaces(q) = {e}
    BY <2>2, <2>3 DEF ArrivalPlaces
  <2>5. RequestPlaces(q) = {e}
    BY <1>2, <1>7, <1>8, <2>1, <2>4
  <2> QED BY <1>4, <2>1, <2>5, OneOrNone
<1>11. CASE q \in Range(global_queue)
  <2>1. q \in Live /\ q \notin Coming /\ \A r \in Replicas : q \notin Owned(r)
    BY <1>3, <1>11 DEF OwnerInv
  <2>2. PICK k : {j \in DOMAIN global_queue : global_queue[j] = q} = {k}
    BY <1>6, <1>11, OnePlace
  <2>3. GlobalPlaces(q) = {<<"global", k>>}
    BY <2>2 DEF GlobalPlaces
  <2>4. RequestPlaces(q) = {<<"global", k>>}
    BY <1>2, <1>5, <1>8, <2>1, <2>3
  <2> QED BY <1>4, <2>1, <2>4, OneOrNone
<1>12. ASSUME NEW r \in Replicas, q \in Owned(r)
       PROVE  Cardinality(RequestPlaces(q)) = IF req[q].completed THEN 0 ELSE 1
  <2>1. /\ q \in Live /\ q \notin Coming /\ q \notin Range(global_queue)
        /\ \A p \in Replicas \ {r} : q \notin Owned(p)
    BY <1>3, <1>12 DEF OwnerInv
  <2>2. PICK x : HeldPlaces(r, q) = {x}
    BY <1>12, HeldPlacesFacts
  <2>3. \A p \in Replicas \ {r} : HeldPlaces(p, q) = {}
    BY <2>1, HeldPlacesFacts
  <2>4. H = {x}
    BY <1>1, <2>2, <2>3
  <2>5. RequestPlaces(q) = {x}
    BY <1>2, <1>5, <1>7, <2>1, <2>4
  <2> QED BY <1>4, <2>1, <2>5, OneOrNone
<1>13. q \in Live => \/ q \in Coming \/ q \in Range(global_queue)
                     \/ \E r \in Replicas : q \in Owned(r)
  BY <1>3 DEF OwnerInv
<1> QED BY <1>9, <1>10, <1>11, <1>12, <1>13

(* One of two places of a line is ahead, unless they are the same.          *)
LEMMA SamePlace ==
    ASSUME NEW line, InOrder(line), NEW x \in line, NEW y \in line,
           x.batch = y.batch, x.batch.id \in Nat,
           x.level \in Nat, y.level \in Nat, x.number \in Nat, y.number \in Nat
    PROVE  x.level = y.level /\ x.number = y.number
<1>1. ~(x.batch.id < y.batch.id) /\ ~(y.batch.id < x.batch.id)
  OBVIOUS
<1>2. ~Ahead(x, y) /\ ~Ahead(y, x)
  BY <1>1 DEF InOrder
<1> QED BY <1>2 DEF Ahead

(* A batch is at one place of the pipeline.                                 *)
LEMMA OneBatchPlace ==
    ASSUME FifoInv, NEW r \in Replicas, NEW b \in Range(in_flight[r])
    PROVE  /\ \E z : BatchPlaces(r, b) = {z}
           /\ \A e \in BatchEvents(r) : e.call.batch = b =>
                \A s \in Stages : \A k \in DOMAIN stage[r][s].batch_queue :
                    stage[r][s].batch_queue[k] # b
<1>1. HeapInv /\ PartsInv /\ DueInv /\ LineInv(r)
  BY DEF FifoInv, WakeInv
<1>2. b.id \in Nat /\ InOrder(Line(r))
  BY <1>1 DEF LineInv
<1>3. ASSUME NEW e \in BatchEvents(r), e.call.batch = b
      PROVE  \E x \in Line(r) :
                /\ x = EventPlace(e) /\ x.batch = b /\ x.number = e.id
                /\ x.level \in Nat /\ x.number \in Nat /\ e \in event_queue
                /\ \A s \in Stages : x.level # 3 * s + 1
  <2>1. PICK x : x = EventPlace(e)
    OBVIOUS
  <2>2. x \in Line(r)
    BY <2>1 DEF Line
  <2>3. /\ x.batch = b /\ x.number = e.id /\ x.level \in Nat /\ x.number \in Nat
        /\ e \in event_queue
    BY <1>1, <1>3, <2>1, EventPlaceFacts
  <2>4. PICK n \in Nat : x.level = 3 * n \/ x.level = 3 * n + 2
    BY <1>1, <2>1, EventPlaceFacts DEF BatchTypes
  <2>5. ASSUME NEW s \in Stages PROVE x.level # 3 * s + 1
    <3>1. s \in Nat
      BY SimulatorAssumption DEF Stages
    <3>2. 3 * n # 3 * s + 1 /\ 3 * n + 2 # 3 * s + 1
      BY <3>1
    <3> QED BY <2>4, <3>2
  <2> QED BY <2>1, <2>2, <2>3, <2>5
<1>4. ASSUME NEW s \in Stages, NEW k \in DOMAIN stage[r][s].batch_queue,
             stage[r][s].batch_queue[k] = b
      PROVE  \E x \in Line(r) :
                /\ x.batch = b /\ x.number = k /\ x.level = 3 * s + 1
                /\ x.level \in Nat /\ x.number \in Nat /\ s \in Nat
  <2>1. PICK x : x = SlotPlace(r, s, k)
    OBVIOUS
  <2>2. x \in Line(r)
    BY <2>1 DEF Line
  <2> QED BY <1>1, <1>4, <2>1, <2>2, SlotPlaceFacts
<1>5. PICK E, P :
        /\ E = {e \in BatchEvents(r) : e.call.batch = b}
        /\ P = {p \in Queued(r) : stage[r][p[1]].batch_queue[p[2]] = b}
  OBVIOUS
<1>6. BatchPlaces(r, b) = E \cup P
  BY <1>5 DEF BatchPlaces
<1>7. ASSUME NEW p \in P
      PROVE  \E s \in Stages : \E k \in DOMAIN stage[r][s].batch_queue :
                p = <<s, k>> /\ stage[r][s].batch_queue[k] = b
  BY <1>5 DEF Queued
<1>8. ASSUME NEW s \in Stages, NEW k \in DOMAIN stage[r][s].batch_queue,
             stage[r][s].batch_queue[k] = b
      PROVE  <<s, k>> \in P
  <2>1. <<s, k>> \in Queued(r)
    BY DEF Queued
  <2> QED BY <1>5, <1>8, <2>1
<1>9. ASSUME NEW e \in E, NEW f \in E PROVE e = f
  <2>1. PICK x \in Line(r) : /\ x.batch = b /\ x.number = e.id
                             /\ x.level \in Nat /\ x.number \in Nat /\ e \in event_queue
    BY <1>3, <1>5
  <2>2. PICK y \in Line(r) : /\ y.batch = b /\ y.number = f.id
                             /\ y.level \in Nat /\ y.number \in Nat /\ f \in event_queue
    BY <1>3, <1>5
  <2>3. x.number = y.number
    BY <1>2, <2>1, <2>2, SamePlace
  <2> QED BY <1>1, <2>1, <2>2, <2>3 DEF DueInv
<1>10. ASSUME NEW e \in E, NEW p \in P PROVE FALSE
  <2>1. PICK s, k : /\ s \in Stages /\ k \in DOMAIN stage[r][s].batch_queue
                    /\ stage[r][s].batch_queue[k] = b
    BY <1>7
  <2>2. PICK x \in Line(r) : /\ x.batch = b /\ x.level \in Nat /\ x.number \in Nat
                             /\ \A i \in Stages : x.level # 3 * i + 1
    BY <1>3, <1>5
  <2>3. PICK y \in Line(r) : /\ y.batch = b /\ y.level = 3 * s + 1
                             /\ y.level \in Nat /\ y.number \in Nat
    BY <1>4, <2>1
  <2>4. x.level = y.level
    BY <1>2, <2>2, <2>3, SamePlace
  <2>5. x.level # 3 * s + 1
    BY <2>1, <2>2
  <2> QED BY <2>3, <2>4, <2>5
<1>11. ASSUME NEW p \in P, NEW o \in P PROVE p = o
  <2>1. PICK s, k : /\ s \in Stages /\ k \in DOMAIN stage[r][s].batch_queue
                    /\ p = <<s, k>> /\ stage[r][s].batch_queue[k] = b
    BY <1>7
  <2>2. PICK t, j : /\ t \in Stages /\ j \in DOMAIN stage[r][t].batch_queue
                    /\ o = <<t, j>> /\ stage[r][t].batch_queue[j] = b
    BY <1>7
  <2>3. PICK x \in Line(r) : /\ x.batch = b /\ x.number = k /\ x.level = 3 * s + 1
                             /\ x.level \in Nat /\ x.number \in Nat /\ s \in Nat
    BY <1>4, <2>1
  <2>4. PICK y \in Line(r) : /\ y.batch = b /\ y.number = j /\ y.level = 3 * t + 1
                             /\ y.level \in Nat /\ y.number \in Nat /\ t \in Nat
    BY <1>4, <2>2
  <2>5. x.level = y.level /\ x.number = y.number
    BY <1>2, <2>3, <2>4, SamePlace
  <2>6. s = t /\ k = j
    BY <2>3, <2>4, <2>5
  <2> QED BY <2>1, <2>2, <2>6
<1>12. \E p : p \in E \cup P
  <2>1. PICK x \in Line(r) : x.batch = b
    BY <1>1 DEF LineInv
  <2>2. CASE \E e \in BatchEvents(r) : x = EventPlace(e)
    <3>1. PICK e \in BatchEvents(r) : x = EventPlace(e)
      BY <2>2
    <3>2. e.call.batch = b
      BY <2>1, <3>1 DEF EventPlace
    <3> QED BY <1>5, <3>1, <3>2
  <2>3. ASSUME NEW s \in Stages, NEW k \in DOMAIN stage[r][s].batch_queue,
               x = SlotPlace(r, s, k)
        PROVE  \E p : p \in E \cup P
    <3>1. stage[r][s].batch_queue[k] = b
      BY <2>1, <2>3 DEF SlotPlace
    <3> QED BY <1>8, <3>1
  <2> QED BY <2>2, <2>3 DEF Line
<1>13. PICK z : z \in E \cup P
  BY <1>12
<1>14. \A y \in E \cup P : y = z
  BY <1>9, <1>10, <1>11, <1>13
<1>15. \E y : BatchPlaces(r, b) = {y}
  BY <1>6, <1>13, <1>14
<1>16. \A e \in BatchEvents(r) : e.call.batch = b =>
            \A s \in Stages : \A k \in DOMAIN stage[r][s].batch_queue :
                stage[r][s].batch_queue[k] # b
  BY <1>5, <1>8, <1>10
<1> QED BY <1>15, <1>16

(* The owners of the requests and the order of the batches leave a place    *)
(* for each.                                                                *)
LEMMA PlacesConserved == ConservedInv => NothingLost
<1> SUFFICES ASSUME ConservedInv PROVE NothingLost
  OBVIOUS
<1>1. FifoInv
  BY DEF ConservedInv
<1>2. ASSUME NEW r \in Replicas
      PROVE  /\ \A k \in DOMAIN in_flight[r] :
                    Cardinality(BatchPlaces(r, in_flight[r][k])) = 1
             /\ scheduler[r].running = Len(in_flight[r])
             /\ scheduler[r].allocated = Range(scheduler[r].preempted)
                    \cup UNION {Members(in_flight[r][k]) : k \in DOMAIN in_flight[r]}
  <2>1. PICK s, w : s = scheduler[r] /\ w = in_flight[r]
    OBVIOUS
  <2>2. /\ s.running = Len(w)
        /\ s.allocated = Range(s.preempted) \cup UNION {Members(b) : b \in Range(w)}
    BY <2>1 DEF ConservedInv, HeldInv
  <2>3. Range(w) = {w[k] : k \in DOMAIN w}
    BY DEF Range
  <2>4. UNION {Members(b) : b \in Range(w)} = UNION {Members(w[k]) : k \in DOMAIN w}
    BY <2>3
  <2>5. ASSUME NEW k \in DOMAIN w PROVE \E z : BatchPlaces(r, w[k]) = {z}
    <3>1. w[k] \in Range(in_flight[r])
      BY <2>1, <2>3
    <3> QED BY <1>1, <3>1, OneBatchPlace
  <2>6. \A k \in DOMAIN w : Cardinality(BatchPlaces(r, w[k])) = 1
    BY <2>5, OneOrNone
  <2> QED BY <2>1, <2>2, <2>4, <2>6
<1> QED BY <1>2, OneRequestPlace DEF NothingLost

-----------------------------------------------------------------------------
(* The times of the requests. *)

(* A request is in one batch of the whole system, in flight at the replica  *)
(* that owns it, and is not completed.                                      *)
LEMMA OneBatch ==
    ASSUME ConservedInv, NEW r \in Replicas, NEW b \in Range(in_flight[r]), NEW q \in Members(b)
    PROVE  /\ q \in Requests /\ ~req[q].completed
           /\ \A p \in Replicas : \A c \in Range(in_flight[p]) :
                q \in Members(c) => p = r /\ c = b
<1>1. ASSUME NEW p \in Replicas, NEW c \in Range(in_flight[p]), q \in Members(c)
      PROVE  q \in Owned(p) /\ BatchInv(p, c)
  BY <1>1 DEF ConservedInv, HeldInv, Owned
<1>2. q \in Owned(r) /\ BatchInv(r, b)
  BY <1>1
<1>3. OwnerInv
  BY DEF ConservedInv
<1>4. q \in Live
  BY <1>2, <1>3 DEF OwnerInv
<1>5. ASSUME NEW p \in Replicas, NEW c \in Range(in_flight[p]), q \in Members(c)
      PROVE  p = r /\ c = b
  <2>1. q \in Owned(p)
    BY <1>1, <1>5
  <2>2. p = r
    BY <1>2, <1>3, <2>1 DEF OwnerInv
  <2>3. c = b
    BY <1>2, <1>5, <2>2 DEF BatchInv
  <2> QED BY <2>2, <2>3
<1> QED BY <1>4, <1>5 DEF Live

(* What a batch event carries is in flight at its replica, and so is what   *)
(* waits for a stage.                                                       *)
LEMMA InFlight ==
    ASSUME FifoInv
    PROVE  /\ \A e \in event_queue : e.call.type \in BatchTypes =>
                /\ e.call.replica \in Replicas
                /\ e \in BatchEvents(e.call.replica)
                /\ e.call.batch \in Range(in_flight[e.call.replica])
           /\ \A r \in Replicas, s \in Stages : \A k \in DOMAIN stage[r][s].batch_queue :
                stage[r][s].batch_queue[k] \in Range(in_flight[r])
<1>1. HeapInv /\ \A r \in Replicas : Range(in_flight[r]) = {x.batch : x \in Line(r)}
  BY DEF FifoInv, WakeInv, LineInv
<1>2. ASSUME NEW e \in event_queue, e.call.type \in BatchTypes
      PROVE  /\ e.call.replica \in Replicas
             /\ e \in BatchEvents(e.call.replica)
             /\ e.call.batch \in Range(in_flight[e.call.replica])
  <2>1. PICK r : r = e.call.replica
    OBVIOUS
  <2>2. r \in Replicas /\ e \in BatchEvents(r)
    BY <1>1, <1>2, <2>1 DEF HeapInv, CallInv, BatchEvents
  <2>3. PICK x : x = EventPlace(e)
    OBVIOUS
  <2>4. x \in Line(r) /\ x.batch = e.call.batch
    BY <2>2, <2>3 DEF Line, EventPlace
  <2>5. e.call.batch \in Range(in_flight[r])
    BY <1>1, <2>2, <2>4
  <2> QED BY <2>1, <2>2, <2>5
<1>3. ASSUME NEW r \in Replicas, NEW s \in Stages, NEW k \in DOMAIN stage[r][s].batch_queue
      PROVE  stage[r][s].batch_queue[k] \in Range(in_flight[r])
  <2>1. PICK x : x = SlotPlace(r, s, k)
    OBVIOUS
  <2>2. x \in Line(r) /\ x.batch = stage[r][s].batch_queue[k]
    BY <2>1 DEF Line, SlotPlace
  <2> QED BY <1>1, <2>2
<1> QED BY <1>2, <1>3

(* No two batch events have a request in common.                            *)
LEMMA OneCarrier ==
    ASSUME ConservedInv, NEW e \in event_queue, NEW f \in event_queue,
           e.call.type \in BatchTypes, f.call.type \in BatchTypes,
           NEW q \in Members(e.call.batch), q \in Members(f.call.batch)
    PROVE  e = f
<1>1. FifoInv
  BY DEF ConservedInv
<1>2. PICK r, b, p, c : /\ r = e.call.replica /\ b = e.call.batch
                        /\ p = f.call.replica /\ c = f.call.batch
  OBVIOUS
<1>3. /\ r \in Replicas /\ e \in BatchEvents(r) /\ b \in Range(in_flight[r])
      /\ p \in Replicas /\ f \in BatchEvents(p) /\ c \in Range(in_flight[p])
  BY <1>1, <1>2, InFlight
<1>4. q \in Members(b) /\ q \in Members(c)
  BY <1>2
<1>5. p = r /\ c = b
  BY <1>3, <1>4, OneBatch
<1>6. PICK z : BatchPlaces(r, b) = {z}
  BY <1>1, <1>3, OneBatchPlace
<1>7. e \in BatchPlaces(r, b) /\ f \in BatchPlaces(r, b)
  BY <1>2, <1>3, <1>5 DEF BatchPlaces
<1> QED BY <1>6, <1>7

(* A request whose batch waits for a stage is in no batch event.            *)
LEMMA NotCarried ==
    ASSUME ConservedInv, NEW r \in Replicas, NEW s \in Stages,
           NEW k \in DOMAIN stage[r][s].batch_queue,
           NEW q \in Members(stage[r][s].batch_queue[k]),
           NEW e \in event_queue, e.call.type \in BatchTypes
    PROVE  q \notin Members(e.call.batch)
<1> SUFFICES ASSUME q \in Members(e.call.batch) PROVE FALSE
  OBVIOUS
<1>1. FifoInv /\ PartsInv /\ HeapInv
  BY DEF ConservedInv, FifoInv, WakeInv
<1>2. PICK b, p, c : /\ b = stage[r][s].batch_queue[k]
                     /\ p = e.call.replica /\ c = e.call.batch
  OBVIOUS
<1>3. /\ b \in Range(in_flight[r])
      /\ p \in Replicas /\ e \in BatchEvents(p) /\ c \in Range(in_flight[p])
  BY <1>1, <1>2, InFlight
<1>4. q \in Members(b) /\ q \in Members(c)
  BY <1>2
<1>5. p = r /\ c = b
  BY <1>3, <1>4, OneBatch
<1> QED BY <1>1, <1>2, <1>3, <1>5, OneBatchPlace

-----------------------------------------------------------------------------
(* What the operators on requests do to the fields of their records.        *)

(* What Request.on_batch_stage_schedule does to the times of a request.    *)
LEMMA ScheduleFacts ==
    ASSUME NEW t \in TimesRecords, NEW n \in Int, NEW u, u = OnBatchSchedule(t, n)
    PROVE  /\ u \in TimesRecords
           /\ u.scheduled /\ u.arrived_at = t.arrived_at
           /\ u.iteration_delay = n - t.iteration_completed_at
           /\ u.iteration_completed_at = t.iteration_completed_at
           /\ u.prefill_completed_at = t.prefill_completed_at
           /\ u.completed_at = t.completed_at
           /\ u.execution_time = t.execution_time /\ u.preempted_time = t.preempted_time
           /\ u.stage_completed_at = t.stage_completed_at
           /\ t.scheduled => /\ u.scheduled_at = t.scheduled_at
                             /\ u.scheduling_delay = t.scheduling_delay
           /\ ~t.scheduled => /\ u.scheduled_at = n
                              /\ u.scheduling_delay = n - t.arrived_at
<1>1. CASE t.scheduled
  BY <1>1 DEF OnBatchSchedule, TimesRecords
<1>2. CASE ~t.scheduled
  <2>1. PICK i, d : i = n - t.iteration_completed_at /\ d = n - t.arrived_at
    OBVIOUS
  <2>2. i \in Int /\ d \in Int
    BY <2>1 DEF TimesRecords
  <2>3. u = [t EXCEPT !.iteration_delay = i, !.scheduled = TRUE, !.scheduled_at = n,
                      !.scheduling_delay = d]
    BY <1>2, <2>1 DEF OnBatchSchedule, TimesRecords
  <2> QED BY <1>2, <2>1, <2>2, <2>3 DEF TimesRecords
<1> QED BY <1>1, <1>2

(* Only the requests of the batch that a stage takes change.                *)
LEMMA StageScheduleFacts ==
    ASSUME NEW t \in TimesRecords, NEW n \in Int, NEW u, u = OnBatchStageSchedule(t, n)
    PROVE  /\ u \in TimesRecords
           /\ u.scheduled = t.scheduled /\ u.arrived_at = t.arrived_at
           /\ u.scheduled_at = t.scheduled_at /\ u.scheduling_delay = t.scheduling_delay
           /\ u.iteration_delay = t.iteration_delay
           /\ u.iteration_completed_at = t.iteration_completed_at
           /\ u.prefill_completed_at = t.prefill_completed_at
           /\ u.completed_at = t.completed_at
           /\ u.execution_time = t.execution_time
           /\ u.stage_completed_at = t.stage_completed_at
           /\ u.preempted_time = IF t.stage_completed_at = 0 THEN 0
                                 ELSE t.preempted_time + n - t.stage_completed_at
BY DEF OnBatchStageSchedule, TimesRecords

(* What Request.on_batch_stage_end does to the times of a request.          *)
LEMMA StageEndFacts ==
    ASSUME NEW t \in TimesRecords, NEW n \in Int, NEW x \in Int,
           NEW u, u = OnBatchStageEnd(t, n, x)
    PROVE  /\ u \in TimesRecords
           /\ u.scheduled = t.scheduled /\ u.arrived_at = t.arrived_at
           /\ u.scheduled_at = t.scheduled_at /\ u.scheduling_delay = t.scheduling_delay
           /\ u.iteration_delay = t.iteration_delay
           /\ u.iteration_completed_at = t.iteration_completed_at
           /\ u.prefill_completed_at = t.prefill_completed_at
           /\ u.completed_at = t.completed_at
           /\ u.execution_time = t.execution_time + x
           /\ u.stage_completed_at = n
           /\ u.preempted_time = t.preempted_time
<1>1. PICK y : y = t.execution_time + x
  OBVIOUS
<1>2. y \in Int
  BY <1>1 DEF TimesRecords
<1>3. u = [t EXCEPT !.execution_time = y, !.stage_completed_at = n]
  BY <1>1 DEF OnBatchStageEnd, TimesRecords
<1> QED BY <1>1, <1>2, <1>3 DEF TimesRecords

(* What Request.on_batch_end does to the times of a request.                *)
LEMMA BatchEndTimesFacts ==
    ASSUME NEW t \in TimesRecords, NEW n \in Int, NEW before, NEW after,
           NEW u, u = OnBatchEndTimes(t, n, before, after)
    PROVE  /\ u \in TimesRecords
           /\ u.scheduled = t.scheduled /\ u.arrived_at = t.arrived_at
           /\ u.scheduled_at = t.scheduled_at /\ u.scheduling_delay = t.scheduling_delay
           /\ u.iteration_delay = t.iteration_delay
           /\ u.iteration_completed_at = n
           /\ u.prefill_completed_at =
                IF after.prefill_complete /\ ~before.prefill_complete
                    /\ t.prefill_completed_at = 0
                THEN n ELSE t.prefill_completed_at
           /\ u.completed_at = IF after.completed THEN n ELSE t.completed_at
           /\ u.execution_time = t.execution_time
           /\ u.stage_completed_at = t.stage_completed_at
           /\ u.preempted_time = t.preempted_time
BY DEF OnBatchEndTimes, TimesRecords

(* A prompt is processed at once and yields a token; then every batch       *)
(* yields one.                                                              *)
LEMMA BatchEndFacts ==
    ASSUME NEW q \in RequestRecords, NEW n, n = IF q.prefill_complete THEN 1 ELSE q.prefill,
           IF q.prefill_complete THEN q.processed > q.prefill ELSE q.processed = 0,
           NEW u, u = OnBatchEnd(q, n)
    PROVE  /\ u \in RequestRecords /\ u.prefill = q.prefill /\ u.prefill_complete
           /\ u.processed = (IF q.prefill_complete THEN q.processed ELSE q.prefill) + 1
           /\ ~q.completed => (u.completed <=> u.processed = q.prefill + q.decode)
<1>1. PICK p, d, k : p = q.prefill /\ d = q.decode /\ k = q.processed
  OBVIOUS
<1>2. p \in Nat \ {0} /\ d \in Nat \ {0} /\ k \in Nat
  BY <1>1 DEF RequestRecords
<1>3. PICK m, c : /\ m = k + n + (IF k + n = p THEN 1 ELSE 0)
                  /\ c = (q.completed \/ m = p + d)
  OBVIOUS
<1>4. /\ q.prefill_complete \/ k + n = p
      /\ m \in Nat /\ m = (IF q.prefill_complete THEN k ELSE p) + 1
  <2>1. CASE q.prefill_complete
    <3>1. n = 1 /\ k + n # p
      BY <1>1, <1>2, <2>1
    <3>2. m = k + 1 /\ m \in Nat
      BY <1>2, <1>3, <3>1
    <3> QED BY <2>1, <3>2
  <2>2. CASE ~q.prefill_complete
    <3>1. n = p /\ k = 0
      BY <1>1, <2>2
    <3>2. m = p + 1 /\ m \in Nat /\ k + n = p
      BY <1>2, <1>3, <3>1
    <3> QED BY <2>2, <3>2
  <2> QED BY <2>1, <2>2
<1>5. u = [q EXCEPT !.processed = m, !.prefill_complete = TRUE, !.completed = c]
  BY <1>1, <1>3, <1>4 DEF OnBatchEnd, TotalTokens, RequestRecords
<1>6. c \in BOOLEAN /\ (~q.completed => (c <=> m = p + d))
  BY <1>3
<1>7. /\ u.processed = m /\ u.prefill_complete = TRUE /\ u.completed = c
      /\ u.prefill = q.prefill
  BY <1>5 DEF RequestRecords
<1>8. u \in RequestRecords
  BY <1>4, <1>5, <1>6 DEF RequestRecords
<1> QED BY <1>1, <1>4, <1>6, <1>7, <1>8

-----------------------------------------------------------------------------
(* Every action keeps the times. *)

(* What is said of one request.                                             *)
Steady(q) == RecordInv(q) /\ TokensInv(q) /\ DoneInv(q)

(* A request that a step leaves alone keeps its part of the invariant.      *)
LEMMA SteadyKept ==
    ASSUME NEW q, Steady(q), req'[q] = req[q], times'[q] = times[q],
           started_at'[q] = started_at[q], token_times'[q] = token_times[q]
    PROVE  Steady(q)'
BY DEF Steady, RecordInv, TokensInv, DoneInv, AccountedTo

(* The events after an iteration of Simulator.run.                          *)
LEMMA EventsAfter ==
    ASSUME NEW e, NEW events, Handled(e, events)
    PROVE  /\ \A f \in event_queue' :
                \/ f \in event_queue /\ f # e
                \/ \E i \in DOMAIN events : f.time = events[i].time /\ f.call = events[i].call
           /\ \A f \in event_queue : f # e => f \in event_queue'
           /\ \A i \in DOMAIN events : \E f \in event_queue' :
                f.time = events[i].time /\ f.call = events[i].call
<1>1. event_queue' = (event_queue \ {e}) \cup {Fresh(events, i) : i \in DOMAIN events}
  BY DEF Handled, Numbered, Fresh
<1>2. \A i \in DOMAIN events :
        Fresh(events, i).time = events[i].time /\ Fresh(events, i).call = events[i].call
  BY DEF Fresh
<1> QED BY <1>1, <1>2

(* No stage starts or ends a batch: the same requests execute.              *)
LEMMA ExecutingKept ==
    ASSUME NEW e, NEW events, Handled(e, events), e.call.type # "batch_stage_end",
           \A i \in DOMAIN events : events[i].call.type # "batch_stage_end"
    PROVE  \A q : Executing(q)' <=> Executing(q)
<1>1. ASSUME NEW f \in event_queue', f.call.type = "batch_stage_end" PROVE f \in event_queue
  BY <1>1, EventsAfter
<1>2. ASSUME NEW f \in event_queue, f.call.type = "batch_stage_end" PROVE f \in event_queue'
  BY <1>2, EventsAfter
<1>3. Calls("batch_stage_end")' = Calls("batch_stage_end")
  BY <1>1, <1>2 DEF Calls
<1> QED BY <1>3 DEF Executing

(* An event that moves no batch out of a stage keeps the times.             *)
LEMMA QuietTimes ==
    ASSUME TimesInv, ConservedInv', NEW e \in event_queue, NEW events, Handled(e, events),
           e.call.type # "batch_stage_end",
           \A i \in DOMAIN events : events[i].call.type \notin {"batch_stage_end", "batch_end"},
           UNCHANGED <<req, times, started_at, token_times, in_flight>>
    PROVE  TimesInv'
<1>1. /\ req' = req /\ times' = times /\ started_at' = started_at
      /\ token_times' = token_times /\ in_flight' = in_flight
  OBVIOUS
<1>2. ASSUME NEW q \in Requests PROVE Steady(q)' /\ RestInv(q)'
  <2>1. Steady(q) /\ RestInv(q)
    BY DEF TimesInv, Steady
  <2>2. Steady(q)'
    BY <1>1, <2>1, SteadyKept
  <2>3. Executing(q)' <=> Executing(q)
    BY ExecutingKept
  <2>4. RestInv(q)'
    BY <1>1, <2>1, <2>3 DEF RestInv, AccountedTo
  <2> QED BY <2>2, <2>4
<1>3. ASSUME NEW f \in event_queue' PROVE ExecutionInv(f)'
  <2>1. CASE f \in event_queue
    <3>1. ExecutionInv(f)
      BY <2>1 DEF TimesInv
    <3> QED BY <1>1, <3>1 DEF ExecutionInv, AccountedTo
  <2>2. CASE f.call.type \notin {"batch_stage_end", "batch_end"}
    BY <2>2 DEF ExecutionInv
  <2> QED BY <2>1, <2>2, EventsAfter
<1>4. ASSUME NEW r \in Replicas, NEW b \in Range(in_flight'[r]) PROVE EntriesInv(b)'
  <2>1. EntriesInv(b)
    BY <1>1 DEF TimesInv
  <2> QED BY <1>1, <2>1 DEF EntriesInv, Entry
<1> QED BY <1>1, <1>2, <1>3, <1>4 DEF TimesInv, Steady

(* RequestArrivalEvent.                                                     *)
LEMMA ArrivalTimes == TimesInv /\ RequestArrival => TimesInv'
<1> SUFFICES ASSUME TimesInv, RequestArrival PROVE TimesInv'
  OBVIOUS
<1>1. ConservedInv'
  BY ArrivalConserves DEF TimesInv
<1>2. PICK e \in Popped("request_arrival") :
        /\ Handled(e, <<At(e.time, [type |-> "global_schedule"])>>)
        /\ UNCHANGED <<req, times, started_at, token_times, in_flight>>
  BY DEF RequestArrival, history
<1>3. e \in event_queue /\ e.call.type # "batch_stage_end"
  BY DEF Popped
<1>4. PICK x : x = At(e.time, [type |-> "global_schedule"])
  OBVIOUS
<1>5. PICK events : events = <<x>>
  OBVIOUS
<1>6. \A i \in DOMAIN events : events[i].call.type \notin {"batch_stage_end", "batch_end"}
  BY <1>4, <1>5 DEF At
<1>7. Handled(e, events)
  BY <1>2, <1>4, <1>5
<1> QED BY <1>1, <1>2, <1>3, <1>6, <1>7, QuietTimes

(* GlobalScheduleEvent.                                                     *)
LEMMA GlobalTimes == TimesInv /\ GlobalSchedule => TimesInv'
<1> SUFFICES ASSUME TimesInv, GlobalSchedule PROVE TimesInv'
  OBVIOUS
<1>1. ConservedInv'
  BY GlobalConserves DEF TimesInv
<1>2. PICK e, order :
        /\ e \in Popped("global_schedule")
        /\ Handled(e, [k \in DOMAIN order |->
                At(e.time, [type |-> "replica_schedule", replica |-> order[k],
                            cause |-> "arrival"])])
        /\ UNCHANGED <<req, times, started_at, token_times, in_flight>>
  BY DEF GlobalSchedule, history
<1>3. e \in event_queue /\ e.call.type # "batch_stage_end"
  BY <1>2 DEF Popped
<1>4. PICK events : events = [k \in DOMAIN order |->
                At(e.time, [type |-> "replica_schedule", replica |-> order[k],
                            cause |-> "arrival"])]
  OBVIOUS
<1>5. \A i \in DOMAIN events : events[i].call.type \notin {"batch_stage_end", "batch_end"}
  BY <1>4 DEF At
<1>6. Handled(e, events)
  BY <1>2, <1>4
<1> QED BY <1>1, <1>2, <1>3, <1>5, <1>6, QuietTimes

(* BatchStageArrivalEvent.                                                  *)
LEMMA StageArrivalTimes == TimesInv /\ BatchStageArrival => TimesInv'
<1> SUFFICES ASSUME TimesInv, BatchStageArrival PROVE TimesInv'
  OBVIOUS
<1>1. ConservedInv'
  BY StageArrivalConserves DEF TimesInv
<1>2. PICK e \in Popped("batch_stage_arrival") :
        /\ Handled(e, <<At(e.time, [type |-> "replica_stage_schedule",
                            replica |-> e.call.replica, stage |-> e.call.stage])>>)
        /\ UNCHANGED <<req, times, started_at, token_times, in_flight>>
  BY DEF BatchStageArrival, history
<1>3. e \in event_queue /\ e.call.type # "batch_stage_end"
  BY DEF Popped
<1>4. PICK x : x = At(e.time, [type |-> "replica_stage_schedule",
                            replica |-> e.call.replica, stage |-> e.call.stage])
  OBVIOUS
<1>5. PICK events : events = <<x>>
  OBVIOUS
<1>6. \A i \in DOMAIN events : events[i].call.type \notin {"batch_stage_end", "batch_end"}
  BY <1>4, <1>5 DEF At
<1>7. Handled(e, events)
  BY <1>2, <1>4, <1>5
<1> QED BY <1>1, <1>2, <1>3, <1>6, <1>7, QuietTimes

(* ReplicaStageScheduleEvent: the stage takes the first batch that waits.   *)
LEMMA StageScheduleTimes == TimesInv /\ ReplicaStageSchedule => TimesInv'
<1> SUFFICES ASSUME TimesInv, ReplicaStageSchedule PROVE TimesInv'
  OBVIOUS
<1>1. ConservedInv /\ ConservedInv' /\ HeapInv /\ PartsInv
  BY StageScheduleConserves DEF TimesInv, ConservedInv, FifoInv, WakeInv
<1>2. PICK e \in Popped("replica_stage_schedule") :
        LET here == stage[e.call.replica][e.call.stage]
            b == Head(here.batch_queue)
        IN  \/ /\ Handled(e, <<>>)
               /\ UNCHANGED <<req, times, started_at, token_times, in_flight>>
            \/ /\ CanStart(here)
               /\ times' = [q \in Requests |->
                        IF q \in Members(b)
                        THEN OnBatchStageSchedule(times[q], e.time) ELSE times[q]]
               /\ started_at' = [q \in Requests |->
                        IF q \in Members(b) /\ started_at[q] = -1
                        THEN e.time ELSE started_at[q]]
               /\ \E t \in ExecutionTimes :
                    Handled(e, <<At(e.time + t,
                        [type |-> "batch_stage_end", replica |-> e.call.replica,
                         stage |-> e.call.stage, batch |-> b, execution_time |-> t])>>)
               /\ UNCHANGED <<req, token_times, in_flight>>
  BY DEF ReplicaStageSchedule, history
<1>3. /\ e \in event_queue /\ e.call.type = "replica_stage_schedule" /\ e.time \in Nat
      /\ e.call.replica \in Replicas /\ e.call.stage \in Stages
  BY <1>1 DEF Popped, HeapInv, CallInv, StageTypes
<1>4. PICK r, s, b : /\ r = e.call.replica /\ s = e.call.stage
                     /\ b = Head(stage[r][s].batch_queue)
  OBVIOUS
<1>5. CASE /\ Handled(e, <<>>)
           /\ UNCHANGED <<req, times, started_at, token_times, in_flight>>
  <2>1. PICK events : events = <<>>
    OBVIOUS
  <2>2. \A i \in DOMAIN events : events[i].call.type \notin {"batch_stage_end", "batch_end"}
    BY <2>1
  <2>3. Handled(e, events) /\ e.call.type # "batch_stage_end"
    BY <1>3, <1>5, <2>1
  <2> QED BY <1>1, <1>3, <1>5, <2>2, <2>3, QuietTimes
<1>6. ASSUME CanStart(stage[r][s]),
             times' = [q \in Requests |->
                        IF q \in Members(b)
                        THEN OnBatchStageSchedule(times[q], e.time) ELSE times[q]],
             started_at' = [q \in Requests |->
                        IF q \in Members(b) /\ started_at[q] = -1
                        THEN e.time ELSE started_at[q]],
             NEW t \in ExecutionTimes,
             Handled(e, <<At(e.time + t,
                        [type |-> "batch_stage_end", replica |-> r,
                         stage |-> s, batch |-> b, execution_time |-> t])>>),
             UNCHANGED <<req, token_times, in_flight>>
      PROVE  TimesInv'
  <2>1. req' = req /\ token_times' = token_times /\ in_flight' = in_flight
    BY <1>6
  <2>2. 1 \in DOMAIN stage[r][s].batch_queue /\ b = stage[r][s].batch_queue[1]
    <3>1. StageInv(stage[r][s])
      BY <1>1, <1>3, <1>4 DEF PartsInv
    <3>2. PICK w : w = stage[r][s].batch_queue
      OBVIOUS
    <3>3. w # <<>> /\ w \in Seq(Range(w))
      BY <1>6, <3>1, <3>2 DEF StageInv, IsSeq, CanStart
    <3> QED BY <1>4, <3>2, <3>3
  <2>3. \A q \in Members(b) : \A f \in event_queue :
            f.call.type \in BatchTypes => q \notin Members(f.call.batch)
    BY <1>1, <1>3, <1>4, <2>2, NotCarried
  <2>4. \A q \in Members(b) : q \in Requests /\ ~req[q].completed
    <3>1. r \in Replicas /\ b \in Range(in_flight[r])
      BY <1>1, <1>3, <1>4, <2>2, InFlight DEF ConservedInv
    <3> QED BY <1>1, <3>1, OneBatch
  <2>5. PICK x : x = At(e.time + t, [type |-> "batch_stage_end", replica |-> r,
                                     stage |-> s, batch |-> b, execution_time |-> t])
    OBVIOUS
  <2>6. PICK events : events = <<x>>
    OBVIOUS
  <2>7. Handled(e, events)
    BY <1>6, <2>5, <2>6
  <2>8. /\ x.time = e.time + t /\ x.call.type = "batch_stage_end" /\ x.call.batch = b
        /\ x.call.execution_time = t /\ DOMAIN events = {1} /\ events[1] = x
    BY <2>5, <2>6 DEF At
  <2>9. t \in Nat \ {0} /\ e.time + t # 0 /\ e.time + t \in Int
    BY <1>3, <1>6, SimulatorAssumption
  <2>10. ASSUME NEW q \in Members(b)
         PROVE  Steady(q)' /\ Executing(q)' /\ AccountedTo(q, e.time)'
    <3>1. /\ q \in Requests /\ ~req[q].completed /\ Steady(q) /\ RestInv(q)
      BY <2>4 DEF TimesInv, Steady
    <3>2. ~Executing(q)
      BY <2>3 DEF Executing, Calls, BatchTypes
    <3>3. PICK v, u : v = times[q] /\ u = times'[q]
      OBVIOUS
    <3>4. v \in TimesRecords /\ u = OnBatchStageSchedule(v, e.time) /\ started_at[q] \in Int
      BY <1>6, <3>1, <3>3 DEF Steady, RecordInv
    <3>5. /\ u \in TimesRecords
          /\ u.scheduled = v.scheduled /\ u.arrived_at = v.arrived_at
          /\ u.scheduled_at = v.scheduled_at /\ u.scheduling_delay = v.scheduling_delay
          /\ u.iteration_completed_at = v.iteration_completed_at
          /\ u.prefill_completed_at = v.prefill_completed_at
          /\ u.execution_time = v.execution_time
          /\ u.preempted_time = IF v.stage_completed_at = 0 THEN 0
                                ELSE v.preempted_time + e.time - v.stage_completed_at
      <4>1. e.time \in Int
        BY <1>3
      <4> QED BY <3>4, <4>1, StageScheduleFacts
    <3>6. PICK m, n, x1, p, l :
            /\ m = started_at[q] /\ n = started_at'[q] /\ x1 = v.execution_time
            /\ p = v.preempted_time /\ l = v.stage_completed_at
      OBVIOUS
    <3>7. m \in Int /\ x1 \in Int /\ p \in Int /\ l \in Int
      BY <3>4, <3>6 DEF TimesRecords
    <3>8. n = IF m = -1 THEN e.time ELSE m
      BY <1>6, <3>1, <3>6
    <3>9. n \in Int /\ n # -1 /\ u.execution_time + u.preempted_time = e.time - n
      <4>1. CASE m = -1
        <5>1. x1 = 0 /\ p = 0 /\ l = 0
          BY <3>1, <3>2, <3>3, <3>6, <4>1 DEF RestInv
        <5> QED BY <1>3, <3>5, <3>6, <3>8, <4>1, <5>1
      <4>2. CASE m # -1
        <5>1. l # 0 /\ x1 + p = l - m
          BY <3>1, <3>2, <3>3, <3>6, <4>2 DEF RestInv, AccountedTo
        <5>2. u.execution_time = x1 /\ u.preempted_time = p + e.time - l /\ n = m
          BY <3>5, <3>6, <3>8, <4>2, <5>1
        <5> QED BY <1>3, <3>7, <4>2, <5>1, <5>2
      <4> QED BY <4>1, <4>2
    <3>10. AccountedTo(q, e.time)'
      BY <2>1, <3>3, <3>6, <3>9 DEF AccountedTo
    <3>11. Steady(q)'
      <4>1. req'[q] = req[q] /\ token_times'[q] = token_times[q]
        BY <2>1
      <4>2. RecordInv(q)'
        BY <3>1, <3>3, <3>5, <3>6, <3>9, <4>1 DEF Steady, RecordInv
      <4>3. TokensInv(q)'
        BY <3>1, <3>3, <3>5, <4>1 DEF Steady, TokensInv
      <4>4. DoneInv(q)'
        BY <3>1, <3>3, <3>5, <4>1 DEF Steady, DoneInv
      <4> QED BY <4>2, <4>3, <4>4 DEF Steady
    <3>12. Executing(q)'
      <4>1. PICK f \in event_queue' : f.call = x.call
        BY <2>7, <2>8, EventsAfter
      <4> QED BY <2>8, <4>1 DEF Executing, Calls
    <3> QED BY <3>10, <3>11, <3>12
  <2>11. \A q \in Requests \ Members(b) :
            times'[q] = times[q] /\ started_at'[q] = started_at[q]
    BY <1>6
  <2>12. ASSUME NEW q \in Requests, q \notin Members(b)
         PROVE  Steady(q)' /\ RestInv(q)'
    <3>1. Steady(q) /\ RestInv(q)
      BY DEF TimesInv, Steady
    <3>2. Steady(q)'
      BY <2>1, <2>11, <2>12, <3>1, SteadyKept
    <3>3. Executing(q) => Executing(q)'
      <4>1. \A f \in event_queue : f.call.type = "batch_stage_end" => f \in event_queue'
        BY <1>3, <2>7, EventsAfter
      <4> QED BY <4>1 DEF Executing, Calls
    <3>4. RestInv(q)'
      BY <2>11, <2>12, <3>1, <3>3 DEF RestInv, AccountedTo
    <3> QED BY <3>2, <3>4
  <2>13. ASSUME NEW q \in Requests PROVE Steady(q)' /\ RestInv(q)'
    <3>1. CASE q \in Members(b)
      BY <2>10, <3>1 DEF RestInv
    <3> QED BY <2>12, <3>1
  <2>14. ASSUME NEW f \in event_queue' PROVE ExecutionInv(f)'
    <3>1. CASE f \in event_queue
      <4>1. ExecutionInv(f)
        BY <3>1 DEF TimesInv
      <4>2. CASE f.call.type \in BatchTypes
        <5>1. \A q \in Members(f.call.batch) :
                q \in Requests /\ times'[q] = times[q] /\ started_at'[q] = started_at[q]
          <6>1. PICK p, c : p = f.call.replica /\ c = f.call.batch
            OBVIOUS
          <6>2. p \in Replicas /\ c \in Range(in_flight[p])
            BY <1>1, <3>1, <4>2, <6>1, InFlight DEF ConservedInv
          <6>3. \A q \in Members(c) : q \in Requests /\ q \notin Members(b)
            BY <1>1, <2>3, <3>1, <4>2, <6>1, <6>2, OneBatch
          <6> QED BY <2>11, <6>1, <6>3
        <5> QED BY <4>1, <5>1 DEF ExecutionInv, AccountedTo
      <4>3. CASE f.call.type \notin BatchTypes
        BY <4>3 DEF ExecutionInv, BatchTypes
      <4> QED BY <4>2, <4>3
    <3>2. CASE f.time = x.time /\ f.call = x.call
      <4>1. PICK d : d = e.time + t
        OBVIOUS
      <4>4. d # 0 /\ d - t = e.time
        BY <1>3, <2>9, <4>1
      <4>5. f.time = d /\ f.call.execution_time = t
        BY <2>8, <3>2, <4>1
      <4>2. \A q \in Members(b) : AccountedTo(q, e.time)'
        BY <2>10
      <4>3. /\ f.time # 0 /\ f.call.execution_time \in Nat /\ f.call.batch = b
            /\ f.call.type = "batch_stage_end" /\ f.time - f.call.execution_time = e.time
        BY <2>8, <2>9, <3>2, <4>4, <4>5
      <4> QED BY <4>2, <4>3 DEF ExecutionInv
    <3> QED BY <2>7, <2>8, <3>1, <3>2, EventsAfter
  <2>15. ASSUME NEW p \in Replicas, NEW c \in Range(in_flight'[p]) PROVE EntriesInv(c)'
    <3>1. EntriesInv(c)
      BY <2>1 DEF TimesInv
    <3>2. ASSUME NEW q \in Requests
          PROVE  /\ times'[q].scheduled = times[q].scheduled
                 /\ times'[q].iteration_delay = times[q].iteration_delay
                 /\ times'[q].iteration_completed_at = times[q].iteration_completed_at
      <4>1. CASE q \in Members(b)
        <5>1. times[q] \in TimesRecords /\ e.time \in Int
          BY <1>3 DEF TimesInv, RecordInv
        <5>2. times'[q] = OnBatchStageSchedule(times[q], e.time)
          BY <1>6, <4>1
        <5> QED BY <5>1, <5>2, StageScheduleFacts
      <4> QED BY <2>11, <4>1
    <3>3. \A y \in Range(c.entries) : y.id \in Requests
      <4>1. \A q \in Members(c) : q \in Requests
        BY <1>1, <2>1, OneBatch
      <4> QED BY <4>1 DEF Members, Range
    <3> QED BY <2>1, <3>1, <3>2, <3>3 DEF EntriesInv, Entry
  <2>16. DOMAIN req' = Requests /\ DOMAIN times' = Requests
    BY <1>6, <2>1 DEF TimesInv
  <2> QED BY <1>1, <2>13, <2>14, <2>15, <2>16 DEF TimesInv, Steady
<1> QED BY <1>2, <1>4, <1>5, <1>6

(* BatchStageEndEvent: the stage's execution is recorded, and the batch     *)
(* goes on.                                                                 *)
LEMMA StageEndTimes == TimesInv /\ BatchStageEnd => TimesInv'
<1> SUFFICES ASSUME TimesInv, BatchStageEnd PROVE TimesInv'
  OBVIOUS
<1>1. ConservedInv /\ ConservedInv' /\ HeapInv
  BY StageEndConserves DEF TimesInv, ConservedInv, FifoInv, WakeInv
<1>2. PICK e \in Popped("batch_stage_end") : \E x, y :
        /\ x.call.type = "replica_stage_schedule"
        /\ \/ y.call.type = "batch_stage_arrival"
           \/ y.time = e.time /\ y.call.type = "batch_end" /\ y.call.batch = e.call.batch
        /\ Handled(e, <<x, y>>)
        /\ times' = [q \in Requests |->
                IF q \in Members(e.call.batch)
                THEN OnBatchStageEnd(times[q], e.time, e.call.execution_time) ELSE times[q]]
        /\ UNCHANGED <<req, started_at, token_times, in_flight>>
  <2>1. PICK e \in Popped("batch_stage_end") :
        LET c == e.call
            again == At(e.time, [type |-> "replica_stage_schedule",
                                 replica |-> c.replica, stage |-> c.stage])
            onward == IF c.stage = NumStages - 1
                      THEN At(e.time, [type |-> "batch_end", replica |-> c.replica,
                                       batch |-> c.batch])
                      ELSE At(e.time, [type |-> "batch_stage_arrival",
                                       replica |-> c.replica, stage |-> c.stage + 1,
                                       batch |-> c.batch])
        IN  /\ times' = [q \in Requests |->
                    IF q \in Members(c.batch)
                    THEN OnBatchStageEnd(times[q], e.time, c.execution_time) ELSE times[q]]
            /\ Handled(e, <<again, onward>>)
            /\ UNCHANGED <<req, started_at, token_times, in_flight>>
    BY DEF BatchStageEnd, history
  <2>2. PICK x : x = At(e.time, [type |-> "replica_stage_schedule",
                                 replica |-> e.call.replica, stage |-> e.call.stage])
    OBVIOUS
  <2>3. PICK y : y = IF e.call.stage = NumStages - 1
                      THEN At(e.time, [type |-> "batch_end", replica |-> e.call.replica,
                                       batch |-> e.call.batch])
                      ELSE At(e.time, [type |-> "batch_stage_arrival",
                                       replica |-> e.call.replica, stage |-> e.call.stage + 1,
                                       batch |-> e.call.batch])
    OBVIOUS
  <2>4. x.call.type = "replica_stage_schedule"
    BY <2>2 DEF At
  <2>5. \/ y.call.type = "batch_stage_arrival"
        \/ y.time = e.time /\ y.call.type = "batch_end" /\ y.call.batch = e.call.batch
    BY <2>3 DEF At
  <2>6. /\ Handled(e, <<x, y>>)
        /\ times' = [q \in Requests |->
                IF q \in Members(e.call.batch)
                THEN OnBatchStageEnd(times[q], e.time, e.call.execution_time) ELSE times[q]]
        /\ UNCHANGED <<req, started_at, token_times, in_flight>>
    BY <2>1, <2>2, <2>3
  <2> QED BY <2>4, <2>5, <2>6
<1>3. e \in event_queue /\ e.call.type = "batch_stage_end" /\ e.time \in Nat
  BY <1>1 DEF Popped, HeapInv
<1>4. PICK x, y :
        /\ x.call.type = "replica_stage_schedule"
        /\ \/ y.call.type = "batch_stage_arrival"
           \/ y.time = e.time /\ y.call.type = "batch_end" /\ y.call.batch = e.call.batch
        /\ Handled(e, <<x, y>>)
  BY <1>2
<1>5. PICK events, b, d : events = <<x, y>> /\ b = e.call.batch /\ d = e.call.execution_time
  OBVIOUS
<1>6. /\ Handled(e, events) /\ DOMAIN events = {1, 2} /\ events[1] = x /\ events[2] = y
  BY <1>4, <1>5
<1>7. /\ req' = req /\ started_at' = started_at /\ token_times' = token_times
      /\ in_flight' = in_flight
      /\ times' = [q \in Requests |->
                IF q \in Members(b) THEN OnBatchStageEnd(times[q], e.time, d) ELSE times[q]]
  BY <1>2, <1>5
<1>8. /\ e.time # 0 /\ d \in Nat /\ \A q \in Members(b) : AccountedTo(q, e.time - d)
  BY <1>3, <1>5 DEF TimesInv, ExecutionInv
<1>9. \A q \in Members(b) : q \in Requests /\ ~req[q].completed
  <2>1. PICK r : r = e.call.replica
    OBVIOUS
  <2>2. r \in Replicas /\ b \in Range(in_flight[r])
    BY <1>1, <1>3, <1>5, <2>1, InFlight DEF ConservedInv, BatchTypes
  <2> QED BY <1>1, <2>2, OneBatch
<1>10. ASSUME NEW q \in Members(b)
       PROVE  /\ Steady(q)' /\ RestInv(q)'
              /\ started_at'[q] # -1 /\ times'[q].stage_completed_at = e.time
              /\ times'[q].scheduled = times[q].scheduled
              /\ times'[q].iteration_delay = times[q].iteration_delay
              /\ times'[q].iteration_completed_at = times[q].iteration_completed_at
  <2>1. q \in Requests /\ ~req[q].completed /\ Steady(q) /\ AccountedTo(q, e.time - d)
    BY <1>8, <1>9 DEF TimesInv, Steady
  <2>2. PICK v, u : v = times[q] /\ u = times'[q]
    OBVIOUS
  <2>3. v \in TimesRecords /\ u = OnBatchStageEnd(v, e.time, d) /\ started_at[q] \in Int
    BY <1>7, <2>1, <2>2 DEF Steady, RecordInv
  <2>4. /\ u \in TimesRecords
        /\ u.scheduled = v.scheduled /\ u.arrived_at = v.arrived_at
        /\ u.scheduled_at = v.scheduled_at /\ u.scheduling_delay = v.scheduling_delay
        /\ u.iteration_delay = v.iteration_delay
        /\ u.iteration_completed_at = v.iteration_completed_at
        /\ u.prefill_completed_at = v.prefill_completed_at
        /\ u.execution_time = v.execution_time + d
        /\ u.stage_completed_at = e.time
        /\ u.preempted_time = v.preempted_time
    <3>1. e.time \in Int /\ d \in Int
      BY <1>3, <1>8
    <3> QED BY <2>3, <3>1, StageEndFacts
  <2>5. PICK m, x1, p, n : /\ m = started_at[q] /\ x1 = v.execution_time
                           /\ p = v.preempted_time /\ n = e.time
    OBVIOUS
  <2>6. m \in Int /\ x1 \in Int /\ p \in Int /\ n \in Int /\ d \in Int
    BY <1>3, <1>8, <2>3, <2>5 DEF TimesRecords
  <2>7. m # -1 /\ x1 + p = n - d - m
    BY <2>1, <2>2, <2>5 DEF AccountedTo
  <2>8. x1 + d + p = n - m
    BY <2>6, <2>7
  <2>9. AccountedTo(q, e.time)'
    <3>1. u.execution_time + u.preempted_time = n - m
      BY <2>4, <2>5, <2>8
    <3> QED BY <1>7, <2>2, <2>5, <2>7, <3>1 DEF AccountedTo
  <2>10. RestInv(q)'
    BY <1>7, <1>8, <2>2, <2>4, <2>5, <2>7, <2>9 DEF RestInv, AccountedTo
  <2>11. Steady(q)'
    <3>1. RecordInv(q)'
      BY <1>7, <2>1, <2>2, <2>4 DEF Steady, RecordInv
    <3>2. TokensInv(q)'
      BY <1>7, <2>1, <2>2, <2>4 DEF Steady, TokensInv
    <3>3. DoneInv(q)'
      BY <1>7, <2>1, <2>2, <2>4 DEF Steady, DoneInv
    <3> QED BY <3>1, <3>2, <3>3 DEF Steady
  <2> QED BY <1>7, <2>2, <2>4, <2>5, <2>7, <2>10, <2>11
<1>11. \A q \in Requests \ Members(b) : times'[q] = times[q]
  BY <1>7
<1>12. ASSUME NEW q \in Requests, q \notin Members(b) PROVE Steady(q)' /\ RestInv(q)'
  <2>1. Steady(q) /\ RestInv(q)
    BY DEF TimesInv, Steady
  <2>2. Steady(q)'
    BY <1>7, <1>11, <1>12, <2>1, SteadyKept
  <2>3. Executing(q) => Executing(q)'
    <3>1. \A f \in event_queue : q \in Members(f.call.batch) => f \in event_queue'
      BY <1>5, <1>6, <1>12, EventsAfter
    <3> QED BY <3>1 DEF Executing, Calls
  <2>4. RestInv(q)'
    BY <1>7, <1>11, <1>12, <2>1, <2>3 DEF RestInv, AccountedTo
  <2> QED BY <2>2, <2>4
<1>13. \A q \in Requests : Steady(q)' /\ RestInv(q)'
  BY <1>10, <1>12
<1>14. ASSUME NEW f \in event_queue' PROVE ExecutionInv(f)'
  <2>1. CASE f \in event_queue /\ f # e
    <3>1. ExecutionInv(f)
      BY <2>1 DEF TimesInv
    <3>2. CASE f.call.type \in BatchTypes
      <4>1. PICK p, c : p = f.call.replica /\ c = f.call.batch
        OBVIOUS
      <4>2. p \in Replicas /\ c \in Range(in_flight[p])
        BY <1>1, <2>1, <3>2, <4>1, InFlight DEF ConservedInv
      <4>3. \A q \in Members(c) : q \in Requests
        BY <1>1, <4>2, OneBatch
      <4>4. \A q \in Members(c) : q \notin Members(b)
        BY <1>1, <1>3, <1>5, <2>1, <3>2, <4>1, OneCarrier DEF BatchTypes
      <4>5. \A q \in Members(f.call.batch) : times'[q] = times[q]
        BY <1>11, <4>1, <4>3, <4>4
      <4> QED BY <1>7, <3>1, <4>5 DEF ExecutionInv, AccountedTo
    <3>3. CASE f.call.type \notin BatchTypes
      BY <3>3 DEF ExecutionInv, BatchTypes
    <3> QED BY <3>2, <3>3
  <2>2. CASE f.time = x.time /\ f.call = x.call
    BY <1>4, <2>2 DEF ExecutionInv
  <2>3. CASE f.time = y.time /\ f.call = y.call
    BY <1>4, <1>5, <1>10, <2>3 DEF ExecutionInv
  <2> QED BY <1>6, <2>1, <2>2, <2>3, EventsAfter
<1>15. ASSUME NEW p \in Replicas, NEW c \in Range(in_flight'[p]) PROVE EntriesInv(c)'
  <2>1. EntriesInv(c)
    BY <1>7 DEF TimesInv
  <2>2. ASSUME NEW q \in Requests
        PROVE  /\ times'[q].scheduled = times[q].scheduled
               /\ times'[q].iteration_delay = times[q].iteration_delay
               /\ times'[q].iteration_completed_at = times[q].iteration_completed_at
    BY <1>10, <1>11
  <2>3. \A z \in Range(c.entries) : z.id \in Requests
    <3>1. \A q \in Members(c) : q \in Requests
      BY <1>1, <1>7, OneBatch
    <3> QED BY <3>1 DEF Members, Range
  <2> QED BY <1>7, <2>1, <2>2, <2>3 DEF EntriesInv, Entry
<1>16. DOMAIN req' = Requests /\ DOMAIN times' = Requests
  BY <1>7 DEF TimesInv
<1> QED BY <1>1, <1>13, <1>14, <1>15, <1>16 DEF TimesInv, Steady

(* BatchEndEvent: each request of the batch has a token more, and when its  *)
(* last is there it is completed.                                           *)
LEMMA BatchEndKeepsTimes == TimesInv /\ BatchEnd => TimesInv'
<1> SUFFICES ASSUME TimesInv, BatchEnd PROVE TimesInv'
  OBVIOUS
<1>1. ConservedInv /\ ConservedInv' /\ HeapInv /\ DOMAIN in_flight = Replicas
  BY BatchEndConserves DEF TimesInv, ConservedInv, FifoInv, WakeInv
<1>2. PICK e \in Popped("batch_end") :
        LET r == e.call.replica
            entries == e.call.batch.entries
            ended == Members(e.call.batch)
            tokens(q) == (CHOOSE x \in Range(entries) : x.id = q).tokens
            after == [q \in Requests |->
                        IF q \in ended THEN OnBatchEnd(req[q], tokens(q)) ELSE req[q]]
        IN  /\ req' = after
            /\ times' = [q \in Requests |->
                    IF q \in ended THEN OnBatchEndTimes(times[q], e.time, req[q], after[q])
                                   ELSE times[q]]
            /\ token_times' = [q \in Requests |->
                    IF q \in ended /\ HasStartedDecode(after[q])
                    THEN token_times[q] + TokenTime(q, e.call.batch, e.time)
                    ELSE token_times[q]]
            /\ in_flight' = [in_flight EXCEPT ![r] = Without(@, {e.call.batch})]
            /\ Handled(e, <<At(e.time, [type |-> "replica_schedule", replica |-> r,
                                        cause |-> "batch_end"])>>)
            /\ started_at' = started_at
  BY DEF BatchEnd
<1>3. PICK r, b : r = e.call.replica /\ b = e.call.batch
  OBVIOUS
<1>4. e \in event_queue /\ e.call.type = "batch_end" /\ e.time \in Nat
  BY <1>1 DEF Popped, HeapInv
<1>5. r \in Replicas /\ b \in Range(in_flight[r])
  BY <1>1, <1>3, <1>4, InFlight DEF ConservedInv, BatchTypes
<1>6. \A q \in Members(b) : q \in Requests /\ ~req[q].completed
  BY <1>1, <1>5, OneBatch
<1>7. /\ DOMAIN req' = Requests /\ DOMAIN times' = Requests /\ started_at' = started_at
      /\ in_flight' = [in_flight EXCEPT ![r] = Without(@, {b})]
      /\ \A q \in Requests \ Members(b) :
            req'[q] = req[q] /\ times'[q] = times[q] /\ token_times'[q] = token_times[q]
  BY <1>2, <1>3
<1>8. ASSUME NEW q \in Members(b)
      PROVE  /\ req'[q] = OnBatchEnd(req[q], Entry(q).tokens)
             /\ times'[q] = OnBatchEndTimes(times[q], e.time, req[q], req'[q])
             /\ token_times'[q] = IF HasStartedDecode(req'[q])
                                  THEN token_times[q] + TokenTime(q, b, e.time)
                                  ELSE token_times[q]
             /\ times[q].scheduled /\ b.scheduled_at \in Int
             /\ times[q].iteration_delay = b.scheduled_at - times[q].iteration_completed_at
  <2>1. \E x \in Range(b.entries) : x.id = q
    BY DEF Members, Range
  <2>2. PICK x : x = CHOOSE y \in Range(b.entries) : y.id = q
    OBVIOUS
  <2>3. x \in Range(b.entries) /\ x.id = q
    BY <2>1, <2>2
  <2>4. EntriesInv(b)
    BY <1>5 DEF TimesInv
  <2>5. /\ x = Entry(q) /\ times[q].scheduled /\ b.scheduled_at \in Int
        /\ times[q].iteration_delay = b.scheduled_at - times[q].iteration_completed_at
    BY <2>3, <2>4 DEF EntriesInv
  <2>6. q \in Requests
    BY <1>6
  <2>7. req'[q] = OnBatchEnd(req[q], x.tokens)
    BY <1>2, <1>3, <2>2, <2>6
  <2>8. /\ times'[q] = OnBatchEndTimes(times[q], e.time, req[q], req'[q])
        /\ token_times'[q] = IF HasStartedDecode(req'[q])
                             THEN token_times[q] + TokenTime(q, b, e.time)
                             ELSE token_times[q]
    BY <1>2, <1>3, <2>6
  <2> QED BY <2>5, <2>7, <2>8
<1>9. PICK x : x = At(e.time, [type |-> "replica_schedule", replica |-> e.call.replica,
                               cause |-> "batch_end"])
  OBVIOUS
<1>10. PICK events : events = <<x>>
  OBVIOUS
<1>11. /\ Handled(e, events)
       /\ \A i \in DOMAIN events :
            events[i].call.type \notin {"batch_stage_end", "batch_end"}
  <2>1. Handled(e, events)
    BY <1>2, <1>9, <1>10
  <2>2. x.call.type \notin {"batch_stage_end", "batch_end"}
    BY <1>9 DEF At
  <2> QED BY <1>10, <2>1, <2>2
<1>12. \A q : Executing(q)' <=> Executing(q)
  BY <1>4, <1>11, ExecutingKept
<1>13. ASSUME NEW q \in Requests
       PROVE  /\ times'[q].execution_time = times[q].execution_time
              /\ times'[q].preempted_time = times[q].preempted_time
              /\ times'[q].stage_completed_at = times[q].stage_completed_at
  <2>1. CASE q \in Members(b)
    <3>1. times[q] \in TimesRecords /\ e.time \in Int
      BY <1>4 DEF TimesInv, RecordInv
    <3>2. times'[q] = OnBatchEndTimes(times[q], e.time, req[q], req'[q])
      BY <1>8, <2>1
    <3> QED BY <3>1, <3>2, BatchEndTimesFacts
  <2> QED BY <1>7, <2>1
<1>14. ASSUME NEW q \in Requests PROVE RestInv(q)'
  <2>1. RestInv(q)
    BY DEF TimesInv
  <2> QED BY <1>7, <1>12, <1>13, <2>1 DEF RestInv, AccountedTo
<1>15. ASSUME NEW q \in Members(b) PROVE Steady(q)'
  <2>1. q \in Requests /\ ~req[q].completed /\ Steady(q) /\ RestInv(q)
    BY <1>6 DEF TimesInv, Steady
  <2>2. PICK o, n, v, u : /\ o = req[q] /\ n = req'[q]
                          /\ v = times[q] /\ u = times'[q]
    OBVIOUS
  <2>3. /\ o \in RequestRecords /\ v \in TimesRecords /\ token_times[q] \in Int
        /\ started_at[q] \in Int
    BY <2>1, <2>2 DEF Steady, RecordInv
  <2>4. /\ n \in RequestRecords /\ n.prefill = o.prefill /\ n.prefill_complete
        /\ n.processed = (IF o.prefill_complete THEN o.processed ELSE o.prefill) + 1
    <3>1. PICK k : k = Entry(q).tokens
      OBVIOUS
    <3>2. k = IF o.prefill_complete THEN 1 ELSE o.prefill
      BY <2>2, <3>1 DEF Entry
    <3>3. IF o.prefill_complete THEN o.processed > o.prefill ELSE o.processed = 0
      BY <2>1, <2>2 DEF Steady, TokensInv
    <3>4. n = OnBatchEnd(o, k)
      BY <1>8, <2>2, <3>1
    <3> QED BY <2>3, <3>2, <3>3, <3>4, BatchEndFacts
  <2>5. /\ u \in TimesRecords
        /\ u.scheduled = v.scheduled /\ u.arrived_at = v.arrived_at
        /\ u.scheduled_at = v.scheduled_at /\ u.scheduling_delay = v.scheduling_delay
        /\ u.iteration_completed_at = e.time
        /\ u.prefill_completed_at =
             IF n.prefill_complete /\ ~o.prefill_complete /\ v.prefill_completed_at = 0
             THEN e.time ELSE v.prefill_completed_at
        /\ u.completed_at = IF n.completed THEN e.time ELSE v.completed_at
    <3>1. e.time \in Int /\ u = OnBatchEndTimes(v, e.time, o, n)
      BY <1>4, <1>8, <2>2
    <3> QED BY <2>3, <3>1, BatchEndTimesFacts
  <2>6. PICK p, k, m, i, f, d, c, g, w :
            /\ p = o.prefill /\ k = o.processed /\ m = n.processed
            /\ i = v.iteration_completed_at /\ f = v.prefill_completed_at
            /\ d = v.iteration_delay /\ c = b.scheduled_at /\ g = token_times[q]
            /\ w = token_times'[q]
    OBVIOUS
  <2>7. /\ p \in Nat \ {0} /\ k \in Nat /\ m \in Nat /\ i \in Int /\ f \in Int /\ d \in Int
        /\ c \in Int /\ g \in Int /\ d = c - i /\ e.time \in Int
    BY <1>4, <1>8, <2>2, <2>3, <2>4, <2>6 DEF RequestRecords, TimesRecords
  <2>8. w = IF m > p + 1 THEN g + (e.time - c + d) ELSE g
    <3>1. n.prefill = p
      BY <2>4, <2>6
    <3> QED BY <1>8, <2>2, <2>6, <3>1 DEF HasStartedDecode, TokenTime
  <2>9. w \in Int /\ m > p /\ w = e.time - u.prefill_completed_at
    <3>1. CASE o.prefill_complete
      <4>1. k > p /\ g = i - f /\ m = k + 1 /\ u.prefill_completed_at = f
        BY <2>1, <2>2, <2>4, <2>5, <2>6, <3>1 DEF Steady, TokensInv
      <4>2. m > p + 1 /\ m > p
        BY <2>7, <4>1
      <4>3. w = g + (e.time - c + d)
        BY <2>8, <4>2
      <4>4. w \in Int /\ w = e.time - f
        BY <2>7, <4>1, <4>3
      <4> QED BY <4>1, <4>2, <4>4
    <3>2. CASE ~o.prefill_complete
      <4>1. g = 0 /\ f = 0 /\ m = p + 1 /\ u.prefill_completed_at = e.time
        BY <2>1, <2>2, <2>4, <2>5, <2>6, <3>2 DEF Steady, TokensInv
      <4>2. ~(m > p + 1) /\ m > p
        BY <2>7, <4>1
      <4> QED BY <2>7, <2>8, <4>1, <4>2
    <3> QED BY <3>1, <3>2
  <2>10. AccountedTo(q, e.time)'
    <3>1. started_at[q] # -1 /\ times[q].stage_completed_at = e.time
      BY <1>3, <1>4 DEF TimesInv, ExecutionInv
    <3>2. ~Executing(q)
      <4> SUFFICES ASSUME Executing(q) PROVE FALSE
        OBVIOUS
      <4>1. PICK h \in event_queue : h.call.type = "batch_stage_end" /\ q \in Members(h.call.batch)
        BY DEF Executing, Calls
      <4>2. h = e
        BY <1>1, <1>3, <1>4, <4>1, OneCarrier DEF BatchTypes
      <4> QED BY <1>4, <4>1, <4>2
    <3>3. AccountedTo(q, e.time)
      BY <2>1, <3>1, <3>2 DEF RestInv
    <3> QED BY <1>7, <1>13, <2>1, <3>3 DEF AccountedTo
  <2>11. RecordInv(q)'
    BY <1>7, <2>2, <2>3, <2>4, <2>5, <2>6, <2>9 DEF RecordInv
  <2>12. TokensInv(q)'
    BY <2>2, <2>4, <2>5, <2>6, <2>9 DEF TokensInv
  <2>13. DoneInv(q)'
    <3>1. u.scheduled /\ (n.completed => u.completed_at = e.time)
      BY <1>8, <2>2, <2>5
    <3>2. u.arrived_at + u.scheduling_delay = u.scheduled_at
      BY <1>8, <2>1, <2>2, <2>5 DEF Steady, DoneInv
    <3> QED BY <2>2, <2>5, <2>10, <3>1, <3>2 DEF DoneInv, AccountedTo
  <2> QED BY <2>11, <2>12, <2>13 DEF Steady
<1>16. ASSUME NEW q \in Requests PROVE Steady(q)'
  <2>1. Steady(q)
    BY DEF TimesInv, Steady
  <2>2. CASE q \notin Members(b)
    BY <1>7, <2>1, <2>2, SteadyKept
  <2> QED BY <1>15, <2>2
<1>17. ASSUME NEW f \in event_queue' PROVE ExecutionInv(f)'
  <2>1. CASE f \in event_queue
    <3>1. ExecutionInv(f)
      BY <2>1 DEF TimesInv
    <3>2. CASE f.call.type \in BatchTypes
      <4>1. PICK p, c : p = f.call.replica /\ c = f.call.batch
        OBVIOUS
      <4>2. p \in Replicas /\ c \in Range(in_flight[p])
        BY <1>1, <2>1, <3>2, <4>1, InFlight DEF ConservedInv
      <4>3. \A q \in Members(f.call.batch) : q \in Requests
        BY <1>1, <4>1, <4>2, OneBatch
      <4> QED BY <1>7, <1>13, <3>1, <4>3 DEF ExecutionInv, AccountedTo
    <3>3. CASE f.call.type \notin BatchTypes
      BY <3>3 DEF ExecutionInv, BatchTypes
    <3> QED BY <3>2, <3>3
  <2>2. CASE f.call.type \notin {"batch_stage_end", "batch_end"}
    BY <2>2 DEF ExecutionInv
  <2> QED BY <1>11, <2>1, <2>2, EventsAfter
<1>18. ASSUME NEW p \in Replicas, NEW c \in Range(in_flight'[p]) PROVE EntriesInv(c)'
  <2>1. c \in Range(in_flight[p]) /\ (p = r => c # b)
    <3>1. IsSeq(in_flight[r])
      BY <1>1, <1>5 DEF ConservedInv, FifoInv, LineInv
    <3>2. Range(Without(in_flight[r], {b})) = Range(in_flight[r]) \ {b}
      BY <3>1, WithoutFacts
    <3>3. in_flight'[r] = Without(in_flight[r], {b})
      BY <1>1, <1>5, <1>7
    <3>4. p # r => in_flight'[p] = in_flight[p]
      BY <1>1, <1>7
    <3> QED BY <3>2, <3>3, <3>4
  <2>2. EntriesInv(c)
    BY <2>1 DEF TimesInv
  <2>3. \A q \in Members(c) : q \in Requests /\ q \notin Members(b)
    BY <1>1, <1>5, <2>1, OneBatch
  <2>4. \A y \in Range(c.entries) : req'[y.id] = req[y.id] /\ times'[y.id] = times[y.id]
    <3>1. \A y \in Range(c.entries) : y.id \in Members(c)
      BY DEF Members, Range
    <3> QED BY <1>7, <2>3, <3>1
  <2> QED BY <2>2, <2>4 DEF EntriesInv, Entry
<1> QED BY <1>1, <1>7, <1>14, <1>16, <1>17, <1>18 DEF TimesInv, Steady

(* ReplicaScheduleEvent: the requests of the new batches are not in flight, *)
(* and start an iteration.                                                  *)
LEMMA ReplicaTimes == TimesInv /\ ReplicaSchedule => TimesInv'
<1> SUFFICES ASSUME TimesInv, ReplicaSchedule PROVE TimesInv'
  OBVIOUS
<1>1. ConservedInv /\ ConservedInv' /\ HeapInv /\ OwnerInv /\ DOMAIN in_flight = Replicas
  BY ReplicaConserves DEF TimesInv, ConservedInv, FifoInv, WakeInv
<1>2. PICK e \in Popped("replica_schedule") :
        LET r == e.call.replica
            ids == OnSchedule(scheduler[r]).batches
            new == [k \in DOMAIN ids |-> BatchOf(last_batch_id + k, ids[k], e.time)]
            members == UNION {Range(ids[k]) : k \in DOMAIN ids}
        IN  /\ in_flight' = [in_flight EXCEPT ![r] = @ \o new]
            /\ times' = [q \in Requests |->
                    IF q \in members THEN OnBatchSchedule(times[q], e.time) ELSE times[q]]
            /\ Handled(e, [k \in DOMAIN new |-> StageCall(r, new[k], e.time)])
            /\ UNCHANGED <<req, started_at, token_times>>
  BY DEF ReplicaSchedule, BatchOf, StageCall
<1>3. PICK r, ids : r = e.call.replica /\ ids = OnSchedule(scheduler[r]).batches
  OBVIOUS
<1>4. PICK new, members :
        /\ new = [k \in DOMAIN ids |-> BatchOf(last_batch_id + k, ids[k], e.time)]
        /\ members = UNION {Range(ids[k]) : k \in DOMAIN ids}
  OBVIOUS
<1>5. PICK events : events = [k \in DOMAIN new |-> StageCall(r, new[k], e.time)]
  OBVIOUS
<1>6. /\ in_flight' = [in_flight EXCEPT ![r] = @ \o new]
      /\ times' = [q \in Requests |->
                IF q \in members THEN OnBatchSchedule(times[q], e.time) ELSE times[q]]
      /\ Handled(e, events)
      /\ UNCHANGED <<req, started_at, token_times>>
  BY <1>2, <1>3, <1>4, <1>5
<1>7. e \in event_queue /\ e.call.type = "replica_schedule" /\ r \in Replicas /\ e.time \in Nat
  BY <1>1, <1>3 DEF Popped, HeapInv, CallInv
<1>8. /\ req' = req /\ started_at' = started_at /\ token_times' = token_times
      /\ \A q \in Requests \ members : times'[q] = times[q]
      /\ DOMAIN times' = Requests /\ Handled(e, events)
  BY <1>6
<1>9. PICK s, w : s = scheduler[r] /\ w = OnSchedule(s)
  OBVIOUS
<1>10. /\ Sound(s) /\ s.running <= NumStages
       /\ Owned(r) = Range(s.queue) \cup s.allocated /\ Owned(r) \subseteq Live
       /\ Batched(s) = UNION {Members(b) : b \in Range(in_flight[r])}
  BY <1>1, <1>7, <1>9, HeldFacts
<1>11. /\ IsSeq(ids) /\ Apart(ids)
       /\ \A i \in DOMAIN ids : Range(ids[i]) \cap Batched(s) = {}
       /\ members \subseteq Owned(r)
  <2>1. Moved(s, w)
    BY <1>9, <1>10, OnScheduleMoves
  <2>2. /\ IsSeq(ids) /\ Apart(ids)
        /\ \A i \in DOMAIN ids : Range(ids[i]) \cap Batched(s) = {}
        /\ Range(w.after.queue) \cup w.after.allocated = Range(s.queue) \cup s.allocated
        /\ Batched(w.after) = Batched(s) \cup UNION {Range(ids[i]) : i \in DOMAIN ids}
    <3>1. ids = w.batches
      BY <1>3, <1>9
    <3> QED BY <2>1, <3>1 DEF Moved
  <2>3. members \subseteq w.after.allocated
    BY <1>4, <2>2 DEF Batched
  <2> QED BY <1>10, <2>2, <2>3
<1>12. ASSUME NEW p \in Replicas, NEW c \in Range(in_flight[p]), NEW q \in Members(c)
       PROVE  q \in Requests /\ q \notin members
  <2>1. q \in Requests
    BY <1>1, <1>12, OneBatch
  <2>2. ASSUME q \in members PROVE FALSE
    <3>1. q \in Owned(r)
      BY <1>11, <2>2
    <3>2. q \in Owned(p)
      BY <1>1 DEF ConservedInv, HeldInv, Owned
    <3>3. p = r
      BY <1>1, <1>7, <3>1, <3>2 DEF OwnerInv
    <3>4. q \in Batched(s)
      BY <1>10, <3>3
    <3> QED BY <1>4, <1>11, <2>2, <3>4
  <2> QED BY <2>1, <2>2
<1>13. members \subseteq Requests
  BY <1>10, <1>11 DEF Live
<1>14. ASSUME NEW q \in members
       PROVE  /\ Steady(q)' /\ times'[q].scheduled
              /\ times'[q].iteration_delay = e.time - times'[q].iteration_completed_at
              /\ times'[q].execution_time = times[q].execution_time
              /\ times'[q].preempted_time = times[q].preempted_time
              /\ times'[q].stage_completed_at = times[q].stage_completed_at
  <2>1. q \in Requests /\ Steady(q)
    BY <1>13 DEF TimesInv, Steady
  <2>2. PICK v, u : v = times[q] /\ u = times'[q]
    OBVIOUS
  <2>3. v \in TimesRecords /\ u = OnBatchSchedule(v, e.time)
    BY <1>6, <2>1, <2>2 DEF Steady, RecordInv
  <2>4. /\ u \in TimesRecords
        /\ u.scheduled /\ u.arrived_at = v.arrived_at
        /\ u.iteration_delay = e.time - v.iteration_completed_at
        /\ u.iteration_completed_at = v.iteration_completed_at
        /\ u.prefill_completed_at = v.prefill_completed_at
        /\ u.completed_at = v.completed_at
        /\ u.execution_time = v.execution_time /\ u.preempted_time = v.preempted_time
        /\ u.stage_completed_at = v.stage_completed_at
        /\ v.scheduled => /\ u.scheduled_at = v.scheduled_at
                          /\ u.scheduling_delay = v.scheduling_delay
        /\ ~v.scheduled => /\ u.scheduled_at = e.time
                           /\ u.scheduling_delay = e.time - v.arrived_at
    <3>1. e.time \in Int
      BY <1>7
    <3> QED BY <2>3, <3>1, ScheduleFacts
  <2>5. u.arrived_at + u.scheduling_delay = u.scheduled_at
    <3>1. CASE v.scheduled
      BY <2>1, <2>2, <2>4, <3>1 DEF Steady, DoneInv
    <3>2. CASE ~v.scheduled
      <4>1. PICK a, n : a = v.arrived_at /\ n = e.time
        OBVIOUS
      <4>2. a \in Int /\ n \in Int
        BY <1>7, <2>3, <4>1 DEF TimesRecords
      <4>3. a + (n - a) = n
        BY <4>2
      <4> QED BY <2>4, <3>2, <4>1, <4>3
    <3> QED BY <3>1, <3>2
  <2>6. RecordInv(q)' /\ TokensInv(q)'
    BY <1>8, <2>1, <2>2, <2>4 DEF Steady, RecordInv, TokensInv
  <2>7. DoneInv(q)'
    BY <1>8, <2>1, <2>2, <2>4, <2>5 DEF Steady, DoneInv, AccountedTo
  <2> QED BY <2>2, <2>4, <2>6, <2>7 DEF Steady
<1>15. \A i \in DOMAIN events :
            events[i].call.type \notin {"batch_stage_end", "batch_end"}
  BY <1>4, <1>5 DEF StageCall, At
<1>16. ASSUME NEW q \in Requests
       PROVE  /\ times'[q].execution_time = times[q].execution_time
              /\ times'[q].preempted_time = times[q].preempted_time
              /\ times'[q].stage_completed_at = times[q].stage_completed_at
  BY <1>8, <1>14
<1>17. ASSUME NEW q \in Requests PROVE Steady(q)' /\ RestInv(q)'
  <2>1. Steady(q) /\ RestInv(q)
    BY DEF TimesInv, Steady
  <2>2. ASSUME q \notin members PROVE Steady(q)'
    <3>1. /\ req'[q] = req[q] /\ times'[q] = times[q]
          /\ started_at'[q] = started_at[q] /\ token_times'[q] = token_times[q]
      BY <1>8, <2>2
    <3> QED BY <2>1, <3>1, SteadyKept
  <2>3. Executing(q)' <=> Executing(q)
    BY <1>7, <1>8, <1>15, ExecutingKept
  <2>4. RestInv(q)'
    BY <1>8, <1>16, <2>1, <2>3 DEF RestInv, AccountedTo
  <2> QED BY <1>14, <2>2, <2>4
<1>18. ASSUME NEW f \in event_queue' PROVE ExecutionInv(f)'
  <2>1. CASE f \in event_queue
    <3>1. ExecutionInv(f)
      BY <2>1 DEF TimesInv
    <3>2. CASE f.call.type \in BatchTypes
      <4>1. PICK p, c : p = f.call.replica /\ c = f.call.batch
        OBVIOUS
      <4>2. p \in Replicas /\ c \in Range(in_flight[p])
        BY <1>1, <2>1, <3>2, <4>1, InFlight DEF ConservedInv
      <4>3. \A q \in Members(f.call.batch) : q \in Requests
        BY <1>12, <4>1, <4>2
      <4> QED BY <1>8, <1>16, <3>1, <4>3 DEF ExecutionInv, AccountedTo
    <3>3. CASE f.call.type \notin BatchTypes
      BY <3>3 DEF ExecutionInv, BatchTypes
    <3> QED BY <3>2, <3>3
  <2>2. CASE f.call.type \notin {"batch_stage_end", "batch_end"}
    BY <2>2 DEF ExecutionInv
  <2> QED BY <1>8, <1>15, <2>1, <2>2, EventsAfter
<1>19. ASSUME NEW p \in Replicas, NEW c \in Range(in_flight[p]) PROVE EntriesInv(c)'
  <2>1. EntriesInv(c)
    BY DEF TimesInv
  <2>2. \A y \in Range(c.entries) : times'[y.id] = times[y.id]
    <3>1. \A y \in Range(c.entries) : y.id \in Members(c)
      BY DEF Members, Range
    <3> QED BY <1>8, <1>12, <3>1
  <2> QED BY <1>8, <2>1, <2>2 DEF EntriesInv, Entry
<1>20. ASSUME NEW k \in DOMAIN ids PROVE EntriesInv(new[k])'
  <2>1. PICK c : c = new[k]
    OBVIOUS
  <2>2. c.entries = [i \in DOMAIN ids[k] |-> Entry(ids[k][i])] /\ c.scheduled_at = e.time
    BY <1>4, <2>1 DEF BatchOf
  <2>3. ASSUME NEW y \in Range(c.entries)
        PROVE  y.id \in members /\ y = Entry(y.id)
    <3>1. PICK i \in DOMAIN ids[k] : y = Entry(ids[k][i])
      BY <2>2 DEF Range
    <3>2. y.id = ids[k][i]
      BY <3>1 DEF Entry
    <3>3. ids[k][i] \in Range(ids[k])
      BY DEF Range
    <3> QED BY <1>4, <3>1, <3>2, <3>3
  <2>4. e.time \in Int
    BY <1>7
  <2> QED BY <1>8, <1>14, <2>1, <2>2, <2>3, <2>4 DEF EntriesInv, Entry
<1>21. ASSUME NEW p \in Replicas, NEW c \in Range(in_flight'[p]) PROVE EntriesInv(c)'
  <2>1. CASE p # r
    <3>1. in_flight'[p] = in_flight[p]
      BY <1>1, <1>6, <2>1
    <3> QED BY <1>19, <3>1
  <2>2. CASE p = r
    <3>1. in_flight'[r] = in_flight[r] \o new
      BY <1>1, <1>6, <1>7
    <3>2. IsSeq(in_flight[r])
      BY <1>1, <1>7 DEF ConservedInv, FifoInv, LineInv
    <3>3. IsSeq(new) /\ Range(new) = {new[k] : k \in DOMAIN ids}
      <4>1. Len(ids) \in Nat /\ DOMAIN ids = 1 .. Len(ids)
        BY <1>11, IsSeqFacts
      <4>2. new = [k \in 1 .. Len(ids) |-> new[k]] /\ DOMAIN new = DOMAIN ids
        BY <1>4, <4>1
      <4> QED BY <4>1, <4>2, FunctionIsSeq DEF Range
    <3>4. Range(in_flight'[r]) = Range(in_flight[r]) \cup Range(new)
      BY <3>1, <3>2, <3>3, ConcatIsSeq
    <3> QED BY <1>7, <1>19, <1>20, <2>2, <3>3, <3>4
  <2> QED BY <2>1, <2>2
<1>22. DOMAIN req' = Requests
  BY <1>8 DEF TimesInv
<1> QED BY <1>1, <1>8, <1>17, <1>18, <1>21, <1>22 DEF TimesInv, Steady

(* Simulator.__init__: the requests have not been anywhere.                 *)
LEMMA TimesInit == Init => TimesInv
<1> SUFFICES ASSUME Init PROVE TimesInv
  OBVIOUS
<1>1. ConservedInv
  BY ConservedInit
<1>2. PICK p \in [Requests -> PrefillLens], d \in [Requests -> DecodeLens] :
        req = [r \in Requests |-> NewRequest(p[r], d[r])]
  BY DEF Init
<1>3. /\ times = [r \in Requests |-> NewTimes(ArrivedAt[r])]
      /\ started_at = [r \in Requests |-> -1] /\ token_times = [r \in Requests |-> 0]
      /\ in_flight = [r \in Replicas |-> <<>>]
  BY DEF Init
<1>4. ASSUME NEW q \in Requests PROVE Steady(q) /\ RestInv(q)
  <2>1. /\ ArrivedAt[q] \in Nat /\ p[q] \in Nat \ {0} /\ d[q] \in Nat \ {0}
    BY SimulatorAssumption
  <2>2. req[q] = NewRequest(p[q], d[q]) /\ times[q] = NewTimes(ArrivedAt[q])
        /\ started_at[q] = -1 /\ token_times[q] = 0
    BY <1>2, <1>3
  <2>3. req[q] \in RequestRecords
    BY <2>1, <2>2 DEF NewRequest, RequestRecords
  <2>4. times[q] \in TimesRecords
    BY <2>1, <2>2 DEF NewTimes, TimesRecords
  <2>5. RecordInv(q)
    BY <2>2, <2>3, <2>4 DEF RecordInv
  <2>6. TokensInv(q)
    BY <2>2 DEF TokensInv, NewRequest, NewTimes
  <2>7. DoneInv(q)
    BY <2>2 DEF DoneInv, NewRequest, NewTimes
  <2>8. RestInv(q)
    BY <2>2 DEF RestInv, NewTimes
  <2> QED BY <2>5, <2>6, <2>7, <2>8 DEF Steady
<1>5. \A e \in event_queue : ExecutionInv(e)
  <2>1. \A e \in event_queue : e.call.type = "request_arrival"
    BY DEF Init
  <2> QED BY <2>1 DEF ExecutionInv
<1>6. \A r \in Replicas : Range(in_flight[r]) = {}
  BY <1>3, FewEvents
<1>7. DOMAIN req = Requests /\ DOMAIN times = Requests
  BY <1>2, <1>3
<1> QED BY <1>1, <1>4, <1>5, <1>6, <1>7 DEF TimesInv, Steady

(* Every iteration of Simulator.run keeps it.                               *)
LEMMA TimesStep == TimesInv /\ [Next]_vars => TimesInv'
<1> SUFFICES ASSUME TimesInv, [Next]_vars PROVE TimesInv'
  OBVIOUS
<1>1. CASE RequestArrival
  BY <1>1, ArrivalTimes
<1>2. CASE GlobalSchedule
  BY <1>2, GlobalTimes
<1>3. CASE ReplicaSchedule
  BY <1>3, ReplicaTimes
<1>4. CASE BatchStageArrival
  BY <1>4, StageArrivalTimes
<1>5. CASE ReplicaStageSchedule
  BY <1>5, StageScheduleTimes
<1>6. CASE BatchStageEnd
  BY <1>6, StageEndTimes
<1>7. CASE BatchEnd
  BY <1>7, BatchEndKeepsTimes
<1>8. CASE UNCHANGED vars
  <2>1. /\ event_queue' = event_queue /\ req' = req /\ times' = times
        /\ started_at' = started_at /\ token_times' = token_times /\ in_flight' = in_flight
    BY <1>8 DEF vars, history
  <2>2. ConservedInv'
    BY ConservedStep DEF TimesInv
  <2>3. \A q \in Requests : Steady(q)' /\ RestInv(q)'
    BY <2>1 DEF TimesInv, Steady, RecordInv, TokensInv, DoneInv, RestInv, AccountedTo,
                Executing, Calls
  <2>4. \A e \in event_queue' : ExecutionInv(e)'
    BY <2>1 DEF TimesInv, ExecutionInv, AccountedTo
  <2>5. \A r \in Replicas : \A b \in Range(in_flight'[r]) : EntriesInv(b)'
    BY <2>1 DEF TimesInv, EntriesInv, Entry
  <2>6. DOMAIN req' = Requests /\ DOMAIN times' = Requests
    BY <2>1 DEF TimesInv
  <2> QED BY <2>1, <2>2, <2>3, <2>4, <2>5, <2>6 DEF TimesInv, Steady
<1> QED BY <1>1, <1>2, <1>3, <1>4, <1>5, <1>6, <1>7, <1>8 DEF Next

(* In every state of the simulator the times a request has recorded account *)
(* for all the time since the first stage took it, and a batch in flight    *)
(* has the tokens its requests have to process next.                        *)
THEOREM TimesInvariance == Spec => []TimesInv
BY TimesInit, TimesStep, PTL DEF Spec

(* A request that is completed is in no batch.                              *)
LEMMA TimesFit == TimesInv => MetricsAddUp
<1> SUFFICES ASSUME TimesInv, NEW q \in Completed
             PROVE  LET t == times[q]
                    IN  /\ t.arrived_at + t.scheduling_delay = t.scheduled_at
                        /\ token_times[q] = t.completed_at - t.prefill_completed_at
                        /\ t.execution_time + t.preempted_time
                                = t.completed_at - started_at[q]
  BY DEF MetricsAddUp
<1>1. q \in Requests /\ req[q].completed
  BY DEF Completed
<1>2. TokensInv(q) /\ DoneInv(q)
  BY <1>1 DEF TimesInv
<1> QED BY <1>1, <1>2 DEF TokensInv, DoneInv, AccountedTo

(* In every state the metrics of a completed request fit together           *)
(* (docs/metrics.md, items 7 to 10 and 16): the scheduling delay leads from *)
(* its arrival to its schedule time, the times of its tokens add up to the  *)
(* time since its prefill, and from the moment the first stage took it, it  *)
(* executed or was preempted (src/vidur/entities/request.py and the         *)
(* metrics store's _update_per_token_execution_times).                      *)
THEOREM MetricsFit == Spec => []MetricsAddUp
BY TimesFit, TimesInvariance, PTL

(* In every state of the simulator, whatever the workload, the cluster and  *)
(* the global scheduler: every request is in one place of the whole system  *)
(* until it is completed, every batch in one place of its pipeline, a       *)
(* replica holds memory for the requests it has started and not completed,  *)
(* and their times account for all they went through (Simulator.run and the *)
(* handle_event methods of src/vidur/events, with the global scheduler,     *)
(* OrcaReplicaScheduler and ReplicaStageScheduler).                         *)
THEOREM RequestsAreConserved == Spec => []SimInv
<1>1. TimesInv => SimInv
  BY TypesConserved, PlacesConserved DEF SimInv, TimesInv
<1> QED BY <1>1, TimesInvariance, PTL
=============================================================================
