-------------------------- MODULE Explorer_proofs --------------------------
(***************************************************************************)
(* Theorems about the explorer, for any configuration, any nodes and cores *)
(* and any number of iterations: cores are exclusive, results are a job's  *)
(* own, and a search that converges has found the capacity.                *)
(***************************************************************************)
EXTENDS Explorer, SequencesExt, SequenceTheorems, FiniteSetTheorems, WellFoundedInduction, TLAPS

-----------------------------------------------------------------------------
(* Finite sets. *)

(* Induction over the natural numbers, for a set. *)
LEMMA SetInduction ==
    ASSUME NEW T, 0 \in T, \A n \in Nat : n \in T => n + 1 \in T
    PROVE  Nat \subseteq T
<1> SUFFICES ASSUME Nat \ T # {} PROVE FALSE
  OBVIOUS
<1>1. PICK m \in Nat \ T : \A y \in Nat \ T : ~(<<y, m>> \in OpToRel(<, Nat))
  BY NatLessThanWellFounded, WFMin, Zenon
<1>2. \A y \in Nat : y < m => y \in T
  <2>1. \A y \in Nat : y < m => <<y, m>> \in OpToRel(<, Nat)
    BY DEF OpToRel
  <2>2. \A y \in Nat \ T : ~(<<y, m>> \in OpToRel(<, Nat))
    BY <1>1, Zenon
  <2> QED BY <2>1, <2>2, Zenon
<1>3. m \in Nat /\ m \notin T
  OBVIOUS
<1> QED BY <1>2, <1>3

(* The subsets of a finite set, and what remains of them without an element. *)
LEMMA SubsetSizes ==
    ASSUME NEW S, IsFiniteSet(S), NEW s \in SUBSET S
    PROVE  /\ IsFiniteSet(s) /\ Cardinality(s) \in Nat /\ Cardinality(s) <= Cardinality(S)
           /\ Cardinality(s) <= 0 => s = {}
           /\ \A x \in s : /\ s \ {x} \in SUBSET S
                           /\ Cardinality(s \ {x}) = Cardinality(s) - 1
<1>1. IsFiniteSet(s) /\ Cardinality(s) \in Nat /\ Cardinality(s) <= Cardinality(S)
  BY FS_Subset, FS_CardinalityType
<1>2. Cardinality(s) <= 0 => s = {}
  <2> DEFINE n == Cardinality(s)
  <2>1. n \in Nat
    BY <1>1
  <2>2. n = 0 => s = {}
    BY <1>1, FS_EmptySet
  <2> HIDE DEF n
  <2> SUFFICES n <= 0 => s = {}
    BY DEF n
  <2> QED BY <2>1, <2>2
<1>3. \A x \in s : Cardinality(s \ {x}) = Cardinality(s) - 1
  BY <1>1, FS_RemoveElement, Zenon
<1> QED BY <1>1, <1>2, <1>3

(* Induction over the subsets of a finite set, one element at a time. *)
LEMMA SubsetInduction ==
    ASSUME NEW S, IsFiniteSet(S), NEW T, {} \in T,
           \A s \in SUBSET S : \A x \in s : s \ {x} \in T => s \in T
    PROVE  SUBSET S \subseteq T
<1> DEFINE U == {n \in Nat : \A s \in SUBSET S : Cardinality(s) <= n => s \in T}
<1>1. 0 \in U
  BY SubsetSizes
<1>2. ASSUME NEW n \in Nat, n \in U PROVE n + 1 \in U
  <2>1. ASSUME NEW s \in SUBSET S, Cardinality(s) <= n + 1, s # {} PROVE s \in T
    <3>1. PICK x \in s : TRUE
      BY <2>1
    <3>2. s \ {x} \in SUBSET S /\ Cardinality(s \ {x}) <= n
      <4>1. /\ s \ {x} \in SUBSET S /\ Cardinality(s \ {x}) = Cardinality(s) - 1
            /\ Cardinality(s) \in Nat
        BY SubsetSizes
      <4> QED BY <2>1, <4>1
    <3>3. s \ {x} \in T
      BY <1>2, <3>2
    <3> QED BY <3>3
  <2>2. \A s \in SUBSET S : Cardinality(s) <= n + 1 => s \in T
    BY <2>1
  <2> QED BY <2>2
<1> HIDE DEF U
<1>3. Nat \subseteq U
  BY <1>1, <1>2, SetInduction
<1> SUFFICES ASSUME NEW s \in SUBSET S PROVE s \in T
  OBVIOUS
<1>4. Cardinality(s) \in U /\ Cardinality(s) <= Cardinality(s)
  BY <1>3, SubsetSizes
<1> QED BY <1>4 DEF U

(* Of finitely many numbers one is the largest and one the smallest. *)
LEMMA Extremes ==
    ASSUME NEW S, IsFiniteSet(S), S # {}, NEW f, \A x \in S : f[x] \in Int
    PROVE  /\ \E x \in S : \A y \in S : f[y] <= f[x]
           /\ \E x \in S : \A y \in S : f[x] <= f[y]
<1> DEFINE High(s) == \E x \in s : \A y \in s : f[y] <= f[x]
           Low(s) == \E x \in s : \A y \in s : f[x] <= f[y]
           T == {s \in SUBSET S : s = {} \/ (High(s) /\ Low(s))}
<1>1. ASSUME NEW s \in SUBSET S, NEW x \in s, s \ {x} \in T PROVE s \in T
  <2>1. CASE s \ {x} = {}
    <3>1. s = {x} /\ f[x] <= f[x]
      BY <2>1
    <3> QED BY <3>1
  <2>2. CASE s \ {x} # {}
    <3>1. PICK h \in s \ {x} : \A y \in s \ {x} : f[y] <= f[h]
      BY <1>1, <2>2
    <3>2. PICK l \in s \ {x} : \A y \in s \ {x} : f[l] <= f[y]
      BY <1>1, <2>2
    <3>3. f[x] \in Int /\ f[h] \in Int /\ f[l] \in Int /\ \A y \in s : f[y] \in Int
      OBVIOUS
    <3>4. High(s)
      <4>1. CASE f[x] <= f[h]
        BY <3>1, <3>3, <4>1
      <4>2. CASE f[h] <= f[x]
        <5>1. \A y \in s : f[y] <= f[x]
          BY <3>1, <3>3, <4>2
        <5> QED BY <5>1
      <4> QED BY <3>3, <4>1, <4>2
    <3>5. Low(s)
      <4>1. CASE f[l] <= f[x]
        BY <3>2, <3>3, <4>1
      <4>2. CASE f[x] <= f[l]
        <5>1. \A y \in s : f[x] <= f[y]
          BY <3>2, <3>3, <4>2
        <5> QED BY <5>1
      <4> QED BY <3>3, <4>1, <4>2
    <3> QED BY <3>4, <3>5
  <2> QED BY <2>1, <2>2
<1>2. {} \in T
  OBVIOUS
<1>3. S \in T
  <2>1. S \in SUBSET S
    OBVIOUS
  <2> HIDE DEF T
  <2>2. SUBSET S \subseteq T
    BY <1>1, <1>2, SubsetInduction
  <2> QED BY <2>1, <2>2
<1> QED BY <1>3

-----------------------------------------------------------------------------
(* Cores. *)

(* get_cpu_core_id returns a free core whenever there is one. *)
LEMMA FirstFreeIsFree ==
    ASSUME FreeCores # {}
    PROVE  /\ FirstFree \in FreeCores
           /\ FirstFree[1] \in DOMAIN Nodes /\ FirstFree[2] \in 1 .. Cores
           /\ ~table[FirstFree[1]][FirstFree[2]]
<1> DEFINE Least(c) == \A d \in FreeCores : c[1] < d[1] \/ (c[1] = d[1] /\ c[2] <= d[2])
<1>1. DOMAIN Nodes = 1 .. Len(Nodes) /\ Len(Nodes) \in Nat /\ Cores \in Nat
  BY ExplorerAssumption, LenProperties
<1>2. \A c \in FreeCores : c[1] \in 1 .. Len(Nodes) /\ c[2] \in 1 .. Cores
  BY <1>1 DEF FreeCores
<1>3. PICK c \in FreeCores : \A d \in FreeCores : c[1] <= d[1]
  <2> DEFINE node == [d \in FreeCores |-> d[1]]
             S == {d[1] : d \in FreeCores}
  <2>1. S \subseteq 1 .. Len(Nodes) /\ S # {}
    BY <1>2
  <2>2. IsFiniteSet(S)
    <3>1. IsFiniteSet(1 .. Len(Nodes))
      BY <1>1, FS_Interval
    <3> HIDE DEF S
    <3> QED BY <2>1, <3>1, FS_Subset, Zenon
  <2> DEFINE f == [x \in S |-> x]
  <2>3. \A x \in S : f[x] \in Int
    BY <1>1, <2>1
  <2> HIDE DEF S
  <2>4. PICK x \in S : \A y \in S : x <= y
    <3>1. PICK x \in S : \A y \in S : f[x] <= f[y]
      <4> HIDE DEF f
      <4> QED BY <2>1, <2>2, <2>3, Extremes
    <3> QED BY <3>1
  <2>5. PICK c \in FreeCores : c[1] = x
    BY <2>4 DEF S
  <2> QED BY <2>4, <2>5 DEF S
<1>4. PICK b \in FreeCores : b[1] = c[1] /\ \A d \in FreeCores : d[1] = c[1] => b[2] <= d[2]
  <2> DEFINE here == {d \in FreeCores : d[1] = c[1]}
             S == {d[2] : d \in here}
  <2>1. S \subseteq 1 .. Cores /\ S # {}
    BY <1>2
  <2>2. IsFiniteSet(S)
    <3>1. IsFiniteSet(1 .. Cores)
      BY <1>1, FS_Interval
    <3> HIDE DEF S
    <3> QED BY <2>1, <3>1, FS_Subset, Zenon
  <2> DEFINE f == [x \in S |-> x]
  <2>3. \A x \in S : f[x] \in Int
    BY <1>1, <2>1
  <2> HIDE DEF S
  <2>4. PICK x \in S : \A y \in S : x <= y
    <3>1. PICK x \in S : \A y \in S : f[x] <= f[y]
      <4> HIDE DEF f
      <4> QED BY <2>1, <2>2, <2>3, Extremes
    <3> QED BY <3>1
  <2>5. PICK b \in here : b[2] = x
    BY <2>4 DEF S
  <2> QED BY <2>4, <2>5 DEF S
<1>5. Least(b)
  <2> SUFFICES ASSUME NEW d \in FreeCores
               PROVE  b[1] < d[1] \/ (b[1] = d[1] /\ b[2] <= d[2])
    OBVIOUS
  <2>1. b[1] <= d[1] /\ b[1] \in Int /\ d[1] \in Int
    BY <1>1, <1>2, <1>3, <1>4
  <2> QED BY <1>4, <2>1
<1>6. FirstFree = CHOOSE x \in FreeCores : Least(x)
  BY DEF FirstFree
<1> HIDE DEF Least
<1>7. FirstFree \in FreeCores
  BY <1>5, <1>6, Zenon
<1> QED BY <1>1, <1>2, <1>7 DEF FreeCores

(* A search of the explorer is a task, and no warm-up. *)
LEMMA SearchTasks ==
    /\ Searches \subseteq Tasks
    /\ \A t \in Searches : ~t.warm
    /\ \A i : \A t \in WarmUpTasks(i) : t.warm
    /\ \A t \in Tasks : t.warm => t.job \in DOMAIN WarmUps
    /\ \A t \in Tasks : ~t.warm => t \in Searches /\ t.job \in DOMAIN Jobs
BY DEF Searches, Tasks, WarmUpTasks

(* The fields of a record of the search. *)
LEMMA Fields ==
    DOMAIN NotStarted = {"pc", "node", "core", "left", "right", "qps", "max_qps",
                         "min_over", "iteration", "dir", "huge"}
BY DEF NotStarted

(* A search that has begun, and one after an iteration. *)
LEMMA StartedFacts ==
    ASSUME NEW t, NEW node, NEW core, NEW s, s = Started(t, node, core)
    PROVE  /\ DOMAIN s = DOMAIN NotStarted
           /\ s.pc = "searching" /\ s.node = node /\ s.core = core
BY DEF Started, NotStarted

(* A task that has just started has found nothing: its bounds are those of  *)
(* the job.                                                                 *)
LEMMA StartedBounds ==
    ASSUME NEW t, NEW node, NEW core, NEW s, s = Started(t, node, core)
    PROVE  /\ s.left = 0 /\ s.right = 2 * JobOf(t).trace.start_qps
           /\ s.qps = 0 /\ s.max_qps = None /\ s.min_over = Infinity
           /\ s.huge = Infinity /\ s.dir = NoDir
BY DEF Started, NotStarted

(* A task that has decided about a load keeps its place and the load.       *)
LEMMA DecidedFacts ==
    ASSUME NEW s, DOMAIN s = DOMAIN NotStarted, NEW d
    PROVE  LET n == Decided(s, d)
           IN  /\ DOMAIN n = DOMAIN NotStarted
               /\ n.pc = "searching" /\ n.node = s.node /\ n.core = s.core
               /\ n.dir = s.dir /\ n.qps = s.qps
BY Fields DEF Decided, Narrowed

(* The task s tries a load: where it looks for a result. *)
Tried(t, s) == [s EXCEPT !.qps = (s.left + s.right) \div 2,
                         !.dir = RunDir(t, (s.left + s.right) \div 2)]

(* A task that tries a load keeps its bounds and what it found.             *)
LEMMA TriedFacts ==
    ASSUME NEW t, NEW s, DOMAIN s = DOMAIN NotStarted
    PROVE  LET n == Tried(t, s)
           IN  /\ DOMAIN n = DOMAIN NotStarted
               /\ n.qps = (s.left + s.right) \div 2
               /\ n.dir.key = Key(JobOf(t)) /\ n.dir.qps = n.qps
               /\ n.dir = RunDir(t, (s.left + s.right) \div 2)
               /\ n.pc = s.pc /\ n.node = s.node /\ n.core = s.core
               /\ n.left = s.left /\ n.right = s.right
               /\ n.min_over = s.min_over /\ n.max_qps = s.max_qps /\ n.huge = s.huge
<1>1. PICK d : d = RunDir(t, (s.left + s.right) \div 2)
  OBVIOUS
<1>2. d.key = Key(JobOf(t)) /\ d.qps = (s.left + s.right) \div 2
  BY <1>1 DEF RunDir
<1>3. PICK n : n = [s EXCEPT !.qps = (s.left + s.right) \div 2, !.dir = d]
  OBVIOUS
<1>4. Tried(t, s) = n
  BY <1>1, <1>3 DEF Tried
<1>5. /\ DOMAIN n = DOMAIN NotStarted /\ n.qps = (s.left + s.right) \div 2 /\ n.dir = d
      /\ n.pc = s.pc /\ n.node = s.node /\ n.core = s.core
      /\ n.left = s.left /\ n.right = s.right
      /\ n.min_over = s.min_over /\ n.max_qps = s.max_qps /\ n.huge = s.huge
  BY <1>3, Fields
<1> QED BY <1>1, <1>2, <1>4, <1>5

(* What becomes of a task's record when only its program counter moves. *)
PcMoved(s, n) ==
    /\ DOMAIN n = DOMAIN NotStarted
    /\ n.node = s.node /\ n.core = s.core
    /\ n.dir = s.dir /\ n.qps = s.qps /\ n.left = s.left /\ n.right = s.right
    /\ n.min_over = s.min_over /\ n.max_qps = s.max_qps /\ n.huge = s.huge

(* A task that only moves on keeps the rest.                                *)
LEMMA PcMoves ==
    ASSUME NEW s, DOMAIN s = DOMAIN NotStarted, NEW p
    PROVE  [s EXCEPT !.pc = p].pc = p /\ PcMoved(s, [s EXCEPT !.pc = p])
BY Fields DEF PcMoved

(* The task s has read one of the results fs and is now n.                  *)
HasRead(s, fs, n) ==
    \E f \in fs : \E d \in Readings(f) : d # "unreadable" /\ n = Decided(s, d)

(* A task that reads results decides on one, or moves on without.           *)
LEMMA ReadMoves ==
    ASSUME NEW t, NEW s, DOMAIN s = DOMAIN NotStarted, NEW fs, NEW pc,
           ReadsResult(t, s, fs, pc)
    PROVE  \E n : /\ search' = [search EXCEPT ![t] = n]
                  /\ (PcMoved(s, n) /\ n.pc = pc) \/ HasRead(s, fs, n)
<1>1. PICK f \in fs : \E d \in Readings(f) :
        search' = [search EXCEPT ![t] =
            IF d = "unreadable" THEN [s EXCEPT !.pc = pc] ELSE Decided(s, d)]
  BY DEF ReadsResult
<1>2. PICK d \in Readings(f) :
        search' = [search EXCEPT ![t] =
            IF d = "unreadable" THEN [s EXCEPT !.pc = pc] ELSE Decided(s, d)]
  BY <1>1
<1>3. CASE d = "unreadable"
  <2>1. PICK n : n = [s EXCEPT !.pc = pc]
    OBVIOUS
  <2>2. PcMoved(s, n) /\ n.pc = pc
    BY <2>1, PcMoves
  <2> QED BY <1>2, <1>3, <2>1, <2>2
<1>4. CASE d # "unreadable"
  BY <1>2, <1>4 DEF HasRead
<1> QED BY <1>3, <1>4

(* The steps of a task before its end, from s to n: it tries a load for     *)
(* which there is no result or one that cannot be read, takes one that is   *)
(* there; its simulation fails, or writes, and its result is read.          *)
RunStep(t, s, n) ==
    LET r == Tried(t, s)
    IN  \/ /\ s.pc = "searching" /\ files' = files
           /\ \/ PcMoved(r, n) /\ n.pc \in {"simulating", "crashed"}
              \/ HasRead(r, FilesIn(r.dir), n)
        \/ /\ s.pc = "simulating" /\ files' = files
           /\ \/ PcMoved(s, n) /\ n.pc = "breaking"
              \/ HasRead(s, FilesIn(s.dir), n)
        \/ /\ s.pc = "simulating" /\ files' = files \cup {Own(t)}
           /\ PcMoved(s, n) /\ n.pc = "writing"
        \/ /\ s.pc = "writing"
           /\ \E state \in {"whole", "partial"} :
                files' = (files \ {Own(t)}) \cup {[Own(t) EXCEPT !.state = state]}
           /\ \/ PcMoved(s, n) /\ n.pc = "breaking"
              \/ HasRead(s, {f \in files' : f.dir = s.dir}, n)

(* They are the actions of the model.                                       *)
LEMMA TaskRuns ==
    ASSUME NEW t \in Tasks, DOMAIN search = Tasks, DOMAIN search[t] = DOMAIN NotStarted,
           TryQps(t) \/ WriteResult(t) \/ EndSimulation(t) \/ FailSimulation(t)
    PROVE  /\ table' = table /\ driver' = driver /\ profile' = profile
           /\ \E n : search' = [search EXCEPT ![t] = n] /\ RunStep(t, search[t], n)
<1> DEFINE s == search[t]
<1>0. DOMAIN s = DOMAIN NotStarted
  OBVIOUS
<1>1. CASE TryQps(t)
  <2>1. PICK r : r = Tried(t, s)
    OBVIOUS
  <2>2. DOMAIN r = DOMAIN NotStarted /\ r.dir = RunDir(t, (s.left + s.right) \div 2)
    BY <1>0, <2>1, TriedFacts
  <2>3. /\ s.pc = "searching" /\ UNCHANGED <<driver, table, files, profile>>
        /\ \/ search' = [search EXCEPT ![t] = [r EXCEPT !.pc = "simulating"]]
           \/ ReadsResult(t, r, FilesIn(RunDir(t, (s.left + s.right) \div 2)), "crashed")
    BY <1>1, <2>1 DEF TryQps, Tried
  <2>4. CASE search' = [search EXCEPT ![t] = [r EXCEPT !.pc = "simulating"]]
    <3>1. PICK n : n = [r EXCEPT !.pc = "simulating"]
      OBVIOUS
    <3>2. PcMoved(r, n) /\ n.pc = "simulating"
      BY <2>2, <3>1, PcMoves
    <3>3. RunStep(t, s, n)
      BY <2>1, <2>3, <3>2 DEF RunStep
    <3> QED BY <2>3, <2>4, <3>1, <3>3
  <2>5. CASE ReadsResult(t, r, FilesIn(r.dir), "crashed")
    <3>1. PICK n : /\ search' = [search EXCEPT ![t] = n]
                   /\ (PcMoved(r, n) /\ n.pc = "crashed") \/ HasRead(r, FilesIn(r.dir), n)
      BY <2>2, <2>5, ReadMoves
    <3>2. RunStep(t, s, n)
      BY <2>1, <2>3, <3>1 DEF RunStep
    <3> QED BY <2>3, <3>1, <3>2
  <2> QED BY <2>2, <2>3, <2>4, <2>5
<1>2. CASE WriteResult(t)
  <2>1. PICK n : n = [s EXCEPT !.pc = "writing"]
    OBVIOUS
  <2>2. PcMoved(s, n) /\ n.pc = "writing"
    BY <1>0, <2>1, PcMoves
  <2>3. /\ s.pc = "simulating" /\ UNCHANGED <<driver, table, profile>>
        /\ files' = files \cup {Own(t)} /\ search' = [search EXCEPT ![t] = n]
    BY <1>2, <2>1 DEF WriteResult
  <2>4. RunStep(t, s, n)
    BY <2>2, <2>3 DEF RunStep
  <2> QED BY <2>3, <2>4
<1>3. CASE EndSimulation(t)
  <2>1. /\ s.pc = "writing" /\ UNCHANGED <<driver, table, profile>>
        /\ \E state \in {"whole", "partial"} :
                files' = (files \ {Own(t)}) \cup {[Own(t) EXCEPT !.state = state]}
        /\ ReadsResult(t, s, {f \in files' : f.dir = s.dir}, "breaking")
    BY <1>3 DEF EndSimulation
  <2>2. PICK n : /\ search' = [search EXCEPT ![t] = n]
                 /\ \/ PcMoved(s, n) /\ n.pc = "breaking"
                    \/ HasRead(s, {f \in files' : f.dir = s.dir}, n)
    BY <1>0, <2>1, ReadMoves
  <2>3. RunStep(t, s, n)
    BY <2>1, <2>2 DEF RunStep
  <2> QED BY <2>1, <2>2, <2>3
<1>4. CASE FailSimulation(t)
  <2>1. /\ s.pc = "simulating" /\ UNCHANGED <<driver, table, files, profile>>
        /\ \/ search' = [search EXCEPT ![t].pc = "breaking"]
           \/ ReadsResult(t, s, FilesIn(s.dir), "breaking")
    BY <1>4 DEF FailSimulation
  <2>2. CASE search' = [search EXCEPT ![t].pc = "breaking"]
    <3>1. PICK n : n = [s EXCEPT !.pc = "breaking"]
      OBVIOUS
    <3>2. PcMoved(s, n) /\ n.pc = "breaking"
      BY <1>0, <3>1, PcMoves
    <3>3. RunStep(t, s, n)
      BY <2>1, <3>2 DEF RunStep
    <3> QED BY <2>1, <2>2, <3>1, <3>3
  <2>3. CASE ReadsResult(t, s, FilesIn(s.dir), "breaking")
    <3>1. PICK n : /\ search' = [search EXCEPT ![t] = n]
                   /\ (PcMoved(s, n) /\ n.pc = "breaking") \/ HasRead(s, FilesIn(s.dir), n)
      BY <1>0, <2>3, ReadMoves
    <3>2. RunStep(t, s, n)
      BY <2>1, <3>1 DEF RunStep
    <3> QED BY <2>1, <3>1, <3>2
  <2> QED BY <2>1, <2>2, <2>3
<1> QED BY <1>1, <1>2, <1>3, <1>4

(* A task that is done has the rest of its record as before.                *)
LEMMA TaskEnds ==
    ASSUME NEW t \in Tasks, DOMAIN search = Tasks, DOMAIN search[t] = DOMAIN NotStarted,
           Finish(t)
    PROVE  /\ driver' = driver /\ profile' = profile /\ files' = files
           /\ search[t].pc \in {"breaking", "searching"}
           /\ \E n : /\ search' = [search EXCEPT ![t] = n]
                     /\ PcMoved(search[t], n) /\ n.pc = "done"
<1>1. PICK n : n = [search[t] EXCEPT !.pc = "done"]
  OBVIOUS
<1>2. PcMoved(search[t], n) /\ n.pc = "done"
  BY <1>1, PcMoves
<1> QED BY <1>1, <1>2 DEF Finish

(* A task that has read a result searches on.                               *)
LEMMA ReadFacts ==
    ASSUME NEW s, DOMAIN s = DOMAIN NotStarted, NEW fs, NEW n, HasRead(s, fs, n)
    PROVE  /\ DOMAIN n = DOMAIN NotStarted
           /\ n.pc = "searching" /\ n.node = s.node /\ n.core = s.core
           /\ n.dir = s.dir /\ n.qps = s.qps
BY DecidedFacts DEF HasRead

(* What matters of a task to the cores stays the same. *)
Alike(s, n) ==
    /\ DOMAIN n = DOMAIN NotStarted
    /\ n.node = s.node /\ n.core = s.core
    /\ Active(n) <=> Active(s)

(* Which cores are taken depends on the tasks only through their places and *)
(* on whether they are active.                                              *)
LEMMA ExclusiveKept ==
    ASSUME CoresExclusive, table' = table,
           \A t \in Searches : /\ search'[t].node = search[t].node
                               /\ search'[t].core = search[t].core
                               /\ Active(search'[t]) <=> Active(search[t])
    PROVE  CoresExclusive'
<1>1. ASSUME NEW n \in DOMAIN Nodes, NEW c \in 1 .. Cores
      PROVE  table'[n][c] <=> \E t \in Searches :
                                  /\ Active(search'[t])
                                  /\ search'[t].node = n /\ search'[t].core = c
  BY DEF CoresExclusive
<1>2. ASSUME NEW t \in Searches, NEW u \in Searches,
             Active(search'[t]), Active(search'[u]),
             <<search'[t].node, search'[t].core>> = <<search'[u].node, search'[u].core>>
      PROVE  t = u
  BY <1>2 DEF CoresExclusive
<1> QED BY <1>1, <1>2 DEF CoresExclusive, Active

(* A step in which the tasks keep their places keeps the cores.             *)
LEMMA CoresKept ==
    ASSUME AssignedInv, CoresExclusive, table' = table, DOMAIN search' = Tasks,
           \A t \in Tasks : Alike(search[t], search'[t])
    PROVE  AssignedInv' /\ CoresExclusive'
<1>1. \A t \in Tasks : /\ DOMAIN search'[t] = DOMAIN NotStarted
                       /\ search'[t].node = search[t].node
                       /\ search'[t].core = search[t].core
                       /\ Active(search'[t]) <=> Active(search[t])
  BY DEF Alike
<1>2. AssignedInv'
  BY <1>1 DEF AssignedInv, Active
<1>3. CoresExclusive'
  BY <1>1, SearchTasks, ExclusiveKept
<1> QED BY <1>2, <1>3

(* So does a step in which the tasks do not move.                           *)
LEMMA Unmoved ==
    ASSUME AssignedInv, CoresExclusive, table' = table, search' = search
    PROVE  AssignedInv' /\ CoresExclusive'
<1>1. AssignedInv'
  BY DEF AssignedInv, Active
<1>2. CoresExclusive'
  BY ExclusiveKept
<1> QED BY <1>1, <1>2

(* The driver's record is made of two fields. *)
LEMMA DriverFields ==
    ASSUME DriverInv
    PROVE  \E p \in {"warm up", "map", "done", "failed"}, n \in Nat \ {0} :
                driver = [phase |-> p, next |-> n]
<1>1. driver \in [phase : {"warm up", "map", "done", "failed"}, next : Nat \ {0}]
  BY DEF DriverInv
<1> QED BY <1>1, Zenon

(* The records that the driver can be in.                                   *)
LEMMA DriverRecord ==
    \A p \in {"warm up", "map", "done", "failed"}, n \in Nat \ {0} :
        [phase |-> p, next |-> n] \in
            [phase : {"warm up", "map", "done", "failed"}, next : Nat \ {0}]
OBVIOUS

(* The numbers of the next task.                                            *)
LEMMA NextNumber == 1 \in Nat \ {0} /\ \A n \in Nat \ {0} : n + 1 \in Nat \ {0}
OBVIOUS

(* A number is not among those before it.                                   *)
LEMMA NotBefore == \A n \in Nat : n \notin 1 .. n - 1
OBVIOUS

(* The driver's progress is not disturbed by a task that has begun. *)
LEMMA DriverKept ==
    ASSUME DriverInv, driver' = driver,
           \A t \in Searches : search[t].pc = "not started" => search'[t].pc = "not started"
    PROVE  DriverInv'
BY DEF DriverInv

(* One task goes on: it keeps its core, and the table does not change. *)
LEMMA TaskMoves ==
    ASSUME CoresInv, NEW t \in Tasks, NEW n,
           search' = [search EXCEPT ![t] = n], table' = table, driver' = driver,
           Alike(search[t], n), search[t].pc # "not started"
    PROVE  CoresInv'
<1>1. DOMAIN search = Tasks /\ \A u \in Tasks : DOMAIN search[u] = DOMAIN NotStarted
  BY DEF CoresInv, AssignedInv
<1>2. /\ DOMAIN search' = Tasks /\ search'[t] = n
      /\ \A u \in Tasks : u # t => search'[u] = search[u]
  BY <1>1
<1>3. \A u \in Tasks : Alike(search[u], search'[u])
  BY <1>1, <1>2 DEF Alike
<1>4. AssignedInv' /\ CoresExclusive'
  BY <1>2, <1>3, CoresKept DEF CoresInv
<1>5. \A u \in Searches : search[u].pc = "not started" => search'[u].pc = "not started"
  BY <1>2, SearchTasks
<1>6. DriverInv'
  BY <1>5, DriverKept DEF CoresInv
<1> QED BY <1>4, <1>6 DEF CoresInv

(* A task that searches, simulates or writes keeps its core. *)
LEMMA WorkKeepsCores ==
    ASSUME CoresInv, NEW t \in Tasks,
           TryQps(t) \/ WriteResult(t) \/ EndSimulation(t) \/ FailSimulation(t)
    PROVE  CoresInv'
<1>1. DOMAIN search[t] = DOMAIN NotStarted /\ DOMAIN search = Tasks
  BY DEF CoresInv, AssignedInv
<1>2. PICK s : s = search[t]
  OBVIOUS
<1>3. table' = table /\ driver' = driver
  BY <1>1, TaskRuns
<1>4. PICK n : search' = [search EXCEPT ![t] = n] /\ RunStep(t, s, n)
  BY <1>1, <1>2, TaskRuns
<1>5. PICK r : r = Tried(t, s)
  OBVIOUS
<1>6. DOMAIN r = DOMAIN NotStarted /\ r.node = s.node /\ r.core = s.core
  BY <1>1, <1>2, <1>5, TriedFacts
<1>7. s.pc \in {"searching", "simulating", "writing"}
  BY <1>4 DEF RunStep
<1>8. /\ DOMAIN n = DOMAIN NotStarted /\ n.node = s.node /\ n.core = s.core
      /\ n.pc \in {"searching", "simulating", "writing", "breaking", "crashed"}
  <2>1. CASE PcMoved(r, n) /\ n.pc \in {"simulating", "crashed"}
    BY <1>6, <2>1 DEF PcMoved
  <2>2. CASE PcMoved(s, n) /\ n.pc \in {"breaking", "writing"}
    BY <2>2 DEF PcMoved
  <2>3. ASSUME NEW fs, HasRead(r, fs, n) \/ HasRead(s, fs, n)
        PROVE  /\ DOMAIN n = DOMAIN NotStarted /\ n.node = s.node /\ n.core = s.core
               /\ n.pc = "searching"
    BY <1>1, <1>2, <1>6, <2>3, ReadFacts
  <2> QED BY <1>4, <1>5, <2>1, <2>2, <2>3 DEF RunStep
<1>9. Alike(s, n) /\ s.pc # "not started"
  BY <1>7, <1>8 DEF Alike, Active
<1> QED BY <1>2, <1>3, <1>4, <1>9, TaskMoves

(* A search that is over gives its core back, and no other. *)
LEMMA FinishFreesCore ==
    ASSUME CoresInv, NEW t \in Tasks, Finish(t)
    PROVE  CoresInv'
<1>1. /\ DOMAIN search = Tasks /\ table \in [DOMAIN Nodes -> [1 .. Cores -> BOOLEAN]]
      /\ \A u \in Tasks : /\ DOMAIN search[u] = DOMAIN NotStarted
                          /\ u.warm => search[u].core = None
                          /\ ~u.warm /\ Active(search[u]) =>
                                search[u].node \in DOMAIN Nodes /\ search[u].core \in 1 .. Cores
  BY DEF CoresInv, AssignedInv
<1>2. PICK n : n = [search[t] EXCEPT !.pc = "done"]
  OBVIOUS
<1>3. /\ search[t].pc \in {"breaking", "searching"} /\ driver' = driver
      /\ table' = IF search[t].core = None THEN table
                  ELSE [table EXCEPT ![search[t].node][search[t].core] = FALSE]
      /\ search' = [search EXCEPT ![t] = n]
  BY <1>1, <1>2 DEF Finish
<1>4. /\ DOMAIN n = DOMAIN NotStarted /\ n.pc = "done" /\ n.node = search[t].node
      /\ n.core = search[t].core
  BY <1>1, <1>2, Fields
<1>5. /\ DOMAIN search' = Tasks /\ search'[t] = n
      /\ \A u \in Tasks : u # t => search'[u] = search[u]
  BY <1>1, <1>3
<1>6. Active(search[t]) /\ ~Active(n)
  BY <1>3, <1>4 DEF Active
<1>7. DriverInv'
  <2>1. \A u \in Searches : search[u].pc = "not started" => search'[u].pc = "not started"
    BY <1>3, <1>5, SearchTasks
  <2> QED BY <1>3, <2>1, DriverKept DEF CoresInv
<1>8. CASE t.warm
  <2>1. table' = table
    BY <1>1, <1>3, <1>8
  <2>2. \A u \in Searches : search'[u] = search[u]
    BY <1>5, <1>8, SearchTasks
  <2>3. AssignedInv'
    BY <1>1, <1>4, <1>5, <1>6, <2>1 DEF AssignedInv, Active
  <2>4. CoresExclusive'
    BY <2>1, <2>2, ExclusiveKept DEF CoresInv
  <2> QED BY <1>7, <2>3, <2>4 DEF CoresInv
<1>9. CASE ~t.warm
  <2>1. t \in Searches
    BY <1>9, SearchTasks
  <2>2. PICK m, c : m = search[t].node /\ c = search[t].core
    OBVIOUS
  <2>3. m \in DOMAIN Nodes /\ c \in 1 .. Cores /\ c # None
    BY <1>1, <1>6, <1>9, <2>2, ExplorerAssumption DEF None
  <2>4. table' = [table EXCEPT ![m][c] = FALSE]
    BY <1>3, <2>2, <2>3
  <2>5. /\ table' \in [DOMAIN Nodes -> [1 .. Cores -> BOOLEAN]]
        /\ ~table'[m][c]
        /\ \A i \in DOMAIN Nodes, j \in 1 .. Cores :
                i # m \/ j # c => table'[i][j] = table[i][j]
    BY <1>1, <2>3, <2>4
  <2>6. AssignedInv'
    BY <1>1, <1>4, <1>5, <1>6, <2>5 DEF AssignedInv, Active
  <2>7. \A u \in Searches :
            Active(search'[u]) <=> u # t /\ Active(search[u])
    BY <1>5, <1>6, SearchTasks
  <2>8. \A u \in Searches : /\ search'[u].node = search[u].node
                            /\ search'[u].core = search[u].core
    BY <1>4, <1>5, SearchTasks
  <2>9. CoresExclusive'
    <3>1. ASSUME NEW i \in DOMAIN Nodes, NEW j \in 1 .. Cores
          PROVE  table'[i][j] <=> \E u \in Searches :
                                    /\ Active(search'[u])
                                    /\ search'[u].node = i /\ search'[u].core = j
      <4>1. CASE i = m /\ j = c
        <5>1. \A u \in Searches : Active(search[u]) /\ u # t =>
                    ~(search[u].node = m /\ search[u].core = c)
          BY <1>6, <2>1, <2>2 DEF CoresInv, CoresExclusive
        <5> QED BY <2>5, <2>7, <2>8, <4>1, <5>1
      <4>2. CASE ~(i = m /\ j = c)
        <5>1. table'[i][j] = table[i][j]
          BY <2>5, <4>2
        <5>2. table[i][j] <=> \E u \in Searches :
                    Active(search[u]) /\ search[u].node = i /\ search[u].core = j
          BY DEF CoresInv, CoresExclusive
        <5>3. ~(search[t].node = i /\ search[t].core = j)
          BY <2>2, <4>2
        <5> QED BY <2>7, <2>8, <5>1, <5>2, <5>3
      <4> QED BY <4>1, <4>2
    <3>2. ASSUME NEW u \in Searches, NEW v \in Searches,
                 Active(search'[u]), Active(search'[v]),
                 <<search'[u].node, search'[u].core>> = <<search'[v].node, search'[v].core>>
          PROVE  u = v
      BY <2>7, <2>8, <3>2 DEF CoresInv, CoresExclusive
    <3> QED BY <3>1, <3>2 DEF CoresExclusive, Active
  <2> QED BY <1>7, <2>6, <2>9 DEF CoresInv
<1> QED BY <1>8, <1>9

(* A warm-up is launched without a core. *)
LEMMA WarmUpTakesNoCore ==
    ASSUME CoresInv, LaunchWarmUp
    PROVE  CoresInv'
<1> DEFINE W == WarmUpTasks(driver.next)
<1>1. /\ table' = table /\ driver' = driver
      /\ search' = [t \in Tasks |-> IF t \in W THEN Started(t, t.node, None) ELSE search[t]]
      /\ \A t \in W : search[t].pc = "not started"
  BY DEF LaunchWarmUp
<1>2. \A t \in W : t.warm
  BY SearchTasks
<1> HIDE DEF W
<1>3. \A t \in Searches : search'[t] = search[t]
  BY <1>1, <1>2, SearchTasks
<1>4. /\ table \in [DOMAIN Nodes -> [1 .. Cores -> BOOLEAN]] /\ DOMAIN search' = Tasks
      /\ \A u \in Tasks : /\ DOMAIN search[u] = DOMAIN NotStarted
                          /\ u.warm => search[u].core = None
                          /\ ~u.warm /\ Active(search[u]) =>
                                search[u].node \in DOMAIN Nodes /\ search[u].core \in 1 .. Cores
  BY <1>1 DEF CoresInv, AssignedInv
<1>5. ASSUME NEW u \in Tasks
      PROVE  /\ DOMAIN search'[u] = DOMAIN NotStarted
             /\ u.warm => search'[u].core = None
             /\ ~u.warm /\ Active(search'[u]) =>
                    search'[u].node \in DOMAIN Nodes /\ search'[u].core \in 1 .. Cores
  <2>1. CASE u \in W
    <3>1. search'[u] = Started(u, u.node, None) /\ u.warm
      BY <1>1, <1>2, <2>1
    <3> QED BY <3>1, StartedFacts
  <2>2. CASE u \notin W
    <3>1. search'[u] = search[u]
      BY <1>1, <2>2
    <3> QED BY <1>4, <3>1
  <2> QED BY <2>1, <2>2
<1>6. AssignedInv'
  BY <1>1, <1>4, <1>5 DEF AssignedInv, Active
<1>7. CoresExclusive'
  BY <1>1, <1>3, ExclusiveKept DEF CoresInv
<1>8. DriverInv'
  BY <1>1, <1>3, DriverKept DEF CoresInv
<1> QED BY <1>6, <1>7, <1>8 DEF CoresInv

(* The driver gives a search a core that nobody has. *)
LEMMA LaunchTakesFreeCore ==
    ASSUME CoresInv, LaunchSearch
    PROVE  CoresInv'
<1>1. PICK m, c : m = FirstFree[1] /\ c = FirstFree[2]
  OBVIOUS
<1>2. m \in DOMAIN Nodes /\ c \in 1 .. Cores /\ ~table[m][c]
  BY <1>1, FirstFreeIsFree DEF LaunchSearch
<1>3. PICK t : t = [job |-> driver.next, warm |-> FALSE, node |-> 0]
  OBVIOUS
<1>4. PICK s : s = Started(t, m, c)
  OBVIOUS
<1>5. /\ driver.phase = "map" /\ driver.next \in DOMAIN Jobs
      /\ table' = [table EXCEPT ![m][c] = TRUE]
      /\ search' = [search EXCEPT ![t] = s]
      /\ driver' = [driver EXCEPT !.next = @ + 1]
  BY <1>1, <1>3, <1>4 DEF LaunchSearch
<1>6. t \in Searches /\ t \in Tasks /\ t.job = driver.next /\ ~t.warm
  BY <1>3, <1>5, SearchTasks DEF Searches
<1>7. /\ DOMAIN s = DOMAIN NotStarted /\ s.pc = "searching" /\ s.node = m /\ s.core = c
  BY <1>4, StartedFacts
<1>8. /\ DOMAIN search = Tasks /\ table \in [DOMAIN Nodes -> [1 .. Cores -> BOOLEAN]]
      /\ \A u \in Tasks : /\ DOMAIN search[u] = DOMAIN NotStarted
                          /\ u.warm => search[u].core = None
                          /\ ~u.warm /\ Active(search[u]) =>
                                search[u].node \in DOMAIN Nodes /\ search[u].core \in 1 .. Cores
  BY DEF CoresInv, AssignedInv
<1>9. PICK k \in Nat \ {0} : driver = [phase |-> "map", next |-> k]
  <2>1. PICK p \in {"warm up", "map", "done", "failed"}, k \in Nat \ {0} :
            driver = [phase |-> p, next |-> k]
    BY DriverFields DEF CoresInv
  <2>2. p = "map"
    BY <1>5, <2>1
  <2> QED BY <2>1, <2>2, Zenon
<1>10. /\ DOMAIN search' = Tasks /\ search'[t] = s
       /\ \A u \in Tasks : u # t => search'[u] = search[u]
  BY <1>5, <1>6, <1>8
<1>11. search[t].pc = "not started"
  <2>1. driver.next = k
    BY <1>9
  <2>2. t.job \notin 1 .. driver.next - 1
    BY <1>6, <2>1
  <2> QED BY <1>5, <1>6, <2>2 DEF CoresInv, DriverInv
<1>12. /\ table' \in [DOMAIN Nodes -> [1 .. Cores -> BOOLEAN]]
       /\ table'[m][c]
       /\ \A i \in DOMAIN Nodes, j \in 1 .. Cores :
                i # m \/ j # c => table'[i][j] = table[i][j]
  BY <1>2, <1>5, <1>8
<1>13. DriverInv'
  <2>1. driver' = [phase |-> "map", next |-> k + 1] /\ driver.next = k
    BY <1>5, <1>9
  <2>2. ASSUME NEW u \in Searches, u.job \notin 1 .. driver'.next - 1
        PROVE  search'[u].pc = "not started"
    <3>0. driver'.next - 1 = k
      BY <2>1
    <3>1. u.job # driver.next /\ u.job \notin 1 .. driver.next - 1
      BY <2>1, <2>2, <3>0
    <3>2. search'[u] = search[u]
      BY <1>6, <1>10, <3>1, SearchTasks
    <3> QED BY <1>5, <3>1, <3>2 DEF CoresInv, DriverInv
  <2>3. driver' \in [phase : {"warm up", "map", "done", "failed"}, next : Nat \ {0}]
    BY <2>1
  <2>4. driver'.phase = "map"
    BY <2>1
  <2> QED BY <2>2, <2>3, <2>4 DEF DriverInv
<1>14. AssignedInv'
  BY <1>2, <1>6, <1>7, <1>8, <1>10, <1>12 DEF AssignedInv, Active
<1>15. Active(s) /\ ~Active(search[t])
  BY <1>7, <1>11 DEF Active
<1>16. CoresExclusive'
  <2>1. \A u \in Searches : Active(search[u]) =>
            ~(search[u].node = m /\ search[u].core = c)
    BY <1>2 DEF CoresInv, CoresExclusive
  <2>2. ASSUME NEW i \in DOMAIN Nodes, NEW j \in 1 .. Cores
        PROVE  table'[i][j] <=> \E u \in Searches :
                                    /\ Active(search'[u])
                                    /\ search'[u].node = i /\ search'[u].core = j
    <3>1. CASE i = m /\ j = c
      BY <1>6, <1>7, <1>10, <1>12, <1>15, <3>1
    <3>2. CASE ~(i = m /\ j = c)
      <4>1. table'[i][j] = table[i][j]
        BY <1>12, <3>2
      <4>2. table[i][j] <=> \E u \in Searches :
                    Active(search[u]) /\ search[u].node = i /\ search[u].core = j
        BY DEF CoresInv, CoresExclusive
      <4>3. \A u \in Searches : u # t => search'[u] = search[u]
        BY <1>10, SearchTasks
      <4> QED BY <1>7, <1>10, <1>15, <3>2, <4>1, <4>2, <4>3
    <3> QED BY <3>1, <3>2
  <2>3. ASSUME NEW u \in Searches, NEW v \in Searches,
               Active(search'[u]), Active(search'[v]),
               <<search'[u].node, search'[u].core>> = <<search'[v].node, search'[v].core>>
        PROVE  u = v
    <3>1. \A w \in Searches : w # t => search'[w] = search[w]
      BY <1>10, SearchTasks
    <3>2. CASE u # t /\ v # t
      BY <2>3, <3>1, <3>2 DEF CoresInv, CoresExclusive
    <3>3. CASE u = t /\ v # t
      BY <1>7, <1>10, <2>1, <2>3, <3>1, <3>3
    <3>4. CASE u # t /\ v = t
      BY <1>7, <1>10, <2>1, <2>3, <3>1, <3>4
    <3> QED BY <3>2, <3>3, <3>4
  <2> QED BY <2>2, <2>3 DEF CoresExclusive, Active
<1> QED BY <1>13, <1>14, <1>16 DEF CoresInv

(* The warm-up is over for a job: its tasks are forgotten.                   *)
LEMMA WarmUpForgotten ==
    ASSUME CoresInv, WarmedUp
    PROVE  /\ table' = table /\ files' = files /\ profile' = profile
           /\ DOMAIN search' = Tasks
           /\ \A u \in Searches : search'[u] = search[u]
           /\ \A u \in Tasks :
                \/ u \notin WarmUpTasks(driver.next) /\ search'[u] = search[u]
                \/ /\ u \in WarmUpTasks(driver.next) /\ u.warm /\ Ended(u)
                   /\ DOMAIN search'[u] = DOMAIN NotStarted
                   /\ search'[u].pc = search[u].pc /\ search'[u].core = None
                   /\ search'[u].dir = NoDir
<1>1. /\ UNCHANGED <<table, files, profile>>
      /\ search' = [t \in Tasks |->
                      IF t \in WarmUpTasks(driver.next) THEN [NotStarted EXCEPT !.pc = search[t].pc]
                      ELSE search[t]]
      /\ \A t \in WarmUpTasks(driver.next) : Ended(t)
  BY DEF WarmedUp
<1>2. ASSUME NEW p
      PROVE  /\ DOMAIN [NotStarted EXCEPT !.pc = p] = DOMAIN NotStarted
             /\ [NotStarted EXCEPT !.pc = p].pc = p
             /\ [NotStarted EXCEPT !.pc = p].core = None
             /\ [NotStarted EXCEPT !.pc = p].dir = NoDir
  BY DEF NotStarted
<1>3. ASSUME NEW u \in Tasks, u \in WarmUpTasks(driver.next)
      PROVE  /\ u.warm /\ Ended(u)
             /\ DOMAIN search'[u] = DOMAIN NotStarted
             /\ search'[u].pc = search[u].pc /\ search'[u].core = None
             /\ search'[u].dir = NoDir
  <2>1. search'[u] = [NotStarted EXCEPT !.pc = search[u].pc]
    BY <1>1, <1>3
  <2> QED BY <1>1, <1>2, <1>3, <2>1, SearchTasks
<1>4. \A u \in Tasks : u \notin WarmUpTasks(driver.next) => search'[u] = search[u]
  BY <1>1
<1>5. \A u \in Searches : u \in Tasks /\ u \notin WarmUpTasks(driver.next)
  BY SearchTasks
<1> QED BY <1>1, <1>3, <1>4, <1>5

(* The driver goes on, or gives up. *)
LEMMA DriverMoves ==
    ASSUME CoresInv, WarmedUp \/ Collect
    PROVE  CoresInv'
<1>3. PICK p \in {"warm up", "map", "done", "failed"}, k \in Nat \ {0} :
            driver = [phase |-> p, next |-> k]
  BY DriverFields DEF CoresInv
<1>4. CASE WarmedUp
  <2>1. driver.phase = "warm up" /\ \A t \in Searches : search[t].pc = "not started"
    BY <1>4 DEF WarmedUp, CoresInv, DriverInv
  <2>2. driver' \in [phase : {"warm up", "map", "done", "failed"}, next : Nat \ {0}]
    <3>1. \/ driver' = [driver EXCEPT !.phase = "failed"]
          \/ driver' = [driver EXCEPT !.next = @ + 1]
          \/ driver' = [phase |-> "map", next |-> 1]
      BY <1>4 DEF WarmedUp
    <3>2. \/ driver' = [phase |-> "failed", next |-> k]
          \/ driver' = [phase |-> p, next |-> k + 1]
          \/ driver' = [phase |-> "map", next |-> 1]
      BY <1>3, <3>1
    <3>3. k + 1 \in Nat \ {0} /\ 1 \in Nat \ {0}
      BY NextNumber
    <3> QED BY <3>2, <3>3, DriverRecord, Zenon
  <2>3. /\ table' = table /\ DOMAIN search' = Tasks
        /\ \A u \in Searches : search'[u] = search[u]
        /\ \A u \in Tasks : \/ search'[u] = search[u]
                            \/ /\ u.warm /\ DOMAIN search'[u] = DOMAIN NotStarted
                               /\ search'[u].core = None
    BY <1>4, WarmUpForgotten
  <2>4. DriverInv'
    BY <2>1, <2>2, <2>3 DEF DriverInv
  <2>5. CoresExclusive'
    BY <2>3, ExclusiveKept DEF CoresInv
  <2>6. AssignedInv'
    BY <2>3 DEF CoresInv, AssignedInv, Active
  <2> QED BY <2>4, <2>5, <2>6 DEF CoresInv
<1>5. CASE Collect
  <2>1. PICK q \in {"done", "failed"} : driver' = [driver EXCEPT !.phase = q]
    BY <1>5 DEF Collect
  <2>2. driver' = [phase |-> q, next |-> k]
    BY <1>3, <2>1
  <2>3. driver' \in [phase : {"warm up", "map", "done", "failed"}, next : Nat \ {0}]
    BY <2>2
  <2>4. driver'.phase \in {"done", "failed"}
    BY <2>2
  <2>5. DriverInv'
    BY <2>3, <2>4 DEF DriverInv
  <2>6. AssignedInv' /\ CoresExclusive'
    BY <1>5, Unmoved DEF Collect, CoresInv
  <2> QED BY <2>5, <2>6 DEF CoresInv
<1> QED BY <1>4, <1>5

(* Every step keeps the cores exclusive. *)
LEMMA CoresStep == CoresInv /\ [Next]_vars => CoresInv'
<1> SUFFICES ASSUME CoresInv, [Next]_vars PROVE CoresInv'
  OBVIOUS
<1>1. CASE UNCHANGED vars
  <2>1. table' = table /\ search' = search /\ driver' = driver
    BY <1>1 DEF vars
  <2>2. AssignedInv' /\ CoresExclusive'
    BY <2>1, Unmoved DEF CoresInv
  <2>3. DriverInv'
    BY <2>1, DriverKept DEF CoresInv
  <2> QED BY <2>2, <2>3 DEF CoresInv
<1>2. CASE Drive
  BY <1>2, WarmUpTakesNoCore, LaunchTakesFreeCore, DriverMoves DEF Drive
<1>3. ASSUME NEW t \in Tasks, Work(t) PROVE CoresInv'
  BY <1>3, WorkKeepsCores, FinishFreesCore DEF Work
<1> QED BY <1>1, <1>2, <1>3 DEF Next

(* In the beginning all cores are free. *)
LEMMA CoresInit == Init => CoresInv
<1> SUFFICES ASSUME Init PROVE CoresInv
  OBVIOUS
<1>1. /\ NotStarted.pc = "not started" /\ NotStarted.core = None
      /\ ~Active(NotStarted)
  BY DEF NotStarted, Active
<1>2. /\ DOMAIN search = Tasks /\ \A t \in Tasks : search[t] = NotStarted
  BY DEF Init
<1>3. DriverInv
  <2>1. driver = [phase |-> "map", next |-> 1] \/ driver = [phase |-> "warm up", next |-> 1]
    BY DEF Init
  <2>2. driver \in [phase : {"warm up", "map", "done", "failed"}, next : Nat \ {0}]
    BY <2>1, DriverRecord, NextNumber, Zenon
  <2>3. \A t \in Searches : search[t].pc = "not started"
    BY <1>1, <1>2, SearchTasks
  <2> QED BY <2>2, <2>3 DEF DriverInv
<1>4. AssignedInv
  BY <1>1, <1>2 DEF Init, AssignedInv
<1>5. CoresExclusive
  BY <1>1, <1>2, SearchTasks DEF Init, CoresExclusive
<1> QED BY <1>3, <1>4, <1>5 DEF CoresInv

(* The invariant that cores are exclusive by. *)
THEOREM CoresInvariance == Spec => []CoresInv
BY CoresInit, CoresStep, PTL DEF Spec

(* No two searches share a core, each core that is marked has its search,   *)
(* and none is lost but by a search that crashed: for any number of jobs,   *)
(* nodes and cores (CpuAssignmentManager).                                  *)
THEOREM CoresAreExclusive == Spec => []CoresExclusive
<1>1. CoresInv => CoresExclusive
  BY DEF CoresInv
<1> QED BY <1>1, CoresInvariance, PTL

-----------------------------------------------------------------------------
(* Tasks. *)

(* The job of a task is one of the exploration. *)
LEMMA TaskJobs == \A t \in Tasks : JobOf(t) \in Range(Jobs) \cup Range(WarmUps)
<1> TAKE t \in Tasks
<1>1. CASE t.warm
  <2>1. t.job \in DOMAIN WarmUps /\ JobOf(t) = WarmUps[t.job]
    BY <1>1, SearchTasks DEF JobOf
  <2> QED BY <2>1 DEF Range
<1>2. CASE ~t.warm
  <2>1. t.job \in DOMAIN Jobs /\ JobOf(t) = Jobs[t.job]
    BY <1>2, SearchTasks DEF JobOf
  <2> QED BY <2>1 DEF Range
<1> QED BY <1>1, <1>2


(* A task that is under way does one thing after the other.                 *)
LEMMA TaskWorks ==
    ASSUME CoresInv, NEW t \in Tasks, Work(t)
    PROVE  /\ driver' = driver /\ profile' = profile
           /\ \E n : /\ search' = [search EXCEPT ![t] = n]
                     /\ \/ RunStep(t, search[t], n)
                        \/ /\ search[t].pc \in {"breaking", "searching"} /\ files' = files
                           /\ PcMoved(search[t], n) /\ n.pc = "done"
<1>1. DOMAIN search = Tasks /\ DOMAIN search[t] = DOMAIN NotStarted
  BY DEF CoresInv, AssignedInv
<1>2. CASE TryQps(t) \/ WriteResult(t) \/ EndSimulation(t) \/ FailSimulation(t)
  BY <1>1, <1>2, TaskRuns
<1>3. CASE Finish(t)
  BY <1>1, <1>3, TaskEnds
<1> QED BY <1>2, <1>3 DEF Work

(* Only a task that has begun and has not ended works, and none but it.     *)
LEMMA OneWorks ==
    ASSUME CoresInv, NEW t \in Tasks, Work(t)
    PROVE  /\ driver' = driver /\ profile' = profile /\ ~Quiet(t)
           /\ \A u \in Tasks : u # t => search'[u] = search[u]
<1>1. DOMAIN search = Tasks
  BY DEF CoresInv, AssignedInv
<1>2. driver' = driver /\ profile' = profile
  BY TaskWorks
<1>3. PICK n : /\ search' = [search EXCEPT ![t] = n]
               /\ \/ RunStep(t, search[t], n)
                  \/ search[t].pc \in {"breaking", "searching"}
  BY TaskWorks
<1>4. search[t].pc \in {"searching", "simulating", "writing", "breaking"}
  BY <1>3 DEF RunStep
<1> QED BY <1>1, <1>2, <1>3, <1>4 DEF Quiet

(* What the driver does to the tasks: some begin, and warm-ups that ended   *)
(* are forgotten.                                                           *)
LEMMA DriverTouches ==
    ASSUME CoresInv, Drive \/ UNCHANGED vars
    PROVE  /\ files' = files /\ profile' = profile
           /\ \A u \in Tasks :
                \/ search'[u] = search[u]
                \/ /\ search[u].pc = "not started"
                   /\ \E node, core : search'[u] = Started(u, node, core)
                \/ /\ u.warm /\ Ended(u)
                   /\ search'[u].pc = search[u].pc /\ search'[u].dir = NoDir
<1>0. DOMAIN search = Tasks
  BY DEF CoresInv, AssignedInv
<1>1. CASE LaunchWarmUp
  <2>1. /\ files' = files /\ profile' = profile
        /\ search' = [t \in Tasks |->
                        IF t \in WarmUpTasks(driver.next) THEN Started(t, t.node, None)
                        ELSE search[t]]
        /\ \A t \in WarmUpTasks(driver.next) : search[t].pc = "not started"
    BY <1>1 DEF LaunchWarmUp
  <2>2. ASSUME NEW u \in Tasks
        PROVE  \/ search'[u] = search[u]
               \/ /\ search[u].pc = "not started"
                  /\ \E node, core : search'[u] = Started(u, node, core)
    BY <2>1
  <2> QED BY <2>1, <2>2
<1>2. CASE WarmedUp
  BY <1>2, WarmUpForgotten
<1>3. CASE LaunchSearch
  <2>1. PICK t : t = [job |-> driver.next, warm |-> FALSE, node |-> 0]
    OBVIOUS
  <2>2. PICK c : c = FirstFree
    OBVIOUS
  <2>3. /\ files' = files /\ profile' = profile
        /\ driver.phase = "map" /\ driver.next \in DOMAIN Jobs
        /\ search' = [search EXCEPT ![t] = Started(t, c[1], c[2])]
    BY <1>3, <2>1, <2>2 DEF LaunchSearch
  <2>4. t \in Searches /\ t.job = driver.next
    BY <2>1, <2>3 DEF Searches
  <2>5. driver.next \notin 1 .. driver.next - 1
    <3>1. PICK p \in {"warm up", "map", "done", "failed"}, k \in Nat \ {0} :
            driver = [phase |-> p, next |-> k]
      BY DriverFields DEF CoresInv
    <3>2. driver.next = k
      BY <3>1
    <3>3. k \in Nat
      OBVIOUS
    <3> QED BY <3>2, <3>3, NotBefore
  <2>6. search[t].pc = "not started"
    BY <2>3, <2>4, <2>5 DEF CoresInv, DriverInv
  <2>7. ASSUME NEW u \in Tasks
        PROVE  \/ search'[u] = search[u]
               \/ /\ search[u].pc = "not started"
                  /\ \E node, core : search'[u] = Started(u, node, core)
    BY <1>0, <2>3, <2>6
  <2> QED BY <2>3, <2>7
<1>4. CASE Collect \/ UNCHANGED vars
  BY <1>4 DEF Collect, vars
<1> QED BY <1>1, <1>2, <1>3, <1>4 DEF Drive

-----------------------------------------------------------------------------
(* The warm-up. *)

(* The tasks that warm a job up are those of its number. *)
LEMMA WarmUpNumbers ==
    /\ \A t \in Tasks \ Searches : t \in WarmUpTasks(t.job)
    /\ \A i : \A t \in WarmUpTasks(i) : t.job = i
BY DEF Tasks, WarmUpTasks

(* No warm-up is under way when a search is, and only those of one job are. *)
LEMMA WarmUpStep == CoresInv /\ WarmUpInv /\ [Next]_vars => WarmUpInv'
<1> SUFFICES ASSUME CoresInv, WarmUpInv, [Next]_vars,
                    NEW u \in Tasks \ Searches
             PROVE  \/ Quiet(u)'
                    \/ /\ driver'.phase = "warm up" => u.job = driver'.next
                       /\ driver'.phase # "map"
                       /\ \A v \in Searches : search'[v].pc = "not started"
  BY DEF WarmUpInv
<1>1. \/ Quiet(u)
      \/ /\ driver.phase = "warm up" => u.job = driver.next
         /\ driver.phase # "map"
         /\ \A v \in Searches : search[v].pc = "not started"
  BY DEF WarmUpInv
<1>2. CASE UNCHANGED vars
  BY <1>1, <1>2 DEF vars, Quiet
<1>3. ASSUME NEW t \in Tasks, Work(t)
      PROVE  \/ Quiet(u)'
             \/ /\ driver'.phase = "warm up" => u.job = driver'.next
                /\ driver'.phase # "map"
                /\ \A v \in Searches : search'[v].pc = "not started"
  <2>1. driver' = driver /\ ~Quiet(t) /\ \A v \in Tasks : v # t => search'[v] = search[v]
    BY <1>3, OneWorks
  <2>2. CASE t \in Searches
    <3>1. search[t].pc # "not started" /\ u # t
      BY <2>1, <2>2 DEF Quiet
    <3> QED BY <1>1, <2>1, <2>2, <3>1 DEF Quiet
  <2>3. CASE t \notin Searches
    <3>1. \A v \in Searches : search'[v] = search[v]
      BY <2>1, <2>3, SearchTasks
    <3>2. CASE u = t
      BY <1>1, <2>1, <3>1, <3>2
    <3>3. CASE u # t
      BY <1>1, <2>1, <3>1, <3>3 DEF Quiet
    <3> QED BY <3>2, <3>3
  <2> QED BY <2>2, <2>3
<1>4. CASE LaunchWarmUp
  <2>1. driver' = driver /\ driver.phase = "warm up"
    BY <1>4 DEF LaunchWarmUp
  <2>2. \A v \in Searches : search[v].pc = "not started"
    BY <2>1 DEF CoresInv, DriverInv
  <2>3. /\ \A v \in Tasks : v \notin WarmUpTasks(driver.next) => search'[v] = search[v]
        /\ \A v \in Searches : v \in Tasks /\ v \notin WarmUpTasks(driver.next)
    BY <1>4, SearchTasks DEF LaunchWarmUp
  <2>4. \A v \in Searches : search'[v].pc = "not started"
    BY <2>2, <2>3
  <2>5. CASE u \in WarmUpTasks(driver.next)
    BY <2>1, <2>4, <2>5, WarmUpNumbers
  <2>6. CASE u \notin WarmUpTasks(driver.next)
    BY <1>1, <2>1, <2>3, <2>4, <2>6 DEF Quiet
  <2> QED BY <2>5, <2>6
<1>5. CASE WarmedUp
  <2>1. driver.phase = "warm up"
    BY <1>5 DEF WarmedUp
  <2>2. CASE u \in WarmUpTasks(driver.next)
    <3>1. search'[u].pc = search[u].pc /\ Ended(u)
      BY <1>5, <2>2, WarmUpForgotten
    <3> QED BY <3>1 DEF Ended, Quiet
  <2>3. CASE u \notin WarmUpTasks(driver.next)
    <3>1. search'[u] = search[u]
      BY <1>5, <2>3, WarmUpForgotten
    <3>2. Quiet(u)
      BY <1>1, <2>1, <2>3, WarmUpNumbers
    <3> QED BY <3>1, <3>2 DEF Quiet
  <2> QED BY <2>2, <2>3
<1>6. CASE LaunchSearch \/ Collect
  <2>1. Quiet(u)
    BY <1>1, <1>6 DEF LaunchSearch, Collect
  <2>2. search'[u] = search[u]
    <3>1. DOMAIN search = Tasks
      BY DEF CoresInv, AssignedInv
    <3>2. CASE LaunchSearch
      <4>1. PICK t \in Searches : \E s : search' = [search EXCEPT ![t] = s]
        BY <3>2 DEF LaunchSearch, Searches
      <4>2. t # u
        BY <1>1
      <4> QED BY <3>1, <4>1, <4>2
    <3>3. CASE Collect
      BY <3>3 DEF Collect
    <3> QED BY <1>6, <3>2, <3>3
  <2> QED BY <2>1, <2>2 DEF Quiet
<1> QED BY <1>2, <1>3, <1>4, <1>5, <1>6 DEF Next, Drive

(* So it is throughout.                                                     *)
LEMMA WarmUpInvariance == Spec => []WarmUpInv
<1>1. ASSUME Init PROVE WarmUpInv
  <2>1. \A t \in Tasks : search[t] = NotStarted
    BY <1>1 DEF Init
  <2>2. NotStarted.pc = "not started"
    BY DEF NotStarted
  <2> QED BY <2>1, <2>2 DEF WarmUpInv, Quiet
<1>2. Init => WarmUpInv
  BY <1>1
<1> QED BY <1>2, WarmUpStep, CoresInvariance, PTL DEF Spec

-----------------------------------------------------------------------------
(* Directories. *)

(* A job of the same key gives simulations the same arguments but for what  *)
(* the key leaves open.                                                     *)
LEMMA KeyDetermines ==
    ASSUME NEW x, NEW y, Key(x) = Key(y)
    PROVE  JobDict(Completed(x, y)) = JobDict(y)
<1>1. /\ x.trace.max_seq_len = y.trace.max_seq_len
      /\ x.trace.num_requests = y.trace.num_requests
      /\ x.cluster.device = y.cluster.device /\ x.scheduler = y.scheduler
      /\ x.tp = y.tp /\ x.pp = y.pp /\ x.batch_size = y.batch_size
  BY DEF Key
<1>2. PICK z : z = Completed(x, y)
  OBVIOUS
<1>3. /\ z.model = y.model /\ z.cluster.device = y.cluster.device /\ z.scheduler = y.scheduler
      /\ z.tp = y.tp /\ z.pp = y.pp /\ z.batch_size = y.batch_size
      /\ z.num_replicas = y.num_replicas
      /\ z.trace.max_seq_len = y.trace.max_seq_len
      /\ z.trace.num_requests = y.trace.num_requests
      /\ z.trace.trace_file = y.trace.trace_file
  BY <1>1, <1>2 DEF Completed
<1>4. TraceDict(z.trace) = TraceDict(y.trace)
  BY <1>3, Zenon DEF TraceDict
<1>5. JobDict(z) = JobDict(y)
  BY <1>3, <1>4, Zenon DEF JobDict
<1> QED BY <1>2, <1>5

(* The result file of a task, in the making and as it is left. *)
LEMMA OwnFacts ==
    ASSUME NEW t, NEW state, NEW f, f = [Own(t) EXCEPT !.state = state]
    PROVE  /\ f = [dir |-> f.dir, by |-> f.by, run |-> f.run, state |-> f.state]
           /\ f.dir = search[t].dir /\ f.by = JobOf(t) /\ f.run = t /\ f.state = state
           /\ Own(t) = [dir |-> search[t].dir, by |-> JobOf(t), run |-> t, state |-> "writing"]
           /\ Own(t).dir = search[t].dir /\ Own(t).by = JobOf(t)
           /\ Own(t).run = t /\ Own(t).state = "writing"
BY DEF Own

(* A task looks into the directories of its key after each of its steps.    *)
LEMMA LooksStep ==
    ASSUME CoresInv, NEW t \in Tasks, LooksInto(t, search[t]), NEW n,
           \/ RunStep(t, search[t], n)
           \/ PcMoved(search[t], n) /\ n.pc = "done"
    PROVE  LooksInto(t, n)
<1>0. DOMAIN search[t] = DOMAIN NotStarted
  BY DEF CoresInv, AssignedInv
<1>1. PICK s : s = search[t]
  OBVIOUS
<1>2. PICK r : r = Tried(t, s)
  OBVIOUS
<1>3. /\ DOMAIN r = DOMAIN NotStarted /\ r.dir.key = Key(JobOf(t)) /\ r.dir.qps = r.qps
  BY <1>0, <1>1, <1>2, TriedFacts
<1>4. /\ s.dir = NoDir \/ s.dir.key = Key(JobOf(t))
      /\ s.pc \in {"simulating", "writing"} => s.dir.key = Key(JobOf(t)) /\ s.dir.qps = s.qps
  BY <1>1 DEF LooksInto
<1>5. \/ PcMoved(r, n) /\ n.pc \in {"simulating", "crashed"}
      \/ \E fs : HasRead(r, fs, n)
      \/ PcMoved(s, n) /\ n.pc \in {"breaking", "done"}
      \/ s.pc \in {"simulating", "writing"} /\ \E fs : HasRead(s, fs, n)
      \/ s.pc = "simulating" /\ PcMoved(s, n) /\ n.pc = "writing"
  BY <1>1, <1>2 DEF RunStep
<1>6. CASE PcMoved(r, n) /\ n.pc \in {"simulating", "crashed"}
  BY <1>3, <1>6 DEF PcMoved, LooksInto
<1>7. ASSUME NEW fs, HasRead(r, fs, n) PROVE LooksInto(t, n)
  <2>1. n.pc = "searching" /\ n.dir = r.dir
    BY <1>3, <1>7, ReadFacts
  <2> QED BY <1>3, <2>1 DEF LooksInto
<1>8. CASE PcMoved(s, n) /\ n.pc \in {"breaking", "done"}
  BY <1>4, <1>8 DEF PcMoved, LooksInto
<1>9. ASSUME NEW fs, HasRead(s, fs, n) PROVE LooksInto(t, n)
  <2>1. n.pc = "searching" /\ n.dir = s.dir
    BY <1>0, <1>1, <1>9, ReadFacts
  <2> QED BY <1>4, <2>1 DEF LooksInto
<1>10. CASE s.pc = "simulating" /\ PcMoved(s, n) /\ n.pc = "writing"
  BY <1>4, <1>10 DEF PcMoved, LooksInto
<1> QED BY <1>5, <1>6, <1>7, <1>8, <1>9, <1>10

(* What a step of a task does to the result files. *)
FilesMoved(t, s, n) ==
    \/ files' = files /\ s.pc # "writing"
    \/ /\ s.pc = "simulating" /\ n.pc = "writing" /\ n.dir = s.dir
       /\ files' = files \cup {Own(t)}
    \/ /\ s.pc = "writing"
       /\ \E state \in {"whole", "partial"} :
            files' = (files \ {Own(t)}) \cup {[Own(t) EXCEPT !.state = state]}

(* A task opens its result file and closes it, as its program counter tells. *)
LEMMA FilesMove ==
    ASSUME NEW t, NEW n,
           \/ RunStep(t, search[t], n)
           \/ files' = files /\ search[t].pc \in {"breaking", "searching"}
    PROVE  FilesMoved(t, search[t], n)
BY DEF RunStep, FilesMoved, PcMoved

(* The results that are there after a step, and the task that looks.        *)
LEMMA DirsStep ==
    ASSUME CoresInv, DirsInv, NEW t \in Tasks, Work(t)
    PROVE  DirsInv'
<1>0. /\ DOMAIN search = Tasks /\ LooksInto(t, search[t])
      /\ \A f \in files : OfItsTask(f)
  BY DEF CoresInv, AssignedInv, DirsInv
<1>1. PICK s : s = search[t]
  OBVIOUS
<1>2. PICK n : /\ search' = [search EXCEPT ![t] = n]
               /\ \/ RunStep(t, search[t], n)
                  \/ /\ search[t].pc \in {"breaking", "searching"} /\ files' = files
                     /\ PcMoved(search[t], n) /\ n.pc = "done"
  BY TaskWorks
<1>3. FilesMoved(t, s, n)
  BY <1>1, <1>2, FilesMove
<1>4. /\ search'[t] = n /\ \A u \in Tasks : u # t => search'[u] = search[u]
      /\ DOMAIN search' = Tasks
  BY <1>0, <1>2
<1>5. /\ Own(t) = [dir |-> s.dir, by |-> JobOf(t), run |-> t, state |-> "writing"]
      /\ s.pc \in {"simulating", "writing"} => s.dir.key = Key(JobOf(t))
  BY <1>0, <1>1 DEF Own, LooksInto
<1>6. ASSUME NEW f \in files' PROVE OfItsTask(f)'
  <2>1. CASE f \in files /\ (f.state = "writing" => f.run # t)
    <3>1. OfItsTask(f)
      BY <1>0, <2>1
    <3>2. f.state = "writing" => f.run \in Tasks /\ search'[f.run] = search[f.run]
      BY <1>4, <2>1, <3>1 DEF OfItsTask
    <3> QED BY <3>1, <3>2 DEF OfItsTask
  <2>2. CASE f \in files /\ f.state = "writing" /\ f.run = t
    <3>1. s.pc = "writing" /\ f = Own(t)
      BY <1>0, <1>1, <1>5, <2>2 DEF OfItsTask
    <3>2. PICK state \in {"whole", "partial"} :
            files' = (files \ {Own(t)}) \cup {[Own(t) EXCEPT !.state = state]}
      BY <1>3, <3>1 DEF FilesMoved
    <3>3. f = [Own(t) EXCEPT !.state = state]
      BY <3>1, <3>2
    <3>4. f.state = state
      BY <3>3, OwnFacts
    <3> QED BY <2>2, <3>2, <3>4
  <2>3. CASE f \notin files
    <3>1. CASE f = Own(t) /\ s.pc = "simulating" /\ n.pc = "writing" /\ n.dir = s.dir
      <4>1. f.dir = s.dir /\ f.by = JobOf(t) /\ f.run = t /\ f.state = "writing"
        BY <1>5, <3>1
      <4>2. f = [dir |-> f.dir, by |-> f.by, run |-> f.run, state |-> f.state]
        BY <1>5, <3>1
      <4> QED BY <1>4, <1>5, <3>1, <4>1, <4>2 DEF OfItsTask
    <3>2. ASSUME NEW state \in {"whole", "partial"}, s.pc = "writing",
                 f = [Own(t) EXCEPT !.state = state]
          PROVE  OfItsTask(f)'
      <4>1. /\ f = [dir |-> f.dir, by |-> f.by, run |-> f.run, state |-> f.state]
            /\ f.dir = search[t].dir /\ f.by = JobOf(t) /\ f.run = t /\ f.state = state
        BY <3>2, OwnFacts
      <4> QED BY <1>1, <1>5, <3>2, <4>1 DEF OfItsTask
    <3> QED BY <1>3, <2>3, <3>1, <3>2 DEF FilesMoved
  <2> QED BY <2>1, <2>2, <2>3
<1>7. ASSUME NEW u \in Tasks PROVE LooksInto(u, search'[u])
  <2>1. CASE u = t
    BY <1>0, <1>2, <1>4, <2>1, LooksStep
  <2>2. CASE u # t
    BY <1>4, <2>2 DEF DirsInv
  <2> QED BY <2>1, <2>2
<1> QED BY <1>6, <1>7 DEF DirsInv, LooksInto

(* The driver starts tasks without a directory and leaves the results alone. *)
LEMMA DirsDriven ==
    ASSUME CoresInv, DirsInv, Drive \/ UNCHANGED vars
    PROVE  DirsInv'
<1>1. files' = files
  BY DriverTouches
<1>2. \A t, node, core : LooksInto(t, Started(t, node, core))
  <2> TAKE t, node, core
  <2>1. PICK s : s = Started(t, node, core)
    OBVIOUS
  <2>2. s.pc = "searching" /\ s.dir = NoDir
    BY <2>1, StartedFacts, StartedBounds
  <2> QED BY <2>1, <2>2 DEF LooksInto
<1>3. ASSUME NEW u \in Tasks
      PROVE  \/ search'[u] = search[u]
             \/ /\ search[u].pc = "not started"
                /\ \E node, core : search'[u] = Started(u, node, core)
             \/ /\ u.warm /\ Ended(u)
                /\ search'[u].pc = search[u].pc /\ search'[u].dir = NoDir
  BY DriverTouches
<1>4. ASSUME NEW u \in Tasks PROVE LooksInto(u, search'[u])
  <2>1. CASE search'[u] = search[u]
    BY <2>1 DEF DirsInv
  <2>2. ASSUME NEW node, NEW core, search'[u] = Started(u, node, core)
        PROVE  LooksInto(u, search'[u])
    BY <1>2, <2>2
  <2>3. CASE search'[u].pc \in {"done", "crashed"} /\ search'[u].dir = NoDir
    BY <2>3 DEF LooksInto
  <2> QED BY <1>3, <2>1, <2>2, <2>3 DEF Ended
<1>5. ASSUME NEW f \in files' PROVE OfItsTask(f)'
  <2>1. OfItsTask(f)
    BY <1>1 DEF DirsInv
  <2>2. f.state = "writing" => search'[f.run] = search[f.run]
    <3> SUFFICES ASSUME f.state = "writing" PROVE search'[f.run] = search[f.run]
      OBVIOUS
    <3>1. f.run \in Tasks /\ search[f.run].pc = "writing"
      BY <2>1 DEF OfItsTask
    <3> QED BY <1>3, <3>1 DEF Ended
  <2> QED BY <2>1, <2>2 DEF OfItsTask
<1> QED BY <1>4, <1>5 DEF DirsInv, LooksInto

(* What an earlier exploration left is in a directory of its own job's key. *)
LEMMA DirsBegin == Init => DirsInv
<1> SUFFICES ASSUME Init PROVE DirsInv
  OBVIOUS
<1>1. ASSUME NEW f \in files PROVE OfItsTask(f)
  <2>1. f \in LeftBehind
    BY <1>1 DEF Init
  <2>2. PICK n \in DOMAIN Nodes, j \in Leftovers, state \in {"whole", "partial"} :
            f = [dir |-> [disk |-> DiskOf[n], key |-> Key(j), qps |-> j.trace.start_qps],
                 by |-> j, run |-> Earlier, state |-> state]
    BY <2>1 DEF LeftBehind
  <2>3. /\ f = [dir |-> f.dir, by |-> f.by, run |-> f.run, state |-> f.state]
        /\ f.run = Earlier /\ f.state = state /\ f.by = j /\ f.dir.key = Key(j)
    BY <2>2
  <2> QED BY <2>3 DEF OfItsTask
<1>2. ASSUME NEW t \in Tasks PROVE LooksInto(t, search[t])
  <2>1. search[t].pc = "not started" /\ search[t].dir = NoDir
    BY DEF Init, NotStarted
  <2> QED BY <2>1 DEF LooksInto
<1> QED BY <1>1, <1>2 DEF DirsInv

(* Directories belong to keys, and results to tasks. *)
LEMMA DirsInvariance == Spec => []DirsInv
<1>1. CoresInv /\ DirsInv /\ [Next]_vars => DirsInv'
  BY DirsStep, DirsDriven DEF Next
<1> QED BY <1>1, DirsBegin, CoresInvariance, PTL DEF Spec

(* What is being written under the key of a search, the search writes.      *)
NoOthersWriting ==
    \A t \in Searches : \A f \in files :
        search[t].pc # "not started" /\ f.dir.key = Key(JobOf(t)) /\ f.state = "writing"
        => f.run = t /\ search[t].pc = "writing"

(* The keys tell jobs apart, and the warm-up is over.                       *)
LEMMA WritesAlone ==
    ASSUME KeysNameJobs
    PROVE  CoresInv /\ WarmUpInv /\ DirsInv => NoOthersWriting
<1> SUFFICES ASSUME CoresInv, WarmUpInv, DirsInv, NEW t \in Searches, NEW f \in files,
                    search[t].pc # "not started", f.dir.key = Key(JobOf(t)),
                    f.state = "writing"
             PROVE  f.run = t /\ search[t].pc = "writing"
  BY DEF NoOthersWriting
<1>1. PICK u \in Tasks : f.run = u
  BY DEF DirsInv, OfItsTask
<1>2. search[u].pc = "writing" /\ f.by = JobOf(u) /\ f.dir.key = Key(f.by)
  BY <1>1 DEF DirsInv, OfItsTask
<1>3. u \in Searches
  BY <1>2 DEF WarmUpInv, Quiet
<1>4. JobOf(u) = JobOf(t)
  BY <1>2, TaskJobs, SearchTasks DEF KeysNameJobs
<1>5. /\ t.job \in DOMAIN Jobs /\ u.job \in DOMAIN Jobs
      /\ JobOf(t) = Jobs[t.job] /\ JobOf(u) = Jobs[u.job]
  BY <1>3, SearchTasks DEF JobOf
<1>6. u.job = t.job
  BY <1>4, <1>5 DEF KeysNameJobs
<1>7. u = t
  <2>1. \A v \in Searches : v = [job |-> v.job, warm |-> FALSE, node |-> 0]
    <3> TAKE v \in Searches
    <3>1. PICK i \in DOMAIN Jobs : v = [job |-> i, warm |-> FALSE, node |-> 0]
      BY DEF Searches
    <3> QED BY <3>1
  <2> QED BY <1>3, <1>6, <2>1
<1> QED BY <1>1, <1>2, <1>7

(* So it is throughout.                                                     *)
LEMMA WritesAloneInvariance ==
    ASSUME KeysNameJobs
    PROVE  Spec => []NoOthersWriting
BY WritesAlone, CoresInvariance, WarmUpInvariance, DirsInvariance, PTL

(* Whatever a task finds in the directory of a run differs in its arguments *)
(* from the task's own in no more than the key leaves open; when keys tell  *)
(* the jobs of an exploration apart, what this exploration left there is of *)
(* the task's own job, whoever wrote it, and no search finds what another   *)
(* simulation has yet to finish.                                            *)
THEOREM ResultsBelong == KeysNameJobs => (Spec => []ResultsAreOwn)
<1>1. ASSUME KeysNameJobs, DirsInv, NoOthersWriting PROVE ResultsAreOwn
  <2> SUFFICES ASSUME NEW t \in Tasks, NEW f \in FilesIn(search[t].dir)
               PROVE  /\ JobDict(Completed(f.by, JobOf(t))) = JobDict(JobOf(t))
                      /\ f.run # Earlier => JobDict(f.by) = JobDict(JobOf(t))
                      /\ t \in Searches /\ f.state = "writing" => f.run = t
    BY DEF ResultsAreOwn
  <2>1. f \in files /\ f.dir = search[t].dir
    BY DEF FilesIn
  <2>2. OfItsTask(f) /\ f.dir.key = Key(f.by)
    BY <1>1, <2>1 DEF DirsInv, OfItsTask
  <2>3. LooksInto(t, search[t])
    BY <1>1 DEF DirsInv
  <2>4. NoDir.key # Key(f.by)
    BY DEF NoDir, Key
  <2>5. Key(f.by) = Key(JobOf(t)) /\ search[t].pc # "not started"
    BY <2>1, <2>2, <2>3, <2>4 DEF LooksInto
  <2>6. ASSUME f.run # Earlier PROVE JobDict(f.by) = JobDict(JobOf(t))
    <3>1. f.run \in Tasks /\ f.by = JobOf(f.run)
      BY <2>2, <2>6 DEF OfItsTask
    <3>2. f.by = JobOf(t)
      BY <1>1, <2>5, <3>1, TaskJobs DEF KeysNameJobs
    <3> QED BY <3>2
  <2>7. t \in Searches /\ f.state = "writing" => f.run = t
    BY <1>1, <2>1, <2>2, <2>5 DEF NoOthersWriting
  <2> QED BY <2>5, <2>6, <2>7, KeyDetermines
<1> SUFFICES ASSUME KeysNameJobs PROVE Spec => []ResultsAreOwn
  OBVIOUS
<1>2. DirsInv /\ NoOthersWriting => ResultsAreOwn
  BY <1>1
<1> QED BY <1>2, DirsInvariance, WritesAloneInvariance, PTL

-----------------------------------------------------------------------------
(* The search. *)

(* A delay keeps to the SLO up to the capacity and no further. *)
LEMMA DelayMeaning ==
    ASSUME NEW f, {f.eighth, f.quarter, f.slo} \subseteq Nat,
           f.eighth <= f.slo, f.quarter <= f.slo, NEW q \in Nat
    PROVE  /\ IsUnderSla(DelayAt(f, q)) => q <= f.slo
           /\ ~IsUnderSla(DelayAt(f, q)) => f.slo < q
           /\ DelayAt(f, q) # "unreadable"
<1>1. f.eighth \in Nat /\ f.quarter \in Nat /\ f.slo \in Nat
  OBVIOUS
<1>2. CASE q <= f.eighth
  BY <1>1, <1>2 DEF DelayAt, IsUnderSla
<1>3. CASE ~(q <= f.eighth) /\ q <= f.quarter
  BY <1>1, <1>3 DEF DelayAt, IsUnderSla
<1>4. CASE ~(q <= f.eighth) /\ ~(q <= f.quarter) /\ q <= f.slo
  BY <1>1, <1>4 DEF DelayAt, IsUnderSla
<1>5. CASE ~(q <= f.eighth) /\ ~(q <= f.quarter) /\ ~(q <= f.slo)
  BY <1>1, <1>5 DEF DelayAt, IsUnderSla
<1> QED BY <1>2, <1>3, <1>4, <1>5

(* The profile of a search's job, and the job's first load. *)
LEMMA SearchProfile ==
    ASSUME profile \in LoadProfiles, NEW t \in Searches
    PROVE  LET f == profile[JobOf(t)]
           IN  /\ JobOf(t) \in Range(Jobs)
               /\ {f.eighth, f.quarter, f.slo} \subseteq Nat
               /\ f.eighth <= f.slo /\ f.quarter <= f.slo /\ f.slo < Infinity
               /\ JobOf(t).trace.start_qps \in Nat
               /\ 2 * JobOf(t).trace.start_qps \in 0 .. Infinity
<1>1. t.job \in DOMAIN Jobs /\ JobOf(t) = Jobs[t.job]
  BY SearchTasks DEF JobOf
<1>2. JobOf(t) \in Range(Jobs)
  BY <1>1 DEF Range
<1> QED BY <1>1, <1>2, LoadAssumption

(* What stands for no limit is a number. *)
LEMMA NoLimit == Infinity \in Nat /\ Infinity > 0
BY DEF Infinity

(* Between two bounds lies their mean. *)
LEMMA MeanBetween ==
    ASSUME NEW l \in Nat, NEW r \in Nat
    PROVE  /\ (l + r) \div 2 \in Nat
           /\ l <= r => l <= (l + r) \div 2 /\ (l + r) \div 2 <= r
OBVIOUS

(* The new right bound after a load that was fine. *)
LEMMA Widened ==
    ASSUME NEW q \in Nat, NEW r \in Nat, NEW mo \in Nat,
           NEW w, \/ w = Min2(4 * r, mo)
                  \/ w = Min2(2 * r, mo)
                  \/ w = r /\ ~(5 * q > 4 * r)
    PROVE  /\ w \in Nat
           /\ q <= r /\ r <= mo => q <= w /\ w <= mo /\ (w = mo \/ 5 * q <= 4 * w)
<1>1. w \in {4 * r, 2 * r, mo} \/ (w = r /\ 5 * q <= 4 * r)
  BY DEF Min2
<1>2. r <= mo => w <= mo
  BY DEF Min2
<1> QED BY <1>1, <1>2

(* The halves of two loads are ordered as they are. *)
LEMMA Halves ==
    ASSUME NEW a \in Nat, NEW b \in Nat
    PROVE  /\ a \div 2 \in Nat /\ a \div 2 <= a /\ a <= 2 * (a \div 2) + 1
           /\ a <= b => a \div 2 <= b \div 2
OBVIOUS

(* An iteration on the delay of a search's own job keeps the largest load   *)
(* that was fine below the capacity, and the bracket, unless a huge delay   *)
(* takes the right bound too low.                                           *)
LEMMA NarrowedKeeps ==
    ASSUME NEW f, {f.eighth, f.quarter, f.slo} \subseteq Nat,
           f.eighth <= f.slo, f.quarter <= f.slo,
           NEW s, DOMAIN s = DOMAIN NotStarted,
           Sound(s, f.slo), s.qps = (s.left + s.right) \div 2,
           NEW d, d = DelayAt(f, s.qps), NEW n, n = Narrowed(s, d)
    PROVE  /\ DOMAIN n = DOMAIN NotStarted
           /\ {n.left, n.right, n.qps, n.min_over, n.huge} \subseteq Nat
           /\ n.max_qps \in Int /\ n.max_qps <= f.slo
           /\ Misled(n, f.slo) \/ Bracketed(n, f.slo)
<1>1. PICK l \in Nat, r \in Nat, q \in Nat, mo \in Nat, h \in Nat, m \in Int :
        /\ s.left = l /\ s.right = r /\ s.qps = q /\ s.min_over = mo
        /\ s.huge = h /\ s.max_qps = m /\ m <= f.slo
  BY DEF Sound
<1>2. /\ f.slo \in Nat
      /\ IsUnderSla(d) => q <= f.slo
      /\ ~IsUnderSla(d) => f.slo < q
  BY <1>1, DelayMeaning
<1>3. l <= r => l <= q /\ q <= r
  BY <1>1, MeanBetween
<1>4. \/ h \div 2 <= f.slo
      \/ /\ l <= r /\ r <= mo /\ l <= f.slo /\ f.slo < mo
         /\ m = l \/ (m = None /\ l = 0)
  BY <1>1 DEF Sound, Misled, Bracketed
<1>5. CASE IsUnderSla(d)
  <2>1. PICK w : w = IF d = "eighth" THEN Min2(4 * r, mo)
                     ELSE IF d = "quarter" \/ 5 * q > 4 * r THEN Min2(2 * r, mo) ELSE r
    OBVIOUS
  <2>2. n = [s EXCEPT !.max_qps = q, !.left = q, !.right = w]
    BY <1>1, <1>5, <2>1 DEF Narrowed
  <2>3. /\ DOMAIN n = DOMAIN NotStarted
        /\ n.left = q /\ n.right = w /\ n.qps = q /\ n.min_over = mo /\ n.max_qps = q
        /\ n.huge = h
    BY <1>1, <2>2, Fields
  <2>4. \/ w = Min2(4 * r, mo)
        \/ w = Min2(2 * r, mo)
        \/ w = r /\ ~(5 * q > 4 * r)
    BY <2>1
  <2>5. /\ w \in Nat
        /\ q <= r /\ r <= mo => q <= w /\ w <= mo /\ (w = mo \/ 5 * q <= 4 * w)
    BY <2>4, Widened
  <2>6. CASE h \div 2 <= f.slo
    BY <1>2, <1>5, <2>3, <2>5, <2>6 DEF Misled
  <2>7. CASE l <= r /\ r <= mo /\ l <= f.slo /\ f.slo < mo
    <3>1. Bracketed(n, f.slo)
      BY <1>2, <1>3, <1>5, <2>3, <2>5, <2>7 DEF Bracketed
    <3> QED BY <1>2, <1>5, <2>3, <2>5, <3>1
  <2> QED BY <1>4, <2>6, <2>7
<1>6. CASE ~IsUnderSla(d)
  <2>1. PICK g : g = IF d = "huge" THEN Min2(h, q) ELSE h
    OBVIOUS
  <2>2. PICK w : w = IF d = "huge" THEN q \div 2 ELSE q
    OBVIOUS
  <2>3. n = [s EXCEPT !.min_over = Min2(mo, q), !.right = w, !.huge = g]
    BY <1>1, <1>6, <2>1, <2>2 DEF Narrowed
  <2>4. /\ DOMAIN n = DOMAIN NotStarted
        /\ n.left = l /\ n.right = w /\ n.qps = q /\ n.min_over = Min2(mo, q)
        /\ n.max_qps = m /\ n.huge = g
    BY <1>1, <2>3, Fields
  <2>5. /\ g \in Nat /\ g <= h /\ (d = "huge" => g <= q)
        /\ Min2(mo, q) \in Nat /\ w \in Nat
    BY <2>1, <2>2, Halves DEF Min2
  <2>6. g \div 2 <= h \div 2 /\ (d = "huge" => g \div 2 <= q \div 2)
    BY <2>5, Halves
  <2>7. /\ DOMAIN n = DOMAIN NotStarted
        /\ {n.left, n.right, n.qps, n.min_over, n.huge} \subseteq Nat
        /\ n.max_qps \in Int /\ n.max_qps <= f.slo
    BY <1>1, <2>4, <2>5
  <2>8. g \div 2 \in Nat /\ h \div 2 \in Nat /\ q \div 2 \in Nat
    BY <2>5, Halves
  <2>9. CASE h \div 2 <= f.slo
    <3>1. Misled(n, f.slo)
      BY <1>2, <2>4, <2>6, <2>8, <2>9 DEF Misled
    <3> QED BY <2>7, <3>1
  <2>10. CASE d = "huge" /\ q \div 2 <= f.slo
    <3>1. Misled(n, f.slo)
      BY <1>2, <2>4, <2>6, <2>8, <2>10 DEF Misled
    <3> QED BY <2>7, <3>1
  <2>11. CASE /\ l <= r /\ r <= mo /\ l <= f.slo /\ f.slo < mo
              /\ m = l \/ (m = None /\ l = 0)
              /\ d = "huge" => ~(q \div 2 <= f.slo)
    <3>1. Min2(mo, q) = q
      BY <1>3, <2>11 DEF Min2
    <3>2. f.slo < q /\ l <= q /\ f.slo <= w /\ w <= q /\ q <= 2 * w + 1
      <4>1. CASE d = "huge"
        BY <1>2, <1>3, <1>6, <2>2, <2>8, <2>11, <4>1, Halves
      <4>2. CASE d # "huge"
        BY <1>2, <1>3, <1>6, <2>2, <2>11, <4>2
      <4> QED BY <4>1, <4>2
    <3>3. l <= w /\ (w = 0 => q = 0)
      <4>1. CASE d = "huge"
        BY <1>2, <2>2, <2>5, <2>8, <2>11, <3>2, <4>1
      <4>2. CASE d # "huge"
        BY <2>2, <3>2, <4>2
      <4> QED BY <4>1, <4>2
    <3>4. Bracketed(n, f.slo)
      BY <1>2, <2>4, <2>5, <2>11, <3>1, <3>2, <3>3 DEF Bracketed
    <3> QED BY <2>7, <3>4
  <2> QED BY <1>4, <2>9, <2>10, <2>11
<1> QED BY <1>5, <1>6

(* And so does the decision on it. *)
LEMMA DecidedKeeps ==
    ASSUME NEW f, {f.eighth, f.quarter, f.slo} \subseteq Nat,
           f.eighth <= f.slo, f.quarter <= f.slo,
           NEW s, DOMAIN s = DOMAIN NotStarted,
           Sound(s, f.slo), s.qps = (s.left + s.right) \div 2,
           NEW n, n = Decided(s, DelayAt(f, s.qps))
    PROVE  Sound(n, f.slo)
<1>1. PICK d : d = DelayAt(f, s.qps)
  OBVIOUS
<1>2. PICK m : m = Narrowed(s, d)
  OBVIOUS
<1>3. /\ DOMAIN m = DOMAIN NotStarted
      /\ {m.left, m.right, m.qps, m.min_over, m.huge} \subseteq Nat
      /\ m.max_qps \in Int /\ m.max_qps <= f.slo
      /\ Misled(m, f.slo) \/ Bracketed(m, f.slo)
  BY <1>1, <1>2, NarrowedKeeps
<1>4. n = [m EXCEPT !.pc = "searching", !.iteration = @ + 1]
  BY <1>1, <1>2 DEF Decided
<1>5. /\ n.pc = "searching" /\ n.left = m.left /\ n.right = m.right /\ n.qps = m.qps
      /\ n.min_over = m.min_over /\ n.max_qps = m.max_qps /\ n.huge = m.huge
  BY <1>3, <1>4, Fields
<1>6. Misled(n, f.slo) \/ Bracketed(n, f.slo)
  BY <1>3, <1>5 DEF Misled, Bracketed
<1> QED BY <1>3, <1>5, <1>6 DEF Sound

(* What is known does not depend on where the task is. *)
LEMMA SoundMoves ==
    ASSUME NEW s, NEW n, NEW c, PcMoved(s, n), Sound(s, c),
           n.pc \in {"simulating", "writing"} => s.qps = (s.left + s.right) \div 2
    PROVE  Sound(n, c)
<1>1. Misled(n, c) \/ Bracketed(n, c)
  BY DEF PcMoved, Sound, Misled, Bracketed
<1> QED BY <1>1 DEF PcMoved, Sound

(* Nor on the load that is tried next. *)
LEMMA SoundTried ==
    ASSUME NEW t, NEW s, DOMAIN s = DOMAIN NotStarted, NEW c, Sound(s, c),
           s.pc = "searching", NEW r, r = Tried(t, s)
    PROVE  Sound(r, c) /\ r.qps = (r.left + r.right) \div 2
<1>1. /\ DOMAIN r = DOMAIN NotStarted /\ r.qps = (s.left + s.right) \div 2
      /\ r.pc = s.pc /\ r.left = s.left /\ r.right = s.right
      /\ r.min_over = s.min_over /\ r.max_qps = s.max_qps /\ r.huge = s.huge
  BY TriedFacts
<1>2. s.left \in Nat /\ s.right \in Nat /\ r.qps \in Nat
  BY <1>1, MeanBetween DEF Sound
<1>3. CASE Misled(s, c)
  <2>1. Misled(r, c)
    BY <1>1, <1>3 DEF Misled
  <2> QED BY <1>1, <1>2, <2>1 DEF Sound
<1>4. CASE Bracketed(s, c)
  <2>1. s.left <= s.right
    BY <1>4 DEF Bracketed
  <2>2. r.qps <= r.right
    BY <1>1, <1>2, <2>1, MeanBetween
  <2>3. Bracketed(r, c)
    BY <1>1, <1>2, <1>4, <2>2 DEF Bracketed
  <2> QED BY <1>1, <1>2, <2>3 DEF Sound
<1> QED BY <1>3, <1>4 DEF Sound

(* The results that spoil those of a job stay.                              *)
LEMMA SpoiltStays ==
    ASSUME CoresInv, NEW t \in Searches, Spoilt(t),
           \/ files' = files
           \/ \E u \in Tasks : Work(u)
    PROVE  Spoilt(t)'
<1>1. PICK f \in files : /\ f.dir.key = Key(JobOf(t))
                         /\ f.by # JobOf(t) \/ f.state = "partial"
  BY DEF Spoilt
<1>2. CASE files' = files
  BY <1>1, <1>2 DEF Spoilt
<1>3. ASSUME NEW u \in Tasks, Work(u) PROVE Spoilt(t)'
  <2>1. PICK n : \/ RunStep(u, search[u], n)
                 \/ files' = files /\ search[u].pc \in {"breaking", "searching"}
    BY <1>3, TaskWorks
  <2>2. FilesMoved(u, search[u], n)
    BY <2>1, FilesMove
  <2>3. CASE files \subseteq files'
    BY <1>1, <2>3 DEF Spoilt
  <2>4. ASSUME NEW state \in {"whole", "partial"},
               files' = (files \ {Own(u)}) \cup {[Own(u) EXCEPT !.state = state]}
        PROVE  Spoilt(t)'
    <3>1. CASE f # Own(u)
      BY <1>1, <2>4, <3>1 DEF Spoilt
    <3>2. CASE f = Own(u)
      <4>1. PICK g : g = [Own(u) EXCEPT !.state = state]
        OBVIOUS
      <4>2. g.dir = f.dir /\ g.by = f.by /\ f.state = "writing"
        <5>1. g.dir = search[u].dir /\ g.by = JobOf(u)
          BY <4>1 DEF Own
        <5>2. f.dir = search[u].dir /\ f.by = JobOf(u) /\ f.state = "writing"
          BY <3>2, <4>1, OwnFacts
        <5> QED BY <5>1, <5>2
      <4>3. g \in files'
        BY <2>4, <4>1
      <4> QED BY <1>1, <4>2, <4>3 DEF Spoilt
    <3> QED BY <3>1, <3>2
  <2> QED BY <2>2, <2>3, <2>4 DEF FilesMoved
<1> QED BY <1>2, <1>3

(* A step of a search keeps what is known of it, unless its results are     *)
(* spoilt.                                                                  *)
LEMMA SearchStep ==
    ASSUME CoresInv, DirsInv, DirsInv', NoOthersWriting', SearchInv,
           NEW t \in Searches, Work(t), ~Spoilt(t)'
    PROVE  Sound(search'[t], profile[JobOf(t)].slo)
<1>0. /\ t \in Tasks /\ DOMAIN search = Tasks /\ DOMAIN search[t] = DOMAIN NotStarted
      /\ LooksInto(t, search[t])
  BY SearchTasks DEF CoresInv, AssignedInv, DirsInv
<1>1. PICK s : s = search[t]
  OBVIOUS
<1>2. PICK r : r = Tried(t, s)
  OBVIOUS
<1>3. PICK p : p = profile[JobOf(t)]
  OBVIOUS
<1>4. PICK n : /\ search' = [search EXCEPT ![t] = n]
               /\ profile' = profile
               /\ \/ RunStep(t, s, n)
                  \/ PcMoved(s, n) /\ n.pc = "done"
  BY <1>0, <1>1, TaskWorks
<1>5. search'[t] = n
  BY <1>0, <1>4
<1>6. /\ {p.eighth, p.quarter, p.slo} \subseteq Nat
      /\ p.eighth <= p.slo /\ p.quarter <= p.slo
  BY <1>3, SearchProfile DEF SearchInv
<1>7. Sound(s, p.slo)
  <2>1. ~Spoilt(t)
    BY <1>0, SpoiltStays
  <2> QED BY <1>1, <1>3, <2>1 DEF SearchInv
<1>8. /\ DOMAIN r = DOMAIN NotStarted
      /\ r.dir.key = Key(JobOf(t)) /\ r.dir.qps = r.qps
  BY <1>0, <1>1, <1>2, TriedFacts
<1>9. s.pc = "searching" => Sound(r, p.slo) /\ r.qps = (r.left + r.right) \div 2
  BY <1>0, <1>1, <1>2, <1>7, SoundTried
<1>10. s.pc \in {"simulating", "writing"} =>
            /\ s.dir.key = Key(JobOf(t)) /\ s.dir.qps = s.qps
            /\ s.qps = (s.left + s.right) \div 2
  BY <1>0, <1>1, <1>7 DEF LooksInto, Sound
<1>11. ASSUME NEW f \in files', f.dir.key = Key(JobOf(t)), n.pc = "searching",
              NEW q, f.dir.qps = q
       PROVE  Readings(f) = {DelayAt(p, q)}
  <2>1. f.by = JobOf(t) /\ f.state # "partial"
    BY <1>11 DEF Spoilt
  <2>2. f.state # "writing"
    BY <1>5, <1>11 DEF NoOthersWriting
  <2>3. f.state = "whole"
    BY <2>1, <2>2 DEF DirsInv, OfItsTask
  <2>4. JobOf(t) \in Range(Jobs)
    BY SearchProfile DEF SearchInv
  <2> QED BY <1>3, <1>11, <2>1, <2>3, <2>4 DEF Readings, Delay
<1>12. ASSUME NEW m, DOMAIN m = DOMAIN NotStarted, Sound(m, p.slo),
              m.qps = (m.left + m.right) \div 2,
              m.dir.key = Key(JobOf(t)), m.dir.qps = m.qps,
              NEW fs, \A f \in fs : f \in files' /\ f.dir = m.dir,
              HasRead(m, fs, n)
       PROVE  Sound(n, p.slo)
  <2>1. PICK f \in fs : \E d \in Readings(f) : n = Decided(m, d)
    BY <1>12 DEF HasRead
  <2>2. n.pc = "searching"
    BY <1>12, ReadFacts
  <2>3. f \in files' /\ f.dir.key = Key(JobOf(t)) /\ f.dir.qps = m.qps
    BY <1>12
  <2>4. Readings(f) = {DelayAt(p, m.qps)}
    BY <1>11, <2>2, <2>3
  <2>5. n = Decided(m, DelayAt(p, m.qps))
    BY <2>1, <2>4
  <2> QED BY <1>6, <1>12, <2>5, DecidedKeeps
<1>13. \/ s.pc = "searching" /\ PcMoved(r, n)
       \/ s.pc = "searching" /\ files' = files /\ HasRead(r, FilesIn(r.dir), n)
       \/ s.pc = "simulating" /\ files' = files /\ HasRead(s, FilesIn(s.dir), n)
       \/ s.pc = "simulating" /\ PcMoved(s, n)
       \/ PcMoved(s, n) /\ n.pc \notin {"simulating", "writing"}
       \/ s.pc = "writing" /\ HasRead(s, {f \in files' : f.dir = s.dir}, n)
  BY <1>2, <1>4 DEF RunStep
<1> SUFFICES Sound(n, p.slo)
  BY <1>3, <1>5
<1>14. CASE s.pc = "searching" /\ PcMoved(r, n)
  BY <1>9, <1>14, SoundMoves
<1>15. CASE s.pc = "searching" /\ files' = files /\ HasRead(r, FilesIn(r.dir), n)
  <2>1. \A f \in FilesIn(r.dir) : f \in files' /\ f.dir = r.dir
    BY <1>15 DEF FilesIn
  <2> QED BY <1>8, <1>9, <1>12, <1>15, <2>1
<1>16. CASE s.pc = "simulating" /\ files' = files /\ HasRead(s, FilesIn(s.dir), n)
  <2>1. \A f \in FilesIn(s.dir) : f \in files' /\ f.dir = s.dir
    BY <1>16 DEF FilesIn
  <2> QED BY <1>0, <1>1, <1>7, <1>10, <1>12, <1>16, <2>1
<1>17. CASE s.pc = "simulating" /\ PcMoved(s, n)
  BY <1>7, <1>10, <1>17, SoundMoves
<1>18. CASE PcMoved(s, n) /\ n.pc \notin {"simulating", "writing"}
  BY <1>7, <1>18, SoundMoves
<1>19. CASE s.pc = "writing" /\ HasRead(s, {f \in files' : f.dir = s.dir}, n)
  BY <1>0, <1>1, <1>7, <1>10, <1>12, <1>19
<1> QED BY <1>13, <1>14, <1>15, <1>16, <1>17, <1>18, <1>19

(* The bounds a search begins with bracket its capacity.                    *)
LEMMA SoundBegins ==
    ASSUME profile \in LoadProfiles, NEW t \in Searches, NEW s,
           \/ s = NotStarted
           \/ \E node, core : s = Started(t, node, core)
    PROVE  Sound(s, profile[JobOf(t)].slo)
<1>1. PICK c \in Nat : c = profile[JobOf(t)].slo /\ c < Infinity
  BY SearchProfile
<1>2. PICK q \in Nat : q = JobOf(t).trace.start_qps /\ 2 * q \in 0 .. Infinity
  BY SearchProfile
<1>3. /\ s.left = 0 /\ s.right \in {0, 2 * q} /\ s.qps = 0 /\ s.max_qps = None
      /\ s.min_over = Infinity /\ s.huge = Infinity
      /\ s.pc \notin {"simulating", "writing"}
  <2>1. CASE s = NotStarted
    BY <2>1 DEF NotStarted
  <2>2. ASSUME NEW node, NEW core, s = Started(t, node, core)
        PROVE  /\ s.left = 0 /\ s.right = 2 * q /\ s.qps = 0 /\ s.max_qps = None
               /\ s.min_over = Infinity /\ s.huge = Infinity
               /\ s.pc = "searching"
    BY <1>2, <2>2, StartedFacts, StartedBounds
  <2> QED BY <2>1, <2>2
<1>4. None \in Int /\ None <= c
  BY DEF None
<1>5. Bracketed(s, c)
  BY <1>1, <1>2, <1>3, NoLimit DEF Bracketed
<1> QED BY <1>1, <1>2, <1>3, <1>4, <1>5, NoLimit DEF Sound

(* Every step keeps what is known of the searches.                          *)
LEMMA SearchesStep ==
    ASSUME CoresInv, DirsInv, DirsInv', NoOthersWriting', SearchInv, [Next]_vars
    PROVE  SearchInv'
<1>1. /\ profile' = profile
      /\ Drive \/ UNCHANGED vars => files' = files
  <2>1. CASE Drive \/ UNCHANGED vars
    BY <2>1, DriverTouches
  <2>2. ASSUME NEW u \in Tasks, Work(u) PROVE profile' = profile
    BY <2>2, OneWorks
  <2> QED BY <2>1, <2>2 DEF Next
<1>2. ASSUME NEW t \in Searches, ~Spoilt(t)'
      PROVE  Sound(search'[t], profile[JobOf(t)].slo)
  <2>1. Sound(search[t], profile[JobOf(t)].slo)
    <3>1. ~Spoilt(t)
      BY <1>1, <1>2, SpoiltStays DEF Next
    <3> QED BY <3>1 DEF SearchInv
  <2>2. CASE Work(t)
    BY <1>2, <2>2, SearchStep
  <2>3. ASSUME NEW u \in Tasks, Work(u), u # t
        PROVE  Sound(search'[t], profile[JobOf(t)].slo)
    <3>1. search'[t] = search[t]
      BY <2>3, OneWorks, SearchTasks
    <3> QED BY <2>1, <3>1
  <2>4. CASE Drive \/ UNCHANGED vars
    <3>1. \/ search'[t] = search[t]
          \/ \E node, core : search'[t] = Started(t, node, core)
      BY <2>4, DriverTouches, SearchTasks
    <3> QED BY <2>1, <3>1, SoundBegins DEF SearchInv
  <2> QED BY <2>2, <2>3, <2>4 DEF Next
<1>3. \A t \in Searches : Spoilt(t)' \/ Sound(search'[t], profile'[JobOf(t)].slo)
  BY <1>1, <1>2
<1> QED BY <1>1, <1>3 DEF SearchInv, Sound, Misled, Bracketed

(* The bounds bracket the capacity in every state.                          *)
LEMMA SearchInvariance ==
    ASSUME KeysNameJobs
    PROVE  Spec => []SearchInv
<1>1. ASSUME Init PROVE SearchInv
  <2>1. profile \in LoadProfiles /\ \A t \in Searches : search[t] = NotStarted
    BY <1>1, SearchTasks DEF Init
  <2> QED BY <2>1, SoundBegins DEF SearchInv
<1>2. Init => SearchInv
  BY <1>1
<1>3. /\ CoresInv /\ DirsInv /\ DirsInv' /\ NoOthersWriting' /\ SearchInv
      /\ [Next]_vars
      => SearchInv'
  BY SearchesStep
<1>4. Spec => []NoOthersWriting
  BY WritesAloneInvariance
<1> QED BY <1>2, <1>3, <1>4, CoresInvariance, DirsInvariance, PTL DEF Spec

(* A difference that is large enough for the least precision is so for any. *)
LEMMA FinerScale ==
    ASSUME NEW p \in Nat, NEW d \in Nat, p >= 5
    PROVE  5 * d <= p * d
<1>1. PICK k \in Nat : p = 5 + k
  <2>1. p - 5 \in Nat /\ p = 5 + (p - 5)
    OBVIOUS
  <2> QED BY <2>1
<1>2. p * d = 5 * d + k * d /\ k * d \in Nat
  BY <1>1
<1> QED BY <1>2

(* "Perform binary search to find the maximum QPS under the SLO": when a    *)
(* granularity of at most 100 / 5 percent is asked for, whatever the first  *)
(* load, the number of iterations, and the delays at any load: a search     *)
(* whose results are its job's and complete never returns a load above the  *)
(* capacity, and one that ends with a small interval has found the capacity *)
(* up to the granularity - if no load with a huge delay was so near to the  *)
(* capacity that its half is not above it; one that breaks off with such an *)
(* interval, too.                                                           *)
THEOREM SearchIsExact ==
    Precision >= 5 /\ KeysNameJobs => (Spec => []SearchExact)
<1> SUFFICES ASSUME Precision >= 5, KeysNameJobs
             PROVE  Spec => []SearchExact
  OBVIOUS
<1>1. ASSUME SearchInv PROVE SearchExact
  <2> SUFFICES ASSUME NEW t \in Searches, NEW s, s = search[t],
                      NEW c, c = profile[JobOf(t)].slo,
                      s.pc = "done", ~Spoilt(t)
               PROVE  /\ s.max_qps <= c
                      /\ Precision * Distance(s.left, s.right) < s.qps /\ c < s.huge \div 2
                            => s.max_qps # None /\ Precision * (c - s.max_qps) < s.qps
    BY DEF SearchExact
  <2>1. Sound(s, c) /\ c \in Nat
    BY <1>1, SearchProfile DEF SearchInv
  <2>2. ASSUME Precision * Distance(s.left, s.right) < s.qps, c < s.huge \div 2
        PROVE  s.max_qps # None /\ Precision * (c - s.max_qps) < s.qps
    <3>1. Bracketed(s, c)
      <4>1. s.huge \in Nat
        BY <2>1 DEF Sound
      <4>2. s.huge \div 2 \in Nat
        BY <4>1, Halves
      <4>3. ~Misled(s, c)
        BY <2>1, <2>2, <4>2 DEF Misled
      <4> QED BY <2>1, <4>3 DEF Sound
    <3>2. PICK l \in Nat, r \in Nat, q \in Nat :
            /\ s.left = l /\ s.right = r /\ s.qps = q
            /\ l <= r /\ q <= 2 * r + 1 /\ (r = 0 => q = 0) /\ l <= c
            /\ s.max_qps = l \/ (s.max_qps = None /\ l = 0)
            /\ c <= r \/ (5 * l <= 4 * r /\ q <= r)
      BY <2>1, <3>1 DEF Sound, Bracketed
    <3>3. PICK d \in Nat : d = r - l
      BY <3>2
    <3>4. Precision \in Nat /\ Precision * d < q
      BY <2>2, <3>2, <3>3, ExplorerAssumption DEF Distance
    <3>5. 5 * d <= Precision * d /\ Precision * d \in Nat
      BY <3>4, FinerScale
    <3>6. 5 * d < q
      BY <3>2, <3>4, <3>5
    <3>7. c <= r
      BY <2>1, <3>2, <3>3, <3>6
    <3>8. l # 0
      BY <3>2, <3>3, <3>6
    <3>9. s.max_qps = l /\ l # None
      BY <3>2, <3>8 DEF None
    <3>10. PICK e \in Nat : e = c - l /\ e <= d
      BY <2>1, <3>2, <3>3, <3>7
    <3>11. Precision * e <= Precision * d
      <4>1. PICK k \in Nat : d = e + k
        <5>1. d - e \in Nat /\ d = e + (d - e)
          BY <3>10
        <5> QED BY <5>1
      <4>2. /\ Precision * d = Precision * e + Precision * k
            /\ Precision * k \in Nat /\ Precision * e \in Nat
        BY <3>4, <4>1
      <4> QED BY <4>2
    <3>12. Precision * e < q
      <4>1. Precision * e \in Nat
        BY <3>4
      <4> QED BY <3>4, <3>5, <3>11, <4>1
    <3> QED BY <3>2, <3>9, <3>10, <3>12
  <2>3. s.max_qps <= c
    BY <2>1 DEF Sound
  <2> QED BY <2>2, <2>3
<1>2. SearchInv => SearchExact
  BY <1>1
<1>3. Spec => []SearchInv
  BY SearchInvariance
<1> QED BY <1>2, <1>3, PTL
=============================================================================
