-------------------------- MODULE DpdkWorkerProofs --------------------------
(***************************************************************************)
(* Proofs about DpdkWorker, for every finite set of workers, every number   *)
(* of slots and of short job ids, and every sequence of slices.  Types hold  *)
(* always; the rest in every state before a timer of a first batch runs out  *)
(* and while the slices so far keep to a full window (Regular), whatever is  *)
(* lost, and under the assumption on the age of results that Receive has.    *)
(*                                                                          *)
(* The packets of all slices are numbered through: the position of a packet *)
(* determines its slot and its set.  The proof is about the order of the    *)
(* packets that share a slot, and what the bitmap of the slot tells of it.  *)
(***************************************************************************)
EXTENDS DpdkWorker, FiniteSetTheorems, SequenceTheorems, WellFoundedInduction, TLAPS

-----------------------------------------------------------------------------
(* Tasks *)

\* The packets of all slices, as pairs of a job and a packet id, and the position
\* of each in the order in which a worker would number them through.
Tasks == {t \in JobIds \X Nat : t[2] < Total(t[1])}

Earlier(j) == {t \in Tasks : t[1] < j}
Base(j)    == Cardinality(Earlier(j))
Pos(t)     == Base(t[1]) + t[2]

SlotOf(t) == Pos(t) % N
SetOf(t)  == (Pos(t) \div N) % 2
Bits(t)   == bitmap[SlotOf(t)][SetOf(t)]

\* u uses the slot of t before t does.
Precedes(u, t) == SlotOf(u) = SlotOf(t) /\ Pos(u) < Pos(t)

TaskOf(p) == <<p.job, p.pkt>>

-----------------------------------------------------------------------------
(* Numbers *)

LEMMA LeastNumber ==
  ASSUME NEW S \in SUBSET Nat, S # {}
  PROVE  \E n \in S : \A m \in S : n <= m
<1>1. PICK n \in S : \A m \in S : ~(<<m, n>> \in OpToRel(<, Nat))
  BY NatLessThanWellFounded, WFMin
<1>2. \A m \in S : ~(m < n)
  BY <1>1 DEF OpToRel
<1> QED BY <1>2

LEMMA SlotsCount == N \in Nat /\ N > 0
BY DpdkAssumption

LEMMA JobsCount == Len(Slices) \in Nat /\ JobIds \subseteq Nat \ {0} /\ IsFiniteSet(JobIds)
<1>1. Len(Slices) \in Nat
  BY DpdkAssumption, LenProperties
<1>2. IsFiniteSet(JobIds)
  BY <1>1, FS_Interval DEF JobIds
<1> QED BY <1>1, <1>2 DEF JobIds

LEMMA SliceShape ==
  ASSUME NEW j \in JobIds
  PROVE  /\ Slices[j].pkts \in Nat \ {0} /\ Slices[j].extra \in BOOLEAN
         /\ Batch(j) \in Nat /\ 0 < Batch(j) /\ Batch(j) <= N /\ Batch(j) <= Slices[j].pkts
         /\ Total(j) \in Nat /\ Batch(j) <= Total(j)
<1>1. Slices[j] \in [pkts : Nat \ {0}, extra : BOOLEAN]
  BY DpdkAssumption, ElementOfSeq DEF JobIds
<1>2. Slices[j].pkts \in Nat \ {0} /\ Slices[j].extra \in BOOLEAN
  BY <1>1
<1>3. Batch(j) \in Nat /\ 0 < Batch(j) /\ Batch(j) <= N /\ Batch(j) <= Slices[j].pkts
  BY <1>2, SlotsCount DEF Batch
<1>4. Total(j) \in Nat /\ Batch(j) <= Total(j)
  BY <1>2, <1>3 DEF Total
<1> QED BY <1>2, <1>3, <1>4

\* A slice that keeps to a full window has more packets than a batch only if its
\* batches are as large as the window.
LEMMA WindowIsFull ==
  ASSUME NEW j \in JobIds, FullWindow(j)
  PROVE  Batch(j) = N \/ Batch(j) = Total(j)
<1>1. CASE N <= Slices[j].pkts
  BY <1>1, SliceShape, SlotsCount DEF Batch
<1>2. CASE ~(N <= Slices[j].pkts)
  <2>1. ~Slices[j].extra
    BY <1>2, SliceShape, SlotsCount DEF FullWindow
  <2>2. Batch(j) = Slices[j].pkts
    BY <1>2, SliceShape, SlotsCount DEF Batch
  <2> QED BY <2>1, <2>2, SliceShape DEF Total
<1> QED BY <1>1, <1>2

\* The totals are bounded.
LEMMA TotalsBounded == \E m \in Nat : \A j \in JobIds : Total(j) <= m
<1> DEFINE Bounded(n) == \E m \in Nat : \A j \in 1 .. n : Total(j) <= m
           Bad        == {n \in 0 .. Len(Slices) : ~Bounded(n)}
<1>1. Bad = {}
  <2> SUFFICES ASSUME Bad # {} PROVE FALSE
    OBVIOUS
  <2>1. Bad \in SUBSET Nat
    BY JobsCount
  <2>2. PICK n \in Bad : \A l \in Bad : n <= l
    BY <2>1, LeastNumber
  <2>3. n \in Nat /\ n <= Len(Slices) /\ ~Bounded(n)
    BY <2>2, JobsCount
  <2>4. n # 0
    <3>1. \A j \in 1 .. 0 : Total(j) <= 0
      OBVIOUS
    <3> QED BY <2>3, <3>1
  <2>5. n - 1 \in 0 .. Len(Slices) /\ ~(n <= n - 1)
    BY <2>3, <2>4, JobsCount
  <2>6. n - 1 \notin Bad
    BY <2>2, <2>5
  <2>7. PICK m \in Nat : \A j \in 1 .. n - 1 : Total(j) <= m
    BY <2>5, <2>6
  <2>8. n \in JobIds
    BY <2>3, <2>4, JobsCount DEF JobIds
  <2>9. Total(n) \in Nat
    BY <2>8, SliceShape
  <2>10. ASSUME NEW j \in 1 .. n PROVE Total(j) <= m + Total(n)
    <3>1. CASE j = n
      BY <2>9, <3>1
    <3>2. CASE j # n
      <4>1. j \in 1 .. n - 1 /\ j \in JobIds
        BY <2>3, <3>2, JobsCount DEF JobIds
      <4>2. Total(j) <= m
        BY <2>7, <4>1
      <4>3. Total(j) \in Nat
        BY <4>1, SliceShape
      <4> HIDE DEF Bad, Bounded
      <4> QED BY <2>9, <4>2, <4>3
    <3> QED BY <3>1, <3>2
  <2>11. m + Total(n) \in Nat
    <3> HIDE DEF Bad, Bounded
    <3> QED BY <2>9
  <2>12. Bounded(n)
    <3> HIDE DEF Bad
    <3>1. \A j \in 1 .. n : Total(j) <= m + Total(n)
      BY <2>10
    <3> QED BY <2>11, <3>1
  <2> QED BY <2>3, <2>12
<1>2. Len(Slices) \in 0 .. Len(Slices)
  BY JobsCount
<1>3. Bounded(Len(Slices))
  BY <1>1, <1>2
<1> QED BY <1>3 DEF JobIds

\* Every packet id of a slice, and its total, is a packet id.
LEMMA PktIdsType ==
  /\ JobIds # {} => IsFiniteSet(PktIds)
  /\ \A j \in JobIds : \A k \in Nat : k <= Total(j) => k \in PktIds
  /\ JobIds # {} => PktIds \subseteq Nat
<1> SUFFICES ASSUME JobIds # {}
             PROVE  /\ IsFiniteSet(PktIds) /\ PktIds \subseteq Nat
                    /\ \A j \in JobIds : \A k \in Nat : k <= Total(j) => k \in PktIds
  OBVIOUS
<1> DEFINE S      == {Total(j) : j \in JobIds}
           Bounds == {m \in Nat : \A j \in JobIds : Total(j) <= m}
<1>1. Bounds # {} /\ Bounds \in SUBSET Nat
  BY TotalsBounded
<1>2. PICK m \in Bounds : \A l \in Bounds : m <= l
  BY <1>1, LeastNumber
<1>3. m \in Nat /\ \A j \in JobIds : Total(j) \in Nat /\ Total(j) <= m
  BY <1>2, SliceShape
<1>4. \E j \in JobIds : Total(j) = m
  <2> SUFFICES ASSUME \A j \in JobIds : Total(j) # m PROVE FALSE
    OBVIOUS
  <2>1. \A j \in JobIds : Total(j) <= m - 1
    BY <1>3
  <2>2. m - 1 \in Nat
    BY <1>3, <2>1
  <2>3. m - 1 \in Bounds
    BY <2>1, <2>2
  <2> QED BY <1>2, <1>3, <2>3
<1>5. m \in S /\ \A x \in S : m >= x
  BY <1>3, <1>4
<1> HIDE DEF S, Bounds
<1>6. Max(S) \in S /\ \A x \in S : Max(S) >= x
  BY <1>5 DEF Max
<1>7. Max(S) \in Nat
  BY <1>3, <1>6 DEF S
<1>8. PktIds = 0 .. Max(S)
  BY DEF PktIds, S
<1>9. \A j \in JobIds : Total(j) <= Max(S)
  BY <1>3, <1>6, <1>7 DEF S
<1>10. IsFiniteSet(PktIds)
  BY <1>7, <1>8, FS_Interval
<1> QED BY <1>3, <1>7, <1>8, <1>9, <1>10

LEMMA TasksType ==
  /\ IsFiniteSet(Tasks)
  /\ \A t \in Tasks : /\ t[1] \in JobIds /\ t[1] \in Nat /\ t[2] \in Nat /\ t[2] < Total(t[1])
                      /\ t[2] \in PktIds /\ t = <<t[1], t[2]>>
  /\ \A j \in JobIds : \A k \in Nat : k < Total(j) => <<j, k>> \in Tasks
<1>1. ASSUME NEW t \in Tasks
      PROVE  /\ t[1] \in JobIds /\ t[1] \in Nat /\ t[2] \in Nat /\ t[2] < Total(t[1])
             /\ t = <<t[1], t[2]>>
  <2>1. t \in JobIds \X Nat /\ t[2] < Total(t[1])
    BY DEF Tasks
  <2>2. PICK j \in JobIds, k \in Nat : t = <<j, k>>
    BY <2>1
  <2> QED BY <2>1, <2>2, JobsCount
<1>2. ASSUME NEW t \in Tasks PROVE t[2] \in PktIds
  <2>1. t[2] <= Total(t[1])
    BY <1>1, SliceShape
  <2> QED BY <1>1, <2>1, PktIdsType
<1>3. IsFiniteSet(Tasks)
  <2>1. CASE JobIds = {}
    BY <1>1, <2>1, FS_EmptySet
  <2>2. CASE JobIds # {}
    <3>1. IsFiniteSet(JobIds \X PktIds)
      BY <2>2, JobsCount, PktIdsType, FS_Product
    <3>2. Tasks \in SUBSET (JobIds \X PktIds)
      BY <1>1, <1>2
    <3> QED BY <3>1, <3>2, FS_Subset
  <2> QED BY <2>1, <2>2
<1>4. \A j \in JobIds : \A k \in Nat : k < Total(j) => <<j, k>> \in Tasks
  BY DEF Tasks
<1> QED BY <1>1, <1>2, <1>3, <1>4

-----------------------------------------------------------------------------
(* Positions *)

LEMMA BaseType ==
  /\ \A j \in Nat : Base(j) \in Nat
  /\ Base(1) = 0
<1>1. \A j \in Nat : IsFiniteSet(Earlier(j))
  BY TasksType, FS_Subset DEF Earlier
<1>2. Earlier(1) = {}
  BY TasksType, JobsCount DEF Earlier
<1> QED BY <1>1, <1>2, FS_CardinalityType, FS_EmptySet DEF Base

\* A slice takes up its total.
LEMMA BaseStep ==
  ASSUME NEW j \in JobIds
  PROVE  Base(j + 1) = Base(j) + Total(j)
<1> DEFINE Own == {j} \X (0 .. Total(j) - 1)
<1>1. Earlier(j + 1) = Earlier(j) \cup Own
  <2>1. ASSUME NEW t \in Earlier(j + 1) PROVE t \in Earlier(j) \cup Own
    <3>1. t \in Tasks /\ t[1] < j + 1 /\ j \in Nat
      BY JobsCount DEF Earlier
    <3>2. CASE t[1] < j
      BY <3>1, <3>2 DEF Earlier
    <3>3. CASE ~(t[1] < j)
      <4>1. t[1] = j
        BY <3>1, <3>3, TasksType
      <4>2. t[2] \in 0 .. Total(j) - 1
        BY <3>1, <4>1, TasksType, SliceShape
      <4> QED BY <3>1, <4>1, <4>2, TasksType
    <3> QED BY <3>2, <3>3
  <2>2. ASSUME NEW t \in Earlier(j) PROVE t \in Earlier(j + 1)
    BY JobsCount, TasksType DEF Earlier
  <2>3. ASSUME NEW t \in Own PROVE t \in Earlier(j + 1)
    <3>1. t = <<t[1], t[2]>> /\ t[1] = j /\ t[2] \in Nat /\ t[2] < Total(j)
      BY SliceShape
    <3>2. t \in Tasks
      BY <3>1, TasksType
    <3> QED BY <3>1, <3>2, JobsCount DEF Earlier
  <2> QED BY <2>1, <2>2, <2>3
<1>2. Earlier(j) \cap Own = {}
  BY JobsCount DEF Earlier
<1>3. IsFiniteSet(Earlier(j))
  BY TasksType, FS_Subset DEF Earlier
<1>4. IsFiniteSet(Own) /\ Cardinality(Own) = Total(j)
  <2>1. IsFiniteSet({j}) /\ Cardinality({j}) = 1
    BY FS_Singleton
  <2>2. IsFiniteSet(0 .. Total(j) - 1) /\ Cardinality(0 .. Total(j) - 1) = Total(j)
    <3>1. Total(j) \in Nat
      BY SliceShape
    <3>2. 0 \in Int /\ Total(j) - 1 \in Int
      BY <3>1
    <3>3. /\ IsFiniteSet(0 .. Total(j) - 1)
          /\ Cardinality(0 .. Total(j) - 1)
               = IF 0 > Total(j) - 1 THEN 0 ELSE (Total(j) - 1) - 0 + 1
      BY <3>2, FS_Interval
    <3> QED BY <3>1, <3>3
  <2>3. /\ IsFiniteSet(Own)
        /\ Cardinality(Own) = Cardinality({j}) * Cardinality(0 .. Total(j) - 1)
    BY <2>1, <2>2, FS_Product
  <2> QED BY <2>1, <2>2, <2>3, SliceShape
<1> HIDE DEF Own
<1>5. Cardinality(Earlier(j) \cup Own)
        = Cardinality(Earlier(j)) + Cardinality(Own) - Cardinality(Earlier(j) \cap Own)
  BY <1>3, <1>4, FS_Union
<1>6. Cardinality(Earlier(j) \cap Own) = 0
  BY <1>2, FS_EmptySet
<1>7. Cardinality(Earlier(j)) \in Nat
  BY <1>3, FS_CardinalityType
<1>8. Total(j) \in Nat
  BY SliceShape
<1>9. Cardinality(Earlier(j) \cup Own) = Cardinality(Earlier(j)) + Total(j)
  BY <1>4, <1>5, <1>6, <1>7, <1>8
<1> QED BY <1>1, <1>9 DEF Base

LEMMA BaseGrows ==
  ASSUME NEW i \in Nat, NEW j \in Nat, i <= j
  PROVE  Base(i) <= Base(j)
<1>1. IsFiniteSet(Earlier(j))
  BY TasksType, FS_Subset DEF Earlier
<1>2. Earlier(i) \in SUBSET Earlier(j)
  BY TasksType DEF Earlier
<1> QED BY <1>1, <1>2, FS_Subset DEF Base

LEMMA PosType ==
  ASSUME NEW t \in Tasks
  PROVE  /\ Pos(t) \in Nat /\ Base(t[1]) <= Pos(t) /\ Pos(t) < Base(t[1] + 1)
         /\ Base(t[1] + 1) \in Nat /\ Base(t[1]) \in Nat
<1>1. t[1] \in JobIds /\ t[1] \in Nat /\ t[1] + 1 \in Nat
  BY TasksType
<1>2. Base(t[1]) \in Nat /\ Base(t[1] + 1) = Base(t[1]) + Total(t[1]) /\ Base(t[1] + 1) \in Nat
  BY <1>1, BaseType, BaseStep
<1>3. t[2] \in Nat /\ Total(t[1]) \in Nat /\ t[2] < Total(t[1])
  BY TasksType, SliceShape
<1> QED BY <1>2, <1>3 DEF Pos

\* Positions are in the order of the jobs, and of the packets of a job.
LEMMA PosOrder ==
  ASSUME NEW u \in Tasks, NEW t \in Tasks
  PROVE  /\ u[1] < t[1] => Pos(u) < Pos(t)
         /\ Pos(u) < Pos(t) => u[1] < t[1] \/ (u[1] = t[1] /\ u[2] < t[2])
         /\ Pos(u) = Pos(t) => u = t
<1>1. /\ t[1] \in Nat /\ u[1] \in Nat /\ t[2] \in Nat /\ u[2] \in Nat
      /\ t = <<t[1], t[2]>> /\ u = <<u[1], u[2]>>
  BY TasksType
<1>2. /\ Pos(t) \in Nat /\ Base(t[1]) <= Pos(t) /\ Pos(t) < Base(t[1] + 1)
      /\ Pos(u) \in Nat /\ Base(u[1]) <= Pos(u) /\ Pos(u) < Base(u[1] + 1)
      /\ Base(t[1]) \in Nat /\ Base(t[1] + 1) \in Nat /\ Base(u[1]) \in Nat /\ Base(u[1] + 1) \in Nat
  BY PosType
<1>3. u[1] < t[1] => Pos(u) < Pos(t)
  <2> SUFFICES ASSUME u[1] < t[1] PROVE Pos(u) < Pos(t)
    OBVIOUS
  <2>1. u[1] + 1 \in Nat /\ u[1] + 1 <= t[1]
    BY <1>1
  <2>2. Base(u[1] + 1) <= Base(t[1])
    BY <1>1, <2>1, BaseGrows
  <2> QED BY <1>2, <2>2
<1>4. t[1] < u[1] => Pos(t) < Pos(u)
  <2> SUFFICES ASSUME t[1] < u[1] PROVE Pos(t) < Pos(u)
    OBVIOUS
  <2>1. t[1] + 1 \in Nat /\ t[1] + 1 <= u[1]
    BY <1>1
  <2>2. Base(t[1] + 1) <= Base(u[1])
    BY <1>1, <2>1, BaseGrows
  <2> QED BY <1>2, <2>2
<1>5. u[1] = t[1] => Pos(u) - u[2] = Pos(t) - t[2]
  BY <1>1, <1>2 DEF Pos
<1> QED BY <1>1, <1>2, <1>3, <1>4, <1>5

\* No position is left out.
LEMMA PosOnto ==
  ASSUME NEW j \in JobIds, NEW p \in Nat, p < Base(j + 1)
  PROVE  \E t \in Tasks : Pos(t) = p /\ t[1] <= j
<1> DEFINE S == {i \in JobIds : p < Base(i + 1)}
<1>1. S # {} /\ S \in SUBSET Nat
  BY JobsCount
<1>2. PICK i \in S : \A l \in S : i <= l
  BY <1>1, LeastNumber
<1>3. i \in JobIds /\ i \in Nat /\ i > 0 /\ p < Base(i + 1) /\ i <= j /\ Base(i) \in Nat
  BY <1>2, JobsCount, BaseType
<1>4. Base(i) <= p
  <2>1. CASE i = 1
    BY <2>1, BaseType
  <2>2. CASE i # 1
    <3>1. i - 1 \in JobIds /\ (i - 1) + 1 = i
      BY <1>3, <2>2, JobsCount DEF JobIds
    <3>2. ~(i <= i - 1)
      BY <1>3
    <3>3. ~(p < Base(i))
      BY <1>2, <3>1, <3>2
    <3> QED BY <1>3, <3>3
  <2> QED BY <2>1, <2>2
<1>5. p - Base(i) \in Nat /\ p - Base(i) < Total(i)
  BY <1>3, <1>4, BaseStep, SliceShape
<1>6. <<i, p - Base(i)>> \in Tasks
  BY <1>3, <1>5, TasksType
<1>7. Pos(<<i, p - Base(i)>>) = p
  BY <1>3 DEF Pos
<1> QED BY <1>3, <1>6, <1>7

-----------------------------------------------------------------------------
(* Slots and sets *)

LEMMA Division ==
  ASSUME NEW n \in Nat, NEW k \in Nat, k > 0
  PROVE  n = (n \div k) * k + (n % k) /\ n % k \in Nat /\ n % k < k /\ n \div k \in Nat
<1>1. n % k \in Nat /\ n % k < k
  OBVIOUS
<1>2. n \div k \in Nat
  OBVIOUS
<1>3. n = (n \div k) * k + (n % k)
  OBVIOUS
<1> QED BY <1>1, <1>2, <1>3

LEMMA Multiples ==
  ASSUME NEW a \in Nat, NEW b \in Nat, NEW k \in Nat
  PROVE  /\ a * k \in Nat /\ (a + 1) * k = a * k + k /\ (a + b) * k = a * k + b * k
         /\ (2 * a) * k = a * (2 * k)
         /\ a < b => a * k + k <= b * k
<1>1. a * k \in Nat /\ b * k \in Nat
  OBVIOUS
<1>2. (a + 1) * k = a * k + k /\ (a + b) * k = a * k + b * k
  OBVIOUS
<1>3. a < b => a * k + k <= b * k
  <2> SUFFICES ASSUME a < b PROVE a * k + k <= b * k
    OBVIOUS
  <2>1. b * k = a * k + (b - a) * k
    OBVIOUS
  <2>2. (b - a) * k >= k
    OBVIOUS
  <2> QED BY <1>1, <2>1, <2>2
<1>4. (2 * a) * k = a * (2 * k)
  OBVIOUS
<1> QED BY <1>1, <1>2, <1>3, <1>4

\* Quotient and remainder are unique.
LEMMA DivisionUnique ==
  ASSUME NEW k \in Nat, k > 0, NEW a \in Nat, NEW r \in Nat, r < k, NEW n \in Nat, n = a * k + r
  PROVE  n \div k = a /\ n % k = r
<1> DEFINE b == n \div k
           q == n % k
<1>1. b \in Nat /\ q \in Nat /\ q < k /\ n = b * k + q
  BY Division
<1> HIDE DEF b, q
<1>2. /\ a * k \in Nat /\ b * k \in Nat
      /\ a < b => a * k + k <= b * k
      /\ b < a => b * k + k <= a * k
  BY <1>1, Multiples
<1>3. ~(a < b) /\ ~(b < a)
  BY <1>1, <1>2
<1>4. a = b
  BY <1>1, <1>3
<1>5. q = r
  BY <1>1, <1>2, <1>4
<1> QED BY <1>4, <1>5 DEF b, q

\* Positions that share a slot are a window apart, or two if they share the set.
LEMMA SlotDistance ==
  ASSUME NEW p \in Nat, NEW q \in Nat, p < q, p % N = q % N
  PROVE  /\ p + N <= q
         /\ (p \div N) % 2 = (q \div N) % 2 => p + 2 * N <= q
<1> DEFINE a == p \div N
           b == q \div N
           r == p % N
<1>1. a \in Nat /\ b \in Nat /\ r \in Nat /\ p = a * N + r /\ q = b * N + r
  BY SlotsCount, Division
<1> HIDE DEF a, b, r
<1>2. /\ a * N \in Nat /\ b * N \in Nat /\ (a + 1) * N = a * N + N
      /\ a < b => a * N + N <= b * N
      /\ b < a => b * N + N <= a * N
      /\ a + 1 < b => (a + 1) * N + N <= b * N
  BY <1>1, Multiples, SlotsCount
<1>3. a < b
  BY <1>1, <1>2, SlotsCount
<1>4. p + N <= q
  BY <1>1, <1>2, <1>3, SlotsCount
<1>5. a % 2 = b % 2 => a + 1 < b
  BY <1>1, <1>3
<1>6. a % 2 = b % 2 => p + 2 * N <= q
  BY <1>1, <1>2, <1>5, SlotsCount
<1> QED BY <1>4, <1>6 DEF a, b

\* A window later the slot is the same and the set is the other one.
LEMMA NextWindow ==
  ASSUME NEW p \in Nat
  PROVE  (p + N) % N = p % N /\ ((p + N) \div N) % 2 # (p \div N) % 2
<1> DEFINE a == p \div N
           r == p % N
<1>1. a \in Nat /\ r \in Nat /\ r < N /\ p = a * N + r
  BY SlotsCount, Division
<1> HIDE DEF a, r
<1>2. a * N \in Nat /\ (a + 1) * N = a * N + N
  BY <1>1, Multiples, SlotsCount
<1>3. p + N = (a + 1) * N + r /\ a + 1 \in Nat /\ p + N \in Nat
  BY <1>1, <1>2, SlotsCount
<1>4. (p + N) \div N = a + 1 /\ (p + N) % N = r
  BY <1>1, <1>3, SlotsCount, DivisionUnique
<1>5. (a + 1) % 2 # a % 2
  BY <1>1
<1> QED BY <1>4, <1>5 DEF a, r

\* PktId2PoolIndex, with a shift that follows from the number of packets before.
LEMMA PoolIndexOfPosition ==
  ASSUME NEW base \in Nat, NEW k \in Nat
  PROVE  PktId2PoolIndex(k, base % (2 * N))
           = [slot |-> (base + k) % N, set |-> ((base + k) \div N) % 2]
<1> DEFINE b == base \div (2 * N)
           s == base % (2 * N)
           c == (k + s) \div (2 * N)
           i == (k + s) % (2 * N)
           d == i \div N
           r == i % N
<1>1. 2 * N \in Nat /\ 2 * N > 0
  BY SlotsCount
<1>2. b \in Nat /\ s \in Nat /\ base = b * (2 * N) + s
  BY <1>1, Division
<1>3. c \in Nat /\ i \in Nat /\ i < 2 * N /\ k + s = c * (2 * N) + i
  <2>1. k + s \in Nat
    BY <1>2
  <2> HIDE DEF s
  <2> QED BY <1>1, <2>1, Division
<1>4. d \in Nat /\ r \in Nat /\ r < N /\ i = d * N + r
  <2> HIDE DEF i
  <2> QED BY <1>3, SlotsCount, Division
<1>5. PktId2PoolIndex(k, base % (2 * N)) = [slot |-> r, set |-> d]
  BY DEF PktId2PoolIndex
<1> HIDE DEF b, s, c, i, d, r
<1>6. b + c \in Nat /\ 2 * (b + c) \in Nat /\ 2 * (b + c) + d \in Nat
  BY <1>2, <1>3, <1>4
<1>7. base + k = (2 * (b + c) + d) * N + r
  <2>1. b * (2 * N) + c * (2 * N) = (b + c) * (2 * N)
    BY <1>1, <1>2, <1>3, Multiples
  <2>2. (2 * (b + c)) * N = (b + c) * (2 * N)
    BY <1>6, Multiples, SlotsCount
  <2>3. (2 * (b + c) + d) * N = (2 * (b + c)) * N + d * N
    BY <1>4, <1>6, Multiples, SlotsCount
  <2>4. b * (2 * N) \in Nat /\ c * (2 * N) \in Nat /\ d * N \in Nat
    BY <1>1, <1>2, <1>3, <1>4, SlotsCount, Multiples
  <2> QED BY <1>2, <1>3, <1>4, <2>1, <2>2, <2>3, <2>4
<1>8. (base + k) \div N = 2 * (b + c) + d /\ (base + k) % N = r
  BY <1>4, <1>6, <1>7, SlotsCount, DivisionUnique
<1>9. d = 0 \/ d = 1
  <2>1. 2 <= d => 2 * N <= d * N
    <3> SUFFICES ASSUME 2 <= d PROVE 2 * N <= d * N
      OBVIOUS
    <3>1. 1 < d
      BY <1>4
    <3>2. 1 * N + N <= d * N
      BY <1>4, <3>1, Multiples, SlotsCount
    <3> QED BY <3>2, SlotsCount
  <2>2. d * N \in Nat
    BY <1>4, Multiples, SlotsCount
  <2> QED BY <1>3, <1>4, <2>1, <2>2, SlotsCount
<1>10. (2 * (b + c) + d) % 2 = d
  BY <1>6, <1>9
<1> QED BY <1>5, <1>8, <1>10

-----------------------------------------------------------------------------
(* The order of the packets of a slot *)

LEMMA SlotsType ==
  ASSUME NEW t \in Tasks
  PROVE  SlotOf(t) \in Slots /\ SetOf(t) \in Sets
<1>1. Pos(t) \in Nat
  BY PosType
<1>2. Pos(t) % N \in Nat /\ Pos(t) % N < N /\ Pos(t) \div N \in Nat
  BY <1>1, SlotsCount, Division
<1> QED BY <1>2, SlotsCount DEF SlotOf, SetOf, Slots, Sets

LEMMA SlotOrder ==
  /\ \A t \in Tasks : ~Precedes(t, t)
  /\ \A t, u \in Tasks : Precedes(u, t) => ~Precedes(t, u) /\ u # t /\ SlotOf(u) = SlotOf(t)
  /\ \A t, u, v \in Tasks : Precedes(t, u) /\ Precedes(u, v) => Precedes(t, v)
  /\ \A t, u \in Tasks : SlotOf(t) = SlotOf(u) => t = u \/ Precedes(t, u) \/ Precedes(u, t)
<1>1. \A t \in Tasks : Pos(t) \in Nat
  BY PosType
<1>2. \A t, u \in Tasks : Pos(t) = Pos(u) => t = u
  BY PosOrder
<1> QED BY <1>1, <1>2 DEF Precedes

\* A slot takes the packets of one slice after those of the last, and in the order
\* of their ids, a window apart.
LEMMA SlotOrderFollowsJobs ==
  ASSUME NEW u \in Tasks, NEW t \in Tasks, Precedes(u, t)
  PROVE  u[1] < t[1] \/ (u[1] = t[1] /\ u[2] + N <= t[2])
<1>1. /\ Pos(u) \in Nat /\ Pos(t) \in Nat /\ Pos(u) < Pos(t)
      /\ Pos(u) % N = Pos(t) % N
  BY PosType DEF Precedes, SlotOf
<1>2. Pos(u) + N <= Pos(t)
  BY <1>1, SlotDistance
<1>3. u[1] < t[1] \/ u[1] = t[1]
  BY <1>1, PosOrder
<1>4. u[1] = t[1] => u[2] + N <= t[2]
  <2>1. Base(t[1]) \in Nat /\ u[2] \in Nat /\ t[2] \in Nat
    BY PosType, TasksType
  <2> QED BY <1>2, <2>1, SlotsCount DEF Pos
<1> QED BY <1>3, <1>4

\* The packet that used the slot before is in the other set.
LEMMA Predecessor ==
  ASSUME NEW t \in Tasks, NEW u \in Tasks, Precedes(u, t)
  PROVE  \E p \in Tasks :
           /\ Precedes(p, t) /\ SetOf(p) # SetOf(t)
           /\ \A v \in Tasks : Precedes(v, t) => v = p \/ Precedes(v, p)
<1>1. /\ Pos(u) \in Nat /\ Pos(t) \in Nat /\ Pos(u) < Pos(t) /\ Pos(u) % N = Pos(t) % N
      /\ Pos(t) < Base(t[1] + 1) /\ Base(t[1] + 1) \in Nat /\ t[1] \in JobIds
  BY PosType, TasksType DEF Precedes, SlotOf
<1>2. Pos(u) + N <= Pos(t)
  BY <1>1, SlotDistance
<1> DEFINE q == Pos(t) - N
<1>3. q \in Nat /\ q + N = Pos(t) /\ q < Pos(t) /\ q < Base(t[1] + 1)
  BY <1>1, <1>2, SlotsCount
<1> HIDE DEF q
<1>4. PICK p \in Tasks : Pos(p) = q
  BY <1>1, <1>3, PosOnto
<1>5. Pos(t) % N = q % N /\ (Pos(t) \div N) % 2 # (q \div N) % 2
  BY <1>3, NextWindow
<1>6. Precedes(p, t) /\ SetOf(p) # SetOf(t)
  BY <1>3, <1>4, <1>5 DEF Precedes, SlotOf, SetOf
<1>7. ASSUME NEW v \in Tasks, Precedes(v, t) PROVE v = p \/ Precedes(v, p)
  <2>1. Pos(v) \in Nat /\ Pos(v) < Pos(t) /\ Pos(v) % N = Pos(t) % N
    BY <1>7, PosType DEF Precedes, SlotOf
  <2>2. Pos(v) + N <= Pos(t)
    BY <1>1, <2>1, SlotDistance
  <2>3. Pos(v) <= Pos(p)
    BY <1>3, <1>4, <2>1, <2>2, SlotsCount
  <2>4. Pos(v) = Pos(p) => v = p
    BY PosOrder
  <2>5. Pos(v) < Pos(p) => Precedes(v, p)
    BY <1>4, <1>5, <2>1 DEF Precedes, SlotOf
  <2> QED BY <1>3, <1>4, <2>1, <2>3, <2>4, <2>5
<1> QED BY <1>6, <1>7

\* The next packet of a slice in a slot is a window later, and follows at once.
LEMMA Successor ==
  ASSUME NEW t \in Tasks, NEW u \in Tasks, u[1] = t[1], u[2] = t[2] + N
  PROVE  /\ Precedes(t, u)
         /\ \A v \in Tasks : Precedes(v, u) => v = t \/ Precedes(v, t)
<1>1. Pos(t) \in Nat /\ Pos(u) = Pos(t) + N /\ Pos(u) \in Nat
  <2>1. Base(t[1]) \in Nat /\ t[2] \in Nat
    BY PosType, TasksType
  <2> QED BY <2>1, SlotsCount DEF Pos
<1>2. Pos(u) % N = Pos(t) % N
  BY <1>1, NextWindow
<1>3. Precedes(t, u)
  BY <1>1, <1>2, SlotsCount DEF Precedes, SlotOf
<1>4. ASSUME NEW v \in Tasks, Precedes(v, u) PROVE v = t \/ Precedes(v, t)
  <2>1. Pos(v) \in Nat /\ Pos(v) < Pos(u) /\ Pos(v) % N = Pos(u) % N
    BY <1>4, PosType DEF Precedes, SlotOf
  <2>2. Pos(v) + N <= Pos(u)
    BY <1>1, <2>1, SlotDistance
  <2>3. Pos(v) = Pos(t) => v = t
    BY PosOrder
  <2>4. Pos(v) < Pos(t) => Precedes(v, t)
    BY <1>2, <2>1 DEF Precedes, SlotOf
  <2> QED BY <1>1, <2>1, <2>2, <2>3, <2>4, SlotsCount
<1> QED BY <1>3, <1>4

\* The pool index of a packet, as a thread computes it.
LEMMA PoolIndexOfTask ==
  ASSUME NEW t \in Tasks
  PROVE  /\ PktId2PoolIndex(t[2], Base(t[1]) % (2 * N)) = [slot |-> SlotOf(t), set |-> SetOf(t)]
         /\ [slot |-> SlotOf(t), set |-> SetOf(t)] \in Pool
<1>1. Base(t[1]) \in Nat /\ t[2] \in Nat
  BY PosType, TasksType
<1>2. PktId2PoolIndex(t[2], Base(t[1]) % (2 * N))
        = [slot |-> (Base(t[1]) + t[2]) % N, set |-> ((Base(t[1]) + t[2]) \div N) % 2]
  BY <1>1, PoolIndexOfPosition
<1>3. [slot |-> SlotOf(t), set |-> SetOf(t)] \in Pool
  BY SlotsType DEF Pool
<1> QED BY <1>2, <1>3 DEF SlotOf, SetOf, Pos

-----------------------------------------------------------------------------
(* Types, in every state: also after a timer of a first batch has run out *)

LEMMA WorkersCount == NumWorkers \in Nat \ {0}
BY WorkersAssumption, FS_CardinalityType, FS_EmptySet DEF NumWorkers

LEMMA UnitType ==
  /\ Zero \in [Contribs -> Nat]
  /\ \A d \in Contribs : Unit(d) = [c \in Contribs |-> IF c = d THEN 1 ELSE 0]
  /\ \A d \in Contribs : Unit(d) \in [Contribs -> Nat]
<1>1. Zero \in [Contribs -> Nat]
  BY DEF Zero
<1>2. ASSUME NEW d \in Contribs PROVE Unit(d) = [c \in Contribs |-> IF c = d THEN 1 ELSE 0]
  BY DEF Unit, Zero
<1> QED BY <1>1, <1>2

LEMMA ContribsType ==
  /\ \A w \in Workers, t \in Tasks : <<w, t[1], t[2]>> \in Contribs
  /\ \A w \in Workers, j \in JobIds, k \in PktIds : <<w, j, k>> \in Contribs
  /\ \A c \in Contribs : c[1] \in Workers /\ c = <<c[1], c[2], c[3]>>
BY TasksType DEF Contribs

LEMMA ShortIdType ==
  /\ ShortIds \in Nat /\ ShortIds > 0
  /\ \A j \in Nat : ShortId(j) \in 0 .. ShortIds - 1
<1>1. ShortIds \in Nat /\ ShortIds > 0
  BY DpdkAssumption
<1>2. ASSUME NEW j \in Nat PROVE ShortId(j) \in 0 .. ShortIds - 1
  <2>1. j % ShortIds \in Nat /\ j % ShortIds < ShortIds
    BY <1>1, Division
  <2> QED BY <1>1, <2>1 DEF ShortId
<1> QED BY <1>1, <1>2

\* Job ids with the same short id are apart by the number of short ids at least.
LEMMA ShortIdsApart ==
  ASSUME NEW i \in Nat, NEW j \in Nat, ShortId(i) = ShortId(j), i <= j, j < i + ShortIds
  PROVE  i = j
<1> DEFINE a == i \div ShortIds
           b == j \div ShortIds
           r == i % ShortIds
<1>1. ShortIds \in Nat /\ ShortIds > 0
  BY DpdkAssumption
<1>2. a \in Nat /\ b \in Nat /\ r \in Nat /\ i = a * ShortIds + r /\ j = b * ShortIds + r
  BY <1>1, Division DEF ShortId
<1> HIDE DEF a, b, r
<1>3. /\ a * ShortIds \in Nat /\ b * ShortIds \in Nat
      /\ a < b => a * ShortIds + ShortIds <= b * ShortIds
      /\ b < a => b * ShortIds + ShortIds <= a * ShortIds
  BY <1>1, <1>2, Multiples
<1>4. ~(a < b) /\ ~(b < a)
  BY <1>1, <1>2, <1>3
<1>5. a = b
  BY <1>2, <1>4
<1> QED BY <1>2, <1>5

LEMMA PoolType ==
  ASSUME NEW k \in Nat, NEW s \in Nat
  PROVE  PktId2PoolIndex(k, s) \in Pool
<1> DEFINE i == (k + s) % (2 * N)
<1>1. 2 * N \in Nat /\ 2 * N > 0 /\ k + s \in Nat
  BY SlotsCount
<1>2. i \in Nat /\ i < 2 * N
  BY <1>1, Division
<1>3. PktId2PoolIndex(k, s) = [slot |-> i % N, set |-> i \div N]
  BY DEF PktId2PoolIndex
<1> HIDE DEF i
<1>4. i % N \in Nat /\ i % N < N /\ i \div N \in Nat /\ i = (i \div N) * N + (i % N)
  BY <1>2, SlotsCount, Division
<1>5. i \div N = 0 \/ i \div N = 1
  <2>1. PICK d \in Nat : d = i \div N
    BY <1>4
  <2>2. 1 < d => 1 * N + N <= d * N
    BY Multiples, SlotsCount
  <2>3. d * N \in Nat
    BY Multiples, SlotsCount
  <2>4. PICK r \in Nat : r = i % N
    BY <1>4
  <2>5. i = d * N + r
    BY <1>4, <2>1, <2>4
  <2>6. ~(1 < d)
    BY <1>2, <2>2, <2>3, <2>5, SlotsCount
  <2> QED BY <2>1, <2>6
<1> QED BY <1>3, <1>4, <1>5, SlotsCount DEF Pool, Slots, Sets

\* A thread in the receive loop has a slice, and a timer that is armed has arguments.
TypeInv ==
  /\ TypeOK
  /\ \A w \in Workers : running[w] => job[w] \in JobIds
  /\ \A w \in Workers, i \in Slots : timers[w][i] => args[w][i] \in Args

\* Shapes, for use without the rest of the type invariant.
LEMMA Ranges ==
  ASSUME TypeOK
  PROVE  /\ job \in [Workers -> Nat]
         /\ \A w \in Workers : job[w] \in Nat /\ up[w] \in Seq(Packet)
BY JobsCount DEF TypeOK

LEMMA InitType == Init => TypeInv
<1> SUFFICES ASSUME Init PROVE TypeInv
  OBVIOUS
<1>1. 0 \in 0 .. Len(Slices) /\ 0 \in 0 .. 2 * N - 1 /\ 0 \in 0 .. NumWorkers - 1
  BY JobsCount, SlotsCount, WorkersCount
<1>2. job \in [Workers -> 0 .. Len(Slices)] /\ shift \in [Workers -> 0 .. 2 * N - 1]
  BY <1>1 DEF Init
<1>3. /\ running \in [Workers -> BOOLEAN] /\ received \in [Workers -> SUBSET PktIds]
      /\ timers \in [Workers -> [Slots -> BOOLEAN]] /\ misfired \in BOOLEAN
      /\ out \in [Workers -> SUBSET Result] /\ down \in [Workers -> SUBSET Message]
  BY DEF Init
<1>4. args \in [Workers -> [Slots -> Args \cup {NoArgs}]]
  BY DEF Init
<1>5. up \in [Workers -> Seq(Packet)]
  BY DEF Init
<1>6. /\ bitmap \in [Slots -> [Sets -> SUBSET Workers]]
      /\ count \in [Slots -> [Sets -> 0 .. NumWorkers - 1]]
  BY <1>1 DEF Init
<1>7. value \in [Slots -> [Sets -> [Contribs -> Nat]]]
  BY UnitType DEF Init
<1>8. TypeOK
  BY <1>2, <1>3, <1>4, <1>5, <1>6, <1>7 DEF TypeOK
<1>9. \A w \in Workers : ~running[w] /\ \A i \in Slots : ~timers[w][i]
  BY DEF Init
<1> QED BY <1>8, <1>9 DEF TypeInv

LEMMA PacketType ==
  ASSUME NEW w \in Workers, NEW j \in JobIds, NEW k \in PktIds, NEW q \in Pool,
         job'[w] \in JobIds
  PROVE  BuildPacket(w, j, k, q) \in Packet
<1>1. <<w, job'[w], k>> \in Contribs
  BY ContribsType
<1>2. ShortId(j) \in 0 .. ShortIds - 1
  BY JobsCount, ShortIdType
<1> QED BY <1>1, <1>2 DEF BuildPacket, Packet

LEMMA StartSliceType ==
  ASSUME TypeInv, NEW w \in Workers, StartSlice(w)
  PROVE  TypeInv'
<1>1. TypeOK
  BY DEF TypeInv
<1>2. PICK j : j = job[w] + 1
  OBVIOUS
<1>3. /\ ~running[w] /\ job[w] < Len(Slices)
      /\ job' = [job EXCEPT ![w] = j] /\ running' = [running EXCEPT ![w] = TRUE]
      /\ received' = [received EXCEPT ![w] = {}]
      /\ UNCHANGED <<shift, out, misfired, down, bitmap, count, value>>
  BY <1>2 DEF StartSlice, switchVars
<1>4. job[w] \in Nat /\ j \in JobIds
  BY <1>1, <1>2, <1>3, Ranges, JobsCount DEF JobIds
<1>5. /\ Batch(j) \in Nat
      /\ \A k \in 1 .. Batch(j) : k \in PktIds /\ k - 1 \in PktIds /\ k - 1 \in Nat
  <2>1. Batch(j) \in Nat /\ Batch(j) <= Total(j) /\ Total(j) \in Nat
    BY <1>4, SliceShape
  <2>2. ASSUME NEW k \in 1 .. Batch(j)
        PROVE  k \in Nat /\ k <= Total(j) /\ k - 1 \in Nat /\ k - 1 <= Total(j)
    BY <2>1
  <2> QED BY <1>4, <2>1, <2>2, PktIdsType
<1>6. \A k \in 1 .. Batch(j) : PktId2PoolIndex(k - 1, shift[w]) \in Pool
  <2>1. shift[w] \in Nat
    BY <1>1, SlotsCount DEF TypeOK
  <2> QED BY <1>5, <2>1, PoolType
<1> DEFINE s        == [k \in 1 .. Batch(j) |->
                          BuildPacket(w, j, k - 1, PktId2PoolIndex(k - 1, shift[w]))]
           armed    == {k % N : k \in 1 .. Batch(j)}
           PktOf(i) == CHOOSE k \in 1 .. Batch(j) : k % N = i
           Arg(i)   == [job |-> j, pkt |-> PktOf(i), long |-> TRUE,
                        pool |-> PktId2PoolIndex(PktOf(i) - 1, shift[w])]
<1>7. /\ up' = [up EXCEPT ![w] = @ \o s]
      /\ timers' = [timers EXCEPT ![w] = [i \in Slots |-> @[i] \/ i \in armed]]
      /\ args' = [args EXCEPT ![w] = [i \in Slots |-> IF i \in armed THEN Arg(i) ELSE @[i]]]
  BY <1>2 DEF StartSlice
<1>8. job'[w] = j
  BY <1>1, <1>3, Ranges
<1>9. s \in Seq(Packet)
  <2>1. \A k \in 1 .. Batch(j) :
          BuildPacket(w, j, k - 1, PktId2PoolIndex(k - 1, shift[w])) \in Packet
    BY <1>4, <1>5, <1>6, <1>8, PacketType
  <2>2. s \in [1 .. Batch(j) -> Packet]
    BY <2>1
  <2> HIDE DEF s
  <2> QED BY <1>5, <2>2, SeqDef
<1>10. \A i \in armed : Arg(i) \in Args
  <2>1. ASSUME NEW i \in armed PROVE PktOf(i) \in 1 .. Batch(j)
    OBVIOUS
  <2> HIDE DEF armed, PktOf
  <2> QED BY <1>4, <1>5, <1>6, <2>1 DEF Args
<1> HIDE DEF s, armed, Arg
<1>11. job' \in [Workers -> 0 .. Len(Slices)] /\ running' \in [Workers -> BOOLEAN]
       /\ received' \in [Workers -> SUBSET PktIds]
  BY <1>1, <1>3, <1>4, JobsCount DEF TypeOK, JobIds
<1>12. timers' \in [Workers -> [Slots -> BOOLEAN]]
  BY <1>1, <1>7 DEF TypeOK
<1>13. args' \in [Workers -> [Slots -> Args \cup {NoArgs}]]
  <2>1. args \in [Workers -> [Slots -> Args \cup {NoArgs}]]
    BY <1>1 DEF TypeOK
  <2>2. \A i \in Slots : (IF i \in armed THEN Arg(i) ELSE args[w][i]) \in Args \cup {NoArgs}
    BY <1>10, <2>1
  <2> QED BY <1>7, <2>1, <2>2
<1>14. up' \in [Workers -> Seq(Packet)]
  <2>1. up \in [Workers -> Seq(Packet)]
    BY <1>1 DEF TypeOK
  <2>2. up[w] \o s \in Seq(Packet)
    BY <1>9, <2>1, ConcatProperties
  <2> QED BY <1>7, <2>1, <2>2
<1>15. TypeOK'
  BY <1>1, <1>3, <1>11, <1>12, <1>13, <1>14 DEF TypeOK
<1>16. ASSUME NEW v \in Workers, running'[v] PROVE job'[v] \in JobIds
  BY <1>1, <1>3, <1>4, <1>16 DEF TypeInv, TypeOK
<1>17. ASSUME NEW v \in Workers, NEW i \in Slots, timers'[v][i] PROVE args'[v][i] \in Args
  <2>1. /\ timers \in [Workers -> [Slots -> BOOLEAN]]
        /\ args \in [Workers -> [Slots -> Args \cup {NoArgs}]]
    BY <1>1 DEF TypeOK
  <2>2. CASE v # w
    <3>1. timers'[v] = timers[v] /\ args'[v] = args[v]
      BY <1>7, <2>1, <2>2
    <3> QED BY <1>17, <3>1 DEF TypeInv
  <2>3. CASE v = w
    <3>1. /\ timers'[w] = [n \in Slots |-> timers[w][n] \/ n \in armed]
          /\ args'[w] = [n \in Slots |-> IF n \in armed THEN Arg(n) ELSE args[w][n]]
      BY <1>7, <2>1
    <3>2. (timers'[w][i] <=> timers[w][i] \/ i \in armed)
      BY <3>1, Zenon
    <3>3. args'[w][i] = IF i \in armed THEN Arg(i) ELSE args[w][i]
      BY <3>1
    <3> QED BY <1>10, <1>17, <2>3, <3>2, <3>3 DEF TypeInv
  <2> QED BY <2>2, <2>3
<1> QED BY <1>15, <1>16, <1>17 DEF TypeInv

LEMMA TimeoutType ==
  ASSUME TypeInv, NEW w \in Workers, NEW i \in Slots, Timeout(w, i)
  PROVE  TypeInv'
<1>1. TypeOK
  BY DEF TypeInv
<1>2. PICK a : a = args[w][i]
  OBVIOUS
<1>3. /\ running[w] /\ timers[w][i] /\ job' = job
      /\ up' = [up EXCEPT ![w] = Append(@, BuildPacket(w, a.job, a.pkt, a.pool))]
      /\ args' = [args EXCEPT ![w][i].long = FALSE]
      /\ misfired' = (misfired \/ a.long)
      /\ UNCHANGED <<running, shift, received, out, timers, down, bitmap, count, value>>
  BY <1>2 DEF Timeout, InLoop, switchVars
<1>4. a \in Args /\ job'[w] \in JobIds
  BY <1>2, <1>3 DEF TypeInv
<1>5. a.job \in JobIds /\ a.pkt \in PktIds /\ a.pool \in Pool /\ a.long \in BOOLEAN
  BY <1>4 DEF Args
<1>6. PICK p \in Packet : p = BuildPacket(w, a.job, a.pkt, a.pool)
  BY <1>4, <1>5, PacketType
<1>7. up' \in [Workers -> Seq(Packet)]
  <2>1. up \in [Workers -> Seq(Packet)] /\ up' = [up EXCEPT ![w] = Append(@, p)]
    BY <1>1, <1>3, <1>6 DEF TypeOK
  <2>2. Append(up[w], p) \in Seq(Packet)
    BY <2>1, AppendProperties
  <2> QED BY <2>1, <2>2
<1>8. PICK b \in Args : b = [a EXCEPT !.long = FALSE]
  BY <1>4 DEF Args
<1>9. /\ args' \in [Workers -> [Slots -> Args \cup {NoArgs}]]
      /\ args'[w][i] = b
      /\ \A v \in Workers, n \in Slots : v # w \/ n # i => args'[v][n] = args[v][n]
  <2>1. args \in [Workers -> [Slots -> Args \cup {NoArgs}]]
    BY <1>1 DEF TypeOK
  <2>2. args' = [args EXCEPT ![w] = [args[w] EXCEPT ![i] = b]]
    BY <1>2, <1>3, <1>8
  <2>3. [args[w] EXCEPT ![i] = b] \in [Slots -> Args \cup {NoArgs}]
    BY <2>1
  <2> QED BY <2>1, <2>2, <2>3
<1>10. misfired' \in BOOLEAN
  BY <1>1, <1>3, <1>5 DEF TypeOK
<1>11. TypeOK'
  BY <1>1, <1>3, <1>7, <1>9, <1>10 DEF TypeOK
<1>12. \A v \in Workers, n \in Slots : timers'[v][n] => args'[v][n] \in Args
  <2>1. ASSUME NEW v \in Workers, NEW n \in Slots, timers[v][n] PROVE args'[v][n] \in Args
    <3>1. CASE v = w /\ n = i
      BY <1>9, <3>1
    <3>2. CASE v # w \/ n # i
      BY <1>9, <2>1, <3>2 DEF TypeInv
    <3> QED BY <3>1, <3>2
  <2> QED BY <1>3, <2>1
<1> QED BY <1>3, <1>11, <1>12 DEF TypeInv

LEMMA AcceptType ==
  ASSUME TypeInv, NEW w \in Workers, NEW m \in down[w], running[w], Accept(w, m),
         down' = [down EXCEPT ![w] = @ \ {m}],
         UNCHANGED <<job, running, shift, misfired, bitmap, count, value>>
  PROVE  TypeInv'
<1>1. TypeOK /\ job[w] \in JobIds
  BY DEF TypeInv
<1>2. m.pkt \in PktIds /\ m.pkt \in Nat /\ m.val \in [Contribs -> Nat]
  <2>1. m \in Message
    BY <1>1 DEF TypeOK
  <2> QED BY <1>1, <2>1, PktIdsType DEF Message
<1>3. [job |-> job[w], pkt |-> m.pkt, val |-> m.val] \in Result
  BY <1>1, <1>2 DEF Result
<1>4. /\ received' \in [Workers -> SUBSET PktIds] /\ out' \in [Workers -> SUBSET Result]
      /\ down' \in [Workers -> SUBSET Message]
  <2>1. /\ received \in [Workers -> SUBSET PktIds] /\ out \in [Workers -> SUBSET Result]
        /\ down \in [Workers -> SUBSET Message]
    BY <1>1 DEF TypeOK
  <2> QED BY <1>2, <1>3, <2>1 DEF Accept
<1>5. PICK n \in Nat : n = m.pkt + Batch(job[w])
  BY <1>1, <1>2, SliceShape
<1>6. PICK i \in Slots : i = n % N
  <2>1. n % N \in Slots
    BY SlotsCount DEF Slots
  <2> QED BY <2>1
<1>7. /\ timers \in [Workers -> [Slots -> BOOLEAN]] /\ up \in [Workers -> Seq(Packet)]
      /\ args \in [Workers -> [Slots -> Args \cup {NoArgs}]]
  BY <1>1 DEF TypeOK
<1>8. /\ timers' \in [Workers -> [Slots -> BOOLEAN]] /\ up' \in [Workers -> Seq(Packet)]
      /\ args' \in [Workers -> [Slots -> Args \cup {NoArgs}]]
      /\ \A v \in Workers, l \in Slots : timers'[v][l] => args'[v][l] \in Args
  <2>1. CASE n < Total(job[w])
    <3>1. PICK a : a = ArgsFor(w, n)
      OBVIOUS
    <3>2. a \in Args /\ a.pool \in Pool
      <4>1. n \in PktIds
        BY <1>1, <2>1, SliceShape, PktIdsType
      <4>2. shift[w] \in Nat
        BY <1>1, SlotsCount DEF TypeOK
      <4> QED BY <1>1, <3>1, <4>1, <4>2, PoolType DEF ArgsFor, Args
    <3>3. PICK p \in Packet : p = BuildPacket(w, job[w], n, a.pool)
      <4>1. n \in PktIds
        BY <1>1, <2>1, SliceShape, PktIdsType
      <4> QED BY <1>1, <3>2, <4>1, PacketType
    <3>4. /\ up' = [up EXCEPT ![w] = Append(@, p)]
          /\ timers' = [timers EXCEPT ![w] = [timers[w] EXCEPT ![i] = TRUE]]
          /\ args' = [args EXCEPT ![w] = [args[w] EXCEPT ![i] = a]]
      BY <1>5, <1>6, <2>1, <3>1, <3>3 DEF Accept
    <3>5. up' \in [Workers -> Seq(Packet)]
      <4>1. Append(up[w], p) \in Seq(Packet)
        BY <1>7, AppendProperties
      <4> QED BY <1>7, <3>4, <4>1
    <3>6. /\ timers' \in [Workers -> [Slots -> BOOLEAN]]
          /\ \A v \in Workers, l \in Slots : v # w \/ l # i => timers'[v][l] = timers[v][l]
      BY <1>7, <3>4
    <3>7. /\ args' \in [Workers -> [Slots -> Args \cup {NoArgs}]] /\ args'[w][i] = a
          /\ \A v \in Workers, l \in Slots : v # w \/ l # i => args'[v][l] = args[v][l]
      <4>1. [args[w] EXCEPT ![i] = a] \in [Slots -> Args \cup {NoArgs}]
        BY <1>7, <3>2
      <4> QED BY <1>7, <3>4, <4>1
    <3>8. ASSUME NEW v \in Workers, NEW l \in Slots, timers'[v][l] PROVE args'[v][l] \in Args
      <4>1. CASE v = w /\ l = i
        BY <3>2, <3>7, <4>1
      <4>2. CASE v # w \/ l # i
        BY <3>6, <3>7, <3>8, <4>2 DEF TypeInv
      <4> QED BY <4>1, <4>2
    <3> QED BY <3>5, <3>6, <3>7, <3>8
  <2>2. CASE ~(n < Total(job[w]))
    <3>1. timers' = [timers EXCEPT ![w] = [timers[w] EXCEPT ![i] = FALSE]] /\ UNCHANGED <<up, args>>
      BY <1>5, <1>6, <2>2 DEF Accept
    <3>2. timers' \in [Workers -> [Slots -> BOOLEAN]]
      BY <1>7, <3>1
    <3>3. ASSUME NEW v \in Workers, NEW l \in Slots, timers'[v][l] PROVE timers[v][l]
      BY <1>7, <3>1, <3>3
    <3> QED BY <1>7, <3>1, <3>2, <3>3 DEF TypeInv
  <2> QED BY <2>1, <2>2
<1>9. TypeOK'
  BY <1>1, <1>4, <1>8 DEF TypeOK
<1> QED BY <1>8, <1>9 DEF TypeInv

LEMMA ReceiveType ==
  ASSUME TypeInv, NEW w \in Workers, NEW m \in down[w], Receive(w, m)
  PROVE  TypeInv'
<1>1. /\ running[w] /\ down' = [down EXCEPT ![w] = @ \ {m}]
      /\ UNCHANGED <<job, running, shift, misfired, bitmap, count, value>>
      /\ Accept(w, m) \/ Discard(w, m)
  BY DEF Receive, switchVars
<1>2. CASE Accept(w, m)
  BY <1>1, <1>2, AcceptType
<1>3. CASE Discard(w, m)
  <2>1. UNCHANGED <<out, received, up, timers, args>>
    BY <1>3 DEF Discard
  <2>2. down' \in [Workers -> SUBSET Message]
    BY <1>1 DEF TypeInv, TypeOK
  <2> QED BY <1>1, <2>1, <2>2 DEF TypeInv, TypeOK
<1> QED BY <1>1, <1>2, <1>3

LEMMA FinishSliceType ==
  ASSUME TypeInv, NEW w \in Workers, FinishSlice(w)
  PROVE  TypeInv'
<1>1. TypeOK /\ running[w] /\ job[w] \in JobIds
  BY DEF TypeInv, FinishSlice
<1>2. /\ shift' = [shift EXCEPT ![w] = (@ + Total(job[w])) % (2 * N)]
      /\ running' = [running EXCEPT ![w] = FALSE]
      /\ UNCHANGED <<job, received, out, timers, args, misfired, up, down, bitmap, count, value>>
  BY DEF FinishSlice, switchVars
<1>3. (shift[w] + Total(job[w])) % (2 * N) \in 0 .. 2 * N - 1
  <2>1. shift[w] + Total(job[w]) \in Nat
    BY <1>1, SliceShape, SlotsCount DEF TypeOK
  <2>2. 2 * N \in Nat /\ 2 * N > 0
    BY SlotsCount
  <2> QED BY <2>1, <2>2, Division
<1>4. shift' \in [Workers -> 0 .. 2 * N - 1] /\ running' \in [Workers -> BOOLEAN]
  BY <1>1, <1>2, <1>3 DEF TypeOK
<1>5. TypeOK'
  BY <1>1, <1>2, <1>4 DEF TypeOK
<1>6. ASSUME NEW v \in Workers, running'[v] PROVE job'[v] \in JobIds
  BY <1>1, <1>2, <1>6 DEF TypeInv, TypeOK
<1> QED BY <1>2, <1>5, <1>6 DEF TypeInv

\* Something is lost.
LEMMA LossType ==
  ASSUME TypeInv, NEW w \in Workers, LoseUplink(w) \/ LoseDownlink(w)
  PROVE  TypeInv'
<1>1. /\ up \in [Workers -> Seq(Packet)] /\ down \in [Workers -> SUBSET Message]
      /\ UNCHANGED <<workerVars, bitmap, count, value>>
  BY DEF TypeInv, TypeOK, LoseUplink, LoseDownlink, switchVars
<1>2. up' \in [Workers -> Seq(Packet)]
  <2>1. CASE LoseUplink(w)
    <3>1. up[w] # <<>> /\ up' = [up EXCEPT ![w] = Tail(@)]
      BY <2>1 DEF LoseUplink
    <3>2. Tail(up[w]) \in Seq(Packet)
      BY <1>1, <3>1, HeadTailProperties
    <3> QED BY <1>1, <3>1, <3>2
  <2>2. CASE LoseDownlink(w)
    BY <1>1, <2>2 DEF LoseDownlink
  <2> QED BY <2>1, <2>2
<1>3. down' \in [Workers -> SUBSET Message]
  BY <1>1 DEF LoseUplink, LoseDownlink
<1> QED BY <1>1, <1>2, <1>3 DEF TypeInv, TypeOK, workerVars

LEMMA RegisterType ==
  ASSUME NEW b, NEW seen, NEW x \in [Contribs -> Nat], NEW d \in Contribs
  PROVE  RegisterAfter(b, seen, x, Unit(d)) \in [Contribs -> Nat]
<1>1. Unit(d) \in [Contribs -> Nat]
  BY UnitType
<1>2. Add(x, Unit(d)) \in [Contribs -> Nat]
  BY <1>1 DEF Add
<1> QED BY <1>1, <1>2 DEF RegisterAfter

LEMMA SwitchType ==
  ASSUME TypeInv, NEW w \in Workers, Switch(w)
  PROVE  TypeInv'
<1>1. TypeOK
  BY DEF TypeInv
<1>2. PICK p : p = Head(up[w])
  OBVIOUS
<1>3. p \in Packet /\ up[w] # <<>> /\ up[w] \in Seq(Packet)
  BY <1>1, <1>2, HeadTailProperties DEF TypeOK, Switch
<1>4. PICK i \in Slots, s \in Sets : i = p.pool.slot /\ s = p.pool.set
  BY <1>3 DEF Packet, Pool
<1>5. PICK sum \in [Contribs -> Nat] :
        sum = RegisterAfter(bitmap[i][s], MapResult(bitmap[i][s], w), value[i][s], Unit(p.data))
  <2>1. value[i][s] \in [Contribs -> Nat] /\ p.data \in Contribs
    BY <1>1, <1>3 DEF TypeOK, Packet
  <2> QED BY <2>1, RegisterType
<1>6. PICK m \in Message : m = [short_job_id |-> p.short_job_id, job |-> p.job,
                                pkt |-> p.pkt, val |-> sum]
  BY <1>3 DEF Packet, Message
<1>7. PICK c \in 0 .. NumWorkers - 1 : c = CountAfter(count[i][s], MapResult(bitmap[i][s], w))
  <2>1. count[i][s] \in 0 .. NumWorkers - 1
    BY <1>1 DEF TypeOK
  <2>2. (IF count[i][s] = 0 THEN NumWorkers - 1 ELSE count[i][s] - 1) \in 0 .. NumWorkers - 1
    BY <2>1, WorkersCount
  <2> QED BY <2>1, <2>2 DEF CountAfter
<1>8. PICK b \in [Sets -> SUBSET Workers] : b = UpdateBitmap(bitmap[i], w, s)
  <2>1. bitmap[i] \in [Sets -> SUBSET Workers]
    BY <1>1 DEF TypeOK
  <2> QED BY <2>1 DEF UpdateBitmap
<1>9. /\ bitmap' = [bitmap EXCEPT ![i] = b]
      /\ count' = [count EXCEPT ![i] = [count[i] EXCEPT ![s] = c]]
      /\ value' = [value EXCEPT ![i] = [value[i] EXCEPT ![s] = sum]]
      /\ up' = [up EXCEPT ![w] = Tail(@)] /\ UNCHANGED workerVars
  BY <1>2, <1>4, <1>5, <1>7, <1>8 DEF Switch
<1>10. \A v \in Workers : down'[v] = down[v] \/ down'[v] = down[v] \cup {m}
  BY <1>2, <1>4, <1>5, <1>6 DEF Switch
<1>11. down' \in [Workers -> SUBSET Message]
  <2>1. ASSUME NEW v \in Workers PROVE down'[v] \in SUBSET Message
    <3>1. down[v] \in SUBSET Message
      BY <1>1 DEF TypeOK
    <3> QED BY <1>10, <3>1
  <2>2. down' = [v \in Workers |-> down'[v]]
    BY DEF Switch
  <2> QED BY <2>1, <2>2
<1>12. bitmap' \in [Slots -> [Sets -> SUBSET Workers]]
  BY <1>1, <1>9 DEF TypeOK
<1>13. count' \in [Slots -> [Sets -> 0 .. NumWorkers - 1]]
  <2>1. [count[i] EXCEPT ![s] = c] \in [Sets -> 0 .. NumWorkers - 1]
    BY <1>1 DEF TypeOK
  <2> QED BY <1>1, <1>9, <2>1 DEF TypeOK
<1>14. value' \in [Slots -> [Sets -> [Contribs -> Nat]]]
  <2>1. [value[i] EXCEPT ![s] = sum] \in [Sets -> [Contribs -> Nat]]
    BY <1>1 DEF TypeOK
  <2> QED BY <1>1, <1>9, <2>1 DEF TypeOK
<1>15. up' \in [Workers -> Seq(Packet)]
  <2>1. Tail(up[w]) \in Seq(Packet)
    BY <1>3, HeadTailProperties
  <2> QED BY <1>1, <1>9, <2>1 DEF TypeOK
<1> QED BY <1>1, <1>9, <1>11, <1>12, <1>13, <1>14, <1>15 DEF TypeInv, TypeOK, workerVars

LEMMA NextType ==
  ASSUME TypeInv, [Next]_vars
  PROVE  TypeInv'
<1>1. CASE UNCHANGED vars
  BY <1>1 DEF TypeInv, TypeOK, vars, workerVars, switchVars
<1>2. CASE Done
  BY <1>2 DEF TypeInv, TypeOK, Done, vars, workerVars, switchVars
<1> QED BY <1>1, <1>2, StartSliceType, FinishSliceType, SwitchType, LossType, TimeoutType,
           ReceiveType DEF Next

-----------------------------------------------------------------------------
(* The inductive invariant *)

\* w has a result for packet t.
Got(w, t) == t[1] < job[w] \/ (t[1] = job[w] /\ t[2] \in received[w])

\* t is the packet of its slot that comes next for w.
Frontier(w, t) ==
  /\ t[1] = job[w] /\ ~Got(w, t)
  /\ \A u \in Tasks : Precedes(u, t) => Got(w, u)

\* The switch has added up w's packet t.
Added(w, t) == Got(w, t) \/ (Frontier(w, t) /\ w \in Bits(t))

\* t is the last packet of w that the slot of t has added up.
Latest(w, t) == Added(w, t) /\ \A u \in Tasks : Precedes(t, u) => ~Added(w, u)

Adders(t)     == {v \in Workers : Added(v, t)}
PartialSum(t) == [c \in Contribs |->
                    IF c[2] = t[1] /\ c[3] = t[2] /\ Added(c[1], t) THEN 1 ELSE 0]

\* The shift of the pool index is the number of packets of the slices before.
ShiftFollows(w) ==
  shift[w] = Base(IF running[w] THEN job[w] ELSE job[w] + 1) % (2 * N)

\* A worker has received only packets of its slice, and all of them after it.
SliceFollows(w) ==
  /\ running[w] => job[w] \in JobIds
  /\ job[w] \in JobIds => received[w] \subseteq 0 .. Total(job[w]) - 1
  /\ (~running[w] /\ job[w] \in JobIds) => received[w] = 0 .. Total(job[w]) - 1

\* Of the packets of a slot, a worker has the results of the first ones.
GotInOrder ==
  \A w \in Workers : \A t, u \in Tasks : Got(w, t) /\ Precedes(u, t) => Got(w, u)

\* The bitmaps record each worker's latest packet in each slot, and nothing else.
BitsFollow ==
  \A w \in Workers, i \in Slots, s \in Sets :
    w \in bitmap[i][s] <=> \E t \in Tasks : Latest(w, t) /\ SlotOf(t) = i /\ SetOf(t) = s

\* Nobody has a result that does not contain everybody.
Lockstep == \A w, v \in Workers : \A t \in Tasks : Got(w, t) => Added(v, t)

\* A set that holds somebody's latest packet holds all of that packet so far.
RegistersFollow ==
  /\ \A i \in Slots, s \in Sets : bitmap[i][s] = {} => count[i][s] = 0
  /\ \A w \in Workers, t \in Tasks : Latest(w, t) =>
       /\ count[SlotOf(t)][SetOf(t)] = NumWorkers - Cardinality(Adders(t))
       /\ value[SlotOf(t)][SetOf(t)] = PartialSum(t)

\* A packet on the way names a task, its pool index and its own data ...
PacketSound(w, p) ==
  /\ TaskOf(p) \in Tasks /\ p.job <= job[w] /\ p.short_job_id = ShortId(p.job)
  /\ p.pool = [slot |-> SlotOf(TaskOf(p)), set |-> SetOf(TaskOf(p))]
  /\ p.data = <<w, p.job, p.pkt>>

\* ... was sent when the slot's packets before it were done, and the switch has
\* added up none behind it.
PacketTimely(w, p) ==
  \A u \in Tasks : /\ Precedes(u, TaskOf(p)) => Got(w, u)
                   /\ Precedes(TaskOf(p), u) => ~Added(w, u)

\* ... and they are on the way in the order in which the slots take them.
UplinkFollows(w) ==
  /\ \A n \in 1 .. Len(up[w]) : PacketSound(w, up[w][n]) /\ PacketTimely(w, up[w][n])
  /\ \A m, n \in 1 .. Len(up[w]) : m < n => ~Precedes(TaskOf(up[w][n]), TaskOf(up[w][m]))

\* A result that is still awaited is exact.
DownlinkExact ==
  \A w \in Workers : \A m \in down[w] :
    /\ TaskOf(m) \in Tasks /\ \A v \in Workers : Added(v, TaskOf(m))
    /\ m.short_job_id = ShortId(m.job)
    /\ ~Got(w, TaskOf(m)) => m.val = Reduced(m.job, m.pkt)

\* A timer that may fire is that of a packet of the slice that was sent after the
\* result of another one.
TimerFollows(w, i) ==
  timers[w][i] =>
    /\ args[w][i] \in Args
    /\ ~args[w][i].long =>
         LET a == args[w][i] IN
         /\ running[w] /\ a.job = job[w] /\ a.pkt < Total(job[w]) /\ a.pkt % N = i
         /\ a.pkt \notin received[w]
         /\ a.pkt >= N /\ a.pkt - N \in received[w] /\ Batch(job[w]) = N
         /\ a.pool = PktId2PoolIndex(a.pkt, shift[w])

OutExact == \A w \in Workers : \A r \in out[w] : r.val = Reduced(r.job, r.pkt)

WorkerFollows(w) ==
  /\ ShiftFollows(w) /\ SliceFollows(w) /\ UplinkFollows(w)
  /\ \A i \in Slots : TimerFollows(w, i)

IInv ==
  /\ TypeOK
  /\ \A w \in Workers : WorkerFollows(w)
  /\ GotInOrder /\ BitsFollow /\ Lockstep /\ RegistersFollow
  /\ DownlinkExact /\ OutExact

LEMMA ImpliedTypes == IInv => TypeInv
BY DEF IInv, WorkerFollows, SliceFollows, TimerFollows, TypeInv

-----------------------------------------------------------------------------
(* What the order in a slot means for a worker *)

LEMMA AddedBefore ==
  ASSUME GotInOrder, NEW w \in Workers, NEW t \in Tasks, NEW u \in Tasks,
         Added(w, t), Precedes(u, t)
  PROVE  Got(w, u)
BY DEF GotInOrder, Added, Frontier

LEMMA LatestUnique ==
  ASSUME NEW w \in Workers, NEW t \in Tasks, NEW u \in Tasks,
         Latest(w, t), Latest(w, u), SlotOf(t) = SlotOf(u)
  PROVE  t = u
BY SlotOrder DEF Latest

\* A packet whose turn it is, and that is not added up, meets no bit of its worker.
LEMMA BitIsFree ==
  ASSUME BitsFollow, NEW w \in Workers, NEW t \in Tasks, ~Added(w, t),
         \A u \in Tasks : /\ Precedes(u, t) => Got(w, u)
                          /\ Precedes(t, u) => ~Added(w, u)
  PROVE  w \notin Bits(t)
<1> SUFFICES ASSUME w \in Bits(t) PROVE FALSE
  OBVIOUS
<1>1. PICK x \in Tasks : Latest(w, x) /\ SlotOf(x) = SlotOf(t) /\ SetOf(x) = SetOf(t)
  BY SlotsType DEF BitsFollow, Bits
<1>2. x # t /\ ~Precedes(t, x)
  BY <1>1 DEF Latest
<1>3. Precedes(x, t)
  BY <1>1, <1>2, SlotOrder
<1>4. PICK p \in Tasks :
        /\ Precedes(p, t) /\ SetOf(p) # SetOf(t)
        /\ \A v \in Tasks : Precedes(v, t) => v = p \/ Precedes(v, p)
  BY <1>3, Predecessor
<1>5. Added(w, p)
  BY <1>4 DEF Added
<1>6. ~Precedes(x, p)
  BY <1>1, <1>5 DEF Latest
<1> QED BY <1>1, <1>3, <1>4, <1>6

\* A packet that is added up, and none behind it, has the bit of its worker.
LEMMA BitIsSet ==
  ASSUME BitsFollow, NEW w \in Workers, NEW t \in Tasks, Added(w, t),
         \A u \in Tasks : Precedes(t, u) => ~Added(w, u)
  PROVE  /\ Latest(w, t) /\ w \in Bits(t)
         /\ \A s \in Sets : w \in bitmap[SlotOf(t)][s] => s = SetOf(t)
<1>1. Latest(w, t)
  BY DEF Latest
<1>2. w \in Bits(t)
  BY <1>1, SlotsType DEF BitsFollow, Bits
<1>3. ASSUME NEW s \in Sets, w \in bitmap[SlotOf(t)][s] PROVE s = SetOf(t)
  <2>1. PICK x \in Tasks : Latest(w, x) /\ SlotOf(x) = SlotOf(t) /\ SetOf(x) = s
    BY <1>3, SlotsType DEF BitsFollow
  <2> QED BY <1>1, <2>1, LatestUnique
<1> QED BY <1>1, <1>2, <1>3

-----------------------------------------------------------------------------
(* What the steps leave alone *)

LEMMA AddedUnchanged ==
  ASSUME NEW w \in Workers, job'[w] = job[w], received'[w] = received[w],
         \A i \in Slots, s \in Sets : w \in bitmap'[i][s] <=> w \in bitmap[i][s]
  PROVE  \A t \in Tasks : /\ Got(w, t)' <=> Got(w, t)
                          /\ Added(w, t)' <=> Added(w, t)
<1>1. \A t \in Tasks : Got(w, t)' <=> Got(w, t)
  BY DEF Got
<1>2. \A t \in Tasks : Frontier(w, t)' <=> Frontier(w, t)
  BY <1>1 DEF Frontier
<1>3. \A t \in Tasks : w \in Bits(t)' <=> w \in Bits(t)
  BY SlotsType DEF Bits
<1> QED BY <1>1, <1>2, <1>3 DEF Added

LEMMA SwitchUnchanged ==
  ASSUME BitsFollow, RegistersFollow, UNCHANGED switchVars,
         \A w \in Workers, t \in Tasks : Added(w, t)' <=> Added(w, t)
  PROVE  BitsFollow' /\ RegistersFollow'
<1>1. \A w \in Workers, t \in Tasks : Latest(w, t)' <=> Latest(w, t)
  BY DEF Latest
<1>2. bitmap' = bitmap /\ count' = count /\ value' = value
  BY DEF switchVars
<1>3. BitsFollow'
  BY <1>1, <1>2 DEF BitsFollow
<1>4. \A t \in Tasks : Adders(t)' = Adders(t)
  BY DEF Adders
<1>5. \A t \in Tasks : PartialSum(t)' = PartialSum(t)
  BY DEF PartialSum, Contribs
<1>6. RegistersFollow'
  BY <1>1, <1>2, <1>4, <1>5 DEF RegistersFollow
<1> QED BY <1>3, <1>6

\* A packet stays good while its worker gets on and the switch adds up nothing new
\* for the worker.
LEMMA PacketStaysGood ==
  ASSUME NEW w \in Workers, NEW p, PacketSound(w, p), PacketTimely(w, p),
         job \in [Workers -> Nat], job' \in [Workers -> Nat], job[w] <= job'[w],
         \A t \in Tasks : /\ Got(w, t) => Got(w, t)'
                          /\ Added(w, t)' => Added(w, t)
  PROVE  PacketSound(w, p)' /\ PacketTimely(w, p)'
<1>1. TaskOf(p)[1] = p.job
  BY DEF TaskOf
<1>2. p.job \in Nat
  BY <1>1, TasksType DEF PacketSound
<1>3. p.job <= job'[w]
  BY <1>2 DEF PacketSound
<1>4. PacketSound(w, p)'
  BY <1>3 DEF PacketSound
<1>5. PacketTimely(w, p)'
  BY DEF PacketTimely
<1> QED BY <1>4, <1>5

LEMMA UplinkUnchanged ==
  ASSUME NEW w \in Workers, UplinkFollows(w), up'[w] = up[w],
         job \in [Workers -> Nat], job' \in [Workers -> Nat], job[w] <= job'[w],
         \A t \in Tasks : /\ Got(w, t) => Got(w, t)'
                          /\ Added(w, t)' => Added(w, t)
  PROVE  UplinkFollows(w)'
<1>1. ASSUME NEW n \in 1 .. Len(up[w])
      PROVE  PacketSound(w, up[w][n])' /\ PacketTimely(w, up[w][n])'
  <2>1. PICK p : p = up[w][n]
    OBVIOUS
  <2>2. PacketSound(w, p) /\ PacketTimely(w, p)
    BY <2>1 DEF UplinkFollows
  <2>3. PacketSound(w, p)' /\ PacketTimely(w, p)'
    BY <2>2, PacketStaysGood
  <2>4. p = up'[w][n]
    BY <2>1
  <2> QED BY <2>3, <2>4 DEF PacketSound, PacketTimely
<1> QED BY <1>1 DEF UplinkFollows

\* The first packet leaves the uplink, and may have been added up.
LEMMA UplinkTail ==
  ASSUME NEW w \in Workers, UplinkFollows(w), up[w] \in Seq(Packet), up[w] # <<>>,
         up'[w] = Tail(up[w]), job'[w] = job[w],
         \A t \in Tasks : /\ Got(w, t) => Got(w, t)'
                          /\ Added(w, t)' => Added(w, t) \/ t = TaskOf(Head(up[w]))
  PROVE  UplinkFollows(w)'
<1>1. /\ Len(up[w]) \in Nat /\ Len(up'[w]) = Len(up[w]) - 1 /\ Head(up[w]) = up[w][1]
      /\ \A n \in 1 .. Len(up'[w]) : up'[w][n] = up[w][n + 1]
  BY HeadTailProperties, LenProperties
<1>2. \A n \in 1 .. Len(up'[w]) : n + 1 \in 1 .. Len(up[w]) /\ 1 < n + 1
  BY <1>1
<1>3. 1 \in 1 .. Len(up[w])
  <2>1. Len(up[w]) # 0
    BY EmptySeq
  <2> QED BY <1>1, <2>1
<1>4. ASSUME NEW n \in 1 .. Len(up'[w])
      PROVE  PacketSound(w, up[w][n])' /\ PacketTimely(w, up[w][n])'
  <2>1. PICK p : p = up[w][n + 1]
    OBVIOUS
  <2>2. PacketSound(w, p) /\ PacketTimely(w, p)
    BY <1>2, <2>1 DEF UplinkFollows
  <2>3. ~Precedes(TaskOf(p), TaskOf(Head(up[w])))
    BY <1>1, <1>2, <1>3, <2>1 DEF UplinkFollows
  <2>4. PacketTimely(w, p)'
    <3>1. ASSUME NEW u \in Tasks, Precedes(u, TaskOf(p)) PROVE Got(w, u)'
      BY <2>2, <3>1 DEF PacketTimely
    <3>2. ASSUME NEW u \in Tasks, Precedes(TaskOf(p), u) PROVE ~Added(w, u)'
      <4>1. ~Added(w, u)
        BY <2>2, <3>2 DEF PacketTimely
      <4>2. u # TaskOf(Head(up[w]))
        BY <2>3, <3>2
      <4> QED BY <4>1, <4>2
    <3> QED BY <3>1, <3>2 DEF PacketTimely
  <2>5. PacketSound(w, p)'
    BY <2>2 DEF PacketSound
  <2>6. p = up'[w][n]
    BY <1>1, <2>1
  <2> QED BY <2>4, <2>5, <2>6 DEF PacketSound, PacketTimely
<1>5. ASSUME NEW m \in 1 .. Len(up'[w]), NEW n \in 1 .. Len(up'[w]), m < n
      PROVE  ~Precedes(TaskOf(up'[w][n]), TaskOf(up'[w][m]))
  <2>1. up'[w][n] = up[w][n + 1] /\ up'[w][m] = up[w][m + 1]
    BY <1>1
  <2>2. m + 1 < n + 1 /\ m + 1 \in 1 .. Len(up[w]) /\ n + 1 \in 1 .. Len(up[w])
    BY <1>2, <1>5
  <2> QED BY <2>1, <2>2 DEF UplinkFollows
<1> QED BY <1>4, <1>5 DEF UplinkFollows

\* Packets whose turn it is join the uplink.
LEMMA UplinkExtended ==
  ASSUME NEW w \in Workers, UplinkFollows(w), up[w] \in Seq(Packet), NEW s \in Seq(Packet),
         up'[w] = up[w] \o s,
         job \in [Workers -> Nat], job' \in [Workers -> Nat], job[w] <= job'[w],
         \A t \in Tasks : /\ Got(w, t) => Got(w, t)'
                          /\ Added(w, t)' => Added(w, t),
         \A n \in 1 .. Len(s) : /\ PacketSound(w, s[n])' /\ PacketTimely(w, s[n])'
                                /\ ~Got(w, TaskOf(s[n])),
         \A m, n \in 1 .. Len(s) : m < n => ~Precedes(TaskOf(s[n]), TaskOf(s[m]))
  PROVE  UplinkFollows(w)'
<1>1. /\ Len(up[w]) \in Nat /\ Len(s) \in Nat /\ Len(up'[w]) = Len(up[w]) + Len(s)
      /\ \A n \in 1 .. Len(up[w]) + Len(s) :
           up'[w][n] = IF n <= Len(up[w]) THEN up[w][n] ELSE s[n - Len(up[w])]
  BY ConcatProperties, LenProperties
<1>2. ASSUME NEW n \in 1 .. Len(up'[w])
      PROVE  \/ n \in 1 .. Len(up[w]) /\ up'[w][n] = up[w][n]
             \/ n > Len(up[w]) /\ n - Len(up[w]) \in 1 .. Len(s) /\ up'[w][n] = s[n - Len(up[w])]
  BY <1>1
<1>3. ASSUME NEW n \in 1 .. Len(up'[w])
      PROVE  PacketSound(w, up[w][n])' /\ PacketTimely(w, up[w][n])'
  <2>1. PICK p : p = up'[w][n]
    OBVIOUS
  <2>2. PacketSound(w, p)' /\ PacketTimely(w, p)'
    <3>1. CASE n \in 1 .. Len(up[w]) /\ up'[w][n] = up[w][n]
      <4>1. PacketSound(w, p) /\ PacketTimely(w, p)
        BY <2>1, <3>1 DEF UplinkFollows
      <4> QED BY <4>1, PacketStaysGood
    <3>2. CASE n - Len(up[w]) \in 1 .. Len(s) /\ up'[w][n] = s[n - Len(up[w])]
      <4>1. PICK l \in 1 .. Len(s) : l = n - Len(up[w])
        BY <3>2
      <4>2. p = s[l]
        BY <2>1, <3>2, <4>1
      <4>3. PacketSound(w, s[l])' /\ PacketTimely(w, s[l])'
        OBVIOUS
      <4> QED BY <4>2, <4>3
    <3> QED BY <1>2, <3>1, <3>2
  <2> QED BY <2>1, <2>2 DEF PacketSound, PacketTimely
<1>4. ASSUME NEW m \in 1 .. Len(up'[w]), NEW n \in 1 .. Len(up'[w]), m < n
      PROVE  ~Precedes(TaskOf(up'[w][n]), TaskOf(up'[w][m]))
  <2>1. CASE n \in 1 .. Len(up[w]) /\ up'[w][n] = up[w][n]
    <3>1. m \in 1 .. Len(up[w]) /\ up'[w][m] = up[w][m]
      BY <1>1, <1>2, <1>4, <2>1
    <3> QED BY <1>4, <2>1, <3>1 DEF UplinkFollows
  <2>2. CASE n > Len(up[w]) /\ n - Len(up[w]) \in 1 .. Len(s) /\ up'[w][n] = s[n - Len(up[w])]
    <3>1. PICK l \in 1 .. Len(s) : l = n - Len(up[w]) /\ up'[w][n] = s[l]
      BY <2>2
    <3>2. CASE m \in 1 .. Len(up[w]) /\ up'[w][m] = up[w][m]
      <4>1. PacketTimely(w, up[w][m])
        BY <3>2 DEF UplinkFollows
      <4>2. ~Got(w, TaskOf(s[l])) /\ TaskOf(s[l]) \in Tasks
        BY DEF PacketSound
      <4> QED BY <3>1, <3>2, <4>1, <4>2 DEF PacketTimely
    <3>3. CASE m > Len(up[w]) /\ m - Len(up[w]) \in 1 .. Len(s) /\ up'[w][m] = s[m - Len(up[w])]
      <4>1. PICK k \in 1 .. Len(s) : k = m - Len(up[w]) /\ up'[w][m] = s[k]
        BY <3>3
      <4>2. k < l
        BY <1>1, <1>4, <3>1, <4>1
      <4> QED BY <3>1, <4>1, <4>2
    <3> QED BY <1>2, <3>2, <3>3
  <2> QED BY <1>2, <2>1, <2>2
<1> QED BY <1>3, <1>4 DEF UplinkFollows

\* A worker the step does not touch.
LEMMA WorkerUnchanged ==
  ASSUME NEW w \in Workers, WorkerFollows(w),
         job \in [Workers -> Nat], job' \in [Workers -> Nat],
         job'[w] = job[w], running'[w] = running[w], shift'[w] = shift[w],
         received'[w] = received[w], timers'[w] = timers[w], args'[w] = args[w], up'[w] = up[w],
         \A i \in Slots, s \in Sets : w \in bitmap'[i][s] <=> w \in bitmap[i][s]
  PROVE  WorkerFollows(w)'
<1>1. \A t \in Tasks : (Got(w, t)' <=> Got(w, t)) /\ (Added(w, t)' <=> Added(w, t))
  BY AddedUnchanged
<1>2. UplinkFollows(w)'
  BY <1>1, UplinkUnchanged DEF WorkerFollows
<1>3. ShiftFollows(w)' /\ SliceFollows(w)'
  BY DEF WorkerFollows, ShiftFollows, SliceFollows
<1>4. \A i \in Slots : TimerFollows(w, i)'
  BY DEF WorkerFollows, TimerFollows
<1> QED BY <1>2, <1>3, <1>4 DEF WorkerFollows

-----------------------------------------------------------------------------
(* The initial state, and what is left alone by all steps but a few *)

LEMMA InitIInv == Init => IInv
<1> SUFFICES ASSUME Init PROVE IInv
  OBVIOUS
<1>1. \A w \in Workers : /\ job[w] = 0 /\ ~running[w] /\ shift[w] = 0 /\ received[w] = {}
                         /\ out[w] = {} /\ up[w] = <<>> /\ down[w] = {}
                         /\ \A i \in Slots : ~timers[w][i]
  BY DEF Init
<1>2. \A i \in Slots, s \in Sets : bitmap[i][s] = {} /\ count[i][s] = 0
  BY DEF Init
<1>3. TypeOK
  BY InitType DEF TypeInv
<1>4. \A w \in Workers, t \in Tasks : ~Got(w, t) /\ ~Added(w, t)
  BY <1>1, TasksType, JobsCount DEF Got, Frontier, Added
<1>5. ASSUME NEW w \in Workers PROVE WorkerFollows(w)
  <2>1. ShiftFollows(w)
    <3>1. 0 % (2 * N) = 0
      BY SlotsCount
    <3> QED BY <1>1, <3>1, BaseType DEF ShiftFollows
  <2>2. SliceFollows(w)
    <3>1. job[w] \notin JobIds
      BY <1>1, JobsCount
    <3> QED BY <1>1, <3>1 DEF SliceFollows
  <2>3. UplinkFollows(w)
    <3>1. 1 .. Len(up[w]) = {}
      BY <1>1
    <3> QED BY <3>1 DEF UplinkFollows
  <2>4. \A i \in Slots : TimerFollows(w, i)
    BY <1>1 DEF TimerFollows
  <2> QED BY <2>1, <2>2, <2>3, <2>4 DEF WorkerFollows
<1>6. GotInOrder /\ BitsFollow /\ Lockstep /\ RegistersFollow
  BY <1>2, <1>4 DEF GotInOrder, BitsFollow, Lockstep, RegistersFollow, Latest
<1>7. DownlinkExact /\ OutExact
  BY <1>1 DEF DownlinkExact, OutExact
<1> QED BY <1>3, <1>5, <1>6, <1>7 DEF IInv

\* A step that keeps what was received and added up, and the switch, and brings no
\* results.
LEMMA NothingArrives ==
  ASSUME IInv, UNCHANGED switchVars, out' = out,
         \A w \in Workers : down'[w] \subseteq down[w],
         \A w \in Workers, t \in Tasks : /\ Got(w, t)' <=> Got(w, t)
                                         /\ Added(w, t)' <=> Added(w, t)
  PROVE  /\ GotInOrder' /\ BitsFollow' /\ Lockstep' /\ RegistersFollow'
         /\ DownlinkExact' /\ OutExact'
<1>1. GotInOrder' /\ Lockstep'
  BY DEF IInv, GotInOrder, Lockstep
<1>2. BitsFollow' /\ RegistersFollow'
  BY SwitchUnchanged DEF IInv
<1>3. OutExact'
  BY DEF IInv, OutExact
<1>4. DownlinkExact'
  BY DEF IInv, DownlinkExact
<1> QED BY <1>1, <1>2, <1>3, <1>4

-----------------------------------------------------------------------------
(* StartSlice *)

LEMMA StartSliceInv ==
  ASSUME IInv, NEW w \in Workers, StartSlice(w)
  PROVE  IInv'
<1>1. PICK j : j = job[w] + 1
  OBVIOUS
<1>2. /\ ~running[w] /\ job[w] < Len(Slices)
      /\ job' = [job EXCEPT ![w] = j] /\ running' = [running EXCEPT ![w] = TRUE]
      /\ received' = [received EXCEPT ![w] = {}]
      /\ UNCHANGED <<shift, out, misfired, down, bitmap, count, value>>
  BY <1>1 DEF StartSlice, switchVars
<1>3. job[w] \in Nat /\ j \in JobIds /\ j \in Nat /\ job[w] < j /\ job[w] = j - 1
  BY <1>1, <1>2, Ranges, JobsCount DEF IInv, JobIds
<1>4. /\ job'[w] = j /\ running'[w] /\ received'[w] = {} /\ shift'[w] = shift[w]
      /\ \A v \in Workers : v # w => /\ job'[v] = job[v] /\ running'[v] = running[v]
                                     /\ received'[v] = received[v] /\ shift'[v] = shift[v]
  <2>1. job \in [Workers -> Nat] /\ running \in [Workers -> BOOLEAN]
        /\ received \in [Workers -> SUBSET PktIds]
    BY Ranges DEF IInv, TypeOK
  <2> QED BY <1>2, <2>1
<1>5. /\ Batch(j) \in Nat /\ Batch(j) <= N /\ Batch(j) <= Total(j) /\ Total(j) \in Nat
      /\ \A k \in 1 .. Batch(j) : <<j, k - 1>> \in Tasks /\ k \in PktIds /\ k - 1 \in PktIds
                                  /\ k - 1 \in Nat /\ k - 1 < N
  <2>1. Batch(j) \in Nat /\ Batch(j) <= N /\ Batch(j) <= Total(j) /\ Total(j) \in Nat
    BY <1>3, SliceShape
  <2>2. ASSUME NEW k \in 1 .. Batch(j)
        PROVE  k \in Nat /\ k <= Total(j) /\ k - 1 \in Nat /\ k - 1 < Total(j) /\ k - 1 < N
    BY <2>1, SlotsCount
  <2>3. \A k \in 1 .. Batch(j) : k - 1 <= Total(j)
    BY <2>1, <2>2
  <2> QED BY <1>3, <2>1, <2>2, <2>3, TasksType, PktIdsType
<1>6. \A k \in 1 .. Batch(j) :
        PktId2PoolIndex(k - 1, shift[w])
          = [slot |-> SlotOf(<<j, k - 1>>), set |-> SetOf(<<j, k - 1>>)]
  <2>1. shift[w] = Base(j) % (2 * N)
    BY <1>1, <1>2 DEF IInv, WorkerFollows, ShiftFollows
  <2>2. ASSUME NEW k \in 1 .. Batch(j)
        PROVE  PktId2PoolIndex(k - 1, Base(j) % (2 * N))
                 = [slot |-> SlotOf(<<j, k - 1>>), set |-> SetOf(<<j, k - 1>>)]
    <3>1. PICK t \in Tasks : t = <<j, k - 1>>
      BY <1>5
    <3>2. t[1] = j /\ t[2] = k - 1
      BY <3>1
    <3> QED BY <3>1, <3>2, PoolIndexOfTask
  <2> QED BY <2>1, <2>2
<1>7. PICK s :
        /\ s = [k \in 1 .. Batch(j) |->
                  [short_job_id |-> ShortId(j), job |-> j, pkt |-> k - 1,
                   pool |-> [slot |-> SlotOf(<<j, k - 1>>), set |-> SetOf(<<j, k - 1>>)],
                   data |-> <<w, j, k - 1>>]]
        /\ up' = [up EXCEPT ![w] = @ \o s]
  <2>1. up' = [up EXCEPT ![w] = @ \o [k \in 1 .. Batch(j) |->
                 BuildPacket(w, j, k - 1, PktId2PoolIndex(k - 1, shift[w]))]]
    BY <1>1 DEF StartSlice
  <2>2. \A k \in 1 .. Batch(j) :
          BuildPacket(w, j, k - 1, PktId2PoolIndex(k - 1, shift[w]))
            = [short_job_id |-> ShortId(j), job |-> j, pkt |-> k - 1,
               pool |-> [slot |-> SlotOf(<<j, k - 1>>), set |-> SetOf(<<j, k - 1>>)],
               data |-> <<w, j, k - 1>>]
    BY <1>4, <1>6 DEF BuildPacket
  <2> QED BY <2>1, <2>2
<1>8. /\ s \in Seq(Packet) /\ Len(s) = Batch(j)
      /\ \A k \in 1 .. Len(s) :
           /\ s[k].job = j /\ s[k].pkt = k - 1 /\ TaskOf(s[k]) = <<j, k - 1>>
           /\ s[k].pool = [slot |-> SlotOf(<<j, k - 1>>), set |-> SetOf(<<j, k - 1>>)]
           /\ s[k].data = <<w, j, k - 1>> /\ s[k].short_job_id = ShortId(j)
  <2>1. ASSUME NEW k \in 1 .. Batch(j)
        PROVE  [short_job_id |-> ShortId(j), job |-> j, pkt |-> k - 1,
                pool |-> [slot |-> SlotOf(<<j, k - 1>>), set |-> SetOf(<<j, k - 1>>)],
                data |-> <<w, j, k - 1>>] \in Packet
    <3>1. PICK t \in Tasks : t = <<j, k - 1>>
      BY <1>5
    <3>2. t[1] = j /\ t[2] = k - 1
      BY <3>1
    <3>3. <<w, j, k - 1>> \in Contribs
      BY <3>2, ContribsType
    <3>4. [slot |-> SlotOf(t), set |-> SetOf(t)] \in Pool
      BY PoolIndexOfTask
    <3> QED BY <1>3, <1>5, <3>1, <3>3, <3>4, ShortIdType DEF Packet
  <2>2. s \in [1 .. Batch(j) -> Packet]
    BY <1>7, <2>1
  <2>3. s \in Seq(Packet) /\ Len(s) = Batch(j)
    BY <1>5, <2>2, SeqDef, LenProperties
  <2> QED BY <1>7, <2>3 DEF TaskOf
<1>9. \A v \in Workers, t \in Tasks : /\ Got(v, t)' <=> Got(v, t)
                                      /\ Added(v, t)' <=> Added(v, t)
  <2>1. ASSUME NEW t \in Tasks PROVE Got(w, t)' <=> Got(w, t)
    <3>1. t[1] = job[w] => t[2] \in received[w]
      <4>1. t[1] = job[w] => received[w] = 0 .. Total(t[1]) - 1
        BY <1>2, TasksType DEF IInv, WorkerFollows, SliceFollows
      <4>2. t[2] \in 0 .. Total(t[1]) - 1
        BY TasksType, SliceShape
      <4> QED BY <4>1, <4>2
    <3>2. t[1] \in Nat
      BY TasksType
    <3> QED BY <1>3, <1>4, <3>1, <3>2 DEF Got
  <2>2. \A t \in Tasks : t[1] = job[w] => Got(w, t)
    <3>1. ASSUME NEW t \in Tasks, t[1] = job[w] PROVE Got(w, t)
      <4>1. received[w] = 0 .. Total(t[1]) - 1
        BY <1>2, <3>1, TasksType DEF IInv, WorkerFollows, SliceFollows
      <4>2. t[2] \in 0 .. Total(t[1]) - 1
        BY TasksType, SliceShape
      <4> QED BY <3>1, <4>1, <4>2 DEF Got
    <3> QED BY <3>1
  <2>3. \A t \in Tasks : Added(w, t) <=> Got(w, t)
    BY <2>2 DEF Added, Frontier
  <2>4. ASSUME NEW t \in Tasks, Frontier(w, t)' PROVE w \notin Bits(t)
    <3>1. ~Got(w, t) /\ \A u \in Tasks : Precedes(u, t) => Got(w, u)
      BY <2>1, <2>4 DEF Frontier
    <3>2. \A u \in Tasks : Precedes(t, u) => ~Added(w, u)
      BY <2>3, <3>1 DEF IInv, GotInOrder
    <3> QED BY <2>3, <3>1, <3>2, BitIsFree DEF IInv
  <2>5. \A t \in Tasks : Bits(t)' = Bits(t)
    BY <1>2 DEF Bits
  <2>6. \A t \in Tasks : Added(w, t)' <=> Added(w, t)
    BY <2>1, <2>3, <2>4, <2>5 DEF Added
  <2>7. ASSUME NEW v \in Workers, v # w
        PROVE  \A t \in Tasks : (Got(v, t)' <=> Got(v, t)) /\ (Added(v, t)' <=> Added(v, t))
    BY <1>2, <1>4, <2>7, AddedUnchanged
  <2> QED BY <2>1, <2>6, <2>7
<1>10. /\ GotInOrder' /\ BitsFollow' /\ Lockstep' /\ RegistersFollow'
       /\ DownlinkExact' /\ OutExact'
  <2>1. UNCHANGED switchVars
    BY <1>2 DEF switchVars
  <2>2. \A v \in Workers : down'[v] \subseteq down[v]
    BY <1>2
  <2> QED BY <1>2, <1>9, <2>1, <2>2, NothingArrives
<1> DEFINE armed    == {k % N : k \in 1 .. Batch(j)}
           PktOf(i) == CHOOSE k \in 1 .. Batch(j) : k % N = i
           Arg(i)   == [job |-> j, pkt |-> PktOf(i), long |-> TRUE,
                        pool |-> PktId2PoolIndex(PktOf(i) - 1, shift[w])]
<1>11. /\ timers' = [timers EXCEPT ![w] = [i \in Slots |-> @[i] \/ i \in armed]]
       /\ args' = [args EXCEPT ![w] = [i \in Slots |-> IF i \in armed THEN Arg(i) ELSE @[i]]]
  BY <1>1 DEF StartSlice
<1>12. \A i \in armed : Arg(i) \in Args /\ Arg(i).long
  <2>1. ASSUME NEW i \in armed PROVE PktOf(i) \in 1 .. Batch(j)
    OBVIOUS
  <2>2. \A k \in 1 .. Batch(j) : PktId2PoolIndex(k - 1, shift[w]) \in Pool
    <3>1. ASSUME NEW k \in 1 .. Batch(j) PROVE PktId2PoolIndex(k - 1, shift[w]) \in Pool
      <4>1. PICK t \in Tasks : t = <<j, k - 1>>
        BY <1>5
      <4> QED BY <1>6, <4>1, PoolIndexOfTask
    <3> QED BY <3>1
  <2> HIDE DEF armed, PktOf
  <2> QED BY <1>3, <1>5, <2>1, <2>2 DEF Args
<1> HIDE DEF armed, Arg
<1>13. /\ timers'[w] = [i \in Slots |-> timers[w][i] \/ i \in armed]
       /\ args'[w] = [i \in Slots |-> IF i \in armed THEN Arg(i) ELSE args[w][i]]
       /\ up'[w] = up[w] \o s
       /\ \A v \in Workers : v # w => /\ timers'[v] = timers[v] /\ args'[v] = args[v]
                                      /\ up'[v] = up[v]
  <2>1. /\ timers \in [Workers -> [Slots -> BOOLEAN]]
        /\ args \in [Workers -> [Slots -> Args \cup {NoArgs}]]
        /\ up \in [Workers -> Seq(Packet)]
    BY DEF IInv, TypeOK
  <2> QED BY <1>7, <1>11, <2>1
<1>14. TypeOK'
  BY StartSliceType, ImpliedTypes DEF TypeInv
<1>15. job \in [Workers -> Nat] /\ job' \in [Workers -> Nat]
  BY <1>14, JobsCount, Ranges DEF IInv, TypeOK
<1>16. WorkerFollows(w)'
  <2>1. ShiftFollows(w)'
    BY <1>1, <1>2, <1>4 DEF IInv, WorkerFollows, ShiftFollows
  <2>2. SliceFollows(w)'
    BY <1>3, <1>4 DEF SliceFollows
  <2>3. \A i \in Slots : TimerFollows(w, i)'
    <3> SUFFICES ASSUME NEW i \in Slots, timers'[w][i]
                 PROVE  args'[w][i] \in Args /\ args'[w][i].long
      BY DEF TimerFollows
    <3>1. CASE i \in armed
      BY <1>12, <1>13, <3>1
    <3>2. CASE i \notin armed
      <4>1. timers[w][i] /\ args'[w][i] = args[w][i]
        <5>1. timers'[w][i] <=> timers[w][i] \/ i \in armed
          BY <1>13, Zenon
        <5>2. args'[w][i] = args[w][i]
          BY <1>13, <3>2
        <5> QED BY <3>2, <5>1, <5>2
      <4>2. TimerFollows(w, i)
        BY DEF IInv, WorkerFollows
      <4>3. args[w][i].long \in BOOLEAN
        BY <4>1, <4>2 DEF TimerFollows, Args
      <4> QED BY <1>2, <4>1, <4>2, <4>3 DEF TimerFollows
    <3> QED BY <3>1, <3>2
  <2>4. UplinkFollows(w)'
    <3>1. ASSUME NEW n \in 1 .. Len(s)
          PROVE  /\ PacketSound(w, s[n])' /\ PacketTimely(w, s[n])'
                 /\ ~Got(w, TaskOf(s[n]))
      <4>1. PICK t \in Tasks : t = <<j, n - 1>> /\ t = TaskOf(s[n])
        BY <1>5, <1>8
      <4>2. t[1] = j /\ t[2] = n - 1 /\ n - 1 \in Nat /\ n - 1 < N
        BY <1>5, <1>8, <4>1
      <4>3. ~Got(w, t)
        BY <1>3, <4>2 DEF Got
      <4>4. ASSUME NEW u \in Tasks, Precedes(u, t) PROVE Got(w, u)
        <5>1. u[1] < t[1] \/ u[2] + N <= t[2]
          BY <4>4, SlotOrderFollowsJobs
        <5>2. u[1] \in Nat /\ u[2] \in Nat
          BY TasksType
        <5>3. Got(w, u)'
          BY <1>4, <4>2, <5>1, <5>2, SlotsCount DEF Got
        <5> QED BY <1>9, <5>3
      <4>5. ASSUME NEW u \in Tasks, Precedes(t, u) PROVE ~Added(w, u)
        <5>1. Added(w, u) => Got(w, t)
          BY <4>5, AddedBefore DEF IInv
        <5> QED BY <4>3, <5>1
      <4>6. PacketTimely(w, s[n])'
        BY <1>9, <4>1, <4>4, <4>5 DEF PacketTimely
      <4>7. PacketSound(w, s[n])'
        <5>1. TaskOf(s[n]) = t /\ s[n].job = j /\ s[n].pkt = n - 1
          BY <1>8, <4>1
        <5>2. s[n].pool = [slot |-> SlotOf(t), set |-> SetOf(t)] /\ s[n].data = <<w, j, n - 1>>
             /\ s[n].short_job_id = ShortId(j)
          BY <1>8, <4>1
        <5>3. j <= job'[w]
          BY <1>3, <1>4
        <5> QED BY <5>1, <5>2, <5>3 DEF PacketSound
      <4> QED BY <4>1, <4>3, <4>6, <4>7
    <3>2. ASSUME NEW m \in 1 .. Len(s), NEW n \in 1 .. Len(s), m < n
          PROVE  ~Precedes(TaskOf(s[n]), TaskOf(s[m]))
      <4>1. PICK t \in Tasks, u \in Tasks : /\ t = <<j, n - 1>> /\ t = TaskOf(s[n])
                                            /\ u = <<j, m - 1>> /\ u = TaskOf(s[m])
        BY <1>5, <1>8
      <4>2. t[1] = j /\ t[2] = n - 1 /\ u[1] = j /\ u[2] = m - 1
        BY <4>1
      <4>3. n \in Nat /\ m \in Nat
        BY <1>5, <1>8
      <4>4. Precedes(t, u) => j < j \/ (n - 1) + N <= m - 1
        BY <4>2, SlotOrderFollowsJobs
      <4> QED BY <1>3, <3>2, <4>1, <4>3, <4>4, SlotsCount
    <3>3. UplinkFollows(w) /\ up[w] \in Seq(Packet)
      BY Ranges DEF IInv, WorkerFollows
    <3>4. job[w] <= job'[w]
      BY <1>3, <1>4
    <3> QED BY <1>8, <1>9, <1>13, <1>15, <3>1, <3>2, <3>3, <3>4, UplinkExtended
  <2> QED BY <2>1, <2>2, <2>3, <2>4 DEF WorkerFollows
<1>17. ASSUME NEW v \in Workers, v # w PROVE WorkerFollows(v)'
  BY <1>2, <1>4, <1>13, <1>15, <1>17, WorkerUnchanged DEF IInv
<1> QED BY <1>10, <1>14, <1>16, <1>17 DEF IInv

-----------------------------------------------------------------------------
(* Timeout *)

\* A timer that runs out names the task it was armed for.
LEMMA TimerTask ==
  ASSUME IInv, NEW w \in Workers, NEW i \in Slots, timers[w][i], ~args[w][i].long
  PROVE  \E t \in Tasks :
           /\ running[w] /\ ~args[w][i].long /\ args[w][i] \in Args
           /\ args[w][i].job = t[1] /\ args[w][i].pkt = t[2]
           /\ args[w][i].pool = [slot |-> SlotOf(t), set |-> SetOf(t)]
           /\ t[1] = job[w] /\ ~Got(w, t)
           /\ \A u \in Tasks : Precedes(u, t) => Got(w, u)
<1>1. /\ ~args[w][i].long /\ args[w][i] \in Args /\ running[w]
      /\ args[w][i].job = job[w] /\ args[w][i].pkt < Total(job[w])
      /\ args[w][i].pkt \notin received[w] /\ args[w][i].pkt >= N
      /\ args[w][i].pkt - N \in received[w] /\ Batch(job[w]) = N
      /\ args[w][i].pool = PktId2PoolIndex(args[w][i].pkt, shift[w])
  BY DEF IInv, WorkerFollows, TimerFollows
<1>2. PICK k : k = args[w][i].pkt
  OBVIOUS
<1>3. job[w] \in JobIds /\ job[w] \in Nat /\ received[w] \subseteq 0 .. Total(job[w]) - 1
      /\ shift[w] = Base(job[w]) % (2 * N)
  BY <1>1, Ranges DEF IInv, WorkerFollows, SliceFollows, ShiftFollows
<1>4. k \in Nat
  <2>1. Total(job[w]) \in Nat
    BY <1>3, SliceShape
  <2>2. k - N \in Int /\ k \in PktIds
    BY <1>1, <1>2, <1>3, <2>1 DEF Args
  <2> QED BY <1>3, <2>2, PktIdsType
<1>5. PICK t \in Tasks : t = <<job[w], k>>
  BY <1>1, <1>2, <1>3, <1>4, TasksType
<1>6. t[1] = job[w] /\ t[2] = k
  BY <1>5
<1>7. args[w][i].pool = [slot |-> SlotOf(t), set |-> SetOf(t)]
  BY <1>1, <1>2, <1>3, <1>6, PoolIndexOfTask
<1>8. ~Got(w, t)
  BY <1>1, <1>2, <1>3, <1>6 DEF Got
<1>9. ASSUME NEW u \in Tasks, Precedes(u, t) PROVE Got(w, u)
  <2>1. k - N \in Nat /\ k - N < Total(job[w])
    BY <1>1, <1>2, <1>3, <1>4, SlotsCount, SliceShape
  <2>2. PICK p \in Tasks : p = <<job[w], k - N>>
    BY <1>3, <2>1, TasksType
  <2>3. p[1] = job[w] /\ p[2] = k - N /\ t[2] = p[2] + N
    BY <1>4, <1>6, <2>2, SlotsCount
  <2>4. Got(w, p)
    BY <1>1, <1>2, <2>3 DEF Got
  <2>5. u = p \/ Precedes(u, p)
    BY <1>6, <1>9, <2>3, Successor
  <2> QED BY <2>4, <2>5 DEF IInv, GotInOrder
<1> QED BY <1>1, <1>2, <1>6, <1>7, <1>8, <1>9

LEMMA TimeoutInv ==
  ASSUME IInv, ~misfired', NEW w \in Workers, NEW i \in Slots, Timeout(w, i)
  PROVE  IInv'
<1>1. /\ timers[w][i] /\ ~args[w][i].long /\ job' = job
      /\ up' = [up EXCEPT ![w] = Append(@, BuildPacket(w, args[w][i].job, args[w][i].pkt,
                                                       args[w][i].pool))]
      /\ args' = [args EXCEPT ![w][i].long = FALSE]
      /\ UNCHANGED <<running, shift, received, out, timers, down, bitmap, count, value>>
  BY DEF Timeout, switchVars
<1>2. PICK t \in Tasks :
        /\ running[w] /\ ~args[w][i].long /\ args[w][i] \in Args
        /\ args[w][i].job = t[1] /\ args[w][i].pkt = t[2]
        /\ args[w][i].pool = [slot |-> SlotOf(t), set |-> SetOf(t)]
        /\ t[1] = job[w] /\ ~Got(w, t)
        /\ \A u \in Tasks : Precedes(u, t) => Got(w, u)
  BY <1>1, TimerTask
<1>3. PICK p : p = [short_job_id |-> ShortId(t[1]), job |-> t[1], pkt |-> t[2],
                    data |-> <<w, t[1], t[2]>>,
                    pool |-> [slot |-> SlotOf(t), set |-> SetOf(t)]]
  OBVIOUS
<1>4. p \in Packet /\ TaskOf(p) = t /\ p.job = t[1] /\ p.pkt = t[2]
  <2>1. /\ t[1] \in JobIds /\ t[1] \in Nat /\ t[2] \in PktIds /\ <<w, t[1], t[2]>> \in Contribs
        /\ [slot |-> SlotOf(t), set |-> SetOf(t)] \in Pool /\ t = <<t[1], t[2]>>
    BY TasksType, ContribsType, PoolIndexOfTask
  <2> QED BY <1>3, <2>1, ShortIdType DEF Packet, TaskOf
<1>5. up' = [up EXCEPT ![w] = Append(@, p)]
  <2>1. BuildPacket(w, args[w][i].job, args[w][i].pkt, args[w][i].pool) = p
    BY <1>1, <1>2, <1>3 DEF BuildPacket
  <2> QED BY <1>1, <2>1
\* The timer's arguments name no long period any more.
<1>6. args' = args
  <2>1. args \in [Workers -> [Slots -> Args \cup {NoArgs}]]
    BY DEF IInv, TypeOK
  <2>2. [args[w][i] EXCEPT !.long = FALSE] = args[w][i]
    BY <1>2 DEF Args
  <2>3. args' = [args EXCEPT ![w] = [args[w] EXCEPT ![i] = args[w][i]]]
    BY <1>1, <2>2
  <2>4. [args[w] EXCEPT ![i] = args[w][i]] = args[w]
    BY <2>1
  <2> QED BY <2>1, <2>3, <2>4
<1>7. \A v \in Workers, u \in Tasks : /\ Got(v, u)' <=> Got(v, u)
                                      /\ Added(v, u)' <=> Added(v, u)
  BY <1>1, AddedUnchanged
<1>8. /\ GotInOrder' /\ BitsFollow' /\ Lockstep' /\ RegistersFollow'
      /\ DownlinkExact' /\ OutExact'
  <2>1. UNCHANGED switchVars /\ \A v \in Workers : down'[v] \subseteq down[v]
    BY <1>1 DEF switchVars
  <2> QED BY <1>1, <1>7, <2>1, NothingArrives
<1>9. up \in [Workers -> Seq(Packet)] /\ job \in [Workers -> Nat] /\ job' \in [Workers -> Nat]
  BY <1>1, Ranges DEF IInv, TypeOK
<1>10. up' \in [Workers -> Seq(Packet)] /\ up'[w] = Append(up[w], p)
       /\ \A v \in Workers : v # w => up'[v] = up[v]
  <2>1. Append(up[w], p) \in Seq(Packet)
    BY <1>4, <1>9, AppendProperties
  <2> QED BY <1>5, <1>9, <2>1
<1>11. TypeOK'
  BY TimeoutType, ImpliedTypes DEF TypeInv
<1>12. WorkerFollows(w)'
  <2>1. UplinkFollows(w)'
    <3>1. \A u \in Tasks : Precedes(t, u) => ~Added(w, u)
      BY <1>2, AddedBefore DEF IInv
    <3>2. PacketTimely(w, p)'
      BY <1>2, <1>4, <1>7, <3>1 DEF PacketTimely
    <3>3. PacketSound(w, p)'
      <4>1. t[1] <= job'[w]
        BY <1>1, <1>2, <1>9
      <4> QED BY <1>3, <1>4, <4>1 DEF PacketSound
    <3>4. PICK s : s = <<p>>
      OBVIOUS
    <3>5. s \in Seq(Packet) /\ Len(s) = 1 /\ s[1] = p /\ up'[w] = up[w] \o s
      <4>1. s \in Seq(Packet) /\ Len(s) = 1 /\ s[1] = p
        BY <1>4, <3>4
      <4>2. Append(up[w], p) = up[w] \o <<p>>
        BY <1>4, <1>9, AppendIsConcat
      <4> QED BY <1>10, <3>4, <4>1, <4>2
    <3>6. \A n \in 1 .. Len(s) : n = 1
      BY <3>5
    <3>7. \A n \in 1 .. Len(s) : /\ PacketSound(w, s[n])' /\ PacketTimely(w, s[n])'
                                 /\ ~Got(w, TaskOf(s[n]))
      BY <1>2, <1>4, <3>2, <3>3, <3>5, <3>6
    <3>8. \A m, n \in 1 .. Len(s) : ~(m < n)
      BY <3>6
    <3>9. UplinkFollows(w) /\ up[w] \in Seq(Packet) /\ job[w] <= job'[w]
      BY <1>1, <1>9 DEF IInv, WorkerFollows
    <3> QED BY <1>7, <1>9, <3>5, <3>7, <3>8, <3>9, UplinkExtended
  <2>2. WorkerFollows(w)
    BY DEF IInv
  <2>3. ShiftFollows(w)' /\ SliceFollows(w)'
    BY <1>1, <2>2 DEF WorkerFollows, ShiftFollows, SliceFollows
  <2>4. \A n \in Slots : TimerFollows(w, n)'
    <3>1. \A n \in Slots : timers'[w][n] = timers[w][n] /\ args'[w][n] = args[w][n]
      BY <1>1, <1>6
    <3> QED BY <1>1, <2>2, <3>1 DEF WorkerFollows, TimerFollows
  <2> QED BY <2>1, <2>3, <2>4 DEF WorkerFollows
<1>13. ASSUME NEW v \in Workers, v # w PROVE WorkerFollows(v)'
  BY <1>1, <1>6, <1>9, <1>10, <1>13, WorkerUnchanged DEF IInv
<1> QED BY <1>8, <1>11, <1>12, <1>13 DEF IInv

-----------------------------------------------------------------------------
(* Steps that lose something, and the end of a slice *)

LEMMA FinishSliceInv ==
  ASSUME IInv, NEW w \in Workers, FinishSlice(w)
  PROVE  IInv'
<1>1. /\ running[w] /\ Cardinality(received[w]) >= Total(job[w])
      /\ shift' = [shift EXCEPT ![w] = (@ + Total(job[w])) % (2 * N)]
      /\ running' = [running EXCEPT ![w] = FALSE]
      /\ UNCHANGED <<job, received, out, timers, args, misfired, up, down, bitmap, count, value>>
  BY DEF FinishSlice, switchVars
<1>2. PICK j \in JobIds : j = job[w]
  BY <1>1 DEF IInv, WorkerFollows, SliceFollows
<1>3. /\ received[w] \subseteq 0 .. Total(j) - 1 /\ shift[w] = Base(j) % (2 * N)
      /\ Total(j) \in Nat /\ Base(j) \in Nat /\ j \in Nat
  <2>1. Total(j) \in Nat /\ Base(j) \in Nat /\ j \in Nat
    BY SliceShape, JobsCount, BaseType
  <2> QED BY <1>1, <1>2, <2>1 DEF IInv, WorkerFollows, SliceFollows, ShiftFollows
<1>4. received[w] = 0 .. Total(j) - 1
  <2>1. 0 \in Int /\ Total(j) - 1 \in Int
    BY <1>3
  <2>2. /\ IsFiniteSet(0 .. Total(j) - 1)
        /\ Cardinality(0 .. Total(j) - 1) = IF 0 > Total(j) - 1 THEN 0 ELSE (Total(j) - 1) - 0 + 1
    BY <2>1, FS_Interval
  <2>3. Cardinality(0 .. Total(j) - 1) = Total(j)
    BY <1>3, <2>2
  <2>4. received[w] \in SUBSET (0 .. Total(j) - 1)
    BY <1>3
  <2>5. /\ IsFiniteSet(received[w]) /\ Cardinality(received[w]) <= Total(j)
        /\ Total(j) = Cardinality(received[w]) => 0 .. Total(j) - 1 = received[w]
    BY <2>2, <2>3, <2>4, FS_Subset
  <2>6. Cardinality(received[w]) \in Nat
    BY <2>5, FS_CardinalityType
  <2> QED BY <1>1, <1>2, <1>3, <2>5, <2>6
<1>5. (shift[w] + Total(j)) % (2 * N) = Base(j + 1) % (2 * N)
  <2> DEFINE b == Base(j) \div (2 * N)
             s == Base(j) % (2 * N)
             c == (s + Total(j)) \div (2 * N)
             r == (s + Total(j)) % (2 * N)
  <2>1. 2 * N \in Nat /\ 2 * N > 0
    BY SlotsCount
  <2>2. b \in Nat /\ s \in Nat /\ Base(j) = b * (2 * N) + s
    BY <1>3, <2>1, Division
  <2>3. c \in Nat /\ r \in Nat /\ r < 2 * N /\ s + Total(j) = c * (2 * N) + r
    <3>1. s + Total(j) \in Nat
      BY <1>3, <2>2
    <3> HIDE DEF s
    <3> QED BY <2>1, <3>1, Division
  <2>4. (shift[w] + Total(j)) % (2 * N) = r
    BY <1>3
  <2> HIDE DEF b, s, c, r
  <2>5. (b + c) * (2 * N) = b * (2 * N) + c * (2 * N) /\ b * (2 * N) \in Nat /\ c * (2 * N) \in Nat
    BY <2>1, <2>2, <2>3, Multiples
  <2>6. Base(j + 1) = (b + c) * (2 * N) + r /\ b + c \in Nat
    BY <1>3, <2>2, <2>3, <2>5, BaseStep
  <2>7. Base(j + 1) \in Nat
    BY <1>3, BaseType
  <2>8. Base(j + 1) % (2 * N) = r
    <3>1. PICK n \in Nat : n = Base(j + 1)
      BY <2>7
    <3>2. PICK k \in Nat : k = 2 * N
      BY <2>1
    <3>3. PICK a \in Nat : a = b + c
      BY <2>6
    <3>4. n = a * k + r /\ r \in Nat /\ r < k /\ k > 0
      BY <2>1, <2>3, <2>6, <3>1, <3>2, <3>3
    <3>5. n % k = r
      BY <3>4, DivisionUnique
    <3> QED BY <3>1, <3>2, <3>5
  <2> QED BY <2>4, <2>8
<1>6. /\ shift'[w] = Base(job[w] + 1) % (2 * N) /\ ~running'[w]
      /\ \A v \in Workers : v # w => shift'[v] = shift[v] /\ running'[v] = running[v]
  <2>1. shift \in [Workers -> 0 .. 2 * N - 1] /\ running \in [Workers -> BOOLEAN]
    BY DEF IInv, TypeOK
  <2> QED BY <1>1, <1>2, <1>5, <2>1
<1>7. TypeOK'
  BY FinishSliceType, ImpliedTypes DEF TypeInv
<1>8. \A v \in Workers, u \in Tasks : /\ Got(v, u)' <=> Got(v, u)
                                      /\ Added(v, u)' <=> Added(v, u)
  BY <1>1, AddedUnchanged
<1>9. /\ GotInOrder' /\ BitsFollow' /\ Lockstep' /\ RegistersFollow'
      /\ DownlinkExact' /\ OutExact'
  <2>1. UNCHANGED switchVars /\ \A v \in Workers : down'[v] \subseteq down[v]
    BY <1>1 DEF switchVars
  <2> QED BY <1>1, <1>8, <2>1, NothingArrives
<1>10. job \in [Workers -> Nat] /\ job' \in [Workers -> Nat]
  BY <1>1, Ranges DEF IInv
<1>11. WorkerFollows(w)'
  <2>1. UplinkFollows(w)'
    <3>1. UplinkFollows(w) /\ up'[w] = up[w] /\ job[w] <= job'[w]
      BY <1>1, <1>2, <1>3 DEF IInv, WorkerFollows
    <3> QED BY <1>8, <1>10, <3>1, UplinkUnchanged
  <2>2. ShiftFollows(w)'
    BY <1>1, <1>6 DEF ShiftFollows
  <2>3. SliceFollows(w)'
    BY <1>1, <1>2, <1>4, <1>6 DEF SliceFollows
  <2>4. ASSUME NEW i \in Slots PROVE TimerFollows(w, i)'
    <3> SUFFICES ASSUME timers[w][i] PROVE args[w][i] \in Args /\ args[w][i].long
      BY <1>1 DEF TimerFollows
    <3>1. args[w][i] \in Args
      BY DEF IInv, WorkerFollows, TimerFollows
    <3>2. ASSUME ~args[w][i].long PROVE FALSE
      <4>1. args[w][i].pkt < Total(j) /\ args[w][i].pkt \notin received[w] /\ args[w][i].pkt >= N
        BY <1>2, <3>2 DEF IInv, WorkerFollows, TimerFollows
      <4>2. args[w][i].pkt \in Nat
        BY <3>1, PktIdsType DEF Args
      <4> QED BY <1>3, <1>4, <4>1, <4>2
    <3> QED BY <3>1, <3>2
  <2> QED BY <2>1, <2>2, <2>3, <2>4 DEF WorkerFollows
<1>12. ASSUME NEW v \in Workers, v # w PROVE WorkerFollows(v)'
  BY <1>1, <1>6, <1>10, <1>12, WorkerUnchanged DEF IInv
<1> QED BY <1>7, <1>9, <1>11, <1>12 DEF IInv

LEMMA LoseUplinkInv ==
  ASSUME IInv, NEW w \in Workers, LoseUplink(w)
  PROVE  IInv'
<1>1. /\ up[w] # <<>> /\ up' = [up EXCEPT ![w] = Tail(@)]
      /\ UNCHANGED <<job, running, shift, received, out, timers, args, misfired, down,
                    bitmap, count, value>>
  BY DEF LoseUplink, workerVars, switchVars
<1>2. up \in [Workers -> Seq(Packet)] /\ job \in [Workers -> Nat] /\ job' \in [Workers -> Nat]
  BY <1>1, Ranges DEF IInv, TypeOK
<1>3. up' \in [Workers -> Seq(Packet)] /\ up'[w] = Tail(up[w])
      /\ \A v \in Workers : v # w => up'[v] = up[v]
  <2>1. Tail(up[w]) \in Seq(Packet)
    BY <1>1, <1>2, HeadTailProperties
  <2> QED BY <1>1, <1>2, <2>1
<1>4. TypeOK'
  BY LossType, ImpliedTypes DEF TypeInv
<1>5. \A v \in Workers, u \in Tasks : /\ Got(v, u)' <=> Got(v, u)
                                      /\ Added(v, u)' <=> Added(v, u)
  BY <1>1, AddedUnchanged
<1>6. /\ GotInOrder' /\ BitsFollow' /\ Lockstep' /\ RegistersFollow'
      /\ DownlinkExact' /\ OutExact'
  <2>1. UNCHANGED switchVars /\ \A v \in Workers : down'[v] \subseteq down[v]
    BY <1>1 DEF switchVars
  <2> QED BY <1>1, <1>5, <2>1, NothingArrives
<1>7. WorkerFollows(w)'
  <2>1. UplinkFollows(w) /\ up[w] \in Seq(Packet) /\ job'[w] = job[w]
    BY <1>1, <1>2 DEF IInv, WorkerFollows
  <2>2. UplinkFollows(w)'
    BY <1>1, <1>3, <1>5, <2>1, UplinkTail
  <2> QED BY <1>1, <2>2 DEF IInv, WorkerFollows, ShiftFollows, SliceFollows, TimerFollows
<1>8. ASSUME NEW v \in Workers, v # w PROVE WorkerFollows(v)'
  BY <1>1, <1>2, <1>3, <1>8, WorkerUnchanged DEF IInv
<1> QED BY <1>4, <1>6, <1>7, <1>8 DEF IInv

\* A result is lost, or is received and discarded.
LEMMA LessDownInv ==
  ASSUME IInv, NEW w \in Workers, NEW m, down' = [down EXCEPT ![w] = @ \ {m}],
         UNCHANGED <<job, running, shift, received, out, timers, args, misfired, up, bitmap,
                     count, value>>
  PROVE  IInv'
<1>1. \A v \in Workers : down'[v] \subseteq down[v]
  <2>1. down \in [Workers -> SUBSET Message]
    BY DEF IInv, TypeOK
  <2> QED BY <2>1
<1>2. TypeOK'
  <2>1. down' \in [Workers -> SUBSET Message]
    BY DEF IInv, TypeOK
  <2> QED BY <2>1 DEF IInv, TypeOK
<1>3. \A v \in Workers, u \in Tasks : /\ Got(v, u)' <=> Got(v, u)
                                      /\ Added(v, u)' <=> Added(v, u)
  BY AddedUnchanged
<1>4. /\ GotInOrder' /\ BitsFollow' /\ Lockstep' /\ RegistersFollow'
      /\ DownlinkExact' /\ OutExact'
  BY <1>1, <1>3, NothingArrives DEF switchVars
<1>5. job \in [Workers -> Nat] /\ job' \in [Workers -> Nat]
  BY Ranges DEF IInv
<1>6. \A v \in Workers : WorkerFollows(v)'
  BY <1>5, WorkerUnchanged DEF IInv
<1> QED BY <1>2, <1>4, <1>6 DEF IInv

-----------------------------------------------------------------------------
(* Receive *)

\* A result that a worker accepts is that of the packet whose turn it is in its
\* slot, and the switch has added it up for everybody.
LEMMA AcceptedTask ==
  ASSUME IInv, NEW w \in Workers, NEW m \in down[w], running[w], IsNew(w, m), Recent(w, m)
  PROVE  \E t \in Tasks :
           /\ t = TaskOf(m) /\ t[1] = job[w] /\ t[1] = m.job /\ t[2] = m.pkt /\ m \in Message
           /\ Frontier(w, t) /\ w \in Bits(t) /\ m.val = Reduced(m.job, m.pkt)
           /\ \A v \in Workers : Added(v, t)
<1>1. PICK t \in Tasks : t = TaskOf(m) /\ \A v \in Workers : Added(v, t)
  BY DEF IInv, DownlinkExact
<1>3. t[1] \in Nat /\ m \in Message /\ job[w] \in Nat
  BY TasksType, Ranges DEF IInv, TypeOK
<1>2. t[1] = m.job /\ t[2] = m.pkt /\ m.job = job[w] /\ m.pkt \notin received[w]
  <2>1. t[1] = m.job /\ t[2] = m.pkt /\ m.pkt \notin received[w]
    BY <1>1 DEF TaskOf, IsNew
  \* The worker has sent the packet, so the job is not ahead of its own.
  <2>2. m.job <= job[w]
    BY <1>1, <1>3, <2>1 DEF Added, Got, Frontier
  <2>3. ShortId(m.job) = ShortId(job[w])
    BY DEF IInv, DownlinkExact, IsNew
  <2> QED BY <1>3, <2>1, <2>2, <2>3, ShortIdsApart DEF Recent
<1>4. ~Got(w, t)
  BY <1>2, <1>3 DEF Got
<1>5. Frontier(w, t) /\ w \in Bits(t)
  BY <1>1, <1>4 DEF Added
<1>6. m.val = Reduced(m.job, m.pkt)
  BY <1>1, <1>4 DEF IInv, DownlinkExact
<1> QED BY <1>1, <1>2, <1>3, <1>5, <1>6

\* When the packet whose turn it was becomes a result, what is added up stays: the
\* worker's bit in the slot is in the set of that packet, not in that of the next.
LEMMA AddedAfterAccept ==
  ASSUME IInv, NEW w \in Workers, NEW t \in Tasks, Frontier(w, t), w \in Bits(t),
         job' = job, bitmap' = bitmap,
         \A u \in Tasks : Got(w, u)' <=> Got(w, u) \/ u = t
  PROVE  \A u \in Tasks : Added(w, u)' <=> Added(w, u)
<1>1. Added(w, t) /\ ~Got(w, t) /\ \A u \in Tasks : Precedes(u, t) => Got(w, u)
  BY DEF Added, Frontier
<1>2. \A u \in Tasks : Bits(u)' = Bits(u)
  BY DEF Bits
<1>3. ASSUME NEW u \in Tasks, Added(w, u) PROVE Added(w, u)'
  <2>1. CASE Got(w, u) \/ u = t
    BY <2>1 DEF Added
  <2>2. CASE ~Got(w, u) /\ u # t
    <3>1. Frontier(w, u) /\ w \in Bits(u)
      BY <1>3, <2>2 DEF Added
    <3>2. Frontier(w, u)'
      BY <2>2, <3>1 DEF Frontier
    <3> QED BY <1>2, <3>1, <3>2 DEF Added
  <2> QED BY <2>1, <2>2
<1>4. ASSUME NEW u \in Tasks, Added(w, u)' PROVE Added(w, u)
  <2>1. CASE Got(w, u) \/ u = t
    BY <1>1, <2>1 DEF Added
  <2>2. CASE ~Got(w, u) /\ u # t
    <3>1. Frontier(w, u)' /\ w \in Bits(u)
      BY <1>2, <1>4, <2>2 DEF Added
    <3>2. u[1] = job[w] /\ \A v \in Tasks : Precedes(v, u) => Got(w, v) \/ v = t
      BY <3>1 DEF Frontier
    <3>3. CASE \A v \in Tasks : Precedes(v, u) => Got(w, v)
      BY <2>2, <3>1, <3>2, <3>3 DEF Added, Frontier
    <3>4. CASE ~\A v \in Tasks : Precedes(v, u) => Got(w, v)
      <4>1. Precedes(t, u)
        BY <3>2, <3>4
      <4>2. PICK p \in Tasks :
              /\ Precedes(p, u) /\ SetOf(p) # SetOf(u)
              /\ \A v \in Tasks : Precedes(v, u) => v = p \/ Precedes(v, p)
        BY <4>1, Predecessor
      <4>3. p = t
        <5>1. ~Precedes(t, p)
          BY <1>1, <3>2, <4>2, SlotOrder DEF IInv, GotInOrder
        <5> QED BY <4>1, <4>2, <5>1
      <4>4. PICK x \in Tasks : Latest(w, x) /\ SlotOf(x) = SlotOf(u) /\ SetOf(x) = SetOf(u)
        BY <3>1, SlotsType DEF IInv, BitsFollow, Bits
      <4>5. x # t /\ SlotOf(x) = SlotOf(t)
        BY <4>1, <4>2, <4>3, <4>4, SlotOrder
      <4>6. ~Precedes(x, t)
        BY <1>1, <4>4 DEF Latest
      <4>7. ~Precedes(t, x)
        <5>1. Added(w, x)
          BY <4>4 DEF Latest
        <5> QED BY <1>1, <5>1, AddedBefore DEF IInv
      <4> QED BY <4>5, <4>6, <4>7, SlotOrder
    <3> QED BY <3>3, <3>4
  <2> QED BY <2>1, <2>2
<1> QED BY <1>3, <1>4

\* What Accept does after task t, beside storing it: send the next packet of the slot
\* as task u, or stop the slot's timer.
SendsNext(w, t, u, p) ==
  /\ Batch(job[w]) = N /\ u[1] = t[1] /\ u[2] = t[2] + N /\ u[2] % N = t[2] % N
  /\ TaskOf(p) = u /\ p.job = u[1] /\ p.data = <<w, u[1], u[2]>>
  /\ p.short_job_id = ShortId(u[1])
  /\ p.pool = [slot |-> SlotOf(u), set |-> SetOf(u)]
  /\ up' = [up EXCEPT ![w] = Append(@, p)]
  /\ timers' = [timers EXCEPT ![w][u[2] % N] = TRUE]
  /\ args' = [args EXCEPT ![w][u[2] % N] =
                [job |-> u[1], pkt |-> u[2], pool |-> p.pool, long |-> FALSE]]

StopsTimer(w, t, i) ==
  /\ Batch(job[w]) = N => i = t[2] % N
  /\ timers' = [timers EXCEPT ![w][i] = FALSE]
  /\ UNCHANGED <<up, args>>

LEMMA AcceptStep ==
  ASSUME IInv, NEW w \in Workers, FullWindow(job[w]), NEW m \in down[w], running[w], job' = job,
         Accept(w, m), NEW t \in Tasks, t = TaskOf(m), Frontier(w, t)
  PROVE  \/ \E u \in Tasks, p \in Packet : SendsNext(w, t, u, p)
         \/ \E i \in Slots : StopsTimer(w, t, i)
<1>1. t[1] = m.job /\ t[2] = m.pkt /\ t[2] \in Nat /\ t[1] \in JobIds /\ t[1] = job[w]
  BY TasksType DEF TaskOf, Frontier
<1>2. PICK j \in JobIds : j = job[w] /\ j = t[1]
  BY <1>1
<1>3. PICK b \in Nat : b = Batch(j) /\ Total(j) \in Nat /\ b <= Total(j)
  BY SliceShape
<1>4. PICK n \in Nat : n = t[2] + b
  BY <1>1
<1>5. b = N => n % N = t[2] % N
  BY <1>1, <1>4, NextWindow
<1>6. CASE n < Total(j)
  <2>1. b = N
    BY <1>1, <1>2, <1>3, <1>4, <1>6, WindowIsFull
  <2>2. PICK u \in Tasks : u = <<j, n>>
    BY <1>6, TasksType
  <2>3. u[1] = j /\ u[2] = n
    BY <2>2
  <2>4. PktId2PoolIndex(n, shift[w]) = [slot |-> SlotOf(u), set |-> SetOf(u)]
    <3>1. shift[w] = Base(j) % (2 * N)
      BY <1>2 DEF IInv, WorkerFollows, ShiftFollows
    <3> QED BY <2>3, <3>1, PoolIndexOfTask
  <2>5. PICK p : p = [short_job_id |-> ShortId(j), job |-> j, pkt |-> n, data |-> <<w, j, n>>,
                      pool |-> [slot |-> SlotOf(u), set |-> SetOf(u)]]
    OBVIOUS
  <2>6. p \in Packet /\ TaskOf(p) = u /\ p.job = u[1] /\ p.data = <<w, u[1], u[2]>>
        /\ p.pool = [slot |-> SlotOf(u), set |-> SetOf(u)] /\ p.short_job_id = ShortId(u[1])
    <3>1. /\ u[1] \in JobIds /\ u[1] \in Nat /\ u[2] \in PktIds /\ <<w, u[1], u[2]>> \in Contribs
          /\ [slot |-> SlotOf(u), set |-> SetOf(u)] \in Pool
      BY TasksType, ContribsType, PoolIndexOfTask
    <3> QED BY <2>2, <2>3, <2>5, <3>1, ShortIdType DEF Packet, TaskOf
  <2>7. ArgsFor(w, n) = [job |-> u[1], pkt |-> u[2], pool |-> p.pool, long |-> FALSE]
    BY <1>2, <2>3, <2>4, <2>6 DEF ArgsFor
  <2>8. BuildPacket(w, j, n, ArgsFor(w, n).pool) = p
    BY <1>2, <2>3, <2>5, <2>6, <2>7 DEF BuildPacket
  <2>9. m.pkt + Batch(job[w]) = n /\ n < Total(job[w])
    BY <1>1, <1>2, <1>3, <1>4, <1>6
  <2>10. /\ up' = [up EXCEPT ![w] = Append(@, BuildPacket(w, job[w], n, ArgsFor(w, n).pool))]
         /\ timers' = [timers EXCEPT ![w][n % N] = TRUE]
         /\ args' = [args EXCEPT ![w][n % N] = ArgsFor(w, n)]
    BY <2>9 DEF Accept
  <2>11. up' = [up EXCEPT ![w] = Append(@, p)]
    BY <1>2, <2>8, <2>10
  <2>12. timers' = [timers EXCEPT ![w][u[2] % N] = TRUE]
    BY <2>3, <2>10
  <2>13. args' = [args EXCEPT ![w][u[2] % N] =
                    [job |-> u[1], pkt |-> u[2], pool |-> p.pool, long |-> FALSE]]
    BY <2>3, <2>7, <2>10
  <2>14. Batch(job[w]) = N /\ u[1] = t[1] /\ u[2] = t[2] + N /\ u[2] % N = t[2] % N
    BY <1>2, <1>3, <1>4, <1>5, <2>1, <2>3
  <2> QED BY <2>6, <2>11, <2>12, <2>13, <2>14 DEF SendsNext
<1>7. CASE ~(n < Total(j))
  <2>1. m.pkt + Batch(job[w]) = n /\ ~(n < Total(job[w]))
    BY <1>1, <1>2, <1>3, <1>4, <1>7
  <2>2. timers' = [timers EXCEPT ![w][n % N] = FALSE] /\ UNCHANGED <<up, args>>
    BY <2>1 DEF Accept
  <2>3. n % N \in Slots
    BY SlotsCount DEF Slots
  <2>4. Batch(job[w]) = N => n % N = t[2] % N
    BY <1>2, <1>3, <1>5
  <2> QED BY <2>2, <2>3, <2>4 DEF StopsTimer
<1> QED BY <1>6, <1>7

\* The timers other than that of the slot keep to packets still awaited.
LEMMA OtherTimers ==
  ASSUME IInv, NEW w \in Workers, NEW t \in Tasks, t[1] = job[w], NEW i \in Slots,
         running'[w] = running[w], job'[w] = job[w], shift'[w] = shift[w],
         received'[w] = received[w] \cup {t[2]},
         timers'[w][i] = timers[w][i], args'[w][i] = args[w][i],
         Batch(job[w]) = N => i # t[2] % N
  PROVE  TimerFollows(w, i)'
<1>1. TimerFollows(w, i)
  BY DEF IInv, WorkerFollows
<1>2. ASSUME timers[w][i], ~args[w][i].long PROVE args[w][i].pkt # t[2]
  BY <1>1, <1>2 DEF TimerFollows
<1> QED BY <1>1, <1>2 DEF TimerFollows

LEMMA AcceptInv ==
  ASSUME IInv, NEW w \in Workers, FullWindow(job[w]), NEW m \in down[w], running[w],
         Accept(w, m), Recent(w, m), down' = [down EXCEPT ![w] = @ \ {m}],
         UNCHANGED <<job, running, shift, misfired, bitmap, count, value>>
  PROVE  IInv'
<1>1. IsNew(w, m) /\ received' = [received EXCEPT ![w] = @ \cup {m.pkt}]
      /\ out' = [out EXCEPT ![w] = @ \cup {[job |-> job[w], pkt |-> m.pkt, val |-> m.val]}]
  BY DEF Accept
<1>2. PICK t \in Tasks :
           /\ t = TaskOf(m) /\ t[1] = job[w] /\ t[1] = m.job /\ t[2] = m.pkt /\ m \in Message
           /\ Frontier(w, t) /\ w \in Bits(t) /\ m.val = Reduced(m.job, m.pkt)
           /\ \A v \in Workers : Added(v, t)
  BY <1>1, AcceptedTask
<1>3. /\ received'[w] = received[w] \cup {t[2]}
      /\ \A v \in Workers : v # w => received'[v] = received[v]
      /\ \A v \in Workers : down'[v] \subseteq down[v]
      /\ job \in [Workers -> Nat] /\ job' \in [Workers -> Nat]
  <2>1. /\ received \in [Workers -> SUBSET PktIds] /\ down \in [Workers -> SUBSET Message]
        /\ job \in [Workers -> Nat]
    BY Ranges DEF IInv, TypeOK
  <2> QED BY <1>1, <1>2, <2>1
<1>4. PICK r \in Result : /\ r.val = Reduced(r.job, r.pkt)
                          /\ out' = [out EXCEPT ![w] = @ \cup {r}]
  <2>1. [job |-> job[w], pkt |-> m.pkt, val |-> m.val] \in Result
    BY <1>2 DEF Message, Result
  <2> QED BY <1>1, <1>2, <2>1
<1>5. \A u \in Tasks : Got(w, u)' <=> Got(w, u) \/ u = t
  <2>1. ASSUME NEW u \in Tasks PROVE u = t <=> u[1] = t[1] /\ u[2] = t[2]
    BY TasksType
  <2> QED BY <1>2, <1>3, <2>1 DEF Got
<1>6. \A v \in Workers : v # w => \A u \in Tasks : (Got(v, u)' <=> Got(v, u))
                                                   /\ (Added(v, u)' <=> Added(v, u))
  BY <1>3, AddedUnchanged
<1>7. \A u \in Tasks : Added(w, u)' <=> Added(w, u)
  BY <1>2, <1>5, AddedAfterAccept
<1>8. \A v \in Workers, u \in Tasks : /\ Got(v, u) => Got(v, u)'
                                      /\ Added(v, u)' <=> Added(v, u)
  BY <1>5, <1>6, <1>7
<1>9. /\ ~Got(w, t) /\ \A u \in Tasks : Precedes(u, t) => Got(w, u)
  BY <1>2 DEF Frontier
<1>10. GotInOrder' /\ Lockstep' /\ BitsFollow' /\ RegistersFollow'
  <2>1. GotInOrder'
    <3> SUFFICES ASSUME NEW v \in Workers, NEW x \in Tasks, NEW u \in Tasks,
                        Got(v, x)', Precedes(u, x)
                 PROVE  Got(v, u)'
      BY DEF GotInOrder
    <3>1. Got(v, x) \/ (v = w /\ x = t)
      BY <1>5, <1>6
    <3>2. Got(v, x) => Got(v, u)
      BY DEF IInv, GotInOrder
    <3> QED BY <1>8, <1>9, <3>1, <3>2
  <2>2. Lockstep'
    <3> SUFFICES ASSUME NEW x \in Workers, NEW v \in Workers, NEW u \in Tasks, Got(x, u)'
                 PROVE  Added(v, u)'
      BY DEF Lockstep
    <3>1. Got(x, u) \/ u = t
      BY <1>5, <1>6
    <3>2. Added(v, u)
      BY <1>2, <3>1 DEF IInv, Lockstep
    <3> QED BY <1>8, <3>2
  <2>3. UNCHANGED switchVars
    BY DEF switchVars
  <2>4. BitsFollow' /\ RegistersFollow'
    BY <1>8, <2>3, SwitchUnchanged DEF IInv
  <2> QED BY <2>1, <2>2, <2>4
<1>11. DownlinkExact' /\ OutExact'
  <2>1. ASSUME NEW v \in Workers, NEW n \in down'[v]
        PROVE  /\ TaskOf(n) \in Tasks /\ \A x \in Workers : Added(x, TaskOf(n))'
               /\ n.short_job_id = ShortId(n.job)
               /\ ~Got(v, TaskOf(n))' => n.val = Reduced(n.job, n.pkt)
    <3>1. /\ TaskOf(n) \in Tasks /\ \A x \in Workers : Added(x, TaskOf(n))
          /\ n.short_job_id = ShortId(n.job)
          /\ ~Got(v, TaskOf(n)) => n.val = Reduced(n.job, n.pkt)
      BY <1>3 DEF IInv, DownlinkExact
    <3> QED BY <1>8, <3>1
  <2>2. DownlinkExact'
    BY <2>1 DEF DownlinkExact
  <2>3. OutExact'
    <3>1. out \in [Workers -> SUBSET Result]
      BY DEF IInv, TypeOK
    <3>2. \A v \in Workers : \A n \in out'[v] : n \in out[v] \/ n = r
      BY <1>4, <3>1
    <3> QED BY <1>4, <3>2 DEF IInv, OutExact
  <2> QED BY <2>2, <2>3
<1>12. /\ up \in [Workers -> Seq(Packet)] /\ timers \in [Workers -> [Slots -> BOOLEAN]]
       /\ args \in [Workers -> [Slots -> Args \cup {NoArgs}]]
  BY DEF IInv, TypeOK
<1>13. TypeOK'
  BY AcceptType, ImpliedTypes DEF TypeInv
<1>14. SliceFollows(w)' /\ ShiftFollows(w)'
  <2>1. SliceFollows(w) /\ ShiftFollows(w)
    BY DEF IInv, WorkerFollows
  <2>2. t[2] \in 0 .. Total(job[w]) - 1
    BY <1>2, TasksType, SliceShape
  <2>3. SliceFollows(w)'
    BY <1>3, <2>1, <2>2 DEF SliceFollows
  <2> QED BY <2>1, <2>3 DEF ShiftFollows
\* With the rest that depends on whether there is a next packet, the step keeps all.
<1>15. ASSUME up' \in [Workers -> Seq(Packet)], timers' \in [Workers -> [Slots -> BOOLEAN]],
              args' \in [Workers -> [Slots -> Args \cup {NoArgs}]],
              \A v \in Workers : v # w => /\ up'[v] = up[v] /\ timers'[v] = timers[v]
                                          /\ args'[v] = args[v],
              UplinkFollows(w)', \A i \in Slots : TimerFollows(w, i)'
       PROVE  IInv'
  <2>2. WorkerFollows(w)'
    BY <1>14, <1>15 DEF WorkerFollows
  <2>3. ASSUME NEW v \in Workers, v # w PROVE WorkerFollows(v)'
    <3>1. up'[v] = up[v] /\ timers'[v] = timers[v] /\ args'[v] = args[v]
      BY <1>15, <2>3
    <3> QED BY <1>3, <2>3, <3>1, WorkerUnchanged DEF IInv
  <2> QED BY <1>10, <1>11, <1>13, <2>2, <2>3 DEF IInv
<1>16. ASSUME NEW u \in Tasks, NEW p \in Packet, SendsNext(w, t, u, p)
       PROVE  IInv'
  <2>1. PICK i \in Slots : i = u[2] % N
    <3>1. u[2] % N \in Slots
      BY TasksType, SlotsCount DEF Slots
    <3> QED BY <3>1
  <2>2. PICK a \in Args : a = [job |-> u[1], pkt |-> u[2], pool |-> p.pool, long |-> FALSE]
    <3>1. u[1] \in JobIds /\ u[2] \in PktIds /\ p.pool \in Pool
      BY <1>16, TasksType, PoolIndexOfTask DEF SendsNext
    <3> QED BY <3>1 DEF Args
  <2>3. timers' = [timers EXCEPT ![w] = [timers[w] EXCEPT ![i] = TRUE]]
    BY <1>16, <2>1 DEF SendsNext
  <2>4. args' = [args EXCEPT ![w] = [args[w] EXCEPT ![i] = a]]
    BY <1>16, <2>1, <2>2 DEF SendsNext
  <2>5. /\ timers' \in [Workers -> [Slots -> BOOLEAN]] /\ timers'[w][i]
        /\ \A n \in Slots : n # i => timers'[w][n] = timers[w][n]
        /\ \A v \in Workers : v # w => timers'[v] = timers[v]
    BY <1>12, <2>3
  <2>6. /\ args' \in [Workers -> [Slots -> Args \cup {NoArgs}]] /\ args'[w][i] = a
        /\ \A n \in Slots : n # i => args'[w][n] = args[w][n]
        /\ \A v \in Workers : v # w => args'[v] = args[v]
    <3>1. [args[w] EXCEPT ![i] = a] \in [Slots -> Args \cup {NoArgs}]
      BY <1>12
    <3> QED BY <1>12, <2>4, <3>1
  <2>7. /\ up' \in [Workers -> Seq(Packet)] /\ up'[w] = Append(up[w], p)
        /\ \A v \in Workers : v # w => up'[v] = up[v]
    <3>1. Append(up[w], p) \in Seq(Packet)
      BY <1>12, AppendProperties
    <3> QED BY <1>12, <1>16, <3>1 DEF SendsNext
  <2>8. Precedes(t, u) /\ \A v \in Tasks : Precedes(v, u) => v = t \/ Precedes(v, t)
    BY <1>16, Successor DEF SendsNext
  <2>9. ~Got(w, u) /\ \A v \in Tasks : Precedes(v, u) => Got(w, v)'
    BY <1>5, <1>9, <2>8 DEF IInv, GotInOrder
  <2>10. \A v \in Tasks : Precedes(u, v) => ~Added(w, v)
    BY <2>9, AddedBefore DEF IInv
  <2>11. UplinkFollows(w)'
    <3>1. PacketTimely(w, p)'
      BY <1>8, <1>16, <2>9, <2>10 DEF PacketTimely, SendsNext
    <3>2. PacketSound(w, p)'
      <4>1. p.job <= job'[w]
        <5>1. job'[w] = job[w] /\ job[w] \in Nat
          BY <1>3
        <5> QED BY <1>2, <1>16, <5>1 DEF SendsNext
      <4>2. p.pkt = u[2]
        BY <1>16 DEF TaskOf, SendsNext
      <4> QED BY <1>16, <4>1, <4>2 DEF PacketSound, SendsNext
    <3>3. PICK s : s = <<p>>
      OBVIOUS
    <3>4. s \in Seq(Packet) /\ Len(s) = 1 /\ s[1] = p /\ up'[w] = up[w] \o s
      <4>1. s \in Seq(Packet) /\ Len(s) = 1 /\ s[1] = p
        BY <3>3
      <4>2. Append(up[w], p) = up[w] \o <<p>>
        BY <1>12, AppendIsConcat
      <4> QED BY <2>7, <3>3, <4>1, <4>2
    <3>5. \A n \in 1 .. Len(s) : n = 1
      BY <3>4
    <3>6. \A n \in 1 .. Len(s) : /\ PacketSound(w, s[n])' /\ PacketTimely(w, s[n])'
                                 /\ ~Got(w, TaskOf(s[n]))
      BY <1>16, <2>9, <3>1, <3>2, <3>4, <3>5 DEF SendsNext
    <3>7. \A k, n \in 1 .. Len(s) : ~(k < n)
      BY <3>5
    <3>8. UplinkFollows(w) /\ up[w] \in Seq(Packet) /\ job[w] <= job'[w]
      BY <1>3, <1>12 DEF IInv, WorkerFollows
    <3> QED BY <1>3, <1>8, <3>4, <3>6, <3>7, <3>8, UplinkExtended
  <2>12. \A n \in Slots : TimerFollows(w, n)'
    <3>1. ASSUME NEW n \in Slots, n # i PROVE TimerFollows(w, n)'
      <4>1. timers'[w][n] = timers[w][n] /\ args'[w][n] = args[w][n] /\ n # t[2] % N
        BY <1>16, <2>1, <2>5, <2>6, <3>1 DEF SendsNext
      <4>2. running'[w] = running[w] /\ job'[w] = job[w] /\ shift'[w] = shift[w]
        OBVIOUS
      <4> QED BY <1>2, <1>3, <4>1, <4>2, OtherTimers
    <3>2. TimerFollows(w, i)'
      <4>1. /\ a.job = u[1] /\ a.pkt = u[2] /\ a.pool = p.pool /\ ~a.long
        BY <2>2
      <4>2. /\ u[1] = job[w] /\ u[2] < Total(job[w]) /\ u[2] % N = i
            /\ u[2] >= N /\ u[2] - N = t[2] /\ u[2] # t[2]
        <5>1. /\ u[1] = t[1] /\ u[2] = t[2] + N /\ u[2] % N = i
              /\ t[2] \in Nat /\ u[2] < Total(u[1])
          BY <1>16, <2>1, TasksType DEF SendsNext
        <5>2. u[1] = job[w]
          BY <1>2, <5>1
        <5>3. u[2] >= N /\ u[2] - N = t[2] /\ u[2] # t[2]
          BY <5>1, SlotsCount
        <5> QED BY <5>1, <5>2, <5>3
      <4>3. u[2] \notin received'[w]
        BY <1>2, <1>3, <2>9, <4>2 DEF Got
      <4>4. p.pool = PktId2PoolIndex(u[2], shift[w])
        <5>1. shift[w] = Base(job[w]) % (2 * N)
          BY DEF IInv, WorkerFollows, ShiftFollows
        <5> QED BY <1>16, <4>2, <5>1, PoolIndexOfTask DEF SendsNext
      <4>5. t[2] \in received'[w]
        BY <1>3
      <4>6. PktId2PoolIndex(u[2], shift[w]) = PktId2PoolIndex(u[2], shift'[w])
        OBVIOUS
      <4> QED BY <1>16, <2>6, <4>1, <4>2, <4>3, <4>4, <4>5, <4>6 DEF TimerFollows, SendsNext
    <3> QED BY <3>1, <3>2
  <2> QED BY <1>15, <2>5, <2>6, <2>7, <2>11, <2>12
<1>17. ASSUME NEW i \in Slots, StopsTimer(w, t, i)
       PROVE  IInv'
  <2>1. timers' = [timers EXCEPT ![w] = [timers[w] EXCEPT ![i] = FALSE]]
    BY <1>17 DEF StopsTimer
  <2>2. /\ timers' \in [Workers -> [Slots -> BOOLEAN]] /\ ~timers'[w][i]
        /\ \A n \in Slots : n # i => timers'[w][n] = timers[w][n]
        /\ \A v \in Workers : v # w => timers'[v] = timers[v]
    BY <1>12, <2>1
  <2>3. UplinkFollows(w)'
    <3>1. UplinkFollows(w) /\ up'[w] = up[w] /\ job[w] <= job'[w]
      BY <1>3, <1>17 DEF IInv, WorkerFollows, StopsTimer
    <3> QED BY <1>3, <1>8, <3>1, UplinkUnchanged
  <2>4. \A n \in Slots : TimerFollows(w, n)'
    <3>1. ASSUME NEW n \in Slots, n # i PROVE TimerFollows(w, n)'
      <4>1. /\ timers'[w][n] = timers[w][n] /\ args'[w][n] = args[w][n]
            /\ Batch(job[w]) = N => n # t[2] % N
        BY <1>17, <2>2, <3>1 DEF StopsTimer
      <4>2. running'[w] = running[w] /\ job'[w] = job[w] /\ shift'[w] = shift[w]
        OBVIOUS
      <4> QED BY <1>2, <1>3, <4>1, <4>2, OtherTimers
    <3>2. TimerFollows(w, i)'
      BY <2>2 DEF TimerFollows
    <3> QED BY <3>1, <3>2
  <2> QED BY <1>12, <1>15, <1>17, <2>2, <2>3, <2>4 DEF StopsTimer
<1>18. running[w] /\ job' = job /\ Accept(w, m) /\ t = TaskOf(m) /\ Frontier(w, t)
  BY <1>2
<1> QED BY <1>16, <1>17, <1>18, AcceptStep

LEMMA ReceiveInv ==
  ASSUME IInv, NEW w \in Workers, FullWindow(job[w]), NEW m \in down[w], Receive(w, m)
  PROVE  IInv'
<1>1. /\ running[w] /\ Recent(w, m) /\ down' = [down EXCEPT ![w] = @ \ {m}]
      /\ UNCHANGED <<job, running, shift, misfired, bitmap, count, value>>
      /\ Accept(w, m) \/ Discard(w, m)
  BY DEF Receive, switchVars
<1>2. CASE Accept(w, m)
  BY <1>1, <1>2, AcceptInv
<1>3. CASE Discard(w, m)
  <2>1. UNCHANGED <<out, received, up, timers, args>>
    BY <1>3 DEF Discard
  <2> QED BY <1>1, <2>1, LessDownInv
<1> QED BY <1>1, <1>2, <1>3

-----------------------------------------------------------------------------
(* Switch *)

\* What the two passes of a packet come to: nothing, an answer to the sender, or one
\* to all.
Answer(flag, seen) ==
  IF NextStepConsume0(flag, seen) = "recirculate_for_HARVEST7"
  THEN NextStepHarvest7(flag, seen) ELSE "drop"

AnswerTo(w, t) ==
  Answer(FirstLastFlag(count[SlotOf(t)][SetOf(t)], w \in Bits(t)), w \in Bits(t))

SumAfter(w, t) ==
  RegisterAfter(Bits(t), w \in Bits(t), value[SlotOf(t)][SetOf(t)], Unit(<<w, t[1], t[2]>>))

AnswerFor(w, t) == [short_job_id |-> ShortId(t[1]), job |-> t[1], pkt |-> t[2],
                    val |-> SumAfter(w, t)]

\* Switch, of a packet for task t.
SwitchTakes(w, t) ==
  /\ up[w] # <<>> /\ t = TaskOf(Head(up[w])) /\ t[1] <= job[w]
  /\ \A u \in Tasks : /\ Precedes(u, t) => Got(w, u)
                      /\ Precedes(t, u) => ~Added(w, u)
  /\ bitmap' = [bitmap EXCEPT ![SlotOf(t)] = UpdateBitmap(@, w, SetOf(t))]
  /\ count' = [count EXCEPT ![SlotOf(t)][SetOf(t)] = CountAfter(@, w \in Bits(t))]
  /\ value' = [value EXCEPT ![SlotOf(t)][SetOf(t)] = SumAfter(w, t)]
  /\ down' = [v \in Workers |->
                IF AnswerTo(w, t) = "broadcast" \/ (AnswerTo(w, t) = "retransmit" /\ v = w)
                THEN down[v] \cup {AnswerFor(w, t)}
                ELSE down[v]]
  /\ up' = [up EXCEPT ![w] = Tail(@)]
  /\ UNCHANGED workerVars

LEMMA SwitchTask ==
  ASSUME IInv, NEW w \in Workers, Switch(w)
  PROVE  \E t \in Tasks : SwitchTakes(w, t)
<1>1. up[w] # <<>> /\ up[w] \in Seq(Packet)
  BY Ranges DEF Switch, IInv
<1>2. 1 \in 1 .. Len(up[w]) /\ Head(up[w]) = up[w][1]
  <2>1. Len(up[w]) \in Nat /\ Len(up[w]) # 0
    BY <1>1, LenProperties, EmptySeq
  <2> QED BY <1>1, <2>1
<1>3. PICK p : p = Head(up[w])
  OBVIOUS
<1>4. PacketSound(w, p) /\ PacketTimely(w, p)
  BY <1>2, <1>3 DEF IInv, WorkerFollows, UplinkFollows
<1>5. PICK t \in Tasks : t = TaskOf(p)
  BY <1>4 DEF PacketSound
<1>6. t[1] = p.job /\ t[2] = p.pkt
  BY <1>5 DEF TaskOf
<1>7. /\ p.pool.slot = SlotOf(t) /\ p.pool.set = SetOf(t) /\ p.data = <<w, t[1], t[2]>>
      /\ t[1] <= job[w] /\ p.short_job_id = ShortId(t[1])
  BY <1>4, <1>5, <1>6 DEF PacketSound
<1>8. \A u \in Tasks : /\ Precedes(u, t) => Got(w, u)
                       /\ Precedes(t, u) => ~Added(w, u)
  BY <1>4, <1>5 DEF PacketTimely
<1>9. /\ bitmap' = [bitmap EXCEPT ![SlotOf(t)] = UpdateBitmap(@, w, SetOf(t))]
      /\ count' = [count EXCEPT ![SlotOf(t)][SetOf(t)] = CountAfter(@, w \in Bits(t))]
      /\ value' = [value EXCEPT ![SlotOf(t)][SetOf(t)] = SumAfter(w, t)]
      /\ down' = [v \in Workers |->
                    IF AnswerTo(w, t) = "broadcast" \/ (AnswerTo(w, t) = "retransmit" /\ v = w)
                    THEN down[v] \cup {AnswerFor(w, t)}
                    ELSE down[v]]
  BY <1>3, <1>6, <1>7 DEF Switch, MapResult, Bits, SumAfter, AnswerTo, Answer, AnswerFor
<1> QED BY <1>1, <1>3, <1>5, <1>7, <1>8, <1>9 DEF Switch, SwitchTakes

\* A packet that was seen is answered to its sender at most, and only when no worker
\* is missing; one that was not is answered when it was the last that was missing.
LEMMA Answers ==
  ASSUME NEW c \in 0 .. NumWorkers - 1
  PROVE  /\ Answer(FirstLastFlag(c, TRUE), TRUE) # "broadcast"
         /\ Answer(FirstLastFlag(c, TRUE), TRUE) = "retransmit" => c = 0 \/ NumWorkers = 1
         /\ Answer(FirstLastFlag(c, FALSE), FALSE) # "retransmit"
         /\ Answer(FirstLastFlag(c, FALSE), FALSE) = "broadcast" => c = 1 \/ NumWorkers = 1
<1>1. c \in Nat /\ NumWorkers \in Nat
  BY WorkersCount
<1>2. ASSUME NEW flag \in Nat
      PROVE  /\ Answer(flag, TRUE) # "broadcast"
             /\ Answer(flag, TRUE) = "retransmit" => flag = 0
             /\ Answer(flag, FALSE) # "retransmit"
             /\ Answer(flag, FALSE) = "broadcast" => flag = 1
  BY DEF Answer, NextStepHarvest7, FIRST, LAST
<1>3. /\ FirstLastFlag(c, TRUE) = IF NumWorkers = 1 THEN 0 ELSE c
      /\ FirstLastFlag(c, FALSE) = IF NumWorkers = 1 THEN 1 ELSE c
  BY DEF FirstLastFlag
<1> QED BY <1>1, <1>2, <1>3

LEMMA SumType ==
  ASSUME TypeOK, NEW w \in Workers, NEW t \in Tasks
  PROVE  SumAfter(w, t) \in [Contribs -> Nat]
<1>1. value[SlotOf(t)][SetOf(t)] \in [Contribs -> Nat]
  BY SlotsType DEF TypeOK
<1>2. Unit(<<w, t[1], t[2]>>) \in [Contribs -> Nat]
  BY ContribsType, UnitType
<1>3. Add(value[SlotOf(t)][SetOf(t)], Unit(<<w, t[1], t[2]>>)) \in [Contribs -> Nat]
  BY <1>1, <1>2 DEF Add
<1> QED BY <1>1, <1>2, <1>3 DEF SumAfter, RegisterAfter

\* What the switch does, spelled out per slot and set.
LEMMA SwitchEffect ==
  ASSUME TypeOK, NEW w \in Workers, NEW t \in Tasks, SwitchTakes(w, t)
  PROVE  /\ TypeOK'
         /\ bitmap'[SlotOf(t)][SetOf(t)] = Bits(t) \cup {w}
         /\ \A s \in Sets : s # SetOf(t) => bitmap'[SlotOf(t)][s] = bitmap[SlotOf(t)][s] \ {w}
         /\ count'[SlotOf(t)][SetOf(t)] = CountAfter(count[SlotOf(t)][SetOf(t)], w \in Bits(t))
         /\ value'[SlotOf(t)][SetOf(t)] = SumAfter(w, t)
         /\ \A s \in Sets : s # SetOf(t) => /\ count'[SlotOf(t)][s] = count[SlotOf(t)][s]
                                            /\ value'[SlotOf(t)][s] = value[SlotOf(t)][s]
         /\ \A i \in Slots : i # SlotOf(t) => /\ bitmap'[i] = bitmap[i] /\ count'[i] = count[i]
                                              /\ value'[i] = value[i]
         /\ \A v \in Workers : /\ down[v] \subseteq down'[v]
                               /\ \A m \in down'[v] :
                                    \/ m \in down[v]
                                    \/ /\ m = AnswerFor(w, t)
                                       /\ AnswerTo(w, t) \in {"broadcast", "retransmit"}
         /\ up'[w] = Tail(up[w]) /\ \A v \in Workers : v # w => up'[v] = up[v]
<1>1. PICK i \in Slots : i = SlotOf(t)
  BY SlotsType
<1>2. PICK s \in Sets : s = SetOf(t)
  BY SlotsType
<1>3. /\ bitmap \in [Slots -> [Sets -> SUBSET Workers]]
      /\ count \in [Slots -> [Sets -> 0 .. NumWorkers - 1]]
      /\ value \in [Slots -> [Sets -> [Contribs -> Nat]]]
      /\ up \in [Workers -> Seq(Packet)] /\ down \in [Workers -> SUBSET Message]
  BY DEF TypeOK
<1>4. PICK sum \in [Contribs -> Nat] : sum = SumAfter(w, t)
  BY SumType
<1>5. PICK m \in Message : m = AnswerFor(w, t)
  <2>1. t[1] \in JobIds /\ t[1] \in Nat /\ t[2] \in PktIds
    BY TasksType
  <2> QED BY <2>1, SumType, ShortIdType DEF Message, AnswerFor
<1>6. PICK c \in 0 .. NumWorkers - 1 : c = CountAfter(count[i][s], w \in Bits(t))
  <2>1. count[i][s] \in 0 .. NumWorkers - 1
    BY <1>3
  <2>2. (IF count[i][s] = 0 THEN NumWorkers - 1 ELSE count[i][s] - 1) \in 0 .. NumWorkers - 1
    BY <2>1, WorkersCount
  <2> QED BY <2>1, <2>2 DEF CountAfter
<1>7. PICK b \in [Sets -> SUBSET Workers] : b = UpdateBitmap(bitmap[i], w, s)
  <2>1. bitmap[i] \in [Sets -> SUBSET Workers]
    BY <1>3
  <2> QED BY <2>1 DEF UpdateBitmap
<1>8. b[s] = bitmap[i][s] \cup {w} /\ \A r \in Sets : r # s => b[r] = bitmap[i][r] \ {w}
  BY <1>7 DEF UpdateBitmap
<1>9. bitmap' = [bitmap EXCEPT ![i] = b]
  BY <1>1, <1>2, <1>7 DEF SwitchTakes
<1>10. count' = [count EXCEPT ![i] = [count[i] EXCEPT ![s] = c]]
  BY <1>1, <1>2, <1>6 DEF SwitchTakes
<1>11. value' = [value EXCEPT ![i] = [value[i] EXCEPT ![s] = sum]]
  BY <1>1, <1>2, <1>4 DEF SwitchTakes
<1>12. /\ bitmap' \in [Slots -> [Sets -> SUBSET Workers]] /\ bitmap'[i] = b
       /\ \A j \in Slots : j # i => bitmap'[j] = bitmap[j]
  BY <1>3, <1>9
<1>13. /\ count' \in [Slots -> [Sets -> 0 .. NumWorkers - 1]] /\ count'[i][s] = c
       /\ \A r \in Sets : r # s => count'[i][r] = count[i][r]
       /\ \A j \in Slots : j # i => count'[j] = count[j]
  <2>1. [count[i] EXCEPT ![s] = c] \in [Sets -> 0 .. NumWorkers - 1]
    BY <1>3
  <2> QED BY <1>3, <1>10, <2>1
<1>14. /\ value' \in [Slots -> [Sets -> [Contribs -> Nat]]] /\ value'[i][s] = sum
       /\ \A r \in Sets : r # s => value'[i][r] = value[i][r]
       /\ \A j \in Slots : j # i => value'[j] = value[j]
  <2>1. [value[i] EXCEPT ![s] = sum] \in [Sets -> [Contribs -> Nat]]
    BY <1>3
  <2> QED BY <1>3, <1>11, <2>1
<1>15. /\ down' \in [Workers -> SUBSET Message]
       /\ \A v \in Workers : /\ down[v] \subseteq down'[v]
                             /\ \A n \in down'[v] :
                                  n \in down[v]
                                  \/ (n = m /\ AnswerTo(w, t) \in {"broadcast", "retransmit"})
  <2>1. down' = [v \in Workers |->
                   IF AnswerTo(w, t) = "broadcast" \/ (AnswerTo(w, t) = "retransmit" /\ v = w)
                   THEN down[v] \cup {m} ELSE down[v]]
    BY <1>5 DEF SwitchTakes
  <2>2. \A v \in Workers :
          /\ down'[v] = down[v] \/ (down'[v] = down[v] \cup {m}
                                    /\ AnswerTo(w, t) \in {"broadcast", "retransmit"})
    BY <2>1
  <2>3. down' \in [Workers -> SUBSET Message]
    BY <1>3, <2>1
  <2> QED BY <2>2, <2>3
<1>16. /\ up' \in [Workers -> Seq(Packet)] /\ up'[w] = Tail(up[w])
       /\ \A v \in Workers : v # w => up'[v] = up[v]
  <2>1. up[w] # <<>> /\ up' = [up EXCEPT ![w] = Tail(@)]
    BY DEF SwitchTakes
  <2>2. Tail(up[w]) \in Seq(Packet)
    BY <1>3, <2>1, HeadTailProperties
  <2> QED BY <1>3, <2>1, <2>2
<1>17. TypeOK'
  <2>1. UNCHANGED <<job, running, shift, received, out, timers, args, misfired>>
    BY DEF SwitchTakes, workerVars
  <2> QED BY <1>12, <1>13, <1>14, <1>15, <1>16, <2>1 DEF TypeOK
<1>18. Bits(t) = bitmap[i][s]
  BY <1>1, <1>2 DEF Bits
<1> QED BY <1>1, <1>2, <1>4, <1>5, <1>6, <1>8, <1>12, <1>13, <1>14, <1>15, <1>16, <1>17, <1>18

\* The registers are full when the count says that no worker is missing.
LEMMA AllAdded ==
  ASSUME NEW t \in Tasks, Cardinality(Adders(t)) = NumWorkers
  PROVE  \A v \in Workers : Added(v, t)
<1>1. IsFiniteSet(Workers) /\ Adders(t) \in SUBSET Workers
  BY WorkersAssumption DEF Adders
<1>2. Adders(t) = Workers
  BY <1>1, FS_Subset DEF NumWorkers
<1> QED BY <1>2 DEF Adders

LEMMA FullSum ==
  ASSUME NEW t \in Tasks, \A v \in Workers : Added(v, t)
  PROVE  PartialSum(t) = Reduced(t[1], t[2])
BY ContribsType DEF PartialSum, Reduced

LEMMA AddersCount ==
  ASSUME NEW t \in Tasks
  PROVE  /\ IsFiniteSet(Adders(t)) /\ Cardinality(Adders(t)) \in Nat
         /\ Cardinality(Adders(t)) <= NumWorkers
         /\ \A v \in Workers : Added(v, t) => Cardinality(Adders(t)) > 0
         /\ \A v \in Workers : ~Added(v, t) => Cardinality(Adders(t)) < NumWorkers
         /\ (\A v \in Workers : Added(v, t)) => Cardinality(Adders(t)) = NumWorkers
<1>1. IsFiniteSet(Workers) /\ Adders(t) \in SUBSET Workers /\ NumWorkers \in Nat
  BY WorkersAssumption, WorkersCount DEF Adders
<1>2. /\ IsFiniteSet(Adders(t)) /\ Cardinality(Adders(t)) <= NumWorkers
      /\ NumWorkers = Cardinality(Adders(t)) => Workers = Adders(t)
  BY <1>1, FS_Subset DEF NumWorkers
<1>3. Cardinality(Adders(t)) \in Nat /\ (Cardinality(Adders(t)) = 0 <=> Adders(t) = {})
  BY <1>2, FS_CardinalityType, FS_EmptySet
<1>4. \A v \in Workers : Added(v, t) <=> v \in Adders(t)
  BY DEF Adders
<1>5. (\A v \in Workers : Added(v, t)) => Adders(t) = Workers
  BY DEF Adders
<1>6. (\A v \in Workers : Added(v, t)) => Cardinality(Adders(t)) = NumWorkers
  BY <1>5 DEF NumWorkers
<1> QED BY <1>1, <1>2, <1>3, <1>4, <1>6

\* A packet the slot holds already changes nothing, and its answer is the full sum.
LEMMA SwitchAgainInv ==
  ASSUME IInv, NEW w \in Workers, NEW t \in Tasks, SwitchTakes(w, t), w \in Bits(t)
  PROVE  IInv'
<1>1. /\ up[w] # <<>> /\ t = TaskOf(Head(up[w])) /\ UNCHANGED workerVars
      /\ \A u \in Tasks : /\ Precedes(u, t) => Got(w, u)
                          /\ Precedes(t, u) => ~Added(w, u)
  BY DEF SwitchTakes
<1>2. TypeOK /\ TypeOK'
  BY SwitchEffect DEF IInv
<1>3. SlotOf(t) \in Slots /\ SetOf(t) \in Sets
  BY SlotsType
<1>4. Added(w, t)
  BY <1>1, BitIsFree DEF IInv
<1>5. Latest(w, t) /\ \A s \in Sets : w \in bitmap[SlotOf(t)][s] => s = SetOf(t)
  BY <1>1, <1>4, BitIsSet DEF IInv
<1>6. SumAfter(w, t) = value[SlotOf(t)][SetOf(t)]
  <2>1. (w \in Bits(t)) = TRUE /\ Bits(t) # {}
    OBVIOUS
  <2> QED BY <2>1 DEF SumAfter, RegisterAfter
<1>7. CountAfter(count[SlotOf(t)][SetOf(t)], w \in Bits(t)) = count[SlotOf(t)][SetOf(t)]
  BY DEF CountAfter
<1>8. bitmap' = bitmap /\ count' = count /\ value' = value
  <2>1. /\ bitmap \in [Slots -> [Sets -> SUBSET Workers]]
        /\ bitmap' \in [Slots -> [Sets -> SUBSET Workers]]
        /\ count \in [Slots -> [Sets -> 0 .. NumWorkers - 1]]
        /\ count' \in [Slots -> [Sets -> 0 .. NumWorkers - 1]]
        /\ value \in [Slots -> [Sets -> [Contribs -> Nat]]]
        /\ value' \in [Slots -> [Sets -> [Contribs -> Nat]]]
    BY <1>2 DEF TypeOK
  <2>2. ASSUME NEW i \in Slots, NEW s \in Sets
        PROVE  bitmap'[i][s] = bitmap[i][s] /\ count'[i][s] = count[i][s] /\ value'[i][s] = value[i][s]
    <3>1. CASE i # SlotOf(t)
      BY <1>2, <3>1, SwitchEffect
    <3>2. CASE i = SlotOf(t) /\ s # SetOf(t)
      <4>1. /\ bitmap'[SlotOf(t)][s] = bitmap[SlotOf(t)][s] \ {w}
            /\ count'[SlotOf(t)][s] = count[SlotOf(t)][s]
            /\ value'[SlotOf(t)][s] = value[SlotOf(t)][s]
        BY <1>2, <3>2, SwitchEffect
      <4>2. w \notin bitmap[SlotOf(t)][s]
        BY <1>5, <3>2
      <4>3. bitmap[SlotOf(t)][s] \ {w} = bitmap[SlotOf(t)][s]
        BY <4>2
      <4> QED BY <3>2, <4>1, <4>3
    <3>3. CASE i = SlotOf(t) /\ s = SetOf(t)
      <4>1. /\ bitmap'[SlotOf(t)][SetOf(t)] = Bits(t) \cup {w}
            /\ count'[SlotOf(t)][SetOf(t)] = CountAfter(count[SlotOf(t)][SetOf(t)], w \in Bits(t))
            /\ value'[SlotOf(t)][SetOf(t)] = SumAfter(w, t)
        BY <1>2, SwitchEffect
      <4>2. Bits(t) \cup {w} = bitmap[SlotOf(t)][SetOf(t)]
        BY DEF Bits
      <4> QED BY <1>6, <1>7, <3>3, <4>1, <4>2
    <3> QED BY <3>1, <3>2, <3>3
  <2>3. \A i \in Slots : bitmap'[i] = bitmap[i]
    BY <2>1, <2>2
  <2>4. \A i \in Slots : count'[i] = count[i]
    BY <2>1, <2>2
  <2>5. \A i \in Slots : value'[i] = value[i]
    BY <2>1, <2>2
  <2>6. bitmap' = bitmap
    BY <2>1, <2>3
  <2>7. count' = count
    BY <2>1, <2>4
  <2>8. value' = value
    BY <2>1, <2>5
  <2> QED BY <2>6, <2>7, <2>8
<1>9. UNCHANGED <<job, running, shift, received, out, timers, args>> /\ UNCHANGED switchVars
  BY <1>1, <1>8 DEF workerVars, switchVars
<1>10. \A v \in Workers, u \in Tasks : /\ Got(v, u)' <=> Got(v, u)
                                       /\ Added(v, u)' <=> Added(v, u)
  BY <1>8, <1>9, AddedUnchanged
<1>11. GotInOrder' /\ Lockstep' /\ BitsFollow' /\ RegistersFollow' /\ OutExact'
  <2>1. BitsFollow' /\ RegistersFollow'
    BY <1>9, <1>10, SwitchUnchanged DEF IInv
  <2>2. GotInOrder'
    BY <1>10 DEF IInv, GotInOrder
  <2>3. Lockstep'
    BY <1>10 DEF IInv, Lockstep
  <2>4. OutExact'
    BY <1>9 DEF IInv, OutExact
  <2> QED BY <2>1, <2>2, <2>3, <2>4
<1>12. AnswerTo(w, t) \in {"broadcast", "retransmit"} =>
         /\ \A v \in Workers : Added(v, t)
         /\ SumAfter(w, t) = Reduced(t[1], t[2])
  <2> SUFFICES ASSUME AnswerTo(w, t) \in {"broadcast", "retransmit"}
               PROVE  /\ \A v \in Workers : Added(v, t)
                      /\ SumAfter(w, t) = Reduced(t[1], t[2])
    OBVIOUS
  <2>1. PICK c \in 0 .. NumWorkers - 1 : c = count[SlotOf(t)][SetOf(t)]
    BY <1>2, <1>3 DEF TypeOK
  <2>2. (w \in Bits(t)) = TRUE
    OBVIOUS
  <2>3. AnswerTo(w, t) = Answer(FirstLastFlag(c, TRUE), TRUE)
    BY <2>1, <2>2 DEF AnswerTo
  <2>4. c = 0 \/ NumWorkers = 1
    BY <2>3, Answers
  <2>5. c = NumWorkers - Cardinality(Adders(t)) /\ value[SlotOf(t)][SetOf(t)] = PartialSum(t)
    BY <1>5, <2>1 DEF IInv, RegistersFollow
  <2>6. Cardinality(Adders(t)) = NumWorkers
    BY <1>4, <2>4, <2>5, AddersCount, WorkersCount
  <2>7. \A v \in Workers : Added(v, t)
    BY <2>6, AllAdded
  <2> QED BY <1>6, <2>5, <2>7, FullSum
<1>13. DownlinkExact'
  <2>1. ASSUME NEW v \in Workers, NEW n \in down'[v]
        PROVE  /\ TaskOf(n) \in Tasks /\ \A x \in Workers : Added(x, TaskOf(n))
               /\ n.short_job_id = ShortId(n.job)
               /\ ~Got(v, TaskOf(n)) => n.val = Reduced(n.job, n.pkt)
    <3>1. CASE n \in down[v]
      BY <3>1 DEF IInv, DownlinkExact
    <3>2. CASE /\ n = AnswerFor(w, t)
               /\ AnswerTo(w, t) \in {"broadcast", "retransmit"}
      <4>1. TaskOf(n) = t
        BY <3>2, TasksType DEF TaskOf, AnswerFor
      <4> QED BY <1>12, <3>2, <4>1 DEF AnswerFor
    <3> QED BY <1>2, <3>1, <3>2, SwitchEffect
  <2>2. ASSUME NEW v \in Workers, NEW n \in down'[v]
        PROVE  /\ TaskOf(n) \in Tasks /\ \A x \in Workers : Added(x, TaskOf(n))'
               /\ n.short_job_id = ShortId(n.job)
               /\ ~Got(v, TaskOf(n))' => n.val = Reduced(n.job, n.pkt)
    <3>1. PICK u \in Tasks : u = TaskOf(n) /\ \A x \in Workers : Added(x, u)
      BY <2>1
    <3>2. (\A x \in Workers : Added(x, u)') /\ (Got(v, u)' <=> Got(v, u))
      BY <1>10, <3>1
    <3>3. n.short_job_id = ShortId(n.job) /\ (~Got(v, u) => n.val = Reduced(n.job, n.pkt))
      BY <2>1, <3>1
    <3> QED BY <3>1, <3>2, <3>3
  <2> QED BY <2>2 DEF DownlinkExact
<1>14. job \in [Workers -> Nat] /\ job' \in [Workers -> Nat]
  BY <1>2, <1>9, Ranges
<1>15. WorkerFollows(w)'
  <2>1. UplinkFollows(w) /\ up[w] \in Seq(Packet) /\ job'[w] = job[w] /\ up'[w] = Tail(up[w])
    BY <1>2, <1>9, Ranges, SwitchEffect DEF IInv, WorkerFollows
  <2>2. UplinkFollows(w)'
    BY <1>1, <1>10, <2>1, UplinkTail
  <2> QED BY <1>9, <2>2 DEF IInv, WorkerFollows, ShiftFollows, SliceFollows, TimerFollows
<1>16. ASSUME NEW v \in Workers, v # w PROVE WorkerFollows(v)'
  <2>1. up'[v] = up[v]
    BY <1>2, <1>16, SwitchEffect
  <2> QED BY <1>8, <1>9, <1>14, <2>1, WorkerUnchanged DEF IInv
<1> QED BY <1>2, <1>11, <1>13, <1>15, <1>16 DEF IInv

\* A packet the slot has not seen: it is its turn, and the set holds just those that
\* have added it up.
LEMMA NewPacket ==
  ASSUME IInv, NEW w \in Workers, NEW t \in Tasks, t[1] <= job[w], w \notin Bits(t),
         \A u \in Tasks : /\ Precedes(u, t) => Got(w, u)
                          /\ Precedes(t, u) => ~Added(w, u)
  PROVE  /\ ~Added(w, t) /\ Frontier(w, t)
         /\ Bits(t) = Adders(t) /\ \A v \in Workers : Added(v, t) => Latest(v, t)
<1>1. ~Added(w, t)
  BY BitIsSet DEF IInv
<1>2. ~Got(w, t)
  BY <1>1 DEF Added
<1>3. t[1] = job[w]
  <2>1. t[1] \in Nat /\ job[w] \in Nat
    BY TasksType, Ranges DEF IInv
  <2> QED BY <1>2, <2>1 DEF Got
<1>4. Frontier(w, t)
  BY <1>2, <1>3 DEF Frontier
\* Nobody has a result of this packet, or has added up a later one.
<1>5. ASSUME NEW v \in Workers PROVE ~Got(v, t) /\ \A u \in Tasks : Precedes(t, u) => ~Added(v, u)
  <2>1. ~Got(v, t)
    BY <1>1 DEF IInv, Lockstep
  <2> QED BY <2>1, AddedBefore DEF IInv
<1>6. \A v \in Workers : Added(v, t) => Latest(v, t)
  BY <1>5 DEF Latest
<1>7. ASSUME NEW v \in Workers, v \in Bits(t) PROVE Added(v, t)
  <2>1. PICK x \in Tasks : Latest(v, x) /\ SlotOf(x) = SlotOf(t) /\ SetOf(x) = SetOf(t)
    BY <1>7, SlotsType DEF IInv, BitsFollow, Bits
  <2>2. Added(v, x)
    BY <2>1 DEF Latest
  <2>3. ~Precedes(t, x)
    BY <1>5, <2>2
  <2>4. ~Precedes(x, t)
    <3> SUFFICES ASSUME Precedes(x, t) PROVE FALSE
      OBVIOUS
    <3>1. PICK p \in Tasks :
            /\ Precedes(p, t) /\ SetOf(p) # SetOf(t)
            /\ \A y \in Tasks : Precedes(y, t) => y = p \/ Precedes(y, p)
      BY Predecessor
    <3>2. Added(v, p)
      BY <3>1 DEF IInv, Lockstep
    <3>3. ~Precedes(x, p)
      BY <2>1, <3>2 DEF Latest
    <3> QED BY <2>1, <3>1, <3>3
  <2>5. x = t
    BY <2>1, <2>3, <2>4, SlotOrder
  <2> QED BY <2>2, <2>5
<1>8. ASSUME NEW v \in Workers, Added(v, t) PROVE v \in Bits(t)
  BY <1>6, <1>8, SlotsType DEF IInv, BitsFollow, Bits
<1>9. Bits(t) \in SUBSET Workers
  BY SlotsType DEF IInv, TypeOK, Bits
<1>10. Bits(t) = Adders(t)
  BY <1>7, <1>8, <1>9 DEF Adders
<1> QED BY <1>1, <1>4, <1>6, <1>10

LEMMA AddedAfterNewPacket ==
  ASSUME IInv, NEW w \in Workers, NEW t \in Tasks, SwitchTakes(w, t), w \notin Bits(t)
  PROVE  \A v \in Workers, u \in Tasks :
           /\ Got(v, u)' <=> Got(v, u)
           /\ Added(v, u)' <=> Added(v, u) \/ (v = w /\ u = t)
<1>1. /\ t[1] <= job[w] /\ UNCHANGED workerVars
      /\ \A u \in Tasks : /\ Precedes(u, t) => Got(w, u)
                          /\ Precedes(t, u) => ~Added(w, u)
  BY DEF SwitchTakes
<1>2. job' = job /\ received' = received
  BY <1>1 DEF workerVars
<1>3. Frontier(w, t) /\ ~Added(w, t)
  BY <1>1, NewPacket
<1>4. /\ bitmap'[SlotOf(t)][SetOf(t)] = Bits(t) \cup {w}
      /\ \A s \in Sets : s # SetOf(t) => bitmap'[SlotOf(t)][s] = bitmap[SlotOf(t)][s] \ {w}
      /\ \A i \in Slots : i # SlotOf(t) => bitmap'[i] = bitmap[i]
  BY SwitchEffect DEF IInv
<1>5. ASSUME NEW v \in Workers, v # w
      PROVE  \A i \in Slots, s \in Sets : v \in bitmap'[i][s] <=> v \in bitmap[i][s]
  <2>1. ASSUME NEW i \in Slots, NEW s \in Sets PROVE v \in bitmap'[i][s] <=> v \in bitmap[i][s]
    <3>1. CASE i # SlotOf(t)
      BY <1>4, <3>1
    <3>2. CASE i = SlotOf(t) /\ s # SetOf(t)
      BY <1>4, <1>5, <3>2
    <3>3. CASE i = SlotOf(t) /\ s = SetOf(t)
      BY <1>4, <1>5, <3>3 DEF Bits
    <3> QED BY <3>1, <3>2, <3>3
  <2> QED BY <2>1
<1>6. ASSUME NEW v \in Workers, v # w
      PROVE  \A u \in Tasks : /\ Got(v, u)' <=> Got(v, u)
                              /\ Added(v, u)' <=> Added(v, u)
  BY <1>2, <1>5, <1>6, AddedUnchanged
<1>7. \A u \in Tasks : (Got(w, u)' <=> Got(w, u)) /\ (Frontier(w, u)' <=> Frontier(w, u))
  <2>1. \A u \in Tasks : Got(w, u)' <=> Got(w, u)
    BY <1>2 DEF Got
  <2> QED BY <1>2, <2>1 DEF Frontier
<1>8. ASSUME NEW u \in Tasks, Frontier(w, u)
      PROVE  w \in Bits(u)' <=> w \in Bits(u) \/ u = t
  <2>1. CASE SlotOf(u) = SlotOf(t)
    <3>1. u = t
      BY <1>3, <1>8, <2>1, SlotOrder DEF Frontier
    <3>2. w \in Bits(t)'
      BY <1>4 DEF Bits
    <3> QED BY <3>1, <3>2
  <2>2. CASE SlotOf(u) # SlotOf(t)
    <3>1. Bits(u)' = Bits(u) /\ u # t
      BY <1>4, <2>2, SlotsType DEF Bits
    <3> QED BY <3>1
  <2> QED BY <2>1, <2>2
<1>9. \A u \in Tasks : Added(w, u)' <=> Added(w, u) \/ u = t
  BY <1>3, <1>7, <1>8 DEF Added
<1> QED BY <1>6, <1>7, <1>9

LEMMA LatestAfterNewPacket ==
  ASSUME IInv, NEW w \in Workers, NEW t \in Tasks, SwitchTakes(w, t), w \notin Bits(t)
  PROVE  /\ Latest(w, t)'
         /\ \A v \in Workers, u \in Tasks :
              v # w \/ SlotOf(u) # SlotOf(t) => (Latest(v, u)' <=> Latest(v, u))
         /\ \A u \in Tasks : Latest(w, u)' /\ SlotOf(u) = SlotOf(t) => u = t
<1>1. \A v \in Workers, u \in Tasks : Added(v, u)' <=> Added(v, u) \/ (v = w /\ u = t)
  BY AddedAfterNewPacket
<1>2. \A u \in Tasks : Precedes(t, u) => ~Added(w, u) /\ u # t
  BY SlotOrder DEF SwitchTakes
<1>3. Latest(w, t)'
  BY <1>1, <1>2 DEF Latest
<1>4. ASSUME NEW v \in Workers, NEW u \in Tasks, v # w \/ SlotOf(u) # SlotOf(t)
      PROVE  Latest(v, u)' <=> Latest(v, u)
  <2>1. v # w \/ (u # t /\ ~Precedes(u, t))
    BY <1>4, SlotOrder
  <2> QED BY <1>1, <2>1 DEF Latest
<1>5. ASSUME NEW u \in Tasks, Latest(w, u)', SlotOf(u) = SlotOf(t)
      PROVE  u = t
  <2>1. Added(w, u) \/ u = t
    BY <1>1, <1>5 DEF Latest
  <2>2. ~Precedes(u, t)
    BY <1>1, <1>5 DEF Latest
  <2> QED BY <1>2, <1>5, <2>1, <2>2, SlotOrder
<1> QED BY <1>3, <1>4, <1>5

LEMMA BitsAfterNewPacket ==
  ASSUME IInv, NEW w \in Workers, NEW t \in Tasks, SwitchTakes(w, t), w \notin Bits(t)
  PROVE  BitsFollow'
<1>1. /\ Latest(w, t)'
      /\ \A v \in Workers, u \in Tasks :
           v # w \/ SlotOf(u) # SlotOf(t) => (Latest(v, u)' <=> Latest(v, u))
      /\ \A u \in Tasks : Latest(w, u)' /\ SlotOf(u) = SlotOf(t) => u = t
  BY LatestAfterNewPacket
<1>2. /\ bitmap'[SlotOf(t)][SetOf(t)] = bitmap[SlotOf(t)][SetOf(t)] \cup {w}
      /\ \A s \in Sets : s # SetOf(t) => bitmap'[SlotOf(t)][s] = bitmap[SlotOf(t)][s] \ {w}
      /\ \A i \in Slots : i # SlotOf(t) => bitmap'[i] = bitmap[i]
  BY SwitchEffect DEF IInv, Bits
<1>3. ASSUME NEW v \in Workers, NEW i \in Slots, NEW s \in Sets
      PROVE  v \in bitmap'[i][s] <=> \E u \in Tasks : Latest(v, u)' /\ SlotOf(u) = i /\ SetOf(u) = s
  <2>1. v \in bitmap[i][s] <=> \E u \in Tasks : Latest(v, u) /\ SlotOf(u) = i /\ SetOf(u) = s
    BY DEF IInv, BitsFollow
  <2>2. CASE v # w \/ i # SlotOf(t)
    <3>1. v \in bitmap'[i][s] <=> v \in bitmap[i][s]
      <4>1. CASE i # SlotOf(t)
        BY <1>2, <4>1
      <4>2. CASE i = SlotOf(t) /\ s # SetOf(t)
        BY <1>2, <2>2, <4>2
      <4>3. CASE i = SlotOf(t) /\ s = SetOf(t)
        BY <1>2, <2>2, <4>3
      <4> QED BY <4>1, <4>2, <4>3
    <3> QED BY <1>1, <2>1, <2>2, <3>1
  <2>3. CASE v = w /\ i = SlotOf(t)
    <3>1. CASE s = SetOf(t)
      <4>1. v \in bitmap'[i][s]
        BY <1>2, <2>3, <3>1
      <4> QED BY <1>1, <2>3, <3>1, <4>1
    <3>2. CASE s # SetOf(t)
      <4>1. v \notin bitmap'[i][s]
        BY <1>2, <2>3, <3>2
      <4> QED BY <1>1, <2>3, <3>2, <4>1
    <3> QED BY <3>1, <3>2
  <2> QED BY <2>2, <2>3
<1> QED BY <1>3 DEF BitsFollow

\* The count and the register after a packet that was not seen.
LEMMA RegistersOfNewPacket ==
  ASSUME IInv, NEW w \in Workers, NEW t \in Tasks, SwitchTakes(w, t), w \notin Bits(t)
  PROVE  /\ count'[SlotOf(t)][SetOf(t)] = NumWorkers - Cardinality(Adders(t)')
         /\ value'[SlotOf(t)][SetOf(t)] = PartialSum(t)'
         /\ count[SlotOf(t)][SetOf(t)] \in 0 .. NumWorkers - 1
         /\ count[SlotOf(t)][SetOf(t)] = 1 => count'[SlotOf(t)][SetOf(t)] = 0
<1>1. /\ ~Added(w, t) /\ Bits(t) = Adders(t)
      /\ \A v \in Workers : Added(v, t) => Latest(v, t)
  BY NewPacket DEF SwitchTakes
<1>2. PICK b : b = Bits(t)
  OBVIOUS
<1>3. PICK c \in 0 .. NumWorkers - 1 : c = count[SlotOf(t)][SetOf(t)]
  BY SlotsType DEF IInv, TypeOK
<1>4. PICK x \in [Contribs -> Nat] : x = value[SlotOf(t)][SetOf(t)]
  BY SlotsType DEF IInv, TypeOK
<1>5. PICK d \in Contribs : d = <<w, t[1], t[2]>>
  BY ContribsType
<1>6. \A v \in Workers : Added(v, t)' <=> Added(v, t) \/ v = w
  BY AddedAfterNewPacket
<1>7. Adders(t)' = b \cup {w} /\ w \notin b /\ b = Adders(t)
  BY <1>1, <1>2, <1>6 DEF Adders
<1>8. /\ IsFiniteSet(b) /\ Cardinality(b) \in Nat /\ Cardinality(b) < NumWorkers
      /\ (b = {} <=> Cardinality(b) = 0)
  BY <1>1, <1>7, AddersCount, FS_EmptySet
<1>9. Cardinality(Adders(t)') = Cardinality(b) + 1
  BY <1>7, <1>8, FS_AddElement
<1>10. b = {} => c = 0
  BY <1>2, <1>3, SlotsType DEF IInv, RegistersFollow, Bits
<1>11. b # {} => c = NumWorkers - Cardinality(b) /\ x = PartialSum(t)
  <2> SUFFICES ASSUME b # {} PROVE c = NumWorkers - Cardinality(b) /\ x = PartialSum(t)
    OBVIOUS
  <2>1. PICK v \in Workers : Added(v, t)
    BY <1>7 DEF Adders
  <2>2. Latest(v, t)
    BY <1>1, <2>1
  <2> QED BY <1>3, <1>4, <1>7, <2>2 DEF IInv, RegistersFollow
<1>12. (w \in Bits(t)) = FALSE
  OBVIOUS
<1>13. count'[SlotOf(t)][SetOf(t)] = IF c = 0 THEN NumWorkers - 1 ELSE c - 1
  <2>1. count'[SlotOf(t)][SetOf(t)] = CountAfter(count[SlotOf(t)][SetOf(t)], w \in Bits(t))
    BY SwitchEffect DEF IInv
  <2> QED BY <1>3, <1>12, <2>1 DEF CountAfter
<1>14. count'[SlotOf(t)][SetOf(t)] = NumWorkers - Cardinality(Adders(t)')
  BY <1>8, <1>9, <1>10, <1>11, <1>13, WorkersCount
<1>15. value'[SlotOf(t)][SetOf(t)] = IF b = {} THEN Unit(d) ELSE Add(x, Unit(d))
  <2>1. value'[SlotOf(t)][SetOf(t)] = SumAfter(w, t)
    BY SwitchEffect DEF IInv
  <2>2. SumAfter(w, t) = RegisterAfter(b, FALSE, x, Unit(d))
    BY <1>2, <1>4, <1>5, <1>12 DEF SumAfter
  <2> QED BY <2>1, <2>2 DEF RegisterAfter
<1>16. value'[SlotOf(t)][SetOf(t)] = PartialSum(t)'
  <2>1. PICK y : y = PartialSum(t)'
    OBVIOUS
  <2>2. y = [k \in Contribs |-> IF k[2] = t[1] /\ k[3] = t[2] /\ Added(k[1], t)' THEN 1 ELSE 0]
    BY <2>1 DEF PartialSum
  <2>3. ASSUME NEW k \in Contribs
        PROVE  /\ Added(k[1], t)' <=> Added(k[1], t) \/ k[1] = w
               /\ k = d <=> k[1] = w /\ k[2] = t[1] /\ k[3] = t[2]
               /\ k[1] \in Workers
    BY <1>5, <1>6, ContribsType
  <2>4. Unit(d) = [k \in Contribs |-> IF k = d THEN 1 ELSE 0]
    BY UnitType
  <2>5. CASE b = {}
    <3>1. \A v \in Workers : ~Added(v, t)
      BY <1>7, <2>5 DEF Adders
    <3>2. \A k \in Contribs : y[k] = Unit(d)[k]
      BY <2>2, <2>3, <2>4, <3>1
    <3>3. y = Unit(d)
      BY <2>2, <2>4, <3>2
    <3> QED BY <1>15, <2>1, <2>5, <3>3
  <2>6. CASE b # {}
    <3>1. x = [k \in Contribs |-> IF k[2] = t[1] /\ k[3] = t[2] /\ Added(k[1], t) THEN 1 ELSE 0]
      BY <1>11, <2>6 DEF PartialSum
    <3>2. Add(x, Unit(d)) = [k \in Contribs |-> x[k] + Unit(d)[k]]
      BY <1>4 DEF Add
    <3>3. ASSUME NEW k \in Contribs PROVE y[k] = x[k] + Unit(d)[k]
      <4>1. CASE k = d
        <5>1. x[k] = 0 /\ Unit(d)[k] = 1 /\ y[k] = 1
          BY <1>1, <2>2, <2>3, <2>4, <3>1, <4>1
        <5> QED BY <5>1
      <4>2. CASE k # d
        <5>1. Unit(d)[k] = 0 /\ y[k] = x[k] /\ x[k] \in Nat
          BY <2>2, <2>3, <2>4, <3>1, <4>2
        <5> QED BY <5>1
      <4> QED BY <4>1, <4>2
    <3>4. y = Add(x, Unit(d))
      BY <2>2, <3>2, <3>3
    <3> QED BY <1>15, <2>1, <2>6, <3>4
  <2> QED BY <2>5, <2>6
<1>17. c = 1 => count'[SlotOf(t)][SetOf(t)] = 0
  BY <1>13
<1> QED BY <1>3, <1>14, <1>16, <1>17

LEMMA RegistersAfterNewPacket ==
  ASSUME IInv, NEW w \in Workers, NEW t \in Tasks, SwitchTakes(w, t), w \notin Bits(t)
  PROVE  RegistersFollow'
<1>1. /\ bitmap'[SlotOf(t)][SetOf(t)] = Bits(t) \cup {w}
      /\ \A s \in Sets : s # SetOf(t) => bitmap'[SlotOf(t)][s] = bitmap[SlotOf(t)][s] \ {w}
      /\ \A i \in Slots : i # SlotOf(t) => bitmap'[i] = bitmap[i] /\ count'[i] = count[i]
                                           /\ value'[i] = value[i]
  BY SwitchEffect DEF IInv
<1>2. \A s \in Sets : s # SetOf(t) => /\ count'[SlotOf(t)][s] = count[SlotOf(t)][s]
                                      /\ value'[SlotOf(t)][s] = value[SlotOf(t)][s]
  BY SwitchEffect DEF IInv
<1>3. /\ \A u \in Tasks : Precedes(u, t) => Got(w, u)
      /\ \A u \in Tasks : Precedes(t, u) => ~Added(w, u)
  BY DEF SwitchTakes
<1>4. /\ Bits(t) = Adders(t)
      /\ \A v \in Workers : Added(v, t) => Latest(v, t)
  BY NewPacket DEF SwitchTakes
\* The set the worker leaves empty is that of a packet that everybody has added up.
<1>5. ASSUME NEW i \in Slots, NEW s \in Sets, bitmap'[i][s] = {} PROVE count'[i][s] = 0
  <2>1. bitmap[i][s] = {} => count[i][s] = 0
    BY DEF IInv, RegistersFollow
  <2>2. CASE i # SlotOf(t)
    BY <1>1, <1>5, <2>1, <2>2
  <2>3. CASE i = SlotOf(t) /\ s # SetOf(t)
    <3>1. bitmap[i][s] \ {w} = {} /\ count'[i][s] = count[i][s]
      BY <1>1, <1>2, <1>5, <2>3
    <3>2. CASE w \in bitmap[i][s]
      <4>1. PICK x \in Tasks : Latest(w, x) /\ SlotOf(x) = i /\ SetOf(x) = s
        BY <3>2 DEF IInv, BitsFollow
      <4>2. Precedes(x, t)
        BY <1>3, <2>3, <4>1, SlotOrder DEF Latest
      <4>3. \A v \in Workers : Added(v, x)
        BY <1>3, <4>2 DEF IInv, Lockstep
      <4>4. Cardinality(Adders(x)) = NumWorkers
        BY <4>3, AddersCount
      <4>5. count[i][s] = NumWorkers - Cardinality(Adders(x))
        BY <4>1 DEF IInv, RegistersFollow
      <4> QED BY <3>1, <4>4, <4>5, WorkersCount
    <3>3. CASE w \notin bitmap[i][s]
      BY <2>1, <3>1, <3>3
    <3> QED BY <3>2, <3>3
  <2>4. CASE i = SlotOf(t) /\ s = SetOf(t)
    BY <1>1, <1>5, <2>4
  <2> QED BY <2>2, <2>3, <2>4
<1>6. \A v \in Workers, u \in Tasks : Added(v, u)' <=> Added(v, u) \/ (v = w /\ u = t)
  BY AddedAfterNewPacket
<1>7. ASSUME NEW v \in Workers, NEW u \in Tasks, Latest(v, u)'
      PROVE  /\ count'[SlotOf(u)][SetOf(u)] = NumWorkers - Cardinality(Adders(u)')
             /\ value'[SlotOf(u)][SetOf(u)] = PartialSum(u)'
  <2>1. CASE u = t
    BY <2>1, RegistersOfNewPacket
  <2>2. CASE u # t
    <3>1. Latest(v, u)
      BY <1>7, <2>2, LatestAfterNewPacket
    <3>2. /\ count[SlotOf(u)][SetOf(u)] = NumWorkers - Cardinality(Adders(u))
          /\ value[SlotOf(u)][SetOf(u)] = PartialSum(u)
      BY <3>1 DEF IInv, RegistersFollow
    <3>3. \A x \in Workers : Added(x, u)' <=> Added(x, u)
      BY <1>6, <2>2
    <3>4. Adders(u)' = Adders(u)
      BY <3>3 DEF Adders
    <3>5. PartialSum(u)' = PartialSum(u)
      BY <3>3, ContribsType DEF PartialSum
    <3>6. SlotOf(u) # SlotOf(t) \/ SetOf(u) # SetOf(t)
      <4> SUFFICES ASSUME SlotOf(u) = SlotOf(t), SetOf(u) = SetOf(t) PROVE FALSE
        OBVIOUS
      <4>1. v \in Bits(t)
        BY <3>1, SlotsType DEF IInv, BitsFollow, Bits
      <4>2. Latest(v, t)
        BY <1>4, <4>1 DEF Adders
      <4> QED BY <2>2, <3>1, <4>2, LatestUnique
    <3>7. /\ count'[SlotOf(u)][SetOf(u)] = count[SlotOf(u)][SetOf(u)]
          /\ value'[SlotOf(u)][SetOf(u)] = value[SlotOf(u)][SetOf(u)]
      BY <1>1, <1>2, <3>6, SlotsType
    <3> QED BY <3>2, <3>4, <3>5, <3>7
  <2> QED BY <2>1, <2>2
<1> QED BY <1>5, <1>7 DEF RegistersFollow

\* The answer to a new packet goes out only when it was the last that was missing.
LEMMA AnswerToNewPacket ==
  ASSUME IInv, NEW w \in Workers, NEW t \in Tasks, SwitchTakes(w, t), w \notin Bits(t),
         AnswerTo(w, t) \in {"broadcast", "retransmit"}
  PROVE  /\ \A v \in Workers : Added(v, t)'
         /\ SumAfter(w, t) = Reduced(t[1], t[2])
<1>1. /\ count'[SlotOf(t)][SetOf(t)] = NumWorkers - Cardinality(Adders(t)')
      /\ value'[SlotOf(t)][SetOf(t)] = PartialSum(t)'
      /\ count[SlotOf(t)][SetOf(t)] = 1 => count'[SlotOf(t)][SetOf(t)] = 0
  BY RegistersOfNewPacket
<1>2. PICK c \in 0 .. NumWorkers - 1 : c = count[SlotOf(t)][SetOf(t)]
  BY RegistersOfNewPacket
<1>3. (w \in Bits(t)) = FALSE
  OBVIOUS
<1>4. AnswerTo(w, t) = Answer(FirstLastFlag(c, FALSE), FALSE)
  BY <1>2, <1>3 DEF AnswerTo
<1>5. c = 1 \/ NumWorkers = 1
  BY <1>4, Answers
<1>6. \A v \in Workers : Added(v, t)' <=> Added(v, t) \/ v = w
  BY AddedAfterNewPacket
<1>7. /\ IsFiniteSet(Workers) /\ Adders(t)' \in SUBSET Workers /\ w \in Adders(t)'
  BY <1>6, WorkersAssumption DEF Adders
<1>8. PICK b \in SUBSET Workers : b = Adders(t)' /\ w \in b
  BY <1>7
<1>9. IsFiniteSet(b) /\ Cardinality(b) \in Nat /\ Cardinality(b) # 0 /\ Cardinality(b) <= NumWorkers
  BY <1>7, <1>8, FS_Subset, FS_CardinalityType, FS_EmptySet DEF NumWorkers
<1>10. Cardinality(b) = NumWorkers
  <2>1. CASE c = 1
    BY <1>1, <1>2, <1>8, <1>9, <2>1, WorkersCount
  <2>2. CASE NumWorkers = 1
    BY <1>9, <2>2
  <2> QED BY <1>5, <2>1, <2>2
<1>11. b = Workers
  BY <1>7, <1>8, <1>10, FS_Subset DEF NumWorkers
<1>12. \A v \in Workers : Added(v, t)'
  BY <1>8, <1>11 DEF Adders
<1>13. PartialSum(t)' = Reduced(t[1], t[2])
  BY <1>12, ContribsType DEF PartialSum, Reduced
<1>14. value'[SlotOf(t)][SetOf(t)] = SumAfter(w, t)
  BY SwitchEffect DEF IInv
<1> QED BY <1>1, <1>12, <1>13, <1>14

LEMMA SwitchNewInv ==
  ASSUME IInv, NEW w \in Workers, NEW t \in Tasks, SwitchTakes(w, t), w \notin Bits(t)
  PROVE  IInv'
<1>1. up[w] # <<>> /\ t = TaskOf(Head(up[w])) /\ UNCHANGED workerVars
  BY DEF SwitchTakes
<1>2. TypeOK /\ TypeOK'
  BY SwitchEffect DEF IInv
<1>3. UNCHANGED <<job, running, shift, received, out, timers, args>>
  BY <1>1 DEF workerVars
<1>4. \A v \in Workers, u \in Tasks :
        /\ Got(v, u)' <=> Got(v, u)
        /\ Added(v, u)' <=> Added(v, u) \/ (v = w /\ u = t)
  BY AddedAfterNewPacket
<1>5. GotInOrder'
  BY <1>4 DEF IInv, GotInOrder
<1>6. Lockstep'
  BY <1>4 DEF IInv, Lockstep
<1>7. OutExact'
  BY <1>3 DEF IInv, OutExact
<1>8. DownlinkExact'
  <2>1. ASSUME NEW v \in Workers, NEW n \in down'[v]
        PROVE  /\ TaskOf(n) \in Tasks /\ \A x \in Workers : Added(x, TaskOf(n))'
               /\ n.short_job_id = ShortId(n.job)
               /\ ~Got(v, TaskOf(n))' => n.val = Reduced(n.job, n.pkt)
    <3>1. CASE n \in down[v]
      <4>1. /\ TaskOf(n) \in Tasks /\ \A x \in Workers : Added(x, TaskOf(n))
            /\ n.short_job_id = ShortId(n.job)
            /\ ~Got(v, TaskOf(n)) => n.val = Reduced(n.job, n.pkt)
        BY <3>1 DEF IInv, DownlinkExact
      <4> QED BY <1>4, <4>1
    <3>2. CASE /\ n = AnswerFor(w, t)
               /\ AnswerTo(w, t) \in {"broadcast", "retransmit"}
      <4>1. TaskOf(n) = t
        BY <3>2, TasksType DEF TaskOf, AnswerFor
      <4>2. (\A x \in Workers : Added(x, t)') /\ n.val = Reduced(n.job, n.pkt)
           /\ n.short_job_id = ShortId(n.job)
        BY <3>2, AnswerToNewPacket DEF AnswerFor
      <4> QED BY <4>1, <4>2
    <3> QED BY <1>2, <3>1, <3>2, SwitchEffect
  <2> QED BY <2>1 DEF DownlinkExact
<1>9. job \in [Workers -> Nat] /\ job' \in [Workers -> Nat]
  BY <1>2, <1>3, Ranges
<1>10. WorkerFollows(w)'
  <2>1. UplinkFollows(w) /\ up[w] \in Seq(Packet) /\ job'[w] = job[w] /\ up'[w] = Tail(up[w])
    BY <1>2, <1>3, Ranges, SwitchEffect DEF IInv, WorkerFollows
  <2>2. UplinkFollows(w)'
    BY <1>1, <1>4, <2>1, UplinkTail
  <2> QED BY <1>3, <2>2 DEF IInv, WorkerFollows, ShiftFollows, SliceFollows, TimerFollows
<1>11. ASSUME NEW v \in Workers, v # w PROVE WorkerFollows(v)'
  <2>1. up'[v] = up[v]
    BY <1>2, <1>11, SwitchEffect
  <2>2. ASSUME NEW i \in Slots, NEW s \in Sets PROVE v \in bitmap'[i][s] <=> v \in bitmap[i][s]
    <3>1. CASE i # SlotOf(t)
      BY <1>2, <3>1, SwitchEffect
    <3>2. CASE i = SlotOf(t) /\ s # SetOf(t)
      <4>1. bitmap'[SlotOf(t)][s] = bitmap[SlotOf(t)][s] \ {w}
        BY <1>2, <3>2, SwitchEffect
      <4> QED BY <1>11, <3>2, <4>1
    <3>3. CASE i = SlotOf(t) /\ s = SetOf(t)
      <4>1. bitmap'[SlotOf(t)][SetOf(t)] = bitmap[SlotOf(t)][SetOf(t)] \cup {w}
        BY <1>2, SwitchEffect DEF Bits
      <4> QED BY <1>11, <3>3, <4>1
    <3> QED BY <3>1, <3>2, <3>3
  <2> QED BY <1>3, <1>9, <2>1, <2>2, WorkerUnchanged DEF IInv
<1> QED BY <1>2, <1>5, <1>6, <1>7, <1>8, <1>10, <1>11, BitsAfterNewPacket,
           RegistersAfterNewPacket DEF IInv

LEMMA SwitchInv ==
  ASSUME IInv, NEW w \in Workers, Switch(w)
  PROVE  IInv'
<1>1. PICK t \in Tasks : SwitchTakes(w, t)
  BY SwitchTask
<1>2. CASE w \in Bits(t)
  BY <1>1, <1>2, SwitchAgainInv
<1>3. CASE w \notin Bits(t)
  BY <1>1, <1>3, SwitchNewInv
<1> QED BY <1>2, <1>3

-----------------------------------------------------------------------------
(* The theorems *)

LEMMA StutterIInv ==
  ASSUME IInv, UNCHANGED vars
  PROVE  IInv'
<1>1. /\ UNCHANGED <<job, running, shift, received, out, timers, args, misfired, up, down>>
      /\ UNCHANGED switchVars /\ UNCHANGED <<bitmap, count, value>>
  BY DEF vars, workerVars, switchVars
<1>2. TypeOK'
  BY <1>1 DEF IInv, TypeOK
<1>3. \A v \in Workers, u \in Tasks : /\ Got(v, u)' <=> Got(v, u)
                                      /\ Added(v, u)' <=> Added(v, u)
  BY <1>1, AddedUnchanged
<1>4. /\ GotInOrder' /\ BitsFollow' /\ Lockstep' /\ RegistersFollow'
      /\ DownlinkExact' /\ OutExact'
  BY <1>1, <1>3, NothingArrives
<1>5. job \in [Workers -> Nat] /\ job' \in [Workers -> Nat]
  BY <1>1, Ranges DEF IInv
<1>6. \A v \in Workers : WorkerFollows(v)'
  BY <1>1, <1>5, WorkerUnchanged DEF IInv
<1> QED BY <1>2, <1>4, <1>6 DEF IInv

LEMMA LoseDownlinkInv ==
  ASSUME IInv, NEW w \in Workers, LoseDownlink(w)
  PROVE  IInv'
<1>1. PICK m \in down[w] : down' = [down EXCEPT ![w] = @ \ {m}]
  BY DEF LoseDownlink
<1>2. UNCHANGED <<job, running, shift, received, out, timers, args, misfired, up, bitmap,
                  count, value>>
  BY DEF LoseDownlink, workerVars, switchVars
<1> QED BY <1>1, <1>2, LessDownInv

LEMMA NextIInv ==
  ASSUME IInv, Regular, ~misfired', [Next]_vars
  PROVE  IInv'
<1>1. CASE UNCHANGED vars
  BY <1>1, StutterIInv
<1>2. CASE Done
  BY <1>2, StutterIInv DEF Done
<1>3. ASSUME NEW w \in Workers, StartSlice(w) PROVE IInv'
  BY <1>3, StartSliceInv
<1>4. ASSUME NEW w \in Workers, FinishSlice(w) PROVE IInv'
  BY <1>4, FinishSliceInv
<1>5. ASSUME NEW w \in Workers, Switch(w) PROVE IInv'
  BY <1>5, SwitchInv
<1>6. ASSUME NEW w \in Workers, LoseUplink(w) PROVE IInv'
  BY <1>6, LoseUplinkInv
<1>7. ASSUME NEW w \in Workers, LoseDownlink(w) PROVE IInv'
  BY <1>7, LoseDownlinkInv
<1>8. ASSUME NEW w \in Workers, NEW i \in Slots, Timeout(w, i) PROVE IInv'
  BY <1>8, TimeoutInv
<1>9. ASSUME NEW w \in Workers, NEW m \in down[w], Receive(w, m) PROVE IInv'
  <2>1. job[w] \in 1 .. job[w]
    <3>1. PICK j \in JobIds : j = job[w]
      BY <1>9 DEF Receive, IInv, WorkerFollows, SliceFollows
    <3>2. j \in 1 .. j
      BY JobsCount
    <3> QED BY <3>1, <3>2
  <2>2. FullWindow(job[w])
    BY <2>1 DEF Regular
  <2> QED BY <1>9, <2>2, ReceiveInv
<1> QED BY <1>1, <1>2, <1>3, <1>4, <1>5, <1>6, <1>7, <1>8, <1>9 DEF Next

\* What was regular stays so, until a first batch's timer runs out or a slice starts
\* that does not keep to the window: no step leads back.
LEMMA RegularBefore ==
  ASSUME TypeInv, [Next]_vars, Regular'
  PROVE  Regular
<1>1. misfired => misfired'
  BY DEF Next, Done, StartSlice, FinishSlice, Switch, LoseUplink, LoseDownlink, Timeout,
         Receive, vars, workerVars
<1>2. \A w \in Workers : job'[w] = job[w] \/ job'[w] = job[w] + 1
  <2>1. job \in [Workers -> Nat]
    BY Ranges DEF TypeInv
  <2>2. ASSUME NEW w \in Workers, StartSlice(w)
        PROVE  \A v \in Workers : job'[v] = job[v] \/ job'[v] = job[v] + 1
    BY <2>1, <2>2 DEF StartSlice
  <2> QED BY <2>2 DEF Next, Done, FinishSlice, Switch, LoseUplink, LoseDownlink, Timeout,
                      Receive, vars, workerVars
<1>3. ASSUME NEW w \in Workers, NEW j \in 1 .. job[w] PROVE j \in 1 .. job'[w]
  <2>1. job[w] \in Nat
    BY Ranges DEF TypeInv
  <2> QED BY <1>2, <2>1
<1> QED BY <1>1, <1>3 DEF Regular, FullWindow

\* Every variable keeps its type, in regular states and others, and a timer that is
\* armed has the arguments of a packet (resend_pkt_cb_args).
THEOREM TypeCorrectness == Spec => []TypeInv
<1>1. Init => TypeInv
  BY InitType
<1>2. TypeInv /\ [Next]_vars => TypeInv'
  BY NextType
<1> QED BY <1>1, <1>2, PTL DEF Spec

\* As long as no timer of a first batch has run out and the slices keep to a full
\* window: the bitmap of every slot records the latest packet that each worker has had
\* added up there, the registers hold the sum of just those who added it, what is on
\* the way to the switch is a packet whose turn it is, and a timer armed after a first
\* batch is that of a packet its worker waits for (dpdk_worker_thread.cc with
\* bitmap_checker.p4, workers_counter.p4 and processor.p4).
THEOREM InductiveInvariant == Spec => [](Regular => IInv)
<1>1. Init => (Regular => IInv)
  BY InitIInv
<1>2. TypeInv /\ (Regular => IInv) /\ [Next]_vars => (Regular => IInv)'
  <2> SUFFICES ASSUME TypeInv, Regular => IInv, [Next]_vars, Regular' PROVE IInv'
    OBVIOUS
  <2>1. Regular /\ IInv
    BY RegularBefore
  <2>2. ~misfired'
    BY DEF Regular
  <2> QED BY <2>1, <2>2, NextIInv
<1> QED BY <1>1, <1>2, TypeCorrectness, PTL DEF Spec

\* As long as no timer of a first batch has run out and the slices keep to a full
\* window, what a worker stores is exactly one contribution of every worker to that
\* packet of that job: over any number of slices with short job ids that come round,
\* and however packets and results are lost, resent and reordered (ProcessPacket: the
\* short job id and the bitmap of received packets).
THEOREM ResultsAreExact == Spec => []ResultsExact
<1>1. (Regular => IInv) => ResultsExact
  BY DEF IInv, OutExact, ResultsExact
<1> QED BY <1>1, InductiveInvariant, PTL

LEMMA BetweenSlices == ASSUME IInv PROVE NextBatchIsNew
<1> SUFFICES ASSUME NEW w \in Workers, ~running[w], NEW k \in 0 .. N - 1,
                    w \in bitmap[PktId2PoolIndex(k, shift[w]).slot][PktId2PoolIndex(k, shift[w]).set]
             PROVE  FALSE
  BY DEF NextBatchIsNew
<1>1. PICK j \in Nat : j = job[w] /\ j <= Len(Slices)
  BY JobsCount DEF IInv, TypeOK
<1>2. PICK b \in Nat : b = Base(j + 1)
  BY BaseType
<1>3. k \in Nat /\ k < N
  BY SlotsCount
<1>4. PICK p \in Nat : p = b + k
  BY <1>3
<1>5. shift[w] = b % (2 * N)
  BY <1>1, <1>2 DEF IInv, WorkerFollows, ShiftFollows
<1>6. PktId2PoolIndex(k, shift[w]) = [slot |-> p % N, set |-> (p \div N) % 2]
  BY <1>3, <1>4, <1>5, PoolIndexOfPosition
<1>7. p % N \in Slots /\ (p \div N) % 2 \in Sets
  <2>1. p % N \in Nat /\ p % N < N /\ p \div N \in Nat
    BY SlotsCount, Division
  <2>2. (p \div N) % 2 \in Nat /\ (p \div N) % 2 < 2
    BY <2>1, Division
  <2> QED BY <2>1, <2>2, SlotsCount DEF Slots, Sets
<1>8. w \in bitmap[p % N][(p \div N) % 2]
  BY <1>6
<1>9. PICK x \in Tasks : Latest(w, x) /\ SlotOf(x) = p % N /\ SetOf(x) = (p \div N) % 2
  BY <1>7, <1>8 DEF IInv, BitsFollow
<1>10. x[1] \in JobIds /\ x[1] \in Nat /\ x[2] \in Nat /\ x[2] < Total(x[1])
  BY TasksType
<1>11. \A u \in Tasks : u[1] <= j => Got(w, u)
  <2> SUFFICES ASSUME NEW u \in Tasks, u[1] <= j PROVE Got(w, u)
    OBVIOUS
  <2>1. u[1] \in JobIds /\ u[1] \in Nat /\ u[2] \in Nat /\ u[2] < Total(u[1])
    BY TasksType
  <2>2. CASE u[1] < j
    BY <1>1, <2>2 DEF Got
  <2>3. CASE u[1] = j
    <3>1. received[w] = 0 .. Total(j) - 1
      BY <1>1, <2>1, <2>3 DEF IInv, WorkerFollows, SliceFollows
    <3>2. u[2] \in 0 .. Total(j) - 1
      BY <2>1, <2>3, SliceShape
    <3> QED BY <1>1, <2>3, <3>1, <3>2 DEF Got
  <2> QED BY <1>1, <2>1, <2>2, <2>3
<1>12. x[1] <= j
  BY <1>1, <1>9, <1>10 DEF Latest, Added, Frontier, Got
<1>13. j \in JobIds
  BY <1>1, <1>10, <1>12, JobsCount DEF JobIds
<1>14. PICK q \in Nat : q = Pos(x) /\ q < b
  <2>1. Pos(x) \in Nat /\ Pos(x) < Base(x[1] + 1) /\ Base(x[1] + 1) \in Nat
    BY PosType
  <2>2. Base(x[1] + 1) <= Base(j + 1)
    BY <1>10, <1>12, BaseGrows
  <2> QED BY <1>2, <2>1, <2>2
<1>15. q + 2 * N <= p
  BY <1>4, <1>9, <1>14, <1>3, SlotDistance DEF SlotOf, SetOf
<1>16. q + N \in Nat /\ q + N < b
  BY <1>3, <1>4, <1>15, SlotsCount
<1>17. PICK y \in Tasks : Pos(y) = q + N /\ y[1] <= j
  BY <1>2, <1>13, <1>16, PosOnto
<1>18. Precedes(x, y)
  BY <1>14, <1>17, NextWindow, SlotsCount DEF Precedes, SlotOf
<1>19. Added(w, y)
  BY <1>11, <1>17 DEF Added
<1> QED BY <1>9, <1>18, <1>19 DEF Latest

\* Variables have their types; and as long as no timer of a first batch has run out and
\* the slices keep to a full window, a worker starts its next slice in sets of its
\* slots that do not hold its bit (switch_pool_index_shift).
THEOREM Consistency == Spec => []Consistent
<1>1. TypeInv /\ (Regular => IInv) => Consistent
  BY BetweenSlices DEF TypeInv, Consistent
<1> QED BY <1>1, TypeCorrectness, InductiveInvariant, PTL

LEMMA SlotsDiffer ==
  ASSUME IInv, NEW w \in Workers, running[w], FullWindow(job[w]),
         NEW k \in Outstanding(w), NEW l \in Outstanding(w), k < l
  PROVE  PktId2PoolIndex(k, shift[w]).slot # PktId2PoolIndex(l, shift[w]).slot
<1>1. PICK j \in JobIds : j = job[w]
  BY DEF IInv, WorkerFollows, SliceFollows
<1>2. /\ Total(j) \in Nat /\ Batch(j) \in Nat /\ Batch(j) <= N /\ N \in Nat
      /\ Batch(j) = N \/ Batch(j) = Total(j)
  BY <1>1, SliceShape, WindowIsFull, SlotsCount
<1>3. /\ k \in Nat /\ l \in Nat /\ k < Total(j) /\ l < Total(j)
      /\ k \notin received[w]
      /\ l < Batch(j) \/ l - Batch(j) \in received[w]
  BY <1>1, <1>2 DEF Outstanding
<1>4. PICK t \in Tasks : t = <<j, k>>
  BY <1>3, TasksType
<1>5. PICK u \in Tasks : u = <<j, l>>
  BY <1>3, TasksType
<1>6. t[1] = j /\ t[2] = k /\ u[1] = j /\ u[2] = l
  BY <1>4, <1>5
<1>7. shift[w] = Base(j) % (2 * N)
  BY <1>1 DEF IInv, WorkerFollows, ShiftFollows
<1>8. PktId2PoolIndex(k, shift[w]).slot = SlotOf(t) /\ PktId2PoolIndex(l, shift[w]).slot = SlotOf(u)
  <2>1. ASSUME NEW x \in Tasks PROVE PktId2PoolIndex(x[2], Base(x[1]) % (2 * N)).slot = SlotOf(x)
    <3>1. PktId2PoolIndex(x[2], Base(x[1]) % (2 * N)) = [slot |-> SlotOf(x), set |-> SetOf(x)]
      BY PoolIndexOfTask
    <3> QED BY <3>1
  <2>2. \A x \in Tasks : PktId2PoolIndex(x[2], Base(x[1]) % (2 * N)).slot = SlotOf(x)
    BY <2>1
  <2> QED BY <1>6, <1>7, <2>2
<1> SUFFICES ASSUME SlotOf(t) = SlotOf(u) PROVE FALSE
  BY <1>8
<1>9. Precedes(t, u)
  <2>1. ~(Pos(u) < Pos(t)) /\ t # u
    <3>1. j \in Nat
      BY JobsCount
    <3>2. ~(u[1] < t[1]) /\ ~(u[2] < t[2]) /\ t[2] # u[2]
      BY <1>3, <1>6, <3>1
    <3> QED BY <3>2, PosOrder
  <2> QED BY <2>1, SlotOrder DEF Precedes
<1>10. k + N <= l
  BY <1>6, <1>9, SlotOrderFollowsJobs, <1>1, JobsCount
<1>11. Batch(j) = N /\ l - N \in received[w] /\ l - N \in Nat
  BY <1>2, <1>3, <1>10
<1>12. PICK v \in Tasks : v = <<j, l - N>>
  <2>1. l - N < Total(j)
    BY <1>2, <1>3, <1>11
  <2>2. <<j, l - N>> \in Tasks
    BY <1>11, <2>1, TasksType
  <2> QED BY <2>2
<1>13. v[1] = j /\ v[2] = l - N
  BY <1>12
<1>14. t = v \/ Precedes(t, v)
  <2>1. u[1] = v[1] /\ u[2] = v[2] + N
    BY <1>2, <1>3, <1>6, <1>13
  <2> QED BY <1>9, <2>1, Successor
<1>15. Got(w, v)
  BY <1>1, <1>11, <1>13 DEF Got
<1>16. Got(w, t)
  BY <1>14, <1>15 DEF IInv, GotInOrder
<1> QED BY <1>1, <1>3, <1>6, <1>16, JobsCount DEF Got

\* As long as no timer of a first batch has run out and the slices keep to a full
\* window, two packets a worker waits for never share a slot of the switch:
\* PktId2PoolIndex follows the window, within a slice and with the shift from slice
\* to slice.
THEOREM SlotsAreShared == Spec => []OnePacketPerSlot
<1>1. (Regular => IInv) => OnePacketPerSlot
  <2> SUFFICES ASSUME Regular, IInv, NEW w \in Workers, running[w],
                      NEW k \in Outstanding(w), NEW l \in Outstanding(w), k # l
               PROVE  PktId2PoolIndex(k, shift[w]).slot # PktId2PoolIndex(l, shift[w]).slot
    BY DEF OnePacketPerSlot
  <2>1. k < l \/ l < k
    BY DEF Outstanding
  <2>2. FullWindow(job[w])
    <3>1. job[w] \in JobIds
      BY DEF IInv, WorkerFollows, SliceFollows
    <3>2. job[w] \in 1 .. job[w]
      BY <3>1, JobsCount
    <3> QED BY <3>2 DEF Regular
  <2> QED BY <2>1, <2>2, SlotsDiffer
<1> QED BY <1>1, InductiveInvariant, PTL

\* As long as no timer of a first batch has run out and the slices keep to a full
\* window, a timer that was armed after a first batch resends a packet its worker still
\* waits for, to that packet's own slot and set: no such timer outlives its packet or
\* its slice (ResendPacketCallback and the arguments it is given).
THEOREM TimersAreCurrent == Spec => []TimersResendOutstanding
<1>1. (Regular => IInv) => TimersResendOutstanding
  <2> SUFFICES ASSUME IInv, NEW w \in Workers, InLoop(w), NEW i \in Slots,
                      timers[w][i], ~args[w][i].long
               PROVE  /\ args[w][i].job = job[w] /\ args[w][i].pkt \in Outstanding(w)
                      /\ args[w][i].pool = PktId2PoolIndex(args[w][i].pkt, shift[w])
    BY DEF TimersResendOutstanding
  <2>1. PICK a : a = args[w][i]
    OBVIOUS
  <2>2. ~a.long
    BY <2>1
  <2>3. /\ a \in Args /\ running[w] /\ a.job = job[w] /\ a.pkt < Total(job[w])
        /\ a.pkt \notin received[w] /\ a.pkt >= N /\ a.pkt - N \in received[w]
        /\ Batch(job[w]) = N /\ a.pool = PktId2PoolIndex(a.pkt, shift[w])
    BY <2>1, <2>2 DEF IInv, WorkerFollows, TimerFollows
  <2>4. job[w] \in JobIds
    BY <2>3 DEF IInv, WorkerFollows, SliceFollows
  <2>5. a.pkt \in Nat /\ Total(job[w]) \in Nat
    BY <2>3, <2>4, PktIdsType, SliceShape DEF Args
  <2>6. a.pkt \in Outstanding(w)
    BY <2>3, <2>5 DEF Outstanding
  <2> QED BY <2>1, <2>3, <2>6
<1> QED BY <1>1, InductiveInvariant, PTL

=============================================================================
