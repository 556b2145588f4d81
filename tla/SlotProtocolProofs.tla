------------------------- MODULE SlotProtocolProofs -------------------------
(***************************************************************************)
(* Proofs about SlotProtocol, for every finite set of workers, every number *)
(* of packets and every bound on resends.                                   *)
(***************************************************************************)
EXTENDS SlotProtocol, FiniteSetTheorems, SequenceTheorems, TLAPS

LEMMA WorkersCount == NumWorkers \in Nat \ {0}
BY WorkersAssumption, FS_CardinalityType, FS_EmptySet DEF NumWorkers

LEMMA SetOfType == \A k \in Int : SetOf(k) \in Sets /\ SetOf(k + 1) # SetOf(k)
BY DEF SetOf, Sets

LEMMA PktsType ==
  \A k \in Pkts : k \in Nat /\ k <= LastPkt /\ SetOf(k) \in Sets
<1>1. \A k \in Pkts : k \in Int /\ k \in Nat /\ k <= LastPkt
  BY BoundsAssumption DEF Pkts, Stream!Pkts
<1> QED BY <1>1, SetOfType

LEMMA PayloadType ==
  ASSUME NEW w \in Workers, NEW k \in Pkts
  PROVE  Payload(w, k) \in [Contribs -> Nat]
BY DEF Payload

LEMMA RemoveAtProperties ==
  ASSUME NEW S, NEW s \in Seq(S), NEW i \in 1 .. Len(s)
  PROVE  /\ RemoveAt(s, i) \in Seq(S)
         /\ Len(RemoveAt(s, i)) = Len(s) - 1
         /\ \A j \in 1 .. Len(s) - 1 :
              RemoveAt(s, i)[j] = IF j < i THEN s[j] ELSE s[j + 1]
<1> DEFINE a == SubSeq(s, 1, i - 1)
           b == SubSeq(s, i + 1, Len(s))
<1>1. Len(s) \in Nat
  BY LenProperties
<1>2. \A j \in 1 .. Len(s) : s[j] \in S
  BY ElementOfSeq
<1>3. /\ a \in Seq(S)
      /\ Len(a) = i - 1
      /\ \A j \in 1 .. i - 1 : a[j] = s[j]
  <2>1. \A j \in 1 .. i - 1 : s[j] \in S
    BY <1>1, <1>2
  <2>2. /\ a \in Seq(S)
        /\ Len(a) = IF 1 <= i - 1 THEN i - 1 - 1 + 1 ELSE 0
        /\ \A j \in 1 .. i - 1 - 1 + 1 : a[j] = s[1 + j - 1]
    BY <2>1, <1>1, SubSeqProperties
  <2> QED BY <2>2, <1>1
<1>4. /\ b \in Seq(S)
      /\ Len(b) = Len(s) - i
      /\ \A j \in 1 .. Len(s) - i : b[j] = s[i + j]
  <2>1. \A j \in i + 1 .. Len(s) : s[j] \in S
    BY <1>1, <1>2
  <2>2. /\ b \in Seq(S)
        /\ Len(b) = IF i + 1 <= Len(s) THEN Len(s) - (i + 1) + 1 ELSE 0
        /\ \A j \in 1 .. Len(s) - (i + 1) + 1 : b[j] = s[i + 1 + j - 1]
    BY <2>1, <1>1, SubSeqProperties
  <2> QED BY <2>2, <1>1
<1>5. /\ a \o b \in Seq(S)
      /\ Len(a \o b) = Len(a) + Len(b)
      /\ \A j \in 1 .. Len(a) + Len(b) :
           (a \o b)[j] = IF j <= Len(a) THEN a[j] ELSE b[j - Len(a)]
  BY <1>3, <1>4, ConcatProperties
<1> HIDE DEF a, b
<1>6. Len(a) + Len(b) = Len(s) - 1
  BY <1>1, <1>3, <1>4
<1>7. ASSUME NEW j \in 1 .. Len(s) - 1
      PROVE  (a \o b)[j] = IF j < i THEN s[j] ELSE s[j + 1]
  <2>1. CASE j < i
    BY <2>1, <1>1, <1>3, <1>5, <1>6
  <2>2. CASE j >= i
    <3>1. j - (i - 1) \in 1 .. Len(s) - i
      BY <2>2, <1>1
    <3>2. (a \o b)[j] = b[j - (i - 1)]
      BY <2>2, <1>1, <1>3, <1>5, <1>6
    <3>3. b[j - (i - 1)] = s[i + (j - (i - 1))]
      BY <3>1, <1>4
    <3>4. i + (j - (i - 1)) = j + 1 /\ ~(j < i)
      BY <2>2, <1>1
    <3> QED BY <3>2, <3>3, <3>4
  <2>3. j < i \/ j >= i
    BY <1>1
  <2> QED BY <2>1, <2>2, <2>3
<1>8. RemoveAt(s, i) = a \o b
  BY DEF RemoveAt, a, b
<1> QED BY <1>5, <1>6, <1>7, <1>8

-----------------------------------------------------------------------------
(* Types of what the switch computes *)

LEMMA RegisterAfterType ==
  ASSUME NEW before, NEW seen \in BOOLEAN,
         NEW v \in [Contribs -> Nat], NEW u \in [Contribs -> Nat]
  PROVE  RegisterAfter(before, seen, v, u) \in [Contribs -> Nat]
<1>1. Add(v, u) \in [Contribs -> Nat]
  BY DEF Add
<1> QED BY <1>1 DEF RegisterAfter

LEMMA CountAfterType ==
  ASSUME NEW c \in 0 .. NumWorkers - 1, NEW seen \in BOOLEAN
  PROVE  /\ CountAfter(c, seen) \in 0 .. NumWorkers - 1
         /\ FirstLastFlag(c, seen) \in Nat
BY WorkersCount DEF CountAfter, FirstLastFlag

LEMMA UpdateBitmapType ==
  ASSUME NEW b \in [Sets -> SUBSET Workers], NEW w \in Workers, NEW s \in Sets
  PROVE  UpdateBitmap(b, w, s) \in [Sets -> SUBSET Workers]
BY DEF UpdateBitmap

LEMMA TypeInit == Init => TypeOK
<1> SUFFICES ASSUME Init PROVE TypeOK
  OBVIOUS
<1>1. Stream!Zero \in [Contribs -> Nat]
  BY DEF Stream!Zero, Contribs
<1>2. cur \in [Workers -> NotStarted .. LastPkt + 1]
  BY BoundsAssumption DEF Init, Stream!Init, NotStarted, Stream!NotStarted
<1>3. out \in [Workers -> [Pkts -> [hi : [Contribs -> Nat], lo : [Contribs -> Nat]]]]
  BY <1>1 DEF Init, Stream!Init, Stream!NoResult, Stream!Result, Pkts
<1>4. 0 \in 0 .. NumWorkers - 1
  BY WorkersCount
<1> QED BY <1>1, <1>2, <1>3, <1>4 DEF Init, TypeOK

LEMMA LeaveRecircType ==
  ASSUME TypeOK, LeaveRecirc
  PROVE  /\ Head(recirc) \in RecircPkt /\ recirc' \in Seq(RecircPkt)
         /\ broadcasted' \in SUBSET Pkts
<1>1. Head(recirc) \in RecircPkt /\ recirc' \in Seq(RecircPkt)
  BY HeadTailProperties DEF LeaveRecirc, TypeOK
<1>2. Head(recirc).k \in Pkts
  BY <1>1 DEF RecircPkt
<1>3. broadcasted' \in {broadcasted, broadcasted \cup {Head(recirc).k}}
  BY DEF LeaveRecirc
<1> QED BY <1>1, <1>2, <1>3 DEF TypeOK

LEMMA TypeStep == TypeOK /\ [Next]_vars => TypeOK'
<1> SUFFICES ASSUME TypeOK, [Next]_vars PROVE TypeOK'
  OBVIOUS
<1>1. ASSUME NEW w \in Workers, SendFirst(w) PROVE TypeOK'
  <2>1. 0 \in Pkts /\ 0 \in NotStarted .. LastPkt + 1
    BY BoundsAssumption DEF Pkts, Stream!Pkts, NotStarted, Stream!NotStarted
  <2> QED BY <1>1, <2>1 DEF TypeOK, SendFirst, switchVars
<1>2. ASSUME NEW w \in Workers, Timeout(w) PROVE TypeOK'
  BY <1>2 DEF TypeOK, Timeout, switchVars
<1>3. ASSUME NEW w \in Workers, Receive(w) PROVE TypeOK'
  <2>1. PICK m \in down[w] :
          /\ down' = [down EXCEPT ![w] = @ \ {m}]
          /\ Accept(w, m) \/ Discard(w, m)
          /\ UNCHANGED switchVars
    BY <1>3 DEF Receive
  <2>2. m \in ResultPkt
    BY DEF TypeOK
  <2>3. down' \in [Workers -> SUBSET ResultPkt]
    BY <2>1 DEF TypeOK
  <2>4. CASE Accept(w, m)
    <3>1. m.k + 1 \in NotStarted .. LastPkt + 1
      BY <2>2, BoundsAssumption
         DEF ResultPkt, Pkts, Stream!Pkts, NotStarted, Stream!NotStarted
    <3>2. cur' \in [Workers -> NotStarted .. LastPkt + 1]
      BY <2>4, <3>1 DEF Accept, TypeOK
    <3>3. up' \in [Workers -> Seq(Pkts)]
      BY <2>4 DEF Accept, TypeOK
    <3>4. out' \in [Workers -> [Pkts -> [hi : [Contribs -> Nat],
                                        lo : [Contribs -> Nat]]]]
      BY <2>4, <2>2 DEF Accept, TypeOK, Stream!Result, ResultPkt
    <3> QED BY <2>1, <2>3, <3>2, <3>3, <3>4 DEF TypeOK, switchVars
  <2>5. CASE Discard(w, m)
    BY <2>1, <2>3, <2>5 DEF Discard, TypeOK, switchVars
  <2> QED BY <2>1, <2>4, <2>5
<1>4. ASSUME NEW w \in Workers, Consume(w) PROVE TypeOK'
  <2> DEFINE k    == Head(up[w])
             s    == SetOf(k)
             seen == MapResult(bitmap[s], w)
             flag == FirstLastFlag(count[s], seen)
             sum  == RegisterAfter(bitmap[s], seen, value[s], Payload(w, k))
             e    == [w |-> w, k |-> k, flag |-> flag, seen |-> seen, hi |-> sum]
  <2>1. k \in Pkts /\ Tail(up[w]) \in Seq(Pkts)
    BY <1>4 DEF Consume, TypeOK
  <2>2. s \in Sets
    BY <2>1, PktsType
  <2>3. seen \in BOOLEAN
    BY DEF MapResult
  <2>4. sum \in [Contribs -> Nat]
    BY <2>1, <2>2, <2>3, RegisterAfterType, PayloadType DEF TypeOK
  <2>5. CountAfter(count[s], seen) \in 0 .. NumWorkers - 1 /\ flag \in Nat
    BY <2>2, <2>3, CountAfterType DEF TypeOK
  <2>6. UpdateBitmap(bitmap, w, s) \in [Sets -> SUBSET Workers]
    BY <2>2, UpdateBitmapType DEF TypeOK
  <2>7. e \in RecircPkt
    BY <2>1, <2>3, <2>4, <2>5 DEF RecircPkt
  <2>8. /\ bitmap' = UpdateBitmap(bitmap, w, s)
        /\ count' = [count EXCEPT ![s] = CountAfter(count[s], seen)]
        /\ value' = [value EXCEPT ![s] = sum]
        /\ recirc' = Append(recirc, e) \/ recirc' = recirc
        /\ up' = [up EXCEPT ![w] = Tail(up[w])]
        /\ UNCHANGED <<workerVars, down, broadcasted>>
    BY <1>4 DEF Consume
  <2> HIDE DEF k, s, seen, flag, sum, e
  <2>9. recirc' \in Seq(RecircPkt)
    <3>1. recirc \in Seq(RecircPkt)
      BY DEF TypeOK
    <3>2. Append(recirc, e) \in Seq(RecircPkt)
      BY <2>7, <3>1, AppendProperties
    <3> QED BY <2>8, <3>1, <3>2
  <2> QED BY <2>1, <2>2, <2>4, <2>5, <2>6, <2>8, <2>9 DEF TypeOK, workerVars
<1>5. ASSUME NEW w \in Workers, LoseUplink(w) PROVE TypeOK'
  <2>1. PICK i \in 1 .. Len(up[w]) : up' = [up EXCEPT ![w] = RemoveAt(up[w], i)]
    BY <1>5 DEF LoseUplink
  <2>2. RemoveAt(up[w], i) \in Seq(Pkts)
    BY RemoveAtProperties DEF TypeOK
  <2> QED BY <1>5, <2>1, <2>2 DEF TypeOK, LoseUplink, workerVars, switchVars
<1>6. ASSUME NEW w \in Workers, LoseDownlink(w) PROVE TypeOK'
  BY <1>6 DEF TypeOK, LoseDownlink, workerVars, switchVars
<1>7. CASE Harvest
  <2> DEFINE e == Head(recirc)
             m == [k |-> e.k, hi |-> e.hi, lo |-> value[SetOf(e.k)]]
  <2>1. /\ e \in RecircPkt /\ recirc' \in Seq(RecircPkt)
        /\ broadcasted' \in SUBSET Pkts
    BY <1>7, LeaveRecircType DEF Harvest
  <2>2. SetOf(e.k) \in Sets
    BY <2>1, PktsType DEF RecircPkt
  <2>3. m \in ResultPkt
    BY <2>1, <2>2 DEF RecircPkt, ResultPkt, TypeOK
  <2>4. \A v \in Workers : down'[v] \in {down[v] \cup {m}, down[v]}
    BY <1>7 DEF Harvest
  <2>5. down' = [v \in Workers |-> down'[v]]
    BY <1>7 DEF Harvest
  <2> HIDE DEF m
  <2>6. down' \in [Workers -> SUBSET ResultPkt]
    BY <2>3, <2>4, <2>5 DEF TypeOK
  <2> QED BY <1>7, <2>1, <2>6 DEF TypeOK, Harvest, workerVars
<1>8. CASE DropInSwitch
  BY <1>8, LeaveRecircType DEF TypeOK, DropInSwitch, workerVars
<1>9. CASE UNCHANGED vars
  BY <1>9 DEF TypeOK, vars
<1> QED BY <1>1, <1>2, <1>3, <1>4, <1>5, <1>6, <1>7, <1>8, <1>9 DEF Next, Done

\* Every variable of the slot protocol keeps its type; in particular the count
\* register never wraps below zero nor reaches the number of workers.
THEOREM TypeCorrect == Spec => []TypeOK
BY TypeInit, TypeStep, PTL DEF Spec

-----------------------------------------------------------------------------
(* Levels *)

LEMMA SameSet ==
  ASSUME NEW j \in Int, NEW k \in Int, SetOf(j) = SetOf(k), j <= k + 1, k <= j + 1
  PROVE  j = k
BY DEF SetOf

LEMMA LevelBounds ==
  ASSUME TypeOK, NEW w \in Workers
  PROVE  /\ cur[w] \in Int /\ cur[w] >= -1 /\ cur[w] <= LastPkt + 1
         /\ Level(w) \in Int /\ Level(w) >= -1
         /\ Level(w) = cur[w] \/ Level(w) = cur[w] - 1
<1>1. cur[w] \in NotStarted .. LastPkt + 1 /\ NotStarted = -1
  BY DEF TypeOK, NotStarted, Stream!NotStarted
<1> QED BY <1>1, BoundsAssumption DEF Level

LEMMA LevelBoundsAfter ==
  ASSUME TypeOK', NEW w \in Workers
  PROVE  /\ cur'[w] \in Int /\ Level(w)' \in Int /\ Level(w)' >= -1
         /\ Level(w)' = cur'[w] \/ Level(w)' = cur'[w] - 1
<1>1. cur'[w] \in NotStarted .. LastPkt + 1 /\ NotStarted = -1
  BY DEF TypeOK, NotStarted, Stream!NotStarted
<1> QED BY <1>1, BoundsAssumption DEF Level

\* Nobody's level is more than one below anybody's current packet.
LEMMA LevelsClose ==
  ASSUME TypeOK, Lockstep, NEW v \in Workers, NEW w \in Workers
  PROVE  Level(v) <= Level(w) + 1 /\ cur[v] <= Level(w) + 1
<1>1. Level(w) >= cur[v] - 1
  BY DEF Lockstep
<1> QED BY <1>1, LevelBounds

LEMMA FullSet ==
  ASSUME NEW S \in SUBSET Workers
  PROVE  /\ IsFiniteSet(S) /\ Cardinality(S) \in Nat
         /\ Cardinality(S) <= NumWorkers
         /\ Cardinality(S) = NumWorkers <=> S = Workers
         /\ \A w \in Workers \ S : Cardinality(S \cup {w}) = Cardinality(S) + 1
BY WorkersAssumption, FS_Subset, FS_CardinalityType, FS_AddElement DEF NumWorkers

\* When everybody has reached packet k, its partial sum is the full sum.
LEMMA FullSum ==
  ASSUME NEW k, \A v \in Workers : Level(v) >= k
  PROVE  PartialSum(k) = Stream!SumOf(k)
<1>1. \A c \in Contribs : c[1] \in Workers
  BY DEF Contribs, Stream!Contribs
<1>2. Contributed(k) = Workers
  BY DEF Contributed
<1> QED BY <1>1, <1>2 DEF PartialSum, Stream!SumOf, Contribs

LEMMA InitialIInv == Init => IInv
<1> SUFFICES ASSUME Init PROVE IInv
  OBVIOUS
<1>1. TypeOK
  BY TypeInit
<1>2. \A w \in Workers : cur[w] = -1 /\ Level(w) = -1 /\ up[w] = <<>> /\ down[w] = {}
  BY DEF Init, Stream!Init, Level, NotStarted, Stream!NotStarted
<1>3. BitsFollowLevels
  BY <1>2, BoundsAssumption DEF BitsFollowLevels, Init
<1>4. Lockstep
  BY <1>2 DEF Lockstep
<1>5. RegistersFollowLevels
  BY <1>2 DEF RegistersFollowLevels, Init
<1>6. UplinkInOrder
  BY <1>2 DEF UplinkInOrder
<1>7. RecircComplete
  BY DEF RecircComplete, Init
<1>8. DownlinkExact
  BY <1>2 DEF DownlinkExact
<1>9. ResultsExact
  BY <1>2, PktsType DEF ResultsExact
<1> QED BY <1>1, <1>3, <1>4, <1>5, <1>6, <1>7, <1>8, <1>9 DEF IInv

\* A step that leaves the registers and all levels alone.
LEMMA RegistersStable ==
  ASSUME BitsFollowLevels, RegistersFollowLevels,
         bitmap' = bitmap, count' = count, value' = value,
         \A v \in Workers : Level(v)' = Level(v)
  PROVE  BitsFollowLevels' /\ RegistersFollowLevels'
<1>1. \A k : Contributed(k)' = Contributed(k)
  BY DEF Contributed
<1>2. \A k : PartialSum(k)' = PartialSum(k)
  BY <1>1 DEF PartialSum
<1>3. BitsFollowLevels'
  BY DEF BitsFollowLevels
<1>4. RegistersFollowLevels'
  BY <1>1, <1>2 DEF RegistersFollowLevels
<1> QED BY <1>3, <1>4

LEMMA LevelStable ==
  ASSUME cur' = cur, bitmap' = bitmap
  PROVE  \A v \in Workers : Level(v)' = Level(v)
BY DEF Level

-----------------------------------------------------------------------------
(* One lemma per action: it preserves the inductive invariant *)

LEMMA SendFirstInv ==
  ASSUME IInv, TypeOK', NEW w \in Workers, SendFirst(w)
  PROVE  IInv'
<1> USE DEF NotStarted, Stream!NotStarted
<1>1. /\ TypeOK /\ BitsFollowLevels /\ Lockstep /\ RegistersFollowLevels
      /\ UplinkInOrder /\ RecircComplete /\ DownlinkExact /\ ResultsExact
  BY DEF IInv
<1>2. /\ cur[w] = -1 /\ cur' = [cur EXCEPT ![w] = 0]
      /\ up' = [up EXCEPT ![w] = Append(up[w], 0)]
      /\ out' = out /\ down' = down /\ recirc' = recirc
      /\ bitmap' = bitmap /\ count' = count /\ value' = value
  BY DEF SendFirst, switchVars
<1>3. \A v \in Workers : cur'[v] = IF v = w THEN 0 ELSE cur[v]
  BY <1>1, <1>2 DEF TypeOK
<1>4. \A v \in Workers : Level(v)' = Level(v)
  <2>1. Level(w) = -1
    BY <1>2 DEF Level
  <2>2. w \notin bitmap[SetOf(0)]
    BY <1>1, <2>1, SetOfType DEF BitsFollowLevels
  <2>3. Level(w)' = -1
    BY <1>2, <1>3, <2>2 DEF Level
  <2>4. ASSUME NEW v \in Workers, v # w PROVE Level(v)' = Level(v)
    BY <1>2, <1>3, <2>4 DEF Level
  <2> QED BY <2>1, <2>3, <2>4
<1>5. BitsFollowLevels' /\ RegistersFollowLevels'
  BY <1>1, <1>2, <1>4, RegistersStable
<1>6. Lockstep'
  BY <1>1, <1>3, <1>4, LevelBounds DEF Lockstep
<1>7. up[w] = <<>>
  <2>1. up[w] \in Seq(Pkts)
    BY <1>1 DEF TypeOK
  <2>2. \A i \in 1 .. Len(up[w]) : up[w][i] \in Pkts /\ up[w][i] <= -1
    BY <2>1, <1>1, <1>2, ElementOfSeq DEF UplinkInOrder
  <2>3. \A i \in 1 .. Len(up[w]) : FALSE
    BY <2>2, PktsType
  <2> QED BY <2>1, <2>3, EmptySeq
<1>8. UplinkInOrder'
  <2>1. up'[w] = <<0>>
    BY <1>1, <1>2, <1>7 DEF TypeOK
  <2>2. \A v \in Workers : v # w => up'[v] = up[v]
    BY <1>1, <1>2 DEF TypeOK
  <2>3. Level(w)' <= 0 /\ cur'[w] = 0
    BY <1>1, <1>2, <1>3, <1>4, LevelBounds DEF Level
  <2>4. Len(up'[w]) = 1 /\ up'[w][1] = 0
    BY <2>1
  <2> QED BY <1>1, <1>3, <1>4, <2>2, <2>3, <2>4 DEF UplinkInOrder
<1>9. RecircComplete'
  BY <1>1, <1>2, <1>4 DEF RecircComplete
<1>10. DownlinkExact'
  <2>1. ASSUME NEW m \in down[w] PROVE FALSE
    <3>1. m.k \in Pkts /\ Level(w) >= m.k
      BY <1>1 DEF DownlinkExact, TypeOK, ResultPkt
    <3>2. Level(w) = -1
      BY <1>2 DEF Level
    <3> QED BY <3>1, <3>2, PktsType
  <2> QED BY <1>1, <1>2, <1>3, <1>4, <2>1 DEF DownlinkExact
<1>11. ResultsExact'
  BY <1>1, <1>2, <1>3, PktsType DEF ResultsExact
<1> QED BY <1>5, <1>6, <1>8, <1>9, <1>10, <1>11 DEF IInv

LEMMA TimeoutInv ==
  ASSUME IInv, TypeOK', NEW w \in Workers, Timeout(w)
  PROVE  IInv'
<1>1. /\ TypeOK /\ BitsFollowLevels /\ Lockstep /\ RegistersFollowLevels
      /\ UplinkInOrder /\ RecircComplete /\ DownlinkExact /\ ResultsExact
  BY DEF IInv
<1>2. /\ up' = [up EXCEPT ![w] = Append(up[w], cur[w])] /\ cur[w] \in Pkts
      /\ cur' = cur /\ out' = out /\ down' = down /\ recirc' = recirc
      /\ bitmap' = bitmap /\ count' = count /\ value' = value
  BY DEF Timeout, switchVars
<1>3. \A v \in Workers : Level(v)' = Level(v)
  BY <1>2, LevelStable
<1>4. BitsFollowLevels' /\ RegistersFollowLevels'
  BY <1>1, <1>2, <1>3, RegistersStable
<1>5. UplinkInOrder'
  <2>1. /\ up[w] \in Seq(Pkts) /\ Len(up[w]) \in Nat
        /\ \A i \in 1 .. Len(up[w]) : up[w][i] \in Int
    BY <1>1, ElementOfSeq, LenProperties, PktsType DEF TypeOK
  <2>2. /\ Len(up'[w]) = Len(up[w]) + 1
        /\ \A i \in 1 .. Len(up[w]) : up'[w][i] = up[w][i]
        /\ up'[w][Len(up[w]) + 1] = cur[w]
    <3>1. up'[w] = Append(up[w], cur[w])
      BY <1>1, <1>2 DEF TypeOK
    <3> QED BY <2>1, <3>1, <1>2, AppendProperties
  <2>3. \A v \in Workers : v # w => up'[v] = up[v]
    BY <1>1, <1>2 DEF TypeOK
  <2>4. Level(w) \in Int /\ cur[w] \in Int /\ Level(w) <= cur[w]
    BY <1>1, LevelBounds
  <2>5. /\ \A i \in 1 .. Len(up[w]) : Level(w) <= up[w][i] /\ up[w][i] <= cur[w]
        /\ \A i, j \in 1 .. Len(up[w]) : i <= j => up[w][i] <= up[w][j]
    BY <1>1 DEF UplinkInOrder
  <2>6. \A i \in 1 .. Len(up'[w]) : i \in 1 .. Len(up[w]) \/ i = Len(up[w]) + 1
    BY <2>1, <2>2
  <2>7. \A i \in 1 .. Len(up'[w]) : Level(w) <= up'[w][i] /\ up'[w][i] <= cur[w]
    BY <2>2, <2>4, <2>5, <2>6
  <2>8. ASSUME NEW i \in 1 .. Len(up'[w]), NEW j \in 1 .. Len(up'[w]), i <= j
        PROVE  up'[w][i] <= up'[w][j]
    <3>1. CASE j \in 1 .. Len(up[w])
      BY <2>1, <2>2, <2>5, <2>6, <2>8, <3>1
    <3>2. CASE j = Len(up[w]) + 1
      BY <2>2, <2>7, <3>2
    <3> QED BY <2>6, <3>1, <3>2
  <2> QED BY <1>1, <1>2, <1>3, <2>3, <2>7, <2>8 DEF UplinkInOrder
<1>6. Lockstep' /\ RecircComplete' /\ DownlinkExact' /\ ResultsExact'
  BY <1>1, <1>2, <1>3 DEF Lockstep, RecircComplete, DownlinkExact, ResultsExact
<1> QED BY <1>4, <1>5, <1>6 DEF IInv

LEMMA AcceptInv ==
  ASSUME IInv, TypeOK', NEW w \in Workers, NEW m \in down[w], Accept(w, m),
         down' = [down EXCEPT ![w] = @ \ {m}], UNCHANGED switchVars
  PROVE  IInv'
<1> USE DEF NotStarted, Stream!NotStarted
<1> DEFINE k == m.k
<1>1. /\ TypeOK /\ BitsFollowLevels /\ Lockstep /\ RegistersFollowLevels
      /\ UplinkInOrder /\ RecircComplete /\ DownlinkExact /\ ResultsExact
  BY DEF IInv
<1>2. k \in Pkts /\ k \in Nat /\ k <= LastPkt
  BY <1>1, PktsType DEF TypeOK, ResultPkt
<1>3. \A v \in Workers : Level(v) >= k
  BY <1>1 DEF DownlinkExact
<1>4. k = cur[w] /\ Level(w) = k
  <2>1. k >= cur[w]
    BY DEF Accept
  <2> QED BY <2>1, <1>1, <1>2, <1>3, LevelBounds
<1>5. /\ out' = [out EXCEPT ![w][k] = Stream!Result(m.hi, m.lo)]
      /\ cur' = [cur EXCEPT ![w] = k + 1]
      /\ up' = IF k + 1 \in Pkts THEN [up EXCEPT ![w] = Append(up[w], k + 1)] ELSE up
      /\ recirc' = recirc /\ bitmap' = bitmap /\ count' = count /\ value' = value
  BY DEF Accept, switchVars
<1> HIDE DEF k
<1>6. \A v \in Workers : cur'[v] = IF v = w THEN k + 1 ELSE cur[v]
  BY <1>1, <1>5 DEF TypeOK
<1>7. \A v \in Workers : Level(v)' = Level(v)
  <2>1. w \notin bitmap[SetOf(k + 1)]
    BY <1>1, <1>2, <1>4, SetOfType DEF BitsFollowLevels
  <2>2. Level(w)' = k
    BY <1>2, <1>5, <1>6, <2>1 DEF Level
  <2>3. ASSUME NEW v \in Workers, v # w PROVE Level(v)' = Level(v)
    BY <1>5, <1>6, <2>3 DEF Level
  <2> QED BY <1>4, <2>2, <2>3
<1>8. BitsFollowLevels' /\ RegistersFollowLevels'
  BY <1>1, <1>5, <1>7, RegistersStable
<1>9. Lockstep'
  <2>1. \A v \in Workers : Level(v) \in Int
    BY <1>1, LevelBounds
  <2> QED BY <1>1, <1>2, <1>3, <1>6, <1>7, <2>1 DEF Lockstep
<1>10. UplinkInOrder'
  <2>1. /\ up[w] \in Seq(Pkts) /\ Len(up[w]) \in Nat
        /\ \A i \in 1 .. Len(up[w]) : up[w][i] \in Int
    BY <1>1, ElementOfSeq, LenProperties, PktsType DEF TypeOK
  <2>2. /\ \A i \in 1 .. Len(up[w]) : k <= up[w][i] /\ up[w][i] <= k
        /\ \A i, j \in 1 .. Len(up[w]) : i <= j => up[w][i] <= up[w][j]
    BY <1>1, <1>4 DEF UplinkInOrder
  <2>3. CASE k + 1 \in Pkts
    <3>1. up'[w] = Append(up[w], k + 1)
      BY <1>1, <1>5, <2>3 DEF TypeOK
    <3>2. /\ Len(up'[w]) = Len(up[w]) + 1
          /\ \A i \in 1 .. Len(up[w]) : up'[w][i] = up[w][i]
          /\ up'[w][Len(up[w]) + 1] = k + 1
      BY <2>1, <2>3, <3>1, AppendProperties
    <3>3. \A i \in 1 .. Len(up'[w]) : i \in 1 .. Len(up[w]) \/ i = Len(up[w]) + 1
      BY <2>1, <3>2
    <3>4. ASSUME NEW i \in 1 .. Len(up'[w])
          PROVE  k <= up'[w][i] /\ up'[w][i] <= k + 1
      <4>1. CASE i \in 1 .. Len(up[w])
        <5>1. /\ up'[w][i] = up[w][i] /\ up[w][i] \in Int
              /\ k <= up[w][i] /\ up[w][i] <= k
          BY <2>1, <2>2, <3>2, <4>1
        <5> QED BY <1>2, <5>1
      <4>2. CASE i = Len(up[w]) + 1
        <5>1. up'[w][i] = k + 1
          BY <3>2, <4>2
        <5> QED BY <1>2, <5>1
      <4> QED BY <3>3, <4>1, <4>2
    <3>5. ASSUME NEW i \in 1 .. Len(up'[w]), NEW j \in 1 .. Len(up'[w]), i <= j
          PROVE  up'[w][i] <= up'[w][j]
      <4>1. CASE j \in 1 .. Len(up[w])
        <5>1. i \in 1 .. Len(up[w])
          BY <2>1, <3>5, <4>1
        <5> QED BY <2>2, <3>2, <3>5, <4>1, <5>1
      <4>2. CASE j = Len(up[w]) + 1
        <5>1. up'[w][j] = k + 1
          BY <3>2, <4>2
        <5> QED BY <3>4, <5>1
      <4> QED BY <3>3, <4>1, <4>2
    <3>6. \A v \in Workers : v # w => up'[v] = up[v]
      BY <1>1, <1>5, <2>3 DEF TypeOK
    <3> QED BY <1>1, <1>4, <1>6, <1>7, <3>4, <3>5, <3>6 DEF UplinkInOrder
  <2>4. CASE k + 1 \notin Pkts
    <3>1. up' = up
      BY <1>5, <2>4
    <3>2. \A i \in 1 .. Len(up[w]) : up[w][i] <= k + 1
      BY <1>2, <2>1, <2>2
    <3> QED BY <1>1, <1>4, <1>6, <1>7, <2>2, <3>1, <3>2 DEF UplinkInOrder
  <2> QED BY <2>3, <2>4
<1>11. RecircComplete'
  BY <1>1, <1>5, <1>7 DEF RecircComplete
<1>12. DownlinkExact'
  <2>1. \A v \in Workers : \A p \in down'[v] : p \in down[v] /\ p.k \in Nat
    BY <1>1, PktsType DEF TypeOK, ResultPkt
  <2>2. \A p \in down'[w] : p.k # cur'[w]
    <3>1. \A p \in down'[w] : k >= p.k /\ p.k \in Nat
      BY <1>1, <1>4, <2>1 DEF DownlinkExact
    <3> QED BY <1>2, <1>6, <3>1
  <2> QED BY <1>1, <1>6, <1>7, <2>1, <2>2 DEF DownlinkExact
<1>13. ResultsExact'
  <2>1. m.hi = Stream!SumOf(k) /\ m.lo = Stream!SumOf(k)
    BY <1>1, <1>4 DEF DownlinkExact, k
  <2>2. out'[w][k] = Stream!Reduced(k)
    BY <1>1, <1>2, <1>5, <2>1 DEF TypeOK, Stream!Reduced, Stream!Result
  <2>3. \A j \in Pkts : j # k => out'[w][j] = out[w][j]
    BY <1>1, <1>2, <1>5 DEF TypeOK
  <2>4. \A v \in Workers : v # w => out'[v] = out[v]
    BY <1>1, <1>2, <1>5 DEF TypeOK
  <2>5. ASSUME NEW v \in Workers, NEW j \in Pkts, j < cur'[v]
        PROVE  out'[v][j] = Stream!Reduced(j)
    <3>1. CASE v = w /\ j = k
      BY <2>2, <3>1
    <3>2. CASE v = w /\ j # k
      <4>1. j < cur[w]
        BY <1>2, <1>4, <1>6, <2>5, <3>2, PktsType
      <4> QED BY <1>1, <2>3, <3>2, <4>1 DEF ResultsExact
    <3>3. CASE v # w
      BY <1>1, <1>6, <2>4, <2>5, <3>3 DEF ResultsExact
    <3> QED BY <3>1, <3>2, <3>3
  <2> QED BY <2>5 DEF ResultsExact
<1> QED BY <1>8, <1>9, <1>10, <1>11, <1>12, <1>13 DEF IInv

\* Steps that only take messages away.
LEMMA LossInv ==
  ASSUME IInv, TypeOK', UNCHANGED <<workerVars, bitmap, count, value>>,
         UplinkInOrder', RecircComplete',
         \A v \in Workers : down'[v] \in SUBSET down[v]
  PROVE  IInv'
<1>1. /\ TypeOK /\ BitsFollowLevels /\ Lockstep /\ RegistersFollowLevels
      /\ UplinkInOrder /\ RecircComplete /\ DownlinkExact /\ ResultsExact
  BY DEF IInv
<1>2. \A v \in Workers : Level(v)' = Level(v)
  BY LevelStable DEF workerVars
<1>3. BitsFollowLevels' /\ RegistersFollowLevels'
  BY <1>1, <1>2, RegistersStable
<1>4. DownlinkExact'
  BY <1>1, <1>2 DEF DownlinkExact, workerVars
<1>5. Lockstep' /\ ResultsExact'
  BY <1>1, <1>2 DEF Lockstep, ResultsExact, workerVars
<1> QED BY <1>3, <1>4, <1>5 DEF IInv

LEMMA RecircStable ==
  ASSUME RecircComplete, recirc' = recirc, \A v \in Workers : Level(v)' = Level(v)
  PROVE  RecircComplete'
BY DEF RecircComplete

LEMMA UplinkStable ==
  ASSUME UplinkInOrder, up' = up, cur' = cur, \A v \in Workers : Level(v)' = Level(v)
  PROVE  UplinkInOrder'
BY DEF UplinkInOrder

LEMMA ReceiveInv ==
  ASSUME IInv, TypeOK', NEW w \in Workers, Receive(w)
  PROVE  IInv'
<1>1. PICK m \in down[w] :
        /\ down' = [down EXCEPT ![w] = @ \ {m}]
        /\ Accept(w, m) \/ Discard(w, m)
        /\ UNCHANGED switchVars
  BY DEF Receive
<1>2. CASE Accept(w, m)
  BY <1>1, <1>2, AcceptInv
<1>3. CASE Discard(w, m)
  <2>1. /\ UNCHANGED <<workerVars, bitmap, count, value>>
        /\ up' = up /\ recirc' = recirc /\ cur' = cur /\ bitmap' = bitmap
    BY <1>1, <1>3 DEF Discard, workerVars, switchVars
  <2>2. \A v \in Workers : down'[v] \in SUBSET down[v]
    BY <1>1 DEF IInv, TypeOK
  <2> QED BY <2>1, <2>2, LossInv, LevelStable, RecircStable, UplinkStable DEF IInv
<1> QED BY <1>1, <1>2, <1>3

LEMMA LoseDownlinkInv ==
  ASSUME IInv, TypeOK', NEW w \in Workers, LoseDownlink(w)
  PROVE  IInv'
<1>1. /\ UNCHANGED <<workerVars, bitmap, count, value>>
      /\ up' = up /\ recirc' = recirc /\ cur' = cur /\ bitmap' = bitmap
  BY DEF LoseDownlink, workerVars, switchVars
<1>2. \A v \in Workers : down'[v] \in SUBSET down[v]
  BY DEF LoseDownlink, IInv, TypeOK
<1> QED BY <1>1, <1>2, LossInv, LevelStable, RecircStable, UplinkStable DEF IInv

LEMMA LoseUplinkInv ==
  ASSUME IInv, TypeOK', NEW w \in Workers, LoseUplink(w)
  PROVE  IInv'
<1>1. /\ UNCHANGED <<workerVars, bitmap, count, value>>
      /\ down' = down /\ recirc' = recirc /\ cur' = cur /\ bitmap' = bitmap
  BY DEF LoseUplink, workerVars, switchVars
<1>2. \A v \in Workers : Level(v)' = Level(v)
  BY <1>1, LevelStable
<1>3. PICK i \in 1 .. Len(up[w]) : up' = [up EXCEPT ![w] = RemoveAt(up[w], i)]
  BY DEF LoseUplink
<1>4. up[w] \in Seq(Pkts) /\ Len(up[w]) \in Nat
  BY LenProperties DEF IInv, TypeOK
<1>5. /\ Len(up'[w]) = Len(up[w]) - 1
      /\ \A j \in 1 .. Len(up[w]) - 1 :
           up'[w][j] = IF j < i THEN up[w][j] ELSE up[w][j + 1]
  <2>1. up'[w] = RemoveAt(up[w], i)
    BY <1>3 DEF IInv, TypeOK
  <2> QED BY <1>4, <2>1, RemoveAtProperties
<1>6. \A v \in Workers : v # w => up'[v] = up[v]
  BY <1>3 DEF IInv, TypeOK
<1>7. /\ \A j \in 1 .. Len(up[w]) : Level(w) <= up[w][j] /\ up[w][j] <= cur[w]
      /\ \A h, j \in 1 .. Len(up[w]) : h <= j => up[w][h] <= up[w][j]
  BY DEF IInv, UplinkInOrder
<1>8. \A j \in 1 .. Len(up'[w]) : Level(w) <= up'[w][j] /\ up'[w][j] <= cur[w]
  BY <1>4, <1>5, <1>7
<1>9. \A h, j \in 1 .. Len(up'[w]) : h <= j => up'[w][h] <= up'[w][j]
  BY <1>4, <1>5, <1>7
<1>10. UplinkInOrder'
  BY <1>1, <1>2, <1>6, <1>8, <1>9 DEF UplinkInOrder, IInv
<1> QED BY <1>1, <1>2, <1>10, LossInv, RecircStable DEF IInv

LEMMA RecircTail ==
  ASSUME TypeOK, RecircComplete, recirc # <<>>, recirc' = Tail(recirc),
         \A v \in Workers : Level(v)' = Level(v)
  PROVE  RecircComplete'
<1>1. /\ recirc \in Seq(RecircPkt) /\ Len(recirc) \in Nat
      /\ Len(recirc') = Len(recirc) - 1
      /\ \A i \in 1 .. Len(recirc') : recirc'[i] = recirc[i + 1]
  BY HeadTailProperties, LenProperties DEF TypeOK
<1>2. \A i \in 1 .. Len(recirc') : i + 1 \in 1 .. Len(recirc)
  BY <1>1
<1> QED BY <1>1, <1>2 DEF RecircComplete

LEMMA DropInSwitchInv ==
  ASSUME IInv, TypeOK', DropInSwitch
  PROVE  IInv'
<1>1. /\ UNCHANGED <<workerVars, bitmap, count, value>>
      /\ up' = up /\ down' = down /\ cur' = cur /\ bitmap' = bitmap
  BY DEF DropInSwitch, workerVars
<1>2. \A v \in Workers : Level(v)' = Level(v)
  BY <1>1, LevelStable
<1>3. RecircComplete'
  BY <1>2, RecircTail DEF IInv, DropInSwitch, LeaveRecirc
<1> QED BY <1>1, <1>2, <1>3, LossInv, UplinkStable DEF IInv

LEMMA HarvestInv ==
  ASSUME IInv, TypeOK', Harvest
  PROVE  IInv'
<1> DEFINE e == Head(recirc)
           k == e.k
           m == [k |-> k, hi |-> e.hi, lo |-> value[SetOf(k)]]
           step == NextStepHarvest7(e.flag, e.seen)
<1>1. /\ TypeOK /\ BitsFollowLevels /\ Lockstep /\ RegistersFollowLevels
      /\ UplinkInOrder /\ RecircComplete /\ DownlinkExact /\ ResultsExact
  BY DEF IInv
<1>2. /\ cur' = cur /\ out' = out /\ up' = up /\ recirc' = Tail(recirc)
      /\ bitmap' = bitmap /\ count' = count /\ value' = value /\ recirc # <<>>
  BY DEF Harvest, LeaveRecirc, workerVars
<1>3. \A v \in Workers :
        down'[v] = IF step = "broadcast" \/ (step = "retransmit" /\ v = e.w)
                   THEN down[v] \cup {m} ELSE down[v]
  BY DEF Harvest
<1>4. \A v \in Workers : Level(v)' = Level(v)
  BY <1>2, LevelStable
<1>5. BitsFollowLevels' /\ RegistersFollowLevels'
  BY <1>1, <1>2, <1>4, RegistersStable
<1>6. RecircComplete'
  BY <1>1, <1>2, <1>4, RecircTail
<1>7. UplinkInOrder'
  BY <1>1, <1>2, <1>4, UplinkStable
<1>8. Lockstep' /\ ResultsExact'
  BY <1>1, <1>2, <1>4 DEF Lockstep, ResultsExact
<1>9. k \in Pkts /\ k \in Nat
  <2>1. e \in RecircPkt
    BY <1>1, <1>2, HeadTailProperties DEF TypeOK
  <2> QED BY <2>1, PktsType DEF RecircPkt
<1>10. step \in {"broadcast", "retransmit"} =>
         (\A v \in Workers : Level(v) >= k) /\ e.hi = Stream!SumOf(k)
  <2>1. e = recirc[1] /\ 1 \in 1 .. Len(recirc)
    BY <1>1, <1>2, EmptySeq, LenProperties DEF TypeOK
  <2> QED BY <1>1, <2>1 DEF RecircComplete
<1>11. ASSUME NEW v \in Workers, cur[v] = k, \A u \in Workers : Level(u) >= k
       PROVE  value[SetOf(k)] = Stream!SumOf(k)
  <2>1. Level(v) = k
    BY <1>1, <1>9, <1>11, LevelBounds
  <2> QED BY <1>1, <1>9, <1>11, <2>1, FullSum DEF RegistersFollowLevels
<1>12. m.k = k /\ m.hi = e.hi /\ m.lo = value[SetOf(k)]
  OBVIOUS
<1> HIDE DEF m, k, e, step
<1>13. DownlinkExact'
  <2>1. ASSUME NEW v \in Workers, NEW p \in down'[v]
        PROVE  /\ \A u \in Workers : Level(u) >= p.k
               /\ cur[v] = p.k => p.hi = Stream!SumOf(p.k) /\ p.lo = Stream!SumOf(p.k)
    <3>1. CASE p \in down[v]
      BY <1>1, <3>1 DEF DownlinkExact
    <3>2. CASE p \notin down[v]
      <4>1. p = m /\ step \in {"broadcast", "retransmit"}
        BY <1>3, <2>1, <3>2
      <4> QED BY <1>10, <1>11, <1>12, <4>1
    <3> QED BY <3>1, <3>2
  <2> QED BY <1>2, <1>4, <2>1 DEF DownlinkExact
<1> QED BY <1>5, <1>6, <1>7, <1>8, <1>13 DEF IInv

\* The CONSUME0 pass appends at most one packet to the recirculation queue.
LEMMA RecircAppend ==
  ASSUME TypeOK, RecircComplete, NEW e \in RecircPkt,
         recirc' = Append(recirc, e) \/ recirc' = recirc,
         \A v \in Workers : Level(v)' \in Int /\ Level(v) \in Int /\ Level(v)' >= Level(v),
         NextStepHarvest7(e.flag, e.seen) \in {"broadcast", "retransmit"} =>
           (\A v \in Workers : Level(v)' >= e.k) /\ e.hi = Stream!SumOf(e.k)
  PROVE  RecircComplete'
<1>1. recirc \in Seq(RecircPkt) /\ Len(recirc) \in Nat
  BY LenProperties DEF TypeOK
<1>2. ASSUME NEW f \in RecircPkt,
             \A v \in Workers : Level(v) >= f.k
      PROVE  \A v \in Workers : Level(v)' >= f.k
  <2>1. f.k \in Nat
    BY PktsType DEF RecircPkt
  <2> QED BY <1>2, <2>1
<1>3. \A i \in 1 .. Len(recirc) : recirc[i] \in RecircPkt
  BY <1>1, ElementOfSeq
<1>4. CASE recirc' = recirc
  BY <1>2, <1>3, <1>4 DEF RecircComplete
<1>5. CASE recirc' = Append(recirc, e)
  <2>1. /\ Len(recirc') = Len(recirc) + 1
        /\ \A i \in 1 .. Len(recirc) : recirc'[i] = recirc[i]
        /\ recirc'[Len(recirc) + 1] = e
    BY <1>1, <1>5, AppendProperties
  <2>2. \A i \in 1 .. Len(recirc') : i \in 1 .. Len(recirc) \/ i = Len(recirc) + 1
    BY <1>1, <2>1
  <2>3. ASSUME NEW i \in 1 .. Len(recirc'),
               NextStepHarvest7(recirc'[i].flag, recirc'[i].seen)
                 \in {"broadcast", "retransmit"}
        PROVE  /\ \A v \in Workers : Level(v)' >= recirc'[i].k
               /\ recirc'[i].hi = Stream!SumOf(recirc'[i].k)
    <3>1. CASE i \in 1 .. Len(recirc)
      BY <1>2, <1>3, <2>1, <2>3, <3>1 DEF RecircComplete
    <3>2. CASE i = Len(recirc) + 1
      BY <2>1, <2>3, <3>2
    <3> QED BY <2>2, <3>1, <3>2
  <2> QED BY <2>3 DEF RecircComplete
<1> QED BY <1>4, <1>5

LEMMA UplinkTail ==
  ASSUME TypeOK, UplinkInOrder, NEW w \in Workers, up[w] # <<>>,
         up' = [up EXCEPT ![w] = Tail(up[w])], cur' = cur,
         \A v \in Workers : v # w => Level(v)' = Level(v),
         Level(w)' <= Head(up[w]), Level(w)' \in Int
  PROVE  UplinkInOrder'
<1>1. /\ up[w] \in Seq(Pkts) /\ Len(up[w]) \in Nat
      /\ \A i \in 1 .. Len(up[w]) : up[w][i] \in Int
  BY ElementOfSeq, LenProperties, PktsType DEF TypeOK
<1>2. /\ Len(up'[w]) = Len(up[w]) - 1
      /\ \A i \in 1 .. Len(up'[w]) : up'[w][i] = up[w][i + 1]
  <2>1. up'[w] = Tail(up[w])
    BY DEF TypeOK
  <2> QED BY <1>1, <2>1, HeadTailProperties
<1>3. Head(up[w]) = up[w][1] /\ 1 \in 1 .. Len(up[w])
  BY <1>1, EmptySeq
<1>4. /\ \A i \in 1 .. Len(up[w]) : up[w][i] <= cur[w]
      /\ \A i, j \in 1 .. Len(up[w]) : i <= j => up[w][i] <= up[w][j]
  BY DEF UplinkInOrder
<1>5. ASSUME NEW i \in 1 .. Len(up'[w])
      PROVE  Level(w)' <= up'[w][i] /\ up'[w][i] <= cur[w]
  <2>1. i + 1 \in 1 .. Len(up[w]) /\ 1 <= i + 1
    BY <1>1, <1>2
  <2>2. up[w][1] <= up[w][i + 1]
    BY <1>3, <1>4, <2>1
  <2> QED BY <1>1, <1>2, <1>3, <1>4, <2>1, <2>2
<1>6. ASSUME NEW i \in 1 .. Len(up'[w]), NEW j \in 1 .. Len(up'[w]), i <= j
      PROVE  up'[w][i] <= up'[w][j]
  <2>1. i + 1 \in 1 .. Len(up[w]) /\ j + 1 \in 1 .. Len(up[w]) /\ i + 1 <= j + 1
    BY <1>1, <1>2, <1>6
  <2> QED BY <1>2, <1>4, <2>1
<1>7. \A v \in Workers : v # w => up'[v] = up[v]
  BY DEF TypeOK
<1> QED BY <1>5, <1>6, <1>7 DEF UplinkInOrder

\* A resent packet leaves the registers as they are; if the set reads as full,
\* the sum it picks up is complete.
LEMMA ConsumeSeenInv ==
  ASSUME IInv, TypeOK', NEW w \in Workers, Consume(w),
         w \in bitmap[SetOf(Head(up[w]))]
  PROVE  IInv'
<1> DEFINE k    == Head(up[w])
           s    == SetOf(k)
           seen == MapResult(bitmap[s], w)
           flag == FirstLastFlag(count[s], seen)
           sum  == RegisterAfter(bitmap[s], seen, value[s], Payload(w, k))
           e    == [w |-> w, k |-> k, flag |-> flag, seen |-> seen, hi |-> sum]
<1>1. /\ TypeOK /\ BitsFollowLevels /\ Lockstep /\ RegistersFollowLevels
      /\ UplinkInOrder /\ RecircComplete /\ DownlinkExact /\ ResultsExact
  BY DEF IInv
<1>2. up[w] # <<>> /\ k \in Pkts /\ k \in Nat /\ s \in Sets
  BY <1>1, PktsType, HeadTailProperties DEF Consume, TypeOK
<1>3. seen = TRUE /\ sum = value[s]
  BY DEF MapResult, RegisterAfter
<1>4. k = Level(w)
  <2>1. Level(w) <= k /\ k <= cur[w]
    <3>1. k = up[w][1] /\ 1 \in 1 .. Len(up[w])
      BY <1>1, <1>2, EmptySeq, LenProperties DEF TypeOK
    <3> QED BY <1>1, <3>1 DEF UplinkInOrder
  <2>2. Level(w) >= 0 /\ SetOf(Level(w)) = SetOf(k)
    BY <1>1, <1>2 DEF BitsFollowLevels
  <2>3. Level(w) \in Int /\ k <= Level(w) + 1
    BY <1>1, <1>2, <2>1, LevelBounds
  <2> QED BY <1>2, <2>1, <2>2, <2>3, SameSet
<1>5. UpdateBitmap(bitmap, w, s) = bitmap
  <2>1. \A t \in Sets : t # s => w \notin bitmap[t]
    BY <1>1, <1>4 DEF BitsFollowLevels
  <2>2. \A t \in Sets : UpdateBitmap(bitmap, w, s)[t] = bitmap[t]
    BY <2>1 DEF UpdateBitmap
  <2>3. /\ UpdateBitmap(bitmap, w, s) \in [Sets -> SUBSET Workers]
        /\ bitmap \in [Sets -> SUBSET Workers]
    BY <1>1, <1>2, UpdateBitmapType DEF TypeOK
  <2> HIDE DEF s
  <2> QED BY <2>2, <2>3
<1>6. /\ bitmap' = bitmap /\ count' = count /\ value' = value
      /\ cur' = cur /\ out' = out /\ down' = down
      /\ up' = [up EXCEPT ![w] = Tail(up[w])]
      /\ recirc' = Append(recirc, e) \/ recirc' = recirc
  <2>1. /\ bitmap' = UpdateBitmap(bitmap, w, s)
        /\ count' = [count EXCEPT ![s] = CountAfter(count[s], seen)]
        /\ value' = [value EXCEPT ![s] = sum]
        /\ recirc' = Append(recirc, e) \/ recirc' = recirc
        /\ up' = [up EXCEPT ![w] = Tail(up[w])]
        /\ UNCHANGED <<workerVars, down>>
    BY DEF Consume
  <2>2. CountAfter(count[s], seen) = count[s]
    BY <1>3 DEF CountAfter
  <2>3. /\ count \in [Sets -> 0 .. NumWorkers - 1]
        /\ value \in [Sets -> [Contribs -> Nat]]
    BY <1>1 DEF TypeOK
  <2> HIDE DEF s, seen, sum, e
  <2>4. count' = count
    BY <1>2, <2>1, <2>2, <2>3
  <2>5. value' = value
    BY <1>2, <1>3, <2>1, <2>3
  <2> QED BY <1>5, <2>1, <2>4, <2>5 DEF workerVars
<1>7. \A v \in Workers : Level(v)' = Level(v)
  BY <1>6, LevelStable
<1>8. \A v \in Workers : Level(v)' \in Int /\ Level(v) \in Int /\ Level(v)' >= Level(v)
  BY <1>1, <1>7, LevelBounds
<1>9. BitsFollowLevels' /\ RegistersFollowLevels'
  BY <1>1, <1>6, <1>7, RegistersStable
<1>10. UplinkInOrder'
  BY <1>1, <1>2, <1>4, <1>6, <1>7, <1>8, UplinkTail
<1>11. RecircComplete'
  <2>1. e \in RecircPkt
    BY <1>1, <1>2, <1>3, CountAfterType DEF RecircPkt, TypeOK
  <2>2. ASSUME NextStepHarvest7(e.flag, e.seen) \in {"broadcast", "retransmit"}
        PROVE  (\A v \in Workers : Level(v)' >= e.k) /\ e.hi = Stream!SumOf(e.k)
    <3>1. flag = 0
      BY <1>3, <2>2 DEF NextStepHarvest7, LAST, FIRST
    <3>2. count[s] = 0
      BY <1>1, <1>2, <1>3, <3>1, WorkersCount DEF FirstLastFlag, TypeOK
    <3>3. count[s] = NumWorkers - Cardinality(Contributed(k)) /\ value[s] = PartialSum(k)
      BY <1>1, <1>2, <1>4 DEF RegistersFollowLevels
    <3>4. Contributed(k) \in SUBSET Workers
      BY DEF Contributed
    <3>5. Contributed(k) = Workers
      BY <3>2, <3>3, <3>4, FullSet, WorkersCount
    <3>6. \A v \in Workers : Level(v) >= k
      BY <3>5 DEF Contributed
    <3>7. value[s] = Stream!SumOf(k)
      BY <3>3, <3>6, FullSum
    <3> QED BY <1>3, <1>7, <3>6, <3>7
  <2> HIDE DEF e
  <2> QED BY <1>1, <1>6, <1>8, <2>1, <2>2, RecircAppend
<1>12. Lockstep' /\ ResultsExact' /\ DownlinkExact'
  BY <1>1, <1>6, <1>7 DEF Lockstep, ResultsExact, DownlinkExact
<1> QED BY <1>9, <1>10, <1>11, <1>12 DEF IInv

\* A new packet raises its sender's level by one.  What the set held before is
\* either an older packet that everybody has left behind (it is overwritten) or
\* the same packet of the workers already counted (it is added to).
LEMMA ConsumeNewInv ==
  ASSUME IInv, TypeOK', NEW w \in Workers, Consume(w),
         NEW k, k = Head(up[w]), w \notin bitmap[SetOf(k)]
  PROVE  IInv'
<1> DEFINE s    == SetOf(k)
           seen == MapResult(bitmap[s], w)
           flag == FirstLastFlag(count[s], seen)
           sum  == RegisterAfter(bitmap[s], seen, value[s], Payload(w, k))
           e    == [w |-> w, k |-> k, flag |-> flag, seen |-> seen, hi |-> sum]
<1>1. /\ TypeOK /\ BitsFollowLevels /\ Lockstep /\ RegistersFollowLevels
      /\ UplinkInOrder /\ RecircComplete /\ DownlinkExact /\ ResultsExact
  BY DEF IInv
<1>2. up[w] # <<>> /\ k \in Pkts /\ k \in Nat /\ k <= LastPkt /\ s \in Sets
  BY <1>1, PktsType, HeadTailProperties DEF Consume, TypeOK
<1>3. seen = FALSE
  BY DEF MapResult
<1>4. k = Level(w) + 1 /\ k = cur[w]
  <2>1. Level(w) <= k /\ k <= cur[w]
    <3>1. k = up[w][1] /\ 1 \in 1 .. Len(up[w])
      BY <1>1, <1>2, EmptySeq, LenProperties DEF TypeOK
    <3> QED BY <1>1, <3>1 DEF UplinkInOrder
  <2>2. Level(w) # k
    BY <1>1, <1>2 DEF BitsFollowLevels
  <2> QED BY <1>1, <1>2, <2>1, <2>2, LevelBounds
<1>5. /\ bitmap' = [t \in Sets |-> IF t = s THEN bitmap[t] \cup {w} ELSE bitmap[t] \ {w}]
      /\ count' = [count EXCEPT ![s] = CountAfter(count[s], seen)]
      /\ value' = [value EXCEPT ![s] = sum]
      /\ recirc' = Append(recirc, e) \/ recirc' = recirc
      /\ up' = [up EXCEPT ![w] = Tail(up[w])]
      /\ cur' = cur /\ out' = out /\ down' = down
  BY DEF Consume, UpdateBitmap, workerVars
<1>6. e \in RecircPkt
  BY <1>1, <1>2, <1>3, CountAfterType, RegisterAfterType, PayloadType
     DEF RecircPkt, TypeOK
<1>7. /\ e.flag = flag /\ e.seen = FALSE /\ e.k = k /\ e.hi = sum
      /\ sum = IF bitmap[s] = {} THEN Payload(w, k) ELSE Add(value[s], Payload(w, k))
      /\ CountAfter(count[s], seen) = IF count[s] = 0 THEN NumWorkers - 1 ELSE count[s] - 1
      /\ flag = IF NumWorkers = 1 THEN 1 ELSE count[s]
  BY <1>3 DEF RegisterAfter, CountAfter, FirstLastFlag
<1> HIDE DEF s, seen, flag, sum, e
<1>8. \A v \in Workers : Level(v) \in Int /\ k - 1 <= Level(v) /\ Level(v) <= k
  BY <1>1, <1>2, <1>4, LevelBounds, LevelsClose DEF Lockstep
<1>9. /\ Level(w)' = k
      /\ \A v \in Workers : v # w => Level(v)' = Level(v)
  <2>1. w \in bitmap'[s]
    BY <1>2, <1>5
  <2>2. Level(w)' = k
    BY <1>2, <1>4, <1>5, <2>1 DEF Level, s, NotStarted, Stream!NotStarted
  <2>3. \A v \in Workers, t \in Sets : v # w => (v \in bitmap'[t] <=> v \in bitmap[t])
    BY <1>5
  <2>4. ASSUME NEW v \in Workers, v # w PROVE Level(v)' = Level(v)
    <3>1. SetOf(cur[v]) \in Sets
      BY <1>1, LevelBounds, SetOfType
    <3> QED BY <1>5, <2>3, <2>4, <3>1 DEF Level
  <2> QED BY <2>2, <2>4
<1>10. \A v \in Workers : Level(v)' \in Int /\ Level(v) \in Int /\ Level(v)' >= Level(v)
  BY <1>2, <1>4, <1>8, <1>9
<1>11. s = SetOf(k) /\ SetOf(k - 1) # s /\ SetOf(k - 1) \in Sets
  <2>1. k - 1 \in Int /\ k - 1 + 1 = k
    BY <1>2
  <2> QED BY <2>1, SetOfType DEF s
<1>12. BitsFollowLevels'
  <2>1. \A v \in Workers : Level(v)' <= LastPkt
    BY <1>1, <1>2, <1>9 DEF BitsFollowLevels
  <2>2. ASSUME NEW v \in Workers, NEW t \in Sets
        PROVE  v \in bitmap'[t] <=> (Level(v)' >= 0 /\ SetOf(Level(v)') = t)
    <3>1. CASE v = w
      BY <1>2, <1>5, <1>9, <1>11, <3>1
    <3>2. CASE v # w
      BY <1>1, <1>5, <1>9, <3>2 DEF BitsFollowLevels
    <3> QED BY <3>1, <3>2
  <2> QED BY <2>1, <2>2 DEF BitsFollowLevels
<1>13. /\ Contributed(k) \in SUBSET Workers /\ w \notin Contributed(k)
       /\ Contributed(k)' = Contributed(k) \cup {w}
       /\ Contributed(k - 1) = Workers /\ Contributed(k - 1)' = Workers
  <2>1. Contributed(k) \in SUBSET Workers
    BY DEF Contributed
  <2>2. w \notin Contributed(k)
    BY <1>2, <1>4, <1>8 DEF Contributed
  <2>3. Contributed(k)' = Contributed(k) \cup {w}
    BY <1>2, <1>9 DEF Contributed
  <2>4. Contributed(k - 1) = Workers /\ Contributed(k - 1)' = Workers
    BY <1>2, <1>8, <1>9 DEF Contributed
  <2> QED BY <2>1, <2>2, <2>3, <2>4
<1>14. bitmap[s] # {} =>
         /\ count[s] = NumWorkers - Cardinality(Contributed(k))
         /\ value[s] = PartialSum(k)
  <2>1. SUFFICES ASSUME NEW u \in bitmap[s]
                 PROVE  /\ count[s] = NumWorkers - Cardinality(Contributed(k))
                        /\ value[s] = PartialSum(k)
    OBVIOUS
  <2>2. u \in Workers /\ Level(u) >= 0 /\ SetOf(Level(u)) = s
    BY <1>1, <1>2 DEF BitsFollowLevels, TypeOK
  <2>3. Level(u) = k
    BY <1>2, <1>8, <1>11, <2>2, SameSet
  <2> QED BY <1>1, <1>11, <2>2, <2>3 DEF RegistersFollowLevels
<1>15. bitmap[s] = {} => count[s] = 0 /\ Contributed(k) = {}
  <2>1. SUFFICES ASSUME bitmap[s] = {} PROVE count[s] = 0 /\ Contributed(k) = {}
    OBVIOUS
  <2>2. \A v \in Workers : Level(v) # k
    BY <1>1, <1>2, <1>11, <2>1 DEF BitsFollowLevels
  <2> QED BY <1>1, <1>2, <1>8, <2>1, <2>2 DEF RegistersFollowLevels, Contributed
<1>16. /\ Cardinality(Contributed(k)') = Cardinality(Contributed(k)) + 1
       /\ Cardinality(Contributed(k)) \in Nat
       /\ Cardinality(Contributed(k)') <= NumWorkers
       /\ Cardinality({}) = 0
  <2>1. Contributed(k)' \in SUBSET Workers
    BY <1>13
  <2> QED BY <1>13, <2>1, FullSet, FS_EmptySet
<1>17. count'[s] = NumWorkers - Cardinality(Contributed(k)')
  <2>1. count'[s] = IF count[s] = 0 THEN NumWorkers - 1 ELSE count[s] - 1
    BY <1>1, <1>2, <1>5, <1>7 DEF TypeOK
  <2>2. CASE bitmap[s] = {}
    <3>1. count[s] = 0 /\ Cardinality(Contributed(k)) = 0
      BY <1>15, <1>16, <2>2
    <3> QED BY <1>16, <2>1, <3>1, WorkersCount
  <2>3. CASE bitmap[s] # {}
    BY <1>14, <1>16, <2>1, <2>3, WorkersCount
  <2> QED BY <2>2, <2>3
<1>18. value'[s] = PartialSum(k)'
  <2>1. value'[s] = sum
    BY <1>1, <1>2, <1>5 DEF TypeOK
  <2>2. PartialSum(k)' = [c \in Contribs |->
          IF c[2] = k /\ c[1] \in Contributed(k) \cup {w} THEN 1 ELSE 0]
    BY <1>13 DEF PartialSum
  <2>3. \A c \in Contribs : c = <<w, k>> <=> c[1] = w /\ c[2] = k
    BY DEF Contribs, Stream!Contribs
  <2>4. CASE bitmap[s] = {}
    BY <1>7, <1>15, <2>1, <2>2, <2>3, <2>4 DEF Payload
  <2>5. CASE bitmap[s] # {}
    <3>1. sum = Add(PartialSum(k), Payload(w, k))
      BY <1>7, <1>14, <2>5
    <3>2. \A c \in Contribs :
            PartialSum(k)[c] + Payload(w, k)[c] =
              IF c[2] = k /\ c[1] \in Contributed(k) \cup {w} THEN 1 ELSE 0
      BY <1>13, <2>3 DEF PartialSum, Payload
    <3>3. DOMAIN PartialSum(k) = Contribs
      BY DEF PartialSum
    <3> QED BY <2>1, <2>2, <3>1, <3>2, <3>3 DEF Add
  <2> QED BY <2>4, <2>5
<1>19. RegistersFollowLevels'
  <2>1. ASSUME NEW t \in Sets, bitmap'[t] = {} PROVE count'[t] = 0
    <3>1. t # s
      BY <1>2, <1>5, <2>1
    <3>2. count'[t] = count[t] /\ bitmap'[t] = bitmap[t] \ {w}
      BY <1>1, <1>2, <1>5, <3>1 DEF TypeOK
    <3>3. CASE bitmap[t] = {}
      BY <1>1, <3>2, <3>3 DEF RegistersFollowLevels
    <3>4. CASE bitmap[t] # {}
      <4>1. w \in bitmap[t]
        BY <2>1, <3>2, <3>4
      <4>2. Level(w) >= 0 /\ SetOf(Level(w)) = t /\ Level(w) = k - 1
        BY <1>1, <1>2, <1>4, <1>8, <4>1 DEF BitsFollowLevels
      <4>3. count[t] = NumWorkers - Cardinality(Contributed(k - 1))
        BY <1>1, <4>2 DEF RegistersFollowLevels
      <4> QED BY <1>13, <3>2, <4>3, WorkersCount DEF NumWorkers
    <3> QED BY <3>3, <3>4
  <2>2. ASSUME NEW v \in Workers, Level(v)' >= 0, Level(v)' = k
        PROVE  /\ count'[SetOf(k)] = NumWorkers - Cardinality(Contributed(k)')
               /\ value'[SetOf(k)] = PartialSum(k)'
    BY <1>11, <1>17, <1>18
  <2>3. ASSUME NEW v \in Workers, Level(v)' >= 0, Level(v)' # k
        PROVE  /\ Level(v)' = k - 1
               /\ count'[SetOf(k - 1)] = NumWorkers - Cardinality(Contributed(k - 1)')
               /\ value'[SetOf(k - 1)] = PartialSum(k - 1)'
    <3>1. v # w /\ Level(v)' = k - 1 /\ Level(v) = k - 1
      BY <1>2, <1>8, <1>9, <2>3
    <3>2. count'[SetOf(k - 1)] = count[SetOf(k - 1)] /\ value'[SetOf(k - 1)] = value[SetOf(k - 1)]
      BY <1>1, <1>2, <1>5, <1>11 DEF TypeOK
    <3>3. Contributed(k - 1)' = Contributed(k - 1)
      BY <1>13
    <3>4. PartialSum(k - 1)' = PartialSum(k - 1)
      BY <3>3 DEF PartialSum
    <3>5. Level(v) >= 0
      BY <2>3, <3>1
    <3> QED BY <1>1, <3>1, <3>2, <3>3, <3>4, <3>5 DEF RegistersFollowLevels
  <2>4. ASSUME NEW v \in Workers, Level(v)' >= 0
        PROVE  /\ count'[SetOf(Level(v)')] = NumWorkers - Cardinality(Contributed(Level(v))')
               /\ value'[SetOf(Level(v)')] = PartialSum(Level(v))'
    <3>1. CASE Level(v)' = k
      <4>1. Contributed(Level(v))' = Contributed(k)' /\ PartialSum(Level(v))' = PartialSum(k)'
        BY <3>1 DEF Contributed, PartialSum
      <4> QED BY <2>2, <2>4, <3>1, <4>1
    <3>2. CASE Level(v)' # k
      <4>1. Level(v)' = k - 1
        BY <2>3, <2>4, <3>2
      <4>2. /\ Contributed(Level(v))' = Contributed(k - 1)'
            /\ PartialSum(Level(v))' = PartialSum(k - 1)'
        BY <4>1 DEF Contributed, PartialSum
      <4> QED BY <2>3, <2>4, <3>2, <4>1, <4>2
    <3> QED BY <3>1, <3>2
  <2> QED BY <2>1, <2>4 DEF RegistersFollowLevels
<1>20. Lockstep' /\ ResultsExact'
  <2>1. \A v \in Workers : cur[v] \in Int
    BY <1>1, LevelBounds
  <2> QED BY <1>1, <1>5, <1>10, <2>1 DEF Lockstep, ResultsExact
<1>21. UplinkInOrder'
  <2>1. Level(w)' <= Head(up[w]) /\ Level(w)' \in Int
    BY <1>2, <1>9
  <2>2. \A v \in Workers : v # w => Level(v)' = Level(v)
    BY <1>9
  <2> QED BY <1>1, <1>2, <1>5, <2>1, <2>2, UplinkTail
<1>22. DownlinkExact'
  <2>1. \A v \in Workers : \A m \in down[v] : m.k \in Nat
    BY <1>1, PktsType DEF TypeOK, ResultPkt
  <2> QED BY <1>1, <1>5, <1>10, <2>1 DEF DownlinkExact
<1>23. RecircComplete'
  <2>1. ASSUME NextStepHarvest7(e.flag, e.seen) \in {"broadcast", "retransmit"}
        PROVE  (\A v \in Workers : Level(v)' >= e.k) /\ e.hi = Stream!SumOf(e.k)
    <3>1. flag = 1
      BY <1>7, <2>1 DEF NextStepHarvest7, LAST, FIRST
    <3>2. Cardinality(Contributed(k)') = NumWorkers
      <4>1. CASE NumWorkers = 1
        BY <1>16, <4>1
      <4>2. CASE NumWorkers # 1
        BY <1>7, <1>14, <1>15, <1>16, <3>1, <4>2, WorkersCount
      <4> QED BY <4>1, <4>2
    <3>3. Contributed(k) \cup {w} = Workers
      <4>1. Contributed(k) \cup {w} \in SUBSET Workers
        BY <1>13
      <4> QED BY <1>13, <3>2, <4>1, FullSet
    <3>4. \A v \in Workers : Level(v)' >= k
      BY <1>2, <1>9, <3>3 DEF Contributed
    <3>5. PartialSum(k)' = Stream!SumOf(k)
      <4>1. \A c \in Contribs : c[1] \in Workers
        BY DEF Contribs, Stream!Contribs
      <4> QED BY <1>13, <3>3, <4>1 DEF PartialSum, Stream!SumOf, Contribs
    <3>6. sum = value'[s]
      BY <1>1, <1>2, <1>5 DEF TypeOK
    <3> QED BY <1>7, <1>18, <3>4, <3>5, <3>6
  <2> QED BY <1>1, <1>5, <1>6, <1>10, <2>1, RecircAppend
<1> QED BY <1>12, <1>19, <1>20, <1>21, <1>22, <1>23 DEF IInv

-----------------------------------------------------------------------------

LEMMA StutterInv ==
  ASSUME IInv, TypeOK', UNCHANGED vars
  PROVE  IInv'
<1>1. /\ cur' = cur /\ out' = out /\ up' = up /\ down' = down /\ recirc' = recirc
      /\ bitmap' = bitmap /\ count' = count /\ value' = value
  BY DEF vars
<1>2. \A v \in Workers : Level(v)' = Level(v)
  BY <1>1, LevelStable
<1>3. BitsFollowLevels' /\ RegistersFollowLevels'
  BY <1>1, <1>2, RegistersStable DEF IInv
<1>4. Lockstep' /\ UplinkInOrder' /\ RecircComplete'
  BY <1>1, <1>2 DEF IInv, Lockstep, UplinkInOrder, RecircComplete
<1>5. DownlinkExact' /\ ResultsExact'
  BY <1>1, <1>2 DEF IInv, DownlinkExact, ResultsExact
<1> QED BY <1>3, <1>4, <1>5 DEF IInv

LEMMA StepInv == IInv /\ [Next]_vars => IInv'
<1> SUFFICES ASSUME IInv, [Next]_vars PROVE IInv'
  OBVIOUS
<1>1. TypeOK'
  BY TypeStep DEF IInv
<1>2. ASSUME NEW w \in Workers, Consume(w) PROVE IInv'
  BY <1>1, <1>2, ConsumeSeenInv, ConsumeNewInv
<1>3. CASE UNCHANGED vars
  BY <1>1, <1>3, StutterInv
<1> QED BY <1>1, <1>2, <1>3, SendFirstInv, TimeoutInv, ReceiveInv, LoseUplinkInv,
           LoseDownlinkInv, HarvestInv, DropInSwitchInv DEF Next, Done

\* The inductive invariant of the slot protocol.
THEOREM InductiveInvariant == Spec => []IInv
BY InitialIInv, StepInv, PTL DEF Spec

\* Whatever links and switch lose and however often packets are resent, what a
\* worker accepts for a packet is exactly one contribution of every worker.
THEOREM ResultsAreExact == Spec => []ResultsExact
<1>1. IInv => ResultsExact
  BY DEF IInv
<1> QED BY <1>1, InductiveInvariant, PTL

-----------------------------------------------------------------------------
(* Consequences of the inductive invariant *)

LEMMA ShadowFromIInv == IInv => ShadowCopyHeld
<1> SUFFICES ASSUME IInv, NEW w \in Workers, NEW v \in Workers,
                    cur[w] \in Pkts, cur[v] > cur[w]
             PROVE  /\ w \in bitmap[SetOf(cur[w])] /\ count[SetOf(cur[w])] = 0
                    /\ value[SetOf(cur[w])] = Stream!SumOf(cur[w])
  BY DEF ShadowCopyHeld
<1> DEFINE k == cur[w]
<1>1. TypeOK /\ Lockstep /\ BitsFollowLevels /\ RegistersFollowLevels
  BY DEF IInv
<1>2. k \in Nat
  BY PktsType
<1>3. \A u \in Workers : Level(u) \in Int /\ Level(u) >= k
  BY <1>1, <1>2, LevelBounds DEF Lockstep
<1>4. Level(w) = k
  BY <1>1, <1>2, <1>3, LevelBounds
<1>5. Contributed(k) = Workers
  BY <1>3 DEF Contributed
<1>6. w \in bitmap[SetOf(k)]
  BY <1>1, <1>2, <1>4, PktsType DEF BitsFollowLevels
<1>7. count[SetOf(k)] = NumWorkers - NumWorkers /\ value[SetOf(k)] = PartialSum(k)
  BY <1>1, <1>2, <1>4, <1>5 DEF RegistersFollowLevels, NumWorkers
<1>8. PartialSum(k) = Stream!SumOf(k)
  BY <1>3, FullSum
<1> QED BY <1>6, <1>7, <1>8, WorkersCount

\* The switch keeps the sum of a packet for as long as some worker may resend
\* it, for every number of workers and packets.
THEOREM ShadowCopyIsHeld == Spec => []ShadowCopyHeld
BY ShadowFromIInv, InductiveInvariant, PTL

LEMMA CountFromIInv == IInv => CountAgreesWithBitmap
<1> SUFFICES ASSUME IInv, NEW s \in Sets, count[s] > 0
             PROVE  bitmap[s] # {} /\ count[s] = NumWorkers - Cardinality(bitmap[s])
  BY DEF CountAgreesWithBitmap
<1>1. TypeOK /\ Lockstep /\ BitsFollowLevels /\ RegistersFollowLevels
  BY DEF IInv
<1>2. bitmap[s] # {}
  BY <1>1 DEF RegistersFollowLevels
<1>3. PICK u \in bitmap[s] : TRUE
  BY <1>2
<1>4. u \in Workers /\ Level(u) >= 0 /\ SetOf(Level(u)) = s
  BY <1>1 DEF TypeOK, BitsFollowLevels
<1>5. count[s] = NumWorkers - Cardinality(Contributed(Level(u)))
  BY <1>1, <1>4 DEF RegistersFollowLevels
<1>6. PICK x \in Workers : ~(Level(x) >= Level(u))
  <2>1. Contributed(Level(u)) # Workers
    <3> SUFFICES ASSUME Contributed(Level(u)) = Workers PROVE FALSE
      OBVIOUS
    <3>1. Cardinality(Contributed(Level(u))) = NumWorkers
      BY DEF NumWorkers
    <3> QED BY <1>5, <3>1, WorkersCount
  <2> QED BY <2>1 DEF Contributed
<1>7. \A v \in Workers : Level(v) \in Int /\ Level(v) <= Level(u) /\ Level(v) >= Level(u) - 1
  BY <1>1, <1>4, <1>6, LevelBounds, LevelsClose
<1>8. bitmap[s] \subseteq Contributed(Level(u))
  <2> SUFFICES ASSUME NEW v \in bitmap[s] PROVE v \in Contributed(Level(u))
    OBVIOUS
  <2>1. v \in Workers /\ SetOf(Level(v)) = s
    BY <1>1 DEF TypeOK, BitsFollowLevels
  <2>2. Level(v) = Level(u)
    BY <1>4, <1>7, <2>1, SameSet
  <2> QED BY <1>7, <2>1, <2>2 DEF Contributed
<1>9. Contributed(Level(u)) \subseteq bitmap[s]
  <2> SUFFICES ASSUME NEW v \in Workers, Level(v) >= Level(u) PROVE v \in bitmap[s]
    BY DEF Contributed
  <2>1. Level(v) = Level(u)
    BY <1>4, <1>7
  <2> QED BY <1>1, <1>4, <2>1 DEF BitsFollowLevels
<1>10. Contributed(Level(u)) = bitmap[s]
  BY <1>8, <1>9
<1> QED BY <1>2, <1>5, <1>10

\* The count register and the worker bitmap of a set never disagree.
THEOREM CountAlwaysAgrees == Spec => []CountAgreesWithBitmap
BY CountFromIInv, InductiveInvariant, PTL

\* Shapes and counts together: the bookkeeping of switch and workers, for any
\* number of workers and packets.
THEOREM Consistency == Spec => []Consistent
<1>1. TypeOK /\ CountAgreesWithBitmap => Consistent
  BY DEF Consistent
<1> QED BY <1>1, TypeCorrect, CountAlwaysAgrees, PTL

-----------------------------------------------------------------------------
(* Broadcasts *)

Answers(e)    == NextStepHarvest7(e.flag, e.seen) \in {"broadcast", "retransmit"}

\* Nobody has the result of a packet whose broadcast is still in the switch, no
\* link carries it, nothing ahead of the broadcast answers for it, and every
\* broadcast that has left was of an older packet.
BroadcastFirst ==
  \A i \in 1 .. Len(recirc) : Broadcasts(recirc[i]) =>
    /\ \A w \in Workers : cur[w] <= recirc[i].k
    /\ \A w \in Workers : \A m \in down[w] : m.k < recirc[i].k
    /\ \A j \in 1 .. i - 1 : Answers(recirc[j]) => recirc[j].k < recirc[i].k
    /\ \A b \in broadcasted : b < recirc[i].k

\* The slot has had what everybody contributes to a packet that was broadcast.
BroadcastedComplete == \A b \in broadcasted : \A v \in Workers : Level(v) >= b

BInv == IInv /\ BroadcastFirst /\ BroadcastedComplete

LEMMA PacketsTyped ==
  ASSUME TypeOK
  PROVE  /\ recirc \in Seq(RecircPkt) /\ Len(recirc) \in Nat
         /\ \A i \in 1 .. Len(recirc) : recirc[i] \in RecircPkt /\ recirc[i].k \in Nat
         /\ \A w \in Workers : cur[w] \in Int
         /\ \A w \in Workers : \A m \in down[w] : m.k \in Nat
         /\ \A b \in broadcasted : b \in Nat
<1>1. recirc \in Seq(RecircPkt) /\ Len(recirc) \in Nat
  BY LenProperties DEF TypeOK
<1>2. \A i \in 1 .. Len(recirc) : recirc[i] \in RecircPkt
  BY <1>1, ElementOfSeq
<1>3. \A e \in RecircPkt : e.k \in Nat
  BY PktsType DEF RecircPkt
<1>4. \A w \in Workers : \A m \in down[w] : m.k \in Nat
  BY PktsType DEF TypeOK, ResultPkt
<1>5. \A b \in broadcasted : b \in Nat
  BY PktsType DEF TypeOK
<1> QED BY <1>1, <1>2, <1>3, <1>4, <1>5, LevelBounds

\* No step takes back what the slot has from a worker.
LEMMA LevelGrows ==
  ASSUME IInv, IInv', [Next]_vars, NEW v \in Workers
  PROVE  Level(v)' >= Level(v)
<1>1. /\ TypeOK /\ BitsFollowLevels /\ UplinkInOrder /\ DownlinkExact /\ TypeOK'
  BY DEF IInv
<1>2. /\ cur[v] \in Int /\ cur'[v] \in Int /\ cur[v] >= -1
      /\ Level(v) \in Int /\ Level(v)' \in Int /\ Level(v)' >= -1
      /\ Level(v) <= cur[v] /\ Level(v)' >= cur'[v] - 1
  BY <1>1, LevelBounds, LevelBoundsAfter
<1>3. CASE cur' = cur /\ bitmap' = bitmap
  BY <1>2, <1>3, LevelStable
<1>4. ASSUME NEW w \in Workers, SendFirst(w) PROVE Level(v)' >= Level(v)
  <2>1. cur[w] = NotStarted /\ cur' = [cur EXCEPT ![w] = 0] /\ bitmap' = bitmap
    BY <1>4 DEF SendFirst, switchVars
  <2>2. CASE v = w
    <3>1. cur'[v] = 0 /\ Level(v) = -1
      BY <1>1, <2>1, <2>2 DEF Level, TypeOK
    <3> QED BY <1>2, <3>1
  <2>3. CASE v # w
    BY <1>1, <1>2, <2>1, <2>3 DEF Level, TypeOK
  <2> QED BY <2>2, <2>3
<1>5. ASSUME NEW w \in Workers, Receive(w) PROVE Level(v)' >= Level(v)
  <2>1. PICK m \in down[w] : Accept(w, m) \/ Discard(w, m)
    BY <1>5 DEF Receive
  <2>2. bitmap' = bitmap
    BY <1>5 DEF Receive, switchVars
  <2>3. CASE Discard(w, m)
    BY <1>3, <2>2, <2>3 DEF Discard
  <2>4. CASE Accept(w, m)
    <3>1. m.k \in Nat /\ cur' = [cur EXCEPT ![w] = m.k + 1] /\ m.k >= cur[w]
      BY <1>1, <2>1, <2>4, PktsType DEF Accept, TypeOK, ResultPkt
    <3>2. CASE v = w
      <4>1. cur'[v] = m.k + 1
        BY <1>1, <3>1, <3>2 DEF TypeOK
      <4> QED BY <1>2, <3>1, <3>2, <4>1
    <3>3. CASE v # w
      BY <1>1, <1>2, <2>2, <3>1, <3>3 DEF Level, TypeOK
    <3> QED BY <3>2, <3>3
  <2> QED BY <2>1, <2>3, <2>4
<1>6. ASSUME NEW w \in Workers, Consume(w) PROVE Level(v)' >= Level(v)
  <2> DEFINE k == Head(up[w])
  <2>1. cur' = cur /\ bitmap' = UpdateBitmap(bitmap, w, SetOf(k))
    BY <1>6 DEF Consume, workerVars
  <2>2. k \in Pkts /\ k \in Int /\ SetOf(k) \in Sets /\ k = up[w][1] /\ 1 \in 1 .. Len(up[w])
    BY <1>1, <1>6, PktsType, HeadTailProperties, EmptySeq, LenProperties DEF Consume, TypeOK
  <2>3. Level(w) <= k
    BY <1>1, <2>2 DEF UplinkInOrder
  <2> HIDE DEF k
  <2>4. CASE v # w
    <3>1. \A s \in Sets : v \in bitmap'[s] <=> v \in bitmap[s]
      BY <1>1, <2>1, <2>2, <2>4 DEF UpdateBitmap, Sets, TypeOK
    <3>2. cur[v] # NotStarted => SetOf(cur[v]) \in Sets
      BY <1>2, SetOfType
    <3> QED BY <1>2, <2>1, <3>1, <3>2 DEF Level
  <2>5. CASE v = w /\ Level(v) = cur[v] /\ Level(v) # -1
    <3>1. cur[v] # NotStarted /\ v \in bitmap[SetOf(cur[v])]
      BY <1>2, <2>5 DEF Level, NotStarted, Stream!NotStarted
    <3>2. k = cur[v]
      <4>1. k <= cur[w]
        BY <1>1, <2>2 DEF UplinkInOrder
      <4> QED BY <1>2, <2>2, <2>3, <2>5, <4>1
    <3>3. v \in bitmap'[SetOf(cur[v])]
      BY <1>1, <2>1, <2>2, <2>5, <3>2 DEF UpdateBitmap, Sets, TypeOK
    <3> QED BY <1>2, <2>1, <2>5, <3>1, <3>3 DEF Level
  <2>6. CASE v = w /\ Level(v) # cur[v]
    <3>1. Level(v) = cur[v] - 1
      BY <1>1, <2>6, LevelBounds
    <3> QED BY <1>2, <2>1, <3>1
  <2>7. CASE Level(v) = -1
    BY <1>2, <2>7
  <2> QED BY <2>4, <2>5, <2>6, <2>7
<1>7. CASE \/ \E w \in Workers : Timeout(w) \/ LoseUplink(w) \/ LoseDownlink(w)
           \/ Harvest \/ DropInSwitch \/ Done \/ UNCHANGED vars
  <2>1. cur' = cur /\ bitmap' = bitmap
    BY <1>7 DEF Timeout, LoseUplink, LoseDownlink, Harvest, DropInSwitch, Done, vars,
                workerVars, switchVars
  <2> QED BY <1>3, <2>1
<1> QED BY <1>4, <1>5, <1>6, <1>7 DEF Next

\* Steps that neither put a packet into the switch nor take one out.
LEMMA SameQueueBroadcasts ==
  ASSUME BroadcastFirst, recirc' = recirc, broadcasted' = broadcasted,
         \A i \in 1 .. Len(recirc) : Broadcasts(recirc[i]) =>
           /\ \A w \in Workers : cur'[w] <= recirc[i].k
           /\ \A w \in Workers : \A m \in down'[w] : m.k < recirc[i].k
  PROVE  BroadcastFirst'
BY DEF BroadcastFirst

\* Only results of older packets arrive, and they are what cur advances to.
LEMMA ReceiveBroadcasts ==
  ASSUME BInv, NEW w \in Workers, Receive(w)
  PROVE  BroadcastFirst'
<1>1. TypeOK /\ BroadcastFirst
  BY DEF BInv, IInv
<1>2. PICK m \in down[w] :
        /\ down' = [down EXCEPT ![w] = @ \ {m}]
        /\ Accept(w, m) \/ Discard(w, m)
        /\ recirc' = recirc /\ broadcasted' = broadcasted
  BY DEF Receive, switchVars
<1>3. cur' = [cur EXCEPT ![w] = m.k + 1] \/ cur' = cur
  BY <1>2 DEF Accept, Discard
<1>4. \A v \in Workers : down'[v] \in SUBSET down[v]
  BY <1>1, <1>2 DEF TypeOK
<1>5. \A v \in Workers : cur'[v] = cur[v] \/ cur'[v] = m.k + 1
  BY <1>1, <1>3 DEF TypeOK
<1>6. ASSUME NEW i \in 1 .. Len(recirc), Broadcasts(recirc[i])
      PROVE  /\ \A v \in Workers : cur'[v] <= recirc[i].k
             /\ \A v \in Workers : \A p \in down'[v] : p.k < recirc[i].k
  <2>1. /\ \A v \in Workers : cur[v] <= recirc[i].k
        /\ \A v \in Workers : \A p \in down[v] : p.k < recirc[i].k
    BY <1>1, <1>6 DEF BroadcastFirst
  <2>2. m.k \in Nat /\ recirc[i].k \in Nat /\ m.k < recirc[i].k
    BY <1>1, <1>2, <2>1, PacketsTyped
  <2>3. m.k + 1 <= recirc[i].k
    BY <2>2
  <2> QED BY <1>4, <1>5, <2>1, <2>3
<1> QED BY <1>1, <1>2, <1>6, SameQueueBroadcasts

\* What leaves the switch ahead of a broadcast answers for an older packet.
LEMMA HarvestBroadcasts ==
  ASSUME BInv, LeaveRecirc, cur' = cur,
         \A v \in Workers : \A p \in down'[v] :
           \/ p \in down[v]
           \/ Answers(Head(recirc)) /\ p.k = Head(recirc).k
  PROVE  BroadcastFirst'
<1>1. TypeOK /\ BroadcastFirst
  BY DEF BInv, IInv
<1>2. /\ Head(recirc) = recirc[1] /\ Len(recirc') = Len(recirc) - 1 /\ Len(recirc) \in Nat
      /\ \A i \in 1 .. Len(recirc') : recirc'[i] = recirc[i + 1]
  BY <1>1, HeadTailProperties, LenProperties DEF TypeOK, LeaveRecirc
<1>3. ASSUME NEW i \in 1 .. Len(recirc'), Broadcasts(recirc'[i])
      PROVE  /\ \A v \in Workers : cur'[v] <= recirc'[i].k
             /\ \A v \in Workers : \A p \in down'[v] : p.k < recirc'[i].k
             /\ \A j \in 1 .. i - 1 : Answers(recirc'[j]) => recirc'[j].k < recirc'[i].k
             /\ \A b \in broadcasted' : b < recirc'[i].k
  <2>1. i + 1 \in 1 .. Len(recirc) /\ recirc'[i] = recirc[i + 1] /\ 1 \in 1 .. (i + 1) - 1
    BY <1>2
  <2>2. /\ \A v \in Workers : cur[v] <= recirc[i + 1].k
        /\ \A v \in Workers : \A p \in down[v] : p.k < recirc[i + 1].k
        /\ \A j \in 1 .. (i + 1) - 1 : Answers(recirc[j]) => recirc[j].k < recirc[i + 1].k
        /\ \A b \in broadcasted : b < recirc[i + 1].k
    BY <1>1, <1>3, <2>1 DEF BroadcastFirst
  <2>3. Answers(Head(recirc)) => Head(recirc).k < recirc[i + 1].k
    BY <1>2, <2>1, <2>2
  <2>4. \A v \in Workers : \A p \in down'[v] : p.k < recirc'[i].k
    BY <2>1, <2>2, <2>3
  <2>5. ASSUME NEW j \in 1 .. i - 1, Answers(recirc'[j])
        PROVE  recirc'[j].k < recirc'[i].k
    <3>1. j + 1 \in 1 .. (i + 1) - 1 /\ j \in 1 .. Len(recirc')
      BY <1>2
    <3>2. recirc'[j] = recirc[j + 1]
      BY <1>2, <3>1
    <3> QED BY <2>1, <2>2, <2>5, <3>1, <3>2
  <2>6. \A b \in broadcasted' : b < recirc'[i].k
    <3>1. Broadcasts(Head(recirc)) => Answers(Head(recirc))
      BY DEF Broadcasts, Answers
    <3>2. \A b \in broadcasted' : \/ b \in broadcasted
                                  \/ Answers(Head(recirc)) /\ b = Head(recirc).k
      BY <3>1 DEF LeaveRecirc
    <3> QED BY <2>1, <2>2, <2>3, <3>2
  <2> QED BY <2>1, <2>2, <2>4, <2>5, <2>6
<1> QED BY <1>3 DEF BroadcastFirst

\* A packet that completes the set is newer than everything that was answered.
LEMMA ConsumeBroadcasts ==
  ASSUME BInv, NEW w \in Workers, Consume(w)
  PROVE  BroadcastFirst'
<1> DEFINE k    == Head(up[w])
           seen == MapResult(bitmap[SetOf(k)], w)
           flag == FirstLastFlag(count[SetOf(k)], seen)
           sum  == RegisterAfter(bitmap[SetOf(k)], seen, value[SetOf(k)], Payload(w, k))
           e    == [w |-> w, k |-> k, flag |-> flag, seen |-> seen, hi |-> sum]
<1>1. /\ TypeOK /\ BitsFollowLevels /\ Lockstep /\ UplinkInOrder /\ RecircComplete
      /\ DownlinkExact /\ BroadcastFirst /\ BroadcastedComplete
  BY DEF BInv, IInv
<1>2. /\ cur' = cur /\ down' = down /\ broadcasted' = broadcasted
      /\ recirc' = Append(recirc, e) \/ recirc' = recirc
  BY DEF Consume, workerVars
<1>3. up[w] # <<>> /\ k \in Pkts /\ k \in Nat /\ SetOf(k) \in Sets
  BY <1>1, PktsType, HeadTailProperties DEF Consume, TypeOK
<1>4. e.k = k /\ e.seen = seen
  OBVIOUS
<1>5. ASSUME Broadcasts(e)
      PROVE  /\ \A v \in Workers : cur[v] <= k
             /\ \A v \in Workers : \A m \in down[v] : m.k < k
             /\ \A j \in 1 .. Len(recirc) : Answers(recirc[j]) => recirc[j].k < k
             /\ \A b \in broadcasted : b < k
  <2>1. w \notin bitmap[SetOf(k)]
    <3>1. e.seen = FALSE
      BY <1>5 DEF Broadcasts, NextStepHarvest7, MapResult, FIRST, LAST
    <3> QED BY <1>4, <3>1 DEF MapResult
  <2>2. Level(w) <= k /\ k <= cur[w]
    <3>1. k = up[w][1] /\ 1 \in 1 .. Len(up[w])
      BY <1>1, <1>3, EmptySeq, LenProperties DEF TypeOK
    <3> QED BY <1>1, <3>1 DEF UplinkInOrder
  <2>3. Level(w) # k
    BY <1>1, <1>3, <2>1 DEF BitsFollowLevels
  <2>4. Level(w) = k - 1 /\ k = cur[w]
    BY <1>1, <1>3, <2>2, <2>3, LevelBounds
  <2> HIDE DEF k
  <2>5. \A v \in Workers : cur[v] <= k
    BY <1>1, <1>3, <2>4, LevelsClose, LevelBounds
  <2>6. \A v \in Workers : \A m \in down[v] : m.k < k
    <3>1. \A v \in Workers : \A m \in down[v] : Level(w) >= m.k /\ m.k \in Nat
      BY <1>1, PacketsTyped DEF DownlinkExact
    <3> QED BY <1>3, <2>4, <3>1
  <2>7. ASSUME NEW j \in 1 .. Len(recirc), Answers(recirc[j])
        PROVE  recirc[j].k < k
    <3>1. Level(w) >= recirc[j].k
      BY <1>1, <2>7 DEF RecircComplete, Answers
    <3>2. recirc[j].k \in Nat
      BY <1>1, PacketsTyped
    <3> QED BY <1>3, <2>4, <3>1, <3>2
  <2>8. \A b \in broadcasted : b < k
    <3>1. \A b \in broadcasted : Level(w) >= b /\ b \in Nat
      BY <1>1, PacketsTyped DEF BroadcastedComplete
    <3> QED BY <1>3, <2>4, <3>1
  <2> QED BY <2>5, <2>6, <2>7, <2>8
<1> HIDE DEF e, k
<1>6. CASE recirc' = recirc
  <2>1. \A i \in 1 .. Len(recirc) : Broadcasts(recirc[i]) =>
          /\ \A v \in Workers : cur[v] <= recirc[i].k
          /\ \A v \in Workers : \A m \in down[v] : m.k < recirc[i].k
    BY <1>1 DEF BroadcastFirst
  <2> QED BY <1>1, <1>2, <1>6, <2>1, SameQueueBroadcasts
<1>7. CASE recirc' = Append(recirc, e)
  <2>1. /\ Len(recirc) \in Nat /\ Len(recirc') = Len(recirc) + 1
        /\ \A i \in 1 .. Len(recirc) : recirc'[i] = recirc[i]
        /\ recirc'[Len(recirc) + 1] = e
    BY <1>1, <1>7 DEF TypeOK
  <2>2. ASSUME NEW i \in 1 .. Len(recirc'), Broadcasts(recirc'[i])
        PROVE  /\ \A v \in Workers : cur'[v] <= recirc'[i].k
               /\ \A v \in Workers : \A m \in down'[v] : m.k < recirc'[i].k
               /\ \A j \in 1 .. i - 1 : Answers(recirc'[j]) => recirc'[j].k < recirc'[i].k
               /\ \A b \in broadcasted' : b < recirc'[i].k
    <3>1. CASE i = Len(recirc) + 1
      <4>1. recirc'[i] = e /\ \A j \in 1 .. i - 1 : j \in 1 .. Len(recirc) /\ recirc'[j] = recirc[j]
        BY <2>1, <3>1
      <4> QED BY <1>2, <1>4, <1>5, <2>2, <4>1
    <3>2. CASE i # Len(recirc) + 1
      <4>1. i \in 1 .. Len(recirc)
        BY <2>1, <3>2
      <4>2. /\ recirc'[i] = recirc[i]
            /\ \A j \in 1 .. i - 1 : j \in 1 .. Len(recirc) /\ recirc'[j] = recirc[j]
        BY <2>1, <4>1
      <4>3. /\ \A v \in Workers : cur[v] <= recirc[i].k
            /\ \A v \in Workers : \A m \in down[v] : m.k < recirc[i].k
            /\ \A j \in 1 .. i - 1 : Answers(recirc[j]) => recirc[j].k < recirc[i].k
            /\ \A b \in broadcasted : b < recirc[i].k
        BY <1>1, <2>2, <4>1, <4>2 DEF BroadcastFirst
      <4> QED BY <1>2, <4>2, <4>3
    <3> QED BY <3>1, <3>2
  <2> QED BY <2>2 DEF BroadcastFirst
<1> QED BY <1>2, <1>6, <1>7

LEMMA BroadcastStep == BInv /\ IInv' /\ [Next]_vars => BroadcastFirst'
<1> SUFFICES ASSUME BInv, [Next]_vars PROVE BroadcastFirst'
  OBVIOUS
<1>1. TypeOK /\ BroadcastFirst
  BY DEF BInv, IInv
<1>2. \A i \in 1 .. Len(recirc) : Broadcasts(recirc[i]) =>
        /\ \A v \in Workers : cur[v] <= recirc[i].k
        /\ \A v \in Workers : \A m \in down[v] : m.k < recirc[i].k
  BY <1>1 DEF BroadcastFirst
<1>3. ASSUME NEW w \in Workers, SendFirst(w) PROVE BroadcastFirst'
  <2>1. /\ recirc' = recirc /\ down' = down /\ broadcasted' = broadcasted
        /\ cur[w] = NotStarted /\ cur' = [cur EXCEPT ![w] = 0]
    BY <1>3 DEF SendFirst, switchVars
  <2>2. \A v \in Workers : cur'[v] = cur[v] \/ cur'[v] = 0
    BY <1>1, <2>1 DEF TypeOK
  <2>3. \A i \in 1 .. Len(recirc) : 0 <= recirc[i].k
    BY <1>1, PacketsTyped
  <2> QED BY <1>1, <1>2, <2>1, <2>2, <2>3, SameQueueBroadcasts
<1>4. ASSUME NEW w \in Workers, Timeout(w) \/ LoseUplink(w) PROVE BroadcastFirst'
  <2>1. recirc' = recirc /\ cur' = cur /\ down' = down /\ broadcasted' = broadcasted
    BY <1>4 DEF Timeout, LoseUplink, workerVars, switchVars
  <2> QED BY <1>1, <1>2, <2>1, SameQueueBroadcasts
<1>5. ASSUME NEW w \in Workers, LoseDownlink(w) PROVE BroadcastFirst'
  <2>1. /\ recirc' = recirc /\ cur' = cur /\ broadcasted' = broadcasted
        /\ \A v \in Workers : down'[v] \in SUBSET down[v]
    BY <1>1, <1>5 DEF LoseDownlink, workerVars, switchVars, TypeOK
  <2> QED BY <1>1, <1>2, <2>1, SameQueueBroadcasts
<1>6. CASE Harvest
  <2>1. LeaveRecirc /\ cur' = cur
    BY <1>6 DEF Harvest, workerVars
  <2>2. \A v \in Workers : \A p \in down'[v] :
          \/ p \in down[v]
          \/ Answers(Head(recirc)) /\ p.k = Head(recirc).k
    BY <1>6 DEF Harvest, Answers
  <2> QED BY <2>1, <2>2, HarvestBroadcasts
<1>7. CASE DropInSwitch
  <2>1. LeaveRecirc /\ cur' = cur /\ down' = down
    BY <1>7 DEF DropInSwitch, workerVars
  <2> QED BY <2>1, HarvestBroadcasts
<1>8. CASE Done \/ UNCHANGED vars
  <2>1. recirc' = recirc /\ cur' = cur /\ down' = down /\ broadcasted' = broadcasted
    BY <1>8 DEF Done, vars
  <2> QED BY <1>1, <1>2, <2>1, SameQueueBroadcasts
<1> QED BY <1>3, <1>4, <1>5, <1>6, <1>7, <1>8, ReceiveBroadcasts, ConsumeBroadcasts DEF Next

LEMMA NewlyBroadcasted ==
  ASSUME [Next]_vars, NEW b, b \in broadcasted', b \notin broadcasted
  PROVE  LeaveRecirc /\ Broadcasts(Head(recirc)) /\ b = Head(recirc).k
<1>1. LeaveRecirc
  <2>1. ASSUME NEW w \in Workers,
               \/ SendFirst(w) \/ Timeout(w) \/ Receive(w)
               \/ Consume(w) \/ LoseUplink(w) \/ LoseDownlink(w)
        PROVE  broadcasted' = broadcasted
    BY <2>1 DEF SendFirst, Timeout, Receive, Consume, LoseUplink, LoseDownlink, switchVars
  <2>2. ASSUME Done \/ UNCHANGED vars PROVE broadcasted' = broadcasted
    BY <2>2 DEF Done, vars
  <2>3. Harvest \/ DropInSwitch
    BY <2>1, <2>2 DEF Next
  <2> QED BY <2>3 DEF Harvest, DropInSwitch
<1>2. broadcasted' = IF Broadcasts(Head(recirc))
                     THEN broadcasted \cup {Head(recirc).k} ELSE broadcasted
  BY <1>1 DEF LeaveRecirc
<1> QED BY <1>1, <1>2

LEMMA BroadcastedStep == BInv /\ IInv' /\ [Next]_vars => BroadcastedComplete'
<1> SUFFICES ASSUME BInv, IInv', [Next]_vars, NEW b \in broadcasted', NEW v \in Workers
             PROVE  Level(v)' >= b
  BY DEF BroadcastedComplete
<1>1. TypeOK /\ TypeOK' /\ IInv /\ BroadcastedComplete /\ RecircComplete
  BY DEF BInv, IInv
<1>2. \/ b \in broadcasted
      \/ LeaveRecirc /\ Broadcasts(Head(recirc)) /\ b = Head(recirc).k
  BY NewlyBroadcasted
<1>3. Level(v) >= b /\ b \in Int
  <2>1. CASE b \in broadcasted
    BY <1>1, <2>1, PacketsTyped DEF BroadcastedComplete
  <2>2. CASE LeaveRecirc /\ Broadcasts(Head(recirc)) /\ b = Head(recirc).k
    <3>1. Head(recirc) = recirc[1] /\ 1 \in 1 .. Len(recirc)
      BY <1>1, <2>2, HeadTailProperties, EmptySeq, LenProperties DEF LeaveRecirc, TypeOK
    <3>2. b \in Int
      BY <1>1, <2>2, <3>1, PacketsTyped
    <3> QED BY <1>1, <2>2, <3>1, <3>2 DEF RecircComplete, Broadcasts
  <2> QED BY <1>2, <2>1, <2>2
<1>4. Level(v) \in Int /\ Level(v)' \in Int
  BY <1>1, LevelBounds, LevelBoundsAfter
<1>5. Level(v)' >= Level(v)
  BY <1>1, LevelGrows
<1> QED BY <1>3, <1>4, <1>5

LEMMA BroadcastFromBInv == BInv => BroadcastOnce
<1> SUFFICES ASSUME BInv, NEW i \in DOMAIN recirc, Broadcasts(recirc[i])
             PROVE  /\ recirc[i].k \notin broadcasted
                    /\ \A w \in Workers : cur[w] <= recirc[i].k
                    /\ \A j \in DOMAIN recirc \ {i} : ~Broadcasts(recirc[j])
  BY DEF BroadcastOnce
<1>1. TypeOK /\ BroadcastFirst /\ RecircComplete
  BY DEF BInv, IInv
<1>2. DOMAIN recirc = 1 .. Len(recirc)
  BY <1>1, LenProperties DEF TypeOK
<1>3. \A w \in Workers : cur[w] <= recirc[i].k
  BY <1>1, <1>2 DEF BroadcastFirst
<1>4. recirc[i].k \notin broadcasted
  <2>1. \A b \in broadcasted : b < recirc[i].k /\ b \in Nat
    BY <1>1, <1>2, PacketsTyped DEF BroadcastFirst
  <2> QED BY <2>1
\* Two broadcasts would be in order, yet everybody has reached the later packet.
<1>5. ASSUME NEW g \in 1 .. Len(recirc), NEW h \in 1 .. Len(recirc), g < h,
             Broadcasts(recirc[g]), Broadcasts(recirc[h])
      PROVE  FALSE
  <2>1. PICK w \in Workers : TRUE
    BY WorkersAssumption
  <2>2. recirc[g].k \in Nat /\ recirc[h].k \in Nat /\ cur[w] \in Int
    BY <1>1, PacketsTyped
  <2>3. Answers(recirc[g]) /\ g \in 1 .. h - 1
    BY <1>5 DEF Broadcasts, Answers
  <2>4. cur[w] <= recirc[g].k /\ recirc[g].k < recirc[h].k
    BY <1>1, <1>5, <2>3 DEF BroadcastFirst
  <2>5. Level(w) >= recirc[h].k
    BY <1>1, <1>5 DEF RecircComplete, Broadcasts
  <2>6. Level(w) \in Int /\ Level(w) <= cur[w]
    BY <1>1, LevelBounds
  <2> QED BY <2>2, <2>4, <2>5, <2>6
<1>6. ASSUME NEW j \in DOMAIN recirc \ {i}, Broadcasts(recirc[j]) PROVE FALSE
  <2>1. i \in Int /\ j \in Int /\ (i < j \/ j < i)
    BY <1>2, <1>6
  <2> QED BY <1>2, <1>5, <1>6, <2>1
<1> QED BY <1>3, <1>4, <1>6

\* A packet is broadcast at most once, before anybody has its result, and not
\* again when that broadcast was lost: HARVEST7 answers resends to their sender.
THEOREM BroadcastsOnce == Spec => []BroadcastOnce
<1>1. Init => BroadcastFirst /\ BroadcastedComplete
  BY EmptySeq DEF Init, BroadcastFirst, BroadcastedComplete
<1>2. /\ IInv /\ BroadcastFirst /\ BroadcastedComplete
      /\ IInv' /\ [Next]_vars
      => (BroadcastFirst /\ BroadcastedComplete)'
  BY BroadcastStep, BroadcastedStep DEF BInv
<1>3. Spec => [](BroadcastFirst /\ BroadcastedComplete)
  BY <1>1, <1>2, InductiveInvariant, PTL DEF Spec
<1>4. IInv /\ BroadcastFirst /\ BroadcastedComplete => BroadcastOnce
  BY BroadcastFromBInv DEF BInv
<1> QED BY <1>3, <1>4, InductiveInvariant, PTL

-----------------------------------------------------------------------------
(* Refinement *)

LEMMA ReceiveRefines ==
  ASSUME IInv, NEW w \in Workers, Receive(w)
  PROVE  Stream!Complete(w) \/ UNCHANGED Stream!streamVars
<1>1. TypeOK /\ DownlinkExact
  BY DEF IInv
<1>2. PICK m \in down[w] : Accept(w, m) \/ Discard(w, m)
  BY DEF Receive
<1>3. CASE Discard(w, m)
  BY <1>3 DEF Discard, Stream!streamVars
<1>4. CASE Accept(w, m)
  <2>1. m.k \in Pkts /\ m.k \in Nat
    BY <1>1, PktsType DEF TypeOK, ResultPkt
  <2>2. \A v \in Workers : cur[v] \in Int /\ Level(v) \in Int /\ Level(v) >= m.k
                           /\ Level(v) <= cur[v]
    BY <1>1, LevelBounds DEF DownlinkExact
  <2>3. m.k = cur[w]
    <3>1. Level(w) >= m.k /\ Level(w) <= cur[w] /\ m.k >= cur[w]
      BY <1>4, <2>2 DEF Accept
    <3> QED BY <2>1, <2>2, <3>1
  <2>4. m.hi = Stream!SumOf(cur[w]) /\ m.lo = Stream!SumOf(cur[w])
    BY <1>1, <2>3 DEF DownlinkExact
  <2>5. \A v \in Workers : cur[v] >= cur[w]
    BY <2>1, <2>2, <2>3
  <2>6. out' = [out EXCEPT ![w][cur[w]] = Stream!Reduced(cur[w])]
    BY <1>4, <2>3, <2>4 DEF Accept, Stream!Reduced
  <2>7. cur' = [cur EXCEPT ![w] = cur[w] + 1]
    BY <1>4, <2>3 DEF Accept
  <2> QED BY <2>1, <2>3, <2>5, <2>6, <2>7 DEF Stream!Complete, Pkts
<1> QED BY <1>2, <1>3, <1>4

\* Switch, links, timers and resends together do what AllReduceStream promises:
\* each worker gets the exact results in order, and none before everybody has
\* contributed; all other steps are invisible to the workers.
THEOREM Refinement == Spec => ImplementsStream
<1>1. Init => Stream!Init
  BY DEF Init
<1>2. IInv /\ [Next]_vars => [Stream!Next]_(Stream!streamVars)
  <2> SUFFICES ASSUME IInv, [Next]_vars
               PROVE  Stream!Next \/ UNCHANGED Stream!streamVars
    OBVIOUS
  <2>1. ASSUME NEW w \in Workers, SendFirst(w) PROVE Stream!Next
    <3>1. Stream!Start(w)
      BY <2>1 DEF SendFirst, Stream!Start, NotStarted
    <3> QED BY <3>1 DEF Stream!Next
  <2>2. ASSUME NEW w \in Workers, Receive(w)
        PROVE  Stream!Next \/ UNCHANGED Stream!streamVars
    BY <2>2, ReceiveRefines DEF Stream!Next
  <2>3. ASSUME NEW w \in Workers,
               Timeout(w) \/ Consume(w) \/ LoseUplink(w) \/ LoseDownlink(w)
        PROVE  UNCHANGED Stream!streamVars
    BY <2>3 DEF Timeout, Consume, LoseUplink, LoseDownlink, workerVars,
                Stream!streamVars
  <2>4. CASE Harvest \/ DropInSwitch \/ Done \/ UNCHANGED vars
    BY <2>4 DEF Harvest, DropInSwitch, Done, vars, workerVars, Stream!streamVars
  <2> QED BY <2>1, <2>2, <2>3, <2>4 DEF Next
<1> QED BY <1>1, <1>2, InductiveInvariant, PTL
        DEF Spec, ImplementsStream, Stream!Spec

=============================================================================
