------------------------- MODULE TimeoutQueueProofs -------------------------
(***************************************************************************)
(* Proofs about TimeoutQueue for any number of entries and any timeouts:    *)
(* the list stays linked and ordered, a push is never out of order, and     *)
(* checking only the tail implements DeadlineQueue.                         *)
(***************************************************************************)
EXTENDS TimeoutQueue, FunctionTheorems, FiniteSetTheorems, TLAPS

\* Lists in the order of some rank.
InOrder(l) == \E rank \in [Index -> Int] : OrderedBy(l, rank)

\* No entry is newer than the time t.
NotAfter(l, t) == \A i \in Queued(l) : l.entries[i].timestamp <= t

\* The inductive invariant: the list has the order of the pushes, and
\* timestamps lie in the past.
IInv == TypeOK /\ InOrder(list) /\ NotAfter(list, now)

-----------------------------------------------------------------------------
(* The operations on lists.                                                 *)

\* Remove takes one entry out of the queued ones and keeps a list in order.
LEMMA UnlinkedOrdered ==
  ASSUME NEW l \in Lists, NEW i \in Index,
         NEW rank \in [Index -> Int], OrderedBy(l, rank)
  PROVE  /\ Unlinked(l, i) \in Lists
         /\ Queued(Unlinked(l, i)) = Queued(l) \ {i}
         /\ \A j \in Index \ {i} :
              Unlinked(l, i).entries[j].timestamp = l.entries[j].timestamp
         /\ OrderedBy(Unlinked(l, i), rank)
  <1>1. CASE ~l.entries[i].valid
    BY <1>1 DEF Unlinked, Lists, Queued
  <1>2. CASE l.entries[i].valid
    <2> DEFINE e == l.entries[i]
               m == Unlinked(l, i)
    <2>1. e \in TQEntry /\ l.entries \in [Index -> TQEntry]
      BY DEF Lists
    <2>2. Bypassed(l, i) \in [Index -> TQEntry]
      BY <2>1 DEF Bypassed, Lists, TQEntry
    <2>3. m \in [entries : [Index -> TQEntry], head : Index \cup {None}, tail : Index \cup {None}]
      BY <1>2, <2>1, <2>2 DEF Unlinked, Lists, TQEntry
    <2>4. \A j \in Index \ {i} : /\ m.entries[j].timestamp = l.entries[j].timestamp
                                 /\ m.entries[j].valid = l.entries[j].valid
                                 /\ m.entries[j].next = IF j = e.previous THEN e.next ELSE l.entries[j].next
                                 /\ m.entries[j].previous = IF j = e.next THEN e.previous ELSE l.entries[j].previous
      BY <1>2, <2>1 DEF Unlinked, Bypassed, Lists, TQEntry
    <2>5. m.entries[i].valid = FALSE /\ m.entries[i].next = None /\ m.entries[i].previous = None
      BY <1>2, <2>1, <2>2 DEF Unlinked, TQEntry
    <2>6. /\ m.head = IF l.head = i THEN e.next ELSE l.head
          /\ m.tail = IF l.tail = i THEN e.previous ELSE l.tail
      BY <1>2 DEF Unlinked
    <2>7. Queued(m) = Queued(l) \ {i} /\ i \in Queued(l)
      BY <1>2, <2>4, <2>5 DEF Queued
    <2>8. Queued(l) \subseteq Index /\ None \notin Index
      BY DEF Queued, Index, None
    <2>9. e.next \in Queued(l) \cup {None} /\ e.previous \in Queued(l) \cup {None}
      BY <2>7, <2>8 DEF OrderedBy, LinksFollow, Follows
    <2>10. m \in Lists
      <3>1. \A j \in Index \ Queued(m) : m.entries[j].next = None /\ m.entries[j].previous = None
        BY <2>4, <2>5, <2>7, <2>8, <2>9 DEF Lists
      <3>2. QED
        BY <2>3, <3>1 DEF Lists
    <2> HIDE DEF m
    <2>11. RanksFollowTime(m, rank)
      BY <2>4, <2>7, <2>8 DEF OrderedBy, RanksFollowTime
    <2>12. EndsFollow(m, rank)
      BY <2>6, <2>7, <2>8, <2>9 DEF OrderedBy, EndsFollow, LinksFollow, Follows, Newest, Oldest, RanksFollowTime
    <2>13. LinksFollow(m, rank)
      <3> SUFFICES ASSUME NEW j \in Queued(m)
                   PROVE  /\ IF m.entries[j].next = None
                             THEN Oldest(m, rank, j)
                             ELSE Follows(m, rank, j, m.entries[j].next)
                          /\ IF m.entries[j].previous = None
                             THEN Newest(m, rank, j)
                             ELSE Follows(m, rank, m.entries[j].previous, j)
        BY DEF LinksFollow
      <3>1. j \in Queued(l) /\ j # i /\ j \in Index
        BY <2>7, <2>8
      <3>2. /\ IF l.entries[j].next = None
               THEN Oldest(l, rank, j) ELSE Follows(l, rank, j, l.entries[j].next)
            /\ IF l.entries[j].previous = None
               THEN Newest(l, rank, j) ELSE Follows(l, rank, l.entries[j].previous, j)
            /\ IF e.next = None THEN Oldest(l, rank, i) ELSE Follows(l, rank, i, e.next)
            /\ IF e.previous = None THEN Newest(l, rank, i) ELSE Follows(l, rank, e.previous, i)
        BY <2>7, <3>1 DEF OrderedBy, LinksFollow
      <3>3. \A k, n \in Queued(l) : rank[k] = rank[n] => k = n
        BY DEF OrderedBy, RanksFollowTime
      <3>4. \A k \in Queued(l) : rank[k] \in Int
        BY <2>8
      <3>5. /\ m.entries[j].next = IF j = e.previous THEN e.next ELSE l.entries[j].next
            /\ m.entries[j].previous = IF j = e.next THEN e.previous ELSE l.entries[j].previous
        BY <2>4, <3>1
      <3> HIDE DEF e
      <3>6. IF m.entries[j].next = None THEN Oldest(m, rank, j)
            ELSE Follows(m, rank, j, m.entries[j].next)
        <4>1. CASE j = e.previous
          BY <4>1, <2>7, <2>8, <2>9, <3>1, <3>2, <3>3, <3>4, <3>5 DEF Follows, Oldest, Newest
        <4>2. CASE j # e.previous
          <5>1. l.entries[j].next # i
            BY <4>2, <2>7, <2>8, <2>9, <3>1, <3>2, <3>3, <3>4 DEF Follows, Oldest, Newest
          <5>2. QED
            BY <4>2, <5>1, <2>7, <2>8, <3>1, <3>2, <3>5 DEF Follows, Oldest
        <4>3. QED
          BY <4>1, <4>2
      <3>7. IF m.entries[j].previous = None THEN Newest(m, rank, j)
            ELSE Follows(m, rank, m.entries[j].previous, j)
        <4>1. CASE j = e.next
          BY <4>1, <2>7, <2>8, <2>9, <3>1, <3>2, <3>3, <3>4, <3>5 DEF Follows, Oldest, Newest
        <4>2. CASE j # e.next
          <5>1. l.entries[j].previous # i
            BY <4>2, <2>7, <2>8, <2>9, <3>1, <3>2, <3>3, <3>4 DEF Follows, Oldest, Newest
          <5>2. QED
            BY <4>2, <5>1, <2>7, <2>8, <3>1, <3>2, <3>5 DEF Follows, Newest
        <4>3. QED
          BY <4>1, <4>2
      <3>8. QED
        BY <3>6, <3>7
    <2>14. QED
      BY <2>4, <2>7, <2>10, <2>11, <2>12, <2>13 DEF OrderedBy, m
  <1>3. QED
    BY <1>1, <1>2

\* Push puts an entry that is not queued at the new end of the order.
LEMMA LinkedOrdered ==
  ASSUME NEW l \in Lists, NEW i \in Index, i \notin Queued(l),
         NEW t \in Nat, NotAfter(l, t), InOrder(l)
  PROVE  /\ Linked(l, i, t) \in Lists
         /\ Queued(Linked(l, i, t)) = Queued(l) \cup {i}
         /\ \A j \in Index \ {i} :
              Linked(l, i, t).entries[j].timestamp = l.entries[j].timestamp
         /\ Linked(l, i, t).entries[i].timestamp = t
         /\ InOrder(Linked(l, i, t))
  <1> DEFINE m == Linked(l, i, t)
  <1>1. PICK rank \in [Index -> Int] : OrderedBy(l, rank)
    BY DEF InOrder
  <1>2. /\ l.entries \in [Index -> TQEntry]
        /\ l.head \in Index \cup {None} /\ l.tail \in Index \cup {None}
    BY DEF Lists
  <1>3. Queued(l) \subseteq Index /\ None \notin Index
    BY DEF Queued, Index, None
  <1>4. m \in [entries : [Index -> TQEntry], head : Index \cup {None}, tail : Index \cup {None}]
    BY <1>2 DEF Linked, TQEntry
  <1>5. \A j \in Index \ {i} :
          /\ m.entries[j].timestamp = l.entries[j].timestamp
          /\ m.entries[j].valid = l.entries[j].valid
          /\ m.entries[j].next = l.entries[j].next
          /\ m.entries[j].previous = IF j = l.head THEN i ELSE l.entries[j].previous
    BY <1>2 DEF Linked, TQEntry
  <1>6. /\ m.entries[i].valid = TRUE /\ m.entries[i].timestamp = t
        /\ m.entries[i].next = l.head /\ m.entries[i].previous = None
        /\ m.head = i /\ m.tail = IF l.tail = None THEN i ELSE l.tail
    BY DEF Linked
  <1>7. Queued(m) = Queued(l) \cup {i}
    BY <1>5, <1>6 DEF Queued
  <1>8. EndsFollow(l, rank)
    BY <1>1 DEF OrderedBy
  <1>9. m \in Lists
    <2>1. \A j \in Index \ Queued(m) : m.entries[j].next = None /\ m.entries[j].previous = None
      BY <1>3, <1>5, <1>7, <1>8 DEF Lists, EndsFollow, Newest
    <2>2. QED
      BY <1>4, <2>1 DEF Lists
  <1> DEFINE top == IF l.head = None THEN 0 ELSE rank[l.head] + 1
             r   == [rank EXCEPT ![i] = top]
  <1>10. top \in Int /\ r \in [Index -> Int]
    BY <1>2
  <1>11. r[i] = top /\ \A j \in Queued(l) : r[j] = rank[j] /\ rank[j] \in Int
    BY <1>3
  <1>12. \A j \in Queued(l) : r[j] < r[i]
    BY <1>3, <1>8, <1>11 DEF EndsFollow, Newest
  <1> HIDE DEF m, r, top
  <1>13. \A j, k \in Queued(l) : rank[j] = rank[k] => j = k
    BY <1>1 DEF OrderedBy, RanksFollowTime
  <1>14. RanksFollowTime(m, r)
    <2> SUFFICES ASSUME NEW j \in Queued(m), NEW k \in Queued(m)
                 PROVE  /\ r[j] = r[k] => j = k
                        /\ r[j] <= r[k] => m.entries[j].timestamp <= m.entries[k].timestamp
      BY DEF RanksFollowTime
    <2>1. CASE j = i /\ k = i
      BY <2>1, <1>6
    <2>2. CASE j \in Queued(l) /\ k = i
      BY <2>2, <1>3, <1>5, <1>6, <1>10, <1>11, <1>12 DEF NotAfter
    <2>3. CASE j = i /\ k \in Queued(l)
      BY <2>3, <1>3, <1>10, <1>11, <1>12
    <2>4. CASE j \in Queued(l) /\ k \in Queued(l)
      BY <2>4, <1>1, <1>3, <1>5, <1>11 DEF OrderedBy, RanksFollowTime
    <2>5. QED
      BY <2>1, <2>2, <2>3, <2>4, <1>7
  <1>15. EndsFollow(m, r)
    BY <1>3, <1>6, <1>7, <1>8, <1>10, <1>11, <1>12 DEF EndsFollow, Newest, Oldest
  <1>16. LinksFollow(m, r)
    <2> SUFFICES ASSUME NEW j \in Queued(m)
                 PROVE  /\ IF m.entries[j].next = None
                           THEN Oldest(m, r, j)
                           ELSE Follows(m, r, j, m.entries[j].next)
                        /\ IF m.entries[j].previous = None
                           THEN Newest(m, r, j)
                           ELSE Follows(m, r, m.entries[j].previous, j)
      BY DEF LinksFollow
    <2>1. CASE j = i
      BY <2>1, <1>3, <1>6, <1>7, <1>8, <1>10, <1>11, <1>12 DEF EndsFollow, Newest, Oldest, Follows
    <2>2. CASE j \in Queued(l) /\ j # i
      <3>1. /\ IF l.entries[j].next = None
               THEN Oldest(l, rank, j) ELSE Follows(l, rank, j, l.entries[j].next)
            /\ IF l.entries[j].previous = None
               THEN Newest(l, rank, j) ELSE Follows(l, rank, l.entries[j].previous, j)
        BY <2>2, <1>1 DEF OrderedBy, LinksFollow
      <3>2. IF m.entries[j].next = None
            THEN Oldest(m, r, j) ELSE Follows(m, r, j, m.entries[j].next)
        BY <2>2, <3>1, <1>3, <1>5, <1>7, <1>10, <1>11, <1>12 DEF Oldest, Follows
      <3>3. l.head # None /\ Newest(l, rank, l.head)
        BY <2>2, <1>8 DEF EndsFollow
      <3>4. l.entries[j].previous = None <=> j = l.head
        BY <2>2, <3>1, <3>3, <1>3, <1>11, <1>13 DEF Newest, Follows
      <3>5. IF m.entries[j].previous = None
            THEN Newest(m, r, j) ELSE Follows(m, r, m.entries[j].previous, j)
        <4>1. CASE j = l.head
          BY <2>2, <4>1, <3>3, <1>3, <1>5, <1>7, <1>10, <1>11, <1>12 DEF Newest, Follows
        <4>2. CASE j # l.head
          BY <2>2, <4>2, <3>1, <3>4, <1>3, <1>5, <1>7, <1>10, <1>11, <1>12 DEF Newest, Follows
        <4>3. QED
          BY <4>1, <4>2
      <3>6. QED
        BY <3>2, <3>5
    <2>3. QED
      BY <2>1, <2>2, <1>7
  <1>17. InOrder(m)
    BY <1>10, <1>14, <1>15, <1>16 DEF InOrder, OrderedBy
  <1>18. QED
    BY <1>5, <1>6, <1>7, <1>9, <1>17 DEF m

-----------------------------------------------------------------------------
(* Invariants of the queue.                                                 *)

\* Pushing an index, queued or not, at a time no entry is after.
LEMMA PushedInOrder ==
  ASSUME NEW l \in Lists, NEW i \in Index, NEW t \in Nat,
         NotAfter(l, t), InOrder(l)
  PROVE  LET m == Linked(Unlinked(l, i), i, t) IN
         /\ m \in Lists /\ InOrder(m) /\ NotAfter(m, t)
         /\ Queued(m) = Queued(l) \cup {i}
         /\ m.entries[i].timestamp = t
         /\ \A j \in Index \ {i} : m.entries[j].timestamp = l.entries[j].timestamp
  <1> DEFINE u == Unlinked(l, i)
             m == Linked(u, i, t)
  <1>1. /\ u \in Lists /\ Queued(u) = Queued(l) \ {i} /\ InOrder(u)
        /\ \A j \in Index \ {i} : u.entries[j].timestamp = l.entries[j].timestamp
    BY UnlinkedOrdered DEF InOrder
  <1>2. Queued(l) \subseteq Index
    BY DEF Queued
  <1> HIDE DEF u
  <1>3. NotAfter(u, t) /\ i \notin Queued(u)
    BY <1>1, <1>2 DEF NotAfter
  <1>4. /\ m \in Lists /\ Queued(m) = Queued(u) \cup {i} /\ InOrder(m)
        /\ m.entries[i].timestamp = t
        /\ \A j \in Index \ {i} : m.entries[j].timestamp = u.entries[j].timestamp
    BY <1>1, <1>3, LinkedOrdered
  <1> HIDE DEF m
  <1>5. NotAfter(m, t)
    BY <1>1, <1>2, <1>4 DEF NotAfter
  <1>6. QED
    BY <1>1, <1>4, <1>5, <1>2 DEF m, u

LEMMA InitInv == Init => IInv
  <1> SUFFICES ASSUME Init PROVE IInv
    OBVIOUS
  <1>1. TypeOK /\ Queued(list) = {}
    BY QueueAssumption DEF Init, TypeOK, Lists, TQEntry, NewEntry, Queued, None
  <1>2. OrderedBy(list, [i \in Index |-> 0])
    BY <1>1 DEF Init, OrderedBy, LinksFollow, EndsFollow, RanksFollowTime
  <1>3. [i \in Index |-> 0] \in [Index -> Int]
    OBVIOUS
  <1>4. QED
    BY <1>1, <1>2, <1>3 DEF IInv, InOrder, NotAfter

LEMMA StepInv == IInv /\ [Next]_vars => IInv'
  <1> SUFFICES ASSUME IInv, [Next]_vars PROVE IInv'
    OBVIOUS
  <1>1. ASSUME NEW i \in Index, Push(i) PROVE IInv'
    <2>1. list' \in Lists /\ InOrder(list') /\ NotAfter(list', now)
      BY <1>1, PushedInOrder DEF Push, IInv, TypeOK
    <2>2. QED
      BY <1>1, <2>1 DEF Push, IInv, TypeOK, backoffVars, InOrder, NotAfter
  <1>2. ASSUME NEW i \in Index, Remove(i) PROVE IInv'
    <2>1. PICK rank \in [Index -> Int] : OrderedBy(list, rank)
      BY DEF IInv, InOrder
    <2>2. /\ list' \in Lists /\ Queued(list') = Queued(list) \ {i}
          /\ \A j \in Index \ {i} : list'.entries[j].timestamp = list.entries[j].timestamp
          /\ OrderedBy(list', rank)
      BY <1>2, <2>1, UnlinkedOrdered DEF Remove, IInv, TypeOK
    <2>3. Queued(list) \subseteq Index
      BY DEF Queued
    <2>4. NotAfter(list', now) /\ InOrder(list')
      BY <2>2, <2>3 DEF IInv, NotAfter, InOrder
    <2>5. QED
      BY <1>2, <2>2, <2>4 DEF Remove, IInv, TypeOK, backoffVars, InOrder, NotAfter
  <1>3. ASSUME Check PROVE IInv'
    <2>1. list' = list /\ now' = now
      BY <1>3 DEF Check
    <2>2. TypeOK'
      <3>1. CASE TailExpired
        BY <1>3, <3>1, QueueAssumption DEF Check, Backoff, TailExpired, IInv, TypeOK, Lists
      <3>2. CASE ~TailExpired
        BY <1>3, <3>2 DEF Check, IInv, TypeOK, backoffVars
      <3>3. QED
        BY <3>1, <3>2
    <2>3. QED
      BY <2>1, <2>2 DEF IInv
  <1>4. ASSUME Tick PROVE IInv'
    <2>1. \A i \in Queued(list) : list.entries[i].timestamp \in Nat
      BY DEF IInv, TypeOK, Lists, TQEntry, Queued
    <2>2. QED
      BY <1>4, <2>1 DEF Tick, IInv, TypeOK, backoffVars, NotAfter
  <1>5. CASE UNCHANGED vars
    BY <1>5 DEF vars, IInv, TypeOK
  <1>6. QED
    BY <1>1, <1>2, <1>3, <1>4, <1>5 DEF Next

\* The list of entries stays linked, ordered by the pushes, and in the past.
THEOREM QueueInvariant == Spec => []IInv
  BY InitInv, StepInv, PTL DEF Spec

\* The type invariant for any number of entries.
THEOREM TypeCorrect == Spec => []TypeOK
  <1>1. IInv => TypeOK
    BY DEF IInv
  <1>2. QED
    BY <1>1, QueueInvariant, PTL

\* The fatal check of Push (rdma_timeout_queue.cc:57) never fires.
THEOREM PushesInOrder == Spec => []PushInOrder
  <1>1. IInv => PushInOrder
    <2> SUFFICES ASSUME IInv, list.head # None
                 PROVE  ~(now < list.entries[list.head].timestamp)
      BY DEF PushInOrder, OutOfOrder
    <2>1. list.head \in Queued(list)
      BY DEF IInv, InOrder, OrderedBy, EndsFollow, Newest
    <2>2. list.entries[list.head].timestamp <= now
      BY <2>1 DEF IInv, NotAfter
    <2>3. list.entries[list.head].timestamp \in Nat /\ now \in Nat
      BY <2>1 DEF IInv, TypeOK, Lists, TQEntry, Queued
    <2>4. QED
      BY <2>2, <2>3
  <1>2. QED
    BY <1>1, QueueInvariant, PTL

\* Shapes and order of the pushes together, for any number of entries.
THEOREM Consistency == Spec => []Consistent
  <1>1. TypeOK /\ PushInOrder => Consistent
    BY DEF Consistent
  <1>2. QED
    BY <1>1, TypeCorrect, PushesInOrder, PTL

-----------------------------------------------------------------------------
(* The ranks of ListInOrder are numbers up to N.                            *)

\* Two ranks that compare all queued entries alike order the same list.
LEMMA SameOrder ==
  ASSUME NEW l, NEW rank, NEW low, OrderedBy(l, rank),
         \A i, j \in Queued(l) : /\ low[i] < low[j] <=> rank[i] < rank[j]
                                 /\ low[i] <= low[j] <=> rank[i] <= rank[j]
                                 /\ low[i] = low[j] <=> rank[i] = rank[j]
  PROVE  OrderedBy(l, low)
  <1>1. \A i, j : Follows(l, rank, i, j) => Follows(l, low, i, j)
    BY DEF Follows
  <1>2. \A i : /\ Oldest(l, rank, i) => Oldest(l, low, i)
               /\ Newest(l, rank, i) => Newest(l, low, i)
    BY DEF Oldest, Newest
  <1>3. LinksFollow(l, low)
    BY <1>1, <1>2 DEF OrderedBy, LinksFollow
  <1>4. EndsFollow(l, low)
    BY <1>2 DEF OrderedBy, EndsFollow
  <1>5. RanksFollowTime(l, low)
    BY DEF OrderedBy, RanksFollowTime
  <1>6. QED
    BY <1>3, <1>4, <1>5 DEF OrderedBy

\* How many entries are older than an entry is a rank as good as any other.
LEMMA RanksFit ==
  ASSUME NEW l \in Lists, InOrder(l)
  PROVE  \E rank \in [Index -> 0 .. N] : OrderedBy(l, rank)
  <1>1. PICK rank \in [Index -> Int] : OrderedBy(l, rank)
    BY DEF InOrder
  <1> DEFINE Below(i) == {j \in Queued(l) : rank[j] < rank[i]}
             low == [i \in Index |-> Cardinality(Below(i))]
  <1>2. IsFiniteSet(Index) /\ Cardinality(Index) = N
    BY QueueAssumption, FS_Interval DEF Index
  <1>3. Queued(l) \in SUBSET Index /\ \A i \in Index : Below(i) \in SUBSET Index
    BY DEF Queued
  <1> HIDE DEF Below
  <1>4. \A i \in Index : /\ IsFiniteSet(Below(i)) /\ Cardinality(Below(i)) \in Nat
                         /\ Cardinality(Below(i)) <= N
    BY <1>2, <1>3, FS_Subset, FS_CardinalityType
  <1>5. low \in [Index -> 0 .. N] /\ \A i \in Index : low[i] = Cardinality(Below(i))
    BY <1>4, QueueAssumption
  <1> HIDE DEF low
  <1>6. ASSUME NEW i \in Queued(l), NEW j \in Queued(l), rank[i] < rank[j]
        PROVE  low[i] < low[j]
    <2>1. Below(i) \in SUBSET Below(j) /\ i \in Below(j) /\ i \notin Below(i)
      BY <1>1, <1>3, <1>6 DEF Below
    <2>2. Cardinality(Below(i)) <= Cardinality(Below(j)) /\ Cardinality(Below(i)) # Cardinality(Below(j))
      BY <1>3, <1>4, <2>1, FS_Subset
    <2>3. QED
      BY <1>3, <1>4, <1>5, <2>2
  <1>7. ASSUME NEW i \in Queued(l), NEW j \in Queued(l), rank[i] = rank[j]
        PROVE  low[i] = low[j]
    <2>1. Below(i) = Below(j)
      BY <1>7 DEF Below
    <2>2. QED
      BY <1>3, <1>5, <2>1
  <1>8. ASSUME NEW i \in Queued(l), NEW j \in Queued(l)
        PROVE  /\ low[i] < low[j] <=> rank[i] < rank[j]
               /\ low[i] <= low[j] <=> rank[i] <= rank[j]
               /\ low[i] = low[j] <=> rank[i] = rank[j]
    <2>1. rank[i] \in Int /\ rank[j] \in Int /\ low[i] \in Int /\ low[j] \in Int
      BY <1>1, <1>3, <1>5
    <2>2. /\ rank[i] < rank[j] => low[i] < low[j]
          /\ rank[j] < rank[i] => low[j] < low[i]
          /\ rank[i] = rank[j] => low[i] = low[j]
      BY <1>6, <1>7
    <2>3. QED
      BY <2>1, <2>2
  <1>9. OrderedBy(l, low)
    BY <1>1, <1>8, SameOrder
  <1>10. QED
    BY <1>5, <1>9

\* One list of all entries that wait, ordered by the time they were pushed at,
\* for any number of entries: no removal and no second push of an index breaks
\* a link or the order.
THEOREM ListStaysInOrder == Spec => []ListInOrder
  <1>1. IInv => ListInOrder
    BY RanksFit DEF IInv, TypeOK, ListInOrder, Ordered
  <1>2. QED
    BY <1>1, QueueInvariant, PTL

-----------------------------------------------------------------------------
(* The backoff.                                                             *)

\* The power of two doubles: so many subsets does one more element give.
LEMMA PowerDoubles ==
  ASSUME NEW n \in Nat
  PROVE  2^(n + 1) = 2 * 2^n
  <1> DEFINE S == 1 .. n
             T == 1 .. n + 1
             with == {A \cup {n + 1} : A \in SUBSET S}
             f == [A \in SUBSET S |-> A \cup {n + 1}]
  <1>1. IsFiniteSet(S) /\ Cardinality(S) = n /\ IsFiniteSet(T) /\ Cardinality(T) = n + 1
    BY FS_Interval
  <1>2. /\ IsFiniteSet(SUBSET S) /\ Cardinality(SUBSET S) = 2^n
        /\ IsFiniteSet(SUBSET T) /\ Cardinality(SUBSET T) = 2^(n + 1)
    BY <1>1, FS_SUBSET
  <1>3. n + 1 \notin S /\ T = S \cup {n + 1}
    OBVIOUS
  <1> HIDE DEF S, T
  <1>4. f \in Bijection(SUBSET S, with)
    <2>1. \A A, B \in SUBSET S : A \cup {n + 1} = B \cup {n + 1} => A = B
      BY <1>3
    <2>2. f \in [SUBSET S -> with] /\ \A A \in SUBSET S : f[A] = A \cup {n + 1}
      OBVIOUS
    <2>3. \A t \in with : \E A \in SUBSET S : f[A] = t
      OBVIOUS
    <2> HIDE DEF f, with
    <2>4. IsInjective(f)
      <3>1. DOMAIN f = SUBSET S
        BY <2>2
      <3>2. ASSUME NEW A \in SUBSET S, NEW B \in SUBSET S, f[A] = f[B]
            PROVE  A = B
        BY <2>1, <2>2, <3>2
      <3>3. QED
        BY <3>1, <3>2, Zenon DEF IsInjective
    <2>5. QED
      BY <2>2, <2>3, <2>4 DEF Bijection, Injection, Surjection
  <1>5. IsFiniteSet(with) /\ Cardinality(with) = 2^n
    BY <1>2, <1>4, FS_Bijection DEF ExistsBijection
  <1>6. SUBSET T = (SUBSET S) \cup with /\ (SUBSET S) \cap with = {}
    <2>1. \A A \in SUBSET T : n + 1 \in A => A = (A \ {n + 1}) \cup {n + 1} /\ A \ {n + 1} \in SUBSET S
      BY <1>3
    <2>2. \A A \in SUBSET T : n + 1 \notin A => A \in SUBSET S
      BY <1>3
    <2>3. ASSUME NEW A \in SUBSET T PROVE A \in (SUBSET S) \cup with
      <3>1. CASE n + 1 \in A
        <4>1. A = (A \ {n + 1}) \cup {n + 1} /\ A \ {n + 1} \in SUBSET S
          BY <2>1, <3>1
        <4>2. \E B \in SUBSET S : A = B \cup {n + 1}
          BY <4>1
        <4>3. QED
          BY <4>2
      <3>2. CASE n + 1 \notin A
        BY <2>2, <3>2
      <3>3. QED
        BY <3>1, <3>2
    <2>4. \A A \in (SUBSET S) \cup with : A \in SUBSET T
      BY <1>3
    <2>5. (SUBSET S) \cap with = {}
      BY <1>3
    <2>6. QED
      BY <2>3, <2>4, <2>5
  <1> HIDE DEF with
  <1>7. Cardinality(SUBSET T) = Cardinality(SUBSET S) + Cardinality(with) - Cardinality({})
    BY <1>2, <1>5, <1>6, FS_Union
  <1>8. Cardinality({}) = 0 /\ Cardinality(SUBSET S) \in Nat
    BY <1>2, FS_EmptySet, FS_CardinalityType
  <1>9. QED
    BY <1>2, <1>5, <1>7, <1>8

\* What d doublings have cost and brought, and a counter that has not passed
\* the threshold.
Paid(d) == /\ d <= reported /\ counter <= threshold
           /\ threshold = Threshold + d * Increment
           /\ timeout = Timeout * 2^d
           /\ 2 * (reported - counter) = 2 * d * (Threshold + 1) + Increment * d * (d - 1)

BackoffInv == TypeOK /\ \E d \in Nat : Paid(d)

\* The sums behind one more doubling.
LEMMA DoublingPays ==
  ASSUME NEW d \in Nat, NEW T \in Nat, NEW I \in Nat, NEW r \in Nat, NEW c \in Nat,
         c = T + d * I, 2 * (r - c) = 2 * d * (T + 1) + I * d * (d - 1)
  PROVE  /\ c + I = T + (d + 1) * I
         /\ 2 * (r + 1 - 0) = 2 * (d + 1) * (T + 1) + I * (d + 1) * ((d + 1) - 1)
  <1>1. d * I \in Int /\ I * d = d * I
    OBVIOUS
  <1>2. (d + 1) * I = d * I + I
    OBVIOUS
  <1>3. I * d * (d - 1) = (I * d) * d - I * d
    OBVIOUS
  <1>4. I * (d + 1) * ((d + 1) - 1) = (I * d) * d + I * d
    OBVIOUS
  <1>5. 2 * d * (T + 1) = 2 * (d * T) + 2 * d /\ 2 * (d + 1) * (T + 1) = 2 * (d * T) + 2 * d + 2 * T + 2
    OBVIOUS
  <1>6. QED
    BY <1>1, <1>2, <1>3, <1>4, <1>5

LEMMA BackoffInit == Init => BackoffInv
  <1> SUFFICES ASSUME Init PROVE BackoffInv
    OBVIOUS
  <1>1. TypeOK
    BY InitInv DEF IInv
  <1>2. Timeout * 2^0 = Timeout /\ Threshold + 0 * Increment = Threshold
    BY QueueAssumption
  <1>3. 2 * 0 * (Threshold + 1) + Increment * 0 * (0 - 1) = 0
    BY QueueAssumption
  <1>4. Paid(0)
    BY <1>2, <1>3, QueueAssumption DEF Init, Paid
  <1>5. QED
    BY <1>1, <1>4 DEF BackoffInv

LEMMA BackoffStep == BackoffInv /\ TypeOK' /\ [Next]_vars => BackoffInv'
  <1> SUFFICES ASSUME BackoffInv, TypeOK', [Next]_vars PROVE BackoffInv'
    OBVIOUS
  <1>1. PICK d \in Nat : Paid(d)
    BY DEF BackoffInv
  <1>2. CASE UNCHANGED backoffVars
    <2>1. Paid(d)'
      BY <1>1, <1>2 DEF Paid, backoffVars
    <2>2. QED
      BY <2>1 DEF BackoffInv
  <1>3. CASE Check /\ TailExpired
    <2>1. reported' = reported + 1 /\ Backoff
      BY <1>3 DEF Check
    <2>2. counter \in Nat /\ threshold \in Nat /\ reported \in Nat /\ timeout \in Nat
      BY DEF BackoffInv, TypeOK
    <2>3. CASE counter + 1 > threshold
      <3>1. counter' = 0 /\ timeout' = 2 * timeout /\ threshold' = threshold + Increment
        BY <2>1, <2>3 DEF Backoff
      <3>2. counter = threshold /\ threshold = Threshold + d * Increment
        BY <1>1, <2>2, <2>3 DEF Paid
      <3>3. /\ threshold' = Threshold + (d + 1) * Increment
            /\ 2 * (reported' - counter') =
                 2 * (d + 1) * (Threshold + 1) + Increment * (d + 1) * ((d + 1) - 1)
        <4>1. 2 * (reported - counter) = 2 * d * (Threshold + 1) + Increment * d * (d - 1)
          BY <1>1 DEF Paid
        <4>2. /\ counter + Increment = Threshold + (d + 1) * Increment
              /\ 2 * (reported + 1 - 0) =
                   2 * (d + 1) * (Threshold + 1) + Increment * (d + 1) * ((d + 1) - 1)
          BY <2>2, <3>2, <4>1, DoublingPays, QueueAssumption
        <4>3. QED
          BY <2>1, <3>1, <3>2, <4>2
      <3>4. timeout' = Timeout * 2^(d + 1)
        <4>1. timeout = Timeout * 2^d /\ 2^(d + 1) = 2 * 2^d
          BY <1>1, PowerDoubles DEF Paid
        <4>2. 2^d \in Nat
          <5>1. IsFiniteSet(1 .. d) /\ Cardinality(1 .. d) = d
            BY FS_Interval
          <5>2. IsFiniteSet(SUBSET (1 .. d)) /\ Cardinality(SUBSET (1 .. d)) = 2^d
            BY <5>1, FS_SUBSET
          <5>3. QED
            BY <5>2, FS_CardinalityType
        <4>3. ASSUME NEW p \in Nat PROVE 2 * (Timeout * p) = Timeout * (2 * p)
          BY QueueAssumption
        <4>4. QED
          BY <3>1, <4>1, <4>2, <4>3
      <3>5. d + 1 <= reported' /\ counter' <= threshold'
        BY <1>1, <2>1, <2>2, <3>1, QueueAssumption DEF Paid
      <3>6. Paid(d + 1)' /\ d + 1 \in Nat
        BY <3>3, <3>4, <3>5 DEF Paid
      <3>7. QED
        BY <3>6 DEF BackoffInv
    <2>4. CASE ~(counter + 1 > threshold)
      <3>1. counter' = counter + 1 /\ timeout' = timeout /\ threshold' = threshold
        BY <2>1, <2>4 DEF Backoff
      <3>2. d <= reported' /\ counter' <= threshold' /\ reported' - counter' = reported - counter
        BY <1>1, <2>1, <2>2, <2>4, <3>1 DEF Paid
      <3>3. Paid(d)'
        BY <1>1, <3>1, <3>2 DEF Paid
      <3>4. QED
        BY <3>3 DEF BackoffInv
    <2>5. QED
      BY <2>3, <2>4
  <1>4. QED
    BY <1>2, <1>3 DEF Next, Push, Remove, Check, Tick, vars, backoffVars

\* Every doubling of the timeout is paid for by the timeouts since the one
\* before, for any timeout, threshold and increment: Check never doubles early,
\* and never leaves more timeouts unspent than the threshold.
THEOREM BackoffAlwaysPaid == Spec => []BackoffIsPaid
  <1>1. BackoffInv => BackoffIsPaid
    <2> SUFFICES ASSUME BackoffInv PROVE BackoffIsPaid
      OBVIOUS
    <2>1. PICK d \in Nat : Paid(d)
      BY DEF BackoffInv
    <2>2. d \in 0 .. reported
      BY <2>1 DEF BackoffInv, TypeOK, Paid
    <2>3. Asked(d) <= 2 * (reported - counter) /\ 2 * (reported - counter) = Asked(d) + 2 * d
      <3>1. 2 * (reported - counter) = 2 * d * (Threshold + 1) + Increment * d * (d - 1)
        BY <2>1 DEF Paid
      <3>2. 2 * d * (Threshold + 1) = 2 * d * Threshold + 2 * d
        BY QueueAssumption
      <3>3. 2 * d * Threshold \in Int /\ Increment * d * (d - 1) \in Int
        BY QueueAssumption
      <3>4. QED
        BY <3>1, <3>2, <3>3 DEF Asked
    <2>4. reported - counter \in Int /\ 2 * (reported - counter) \in Int
      BY DEF BackoffInv, TypeOK
    <2>5. QED
      BY <2>1, <2>2, <2>3, <2>4 DEF Paid, BackoffIsPaid
  <1>2. QED
    BY <1>1, BackoffInit, BackoffStep, TypeCorrect, PTL DEF Spec

-----------------------------------------------------------------------------
(* Checking the tail alone is enough.                                       *)

\* Whole units of an interval grow with the interval.
LEMMA DivMonotone ==
  ASSUME NEW a \in Int, NEW b \in Int, a <= b
  PROVE  a \div Ms <= b \div Ms
  <1>1. Ms \in Int /\ 0 < Ms
    BY QueueAssumption
  <1>2. /\ a \div Ms \in Int /\ b \div Ms \in Int
        /\ Ms * (a \div Ms) <= a /\ b < Ms * ((b \div Ms) + 1)
    BY <1>1
  <1>3. Ms * (a \div Ms) < Ms * ((b \div Ms) + 1)
    BY <1>1, <1>2
  <1>4. QED
    BY <1>1, <1>2, <1>3

LEMMA TailIsOldest ==
  ASSUME IInv
  PROVE  /\ list.tail = None => Queued(list) = {}
         /\ list.tail # None =>
              /\ list.tail \in Queued(list)
              /\ \A i \in Queued(list) :
                   list.entries[list.tail].timestamp <= list.entries[i].timestamp
  <1>1. PICK rank \in [Index -> Int] : OrderedBy(list, rank)
    BY DEF IInv, InOrder
  <1>2. EndsFollow(list, rank) /\ RanksFollowTime(list, rank)
    BY <1>1 DEF OrderedBy
  <1>3. QED
    BY <1>2 DEF EndsFollow, RanksFollowTime, Oldest

\* Since reads the same entries as the list.
LEMMA SinceIsList ==
  ASSUME IInv
  PROVE  /\ Deadlines!Waiting = Queued(list)
         /\ \A i \in Queued(list) : Since[i] = list.entries[i].timestamp
         /\ \A i \in Index : Since[i] \in Int
         /\ now \in Int /\ timeout \in Int
  <1>1. \A i \in Index : list.entries[i].timestamp \in Nat
    BY DEF IInv, TypeOK, Lists, TQEntry
  <1>2. QED
    BY <1>1 DEF Deadlines!Waiting, Queued, Since, None, IInv, TypeOK

LEMMA InitRefines == Init => Deadlines!Init
  BY QueueAssumption DEF Init, Deadlines!Init, Since, NewEntry

LEMMA StepRefines ==
  IInv /\ [Next]_vars => [Deadlines!Next]_(Deadlines!deadlineVars)
  <1> SUFFICES ASSUME IInv, [Next]_vars
               PROVE  Deadlines!Next \/ UNCHANGED Deadlines!deadlineVars
    OBVIOUS
  <1>0. list \in Lists /\ Queued(list) \subseteq Index
    BY DEF IInv, TypeOK, Queued
  <1>1. ASSUME NEW i \in Index, Push(i) PROVE Deadlines!Next
    <2>1. /\ list' \in Lists /\ Queued(list') = Queued(list) \cup {i}
          /\ list'.entries[i].timestamp = now
          /\ \A j \in Index \ {i} : list'.entries[j].timestamp = list.entries[j].timestamp
      BY <1>1, PushedInOrder DEF Push, IInv, TypeOK
    <2>2. \A j \in Index : Since'[j] = IF j = i THEN now ELSE Since[j]
      BY <2>1 DEF Since, Queued
    <2>3. Since' = [Since EXCEPT ![i] = now]
      BY <2>2 DEF Since
    <2>4. Deadlines!Push(i)
      BY <1>1, <2>3 DEF Push, Deadlines!Push, backoffVars
    <2>5. QED
      BY <2>4 DEF Deadlines!Next
  <1>2. ASSUME NEW i \in Index, Remove(i) PROVE Deadlines!Next
    <2>0. PICK rank \in [Index -> Int] : OrderedBy(list, rank)
      BY DEF IInv, InOrder
    <2>1. /\ list' \in Lists /\ Queued(list') = Queued(list) \ {i}
          /\ \A j \in Index \ {i} : list'.entries[j].timestamp = list.entries[j].timestamp
      BY <1>0, <1>2, <2>0, UnlinkedOrdered DEF Remove
    <2>2. \A j \in Index : Since'[j] = IF j = i THEN None ELSE Since[j]
      BY <2>1 DEF Since, Queued
    <2>3. Since' = [Since EXCEPT ![i] = None]
      BY <2>2 DEF Since
    <2>4. Deadlines!Remove(i)
      BY <1>2, <2>3 DEF Remove, Deadlines!Remove, backoffVars
    <2>5. QED
      BY <2>4 DEF Deadlines!Next
  <1>3. ASSUME Check PROVE Deadlines!Next
    <2>1. Since' = Since /\ now' = now
      BY <1>3 DEF Check, Since
    <2>2. CASE TailExpired
      <3>1. /\ list.tail \in Queued(list)
            /\ \A i \in Queued(list) :
                 list.entries[list.tail].timestamp <= list.entries[i].timestamp
        BY <2>2, TailIsOldest DEF TailExpired
      <3>2. Deadlines!Longest(list.tail) /\ Deadlines!Expired(list.tail)
        BY <2>2, <3>1, SinceIsList
           DEF TailExpired, Deadlines!Longest, Deadlines!Expired, Deadlines!Elapsed
      <3>3. timeout' \in {timeout, 2 * timeout} /\ result' = list.tail
        BY <1>3, <2>2 DEF Check, Backoff
      <3>4. Deadlines!Report
        BY <1>0, <2>1, <3>1, <3>2, <3>3 DEF Deadlines!Report
      <3>5. QED
        BY <3>4 DEF Deadlines!Next
    <2>3. CASE ~TailExpired
      <3>1. ASSUME NEW i \in Index PROVE ~Deadlines!Expired(i)
        <4> SUFFICES ASSUME i \in Queued(list)
                     PROVE  ~((now - Since[i]) \div Ms > timeout)
          BY SinceIsList DEF Deadlines!Expired, Deadlines!Elapsed
        <4> DEFINE k == list.tail
        <4>1. k # None /\ k \in Queued(list) /\ Since[k] <= Since[i]
          BY TailIsOldest, SinceIsList
        <4>2. ~((now - Since[k]) \div Ms > timeout)
          BY <2>3, <4>1, SinceIsList DEF TailExpired
        <4>3. /\ Since[k] \in Int /\ Since[i] \in Int /\ now \in Int /\ timeout \in Int
              /\ Ms \in Int /\ 0 < Ms
          BY <1>0, <4>1, SinceIsList, QueueAssumption
        <4>4. (now - Since[i]) \div Ms <= (now - Since[k]) \div Ms
          BY <4>1, <4>3, DivMonotone
        <4>5. QED
          BY <4>2, <4>3, <4>4
      <3>2. result' = None /\ timeout' = timeout
        BY <1>3, <2>3 DEF Check, backoffVars
      <3>3. Deadlines!NoReport
        BY <2>1, <3>1, <3>2 DEF Deadlines!NoReport
      <3>4. QED
        BY <3>3 DEF Deadlines!Next
    <2>4. QED
      BY <2>2, <2>3
  <1>4. ASSUME Tick PROVE Deadlines!Next
    <2>1. Deadlines!Tick
      BY <1>4 DEF Tick, Deadlines!Tick, backoffVars, Since
    <2>2. QED
      BY <2>1 DEF Deadlines!Next
  <1>5. CASE UNCHANGED vars
    BY <1>5 DEF vars, Deadlines!deadlineVars, Since
  <1>6. QED
    BY <1>1, <1>2, <1>3, <1>4, <1>5 DEF Next

\* The queue reports an entry that waits longest, and none only when none has
\* waited longer than the timeout, although Check looks at the tail alone.
THEOREM Refinement == Spec => ImplementsDeadlines
  <1>1. Spec => Deadlines!Init /\ [][Deadlines!Next]_(Deadlines!deadlineVars)
    BY QueueInvariant, InitRefines, StepRefines, PTL DEF Spec
  <1>2. QED
    BY <1>1 DEF ImplementsDeadlines, Deadlines!Spec
=============================================================================
