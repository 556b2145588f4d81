---------------------------- MODULE TimeoutQueue ----------------------------
(***************************************************************************)
(* The timeout queue of an RDMA worker thread (rdma_timeout_queue.cc): an   *)
(* array of entries, one per queue pair, threaded into a doubly linked      *)
(* list.  The head is the entry pushed last; the list is meant to be        *)
(* ordered by time, so that only the tail has to be checked.  The timeout   *)
(* doubles as timeouts pile up.                                             *)
(* The worker thread pushes a queue pair when it posts a message, removes   *)
(* it when the result is there, and checks once per turn of its loop.       *)
(***************************************************************************)
EXTENDS Integers

CONSTANTS N,           \* entries: queue pairs of the thread
          Ms,          \* units of the clock per millisecond
          Timeout,     \* initial timeout in milliseconds
          Threshold,   \* timeouts before the first doubling
          Increment,   \* what each doubling adds to the threshold
          MaxTime,     \* bound: the clock stops there
          MaxReports   \* bound on the timeouts reported

ASSUME QueueAssumption ==
  /\ N \in Nat /\ Ms \in Nat \ {0}
  /\ Timeout \in Nat /\ Threshold \in Nat /\ Increment \in Nat
  /\ MaxTime \in Nat /\ MaxReports \in Nat

Index == 0 .. N - 1
None  == -1

VARIABLES
  list,        \* entries_, head_ and tail_
  timeout,     \* timeout_
  counter,     \* timeouts_counter_
  threshold,   \* timeouts_threshold_
  now,         \* switchml::clock::now(), a steady clock
  result,      \* what the last Check returned
  reported     \* timeouts ever reported (history)

backoffVars == <<timeout, counter, threshold, reported>>
vars == <<list, timeout, counter, threshold, now, result, reported>>

TQEntry == [valid : BOOLEAN, next : Index \cup {None},
            previous : Index \cup {None}, timestamp : Nat]
NewEntry == [valid |-> FALSE, next |-> None, previous |-> None, timestamp |-> 0]

Init == /\ list = [entries |-> [i \in Index |-> NewEntry],
                   head |-> None, tail |-> None]
        /\ timeout = Timeout
        /\ counter = 0
        /\ threshold = Threshold
        /\ now = 0
        /\ result = None
        /\ reported = 0

-----------------------------------------------------------------------------
\* The entries after the neighbours of i are linked to each other.
Bypassed(l, i) ==
  LET e == l.entries[i] IN
  [j \in Index |-> [l.entries[j] EXCEPT
      !.next     = IF j = e.previous THEN e.next ELSE @,
      !.previous = IF j = e.next THEN e.previous ELSE @]]

\* Mutation: Remove forgets to move the tail.
UnlinkedTailBug(l, i) ==
  LET e == l.entries[i] IN
  IF ~e.valid THEN l ELSE
  [entries |-> [Bypassed(l, i) EXCEPT
                  ![i] = [e EXCEPT !.valid = FALSE, !.next = None, !.previous = None]],
   head |-> IF l.head = i THEN e.next ELSE l.head,
   tail |-> l.tail]

\* The list without entry i.
Unlinked(l, i) ==
  LET e == l.entries[i] IN
  IF ~e.valid THEN l ELSE
  [entries |-> [Bypassed(l, i) EXCEPT
                  ![i] = [e EXCEPT !.valid = FALSE, !.next = None, !.previous = None]],
   head |-> IF l.head = i THEN e.next ELSE l.head,
   tail |-> IF l.tail = i THEN e.previous ELSE l.tail]

\* Mutation: Push stores the deadline instead of the time of the push.
LinkedDeadlineBug(l, i, t) ==
  [entries |-> [j \in Index |->
      IF j = i
      THEN [valid |-> TRUE, next |-> l.head, previous |-> None,
            timestamp |-> t + Ms * Timeout]
      ELSE [l.entries[j] EXCEPT !.previous = IF j = l.head THEN i ELSE @]],
   head |-> i,
   tail |-> IF l.tail = None THEN i ELSE l.tail]

\* Entry i, which is not in the list, put at its head.
Linked(l, i, t) ==
  [entries |-> [j \in Index |->
      IF j = i
      THEN [valid |-> TRUE, next |-> l.head, previous |-> None, timestamp |-> t]
      ELSE [l.entries[j] EXCEPT !.previous = IF j = l.head THEN i ELSE @]],
   head |-> i,
   tail |-> IF l.tail = None THEN i ELSE l.tail]

\* A push that is older than the head ends the program.
OutOfOrder(t) == list.head # None /\ t < list.entries[list.head].timestamp

\* Mutation: a second push of an index leaves its entry where it is.
PushKeepsBug(i) ==
  /\ list' = IF list.entries[i].valid
             THEN [list EXCEPT !.entries[i].timestamp = now]
             ELSE Linked(list, i, now)
  /\ UNCHANGED <<now, result, backoffVars>>

Push(i) == /\ ~OutOfOrder(now)
           /\ list' = Linked(Unlinked(list, i), i, now)
           /\ UNCHANGED <<now, result, backoffVars>>

Remove(i) == /\ list' = Unlinked(list, i)
             /\ UNCHANGED <<now, result, backoffVars>>

TailExpired == /\ list.tail # None
               /\ (now - list.entries[list.tail].timestamp) \div Ms > timeout

\* Mutation: the counter is not started again, so that every timeout from then
\* on doubles.
BackoffNoResetBug ==
  IF counter + 1 > threshold
  THEN /\ timeout' = 2 * timeout
       /\ threshold' = threshold + Increment
       /\ UNCHANGED counter
  ELSE /\ counter' = counter + 1
       /\ UNCHANGED <<timeout, threshold>>

\* The counter has passed the threshold: start again with twice the timeout.
Backoff == IF counter + 1 > threshold
           THEN /\ counter' = 0
                /\ timeout' = 2 * timeout
                /\ threshold' = threshold + Increment
           ELSE /\ counter' = counter + 1
                /\ UNCHANGED <<timeout, threshold>>

Check == /\ reported < MaxReports
         /\ IF TailExpired
            THEN /\ result' = list.tail
                 /\ reported' = reported + 1
                 /\ Backoff
            ELSE /\ result' = None
                 /\ UNCHANGED backoffVars
         /\ UNCHANGED <<list, now>>

Tick == /\ now < MaxTime
        /\ now' = now + 1
        /\ UNCHANGED <<list, result, backoffVars>>

Next == \/ \E i \in Index : Push(i) \/ Remove(i)
        \/ Check
        \/ Tick

Spec == Init /\ [][Next]_vars

-----------------------------------------------------------------------------
(* Properties.                                                              *)

Queued(l) == {i \in Index : l.entries[i].valid}

\* An entry that is not in the list has no links.
Lists == {l \in [entries : [Index -> TQEntry], head : Index \cup {None},
                 tail : Index \cup {None}] :
            \A i \in Index \ Queued(l) : /\ l.entries[i].next = None
                                        /\ l.entries[i].previous = None}

\* Type invariant.
TypeOK == /\ list \in Lists
          /\ timeout \in Nat /\ counter \in Nat /\ threshold \in Nat
          /\ now \in Nat /\ reported \in Nat
          /\ result \in Index \cup {None}

\* j follows i, from the newest to the oldest, in the order given by rank.
Follows(l, rank, i, j) ==
  /\ i \in Queued(l) /\ j \in Queued(l) /\ rank[j] < rank[i]
  /\ \A k \in Queued(l) : ~(rank[j] < rank[k] /\ rank[k] < rank[i])

Oldest(l, rank, i) == i \in Queued(l) /\ \A j \in Queued(l) : rank[i] <= rank[j]
Newest(l, rank, i) == i \in Queued(l) /\ \A j \in Queued(l) : rank[j] <= rank[i]

LinksFollow(l, rank) ==
  \A i \in Queued(l) :
    LET e == l.entries[i] IN
    /\ IF e.next = None THEN Oldest(l, rank, i) ELSE Follows(l, rank, i, e.next)
    /\ IF e.previous = None THEN Newest(l, rank, i)
                            ELSE Follows(l, rank, e.previous, i)

EndsFollow(l, rank) ==
  /\ IF l.head = None THEN Queued(l) = {} ELSE Newest(l, rank, l.head)
  /\ IF l.tail = None THEN Queued(l) = {} ELSE Oldest(l, rank, l.tail)

RanksFollowTime(l, rank) ==
  \A i, j \in Queued(l) :
    /\ rank[i] = rank[j] => i = j
    /\ rank[i] <= rank[j] => l.entries[i].timestamp <= l.entries[j].timestamp

\* The links and the ends of the list are those of its entries in the order of
\* rank, and that order never disagrees with their timestamps.
OrderedBy(l, rank) ==
  LinksFollow(l, rank) /\ EndsFollow(l, rank) /\ RanksFollowTime(l, rank)

Ordered(Ranks) == \E rank \in [Index -> Ranks] : OrderedBy(list, rank)

\* Push, Remove and Check keep one doubly linked list of all entries that wait,
\* ordered by the time they were pushed at: no removal from the middle or an
\* end, and no second push of an index, breaks a link or the order
\* (rdma_timeout_queue.cc:55-114).
ListInOrder == Ordered(0 .. N)

\* The fatal check of Push never fires: the clock is steady and entries are
\* pushed with the time of the push (rdma_timeout_queue.cc:57).
PushInOrder == ~OutOfOrder(now)

\* The entries have their shape and are all in the past, so that Push never ends
\* the program and Check never subtracts a later time.
Consistent == TypeOK /\ PushInOrder

\* Twice the timeouts that d doublings ask for: the thresholds of their moments.
Asked(d) == 2 * d * Threshold + Increment * d * (d - 1)

\* Every doubling of the timeout is paid for by the timeouts since the one
\* before: as many as the threshold of its moment and at most one more, none
\* lost or counted twice, and none of them left unspent
\* (rdma_timeout_queue.cc:120-129).  The comments do not say which: the timeout
\* doubles when the counter "reaches" the threshold (rdma_timeout_queue.h:141)
\* or once the timeouts "exceed" it (rdma_timeout_queue.cc:125).  The code needs
\* the one more; the property leaves it open.
BackoffIsPaid ==
  \E d \in 0 .. reported :
    /\ threshold = Threshold + d * Increment
    /\ timeout = Timeout * 2^d
    /\ Asked(d) <= 2 * (reported - counter)
    /\ 2 * (reported - counter) <= Asked(d) + 2 * d
    /\ counter <= threshold

Since == [i \in Index |-> IF list.entries[i].valid
                         THEN list.entries[i].timestamp ELSE None]

Deadlines == INSTANCE DeadlineQueue
               WITH Index <- Index, Never <- None, Nothing <- None, Ms <- Ms,
                    since <- Since, now <- now, timeout <- timeout,
                    result <- result

\* A check of the tail alone does what a check of all entries would: it
\* reports an entry that waits longest once it waits longer than the timeout,
\* and nothing only when no entry does (rdma_timeout_queue.cc:116-135).
ImplementsDeadlines == Deadlines!Spec
=============================================================================
