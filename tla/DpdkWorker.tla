----------------------------- MODULE DpdkWorker -----------------------------
(***************************************************************************)
(* The worker threads of the DPDK backend, running the slices of one job     *)
(* after another through N slots of the switch: packet ids and pool indexes, *)
(* the receive bitmap, the retransmission timers with their callback         *)
(* arguments, and the shift by which a slice continues where the last one     *)
(* stopped.  One worker thread per worker; threads share nothing.            *)
(*                                                                          *)
(* The switch answers a packet in one step here.  That its answer is the     *)
(* same when the pipeline passes of several packets interleave, and that it  *)
(* does not depend on which pass reads which half, is shown in SlotProtocol. *)
(*                                                                          *)
(* Links deliver a worker's packets in order and its results in any order;   *)
(* they lose either.                                                        *)
(***************************************************************************)
EXTENDS SwitchPipeline, Sequences, SequencesExt

CONSTANTS
  N,              \* max_outstanding_pkts: slots (and timers) of a thread
  Slices,         \* the slices of the jobs, in order: [pkts, extra], the number
                  \* of main packets and whether the prepostprocessor asks for
                  \* an extra batch
  ShortIds,       \* job ids the switchml header tells apart (2^8)
  FirstBatchSafe, \* TRUE in an instance where the first batch of every slice gets
                  \* through before its timers, which are N times longer, run out
  MaxInFlight     \* bound: timers fire only while fewer packets of the worker
                  \* are on the way to the switch

ASSUME DpdkAssumption ==
  /\ N \in Nat \ {0}
  /\ Slices \in Seq([pkts : Nat \ {0}, extra : BOOLEAN])
  /\ ShortIds \in Nat \ {0}
  /\ FirstBatchSafe \in BOOLEAN
  /\ MaxInFlight \in Nat \ {0}

VARIABLES
  \* the worker threads
  job,       \* job[w]: the job whose slice w runs, or ran last
  running,   \* running[w]: w is inside the receive loop of job[w]
  shift,     \* switch_pool_index_shift
  received,  \* the rte_bitmap of the slice: packets received
  out,       \* results stored: [job, pkt, val]
  timers,    \* timers[w][i]: timer i is armed
  args,      \* resend_pkt_cb_args[i]
  misfired,  \* history: a timer of a first batch has run out
  \* the links
  up,        \* up[w]: packets of w, in order
  down,      \* down[w]: results for w
  \* the switch
  bitmap, count, value

workerVars == <<job, running, shift, received, out, timers, args, misfired>>
switchVars == <<bitmap, count, value>>
vars       == <<workerVars, up, down, switchVars>>

JobIds == 1 .. Len(Slices)
Slots  == 0 .. N - 1

Batch(j) == IF N < Slices[j].pkts THEN N ELSE Slices[j].pkts
Total(j) == Slices[j].pkts + IF Slices[j].extra THEN Batch(j) ELSE 0

\* Packet ids a slice or its timers may name: one more than it has.
PktIds   == 0 .. Max({Total(j) : j \in JobIds})
Contribs == Workers \X JobIds \X PktIds
Zero     == [c \in Contribs |-> 0]
Unit(d)  == [Zero EXCEPT ![d] = 1]

\* What the result of packet k of job j has to be.
Reduced(j, k) == [c \in Contribs |-> IF c[2] = j /\ c[3] = k THEN 1 ELSE 0]

PktId2PoolIndexBug(k, sh) ==
  LET i == (k + sh) % (2 * N) IN [slot |-> i \div 2, set |-> i % 2]

\* Slot and set of packet k.
PktId2PoolIndex(k, sh) ==
  LET i == (k + sh) % (2 * N) IN [slot |-> i % N, set |-> i \div N]

Pool     == [slot : Slots, set : Sets]
Args     == [job : JobIds, pkt : PktIds, pool : Pool, long : BOOLEAN]
NoArgs   == [job |-> 0]

\* The job id as the header carries it: its 8 least significant bits.
ShortId(j) == j % ShortIds

\* "job", beside the short id, says which job a packet or result belongs to; it
\* does not travel, and no action of a thread or of the switch looks at it.
Packet  == [short_job_id : 0 .. ShortIds - 1, job : JobIds, pkt : PktIds,
            pool : Pool, data : Contribs]
Message == [short_job_id : 0 .. ShortIds - 1, job : JobIds, pkt : PktIds,
            val : [Contribs -> Nat]]
Result  == [job : JobIds, pkt : PktIds, val : [Contribs -> Nat]]

TypeOK ==
  /\ job \in [Workers -> 0 .. Len(Slices)]
  /\ running \in [Workers -> BOOLEAN]
  /\ shift \in [Workers -> 0 .. 2 * N - 1]
  /\ received \in [Workers -> SUBSET PktIds]
  /\ out \in [Workers -> SUBSET Result]
  /\ timers \in [Workers -> [Slots -> BOOLEAN]]
  /\ args \in [Workers -> [Slots -> Args \cup {NoArgs}]]
  /\ misfired \in BOOLEAN
  /\ up \in [Workers -> Seq(Packet)]
  /\ down \in [Workers -> SUBSET Message]
  /\ bitmap \in [Slots -> [Sets -> SUBSET Workers]]
  /\ count \in [Slots -> [Sets -> 0 .. NumWorkers - 1]]
  /\ value \in [Slots -> [Sets -> [Contribs -> Nat]]]

Init ==
  /\ job = [w \in Workers |-> 0]
  /\ running = [w \in Workers |-> FALSE]
  /\ shift = [w \in Workers |-> 0]
  /\ received = [w \in Workers |-> {}]
  /\ out = [w \in Workers |-> {}]
  /\ timers = [w \in Workers |-> [i \in Slots |-> FALSE]]
  /\ args = [w \in Workers |-> [i \in Slots |-> NoArgs]]
  /\ misfired = FALSE
  /\ up = [w \in Workers |-> <<>>]
  /\ down = [w \in Workers |-> {}]
  /\ bitmap = [i \in Slots |-> [s \in Sets |-> {}]]
  /\ count = [i \in Slots |-> [s \in Sets |-> 0]]
  /\ value = [i \in Slots |-> [s \in Sets |-> Zero]]

-----------------------------------------------------------------------------
(* The worker thread *)

\* BuildPacket takes the header from its arguments and the data from the slice
\* the thread works on now.
BuildPacket(w, j, k, pool) ==
  [short_job_id |-> ShortId(j), job |-> j, pkt |-> k, pool |-> pool,
   data |-> <<w, job'[w], k>>]

\* A new slice: build the first batch, arm a timer per packet, send the batch.
\* The packet id is incremented before the timer's index and arguments are
\* taken from it, the pool index was computed before.
StartSlice(w) ==
  /\ ~running[w] /\ job[w] < Len(Slices)
  /\ job' = [job EXCEPT ![w] = @ + 1]
  /\ LET j      == job[w] + 1
         pkts   == [k \in 1 .. Batch(j) |->
                      BuildPacket(w, j, k - 1, PktId2PoolIndex(k - 1, shift[w]))]
         armed  == {k % N : k \in 1 .. Batch(j)}
         PktOf(i) == CHOOSE k \in 1 .. Batch(j) : k % N = i
     IN /\ up' = [up EXCEPT ![w] = @ \o pkts]
        /\ timers' = [timers EXCEPT ![w] = [i \in Slots |-> @[i] \/ i \in armed]]
        /\ args' = [args EXCEPT ![w] = [i \in Slots |->
                      IF i \in armed
                      THEN [job |-> j, pkt |-> PktOf(i), long |-> TRUE,
                            pool |-> PktId2PoolIndex(PktOf(i) - 1, shift[w])]
                      ELSE @[i]]]
  /\ running' = [running EXCEPT ![w] = TRUE]
  /\ received' = [received EXCEPT ![w] = {}]
  /\ UNCHANGED <<shift, out, misfired, down, switchVars>>

InLoop(w) == running[w] /\ Cardinality(received[w]) < Total(job[w])

\* Timer i runs out (rte_timer_manage): ResendPacketCallback sends what the
\* arguments name and arms the timer again, with the normal period.
Timeout(w, i) ==
  /\ InLoop(w) /\ timers[w][i]
  /\ ~(FirstBatchSafe /\ args[w][i].long)
  /\ Len(up[w]) < MaxInFlight
  /\ UNCHANGED job
  /\ LET a == args[w][i]
     IN up' = [up EXCEPT ![w] = Append(@, BuildPacket(w, a.job, a.pkt, a.pool))]
  /\ args' = [args EXCEPT ![w][i].long = FALSE]
  /\ misfired' = (misfired \/ args[w][i].long)
  /\ UNCHANGED <<running, shift, received, out, timers, down, switchVars>>

ArgsForBug(w, k) ==
  [job |-> job[w], pkt |-> k, pool |-> PktId2PoolIndex(k - N, shift[w]), long |-> FALSE]

ArgsFor(w, k) ==
  [job |-> job[w], pkt |-> k, pool |-> PktId2PoolIndex(k, shift[w]), long |-> FALSE]

IsNewBug(w, m) == m.pkt \notin received[w]

\* Not marked in the bitmap, and with the short id of the job the thread works on.
IsNew(w, m) == m.pkt \notin received[w] /\ m.short_job_id = ShortId(job[w])

\* Store the result, stop its timer, and send the next packet that uses the
\* slot, if there is one.
Accept(w, m) ==
  /\ IsNew(w, m)
  /\ out' = [out EXCEPT ![w] = @ \cup {[job |-> job[w], pkt |-> m.pkt, val |-> m.val]}]
  /\ received' = [received EXCEPT ![w] = @ \cup {m.pkt}]
  /\ LET next == m.pkt + Batch(job[w])
         i    == next % N
         a    == ArgsFor(w, next)
     IN IF next < Total(job[w])
        THEN /\ up' = [up EXCEPT ![w] = Append(@, BuildPacket(w, job[w], next, a.pool))]
             /\ timers' = [timers EXCEPT ![w][i] = TRUE]
             /\ args' = [args EXCEPT ![w][i] = a]
        ELSE /\ timers' = [timers EXCEPT ![w][i] = FALSE]
             /\ UNCHANGED <<up, args>>

Discard(w, m) ==
  /\ ~IsNew(w, m)
  /\ UNCHANGED <<out, received, up, timers, args>>

\* The network holds no result back until its short id comes round again.
Recent(w, m) == job[w] < m.job + ShortIds

Receive(w, m) ==
  /\ running[w] /\ m \in down[w] /\ Recent(w, m)
  /\ down' = [down EXCEPT ![w] = @ \ {m}]
  /\ UNCHANGED job
  /\ Accept(w, m) \/ Discard(w, m)
  /\ UNCHANGED <<running, shift, misfired, switchVars>>

FinishSliceBug(w) ==
  /\ running[w] /\ Cardinality(received[w]) >= Total(job[w])
  /\ shift' = [shift EXCEPT ![w] = 0]
  /\ running' = [running EXCEPT ![w] = FALSE]
  /\ UNCHANGED <<job, received, out, timers, args, misfired, up, down, switchVars>>

\* Everything received: remember where the next slice has to continue.
FinishSlice(w) ==
  /\ running[w] /\ Cardinality(received[w]) >= Total(job[w])
  /\ shift' = [shift EXCEPT ![w] = (@ + Total(job[w])) % (2 * N)]
  /\ running' = [running EXCEPT ![w] = FALSE]
  /\ UNCHANGED <<job, received, out, timers, args, misfired, up, down, switchVars>>

-----------------------------------------------------------------------------
(* The switch and the links *)

\* Both pipeline passes of the next packet of w.
Switch(w) ==
  /\ up[w] # <<>>
  /\ LET p      == Head(up[w])
         i      == p.pool.slot
         s      == p.pool.set
         before == bitmap[i][s]
         seen   == MapResult(before, w)
         flag   == FirstLastFlag(count[i][s], seen)
         sum    == RegisterAfter(before, seen, value[i][s], Unit(p.data))
         step   == IF NextStepConsume0(flag, seen) = "recirculate_for_HARVEST7"
                   THEN NextStepHarvest7(flag, seen) ELSE "drop"
         m      == [short_job_id |-> p.short_job_id, job |-> p.job, pkt |-> p.pkt,
                    val |-> sum]
     IN /\ bitmap' = [bitmap EXCEPT ![i] = UpdateBitmap(@, w, s)]
        /\ count' = [count EXCEPT ![i][s] = CountAfter(@, seen)]
        /\ value' = [value EXCEPT ![i][s] = sum]
        /\ down' = [v \in Workers |->
                      IF step = "broadcast" \/ (step = "retransmit" /\ v = w)
                      THEN down[v] \cup {m} ELSE down[v]]
  /\ up' = [up EXCEPT ![w] = Tail(@)]
  /\ UNCHANGED workerVars

\* A packet or result that may get lost in this instance.
MayLose(j, k) == ~FirstBatchSafe \/ k >= Batch(j)

\* (A packet that gets lost on the way is lost when its turn comes.)
LoseUplink(w) ==
  /\ up[w] # <<>> /\ MayLose(Head(up[w]).job, Head(up[w]).pkt)
  /\ up' = [up EXCEPT ![w] = Tail(@)]
  /\ UNCHANGED <<workerVars, down, switchVars>>

LoseDownlink(w) ==
  /\ \E m \in down[w] : /\ MayLose(m.job, m.pkt)
                        /\ down' = [down EXCEPT ![w] = @ \ {m}]
  /\ UNCHANGED <<workerVars, up, switchVars>>

-----------------------------------------------------------------------------

Finished(w) == job[w] = Len(Slices) /\ ~running[w]

Done == /\ \A w \in Workers : Finished(w)
        /\ UNCHANGED vars

Next ==
  \/ \E w \in Workers :
       \/ StartSlice(w) \/ FinishSlice(w) \/ Switch(w)
       \/ LoseUplink(w) \/ LoseDownlink(w)
       \/ \E i \in Slots : Timeout(w, i)
       \/ \E m \in down[w] : Receive(w, m)
  \/ Done

Spec == Init /\ [][Next]_vars

\* Threads run, every armed timer fires again and again, the switch takes what
\* reaches it, results arrive, and losses end some time.
Fairness ==
  /\ \A w \in Workers :
       /\ WF_vars(StartSlice(w)) /\ WF_vars(FinishSlice(w)) /\ WF_vars(Switch(w))
       /\ \A i \in Slots : SF_vars(Timeout(w, i))
       /\ \A k \in PktIds :
            WF_vars(\E m \in down[w] : m.pkt = k /\ m.job = job[w] /\ Receive(w, m))
  /\ <>[][\A w \in Workers : /\ LoseUplink(w) => Switch(w)
                             /\ LoseDownlink(w) => \E m \in down[w] : Receive(w, m)]_vars

FairSpec == Spec /\ Fairness

-----------------------------------------------------------------------------
(* Properties *)

\* Packet k + Batch(j) of slice j uses the slot and the timer of packet k.  This
\* is not so when the slice has an extra batch and its main packets do not fill
\* the window: then a packet may share the slot, and stop the timer, of another
\* one that is still outstanding.
FullWindow(j) == Slices[j].extra => Slices[j].pkts >= N

\* What the safety properties are about: no timer of a first batch has run out so
\* far (it would send a packet to the slot of another one), and the slices so far
\* keep to a full window.
Regular == ~misfired /\ \A w \in Workers : \A j \in 1 .. job[w] : FullWindow(j)

\* What a worker stores as the result of a packet of a job is exactly one
\* contribution of every worker to that packet of that job, although slots and
\* short job ids are reused (short job id and duplicate checks, pool indexes, shift).
ResultsExact ==
  Regular => \A w \in Workers : \A r \in out[w] : r.val = Reduced(r.job, r.pkt)

\* The packets of a slice a worker has sent but has no result for.
Outstanding(w) ==
  {k \in 0 .. Total(job[w]) - 1 :
     /\ k \notin received[w]
     /\ k < Batch(job[w]) \/ k - Batch(job[w]) \in received[w]}

\* No two outstanding packets of a worker share a slot of the switch: one of
\* them would clear the worker's bit under the other.
OnePacketPerSlot ==
  Regular => \A w \in Workers : running[w] =>
    \A k, l \in Outstanding(w) :
      k # l => PktId2PoolIndex(k, shift[w]).slot # PktId2PoolIndex(l, shift[w]).slot

\* A timer that was armed after a first batch, and may fire, resends a packet its
\* worker still waits for, with that packet's own pool index, and no such timer of an
\* earlier slice is left.
TimersResendOutstanding ==
  Regular => \A w \in Workers : InLoop(w) =>
    \A i \in Slots :
      LET a == args[w][i]
      IN (timers[w][i] /\ ~a.long) =>
           /\ a.job = job[w] /\ a.pkt \in Outstanding(w)
           /\ a.pool = PktId2PoolIndex(a.pkt, shift[w])

\* Between slices, the next batch of a worker meets the sets of its slots that
\* do not hold the worker's bit: the switch will take none of its packets for
\* a retransmission (the shift of the pool index).
NextBatchIsNew ==
  \A w \in Workers : (~running[w] /\ up[w] = <<>>) =>
    \A k \in 0 .. N - 1 :
      LET p == PktId2PoolIndex(k, shift[w])
      IN w \notin bitmap[p.slot][p.set]

\* The state has its shape, and the shift of the pool index is in step with the
\* bitmaps of the switch, within a slice and after it.
Consistent == TypeOK /\ (Regular => NextBatchIsNew)

\* A timeout sends again a packet the worker waits for, to that packet's own
\* pool index (ResendPacketCallback: "rebuild and resend a packet").
TimeoutsResend ==
  [][\A w \in Workers, i \in Slots :
       Timeout(w, i) =>
         LET p == Last(up'[w])
         IN p.pkt \in Outstanding(w) /\ p.pool = PktId2PoolIndex(p.pkt, shift[w])]_vars

\* Every slice of every job completes on every worker.
AllJobsComplete == <>(\A w \in Workers : Finished(w))

=============================================================================
