---------------------------- MODULE SlotProtocol ----------------------------
(***************************************************************************)
(* The reliability protocol of one aggregation slot: the workers of a job   *)
(* stream packets 0 .. LastPkt through one slot of the switch (packet k uses *)
(* set k % 2), resending the packet they wait for whenever their timer      *)
(* fires, over links that lose messages.                                    *)
(*                                                                          *)
(* The worker side is the DPDK worker thread seen from one of its slots: at  *)
(* most one packet is outstanding, receiving its result stops the timer,    *)
(* and the received buffer is reused for the next packet of the slot.       *)
(* Timers may fire early, so a packet may be resent whether or not it or    *)
(* its result was lost.  A timer names the packet its slot waits for, as it  *)
(* does after the first batch of a slice; which packet the timers of the     *)
(* first batch name, and how slices share slots, is DpdkWorker's subject.    *)
(*                                                                          *)
(* Links: a worker's packets reach the switch in the order they were sent   *)
(* (one queue pair, one cable); results may be reordered on the way back.   *)
(* Either direction may lose anything at any time.                          *)
(***************************************************************************)
EXTENDS SwitchPipeline, Sequences, SequencesExt

CONSTANTS LastPkt,     \* packets are numbered 0 .. LastPkt
          MaxInFlight  \* bound: a timer resends only while fewer packets of the
                       \* worker are on the way to or inside the switch

ASSUME BoundsAssumption == LastPkt \in Nat /\ MaxInFlight \in Nat \ {0}

VARIABLES
  \* the workers
  cur,      \* cur[w]: the packet w waits for
  out,      \* out[w][k]: the result w accepted for packet k
  \* the links
  up,       \* up[w]: packets from w to the switch, in order
  down,     \* down[w]: results on their way to w
  \* the slot's registers
  bitmap,   \* bitmap[s]: workers whose packet set s has seen
  count,    \* count[s]: workers still missing in set s
  value,    \* value[s]: what set s has summed up
  recirc,   \* the recirculation port: packets between CONSUME0 and HARVEST7
  \* history, read by BroadcastOnce alone
  broadcasted \* packets HARVEST7 has broadcast, delivered or lost since

workerVars == <<cur, out>>
switchVars == <<bitmap, count, value, recirc, broadcasted>>
vars       == <<cur, out, up, down, bitmap, count, value, recirc, broadcasted>>

Stream == INSTANCE AllReduceStream
            WITH Workers <- Workers, LastPkt <- LastPkt, cur <- cur, out <- out

Pkts       == Stream!Pkts
Contribs   == Stream!Contribs
NotStarted == Stream!NotStarted
SetOf(k)   == k % 2

\* What worker w puts in packet k.
Payload(w, k) == [c \in Contribs |-> IF c = <<w, k>> THEN 1 ELSE 0]

RecircPkt == [w : Workers, k : Pkts, flag : Nat, seen : BOOLEAN,
              hi : [Contribs -> Nat]]
ResultPkt == [k : Pkts, hi : [Contribs -> Nat], lo : [Contribs -> Nat]]

TypeOK ==
  /\ cur \in [Workers -> NotStarted .. LastPkt + 1]
  /\ out \in [Workers -> [Pkts -> [hi : [Contribs -> Nat], lo : [Contribs -> Nat]]]]
  /\ up \in [Workers -> Seq(Pkts)]
  /\ down \in [Workers -> SUBSET ResultPkt]
  /\ bitmap \in [Sets -> SUBSET Workers]
  /\ count \in [Sets -> 0 .. NumWorkers - 1]
  /\ value \in [Sets -> [Contribs -> Nat]]
  /\ recirc \in Seq(RecircPkt)
  /\ broadcasted \in SUBSET Pkts

Init ==
  /\ Stream!Init
  /\ up = [w \in Workers |-> <<>>]
  /\ down = [w \in Workers |-> {}]
  /\ bitmap = [s \in Sets |-> {}]
  /\ count = [s \in Sets |-> 0]
  /\ value = [s \in Sets |-> Stream!Zero]
  /\ recirc = <<>>
  /\ broadcasted = {}

-----------------------------------------------------------------------------
(* The workers *)

\* The first batch of a job slice.
SendFirst(w) ==
  /\ cur[w] = NotStarted
  /\ cur' = [cur EXCEPT ![w] = 0]
  /\ up' = [up EXCEPT ![w] = Append(@, 0)]
  /\ UNCHANGED <<out, down, switchVars>>

\* Packets of w the switch has not answered or dropped yet.
InFlight(w) == Len(up[w]) + Cardinality({i \in DOMAIN recirc : recirc[i].w = w})

\* ResendPacketCallback: rebuild the outstanding packet and send it again.
Timeout(w) ==
  /\ cur[w] \in Pkts
  /\ InFlight(w) < MaxInFlight
  /\ up' = [up EXCEPT ![w] = Append(@, cur[w])]
  /\ UNCHANGED <<cur, out, down, switchVars>>

\* A result the worker's bitmap has not marked yet: store it, stop the timer
\* and reuse the buffer for the next packet of the slot, if there is one.
Accept(w, m) ==
  /\ m.k >= cur[w]
  /\ out' = [out EXCEPT ![w][m.k] = Stream!Result(m.hi, m.lo)]
  /\ cur' = [cur EXCEPT ![w] = m.k + 1]
  /\ up' = IF m.k + 1 \in Pkts THEN [up EXCEPT ![w] = Append(@, m.k + 1)] ELSE up

\* A duplicate: already marked in the worker's bitmap.
Discard(w, m) ==
  /\ m.k < cur[w]
  /\ UNCHANGED <<cur, out, up>>

Receive(w) ==
  \E m \in down[w] :
    /\ down' = [down EXCEPT ![w] = @ \ {m}]
    /\ Accept(w, m) \/ Discard(w, m)
    /\ UNCHANGED switchVars

-----------------------------------------------------------------------------
(* The switch *)

\* Pipeline pass 1 (CONSUME0): registers are updated and read once, the second
\* half of the values leaves with the packet.
Consume(w) ==
  /\ up[w] # <<>>
  /\ LET k      == Head(up[w])
         s      == SetOf(k)
         before == bitmap[s]
         seen   == MapResult(before, w)
         flag   == FirstLastFlag(count[s], seen)
         sum    == RegisterAfter(before, seen, value[s], Payload(w, k))
     IN /\ bitmap' = UpdateBitmap(bitmap, w, s)
        /\ count' = [count EXCEPT ![s] = CountAfter(@, seen)]
        /\ value' = [value EXCEPT ![s] = sum]
        /\ recirc' = IF NextStepConsume0(flag, seen) = "recirculate_for_HARVEST7"
                     THEN Append(recirc, [w |-> w, k |-> k, flag |-> flag,
                                          seen |-> seen, hi |-> sum])
                     ELSE recirc
  /\ up' = [up EXCEPT ![w] = Tail(@)]
  /\ UNCHANGED <<workerVars, down, broadcasted>>

\* A packet in the recirculation port that HARVEST7 sends to all workers.
Broadcasts(e) == NextStepHarvest7(e.flag, e.seen) = "broadcast"

\* The head of the recirculation port leaves it.
LeaveRecirc ==
  /\ recirc # <<>>
  /\ recirc' = Tail(recirc)
  /\ broadcasted' = IF Broadcasts(Head(recirc)) THEN broadcasted \cup {Head(recirc).k}
                    ELSE broadcasted

\* Pipeline pass 2 (HARVEST7): the first half of the values is read, and the
\* result goes to every worker, to the one that resent, or nowhere.
Harvest ==
  /\ LeaveRecirc
  /\ LET e    == Head(recirc)
         m    == [k |-> e.k, hi |-> e.hi, lo |-> value[SetOf(e.k)]]
         step == NextStepHarvest7(e.flag, e.seen)
     IN down' = [v \in Workers |->
                   IF step = "broadcast" \/ (step = "retransmit" /\ v = e.w)
                   THEN down[v] \cup {m} ELSE down[v]]
  /\ UNCHANGED <<workerVars, up, bitmap, count, value>>

-----------------------------------------------------------------------------
(* Losses: on the links, by the switch's drop simulators, and at full queues *)

LoseUplink(w) ==
  /\ \E i \in 1 .. Len(up[w]) : up' = [up EXCEPT ![w] = RemoveAt(@, i)]
  /\ UNCHANGED <<workerVars, down, switchVars>>

LoseDownlink(w) ==
  /\ \E m \in down[w] : down' = [down EXCEPT ![w] = @ \ {m}]
  /\ UNCHANGED <<workerVars, up, switchVars>>

\* The egress drop simulator discards a whole broadcast, for every worker.
DropInSwitch ==
  /\ LeaveRecirc
  /\ UNCHANGED <<workerVars, up, down, bitmap, count, value>>

-----------------------------------------------------------------------------

\* A finished job stays finished; the slot waits for the next one.
Done == /\ \A w \in Workers : cur[w] = LastPkt + 1
        /\ UNCHANGED vars

Next ==
  \/ \E w \in Workers :
       SendFirst(w) \/ Timeout(w) \/ Receive(w) \/ Consume(w)
       \/ LoseUplink(w) \/ LoseDownlink(w)
  \/ Harvest
  \/ DropInSwitch
  \/ Done

Spec == Init /\ [][Next]_vars

ReceiveCurrent(w) == Receive(w) /\ cur'[w] # cur[w]
HarvestFor(w)     == Harvest /\ Head(recirc).w = w

\* Every worker submits the job, an armed timer eventually fires, and a link
\* (or the switch's queue) that one worker uses again and again does not lose
\* everything.
Fairness ==
  /\ \A w \in Workers : /\ WF_vars(SendFirst(w))
                        /\ SF_vars(Timeout(w))
                        /\ SF_vars(Consume(w))
                        /\ SF_vars(HarvestFor(w))
                        /\ SF_vars(ReceiveCurrent(w))

FairSpec == Spec /\ Fairness

-----------------------------------------------------------------------------
(* Properties *)

\* Every packet a worker has accepted is, in both halves, exactly one
\* contribution of every worker to that packet: nothing is lost, counted twice
\* or left over from an earlier packet of the slot, whatever was lost, resent
\* or late (update/check of the worker bitmap, count and value registers).
ResultsExact ==
  \A w \in Workers, k \in Pkts : k < cur[w] => out[w][k] = Stream!Reduced(k)

\* While one worker still waits for a packet that another one already has, the
\* set that aggregated it keeps the full sum, marks the waiting worker's bit
\* and reads as full: the "shadow copy" from which the switch answers a resend.
ShadowCopyHeld ==
  \A w, v \in Workers :
    (cur[w] \in Pkts /\ cur[v] > cur[w]) =>
      LET s == SetOf(cur[w])
      IN w \in bitmap[s] /\ count[s] = 0 /\ value[s] = Stream!SumOf(cur[w])

\* A set that still misses workers misses exactly those whose bit is clear, so
\* a bit cleared by the other set's traffic never leaves the count short.
CountAgreesWithBitmap ==
  \A s \in Sets :
    count[s] > 0 => /\ bitmap[s] # {}
                    /\ count[s] = NumWorkers - Cardinality(bitmap[s])

\* The bookkeeping of the switch and the workers: shapes, and the count.
Consistent == TypeOK /\ CountAgreesWithBitmap

\* A packet is broadcast at most once: its broadcast is in the recirculation
\* port only while no broadcast of it has left (whatever became of that one),
\* is the only broadcast there, and no worker has the result before.  Resends
\* are answered to their sender alone, also when the broadcast was lost.
BroadcastOnce ==
  \A i \in DOMAIN recirc : Broadcasts(recirc[i]) =>
    /\ recirc[i].k \notin broadcasted
    /\ \A w \in Workers : cur[w] <= recirc[i].k
    /\ \A j \in DOMAIN recirc \ {i} : ~Broadcasts(recirc[j])

\* The protocol implements the all-reduce stream: results are exact, in order,
\* and no worker completes a packet before all have contributed it.
ImplementsStream == Stream!Spec

\* Every worker gets every packet in the end, although links and switch lose
\* messages (ResendPacketCallback together with the switch's resends).
JobCompletes == <>(\A w \in Workers : cur[w] = LastPkt + 1)

-----------------------------------------------------------------------------
(* The inductive invariant behind ResultsExact *)

\* The last packet of w that the slot has aggregated (-1: none).
Level(w) ==
  IF cur[w] = NotStarted THEN -1
  ELSE IF w \in bitmap[SetOf(cur[w])] THEN cur[w] ELSE cur[w] - 1

Contributed(k) == {v \in Workers : Level(v) >= k}
PartialSum(k) ==
  [c \in Contribs |-> IF c[2] = k /\ c[1] \in Contributed(k) THEN 1 ELSE 0]

\* The bitmap pair records each worker's last packet, and nothing else.
BitsFollowLevels ==
  /\ \A w \in Workers : Level(w) <= LastPkt
  /\ \A w \in Workers, s \in Sets :
       w \in bitmap[s] <=> (Level(w) >= 0 /\ SetOf(Level(w)) = s)

\* Nobody is more than one packet ahead of what the slot has from anybody.
Lockstep == \A w, v \in Workers : Level(v) >= cur[w] - 1

\* A set that holds somebody's last packet holds all of that packet so far.
RegistersFollowLevels ==
  /\ \A s \in Sets : bitmap[s] = {} => count[s] = 0
  /\ \A w \in Workers : Level(w) >= 0 =>
       LET k == Level(w)
       IN /\ count[SetOf(k)] = NumWorkers - Cardinality(Contributed(k))
          /\ value[SetOf(k)] = PartialSum(k)

\* In flight from w: copies of its last aggregated packet, then of the next.
UplinkInOrder ==
  \A w \in Workers :
    /\ \A i \in 1 .. Len(up[w]) : Level(w) <= up[w][i] /\ up[w][i] <= cur[w]
    /\ \A i, j \in 1 .. Len(up[w]) : i <= j => up[w][i] <= up[w][j]

\* What will leave HARVEST7 belongs to a packet everybody has contributed to.
RecircComplete ==
  \A i \in 1 .. Len(recirc) :
    LET e == recirc[i]
    IN NextStepHarvest7(e.flag, e.seen) \in {"broadcast", "retransmit"} =>
         /\ \A v \in Workers : Level(v) >= e.k
         /\ e.hi = Stream!SumOf(e.k)

\* A result still awaited is exact; any other is older.
DownlinkExact ==
  \A w \in Workers : \A m \in down[w] :
    /\ \A v \in Workers : Level(v) >= m.k
    /\ cur[w] = m.k => m.hi = Stream!SumOf(m.k) /\ m.lo = Stream!SumOf(m.k)

IInv == /\ TypeOK
        /\ BitsFollowLevels
        /\ Lockstep
        /\ RegistersFollowLevels
        /\ UplinkInOrder
        /\ RecircComplete
        /\ DownlinkExact
        /\ ResultsExact

=============================================================================
