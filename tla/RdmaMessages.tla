---------------------------- MODULE RdmaMessages ----------------------------
(***************************************************************************)
(* The RDMA backend: messages of several packets, written into a slot of    *)
(* the switch by one queue pair per slot, and answered by writes into the   *)
(* very buffer they were sent from.  Per worker and queue pair:             *)
(*                                                                          *)
(*  - the worker thread posts a message (preprocessed into the registered   *)
(*    buffer), polls completions, compares the message id, and reposts the  *)
(*    work request as it is when the timeout queue says so;                 *)
(*  - the switch finds the pool index of the first packet in its header and *)
(*    of the others by counting, as long as sequence numbers are contiguous; *)
(*  - the worker's NIC puts the packets of a result message together.       *)
(*                                                                          *)
(* A sequence number that is not the expected one is represented by a mark  *)
(* on the packet behind a lost one ("gap").  Sequence numbers wrap after    *)
(* 2^24 packets, message ids after 2^16 messages; neither happens here.     *)
(*                                                                          *)
(* Packets stay in order in both directions, as RDMA requires of the        *)
(* network, and the switch answers a packet in one step (see SlotProtocol). *)
(***************************************************************************)
EXTENDS SwitchPipeline, Sequences, SequencesExt

CONSTANTS
  PktsPerMsg,     \* num_pkts_per_msg
  Jobs,           \* for each job, the messages of it that use this queue pair
  LateDuplicates, \* bound: FALSE cuts off what Crosses and Exposes name
  LossyUplinks,   \* bound: the workers whose packets to the switch may get lost
  MaxInFlight     \* bound: a timer fires only if at most this many packets of the
                  \* worker are then on the way, to the switch or back

ASSUME RdmaAssumption ==
  /\ PktsPerMsg \in Nat \ {0}
  /\ Jobs \in Seq(Nat \ {0})
  /\ LateDuplicates \in BOOLEAN
  /\ LossyUplinks \subseteq Workers
  /\ MaxInFlight \in Nat \ {0}

VARIABLES
  \* the worker threads
  job,      \* the job whose slice the thread runs, or ran last
  msg,      \* msg_ids_[qpn]
  poolBit,  \* the lowest bit of the work request's rkey
  out,      \* results postprocessed: [job, msg, vals]
  \* the queue pair's memory and work requests
  buf,      \* the registered buffer, one part per packet
  recvs,    \* receive work requests posted
  cq,       \* completions: message ids from the immediate fields
  nic,      \* result packets of the current message the NIC has
  \* the links
  up, down,  \* packets, in order
  downGap,   \* the last packet sent was lost
  \* the switch: RDMAReceiver's register, and the slot's
  rx, bitmap, count, value,
  \* history: what the message ids, the buffer and the NIC cannot tell has happened
  crossed,   \* a new slice met packets of the one before it with the id of its own
  exposed,   \* a packet was lost while there were traces of the message before
  misplaced  \* a NIC has put a packet in the place of another

workerVars == <<job, msg, poolBit, out>>
memoryVars == <<buf, recvs, cq, nic>>
downVars   == <<down, downGap>>
slotVars   == <<bitmap, count, value>>
historyVars == <<crossed, exposed, misplaced>>
vars == <<workerVars, memoryVars, up, downVars, rx, slotVars, historyVars>>

JobIds == 1 .. Len(Jobs)
Parts  == 0 .. PktsPerMsg - 1
MsgIds == UNION {0 .. Jobs[j] - 1 : j \in JobIds}

\* The messages <<j, k>> of all jobs; what was added up: the contributions of
\* workers to their parts.
Messages      == UNION {{j} \X (0 .. Jobs[j] - 1) : j \in JobIds}
Contribs      == Workers \X Messages \X Parts
Zero          == [c \in Contribs |-> 0]
Unit(w, m, i) == [Zero EXCEPT ![<<w, m, i>>] = 1]
SumOf(m, i)   == [c \in Contribs |-> IF c[2] = m /\ c[3] = i THEN 1 ELSE 0]

Waiting(w) == job[w] > 0 /\ msg[w] < Jobs[job[w]]

Init ==
  /\ job = [w \in Workers |-> 0]
  /\ msg = [w \in Workers |-> 0]
  /\ poolBit = [w \in Workers |-> 1]
  /\ out = [w \in Workers |-> {}]
  /\ buf = [w \in Workers |-> [i \in Parts |-> Zero]]
  /\ recvs = [w \in Workers |-> 0]
  /\ cq = [w \in Workers |-> <<>>]
  /\ nic = [w \in Workers |-> 0]
  /\ up = [w \in Workers |-> <<>>]
  /\ down = [w \in Workers |-> <<>>]
  /\ downGap = [w \in Workers |-> FALSE]
  /\ rx = [w \in Workers |-> [part |-> 0, set |-> 0, error |-> FALSE]]
  /\ bitmap = [i \in Parts |-> [s \in Sets |-> {}]]
  /\ count = [i \in Parts |-> [s \in Sets |-> 0]]
  /\ value = [i \in Parts |-> [s \in Sets |-> Zero]]
  /\ crossed = FALSE /\ exposed = FALSE /\ misplaced = FALSE

-----------------------------------------------------------------------------
(* The worker thread *)

\* The packets a queue pair makes of a posted message.
Packets(k, bit, data) ==
  [i \in 1 .. PktsPerMsg |->
     [part |-> i - 1, msg |-> k, set |-> bit, val |-> data[i - 1], gap |-> FALSE]]

\* PostSendWr for a new message: flip the pool bit, preprocess, post.
PostSend(w, j, k) ==
  LET data == [i \in Parts |-> Unit(w, <<j, k>>, i)]
      bit  == 1 - poolBit[w]
  IN /\ poolBit' = [poolBit EXCEPT ![w] = bit]
     /\ buf' = [buf EXCEPT ![w] = data]
     /\ up' = [up EXCEPT ![w] = @ \o Packets(k, bit, data)]

\* PostSendWr for a retransmission: post the same work request again.
Repost(w) ==
  /\ up' = [up EXCEPT ![w] = @ \o Packets(msg[w], poolBit[w], buf[w])]
  /\ UNCHANGED <<poolBit, buf>>

\* Nothing of a message before the current one is on its way from or to w, and
\* the buffer is as it was preprocessed.
NoDuplicates(w) ==
  /\ \A i \in DOMAIN up[w] : up[w][i].set = poolBit[w]
  /\ \A i \in DOMAIN down[w] : down[w][i].set = poolBit[w]
  /\ Waiting(w) =>
       \A i \in Parts :
         buf[w][i] \in {Unit(w, <<job[w], msg[w]>>, i), SumOf(<<job[w], msg[w]>>, i)}

\* Message ids start from 0 in every slice: if the slice that ends had one message
\* only, what is left of it has the id of the first message of the next one.
Crosses(w) ==
  /\ job[w] > 0 /\ Jobs[job[w]] = 1
  /\ up[w] # <<>> \/ down[w] # <<>>

\* What is lost makes w post a message again from a buffer that the result of the
\* message before may have been written to.
Exposes(w) == ~NoDuplicates(w)

\* A new slice; its messages continue with the other pool bit.
StartSlice(w) ==
  /\ ~Waiting(w) /\ job[w] < Len(Jobs)
  /\ LateDuplicates \/ ~Crosses(w)
  /\ crossed' = (crossed \/ Crosses(w))
  /\ job' = [job EXCEPT ![w] = @ + 1]
  /\ msg' = [msg EXCEPT ![w] = 0]
  /\ recvs' = [recvs EXCEPT ![w] = @ + 1]
  /\ PostSend(w, job[w] + 1, 0)
  /\ UNCHANGED <<out, cq, nic, downVars, rx, slotVars, exposed, misplaced>>

\* The oldest entry of the timeout queue has been there for longer than the
\* timeout.
Timeout(w) ==
  /\ Waiting(w)
  /\ Len(up[w]) + Len(down[w]) + PktsPerMsg <= MaxInFlight
  /\ Repost(w)
  /\ UNCHANGED <<job, msg, out, recvs, cq, nic, downVars, rx, slotVars, historyVars>>

\* A completion with the expected id: postprocess, and post the next message.
Accept(w) ==
  /\ Head(cq[w]) = msg[w]
  /\ out' = [out EXCEPT ![w] = @ \cup {[job |-> job[w], msg |-> msg[w], vals |-> buf[w]]}]
  /\ msg' = [msg EXCEPT ![w] = @ + 1]
  /\ IF msg[w] + 1 < Jobs[job[w]]
     THEN /\ recvs' = [recvs EXCEPT ![w] = @ + 1]
          /\ PostSend(w, job[w], msg[w] + 1)
     ELSE UNCHANGED <<recvs, poolBit, buf, up>>

DiscardBug(w) ==
  /\ Head(cq[w]) # msg[w]
  /\ UNCHANGED <<out, msg, recvs, poolBit, buf, up>>

\* A late duplicate: its receive work request is posted again.
Discard(w) ==
  /\ Head(cq[w]) # msg[w]
  /\ recvs' = [recvs EXCEPT ![w] = @ + 1]
  /\ UNCHANGED <<out, msg, poolBit, buf, up>>

\* ibv_poll_cq, which only a thread inside its receive loop calls.
PollCompletion(w) ==
  /\ Waiting(w) /\ cq[w] # <<>>
  /\ cq' = [cq EXCEPT ![w] = Tail(@)]
  /\ Accept(w) \/ Discard(w)
  /\ UNCHANGED <<job, nic, downVars, rx, slotVars, historyVars>>

-----------------------------------------------------------------------------
(* The switch *)

ReceiveAnyOrderBug(r, p) ==
  IF p.part = 0 THEN [part |-> 0, set |-> p.set, error |-> FALSE]
  ELSE [r EXCEPT !.part = p.part]

ReceiveStuckBug(r, p) ==
  IF p.gap \/ r.error THEN [r EXCEPT !.error = TRUE]
  ELSE IF p.part = 0 THEN [part |-> 0, set |-> p.set, error |-> FALSE]
  ELSE [r EXCEPT !.part = @ + 1]

\* RDMAReceiver: the pool index of a packet, kept in a register per queue pair.
\* A gap sets the error bit until the next first packet.
ReceiveRoce(r, p) ==
  IF p.part = 0 THEN [part |-> 0, set |-> p.set, error |-> FALSE]
  ELSE IF p.gap \/ r.error THEN [r EXCEPT !.error = TRUE]
  ELSE [r EXCEPT !.part = @ + 1]

\* A packet that the receiver drops.
SequenceViolation(w) ==
  /\ up[w] # <<>> /\ ReceiveRoce(rx[w], Head(up[w])).error
  /\ up' = [up EXCEPT ![w] = Tail(@)]
  /\ rx' = [rx EXCEPT ![w] = ReceiveRoce(@, Head(up[w]))]
  /\ UNCHANGED <<workerVars, memoryVars, downVars, slotVars, historyVars>>

\* A packet that is aggregated.  A result carries the message id of the packet
\* that triggered it; RDMASender numbers what it sends to a worker.
Aggregate(w) ==
  /\ up[w] # <<>> /\ ~ReceiveRoce(rx[w], Head(up[w])).error
  /\ up' = [up EXCEPT ![w] = Tail(@)]
  /\ LET p      == Head(up[w])
         r      == ReceiveRoce(rx[w], p)
         before == bitmap[r.part][r.set]
         seen   == MapResult(before, w)
         flag   == FirstLastFlag(count[r.part][r.set], seen)
         sum    == RegisterAfter(before, seen, value[r.part][r.set], p.val)
         step   == IF NextStepConsume0(flag, seen) = "recirculate_for_HARVEST7"
                   THEN NextStepHarvest7(flag, seen) ELSE "drop"
         To(v)  == step = "broadcast" \/ (step = "retransmit" /\ v = w)
     IN /\ rx' = [rx EXCEPT ![w] = r]
        /\ bitmap' = [bitmap EXCEPT ![r.part] = UpdateBitmap(@, w, r.set)]
        /\ count' = [count EXCEPT ![r.part][r.set] = CountAfter(@, seen)]
        /\ value' = [value EXCEPT ![r.part][r.set] = sum]
        /\ down' = [v \in Workers |->
             IF To(v) THEN Append(down[v], [part |-> p.part, msg |-> p.msg, set |-> r.set,
                                            val |-> sum, gap |-> downGap[v] /\ p.part > 0])
             ELSE down[v]]
        /\ downGap' = [v \in Workers |-> downGap[v] /\ ~To(v)]
  /\ UNCHANGED <<workerVars, memoryVars, historyVars>>

Switch(w) == SequenceViolation(w) \/ Aggregate(w)

-----------------------------------------------------------------------------
(* The worker's NIC: an unreliable connection's responder *)

\* A first packet starts a message, another one continues it if it is the next;
\* the last one completes it if there is a receive work request.
NicReceive(w) ==
  /\ down[w] # <<>>
  /\ down' = [down EXCEPT ![w] = Tail(@)]
  /\ LET p    == Head(down[w])
         i    == IF p.part = 0 THEN 0 ELSE nic[w]
         last == p.part = PktsPerMsg - 1
         good == p.part = 0 \/ (~p.gap /\ i > 0 /\ (last <=> i = PktsPerMsg - 1))
     IN /\ IF good THEN buf' = [buf EXCEPT ![w][i] = p.val] ELSE UNCHANGED buf
        /\ nic' = [nic EXCEPT ![w] = IF good /\ ~last THEN i + 1 ELSE 0]
        /\ IF good /\ last /\ recvs[w] > 0
           THEN /\ recvs' = [recvs EXCEPT ![w] = @ - 1]
                /\ cq' = [cq EXCEPT ![w] = Append(@, p.msg)]
           ELSE UNCHANGED <<recvs, cq>>
        /\ misplaced' = (misplaced \/ (good /\ i # p.part))
  /\ UNCHANGED <<workerVars, up, downGap, rx, slotVars, crossed, exposed>>

-----------------------------------------------------------------------------
(* Losses: the packet behind a lost one shows a gap.  (A packet that gets lost   *)
(* on the way is lost when its turn comes.)                                      *)

Marked(p) == IF p.part > 0 THEN [p EXCEPT !.gap = TRUE] ELSE p

AfterLoss(link) ==
  [n \in 1 .. Len(link) - 1 |-> IF n = 1 THEN Marked(link[2]) ELSE link[n + 1]]

LoseUplink(w) ==
  /\ w \in LossyUplinks
  /\ up[w] # <<>> /\ up' = [up EXCEPT ![w] = AfterLoss(@)]
  /\ LateDuplicates \/ ~Exposes(w)
  /\ exposed' = (exposed \/ Exposes(w))
  /\ UNCHANGED <<workerVars, memoryVars, downVars, rx, slotVars, crossed, misplaced>>

LoseDownlink(w) ==
  /\ down[w] # <<>> /\ down' = [down EXCEPT ![w] = AfterLoss(@)]
  /\ downGap' = [downGap EXCEPT ![w] = @ \/ Len(down[w]) = 1]
  /\ UNCHANGED <<workerVars, memoryVars, up, rx, slotVars, historyVars>>

-----------------------------------------------------------------------------

Finished(w) == job[w] = Len(Jobs) /\ ~Waiting(w)

Done == /\ \A w \in Workers : Finished(w)
        /\ UNCHANGED vars

Next ==
  \/ \E w \in Workers :
       \/ StartSlice(w) \/ Timeout(w) \/ PollCompletion(w)
       \/ Switch(w) \/ NicReceive(w)
       \/ LoseUplink(w) \/ LoseDownlink(w)
  \/ Done

Spec == Init /\ [][Next]_vars

\* Threads run, NICs and switch work, timers fire, and losses end some time.  (A
\* packet that is received and ignored leaves as a lost one does.)
Fairness ==
  /\ \A w \in Workers :
       /\ WF_vars(StartSlice(w) \/ PollCompletion(w)) /\ WF_vars(Timeout(w))
       /\ WF_vars(Switch(w)) /\ WF_vars(NicReceive(w))
  /\ <>[][\A w \in Workers : /\ LoseUplink(w) => SequenceViolation(w)
                             /\ LoseDownlink(w) => NicReceive(w)]_vars

FairSpec == Spec /\ Fairness

-----------------------------------------------------------------------------
(* Properties *)

TypeOK ==
  /\ job \in [Workers -> 0 .. Len(Jobs)]
  /\ msg \in [Workers -> Nat]
  /\ \A w \in Workers : msg[w] <= IF job[w] = 0 THEN 0 ELSE Jobs[job[w]]
  /\ poolBit \in [Workers -> Sets]
  /\ recvs \in [Workers -> 0 .. 1]
  /\ cq \in [Workers -> Seq(MsgIds)]
  /\ nic \in [Workers -> Parts]
  /\ rx \in [Workers -> [part : Parts, set : Sets, error : BOOLEAN]]
  /\ bitmap \in [Parts -> [Sets -> SUBSET Workers]]
  /\ count \in [Parts -> [Sets -> 0 .. NumWorkers - 1]]
  /\ <<crossed, exposed, misplaced>> \in BOOLEAN \X BOOLEAN \X BOOLEAN

\* Every packet of every message a worker has postprocessed is one contribution of
\* every worker, although messages are aggregated in part and posted again from the
\* buffer that part of their result has been written to.
ResultsExact ==
  \A w \in Workers : \A r \in out[w] :
    \A i \in Parts : r.vals[i] = SumOf(<<r.job, r.msg>>, i)

\* A packet of a message is aggregated only after the ones before it: otherwise
\* the result of a message could reach a NIC without its first packet.
PartsInOrder ==
  \A w \in Workers : Waiting(w) =>
    \A i, k \in Parts :
      (i < k /\ w \in bitmap[k][poolBit[w]]) => w \in bitmap[i][poolBit[w]]

\* Exactly one receive work request stands for the result a worker waits for,
\* however many duplicates arrive, and none is left behind by a slice.
OneReceive ==
  \A w \in Workers : recvs[w] + Len(cq[w]) = IF Waiting(w) THEN 1 ELSE 0

\* The next message of a queue pair, of this slice or the next one, meets slots
\* that do not hold the worker's bit.
NextMessageIsNew ==
  \A w \in Workers : (~Waiting(w) /\ up[w] = <<>>) =>
    \A i \in Parts : w \notin bitmap[i][1 - poolBit[w]]

\* RDMAReceiver never looks at which part of a message a packet is, it counts:
\* whatever was lost or posted again before, what it does not drop is counted as
\* the part that it is, and goes to the slot of that part.
PartsCounted ==
  \A w \in Workers : up[w] # <<>> =>
    LET r == ReceiveRoce(rx[w], Head(up[w]))
    IN ~r.error => r.part = Head(up[w]).part

\* The bookkeeping of a queue pair: shapes, receive requests, the register and the
\* pool bit are in step with the messages, the NIC and the bitmaps of the switch.
Consistent == TypeOK /\ OneReceive /\ PartsCounted /\ NextMessageIsNew

\* Every slice completes.
AllJobsComplete == <>(\A w \in Workers : Finished(w))

=============================================================================
