-------------------------- MODULE QuantizedExchange --------------------------
(***************************************************************************)
(* Worker threads that run job slices through a pre- and postprocessor      *)
(* (cpu_exponent_quantizer_ppp.cc, bypass_ppp.h) and a backend.  Floats     *)
(* travel as fixed-point integers: packet p carries the exponent of LTU p   *)
(* and the values of LTU p - batch, scaled by the largest exponent any      *)
(* worker has for that LTU, which the packet a batch earlier brought back.  *)
(* An extra first batch carries exponents only.                             *)
(*                                                                          *)
(* Two backends: the dummy one (dummy_backend.cc), which keeps pointers to  *)
(* the outstanding buffers, returns packets in a random order and           *)
(* multiplies them by the number of workers; and the switch, seen as what   *)
(* AllReduceStream promises: the sum of the values and the maximum of the   *)
(* exponents once every worker has sent a packet.                           *)
(*                                                                          *)
(* Floats are integers here, and 32-bit integers have the range             *)
(* -MaxInt - 1 .. MaxInt.                                                   *)
(***************************************************************************)
EXTENDS Integers, Sequences, FiniteSets, FiniteSetsExt, SequencesExt

CONSTANTS Workers,         \* one thread per worker
          Jobs,            \* sequence of [type, tensor], tensor[w] a function
                           \* from 0 .. numel - 1 to numbers
          PacketNumel,     \* packet_numel: elements of an LTU
          MaxOutstanding,  \* max_outstanding_pkts of a thread
          MaxInt,          \* INT32_MAX
          InPlace,         \* the input of a job is also its output
          Backends,        \* configured backends, of "dummy" and "switch"
          PPPs             \* configured processors, of "quantizer" and "bypass"

ASSUME ExchangeAssumption ==
  /\ PacketNumel \in Nat \ {0} /\ MaxOutstanding \in Nat \ {0}
  /\ MaxInt \in Nat \ {0} /\ InPlace \in BOOLEAN
  /\ Backends \subseteq {"dummy", "switch"} /\ PPPs \subseteq {"quantizer", "bypass"}

VARIABLES
  backend,   \* the configured backend
  ppp,       \* the configured pre- and postprocessor
  running,   \* running[w]: the context of w is RUNNING
  job,       \* job[w]: jobs w has taken
  busy,      \* busy[w]: w is inside a job slice
  output,    \* output[w][i]: element i of the output tensor
  scale,     \* scaling_factors_: the exponent a factor was computed from
  buffer,    \* buffer[w][s]: outstanding_entries and outstanding_extra_info
  pending,   \* pending[w]: packets given to the backend
  burst,     \* burst[w]: packets received, not processed yet
  toSend,    \* toSend[w]: packets_to_send
  got,       \* got[w]: num_packets_received
  sent       \* packets that reached the switch

config == <<backend, ppp>>
slice  == <<job, busy, output, scale>>
vars   == <<backend, ppp, running, job, busy, output, scale, buffer, pending,
            burst, toSend, got, sent>>

NumWorkers == Cardinality(Workers)
Unset      == -1      \* a scaling factor that was not computed
Exponents  == 0 .. 8 \* of the numbers that occur

Type(w)    == Jobs[job[w]].type
Numel(j)   == Cardinality(DOMAIN Jobs[j].tensor[CHOOSE w \in Workers : TRUE])
Input(w)   == IF InPlace THEN output[w] ELSE Jobs[job[w]].tensor[w]

\* LTUs of a slice, the last one perhaps partial.
NumLtus(j)  == (Numel(j) + PacketNumel - 1) \div PacketNumel
Batch(j)    == IF NumLtus(j) < MaxOutstanding THEN NumLtus(j) ELSE MaxOutstanding
NeedsExtraBatch(j) == ppp = "quantizer" /\ Jobs[j].type = "FLOAT32"
TotalPkts(j) == NumLtus(j) + (IF NeedsExtraBatch(j) THEN Batch(j) ELSE 0)

\* Mutation: a packet too few.
ReusedEarlyStopBug(j, p) == p + Batch(j) < TotalPkts(j) - 1
\* The packet that follows p in its buffer is one of the slice.
Reused(j, p) == p + Batch(j) < TotalPkts(j)

\* The buffer of packet p, and where element i of LTU l is in the tensor.
BufferOf(j, p) == p % Batch(j)
Offset(l, i)   == l * PacketNumel + i
Elements       == 0 .. PacketNumel - 1
InLtu(j, l)    == {i \in Elements : Offset(l, i) < Numel(j)}

Abs(x) == IF x < 0 THEN -x ELSE x

\* The numbers of a job, and 32-bit integers.
Floats == 1 - 2^8 .. 2^8 - 1
Int32  == -MaxInt - 1 .. MaxInt

\* The workers pass tensors of the same size and type to a job.
ASSUME JobsAssumption ==
  /\ IsFiniteSet(Workers) /\ Workers # {}
  /\ Jobs \in Seq(Range(Jobs))
  /\ \A j \in DOMAIN Jobs :
       /\ Jobs[j].type \in {"FLOAT32", "INT32"} /\ Numel(j) \in Nat
       /\ \A w \in Workers :
            Jobs[j].tensor[w] \in [0 .. Numel(j) - 1 ->
                                    IF Jobs[j].type = "FLOAT32" THEN Floats ELSE Int32]

\* 32-bit addition and multiplication wrap around.
Wrap(x) == ((x + MaxInt + 1) % (2 * (MaxInt + 1))) - (MaxInt + 1)

-----------------------------------------------------------------------------
(* The exponent quantizer.                                                  *)

\* Mutation: without the + 1, 2^e may be smaller than a value.
ExponentTooSmallBug(in, j, l) ==
  LET top == Max({0} \cup {Abs(in[Offset(l, i)]) : i \in InLtu(j, l)})
  IN  Max({0} \cup {e \in Exponents : 2^e <= top})

\* The smallest e with 2^e above every value of LTU l.
Exponent(in, j, l) ==
  LET top == Max({0} \cup {Abs(in[Offset(l, i)]) : i \in InLtu(j, l)})
  IN  Min({e \in Exponents : 2^e > top})

\* v * MaxInt / (NumWorkers * 2^e), rounded half away from zero.
Quantize(v, e) ==
  IF e = Unset THEN v ELSE
  LET d == NumWorkers * 2^e
      q == (2 * Abs(v) * MaxInt + d) \div (2 * d)
  IN  IF v < 0 THEN -q ELSE q

Dequantize(q, e) == (q * NumWorkers * 2^e) \div MaxInt

\* Mutation: the values of LTU p instead of LTU p - batch.
PreprocessWrongLtuBug(j, in, factors, p, old) ==
  IF ppp = "bypass" \/ Jobs[j].type = "INT32" THEN old ELSE
  LET l == p - Batch(j) IN
  [entries |-> [i \in Elements |->
                  IF l >= 0 /\ i \in InLtu(j, p)
                  THEN Quantize(in[Offset(p, i)], factors[l]) ELSE old.entries[i]],
   extra   |-> IF p < NumLtus(j) THEN Exponent(in, j, p) ELSE old.extra]

\* Mutation: the exponent is that of the LTU whose values are sent.
PreprocessLateExponentBug(j, in, factors, p, old) ==
  IF ppp = "bypass" \/ Jobs[j].type = "INT32" THEN old ELSE
  LET l == p - Batch(j) IN
  [entries |-> [i \in Elements |->
                  IF l >= 0 /\ i \in InLtu(j, l)
                  THEN Quantize(in[Offset(l, i)], factors[l]) ELSE old.entries[i]],
   extra   |-> IF l >= 0 THEN Exponent(in, j, l) ELSE Exponent(in, j, p)]

\* What packet p carries, given the buffer it is written to.
PreprocessSingle(j, in, factors, p, old) ==
  IF ppp = "bypass" THEN old ELSE
  IF Jobs[j].type = "INT32"
  THEN [old EXCEPT !.entries = [i \in Elements |->
          IF i \in InLtu(j, p) THEN in[Offset(p, i)] ELSE old.entries[i]]]
  ELSE
  LET l == p - Batch(j) IN
  [entries |-> [i \in Elements |->
                  IF l >= 0 /\ i \in InLtu(j, l)
                  THEN Quantize(in[Offset(l, i)], factors[l]) ELSE old.entries[i]],
   extra   |-> IF p < NumLtus(j) THEN Exponent(in, j, p) ELSE old.extra]

\* Mutation: one element more is written than the LTU has.
PostprocessOneMoreBug(j, t, p, b) ==
  LET l == IF Jobs[j].type = "INT32" THEN p ELSE p - Batch(j)
      Value(i) == IF Jobs[j].type = "INT32" THEN b.entries[i]
                  ELSE Dequantize(b.entries[i], t.scale[l])
  IN
  IF ppp = "bypass" THEN t ELSE
  [output |-> [x \in DOMAIN t.output |->
                 IF l >= 0 /\ x \in Offset(l, 0) .. Offset(l, PacketNumel) THEN Value(x % PacketNumel)
                                                   ELSE t.output[x]],
   scale  |-> [x \in DOMAIN t.scale |->
                 IF Jobs[j].type = "FLOAT32" /\ x = p THEN b.extra ELSE t.scale[x]]]

\* Tensor and scaling factors of w after the result of packet p in buffer b.
PostprocessSingle(j, t, p, b) ==
  LET l == IF Jobs[j].type = "INT32" THEN p ELSE p - Batch(j)
      Value(i) == IF Jobs[j].type = "INT32" THEN b.entries[i]
                  ELSE Dequantize(b.entries[i], t.scale[l])
  IN
  IF ppp = "bypass" THEN t ELSE
  [output |-> [x \in DOMAIN t.output |->
                 IF l >= 0 /\ x \div PacketNumel = l THEN Value(x % PacketNumel)
                                                   ELSE t.output[x]],
   scale  |-> [x \in DOMAIN t.scale |->
                 IF Jobs[j].type = "FLOAT32" /\ x = p THEN b.extra ELSE t.scale[x]]]

-----------------------------------------------------------------------------
(* The worker thread.                                                       *)

Garbage == [entries |-> [i \in Elements |-> MaxInt], extra |-> 0]   \* malloc

Init == /\ backend \in Backends /\ ppp \in PPPs
        /\ running = [w \in Workers |-> TRUE]
        /\ job = [w \in Workers |-> 0]
        /\ busy = [w \in Workers |-> FALSE]
        /\ output = [w \in Workers |-> <<>>]
        /\ scale = [w \in Workers |-> <<>>]
        /\ buffer = [w \in Workers |-> [b \in 0 .. MaxOutstanding - 1 |-> Garbage]]
        /\ pending = [w \in Workers |-> {}]
        /\ burst = [w \in Workers |-> <<>>]
        /\ toSend = [w \in Workers |-> {}]
        /\ got = [w \in Workers |-> 0]
        /\ sent = {}

\* SendBurst: the dummy backend keeps packets that point to the buffers, the
\* switch gets what the buffers contain.
SendBurst(w, j, ps, bs) ==
  /\ pending' = [pending EXCEPT ![w] = @ \cup ps]
  /\ sent' = IF backend = "dummy" THEN sent
             ELSE sent \cup {[w |-> w, job |-> j, pkt |-> p,
                              content |-> bs[BufferOf(j, p)]] : p \in ps}

\* The thread takes the next job slice and sends the first batch; a slice
\* without elements is done at once.
StartSlice(w) ==
  LET j == job[w] + 1
      out == IF InPlace THEN Jobs[j].tensor[w]
                        ELSE [x \in DOMAIN Jobs[j].tensor[w] |-> 0]
      unset == [l \in 0 .. NumLtus(j) - 1 |-> Unset]
      ps == 0 .. Batch(j) - 1
      bs == [b \in DOMAIN buffer[w] |->
               IF b \in ps
               THEN PreprocessSingle(j, Jobs[j].tensor[w], unset, b, buffer[w][b])
               ELSE buffer[w][b]]
  IN
  /\ running[w] /\ ~busy[w] /\ job[w] < Len(Jobs)
  /\ job' = [job EXCEPT ![w] = j]
  /\ output' = [output EXCEPT ![w] = out]
  /\ IF Numel(j) = 0
     THEN UNCHANGED <<busy, scale, buffer, pending, got, sent>>
     ELSE /\ busy' = [busy EXCEPT ![w] = TRUE]
          /\ scale' = [scale EXCEPT ![w] = unset]
          /\ got' = [got EXCEPT ![w] = 0]
          /\ buffer' = [buffer EXCEPT ![w] = bs]
          /\ SendBurst(w, j, ps, bs)
  /\ UNCHANGED <<config, running, burst, toSend>>

InLoop(w) == busy[w] /\ running[w] /\ got[w] < TotalPkts(job[w])

\* ProcessPacket: the dummy backend pretends that every worker sent the same.
Multiplied(b) == [b EXCEPT !.entries = [i \in Elements |-> Wrap(NumWorkers * b.entries[i])]]

\* What the switch returns for packet p of job j: sums and largest exponents.
Contributions(j, p) == {c \in sent : c.job = j /\ c.pkt = p}
EntrySum(cs, i) == MapThenSumSet(LAMBDA c : c.content.entries[i], cs)
Reduced(j, p) ==
  LET cs == Contributions(j, p) IN
  [entries |-> [i \in Elements |-> Wrap(EntrySum(cs, i))],
   extra   |-> Max({c.content.extra : c \in cs})]

Receivable(w, p) == \/ backend = "dummy"
                    \/ Cardinality(Contributions(job[w], p)) = NumWorkers

\* The orders in which some of the packets in S may come back.
Bursts(S) == {ps \in UNION {[1 .. k -> S] : k \in 1 .. Cardinality(S)} : IsInjective(ps)}

\* Some pending packets come back, in any order, in their buffers.
ReceiveBurst(w) ==
  LET j == job[w] IN
  /\ InLoop(w) /\ burst[w] = <<>>
  /\ \E ps \in Bursts({p \in pending[w] : Receivable(w, p)}) :
       /\ burst' = [burst EXCEPT ![w] = ps]
       /\ buffer' = [buffer EXCEPT ![w] = [b \in DOMAIN @ |->
            IF \A p \in Range(ps) : BufferOf(j, p) # b THEN @[b]
            ELSE IF backend = "dummy" THEN Multiplied(@[b])
            ELSE Reduced(j, CHOOSE p \in Range(ps) : BufferOf(j, p) = b)]]
       /\ got' = [got EXCEPT ![w] = @ + Len(ps)]
       /\ pending' = [pending EXCEPT ![w] = @ \ Range(ps)]
  /\ UNCHANGED <<config, running, slice, toSend, sent>>

\* The next packet of the burst is postprocessed and its buffer filled with the
\* packet a batch further; these are sent when the burst is processed.
ProcessReceived(w) ==
  LET j == job[w]
      p == Head(burst[w])
      b == BufferOf(j, p)
      t == PostprocessSingle(j, [output |-> output[w], scale |-> scale[w]], p, buffer[w][b])
      in == IF InPlace THEN t.output ELSE Jobs[j].tensor[w]
      next == p + Batch(j)
      more == Reused(j, p)
      ps == IF more THEN toSend[w] \cup {next} ELSE toSend[w]
      bs == IF more THEN [buffer[w] EXCEPT ![b] = PreprocessSingle(j, in, t.scale, next, @)]
                    ELSE buffer[w]
  IN
  /\ busy[w] /\ burst[w] # <<>>
  /\ output' = [output EXCEPT ![w] = t.output]
  /\ scale' = [scale EXCEPT ![w] = t.scale]
  /\ buffer' = [buffer EXCEPT ![w] = bs]
  /\ burst' = [burst EXCEPT ![w] = Tail(@)]
  /\ IF Len(burst[w]) = 1
     THEN /\ SendBurst(w, j, ps, bs)
          /\ toSend' = [toSend EXCEPT ![w] = {}]
     ELSE /\ toSend' = [toSend EXCEPT ![w] = ps]
          /\ UNCHANGED <<pending, sent>>
  /\ UNCHANGED <<config, running, job, busy, got>>

\* The loop ended: the factors are freed and the context is notified.
FinishSlice(w) ==
  /\ busy[w] /\ burst[w] = <<>> /\ ~InLoop(w)
  /\ busy' = [busy EXCEPT ![w] = FALSE]
  /\ scale' = [scale EXCEPT ![w] = <<>>]
  /\ UNCHANGED <<config, running, job, output, buffer, pending, burst, toSend, got,
                 sent>>

\* The context of w is stopped at some moment.
Stop(w) == /\ running[w]
           /\ running' = [running EXCEPT ![w] = FALSE]
           /\ UNCHANGED <<config, slice, buffer, pending, burst, toSend, got, sent>>

Next == \E w \in Workers : \/ StartSlice(w) \/ ReceiveBurst(w) \/ ProcessReceived(w)
                           \/ FinishSlice(w) \/ Stop(w)

Spec == Init /\ [][Next]_vars

\* A thread goes on, and sooner or later a receive returns something.
FairSpec == /\ Spec
            /\ \A w \in Workers : WF_vars(\/ StartSlice(w) \/ ReceiveBurst(w)
                                          \/ ProcessReceived(w) \/ FinishSlice(w))

-----------------------------------------------------------------------------
(* Properties.                                                              *)

Outstanding(w) == pending[w] \cup Range(burst[w]) \cup toSend[w]
Complete(w) == busy[w] /\ burst[w] = <<>> /\ got[w] = TotalPkts(job[w])

\* Type invariant.
TypeOK ==
  /\ running \in [Workers -> BOOLEAN] /\ busy \in [Workers -> BOOLEAN]
  /\ job \in [Workers -> 0 .. Len(Jobs)]
  /\ \A w \in Workers :
       /\ Outstanding(w) \subseteq Nat
       /\ \A b \in DOMAIN buffer[w] :
            \A i \in Elements : buffer[w][b].entries[i] \in Int32
       /\ busy[w] => /\ got[w] \in 0 .. TotalPkts(job[w])
                     /\ Outstanding(w) \subseteq 0 .. TotalPkts(job[w]) - 1

\* Two outstanding packets of a thread never share a buffer, whatever order
\* the packets of a burst come back in (dummy_worker_thread.cc:112,160).
BuffersNotShared ==
  \A w \in Workers : busy[w] =>
    \A p, q \in Outstanding(w) :
      BufferOf(job[w], p) = BufferOf(job[w], q) => p = q

\* A thread that still waits for packets has some outstanding: the dummy
\* backend ends the program otherwise (dummy_backend.cc:99).
ReceiveFindsPackets ==
  \A w \in Workers : InLoop(w) => Outstanding(w) # {}

\* Before the values of an LTU are outstanding its factor is known, and all
\* workers compute it from the largest exponent any of them has for that LTU
\* (cpu_exponent_quantizer_ppp.cc:103,257).
FactorsAgree ==
  \A w \in Workers : busy[w] /\ ppp = "quantizer" /\ Type(w) = "FLOAT32" =>
    LET j == job[w] IN
    /\ \A p \in Outstanding(w) : p >= Batch(j) => scale[w][p - Batch(j)] # Unset
    /\ \A l \in DOMAIN scale[w] :
         scale[w][l] # Unset =>
           scale[w][l] = IF backend = "dummy" THEN Exponent(Jobs[j].tensor[w], j, l)
                         ELSE Max({Exponent(Jobs[j].tensor[v], j, l) : v \in Workers})

\* What the threads keep about outstanding packets: shapes, buffers, how many
\* there are, and the factors of their LTUs.
Consistent == TypeOK /\ BuffersNotShared /\ ReceiveFindsPackets /\ FactorsAgree

\* The sum of what the workers send never overflows 32 bits
\* (cpu_exponent_quantizer_ppp.cc:151-154,257).
SumsFit ==
  \A c \in sent :
    Jobs[c.job].type = "FLOAT32" /\ ppp = "quantizer" /\ c.pkt >= Batch(c.job) =>
      \A i \in InLtu(c.job, c.pkt - Batch(c.job)) :
        Abs(EntrySum(Contributions(c.job, c.pkt), i)) <= MaxInt

\* Element x of the exact result of job j.
ExactSum(j, x) == MapThenSumSet(LAMBDA v : Jobs[j].tensor[v][x], Workers)

\* A finished slice holds, for every element, the sum over the workers up to
\* the rounding of each of them (PostprocessSingle; twice half a unit per
\* worker, and the integer result).
ResultsWithinRounding ==
  \A w \in Workers : Complete(w) /\ ppp = "quantizer" =>
    LET j == job[w]
        Sum(x) == IF backend = "dummy" THEN NumWorkers * Jobs[j].tensor[w][x]
                  ELSE ExactSum(j, x)
        error(x) == IF Type(w) = "INT32" THEN 0
                    ELSE 1 + (NumWorkers * NumWorkers
                              * 2^(scale[w][x \div PacketNumel])) \div (2 * MaxInt)
    IN \A x \in DOMAIN output[w] : Abs(output[w][x] - Sum(x)) <= error(x)

\* A retransmission of a packet the switch has and w still waits for rebuilds
\* the same packet, although results of other packets were written to the
\* tensor it is built from (dpdk_worker_thread_utils.inc:225-265).
ResendIsSame ==
  \A w \in Workers : busy[w] /\ backend = "switch" =>
    \A c \in sent : c.w = w /\ c.job = job[w] /\ c.pkt \in pending[w] =>
      c.content = PreprocessSingle(job[w], Input(w), scale[w], c.pkt, c.content)

\* Threads that are not stopped finish all jobs.
JobsComplete == <>(\/ \E w \in Workers : ~running[w]
                   \/ \A w \in Workers : job[w] = Len(Jobs) /\ ~busy[w])
=============================================================================
