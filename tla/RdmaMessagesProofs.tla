------------------------- MODULE RdmaMessagesProofs -------------------------
(***************************************************************************)
(* Proofs about RdmaMessages, for every finite set of workers, any number   *)
(* of packets per message, and any sequence of jobs, in three layers.  What *)
(* the switch and the worker count without being told: the switch the       *)
(* packets of a message, the worker its receive requests (Shapes,           *)
(* OneReceive, UplinkInOrder).  Whose turn it is in each slot, and with     *)
(* that the order of the parts (TurnsInv).  What the slots, the results and *)
(* the shared buffer hold (ValuesInv).                                      *)
(*                                                                          *)
(* The first layer holds of every behaviour.  The others hold until one of  *)
(* three things has happened that the code cannot tell and that makes it go *)
(* wrong: the second until a duplicate crosses to a slice that uses its id  *)
(* again (crossed), the third also until a packet is lost behind traces of  *)
(* the message before (exposed), or a NIC puts a packet in the place of     *)
(* another (misplaced), which takes messages of more than three packets.    *)
(***************************************************************************)
EXTENDS RdmaMessages, FiniteSetTheorems, SequenceTheorems, TLAPS

Data   == [Contribs -> Nat]
Packet == [part : Parts, msg : MsgIds, set : Sets, val : Data, gap : BOOLEAN]

\* The register of RDMAReceiver.
Register == [part : Parts, set : Sets, error : BOOLEAN]

Shapes ==
  /\ job \in [Workers -> 0 .. Len(Jobs)]
  /\ msg \in [Workers -> Nat]
  /\ \A w \in Workers : msg[w] <= IF job[w] = 0 THEN 0 ELSE Jobs[job[w]]
  /\ poolBit \in [Workers -> Sets]
  /\ buf \in [Workers -> [Parts -> Data]]
  /\ recvs \in [Workers -> Nat]
  /\ cq \in [Workers -> Seq(MsgIds)]
  /\ nic \in [Workers -> Parts]
  /\ up \in [Workers -> Seq(Packet)]
  /\ down \in [Workers -> Seq(Packet)]
  /\ downGap \in [Workers -> BOOLEAN]
  /\ rx \in [Workers -> Register]
  /\ bitmap \in [Parts -> [Sets -> SUBSET Workers]]
  /\ count \in [Parts -> [Sets -> Nat]]
  /\ value \in [Parts -> [Sets -> Data]]

\* Packet p may come behind r, a packet or what the register holds of one.
Follows(r, p) == p.part = 0 \/ p.gap \/ (p.part = r.part + 1 /\ p.set = r.set)

\* Along a link, every packet is the first of a message, is marked, or is the part
\* after the one before it, of the same message.
Contiguous(link) ==
  \A i \in 1 .. Len(link) - 1 : Follows(link[i], link[i + 1])

\* What the register expects is what comes.
Expected(r, link) == link # <<>> => r.error \/ Follows(r, link[1])

UplinkInOrder ==
  \A w \in Workers : Contiguous(up[w]) /\ Expected(rx[w], up[w])

IInv == Shapes /\ OneReceive /\ UplinkInOrder

-----------------------------------------------------------------------------
(* Types of what is sent *)

LEMMA FirstParts == 0 \in Parts /\ PktsPerMsg - 1 \in Parts /\ Parts \subseteq Nat
BY RdmaAssumption DEF Parts

LEMMA WorkersCount == NumWorkers \in Nat \ {0}
BY WorkersAssumption, FS_CardinalityType, FS_EmptySet DEF NumWorkers

LEMMA ZeroType == Zero \in Data
BY DEF Zero, Data

LEMMA UnitType ==
  ASSUME NEW w, NEW m, NEW i
  PROVE  Unit(w, m, i) \in Data
BY DEF Unit, Zero, Data

LEMMA RegisterAfterType ==
  ASSUME NEW before, NEW seen \in BOOLEAN, NEW v \in Data, NEW u \in Data
  PROVE  RegisterAfter(before, seen, v, u) \in Data
<1>1. Add(v, u) \in Data
  BY DEF Add, Data
<1> QED BY <1>1 DEF RegisterAfter

\* What a queue pair that waits waits for.
LEMMA MessageType ==
  ASSUME NEW j \in JobIds, NEW k \in Nat, k < Jobs[j]
  PROVE  k \in MsgIds /\ <<j, k>> \in Messages
<1>1. Jobs[j] \in Nat \ {0}
  BY RdmaAssumption, ElementOfSeq DEF JobIds
<1>2. k \in 0 .. Jobs[j] - 1
  BY <1>1
<1>3. <<j, k>> \in {j} \X (0 .. Jobs[j] - 1)
  BY <1>2
<1> QED BY <1>2, <1>3 DEF MsgIds, Messages

LEMMA WaitingType ==
  ASSUME Shapes, NEW w \in Workers
  PROVE  /\ job[w] \in Nat /\ msg[w] \in Nat /\ Len(Jobs) \in Nat
         /\ job[w] # 0 => /\ job[w] \in JobIds /\ Jobs[job[w]] \in Nat \ {0}
                          /\ msg[w] <= Jobs[job[w]]
         /\ job[w] = 0 => msg[w] = 0
         /\ Waiting(w) => /\ job[w] \in JobIds /\ msg[w] < Jobs[job[w]]
                          /\ msg[w] \in MsgIds /\ <<job[w], msg[w]>> \in Messages
<1>1. job[w] \in 0 .. Len(Jobs) /\ msg[w] \in Nat /\ Len(Jobs) \in Nat
  BY RdmaAssumption, LenProperties DEF Shapes
<1>2. msg[w] <= IF job[w] = 0 THEN 0 ELSE Jobs[job[w]]
  BY DEF Shapes
<1>3. job[w] # 0 => job[w] \in JobIds
  BY <1>1 DEF JobIds
<1>4. job[w] # 0 => Jobs[job[w]] \in Nat \ {0}
  BY <1>3, RdmaAssumption, ElementOfSeq DEF JobIds
<1> QED BY <1>1, <1>2, <1>3, <1>4, MessageType DEF Waiting

\* A posted message is a sequence of packets in order.
LEMMA PacketsInOrder ==
  ASSUME NEW k \in MsgIds, NEW bit \in Sets, NEW data \in [Parts -> Data]
  PROVE  /\ Packets(k, bit, data) \in Seq(Packet)
         /\ Packets(k, bit, data) # <<>>
         /\ Packets(k, bit, data)[1].part = 0
         /\ Contiguous(Packets(k, bit, data))
<1> DEFINE ps == Packets(k, bit, data)
<1>1. \A i \in 1 .. PktsPerMsg : i - 1 \in Parts
  BY RdmaAssumption DEF Parts
<1>2. \A i \in 1 .. PktsPerMsg :
        [part |-> i - 1, msg |-> k, set |-> bit, val |-> data[i - 1], gap |-> FALSE] \in Packet
  BY <1>1 DEF Packet
<1>3. ps \in [1 .. PktsPerMsg -> Packet]
  BY <1>2 DEF Packets
<1>4. PktsPerMsg \in Nat /\ PktsPerMsg >= 1
  BY RdmaAssumption
<1>5. ps \in Seq(Packet) /\ Len(ps) = PktsPerMsg
  BY <1>3, <1>4
<1>6. \A i \in 1 .. PktsPerMsg : ps[i].part = i - 1
  BY DEF Packets
<1>9. \A i \in 1 .. PktsPerMsg : ps[i].set = bit
  BY DEF Packets
<1>7. Contiguous(ps)
  BY <1>4, <1>5, <1>6, <1>9 DEF Contiguous, Follows
<1>8. ps # <<>>
  BY <1>4, <1>5
<1> HIDE DEF ps
<1> QED BY <1>4, <1>5, <1>6, <1>7, <1>8 DEF ps

\* ... and may be put behind whatever is on the link.
LEMMA ConcatInOrder ==
  ASSUME NEW s \in Seq(Packet), NEW t \in Seq(Packet),
         Contiguous(s), Contiguous(t), t # <<>>, t[1].part = 0,
         NEW r, Expected(r, s)
  PROVE  /\ s \o t \in Seq(Packet)
         /\ Contiguous(s \o t)
         /\ Expected(r, s \o t)
<1>1. /\ s \o t \in Seq(Packet)
      /\ Len(s \o t) = Len(s) + Len(t)
      /\ \A i \in 1 .. Len(s) + Len(t) :
           (s \o t)[i] = IF i <= Len(s) THEN s[i] ELSE t[i - Len(s)]
  BY ConcatProperties
<1>2. Len(s) \in Nat /\ Len(t) \in Nat /\ Len(t) > 0
  BY LenProperties, EmptySeq
<1> DEFINE u == s \o t
<1>3. ASSUME NEW i \in 1 .. Len(u) - 1
      PROVE  Follows(u[i], u[i + 1])
  <2>1. CASE i < Len(s)
    <3>1. u[i] = s[i] /\ u[i + 1] = s[i + 1] /\ i \in 1 .. Len(s) - 1
      BY <1>1, <1>2, <2>1
    <3> QED BY <3>1 DEF Contiguous
  <2>2. CASE i = Len(s)
    <3>1. u[i + 1] = t[1]
      BY <1>1, <1>2, <2>2
    <3> QED BY <3>1 DEF Follows
  <2>3. CASE i > Len(s)
    <3>1. /\ u[i] = t[i - Len(s)] /\ u[i + 1] = t[(i - Len(s)) + 1]
          /\ i - Len(s) \in 1 .. Len(t) - 1
      BY <1>1, <1>2, <2>3
    <3> QED BY <3>1 DEF Contiguous
  <2> QED BY <1>1, <1>2, <2>1, <2>2, <2>3
<1>4. Expected(r, u)
  <2>1. CASE s = <<>>
    <3>1. u[1] = t[1]
      BY <1>1, <1>2, <2>1
    <3> QED BY <3>1 DEF Expected, Follows
  <2>2. CASE s # <<>>
    <3>1. u[1] = s[1]
      BY <1>1, <1>2, <2>2, EmptySeq
    <3> QED BY <3>1, <2>2 DEF Expected
  <2> QED BY <2>1, <2>2
<1> QED BY <1>1, <1>3, <1>4 DEF Contiguous

\* A packet that leaves a link in its turn.
LEMMA TailInOrder ==
  ASSUME NEW s \in Seq(Packet), s # <<>>, Contiguous(s), NEW r,
         r.error \/ (r.part = s[1].part /\ r.set = s[1].set)
  PROVE  /\ Tail(s) \in Seq(Packet)
         /\ Contiguous(Tail(s))
         /\ Expected(r, Tail(s))
<1>1. Len(s) \in Nat \ {0}
  BY LenProperties, EmptySeq
<1>2. /\ Tail(s) \in Seq(Packet)
      /\ Len(Tail(s)) = Len(s) - 1
      /\ \A i \in 1 .. Len(s) - 1 : Tail(s)[i] = s[i + 1]
  BY HeadTailProperties
<1> DEFINE u == Tail(s)
<1>3. Contiguous(u)
  <2> SUFFICES ASSUME NEW i \in 1 .. Len(u) - 1
               PROVE  Follows(u[i], u[i + 1])
    BY DEF Contiguous
  <2>1. u[i] = s[i + 1] /\ u[i + 1] = s[(i + 1) + 1] /\ i + 1 \in 1 .. Len(s) - 1
    BY <1>1, <1>2
  <2> QED BY <2>1 DEF Contiguous
<1>4. Expected(r, u)
  <2> SUFFICES ASSUME u # <<>>, ~r.error
               PROVE  Follows(r, u[1])
    BY DEF Expected
  <2>1. Len(u) # 0
    BY <1>2, EmptySeq
  <2>2. u[1] = s[2] /\ 1 \in 1 .. Len(s) - 1
    BY <1>1, <1>2, <2>1
  <2>3. Follows(s[1], s[1 + 1])
    BY <2>2 DEF Contiguous
  <2> QED BY <2>2, <2>3 DEF Follows
<1> QED BY <1>2, <1>3, <1>4

LEMMA MarkedType ==
  ASSUME NEW p \in Packet
  PROVE  /\ Marked(p) \in Packet /\ \A a : Follows(a, Marked(p))
         /\ Marked(p).part = p.part /\ Marked(p).set = p.set
         /\ Marked(p).msg = p.msg /\ Marked(p).val = p.val
         /\ Marked(p).part = 0 \/ Marked(p).gap
<1>1. ASSUME NEW g \in BOOLEAN
      PROVE  /\ [p EXCEPT !.gap = g] \in Packet /\ [p EXCEPT !.gap = g].gap = g
             /\ [p EXCEPT !.gap = g].part = p.part /\ [p EXCEPT !.gap = g].set = p.set
             /\ [p EXCEPT !.gap = g].msg = p.msg /\ [p EXCEPT !.gap = g].val = p.val
  BY <1>1 DEF Packet
<1>2. p.part \in Nat
  BY FirstParts DEF Packet
<1>3. CASE p.part > 0
  <2>1. TRUE \in BOOLEAN
    OBVIOUS
  <2>2. Marked(p) = [p EXCEPT !.gap = TRUE]
    BY <1>3 DEF Marked
  <2> QED BY <1>1, <2>1, <2>2, Zenon DEF Follows
<1>4. CASE ~(p.part > 0)
  BY <1>2, <1>4 DEF Marked, Follows
<1> QED BY <1>3, <1>4

\* A loss marks the packet behind it, so that every link stays in order.
LEMMA LossInOrder ==
  ASSUME NEW s \in Seq(Packet), s # <<>>
  PROVE  /\ AfterLoss(s) \in Seq(Packet)
         /\ Contiguous(s) => Contiguous(AfterLoss(s))
         /\ \A r : Expected(r, AfterLoss(s))
<1> DEFINE u == AfterLoss(s)
<1>1. Len(s) \in Nat \ {0} /\ \A i \in 1 .. Len(s) : s[i] \in Packet
  BY LenProperties, EmptySeq, ElementOfSeq
<1>2. \A i \in 1 .. Len(s) - 1 :
        /\ u[i] = IF i = 1 THEN Marked(s[2]) ELSE s[i + 1]
        /\ i + 1 \in 1 .. Len(s)
  BY <1>1 DEF AfterLoss
<1>3. ASSUME NEW i \in 1 .. Len(s) - 1
      PROVE  /\ u[i] \in Packet
             /\ u[i].part = s[i + 1].part /\ u[i].set = s[i + 1].set
             /\ i = 1 => \A a : Follows(a, u[i])
             /\ i # 1 => u[i] = s[i + 1]
  <2>1. s[i + 1] \in Packet
    BY <1>1, <1>2
  <2>2. CASE i = 1
    <3>1. u[i] = Marked(s[i + 1])
      BY <1>2, <2>2
    <3> HIDE DEF u
    <3> QED BY <3>1, <2>1, <2>2, MarkedType
  <2>3. CASE i # 1
    BY <1>2, <2>1, <2>3
  <2> QED BY <2>2, <2>3
<1>4. u \in Seq(Packet) /\ Len(u) = Len(s) - 1
  <2>1. u \in [1 .. Len(s) - 1 -> Packet]
    BY <1>3 DEF AfterLoss
  <2> QED BY <2>1, <1>1
<1> HIDE DEF u
<1>5. ASSUME Contiguous(s), NEW i \in 1 .. Len(u) - 1
      PROVE  Follows(u[i], u[i + 1])
  <2>1. i \in 1 .. Len(s) - 1 /\ i + 1 \in 1 .. Len(s) - 1 /\ i + 1 # 1
    BY <1>1, <1>4
  <2>2. Follows(s[i + 1], s[(i + 1) + 1])
    BY <2>1, <1>5 DEF Contiguous
  <2>3. /\ u[i].part = s[i + 1].part /\ u[i].set = s[i + 1].set
        /\ u[i + 1] = s[(i + 1) + 1]
    BY <2>1, <1>3
  <2> QED BY <2>2, <2>3 DEF Follows
<1>6. ASSUME NEW r
      PROVE  Expected(r, u)
  <2> SUFFICES ASSUME u # <<>>
               PROVE  Follows(r, u[1])
    BY DEF Expected
  <2>1. 1 \in 1 .. Len(s) - 1
    BY <1>1, <1>4, EmptySeq
  <2> QED BY <2>1, <1>3
<1> QED BY <1>4, <1>5, <1>6 DEF Contiguous, u

-----------------------------------------------------------------------------
(* The invariant *)

LEMMA InitIInv == Init => IInv
<1> SUFFICES ASSUME Init PROVE IInv
  OBVIOUS
<1>1. Len(Jobs) \in Nat /\ 0 \in Sets /\ 1 \in Sets
  BY RdmaAssumption, LenProperties DEF Sets
<1>2. <<>> \in Seq(Packet) /\ <<>> \in Seq(MsgIds) /\ Len(<<>>) = 0
  BY EmptySeq
<1>6. [part |-> 0, set |-> 0, error |-> FALSE] \in Register
  BY <1>1, FirstParts DEF Register
<1>3. Shapes
  <2> USE DEF Init
  <2>1. /\ job \in [Workers -> 0 .. Len(Jobs)] /\ msg \in [Workers -> Nat]
        /\ poolBit \in [Workers -> Sets] /\ recvs \in [Workers -> Nat]
        /\ \A w \in Workers : msg[w] <= IF job[w] = 0 THEN 0 ELSE Jobs[job[w]]
    BY <1>1
  <2>2. /\ cq \in [Workers -> Seq(MsgIds)] /\ nic \in [Workers -> Parts]
        /\ up \in [Workers -> Seq(Packet)] /\ down \in [Workers -> Seq(Packet)]
        /\ downGap \in [Workers -> BOOLEAN] /\ rx \in [Workers -> Register]
    BY <1>2, <1>6, FirstParts
  <2>3. /\ buf \in [Workers -> [Parts -> Data]] /\ value \in [Parts -> [Sets -> Data]]
        /\ bitmap \in [Parts -> [Sets -> SUBSET Workers]]
        /\ count \in [Parts -> [Sets -> Nat]]
    BY ZeroType
  <2> QED BY <2>1, <2>2, <2>3 DEF Shapes
<1>4. OneReceive
  BY <1>2 DEF Init, OneReceive, Waiting
<1>5. UplinkInOrder
  BY <1>2 DEF Init, UplinkInOrder, Contiguous, Expected
<1> QED BY <1>3, <1>4, <1>5 DEF IInv

\* A new message is put behind the uplink.
LEMMA SendKeepsOrder ==
  ASSUME IInv, NEW w \in Workers, NEW k \in MsgIds, NEW bit \in Sets,
         NEW data \in [Parts -> Data],
         up' = [up EXCEPT ![w] = @ \o Packets(k, bit, data)], UNCHANGED rx
  PROVE  up' \in [Workers -> Seq(Packet)] /\ UplinkInOrder'
<1> DEFINE ps == Packets(k, bit, data)
<1>1. ps \in Seq(Packet) /\ ps # <<>> /\ ps[1].part = 0 /\ Contiguous(ps)
  BY PacketsInOrder
<1>2. up \in [Workers -> Seq(Packet)]
  BY DEF IInv, Shapes
<1> HIDE DEF ps
<1>3. /\ up[w] \o ps \in Seq(Packet) /\ Contiguous(up[w] \o ps)
      /\ Expected(rx[w], up[w] \o ps)
  BY <1>1, <1>2, ConcatInOrder DEF IInv, UplinkInOrder
<1>4. up' = [up EXCEPT ![w] = up[w] \o ps]
  BY DEF ps
<1> QED BY <1>2, <1>3, <1>4 DEF IInv, UplinkInOrder

\* A new message of worker w, with its types.
LEMMA PostSendTypes ==
  ASSUME IInv, NEW w \in Workers, NEW j, NEW k \in MsgIds, PostSend(w, j, k), UNCHANGED rx
  PROVE  /\ poolBit' \in [Workers -> Sets]
         /\ buf' \in [Workers -> [Parts -> Data]]
         /\ up' \in [Workers -> Seq(Packet)] /\ UplinkInOrder'
<1> DEFINE data == [i \in Parts |-> Unit(w, <<j, k>>, i)]
           bit  == 1 - poolBit[w]
<1>1. data \in [Parts -> Data]
  BY UnitType
<1>2. bit \in Sets
  <2>1. poolBit[w] \in Sets
    BY DEF IInv, Shapes
  <2> QED BY <2>1 DEF Sets
<1>3. /\ poolBit' = [poolBit EXCEPT ![w] = bit]
      /\ buf' = [buf EXCEPT ![w] = data]
      /\ up' = [up EXCEPT ![w] = @ \o Packets(k, bit, data)]
  BY DEF PostSend
<1> HIDE DEF data, bit
<1>4. up' \in [Workers -> Seq(Packet)] /\ UplinkInOrder'
  BY <1>1, <1>2, <1>3, SendKeepsOrder
<1> QED BY <1>1, <1>2, <1>3, <1>4 DEF IInv, Shapes

LEMMA StartSliceIInv ==
  ASSUME IInv, NEW w \in Workers, StartSlice(w)
  PROVE  IInv'
<1>1. job[w] \in Nat /\ job[w] + 1 \in 1 .. Len(Jobs) /\ ~Waiting(w)
  BY RdmaAssumption, LenProperties DEF StartSlice, IInv, Shapes
<1>2. /\ job' = [job EXCEPT ![w] = job[w] + 1] /\ msg' = [msg EXCEPT ![w] = 0]
      /\ recvs' = [recvs EXCEPT ![w] = recvs[w] + 1]
      /\ PostSend(w, job[w] + 1, 0)
      /\ UNCHANGED <<cq, nic, down, downGap, rx, bitmap, count, value>>
  BY DEF StartSlice, downVars, slotVars
<1>6. job[w] + 1 \in JobIds /\ Jobs[job[w] + 1] \in Nat \ {0} /\ 0 \in MsgIds
  <2>1. job[w] + 1 \in JobIds /\ Jobs[job[w] + 1] \in Nat \ {0}
    BY <1>1, RdmaAssumption, ElementOfSeq DEF JobIds
  <2>2. 0 \in Nat /\ 0 < Jobs[job[w] + 1]
    BY <2>1
  <2> QED BY <2>1, <2>2, MessageType
<1>3. /\ poolBit' \in [Workers -> Sets] /\ buf' \in [Workers -> [Parts -> Data]]
      /\ up' \in [Workers -> Seq(Packet)] /\ UplinkInOrder'
  BY <1>2, <1>6, PostSendTypes
<1>4. Shapes'
  <2>1. job' \in [Workers -> 0 .. Len(Jobs)]
    <3>1. job[w] + 1 \in 0 .. Len(Jobs)
      BY <1>1, RdmaAssumption, LenProperties
    <3> QED BY <3>1, <1>2 DEF IInv, Shapes
  <2>2. msg' \in [Workers -> Nat] /\ recvs' \in [Workers -> Nat]
    BY <1>2 DEF IInv, Shapes
  <2>3. ASSUME NEW v \in Workers
        PROVE  msg'[v] <= IF job'[v] = 0 THEN 0 ELSE Jobs[job'[v]]
    <3>1. msg[v] <= IF job[v] = 0 THEN 0 ELSE Jobs[job[v]]
      BY DEF IInv, Shapes
    <3>2. CASE v = w
      <4>1. msg'[v] = 0 /\ job'[v] = job[w] + 1 /\ job[w] + 1 # 0
        BY <1>1, <1>2, <3>2 DEF IInv, Shapes
      <4> QED BY <4>1, <1>6
    <3>3. CASE v # w
      <4>1. msg'[v] = msg[v] /\ job'[v] = job[v]
        BY <1>2, <3>3 DEF IInv, Shapes
      <4> QED BY <4>1, <3>1
    <3> QED BY <3>2, <3>3
  <2> QED BY <1>2, <1>3, <2>1, <2>2, <2>3 DEF IInv, Shapes
<1>5. OneReceive'
  <2>1. Jobs[job[w] + 1] \in Nat \ {0}
    BY <1>1, RdmaAssumption, ElementOfSeq
  <2>2. ASSUME NEW v \in Workers
        PROVE  recvs'[v] + Len(cq'[v]) = IF Waiting(v)' THEN 1 ELSE 0
    <3>1. recvs[v] + Len(cq[v]) = IF Waiting(v) THEN 1 ELSE 0
      BY DEF IInv, OneReceive
    <3>2. Len(cq[v]) \in Nat /\ recvs[v] \in Nat
      BY LenProperties DEF IInv, Shapes
    <3>3. CASE v = w
      BY <1>1, <1>2, <2>1, <3>1, <3>2, <3>3 DEF IInv, Shapes, Waiting
    <3>4. CASE v # w
      BY <1>2, <3>1, <3>4 DEF IInv, Shapes, Waiting
    <3> QED BY <3>3, <3>4
  <2> QED BY <2>2 DEF OneReceive
<1> QED BY <1>3, <1>4, <1>5 DEF IInv

LEMMA TimeoutIInv ==
  ASSUME IInv, NEW w \in Workers, Timeout(w)
  PROVE  IInv'
<1>1. /\ up' = [up EXCEPT ![w] = @ \o Packets(msg[w], poolBit[w], buf[w])]
      /\ UNCHANGED <<job, msg, poolBit, buf, recvs, cq, nic, down, downGap, rx, bitmap,
                     count, value>>
  BY DEF Timeout, Repost, downVars, slotVars
<1>4. msg[w] \in MsgIds
  BY WaitingType DEF Timeout, IInv
<1>2. msg[w] \in MsgIds /\ poolBit[w] \in Sets /\ buf[w] \in [Parts -> Data]
  BY <1>4 DEF IInv, Shapes
<1>3. up' \in [Workers -> Seq(Packet)] /\ UplinkInOrder'
  BY <1>1, <1>2, SendKeepsOrder
<1> QED BY <1>1, <1>3 DEF IInv, Shapes, OneReceive, Waiting

LEMMA PollCompletionIInv ==
  ASSUME IInv, NEW w \in Workers, PollCompletion(w)
  PROVE  IInv'
<1>1. Waiting(w) /\ cq[w] # <<>> /\ cq' = [cq EXCEPT ![w] = Tail(cq[w])]
      /\ UNCHANGED <<job, nic, down, downGap, rx, bitmap, count, value>>
  BY DEF PollCompletion, downVars, slotVars
<1>2. Tail(cq[w]) \in Seq(MsgIds) /\ Len(Tail(cq[w])) = Len(cq[w]) - 1 /\ Len(cq[w]) \in Nat
  BY <1>1, HeadTailProperties, LenProperties DEF IInv, Shapes
<1>3. recvs[w] = 0 /\ Len(cq[w]) = 1
  <2>1. recvs[w] + Len(cq[w]) = 1 /\ recvs[w] \in Nat /\ Len(cq[w]) # 0
    BY <1>1, EmptySeq DEF IInv, OneReceive, Shapes
  <2>2. Len(cq[w]) \in Nat
    BY <1>2
  <2>3. ASSUME NEW a \in Nat, NEW b \in Nat, a + b = 1, b # 0
        PROVE  a = 0 /\ b = 1
    BY <2>3
  <2> QED BY <2>1, <2>2, <2>3
<1>4. msg[w] \in Nat /\ job[w] \in 1 .. Len(Jobs) /\ Jobs[job[w]] \in Nat /\ msg[w] < Jobs[job[w]]
  BY <1>1, RdmaAssumption, ElementOfSeq, LenProperties DEF IInv, Shapes, Waiting
\* What every case comes down to.
<1>5. ASSUME Shapes', UplinkInOrder',
             \/ /\ msg' = [msg EXCEPT ![w] = msg[w] + 1]
                /\ IF msg[w] + 1 < Jobs[job[w]] THEN recvs' = [recvs EXCEPT ![w] = recvs[w] + 1]
                                                ELSE recvs' = recvs
             \/ msg' = msg /\ recvs' = [recvs EXCEPT ![w] = recvs[w] + 1]
      PROVE  IInv'
  <2>1. ASSUME NEW v \in Workers
        PROVE  recvs'[v] + Len(cq'[v]) = IF Waiting(v)' THEN 1 ELSE 0
    <3>1. CASE v = w
      <4>1. Len(cq'[w]) = 0
        BY <1>1, <1>2, <1>3 DEF IInv, Shapes
      <4>2. recvs'[w] = IF Waiting(w)' THEN 1 ELSE 0
        <5>1. CASE msg' = msg /\ recvs' = [recvs EXCEPT ![w] = recvs[w] + 1]
          BY <1>1, <1>3, <5>1 DEF IInv, Shapes, Waiting
        <5>2. CASE /\ msg' = [msg EXCEPT ![w] = msg[w] + 1]
                   /\ msg[w] + 1 < Jobs[job[w]] /\ recvs' = [recvs EXCEPT ![w] = recvs[w] + 1]
          <6>1. recvs'[w] = 1 /\ msg'[w] = msg[w] + 1 /\ job'[w] = job[w]
            BY <1>1, <1>3, <5>2 DEF IInv, Shapes
          <6> QED BY <6>1, <1>4, <5>2 DEF Waiting
        <5>3. CASE /\ msg' = [msg EXCEPT ![w] = msg[w] + 1]
                   /\ ~(msg[w] + 1 < Jobs[job[w]]) /\ recvs' = recvs
          <6>1. recvs'[w] = 0 /\ msg'[w] = msg[w] + 1 /\ job'[w] = job[w]
            BY <1>1, <1>3, <5>3 DEF IInv, Shapes
          <6> QED BY <6>1, <1>4, <5>3 DEF Waiting
        <5> QED BY <1>5, <5>1, <5>2, <5>3
      <4> QED BY <4>1, <4>2, <3>1
    <3>2. CASE v # w
      BY <1>1, <1>5, <3>2 DEF IInv, Shapes, OneReceive, Waiting
    <3> QED BY <3>1, <3>2
  <2> QED BY <1>5, <2>1 DEF IInv, OneReceive
<1>8. cq' \in [Workers -> Seq(MsgIds)]
  BY <1>1, <1>2 DEF IInv, Shapes
<1>9. ASSUME msg' = [msg EXCEPT ![w] = msg[w] + 1]
      PROVE  /\ msg' \in [Workers -> Nat]
             /\ \A v \in Workers : msg'[v] <= IF job'[v] = 0 THEN 0 ELSE Jobs[job'[v]]
  <2>1. msg[w] + 1 \in Nat /\ msg[w] + 1 <= Jobs[job[w]] /\ job[w] # 0
    BY <1>4
  <2>2. msg' \in [Workers -> Nat]
    BY <1>9, <2>1 DEF IInv, Shapes
  <2>3. ASSUME NEW v \in Workers
        PROVE  msg'[v] <= IF job'[v] = 0 THEN 0 ELSE Jobs[job'[v]]
    <3>1. msg[v] <= IF job[v] = 0 THEN 0 ELSE Jobs[job[v]]
      BY DEF IInv, Shapes
    <3>2. msg'[v] = IF v = w THEN msg[w] + 1 ELSE msg[v]
      BY <1>9 DEF IInv, Shapes
    <3> QED BY <3>1, <3>2, <2>1, <1>1
  <2> QED BY <2>2, <2>3
<1>6. CASE Accept(w)
  <2>1. msg' = [msg EXCEPT ![w] = msg[w] + 1]
    BY <1>6 DEF Accept
  <2>2. CASE msg[w] + 1 < Jobs[job[w]]
    <3>1. recvs' = [recvs EXCEPT ![w] = recvs[w] + 1] /\ PostSend(w, job[w], msg[w] + 1)
      BY <1>6, <2>2 DEF Accept
    <3>2. /\ poolBit' \in [Workers -> Sets] /\ buf' \in [Workers -> [Parts -> Data]]
          /\ up' \in [Workers -> Seq(Packet)] /\ UplinkInOrder'
      <4>1. msg[w] + 1 \in MsgIds
        <5>1. job[w] \in JobIds /\ msg[w] + 1 \in Nat
          BY <1>4 DEF JobIds
        <5> QED BY <5>1, <2>2, MessageType
      <4> QED BY <1>1, <3>1, <4>1, PostSendTypes
    <3>3. Shapes'
      <4>2. recvs' \in [Workers -> Nat]
        BY <1>3, <3>1 DEF IInv, Shapes
      <4> QED BY <1>1, <1>8, <1>9, <2>1, <3>2, <4>2 DEF IInv, Shapes
    <3> QED BY <1>5, <2>1, <2>2, <3>1, <3>2, <3>3
  <2>3. CASE ~(msg[w] + 1 < Jobs[job[w]])
    <3>1. UNCHANGED <<recvs, poolBit, buf, up>>
      BY <1>6, <2>3 DEF Accept
    <3>3. Shapes'
      BY <1>1, <1>8, <1>9, <2>1, <3>1 DEF IInv, Shapes
    <3>4. UplinkInOrder'
      BY <1>1, <3>1 DEF IInv, UplinkInOrder
    <3> QED BY <1>5, <2>1, <2>3, <3>1, <3>3, <3>4
  <2> QED BY <2>2, <2>3
<1>7. CASE Discard(w)
  <2>1. recvs' = [recvs EXCEPT ![w] = recvs[w] + 1] /\ UNCHANGED <<msg, poolBit, buf, up>>
    BY <1>7 DEF Discard
  <2>2. recvs' \in [Workers -> Nat]
    BY <1>4, <2>1 DEF IInv, Shapes
  <2>3. Shapes'
    BY <1>1, <1>8, <2>1, <2>2 DEF IInv, Shapes
  <2>4. UplinkInOrder'
    BY <1>1, <2>1 DEF IInv, UplinkInOrder
  <2> QED BY <1>5, <2>1, <2>3, <2>4
<1> QED BY <1>6, <1>7 DEF PollCompletion

-----------------------------------------------------------------------------
(* The switch, the NIC and the links *)

\* The head of the uplink meets the register that expects it.
LEMMA RegisterCounts ==
  ASSUME IInv, NEW w \in Workers, up[w] # <<>>
  PROVE  /\ Head(up[w]) = up[w][1] /\ up[w][1] \in Packet
         /\ ReceiveRoce(rx[w], Head(up[w])) \in Register
         /\ \/ ReceiveRoce(rx[w], Head(up[w])).error
            \/ /\ ReceiveRoce(rx[w], Head(up[w])).part = up[w][1].part
               /\ ReceiveRoce(rx[w], Head(up[w])).set = up[w][1].set
<1> DEFINE p == up[w][1]
<1>1. up[w] \in Seq(Packet) /\ rx[w] \in Register
  BY DEF IInv, Shapes
<1>2. Head(up[w]) = p /\ p \in Packet
  <2>1. Len(up[w]) \in Nat \ {0}
    BY <1>1, LenProperties, EmptySeq
  <2> QED BY <1>1, <2>1, ElementOfSeq, HeadTailProperties
<1>3. p.part \in Parts /\ p.part \in Nat /\ p.set \in Sets
  BY <1>2, FirstParts DEF Packet
<1>4. rx[w].error \/ Follows(rx[w], p)
  BY DEF IInv, UplinkInOrder, Expected
<1> HIDE DEF p
<1>5. CASE p.part = 0
  <2>1. ReceiveRoce(rx[w], p) = [part |-> 0, set |-> p.set, error |-> FALSE]
    BY <1>5 DEF ReceiveRoce
  <2>2. /\ ReceiveRoce(rx[w], p) \in Register
        /\ ReceiveRoce(rx[w], p).part = p.part /\ ReceiveRoce(rx[w], p).set = p.set
    BY <1>3, <1>5, <2>1 DEF Register
  <2> QED BY <1>2, <2>2 DEF p
<1>6. CASE p.part # 0 /\ (p.gap \/ rx[w].error)
  <2>1. ReceiveRoce(rx[w], p) = [rx[w] EXCEPT !.error = TRUE]
    BY <1>6 DEF ReceiveRoce
  <2>2. ASSUME NEW g \in BOOLEAN
        PROVE  /\ [rx[w] EXCEPT !.error = g] \in Register
               /\ [rx[w] EXCEPT !.error = g].error = g
    BY <1>1, <2>2 DEF Register
  <2>3. TRUE \in BOOLEAN
    OBVIOUS
  <2>4. ReceiveRoce(rx[w], p) \in Register
        /\ ReceiveRoce(rx[w], p).error = TRUE
    BY <2>1, <2>2, <2>3, Zenon
  <2> QED BY <1>2, <2>4 DEF p
<1>7. CASE p.part # 0 /\ ~p.gap /\ ~rx[w].error
  <2>1. ReceiveRoce(rx[w], p) = [rx[w] EXCEPT !.part = rx[w].part + 1]
    BY <1>7 DEF ReceiveRoce
  <2>2. p.part = rx[w].part + 1 /\ p.set = rx[w].set
    BY <1>4, <1>7 DEF Follows
  <2>3. ReceiveRoce(rx[w], p) = [rx[w] EXCEPT !.part = p.part]
    BY <2>1, <2>2
  <2>4. /\ ReceiveRoce(rx[w], p) \in Register /\ ReceiveRoce(rx[w], p).part = p.part
        /\ ReceiveRoce(rx[w], p).set = p.set
    BY <1>1, <1>3, <2>2, <2>3 DEF Register
  <2> QED BY <1>2, <2>4 DEF p
<1> QED BY <1>5, <1>6, <1>7

\* A packet that has passed the receiver leaves the uplink in order.
LEMMA ReceivedKeepsOrder ==
  ASSUME IInv, NEW w \in Workers, up[w] # <<>>,
         up' = [up EXCEPT ![w] = Tail(@)],
         rx' = [rx EXCEPT ![w] = ReceiveRoce(@, Head(up[w]))]
  PROVE  /\ up' \in [Workers -> Seq(Packet)]
         /\ rx' \in [Workers -> Register]
         /\ UplinkInOrder'
<1> DEFINE r == ReceiveRoce(rx[w], Head(up[w]))
           t == Tail(up[w])
<1>1. r \in Register /\ (r.error \/ (r.part = up[w][1].part /\ r.set = up[w][1].set))
  BY RegisterCounts
<1>2. up[w] \in Seq(Packet) /\ Contiguous(up[w])
  BY DEF IInv, Shapes, UplinkInOrder
<1>3. up' = [up EXCEPT ![w] = t] /\ rx' = [rx EXCEPT ![w] = r]
  OBVIOUS
<1> HIDE DEF r
<1>4. t \in Seq(Packet) /\ Contiguous(t) /\ Expected(r, t)
  BY <1>1, <1>2, TailInOrder
<1> HIDE DEF t
<1>5. /\ up' \in [Workers -> Seq(Packet)]
      /\ rx' \in [Workers -> Register]
  <2>1. up \in [Workers -> Seq(Packet)]
    BY DEF IInv, Shapes
  <2>2. rx \in [Workers -> Register]
    BY DEF IInv, Shapes
  <2>3. up' \in [Workers -> Seq(Packet)]
    BY <1>3, <1>4, <2>1
  <2>4. rx' \in [Workers -> Register]
    BY <1>1, <1>3, <2>2
  <2> QED BY <2>3, <2>4
<1>6. ASSUME NEW v \in Workers
      PROVE  Contiguous(up[v])' /\ Expected(rx[v], up[v])'
  <2>1. /\ up'[v] = IF v = w THEN t ELSE up[v]
        /\ rx'[v] = IF v = w THEN r ELSE rx[v]
    BY <1>3 DEF IInv, Shapes
  <2>2. Contiguous(up[v]) /\ Expected(rx[v], up[v])
    BY DEF IInv, UplinkInOrder
  <2>3. CASE v = w
    BY <1>4, <2>1, <2>3
  <2>4. CASE v # w
    BY <2>1, <2>2, <2>4
  <2> QED BY <2>3, <2>4
<1>7. UplinkInOrder'
  BY <1>6 DEF UplinkInOrder
<1> QED BY <1>5, <1>7

LEMMA SequenceViolationIInv ==
  ASSUME IInv, NEW w \in Workers, SequenceViolation(w)
  PROVE  IInv'
<1>1. /\ up[w] # <<>> /\ up' = [up EXCEPT ![w] = Tail(@)]
      /\ rx' = [rx EXCEPT ![w] = ReceiveRoce(@, Head(up[w]))]
      /\ UNCHANGED <<job, msg, poolBit, buf, recvs, cq, nic, down, downGap, bitmap, count,
                     value>>
  BY DEF SequenceViolation, workerVars, memoryVars, downVars, slotVars
<1>2. /\ up' \in [Workers -> Seq(Packet)]
      /\ rx' \in [Workers -> Register]
      /\ UplinkInOrder'
  BY <1>1, ReceivedKeepsOrder
<1> QED BY <1>1, <1>2 DEF IInv, Shapes, OneReceive, Waiting

\* A packet that is not dropped goes to a slot, and results have their types.
LEMMA AggregateIInv ==
  ASSUME IInv, NEW w \in Workers, Aggregate(w)
  PROVE  IInv'
<1> DEFINE p      == Head(up[w])
           r      == ReceiveRoce(rx[w], p)
           before == bitmap[r.part][r.set]
           seen   == MapResult(before, w)
           flag   == FirstLastFlag(count[r.part][r.set], seen)
           sum    == RegisterAfter(before, seen, value[r.part][r.set], p.val)
           step   == IF NextStepConsume0(flag, seen) = "recirculate_for_HARVEST7"
                     THEN NextStepHarvest7(flag, seen) ELSE "drop"
           To(v)  == step = "broadcast" \/ (step = "retransmit" /\ v = w)
<1>1. /\ up[w] # <<>> /\ ~r.error /\ up' = [up EXCEPT ![w] = Tail(@)]
      /\ rx' = [rx EXCEPT ![w] = r]
      /\ value' = [value EXCEPT ![r.part][r.set] = sum]
      /\ down' = [v \in Workers |->
             IF To(v) THEN Append(down[v], [part |-> p.part, msg |-> p.msg, set |-> r.set,
                                            val |-> sum, gap |-> downGap[v] /\ p.part > 0])
             ELSE down[v]]
      /\ downGap' = [v \in Workers |-> downGap[v] /\ ~To(v)]
      /\ bitmap' = [bitmap EXCEPT ![r.part] = UpdateBitmap(@, w, r.set)]
      /\ count' = [count EXCEPT ![r.part][r.set] = CountAfter(@, seen)]
      /\ UNCHANGED <<job, msg, poolBit, buf, recvs, cq, nic>>
  BY DEF Aggregate, workerVars, memoryVars
<1>2. /\ up' \in [Workers -> Seq(Packet)]
      /\ rx' \in [Workers -> Register]
      /\ UplinkInOrder'
  BY <1>1, ReceivedKeepsOrder
<1>3. p \in Packet /\ r \in Register /\ r.part = p.part /\ r.set = p.set
  BY <1>1, RegisterCounts
<1>4. seen \in BOOLEAN
  BY DEF MapResult
<1> HIDE DEF p, r, before, seen, flag, step
<1>5. r.part \in Parts /\ r.set \in Sets /\ p.val \in Data /\ p.msg \in MsgIds
  BY <1>3 DEF Packet
<1>6. sum \in Data
  <2>1. value[r.part][r.set] \in Data
    BY <1>5 DEF IInv, Shapes
  <2> QED BY <1>4, <1>5, <2>1, RegisterAfterType
<1> HIDE DEF sum, To
<1>7. value' \in [Parts -> [Sets -> Data]]
  BY <1>1, <1>5, <1>6 DEF IInv, Shapes
<1>8. down' \in [Workers -> Seq(Packet)]
  <2>1. ASSUME NEW v \in Workers
        PROVE  Append(down[v], [part |-> p.part, msg |-> p.msg, set |-> r.set,
                                val |-> sum, gap |-> downGap[v] /\ p.part > 0]) \in Seq(Packet)
    <3>1. down[v] \in Seq(Packet)
      BY DEF IInv, Shapes
    <3>2. ASSUME NEW g \in BOOLEAN
          PROVE  [part |-> p.part, msg |-> p.msg, set |-> r.set, val |-> sum, gap |-> g] \in Packet
      BY <1>3, <1>5, <1>6 DEF Packet
    <3>3. (downGap[v] /\ p.part > 0) \in BOOLEAN
      OBVIOUS
    <3>4. [part |-> p.part, msg |-> p.msg, set |-> r.set, val |-> sum,
           gap |-> downGap[v] /\ p.part > 0] \in Packet
      BY <3>2, <3>3, Zenon
    <3> QED BY <3>1, <3>4, AppendProperties, Zenon
  <2>2. \A v \in Workers : down[v] \in Seq(Packet)
    BY DEF IInv, Shapes
  <2> QED BY <1>1, <2>1, <2>2, Zenon
<1>9. downGap' \in [Workers -> BOOLEAN]
  BY <1>1
<1>10. bitmap' \in [Parts -> [Sets -> SUBSET Workers]]
  <2>1. UpdateBitmap(bitmap[r.part], w, r.set) \in [Sets -> SUBSET Workers]
    BY <1>5 DEF UpdateBitmap, IInv, Shapes
  <2> QED BY <1>1, <2>1 DEF IInv, Shapes
<1>11. count' \in [Parts -> [Sets -> Nat]]
  <2>1. count[r.part] \in [Sets -> Nat] /\ count[r.part][r.set] \in Nat
    BY <1>5 DEF IInv, Shapes
  <2>2. CountAfter(count[r.part][r.set], seen) \in Nat
    BY <2>1, WorkersCount DEF CountAfter
  <2>3. count' = [count EXCEPT ![r.part] =
                    [count[r.part] EXCEPT ![r.set] = CountAfter(count[r.part][r.set], seen)]]
    BY <1>1
  <2>4. [count[r.part] EXCEPT ![r.set] = CountAfter(count[r.part][r.set], seen)] \in [Sets -> Nat]
    BY <2>1, <2>2
  <2> QED BY <2>3, <2>4 DEF IInv, Shapes
<1> QED BY <1>1, <1>2, <1>7, <1>8, <1>9, <1>10, <1>11 DEF IInv, Shapes, OneReceive, Waiting

LEMMA NicReceiveIInv ==
  ASSUME IInv, NEW w \in Workers, NicReceive(w)
  PROVE  IInv'
<1> DEFINE p    == Head(down[w])
           i    == IF p.part = 0 THEN 0 ELSE nic[w]
           last == p.part = PktsPerMsg - 1
           good == p.part = 0 \/ (~p.gap /\ i > 0 /\ (last <=> i = PktsPerMsg - 1))
<1>1. /\ down[w] # <<>> /\ down' = [down EXCEPT ![w] = Tail(down[w])]
      /\ IF good THEN buf' = [buf EXCEPT ![w][i] = p.val] ELSE UNCHANGED buf
      /\ IF good /\ last /\ recvs[w] > 0
         THEN /\ recvs' = [recvs EXCEPT ![w] = recvs[w] - 1]
              /\ cq' = [cq EXCEPT ![w] = Append(cq[w], p.msg)]
         ELSE UNCHANGED <<recvs, cq>>
      /\ nic' = [nic EXCEPT ![w] = IF good /\ ~last THEN i + 1 ELSE 0]
      /\ UNCHANGED <<job, msg, poolBit, up, downGap, rx, bitmap, count, value>>
  BY DEF NicReceive, workerVars, slotVars
<1>2. down[w] \in Seq(Packet) /\ cq[w] \in Seq(MsgIds) /\ recvs[w] \in Nat
  BY DEF IInv, Shapes
<1>3. p \in Packet /\ Tail(down[w]) \in Seq(Packet)
  BY <1>1, <1>2, HeadTailProperties
<1>10. nic' \in [Workers -> Parts]
  <2>1. p.part \in Parts /\ nic[w] \in Parts /\ nic \in [Workers -> Parts]
    BY <1>3 DEF Packet, IInv, Shapes
  <2> HIDE DEF p
  <2>2. i \in Parts
    BY <2>1, FirstParts
  <2>3. good /\ ~last => i # PktsPerMsg - 1
    <3>1. CASE p.part = 0
      BY <3>1
    <3>2. CASE p.part # 0
      BY <3>2
    <3> QED BY <3>1, <3>2
  <2> HIDE DEF i, good, last
  <2>4. (IF good /\ ~last THEN i + 1 ELSE 0) \in Parts
    BY <2>2, <2>3, RdmaAssumption DEF Parts
  <2> QED BY <1>1, <2>1, <2>4
<1> HIDE DEF p, i, last, good
<1>4. p.val \in Data /\ p.msg \in MsgIds
  BY <1>3 DEF Packet
<1>5. buf' \in [Workers -> [Parts -> Data]]
  <2>1. buf[w] \in [Parts -> Data] /\ buf \in [Workers -> [Parts -> Data]]
    BY DEF IInv, Shapes
  <2>2. [buf[w] EXCEPT ![i] = p.val] \in [Parts -> Data]
    BY <1>4, <2>1
  <2>3. CASE good
    <3>1. buf' = [buf EXCEPT ![w] = [buf[w] EXCEPT ![i] = p.val]]
      BY <1>1, <2>3
    <3> QED BY <2>1, <2>2, <3>1
  <2>4. CASE ~good
    BY <1>1, <2>1, <2>4
  <2> QED BY <2>3, <2>4
<1>6. down' \in [Workers -> Seq(Packet)]
  BY <1>1, <1>3 DEF IInv, Shapes
<1>7. /\ Append(cq[w], p.msg) \in Seq(MsgIds)
      /\ Len(Append(cq[w], p.msg)) = Len(cq[w]) + 1 /\ Len(cq[w]) \in Nat
  BY <1>2, <1>4, AppendProperties, LenProperties
<1>8. cq' \in [Workers -> Seq(MsgIds)] /\ recvs' \in [Workers -> Nat]
  <2>1. cq \in [Workers -> Seq(MsgIds)] /\ recvs \in [Workers -> Nat]
    BY DEF IInv, Shapes
  <2>2. CASE good /\ last /\ recvs[w] > 0
    <3>1. recvs[w] - 1 \in Nat
      BY <1>2, <2>2
    <3>2. /\ cq' = [cq EXCEPT ![w] = Append(cq[w], p.msg)]
          /\ recvs' = [recvs EXCEPT ![w] = recvs[w] - 1]
      BY <1>1, <2>2
    <3>3. cq' \in [Workers -> Seq(MsgIds)]
      BY <1>7, <2>1, <3>2
    <3>4. recvs' \in [Workers -> Nat]
      BY <2>1, <3>1, <3>2
    <3> QED BY <3>3, <3>4
  <2>3. CASE ~(good /\ last /\ recvs[w] > 0)
    <3>1. cq' = cq /\ recvs' = recvs
      BY <1>1, <2>3
    <3> QED BY <2>1, <3>1
  <2> QED BY <2>2, <2>3
<1>9. OneReceive'
  <2>1. ASSUME NEW v \in Workers
        PROVE  recvs'[v] + Len(cq'[v]) = recvs[v] + Len(cq[v])
    <3>1. CASE v = w /\ good /\ last /\ recvs[w] > 0
      <4>1. recvs'[v] = recvs[w] - 1 /\ Len(cq'[v]) = Len(cq[w]) + 1
        BY <1>1, <1>7, <3>1 DEF IInv, Shapes
      <4>2. ASSUME NEW a \in Nat, NEW b \in Nat
            PROVE  (a - 1) + (b + 1) = a + b
        BY <4>2
      <4>3. recvs[w] \in Nat /\ Len(cq[w]) \in Nat /\ v = w
        BY <3>1, <1>2, <1>7
      <4> QED BY <4>1, <4>2, <4>3
    <3>2. CASE ~(v = w /\ good /\ last /\ recvs[w] > 0)
      BY SMTT(30), <1>1, <3>2 DEF IInv, Shapes
    <3> QED BY <3>1, <3>2
  <2> QED BY <1>1, <2>1 DEF IInv, OneReceive, Waiting
<1> QED BY <1>1, <1>5, <1>6, <1>8, <1>9, <1>10 DEF IInv, Shapes, UplinkInOrder

LEMMA LoseUplinkIInv ==
  ASSUME IInv, NEW w \in Workers, LoseUplink(w)
  PROVE  IInv'
<1>1. /\ up[w] # <<>> /\ up' = [up EXCEPT ![w] = AfterLoss(up[w])]
      /\ UNCHANGED <<job, msg, poolBit, buf, recvs, cq, nic, down, downGap, rx, bitmap, count,
                     value>>
  BY DEF LoseUplink, workerVars, memoryVars, downVars, slotVars
<1>2. up[w] \in Seq(Packet) /\ Contiguous(up[w])
  BY DEF IInv, Shapes, UplinkInOrder
<1>3. /\ AfterLoss(up[w]) \in Seq(Packet) /\ Contiguous(AfterLoss(up[w]))
      /\ Expected(rx[w], AfterLoss(up[w]))
  BY <1>1, <1>2, LossInOrder
<1>4. up' \in [Workers -> Seq(Packet)] /\ UplinkInOrder'
  BY <1>1, <1>3 DEF IInv, Shapes, UplinkInOrder
<1> QED BY <1>1, <1>4 DEF IInv, Shapes, OneReceive, Waiting

LEMMA LoseDownlinkIInv ==
  ASSUME IInv, NEW w \in Workers, LoseDownlink(w)
  PROVE  IInv'
<1>1. /\ down[w] # <<>> /\ down' = [down EXCEPT ![w] = AfterLoss(down[w])]
      /\ downGap' = [downGap EXCEPT ![w] = downGap[w] \/ Len(down[w]) = 1]
      /\ UNCHANGED <<job, msg, poolBit, buf, recvs, cq, nic, up, rx, bitmap, count, value>>
  BY DEF LoseDownlink, workerVars, memoryVars, slotVars
<1>2. down[w] \in Seq(Packet)
  BY DEF IInv, Shapes
<1>3. AfterLoss(down[w]) \in Seq(Packet)
  BY <1>1, <1>2, LossInOrder
<1>4. down' \in [Workers -> Seq(Packet)]
  BY <1>1, <1>3 DEF IInv, Shapes
<1>5. downGap' \in [Workers -> BOOLEAN]
  <2>1. (downGap[w] \/ Len(down[w]) = 1) \in BOOLEAN
    OBVIOUS
  <2> QED BY <1>1, <2>1, Zenon DEF IInv, Shapes
<1> QED BY <1>1, <1>4, <1>5 DEF IInv, Shapes, OneReceive, Waiting, UplinkInOrder

LEMMA NextIInv == IInv /\ [Next]_vars => IInv'
<1> SUFFICES ASSUME IInv, [Next]_vars PROVE IInv'
  OBVIOUS
<1>1. CASE UNCHANGED vars
  BY <1>1 DEF vars, workerVars, memoryVars, downVars, slotVars, IInv, Shapes, OneReceive,
              Waiting, UplinkInOrder
<1>2. ASSUME NEW w \in Workers,
             \/ StartSlice(w) \/ Timeout(w) \/ PollCompletion(w)
             \/ Switch(w) \/ NicReceive(w) \/ LoseUplink(w) \/ LoseDownlink(w)
      PROVE  IInv'
  BY <1>2, StartSliceIInv, TimeoutIInv, PollCompletionIInv, SequenceViolationIInv,
     AggregateIInv, NicReceiveIInv, LoseUplinkIInv, LoseDownlinkIInv DEF Switch
<1>3. CASE Done
  BY <1>1, <1>3 DEF Done
<1> QED BY <1>1, <1>2, <1>3 DEF Next

-----------------------------------------------------------------------------

\* The inductive invariant: receive requests stand for the awaited result, and
\* along each uplink packets are in order or marked, starting with the one that
\* the switch's register expects.
THEOREM InductiveInvariant == Spec => []IInv
BY InitIInv, NextIInv, PTL DEF Spec

\* One receive work request or one completion stands for the result a queue pair
\* waits for, and none for a queue pair that does not wait
\* (RdmaWorkerThread: post_recv_wr before each send and after each duplicate).
THEOREM ReceivesMatch == Spec => []OneReceive
<1>1. IInv => OneReceive
  BY DEF IInv
<1> QED BY <1>1, InductiveInvariant, PTL

\* The register of RDMAReceiver names the part of every packet it lets through.
THEOREM PartsAreCounted == Spec => []PartsCounted
<1>1. IInv => PartsCounted
  <2> SUFFICES ASSUME IInv, NEW w \in Workers, up[w] # <<>>
               PROVE  ~ReceiveRoce(rx[w], Head(up[w])).error =>
                        ReceiveRoce(rx[w], Head(up[w])).part = Head(up[w]).part
    BY DEF PartsCounted
  <2> QED BY RegisterCounts
<1> QED BY <1>1, InductiveInvariant, PTL

-----------------------------------------------------------------------------
(* Turns: where a worker is, and what the switch has of it *)

\* The message w waits for, or has got last, and the message that comes next.
Sent(w)   == <<job[w], IF Waiting(w) THEN msg[w] ELSE msg[w] - 1>>
NextOf(m) == IF m[1] > 0 /\ m[2] + 1 < Jobs[m[1]] THEN <<m[1], m[2] + 1>>
             ELSE <<m[1] + 1, 0>>
Nowhere   == <<0, -1>>
Places    == Messages \cup {Nowhere}

\* The switch has w's part i of the message Sent(w), or the part of everybody.
Has(w, i)    == w \in bitmap[i][poolBit[w]]
Summed(w, i) == Has(w, i) /\ count[i][poolBit[w]] = 0
AllSummed(w) == \A i \in Parts : Summed(w, i)

\* Two workers are at the same message, or one is waiting for the next one.
Turns ==
  \A v, w \in Workers :
    \/ Sent(v) = Sent(w) /\ poolBit[v] = poolBit[w]
    \/ Sent(w) = NextOf(Sent(v)) /\ Waiting(w) /\ poolBit[w] = 1 - poolBit[v]
    \/ Sent(v) = NextOf(Sent(w)) /\ Waiting(v) /\ poolBit[w] = 1 - poolBit[v]

\* Nothing is under way before the first message.
Quiet == \A w \in Workers : job[w] = 0 => up[w] = <<>> /\ down[w] = <<>>

\* Nobody has the result of a message that is not summed for everybody.
Past ==
  \A v, w \in Workers :
    /\ job[w] > 0
    /\ Sent(v) = NextOf(Sent(w)) \/ (Sent(v) = Sent(w) /\ ~Waiting(v))
    => AllSummed(w)

OneBit == \A w \in Workers, i \in Parts : ~(w \in bitmap[i][0] /\ w \in bitmap[i][1])

\* Some workers have added part i of m, and everybody who has got there waits.
Filling(i, b, m) ==
  /\ bitmap[i][b] # {} /\ count[i][b] > 0
  /\ count[i][b] = NumWorkers - Cardinality(bitmap[i][b])
  /\ \A v \in Workers : \/ Waiting(v) /\ Sent(v) = m /\ poolBit[v] = b
                        \/ NextOf(Sent(v)) = m /\ v \notin bitmap[i][b]

\* All workers have; some may be one message ahead.
Full(i, b, m) ==
  /\ bitmap[i][b] # {} /\ count[i][b] = 0
  /\ \A v \in Workers :
       \/ Sent(v) = m /\ poolBit[v] = b /\ v \in bitmap[i][b]
       \/ /\ Sent(v) = NextOf(m) /\ poolBit[v] = 1 - b
          /\ v \in bitmap[i][b] \/ v \in bitmap[i][1 - b]

Slots ==
  \A i \in Parts, b \in Sets :
    \/ bitmap[i][b] = {} /\ count[i][b] = 0
    \/ \E m \in Messages : Filling(i, b, m) \/ Full(i, b, m)

InOrder ==
  \A w \in Workers : \A i, k \in Parts : i < k /\ Has(w, k) => Has(w, i)

\* Packets of the message w is at, and of the one before while w waits: these have
\* another id.
Current(w, q) == q.set = poolBit[w] /\ q.msg = Sent(w)[2]
Old(w, q)     == q.set = 1 - poolBit[w] /\ Waiting(w) /\ q.msg # msg[w]

OldFirst(link, b) ==
  \A x, y \in 1 .. Len(link) : x < y /\ link[x].set = b => link[y].set = b

UpFollows(w) ==
  /\ \A n \in 1 .. Len(up[w]) :
       \/ Current(w, up[w][n])
       \/ Old(w, up[w][n]) /\ \A i \in Parts : w \in bitmap[i][1 - poolBit[w]]
  /\ OldFirst(up[w], poolBit[w])
  /\ /\ up[w] # <<>> /\ up[w][1].set = poolBit[w] /\ up[w][1].part > 0
     /\ ~up[w][1].gap /\ ~rx[w].error
     => \A x \in Parts : x < up[w][1].part => Has(w, x)

DownFollows(w) ==
  /\ \A n \in 1 .. Len(down[w]) :
       \/ Current(w, down[w][n]) /\ Summed(w, down[w][n].part)
       \/ Old(w, down[w][n])
  /\ OldFirst(down[w], poolBit[w])

\* What a completion with the expected id stands for.
CqFollows(w) ==
  Waiting(w) =>
    \A n \in 1 .. Len(cq[w]) : cq[w][n] = msg[w] =>
      /\ AllSummed(w)
      /\ \A x \in 1 .. Len(down[w]) : down[w][x].set = poolBit[w]

SwitchInv == Turns /\ Past /\ OneBit /\ Slots /\ InOrder

TurnsInv ==
  /\ SwitchInv /\ Quiet
  /\ \A w \in Workers : UpFollows(w) /\ DownFollows(w) /\ CqFollows(w)

LEMMA BitsType ==
  ASSUME NEW b \in Sets
  PROVE  1 - b \in Sets /\ 1 - b # b /\ 1 - (1 - b) = b /\ b \in Int
         /\ \A c \in Sets : c = b \/ c = 1 - b
BY DEF Sets

LEMMA MessagesPairs ==
  ASSUME NEW m \in Messages
  PROVE  /\ m = <<m[1], m[2]>> /\ m[1] \in JobIds /\ m[1] \in Nat /\ m[1] > 0
         /\ m[2] \in Nat /\ m[2] < Jobs[m[1]] /\ Jobs[m[1]] \in Nat \ {0}
<1>1. PICK j \in JobIds : m \in {j} \X (0 .. Jobs[j] - 1)
  BY DEF Messages
<1>2. j \in Nat /\ j > 0 /\ Jobs[j] \in Nat \ {0}
  BY RdmaAssumption, ElementOfSeq DEF JobIds
<1>3. m = <<m[1], m[2]>> /\ m[1] = j /\ m[2] \in 0 .. Jobs[j] - 1
  BY <1>1
<1> QED BY <1>2, <1>3

LEMMA SentType ==
  ASSUME Shapes, NEW w \in Workers
  PROVE  /\ Sent(w) \in Places /\ Sent(w)[1] = job[w] /\ job[w] \in Nat
         /\ Sent(w)[2] = (IF Waiting(w) THEN msg[w] ELSE msg[w] - 1)
         /\ job[w] > 0 => Sent(w) \in Messages
         /\ job[w] = 0 => Sent(w) = Nowhere /\ ~Waiting(w)
<1>1. /\ job[w] \in Nat /\ msg[w] \in Nat
      /\ job[w] # 0 => /\ job[w] \in JobIds /\ Jobs[job[w]] \in Nat \ {0}
                       /\ msg[w] <= Jobs[job[w]]
      /\ job[w] = 0 => msg[w] = 0
  BY WaitingType
<1>2. Sent(w)[1] = job[w] /\ Sent(w)[2] = (IF Waiting(w) THEN msg[w] ELSE msg[w] - 1)
  BY DEF Sent
<1>3. CASE job[w] = 0
  <2>1. ~Waiting(w)
    BY <1>3 DEF Waiting
  <2>2. msg[w] - 1 = -1
    BY <1>1, <1>3
  <2>3. Sent(w) = Nowhere
    BY <1>3, <2>1, <2>2 DEF Sent, Nowhere
  <2> QED BY <1>1, <1>2, <1>3, <2>1, <2>3 DEF Places
<1>4. CASE job[w] # 0
  <2>1. (IF Waiting(w) THEN msg[w] ELSE msg[w] - 1) \in Nat
    BY <1>1, <1>4 DEF Waiting
  <2>2. (IF Waiting(w) THEN msg[w] ELSE msg[w] - 1) < Jobs[job[w]]
    BY <1>1, <1>4 DEF Waiting
  <2>3. Sent(w) \in Messages
    BY <1>1, <1>4, <2>1, <2>2, MessageType DEF Sent
  <2> QED BY <1>1, <1>2, <1>4, <2>3 DEF Places
<1> QED BY <1>3, <1>4

LEMMA NextOrder ==
  ASSUME NEW m \in Places
  PROVE  /\ NextOf(m) # m /\ NextOf(NextOf(m)) # m /\ NextOf(m) # Nowhere
         /\ NextOf(NextOf(m)) # NextOf(m)
         /\ \A n \in Places : NextOf(m) = NextOf(n) => m = n
<1>1. ASSUME NEW n \in Places
      PROVE  /\ n = <<n[1], n[2]>> /\ n[1] \in Nat /\ n[2] \in Int
             /\ \/ n[1] = 0 /\ n[2] = -1
                \/ n[1] > 0 /\ n[2] >= 0 /\ Jobs[n[1]] \in Nat /\ n[2] < Jobs[n[1]]
  <2>1. CASE n \in Messages
    BY <2>1, MessagesPairs
  <2>2. CASE n = Nowhere
    BY <2>2 DEF Nowhere
  <2> QED BY <2>1, <2>2 DEF Places
<1>2. ASSUME NEW n, n[1] \in Nat, n[2] \in Int
      PROVE  /\ NextOf(n)[1] \in Nat /\ NextOf(n)[2] \in Int
             /\ \/ NextOf(n)[1] = n[1] /\ NextOf(n)[2] = n[2] + 1 /\ n[1] > 0
                   /\ n[2] + 1 < Jobs[n[1]]
                \/ NextOf(n)[1] = n[1] + 1 /\ NextOf(n)[2] = 0
                   /\ ~(n[1] > 0 /\ n[2] + 1 < Jobs[n[1]])
  <2>1. CASE n[1] > 0 /\ n[2] + 1 < Jobs[n[1]]
    <3>1. NextOf(n) = <<n[1], n[2] + 1>>
      BY <2>1 DEF NextOf
    <3> QED BY <1>2, <2>1, <3>1
  <2>2. CASE ~(n[1] > 0 /\ n[2] + 1 < Jobs[n[1]])
    <3>1. NextOf(n) = <<n[1] + 1, 0>>
      BY <2>2 DEF NextOf
    <3> QED BY <1>2, <2>2, <3>1
  <2> QED BY <2>1, <2>2
<1>3. m[1] \in Nat /\ m[2] \in Int
  BY <1>1
<1>4. NextOf(m)[1] \in Nat /\ NextOf(m)[2] \in Int
  BY <1>2, <1>3
<1>5. NextOf(m) # m
  BY <1>2, <1>3
<1>6. NextOf(NextOf(m)) # m
  <2>1. NextOf(m)[1] > m[1] \/ (NextOf(m)[1] = m[1] /\ NextOf(m)[2] > m[2])
    BY <1>2, <1>3
  <2>2. \/ NextOf(NextOf(m))[1] > NextOf(m)[1]
        \/ NextOf(NextOf(m))[1] = NextOf(m)[1] /\ NextOf(NextOf(m))[2] > NextOf(m)[2]
    BY <1>2, <1>4
  <2>3. NextOf(NextOf(m))[1] \in Nat /\ NextOf(NextOf(m))[2] \in Int
    BY <1>2, <1>4
  <2> QED BY <1>3, <1>4, <2>1, <2>2, <2>3
<1>7. NextOf(m) # Nowhere
  <2>1. Nowhere[1] = 0
    BY DEF Nowhere
  <2> QED BY <2>1, <1>2, <1>3
<1>8. ASSUME NEW n \in Places, NextOf(m) = NextOf(n)
      PROVE  m = n
  <2>1. n[1] \in Nat /\ n[2] \in Int
    BY <1>1
  <2>2. m[1] = n[1] /\ m[2] = n[2]
    BY <1>1, <1>2, <1>3, <1>8, <2>1
  <2> QED BY <1>1, <2>2
<1>9. NextOf(NextOf(m)) # NextOf(m)
  BY <1>2, <1>4
<1> QED BY <1>5, <1>6, <1>7, <1>8, <1>9

-----------------------------------------------------------------------------
(* What a bit of the current message tells *)

\* A slot that has a bit of the current message of w is about that message.
LEMMA MemberOfSlot ==
  ASSUME Shapes, Slots, NEW w \in Workers, NEW i \in Parts, Has(w, i)
  PROVE  /\ Sent(w) \in Messages /\ job[w] > 0
         /\ Filling(i, poolBit[w], Sent(w)) \/ Full(i, poolBit[w], Sent(w))
<1>1. poolBit[w] \in Sets /\ bitmap[i][poolBit[w]] # {} /\ poolBit[w] # 1 - poolBit[w]
  BY BitsType DEF Has, Shapes
<1>2. PICK m \in Messages : Filling(i, poolBit[w], m) \/ Full(i, poolBit[w], m)
  BY <1>1 DEF Slots
<1>3. Sent(w) = m
  <2>1. CASE Filling(i, poolBit[w], m)
    BY <2>1 DEF Filling, Has
  <2>2. CASE Full(i, poolBit[w], m)
    BY <2>2, <1>1 DEF Full
  <2> QED BY <1>2, <2>1, <2>2
<1>4. job[w] > 0
  BY <1>3, SentType, MessagesPairs
<1> QED BY <1>2, <1>3, <1>4

LEMMA SummedSlot ==
  ASSUME Shapes, Slots, NEW w \in Workers, NEW i \in Parts, Summed(w, i)
  PROVE  Sent(w) \in Messages /\ job[w] > 0 /\ Full(i, poolBit[w], Sent(w))
<1>1. ~Filling(i, poolBit[w], Sent(w))
  BY DEF Filling, Summed
<1> QED BY <1>1, MemberOfSlot DEF Summed

\* When the switch has everybody's parts of the message of w, everybody is at that
\* message, with all parts, or waits for the next one.
LEMMA EverybodySummed ==
  ASSUME Shapes, Turns, Slots, NEW w \in Workers, AllSummed(w), NEW v \in Workers
  PROVE  /\ Sent(w) \in Messages /\ job[w] > 0
         /\ \/ Sent(v) = Sent(w) /\ poolBit[v] = poolBit[w] /\ AllSummed(v)
            \/ Sent(v) = NextOf(Sent(w)) /\ Waiting(v) /\ poolBit[v] = 1 - poolBit[w]
<1>1. \A i \in Parts : Full(i, poolBit[w], Sent(w))
  BY SummedSlot DEF AllSummed
<1>2. Sent(w) \in Messages /\ job[w] > 0
  BY FirstParts, SummedSlot DEF AllSummed
<1>3. poolBit[w] \in Sets /\ poolBit[v] \in Sets /\ Sent(v) \in Places /\ Sent(w) \in Places
  BY SentType DEF Shapes
<1>4. NextOf(Sent(w)) # Sent(w)
  BY <1>3, NextOrder
<1>5. CASE Sent(v) = Sent(w)
  <2>1. \A i \in Parts : poolBit[v] = poolBit[w] /\ v \in bitmap[i][poolBit[w]]
                         /\ count[i][poolBit[w]] = 0
    BY <1>1, <1>4, <1>5 DEF Full
  <2> QED BY <1>2, <1>5, <2>1, FirstParts DEF AllSummed, Summed, Has
<1>6. CASE Sent(v) # Sent(w)
  <2>1. Sent(v) = NextOf(Sent(w))
    BY <1>1, <1>6, FirstParts DEF Full
  <2>2. Sent(w) # NextOf(Sent(v))
    BY <2>1, <1>3, NextOrder
  <2>3. Waiting(v) /\ poolBit[w] = 1 - poolBit[v]
    BY <2>1, <2>2, <1>6 DEF Turns
  <2> QED BY <1>2, <1>3, <2>1, <2>3, BitsType
<1> QED BY <1>5, <1>6

\* Nobody has another bit of the slot then.
LEMMA OtherBitClear ==
  ASSUME OneBit, Shapes, NEW w \in Workers, NEW i \in Parts, NEW b \in Sets,
         w \in bitmap[i][b]
  PROVE  w \notin bitmap[i][1 - b]
BY DEF OneBit, Sets

\* The parts of a message are summed in order.
LEMMA SummedBelow ==
  ASSUME Shapes, Slots, InOrder, NEW w \in Workers, NEW i \in Parts, NEW k \in Parts,
         i < k, Summed(w, k)
  PROVE  Summed(w, i)
<1>1. Sent(w) \in Messages /\ Full(k, poolBit[w], Sent(w))
  BY SummedSlot
<1>2. Has(w, i) /\ poolBit[w] \in Sets /\ Sent(w) \in Places
  BY SentType DEF InOrder, Summed, Shapes
<1>3. SUFFICES ASSUME Filling(i, poolBit[w], Sent(w)) PROVE FALSE
  BY <1>2, MemberOfSlot DEF Summed, Full
<1>4. NextOf(Sent(w)) # Sent(w) /\ NextOf(NextOf(Sent(w))) # Sent(w)
  BY <1>2, NextOrder
<1>5. \A v \in Workers : v \in bitmap[i][poolBit[w]]
  <2> TAKE v \in Workers
  <2>1. CASE Sent(v) = Sent(w) /\ poolBit[v] = poolBit[w] /\ v \in bitmap[k][poolBit[w]]
    BY <2>1 DEF InOrder, Has
  <2>2. CASE Sent(v) = NextOf(Sent(w))
    BY <2>2, <1>3, <1>4 DEF Filling
  <2> QED BY <1>1, <2>1, <2>2 DEF Full
<1>6. bitmap[i][poolBit[w]] = Workers
  <2>1. bitmap[i][poolBit[w]] \in SUBSET Workers
    BY <1>2 DEF Shapes
  <2> QED BY <2>1, <1>5
<1>7. count[i][poolBit[w]] = NumWorkers - NumWorkers /\ count[i][poolBit[w]] > 0
  BY <1>3, <1>6 DEF Filling, NumWorkers
<1> QED BY <1>7, WorkersCount

\* The last part of a message is summed last.
LEMMA LastSummed ==
  ASSUME Shapes, Slots, InOrder, NEW w \in Workers, Summed(w, PktsPerMsg - 1)
  PROVE  AllSummed(w)
<1> SUFFICES ASSUME NEW i \in Parts PROVE Summed(w, i)
  BY DEF AllSummed
<1>1. i = PktsPerMsg - 1 \/ i < PktsPerMsg - 1
  BY RdmaAssumption DEF Parts
<1> QED BY <1>1, FirstParts, SummedBelow

\* A worker that has sent nothing has no bits.
LEMMA NoBitsYet ==
  ASSUME Shapes, Slots, NEW w \in Workers, job[w] = 0, NEW i \in Parts, NEW b \in Sets
  PROVE  w \notin bitmap[i][b]
<1> SUFFICES ASSUME w \in bitmap[i][b] PROVE FALSE
  OBVIOUS
<1>1. PICK m \in Messages : Filling(i, b, m) \/ Full(i, b, m)
  BY DEF Slots
<1>2. Sent(w) = Nowhere /\ ~Waiting(w)
  BY SentType
<1>3. m # Nowhere
  BY MessagesPairs DEF Nowhere
<1>4. NextOf(m) # Nowhere
  BY NextOrder DEF Places
<1> QED BY <1>1, <1>2, <1>3, <1>4 DEF Filling, Full

-----------------------------------------------------------------------------
(* A worker goes on to the next message *)

MayGoOn(w) == job[w] = 0 \/ AllSummed(w)

GoesOn(w) ==
  /\ Sent(w)' = NextOf(Sent(w)) /\ Waiting(w)' /\ job'[w] > 0
  /\ poolBit' = [poolBit EXCEPT ![w] = 1 - poolBit[w]]
  /\ \A v \in Workers \ {w} :
       Sent(v)' = Sent(v) /\ (Waiting(v)' <=> Waiting(v)) /\ job'[v] = job[v]
  /\ UNCHANGED <<bitmap, count>>

\* ... or has the last message of its slice.
Stops(w) ==
  /\ \A v \in Workers : Sent(v)' = Sent(v) /\ (Waiting(v)' <=> (Waiting(v) /\ v # w))
  /\ UNCHANGED <<job, poolBit, bitmap, count>>

LEMMA NobodyBehind ==
  ASSUME Shapes, SwitchInv, NEW w \in Workers, MayGoOn(w), NEW v \in Workers
  PROVE  \/ /\ Sent(v) = Sent(w) /\ poolBit[v] = poolBit[w]
            /\ job[v] > 0 => AllSummed(v)
         \/ Sent(v) = NextOf(Sent(w)) /\ Waiting(v) /\ poolBit[v] = 1 - poolBit[w]
<1>1. CASE job[w] = 0
  <2>1. Sent(w) = Nowhere /\ Sent(v) \in Places
    BY <1>1, SentType
  <2>2. Sent(w) # NextOf(Sent(v))
    BY <2>1, NextOrder
  <2>3. poolBit[v] \in Sets /\ poolBit[w] \in Sets
    BY DEF Shapes
  <2>4. Sent(v) = Sent(w) => job[v] = 0
    BY <1>1, SentType
  <2> QED BY <2>2, <2>3, <2>4, BitsType DEF SwitchInv, Turns
<1>2. CASE AllSummed(w)
  BY <1>2, EverybodySummed DEF SwitchInv
<1> QED BY <1>1, <1>2 DEF MayGoOn

\* A slot that is filled lacks w.
LEMMA FillingLacks ==
  ASSUME Shapes, SwitchInv, NEW w \in Workers, MayGoOn(w),
         NEW i \in Parts, NEW b \in Sets, NEW m, Filling(i, b, m)
  PROVE  NextOf(Sent(w)) = m /\ w \notin bitmap[i][b] /\ b = 1 - poolBit[w]
<1>1. ~(Waiting(w) /\ Sent(w) = m /\ poolBit[w] = b)
  <2> SUFFICES ASSUME Waiting(w), Sent(w) = m, poolBit[w] = b PROVE FALSE
    OBVIOUS
  <2>1. job[w] # 0
    BY SentType
  <2> QED BY <2>1 DEF MayGoOn, AllSummed, Summed, Filling
<1>2. NextOf(Sent(w)) = m /\ w \notin bitmap[i][b]
  BY <1>1 DEF Filling
<1>3. PICK x \in Workers : x \in bitmap[i][b]
  BY DEF Filling, Shapes
<1>4. Sent(x) = m /\ poolBit[x] = b
  BY <1>3 DEF Filling
<1>5. NextOf(Sent(w)) # Sent(w)
  BY SentType, NextOrder
<1>6. poolBit[x] = 1 - poolBit[w]
  BY <1>2, <1>4, <1>5, NobodyBehind
<1> QED BY <1>2, <1>4, <1>6

\* A slot that is full is that of the message w leaves.
LEMMA FullIsLeft ==
  ASSUME Shapes, SwitchInv, NEW w \in Workers, MayGoOn(w),
         NEW i \in Parts, NEW b \in Sets, NEW m \in Messages, Full(i, b, m)
  PROVE  Sent(w) = m /\ poolBit[w] = b /\ w \in bitmap[i][b]
<1> SUFFICES ASSUME Sent(w) = NextOf(m), poolBit[w] = 1 - b PROVE FALSE
  BY DEF Full
<1>1. m \in Places /\ NextOf(m) # Nowhere /\ NextOf(NextOf(m)) # m /\ NextOf(m) # m
  BY NextOrder DEF Places
<1>2. Sent(w) \in Places /\ NextOf(Sent(w)) # Sent(w) /\ job[w] # 0
  BY <1>1, SentType, NextOrder
<1>3. AllSummed(w)
  BY <1>2 DEF MayGoOn
<1>4. \A v \in Workers : v \notin bitmap[i][b]
  <2> TAKE v \in Workers
  <2>1. CASE Sent(v) = Sent(w) /\ poolBit[v] = poolBit[w] /\ AllSummed(v)
    <3>1. v \in bitmap[i][1 - b]
      BY <2>1 DEF AllSummed, Summed, Has
    <3> QED BY <3>1, OtherBitClear DEF SwitchInv
  <2>2. CASE Sent(v) = NextOf(Sent(w))
    BY <2>2, <1>1, <1>2 DEF Full
  <2> QED BY <1>3, <2>1, <2>2, EverybodySummed DEF SwitchInv
<1>5. bitmap[i][b] \in SUBSET Workers /\ bitmap[i][b] # {}
  <2>1. bitmap \in [Parts -> [Sets -> SUBSET Workers]]
    BY DEF Shapes
  <2>2. bitmap[i][b] # {}
    BY DEF Full
  <2> QED BY <2>1, <2>2
<1> QED BY <1>4, <1>5

LEMMA GoesOnSwitch ==
  ASSUME Shapes, SwitchInv, NEW w \in Workers, MayGoOn(w), GoesOn(w)
  PROVE  SwitchInv'
<1>1. \A v \in Workers : /\ Sent(v) \in Places /\ poolBit[v] \in Sets
                         /\ poolBit'[v] = IF v = w THEN 1 - poolBit[w] ELSE poolBit[v]
                         /\ 1 - poolBit[v] # poolBit[v] /\ 1 - (1 - poolBit[v]) = poolBit[v]
  BY SentType, BitsType DEF Shapes, GoesOn
<1>2. \A v \in Workers : /\ NextOf(Sent(v)) # Sent(v) /\ NextOf(NextOf(Sent(v))) # Sent(v)
  BY <1>1, NextOrder
<1>3. Turns'
  <2>1. ASSUME NEW v \in Workers, v # w
        PROVE  \/ Sent(v)' = Sent(w)' /\ poolBit'[v] = poolBit'[w]
               \/ Sent(w)' = NextOf(Sent(v)') /\ Waiting(w)' /\ poolBit'[w] = 1 - poolBit'[v]
    <3>1. Sent(v)' = Sent(v)
      BY <2>1 DEF GoesOn
    <3>2. CASE Sent(v) = Sent(w) /\ poolBit[v] = poolBit[w]
      BY <3>1, <3>2, <1>1, <2>1 DEF GoesOn
    <3>3. CASE Sent(v) = NextOf(Sent(w)) /\ poolBit[v] = 1 - poolBit[w]
      BY <3>1, <3>3, <1>1, <2>1 DEF GoesOn
    <3> QED BY <3>2, <3>3, NobodyBehind
  <2>2. ASSUME NEW v \in Workers, NEW u \in Workers, v # w, u # w
        PROVE  \/ Sent(v)' = Sent(u)' /\ poolBit'[v] = poolBit'[u]
               \/ Sent(u)' = NextOf(Sent(v)') /\ Waiting(u)' /\ poolBit'[u] = 1 - poolBit'[v]
               \/ Sent(v)' = NextOf(Sent(u)') /\ Waiting(v)' /\ poolBit'[u] = 1 - poolBit'[v]
    BY <2>2, <1>1 DEF GoesOn, SwitchInv, Turns
  <2>3. ASSUME NEW v \in Workers, NEW u \in Workers
        PROVE  \/ Sent(v)' = Sent(u)' /\ poolBit'[v] = poolBit'[u]
               \/ Sent(u)' = NextOf(Sent(v)') /\ Waiting(u)' /\ poolBit'[u] = 1 - poolBit'[v]
               \/ Sent(v)' = NextOf(Sent(u)') /\ Waiting(v)' /\ poolBit'[u] = 1 - poolBit'[v]
    <3>1. CASE v = w /\ u = w
      BY <3>1
    <3>2. CASE v # w /\ u = w
      BY <3>2, <2>1
    <3>3. CASE v = w /\ u # w
      <4>1. \/ Sent(u)' = Sent(w)' /\ poolBit'[u] = poolBit'[w]
            \/ Sent(w)' = NextOf(Sent(u)') /\ Waiting(w)' /\ poolBit'[w] = 1 - poolBit'[u]
        BY <3>3, <2>1
      <4>2. poolBit'[w] = 1 - poolBit'[u] => poolBit'[u] = 1 - poolBit'[w]
        BY <1>1, <3>3
      <4> QED BY <3>3, <4>1, <4>2
    <3>4. CASE v # w /\ u # w
      BY <3>4, <2>2
    <3> QED BY <3>1, <3>2, <3>3, <3>4
  <2> QED BY <2>3 DEF Turns
<1>4. Past'
  <2>1. ASSUME NEW v \in Workers, NEW u \in Workers, job'[u] > 0,
               Sent(v)' = NextOf(Sent(u)') \/ (Sent(v)' = Sent(u)' /\ ~Waiting(v)')
        PROVE  AllSummed(u)'
    <3>1. CASE u = w
      <4>1. v # w
        <5>1. Sent(w)' = NextOf(Sent(w)) /\ Waiting(w)'
          BY DEF GoesOn
        <5>2. NextOf(NextOf(Sent(w))) # NextOf(Sent(w))
          BY <1>1, NextOrder
        <5> QED BY <5>1, <5>2, <2>1, <3>1
      <4>2. Sent(v)' = Sent(v) /\ (Waiting(v)' <=> Waiting(v)) /\ Sent(w)' = NextOf(Sent(w))
        BY <4>1 DEF GoesOn
      <4>3. Sent(v) = Sent(w) \/ (Sent(v) = NextOf(Sent(w)) /\ Waiting(v))
        BY NobodyBehind
      <4>4. NextOf(NextOf(Sent(w))) # Sent(w) /\ NextOf(Sent(w)) # Sent(w)
        BY <1>2
      <4>5. Sent(v) # NextOf(NextOf(Sent(w)))
        <5>1. CASE Sent(v) = Sent(w)
          BY <5>1, <4>4
        <5>2. CASE Sent(v) = NextOf(Sent(w))
          BY <5>2, <1>2
        <5> QED BY <4>3, <5>1, <5>2
      <4> QED BY <2>1, <3>1, <4>2, <4>3, <4>4, <4>5
    <3>2. CASE u # w
      <4>1. Sent(u)' = Sent(u) /\ job'[u] = job[u] /\ poolBit'[u] = poolBit[u]
        BY <3>2, <1>1 DEF GoesOn
      <4>2. AllSummed(u)' <=> AllSummed(u)
        BY <4>1 DEF AllSummed, Summed, Has, GoesOn
      <4>3. CASE v = w
        <5>1. NextOf(Sent(w)) = NextOf(Sent(u))
          BY <4>1, <4>3, <2>1 DEF GoesOn
        <5>2. Sent(u) = Sent(w)
          BY <5>1, <1>1, NextOrder
        <5>3. NextOf(Sent(w)) # Sent(w)
          BY <1>2
        <5> QED BY <5>2, <5>3, <4>1, <4>2, <2>1, NobodyBehind
      <4>4. CASE v # w
        <5>1. Sent(v)' = Sent(v) /\ (Waiting(v)' <=> Waiting(v))
          BY <4>4 DEF GoesOn
        <5> QED BY <2>1, <4>1, <4>2, <5>1 DEF SwitchInv, Past
      <4> QED BY <4>3, <4>4
    <3> QED BY <3>1, <3>2
  <2> QED BY <2>1 DEF Past
<1>5. OneBit'
  BY DEF OneBit, SwitchInv, GoesOn
<1>6. Slots'
  <2> SUFFICES ASSUME NEW i \in Parts, NEW b \in Sets,
                      ~(bitmap[i][b] = {} /\ count[i][b] = 0)
               PROVE  \E m \in Messages : Filling(i, b, m)' \/ Full(i, b, m)'
    BY DEF Slots, GoesOn
  <2>1. PICK m \in Messages : Filling(i, b, m) \/ Full(i, b, m)
    BY DEF SwitchInv, Slots
  <2>2. CASE Filling(i, b, m)
    <3>1. NextOf(Sent(w)) = m /\ w \notin bitmap[i][b] /\ b = 1 - poolBit[w]
      BY <2>2, FillingLacks
    <3>2. ASSUME NEW v \in Workers
          PROVE  \/ Waiting(v)' /\ Sent(v)' = m /\ poolBit'[v] = b
                 \/ NextOf(Sent(v)') = m /\ v \notin bitmap'[i][b]
      <4>1. CASE v = w
        BY <3>1, <4>1, <1>1 DEF GoesOn
      <4>2. CASE v # w
        BY <4>2, <2>2, <1>1 DEF GoesOn, Filling
      <4> QED BY <4>1, <4>2
    <3>3. Filling(i, b, m)'
      BY <2>2, <3>2 DEF Filling, GoesOn
    <3> QED BY <3>3
  <2>3. CASE Full(i, b, m)
    <3>1. Sent(w) = m /\ poolBit[w] = b /\ w \in bitmap[i][b]
      BY <2>3, FullIsLeft
    <3>2. ASSUME NEW v \in Workers
          PROVE  \/ Sent(v)' = m /\ poolBit'[v] = b /\ v \in bitmap'[i][b]
                 \/ /\ Sent(v)' = NextOf(m) /\ poolBit'[v] = 1 - b
                    /\ v \in bitmap'[i][b] \/ v \in bitmap'[i][1 - b]
      <4>1. CASE v = w
        BY <3>1, <4>1, <1>1 DEF GoesOn
      <4>2. CASE v # w
        BY <4>2, <2>3, <1>1 DEF GoesOn, Full
      <4> QED BY <4>1, <4>2
    <3>3. Full(i, b, m)'
      BY <2>3, <3>2 DEF Full, GoesOn
    <3> QED BY <3>3
  <2> QED BY <2>1, <2>2, <2>3
<1>7. InOrder'
  <2> SUFFICES ASSUME NEW v \in Workers, NEW i \in Parts, NEW k \in Parts, i < k, Has(v, k)'
               PROVE  Has(v, i)'
    BY DEF InOrder
  <2>1. CASE v # w
    <3>1. poolBit'[v] = poolBit[v]
      BY <2>1, <1>1
    <3> QED BY <3>1 DEF SwitchInv, InOrder, Has, GoesOn
  <2>2. CASE v = w
    <3>1. w \in bitmap[k][1 - poolBit[w]]
      BY <2>2, <1>1 DEF Has, GoesOn
    <3>2. CASE job[w] = 0
      BY <3>1, <3>2, <1>1, BitsType, NoBitsYet DEF SwitchInv
    <3>3. CASE AllSummed(w)
      <4>1. w \in bitmap[k][poolBit[w]]
        BY <3>3 DEF AllSummed, Summed, Has
      <4> QED BY <3>1, <4>1, <1>1, OtherBitClear DEF SwitchInv
    <3> QED BY <3>2, <3>3 DEF MayGoOn
  <2> QED BY <2>1, <2>2
<1> QED BY <1>3, <1>4, <1>5, <1>6, <1>7 DEF SwitchInv

LEMMA StopsSwitch ==
  ASSUME Shapes, SwitchInv, NEW w \in Workers, AllSummed(w), Stops(w)
  PROVE  SwitchInv'
<1>1. \A v \in Workers : Sent(v)' = Sent(v) /\ poolBit'[v] = poolBit[v] /\ job'[v] = job[v]
  BY DEF Stops
<1>2. MayGoOn(w) /\ job[w] > 0
  BY EverybodySummed DEF MayGoOn, SwitchInv
<1>3. Sent(w) \in Places /\ NextOf(Sent(w)) # Sent(w)
  BY SentType, NextOrder
<1>4. Turns'
  <2>1. ASSUME NEW v \in Workers, NEW u \in Workers, Sent(u) = NextOf(Sent(v)), Waiting(u)
        PROVE  Waiting(u)'
    <3>1. CASE u = w
      <4>1. NextOf(NextOf(Sent(v))) # Sent(v) /\ NextOf(Sent(v)) # Sent(v)
        BY SentType, NextOrder
      <4> QED BY <2>1, <3>1, <4>1, <1>2, NobodyBehind
    <3>2. CASE u # w
      BY <2>1, <3>2 DEF Stops
    <3> QED BY <3>1, <3>2
  <2> QED BY <1>1, <2>1 DEF SwitchInv, Turns
<1>5. Past'
  <2>1. ASSUME NEW v \in Workers, NEW u \in Workers, job'[u] > 0,
               Sent(v)' = NextOf(Sent(u)') \/ (Sent(v)' = Sent(u)' /\ ~Waiting(v)')
        PROVE  AllSummed(u)'
    <3>1. AllSummed(u)' <=> AllSummed(u)
      BY <1>1 DEF AllSummed, Summed, Has, Stops
    <3>2. CASE Sent(v) = Sent(u) /\ v = w
      BY <3>1, <3>2, <1>2, <1>3, EverybodySummed DEF SwitchInv
    <3>3. CASE ~(Sent(v) = Sent(u) /\ v = w)
      <4>1. job[u] > 0 /\ (Sent(v) = NextOf(Sent(u)) \/ (Sent(v) = Sent(u) /\ ~Waiting(v)))
        BY <1>1, <2>1, <3>3 DEF Stops
      <4> QED BY <3>1, <4>1 DEF SwitchInv, Past
    <3> QED BY <3>2, <3>3
  <2> QED BY <2>1 DEF Past
<1>6. OneBit' /\ InOrder'
  BY <1>1 DEF OneBit, SwitchInv, Stops, InOrder, Has
<1>7. Slots'
  <2> SUFFICES ASSUME NEW i \in Parts, NEW b \in Sets,
                      ~(bitmap[i][b] = {} /\ count[i][b] = 0)
               PROVE  \E m \in Messages : Filling(i, b, m)' \/ Full(i, b, m)'
    BY DEF Slots, Stops
  <2>1. PICK m \in Messages : Filling(i, b, m) \/ Full(i, b, m)
    BY DEF SwitchInv, Slots
  <2>2. CASE Filling(i, b, m)
    <3>1. NextOf(Sent(w)) = m /\ w \notin bitmap[i][b]
      BY <1>2, <2>2, FillingLacks
    <3>2. Filling(i, b, m)'
      BY <2>2, <3>1 DEF Filling, Stops
    <3> QED BY <3>2
  <2>3. CASE Full(i, b, m)
    <3>1. Full(i, b, m)'
      BY <2>3 DEF Full, Stops
    <3> QED BY <3>1
  <2> QED BY <2>1, <2>2, <2>3
<1> QED BY <1>4, <1>5, <1>6, <1>7 DEF SwitchInv

-----------------------------------------------------------------------------
(* What is on the links *)

LEMMA PacketsElements ==
  ASSUME NEW k \in MsgIds, NEW bit \in Sets, NEW data \in [Parts -> Data]
  PROVE  /\ Packets(k, bit, data) \in Seq(Packet)
         /\ Len(Packets(k, bit, data)) = PktsPerMsg
         /\ \A i \in 1 .. PktsPerMsg :
              /\ i - 1 \in Parts
              /\ Packets(k, bit, data)[i].part = i - 1
              /\ Packets(k, bit, data)[i].msg = k
              /\ Packets(k, bit, data)[i].set = bit
              /\ Packets(k, bit, data)[i].val = data[i - 1]
              /\ ~Packets(k, bit, data)[i].gap
<1> DEFINE ps == Packets(k, bit, data)
<1>1. ps \in Seq(Packet)
  BY PacketsInOrder
<1>2. PktsPerMsg \in Nat /\ Len(ps) = PktsPerMsg
  BY RdmaAssumption DEF Packets
<1>3. \A i \in 1 .. PktsPerMsg : i - 1 \in Parts
  BY RdmaAssumption DEF Parts
<1>4. \A i \in 1 .. PktsPerMsg : ps[i].part = i - 1 /\ ps[i].msg = k /\ ps[i].set = bit
  BY DEF Packets
<1>5. \A i \in 1 .. PktsPerMsg : ps[i].val = data[i - 1]
  BY DEF Packets
<1>6. \A i \in 1 .. PktsPerMsg : ~ps[i].gap
  BY DEF Packets
<1> QED BY <1>1, <1>2, <1>3, <1>4, <1>5, <1>6

LEMMA TailElements ==
  ASSUME NEW s \in Seq(Packet), s # <<>>
  PROVE  /\ Len(s) \in Nat \ {0} /\ Tail(s) \in Seq(Packet) /\ Len(Tail(s)) = Len(s) - 1
         /\ Head(s) = s[1] /\ s[1] \in Packet
         /\ \A n \in 1 .. Len(Tail(s)) : n + 1 \in 1 .. Len(s) /\ Tail(s)[n] = s[n + 1]
<1>1. Len(s) \in Nat \ {0}
  BY LenProperties, EmptySeq
<1>2. /\ Tail(s) \in Seq(Packet) /\ Len(Tail(s)) = Len(s) - 1
      /\ \A n \in 1 .. Len(s) - 1 : Tail(s)[n] = s[n + 1]
  BY HeadTailProperties
<1>3. Head(s) = s[1] /\ s[1] \in Packet
  BY <1>1, ElementOfSeq, HeadTailProperties
<1> QED BY <1>1, <1>2, <1>3

LEMMA LossElements ==
  ASSUME NEW s \in Seq(Packet), s # <<>>
  PROVE  /\ AfterLoss(s) \in Seq(Packet) /\ Len(AfterLoss(s)) = Len(s) - 1
         /\ Len(s) \in Nat \ {0}
         /\ \A n \in 1 .. Len(AfterLoss(s)) :
              /\ n + 1 \in 1 .. Len(s)
              /\ AfterLoss(s)[n].part = s[n + 1].part /\ AfterLoss(s)[n].set = s[n + 1].set
              /\ AfterLoss(s)[n].msg = s[n + 1].msg /\ AfterLoss(s)[n].val = s[n + 1].val
              /\ n = 1 => AfterLoss(s)[n].part = 0 \/ AfterLoss(s)[n].gap
              /\ n # 1 => AfterLoss(s)[n] = s[n + 1]
<1> DEFINE u == AfterLoss(s)
<1>1. Len(s) \in Nat \ {0} /\ \A i \in 1 .. Len(s) : s[i] \in Packet
  BY LenProperties, EmptySeq, ElementOfSeq
<1>2. u \in Seq(Packet)
  BY LossInOrder
<1>3. Len(u) = Len(s) - 1
  BY <1>1 DEF AfterLoss
<1>4. \A i \in 1 .. Len(s) - 1 :
        /\ u[i] = IF i = 1 THEN Marked(s[2]) ELSE s[i + 1]
        /\ i + 1 \in 1 .. Len(s)
  BY <1>1 DEF AfterLoss
<1> HIDE DEF u
<1>5. ASSUME NEW n \in 1 .. Len(s) - 1
      PROVE  /\ n + 1 \in 1 .. Len(s)
             /\ u[n].part = s[n + 1].part /\ u[n].set = s[n + 1].set
             /\ u[n].msg = s[n + 1].msg /\ u[n].val = s[n + 1].val
             /\ n = 1 => u[n].part = 0 \/ u[n].gap
             /\ n # 1 => u[n] = s[n + 1]
  <2>1. CASE n = 1
    <3>1. u[n] = Marked(s[n + 1]) /\ s[n + 1] \in Packet
      BY <1>1, <1>4, <2>1
    <3> QED BY <1>4, <2>1, <3>1, MarkedType
  <2>2. CASE n # 1
    BY <1>4, <2>2
  <2> QED BY <2>1, <2>2
<1> QED BY <1>1, <1>2, <1>3, <1>5 DEF u

LEMMA ConcatElements ==
  ASSUME NEW s \in Seq(Packet), NEW t \in Seq(Packet)
  PROVE  /\ s \o t \in Seq(Packet) /\ Len(s \o t) = Len(s) + Len(t)
         /\ Len(s) \in Nat /\ Len(t) \in Nat
         /\ \A n \in 1 .. Len(s \o t) :
              \/ n \in 1 .. Len(s) /\ (s \o t)[n] = s[n]
              \/ n > Len(s) /\ n - Len(s) \in 1 .. Len(t) /\ (s \o t)[n] = t[n - Len(s)]
         /\ \A n \in 1 .. Len(s) : n \in 1 .. Len(s \o t) /\ (s \o t)[n] = s[n]
         /\ \A n \in 1 .. Len(t) : Len(s) + n \in 1 .. Len(s \o t) /\ (s \o t)[Len(s) + n] = t[n]
<1>1. /\ s \o t \in Seq(Packet)
      /\ Len(s \o t) = Len(s) + Len(t)
      /\ \A i \in 1 .. Len(s) + Len(t) :
           (s \o t)[i] = IF i <= Len(s) THEN s[i] ELSE t[i - Len(s)]
  BY ConcatProperties
<1>2. Len(s) \in Nat /\ Len(t) \in Nat
  BY LenProperties
<1>3. \A n \in 1 .. Len(t) : (Len(s) + n) - Len(s) = n
  BY <1>2
<1> QED BY <1>1, <1>2, <1>3

LEMMA OldFirstTail ==
  ASSUME NEW s \in Seq(Packet), s # <<>>, NEW b, OldFirst(s, b)
  PROVE  OldFirst(Tail(s), b)
<1>1. \A n \in 1 .. Len(Tail(s)) : n + 1 \in 1 .. Len(s) /\ Tail(s)[n] = s[n + 1]
  BY TailElements
<1>2. SUFFICES ASSUME NEW x \in 1 .. Len(Tail(s)), NEW y \in 1 .. Len(Tail(s)), x < y,
                      Tail(s)[x].set = b
               PROVE  Tail(s)[y].set = b
  BY DEF OldFirst
<1>3. x + 1 < y + 1 /\ s[x + 1].set = b
  BY <1>1, <1>2
<1> QED BY <1>1, <1>3 DEF OldFirst

LEMMA OldFirstLoss ==
  ASSUME NEW s \in Seq(Packet), s # <<>>, NEW b, OldFirst(s, b)
  PROVE  OldFirst(AfterLoss(s), b)
<1> DEFINE u == AfterLoss(s)
<1>1. \A n \in 1 .. Len(u) : n + 1 \in 1 .. Len(s) /\ u[n].set = s[n + 1].set
  BY LossElements
<1> HIDE DEF u
<1>2. SUFFICES ASSUME NEW x \in 1 .. Len(u), NEW y \in 1 .. Len(u), x < y, u[x].set = b
               PROVE  u[y].set = b
  BY DEF OldFirst, u
<1>3. x + 1 < y + 1 /\ s[x + 1].set = b
  BY <1>1, <1>2
<1> QED BY <1>1, <1>3 DEF OldFirst

LEMMA OldFirstConcat ==
  ASSUME NEW s \in Seq(Packet), NEW t \in Seq(Packet), NEW b, OldFirst(s, b),
         \A n \in 1 .. Len(t) : t[n].set = b
  PROVE  OldFirst(s \o t, b)
<1> DEFINE u == s \o t
<1>1. /\ Len(s) \in Nat
      /\ \A n \in 1 .. Len(u) : \/ n \in 1 .. Len(s) /\ u[n] = s[n]
                                \/ n > Len(s) /\ u[n].set = b
  BY ConcatElements
<1> HIDE DEF u
<1>2. SUFFICES ASSUME NEW x \in 1 .. Len(u), NEW y \in 1 .. Len(u), x < y, u[x].set = b
               PROVE  u[y].set = b
  BY DEF OldFirst, u
<1> QED BY <1>1, <1>2 DEF OldFirst

LEMMA OldFirstAppend ==
  ASSUME NEW s \in Seq(Packet), NEW q \in Packet, NEW b, OldFirst(s, b),
         q.set = b \/ \A n \in 1 .. Len(s) : s[n].set # b
  PROVE  OldFirst(Append(s, q), b)
<1> DEFINE u == Append(s, q)
<1>1. /\ Len(s) \in Nat /\ Len(u) = Len(s) + 1
      /\ \A n \in 1 .. Len(u) : \/ n \in 1 .. Len(s) /\ u[n] = s[n]
                                \/ n = Len(s) + 1 /\ u[n] = q
  BY AppendProperties, LenProperties
<1> HIDE DEF u
<1>2. SUFFICES ASSUME NEW x \in 1 .. Len(u), NEW y \in 1 .. Len(u), x < y, u[x].set = b
               PROVE  u[y].set = b
  BY DEF OldFirst, u
<1>3. x \in 1 .. Len(s) /\ u[x] = s[x]
  BY <1>1, <1>2
<1> QED BY <1>1, <1>2, <1>3 DEF OldFirst

\* Nothing changes for v.
LEMMA LinksUnchanged ==
  ASSUME NEW v \in Workers, UpFollows(v), DownFollows(v), CqFollows(v),
         up'[v] = up[v], down'[v] = down[v], cq'[v] = cq[v] \/ cq'[v] = <<>>,
         rx'[v] = rx[v],
         Sent(v)' = Sent(v), Waiting(v)' <=> Waiting(v), msg'[v] = msg[v],
         poolBit'[v] = poolBit[v], UNCHANGED <<bitmap, count>>
  PROVE  UpFollows(v)' /\ DownFollows(v)' /\ CqFollows(v)'
<1>1. \A q : (Current(v, q)' <=> Current(v, q)) /\ (Old(v, q)' <=> Old(v, q))
  BY DEF Current, Old
<1>2. \A i : (Has(v, i)' <=> Has(v, i)) /\ (Summed(v, i)' <=> Summed(v, i))
  BY DEF Has, Summed
<1>3. UpFollows(v)'
  BY <1>1, <1>2 DEF UpFollows
<1>4. DownFollows(v)'
  BY <1>1, <1>2 DEF DownFollows
<1>5. CqFollows(v)'
  <2>1. AllSummed(v)' <=> AllSummed(v)
    BY <1>2 DEF AllSummed
  <2>2. CASE cq'[v] = cq[v]
    BY <2>1, <2>2 DEF CqFollows
  <2>3. CASE cq'[v] = <<>>
    BY <2>3, EmptySeq DEF CqFollows
  <2> QED BY <2>2, <2>3
<1> QED BY <1>3, <1>4, <1>5

-----------------------------------------------------------------------------
(* The worker's steps *)

\* What is under way when w goes on becomes old, and the new message follows it.
LEMMA GoesOnLinks ==
  ASSUME IInv, SwitchInv, NEW w \in Workers, GoesOn(w), NEW data \in [Parts -> Data],
         msg'[w] \in MsgIds, Sent(w)'[2] = msg'[w],
         up' = [up EXCEPT ![w] = @ \o Packets(msg'[w], 1 - poolBit[w], data)],
         cq'[w] = <<>>, down'[w] = down[w],
         \A n \in 1 .. Len(up[w]) : Current(w, up[w][n]),
         \A n \in 1 .. Len(down[w]) : Current(w, down[w][n]),
         \/ up[w] = <<>> /\ down[w] = <<>>
         \/ AllSummed(w) /\ Sent(w)[2] # msg'[w]
  PROVE  UpFollows(w)' /\ DownFollows(w)' /\ CqFollows(w)'
<1> DEFINE ps == Packets(msg'[w], 1 - poolBit[w], data)
           b  == poolBit[w]
<1>1. b \in Sets /\ poolBit'[w] = 1 - b /\ 1 - b \in Sets /\ 1 - (1 - b) = b /\ 1 - b # b
  BY BitsType DEF IInv, Shapes, GoesOn
<1>2. /\ ps \in Seq(Packet) /\ Len(ps) = PktsPerMsg
      /\ \A n \in 1 .. Len(ps) : ps[n].set = 1 - b /\ ps[n].msg = msg'[w] /\ ps[n].part = n - 1
  BY <1>1, PacketsElements
<1>3. up[w] \in Seq(Packet) /\ down[w] \in Seq(Packet) /\ up'[w] = up[w] \o ps
  BY DEF IInv, Shapes
<1> HIDE DEF ps
<1>4. /\ Len(up[w]) \in Nat
      /\ \A n \in 1 .. Len(up'[w]) :
           \/ n \in 1 .. Len(up[w]) /\ up'[w][n] = up[w][n]
           \/ n > Len(up[w]) /\ n - Len(up[w]) \in 1 .. Len(ps)
              /\ up'[w][n] = ps[n - Len(up[w])]
      /\ \A n \in 1 .. Len(up[w]) : up'[w][n] = up[w][n]
  BY <1>2, <1>3, ConcatElements
<1>5. Waiting(w)' /\ Sent(w)'[2] = msg'[w]
  BY DEF GoesOn
<1>6. ASSUME NEW q, Current(w, q), ~(up[w] = <<>> /\ down[w] = <<>>)
      PROVE  q.set = b /\ q.msg # msg'[w]
  BY <1>6 DEF Current
<1>7. \A n \in 1 .. Len(up[w]) :
        up[w][n].set = b /\ up[w][n].msg # msg'[w]
  <2> TAKE n \in 1 .. Len(up[w])
  <2>1. up[w] # <<>>
    BY EmptySeq
  <2> QED BY <1>6, <2>1
<1>8. ASSUME up[w] # <<>>, NEW i \in Parts
      PROVE  w \in bitmap'[i][1 - poolBit'[w]]
  BY <1>1, <1>8 DEF AllSummed, Summed, Has, GoesOn
<1>9. UpFollows(w)'
  <2>1. ASSUME NEW n \in 1 .. Len(up'[w])
        PROVE  (\/ Current(w, up[w][n])
                \/ Old(w, up[w][n]) /\ \A i \in Parts : w \in bitmap[i][1 - poolBit[w]])'
    <3>1. CASE n \in 1 .. Len(up[w]) /\ up'[w][n] = up[w][n]
      <4>1. up[w] # <<>>
        BY <3>1, EmptySeq
      <4>2. /\ up'[w][n].set = 1 - poolBit'[w]
            /\ up'[w][n].msg # msg'[w]
        BY <1>1, <1>7, <3>1
      <4> QED BY <1>5, <1>8, <4>1, <4>2 DEF Old
    <3>2. CASE n - Len(up[w]) \in 1 .. Len(ps) /\ up'[w][n] = ps[n - Len(up[w])]
      <4>1. up'[w][n].set = poolBit'[w] /\ up'[w][n].msg = msg'[w]
        BY <1>1, <1>2, <3>2
      <4> QED BY <1>5, <4>1 DEF Current
    <3> QED BY <1>4, <3>1, <3>2
  <2>2. OldFirst(up[w], poolBit[w])'
    <3>1. OldFirst(up[w], 1 - b)
      BY <1>1, <1>7 DEF OldFirst
    <3>2. OldFirst(up[w] \o ps, 1 - b)
      BY <1>2, <1>3, <3>1, OldFirstConcat
    <3> QED BY <1>1, <1>3, <3>2 DEF OldFirst
  <2>3. up'[w][1].set # poolBit'[w] \/ up'[w][1].part = 0
    <3>1. CASE up[w] = <<>>
      <4>1. Len(up[w]) = 0 /\ 1 \in 1 .. Len(ps)
        BY <1>2, <3>1, EmptySeq, RdmaAssumption
      <4>2. Len(up[w]) + 1 = 1 /\ (up[w] \o ps)[Len(up[w]) + 1] = ps[1]
        BY <1>2, <1>3, <4>1, ConcatElements
      <4>3. ps[1].part = 0
        <5>1. ps[1].part = 1 - 1
          BY <1>2, <4>1
        <5>2. 1 - 1 = 0
          OBVIOUS
        <5> QED BY <5>1, <5>2, Zenon
      <4>4. up'[w][1] = ps[1]
        <5>1. (up[w] \o ps)[1] = ps[1]
          BY <4>2
        <5> QED BY <1>3, <5>1
      <4> QED BY <4>3, <4>4, Zenon
    <3>2. CASE up[w] # <<>>
      <4>1. 1 \in 1 .. Len(up[w])
        BY <3>2, <1>3, TailElements
      <4>2. up'[w][1].set = b
        BY <1>4, <1>7, <4>1
      <4> QED BY <1>1, <4>2
    <3> QED BY <3>1, <3>2
  <2>4. ~(up'[w][1].set = poolBit'[w] /\ up'[w][1].part > 0)
    <3>1. ~(0 > 0)
      OBVIOUS
    <3> QED BY <2>3, <3>1
  <2> QED BY <2>1, <2>2, <2>4 DEF UpFollows
<1>10. DownFollows(w)'
  <2>1. ASSUME NEW n \in 1 .. Len(down'[w])
        PROVE  Old(w, down[w][n])'
    <3>1. n \in 1 .. Len(down[w]) /\ down[w] # <<>>
      BY <2>1, EmptySeq
    <3>2. /\ down'[w][n].set = 1 - poolBit'[w]
          /\ down'[w][n].msg # msg'[w]
      BY <1>1, <1>6, <3>1
    <3> QED BY <1>5, <3>2 DEF Old
  <2>2. OldFirst(down[w], poolBit[w])'
    <3>1. \A n \in 1 .. Len(down'[w]) : down'[w][n].set # poolBit'[w]
      BY <1>1, <2>1 DEF Old
    <3> QED BY <3>1 DEF OldFirst
  <2> QED BY <2>1, <2>2 DEF DownFollows
<1>11. CqFollows(w)'
  BY EmptySeq DEF CqFollows
<1> QED BY <1>9, <1>10, <1>11

LEMMA QuietLinks ==
  ASSUME TurnsInv, NEW w \in Workers, \A v \in Workers : job'[v] > 0 \/ job'[v] = job[v],
         \A v \in Workers \ {w} : up'[v] = up[v] /\ down'[v] = down[v],
         job'[w] > 0
  PROVE  Quiet'
BY DEF TurnsInv, Quiet

\* The types of StartSlice and Accept, put in terms of the last message and the next.
LEMMA StartSliceGoesOn ==
  ASSUME IInv, TurnsInv, NEW w \in Workers, StartSlice(w)
  PROVE  /\ GoesOn(w) /\ MayGoOn(w) /\ Sent(w)'[2] = msg'[w] /\ msg'[w] = 0 /\ 0 \in MsgIds
         /\ \A v \in Workers : job'[v] > 0 \/ job'[v] = job[v]
<1>1. ~Waiting(w) /\ job[w] < Len(Jobs) /\ job[w] \in Nat /\ Len(Jobs) \in Nat
  BY WaitingType DEF StartSlice, IInv
<1>2. /\ job' = [job EXCEPT ![w] = job[w] + 1] /\ msg' = [msg EXCEPT ![w] = 0]
      /\ poolBit' = [poolBit EXCEPT ![w] = 1 - poolBit[w]]
      /\ UNCHANGED <<bitmap, count>>
  BY DEF StartSlice, PostSend, slotVars
<1>3. /\ job[w] + 1 \in JobIds /\ Jobs[job[w] + 1] \in Nat \ {0}
  BY <1>1, RdmaAssumption, ElementOfSeq DEF JobIds
<1>4. 0 \in MsgIds
  <2>1. 0 \in Nat /\ 0 < Jobs[job[w] + 1]
    BY <1>3
  <2> QED BY <1>3, <2>1, MessageType
<1>5. \A v \in Workers :
        /\ job'[v] = IF v = w THEN job[w] + 1 ELSE job[v]
        /\ msg'[v] = IF v = w THEN 0 ELSE msg[v]
  BY <1>2 DEF IInv, Shapes
<1>6. Waiting(w)' /\ job'[w] > 0
  BY <1>1, <1>3, <1>5 DEF Waiting
<1>7. \A v \in Workers \ {w} : Sent(v)' = Sent(v) /\ (Waiting(v)' <=> Waiting(v))
  BY <1>5 DEF Sent, Waiting
<1>8. Sent(w)' = <<job[w] + 1, 0>>
  BY <1>5, <1>6 DEF Sent
<1>9. NextOf(Sent(w)) = <<job[w] + 1, 0>>
  <2>1. /\ Sent(w)[1] = job[w]
        /\ Sent(w)[2] = msg[w] - 1
    BY <1>1, SentType DEF IInv
  <2>2. ~(job[w] > 0 /\ (msg[w] - 1) + 1 < Jobs[job[w]])
    <3>1. msg[w] \in Nat /\ (job[w] > 0 => ~(msg[w] < Jobs[job[w]]))
      BY <1>1, WaitingType DEF IInv, Waiting
    <3>2. (msg[w] - 1) + 1 = msg[w]
      BY <3>1
    <3> QED BY <3>1, <3>2
  <2> QED BY <2>1, <2>2 DEF NextOf
<1>10. MayGoOn(w)
  <2>1. CASE job[w] # 0
    <3>1. job[w] > 0
      BY <1>1, <2>1
    <3> QED BY <3>1, <1>1 DEF TurnsInv, SwitchInv, Past, MayGoOn
  <2> QED BY <2>1 DEF MayGoOn
<1>11. GoesOn(w)
  BY <1>2, <1>5, <1>6, <1>7, <1>8, <1>9 DEF GoesOn
<1>12. Sent(w)'[2] = msg'[w] /\ msg'[w] = 0
  BY <1>5, <1>8
<1> QED BY <1>4, <1>5, <1>6, <1>10, <1>11, <1>12

\* Between two slices, what is on the links is of the last message, and has another
\* id than the first message of the new slice.
LEMMA StartSliceMeets ==
  ASSUME ~crossed', IInv, TurnsInv, NEW w \in Workers, StartSlice(w)
  PROVE  /\ \A n \in 1 .. Len(up[w]) : Current(w, up[w][n])
         /\ \A n \in 1 .. Len(down[w]) : Current(w, down[w][n])
         /\ \/ up[w] = <<>> /\ down[w] = <<>>
            \/ AllSummed(w) /\ Sent(w)[2] # 0
<1>1. ~Waiting(w) /\ ~Crosses(w)
  BY DEF StartSlice
<1>2. /\ \A n \in 1 .. Len(up[w]) : Current(w, up[w][n])
      /\ \A n \in 1 .. Len(down[w]) : Current(w, down[w][n])
  BY <1>1 DEF TurnsInv, UpFollows, DownFollows, Old
<1>3. CASE up[w] # <<>> \/ down[w] # <<>>
  <2>1. job[w] # 0 /\ job[w] \in Nat /\ job[w] > 0
    <3>1. job[w] # 0 /\ job[w] \in Nat
      BY <1>3, WaitingType DEF TurnsInv, Quiet, IInv
    <3> QED BY <3>1
  <2>2. AllSummed(w)
    BY <1>1, <2>1 DEF TurnsInv, SwitchInv, Past
  <2>3. Jobs[job[w]] # 1 /\ msg[w] \in Nat /\ Jobs[job[w]] \in Nat \ {0} /\ ~(msg[w] < Jobs[job[w]])
    <3>1. Jobs[job[w]] # 1
      BY <1>1, <1>3, <2>1 DEF Crosses
    <3>2. ~(msg[w] < Jobs[job[w]])
      BY <1>1, <2>1 DEF Waiting
    <3>3. msg[w] \in Nat /\ Jobs[job[w]] \in Nat \ {0}
      <4>1. msg[w] \in Nat /\ job[w] \in 0 .. Len(Jobs) /\ Len(Jobs) \in Nat
        BY RdmaAssumption, LenProperties DEF IInv, Shapes
      <4>2. job[w] \in 1 .. Len(Jobs)
        BY <2>1, <4>1
      <4> QED BY <4>1, <4>2, RdmaAssumption, ElementOfSeq
    <3> QED BY <3>1, <3>2, <3>3
  <2>4. msg[w] - 1 # 0
    BY <2>3
  <2>5. Sent(w)[2] = msg[w] - 1
    BY <1>1 DEF Sent
  <2> QED BY <1>2, <2>2, <2>4, <2>5
<1> QED BY <1>2, <1>3

LEMMA StartSliceTurns ==
  ASSUME ~crossed', IInv, TurnsInv, NEW w \in Workers, StartSlice(w)
  PROVE  TurnsInv'
<1>1. /\ GoesOn(w) /\ MayGoOn(w) /\ Sent(w)'[2] = msg'[w] /\ msg'[w] = 0 /\ 0 \in MsgIds
      /\ \A v \in Workers : job'[v] > 0 \/ job'[v] = job[v]
  BY StartSliceGoesOn
<1>2. SwitchInv'
  BY <1>1, GoesOnSwitch DEF IInv, TurnsInv
<1> DEFINE data == [i \in Parts |-> Unit(w, <<job[w] + 1, 0>>, i)]
<1>3. data \in [Parts -> Data]
  BY UnitType
<1>4. /\ ~Waiting(w)
      /\ up' = [up EXCEPT ![w] = @ \o Packets(0, 1 - poolBit[w], data)]
      /\ msg' = [msg EXCEPT ![w] = 0] /\ UNCHANGED <<down, cq, rx>>
  BY DEF StartSlice, PostSend, downVars
<1> HIDE DEF data
<1>5. cq[w] = <<>>
  <2>1. recvs[w] + Len(cq[w]) = 0 /\ recvs[w] \in Nat /\ cq[w] \in Seq(MsgIds)
    BY <1>4 DEF IInv, OneReceive, Shapes
  <2>2. Len(cq[w]) = 0
    BY <2>1, LenProperties
  <2> QED BY <2>1, <2>2, EmptySeq
<1>6. /\ \A n \in 1 .. Len(up[w]) : Current(w, up[w][n])
      /\ \A n \in 1 .. Len(down[w]) : Current(w, down[w][n])
      /\ \/ up[w] = <<>> /\ down[w] = <<>>
         \/ AllSummed(w) /\ Sent(w)[2] # msg'[w]
  BY <1>1, StartSliceMeets
<1>7. UpFollows(w)' /\ DownFollows(w)' /\ CqFollows(w)'
  BY <1>1, <1>3, <1>4, <1>5, <1>6, GoesOnLinks DEF TurnsInv
<1>8. ASSUME NEW v \in Workers, v # w
      PROVE  UpFollows(v)' /\ DownFollows(v)' /\ CqFollows(v)'
  <2>1. /\ up'[v] = up[v] /\ down'[v] = down[v] /\ cq'[v] = cq[v] /\ rx'[v] = rx[v]
        /\ msg'[v] = msg[v]
    BY <1>4, <1>8 DEF IInv, Shapes
  <2>2. /\ Sent(v)' = Sent(v) /\ (Waiting(v)' <=> Waiting(v)) /\ poolBit'[v] = poolBit[v]
        /\ UNCHANGED <<bitmap, count>>
    BY <1>1, <1>8 DEF GoesOn, IInv, Shapes
  <2> QED BY <2>1, <2>2, LinksUnchanged DEF TurnsInv
<1>9. Quiet'
  <2>1. job'[w] > 0 /\ \A v \in Workers \ {w} : up'[v] = up[v] /\ down'[v] = down[v]
    BY <1>1, <1>4 DEF GoesOn, IInv, Shapes
  <2> QED BY <1>1, <2>1, QuietLinks
<1> QED BY <1>2, <1>7, <1>8, <1>9 DEF TurnsInv

\* An accepted completion: everybody's parts have been summed, and nothing old is
\* under way.
LEMMA AcceptMeans ==
  ASSUME IInv, TurnsInv, NEW w \in Workers, PollCompletion(w), Head(cq[w]) = msg[w]
  PROVE  /\ AllSummed(w)
         /\ \A n \in 1 .. Len(up[w]) : Current(w, up[w][n])
         /\ \A n \in 1 .. Len(down[w]) : Current(w, down[w][n])
<1>1. Waiting(w) /\ cq[w] # <<>> /\ cq[w] \in Seq(MsgIds) /\ poolBit[w] \in Sets
  BY DEF PollCompletion, IInv, Shapes
<1>2. Len(cq[w]) \in Nat \ {0} /\ Head(cq[w]) = cq[w][1]
  BY <1>1, LenProperties, EmptySeq, HeadTailProperties
<1>3. AllSummed(w) /\ \A x \in 1 .. Len(down[w]) : down[w][x].set = poolBit[w]
  BY <1>1, <1>2 DEF TurnsInv, CqFollows
<1>4. ASSUME NEW n \in 1 .. Len(up[w])
      PROVE  Current(w, up[w][n])
  <2>1. w \in bitmap[0][poolBit[w]] /\ 0 \in Parts
    BY <1>3, FirstParts DEF AllSummed, Summed, Has
  <2>2. w \notin bitmap[0][1 - poolBit[w]]
    BY <1>1, <2>1, OtherBitClear DEF TurnsInv, SwitchInv, IInv
  <2> QED BY <2>1, <2>2 DEF TurnsInv, UpFollows
<1>5. ASSUME NEW n \in 1 .. Len(down[w])
      PROVE  Current(w, down[w][n])
  BY <1>1, <1>3, BitsType DEF TurnsInv, DownFollows, Old
<1> QED BY <1>3, <1>4, <1>5

LEMMA AcceptTurns ==
  ASSUME IInv, TurnsInv, NEW w \in Workers, PollCompletion(w), Accept(w)
  PROVE  TurnsInv'
<1>1. /\ AllSummed(w)
      /\ \A n \in 1 .. Len(up[w]) : Current(w, up[w][n])
      /\ \A n \in 1 .. Len(down[w]) : Current(w, down[w][n])
  BY AcceptMeans DEF Accept
<1>2. /\ Waiting(w) /\ job[w] \in JobIds /\ msg[w] \in Nat /\ msg[w] < Jobs[job[w]]
      /\ Jobs[job[w]] \in Nat /\ job[w] \in Nat /\ job[w] > 0
  <2>1. Waiting(w)
    BY DEF PollCompletion
  <2>2. /\ job[w] \in JobIds /\ msg[w] \in Nat /\ msg[w] < Jobs[job[w]] /\ job[w] \in Nat
        /\ job[w] # 0 => Jobs[job[w]] \in Nat
    BY <2>1, WaitingType DEF IInv
  <2>3. job[w] > 0
    BY <2>1, <2>2 DEF Waiting
  <2> QED BY <2>1, <2>2, <2>3
<1>3. /\ msg' = [msg EXCEPT ![w] = msg[w] + 1] /\ cq' = [cq EXCEPT ![w] = Tail(cq[w])]
      /\ UNCHANGED <<job, down, rx, bitmap, count>>
  BY DEF PollCompletion, Accept, downVars, slotVars
<1>4. cq'[w] = <<>>
  <2>1. recvs[w] + Len(cq[w]) = 1 /\ recvs[w] \in Nat /\ cq[w] \in Seq(MsgIds) /\ cq[w] # <<>>
    BY <1>2 DEF IInv, OneReceive, Shapes, PollCompletion
  <2>2. Len(cq[w]) \in Nat \ {0}
    BY <2>1, LenProperties, EmptySeq
  <2>3. Tail(cq[w]) \in Seq(MsgIds) /\ Len(Tail(cq[w])) = Len(cq[w]) - 1
    BY <2>1, HeadTailProperties
  <2>4. Len(Tail(cq[w])) = 0
    <3>1. Len(cq[w]) = 1
      <4>1. ASSUME NEW a \in Nat, NEW c \in Nat \ {0}, a + c = 1
            PROVE  c = 1
        BY <4>1
      <4> QED BY <2>1, <2>2, <4>1
    <3> QED BY <2>3, <3>1
  <2>5. cq'[w] = Tail(cq[w])
    BY <1>3 DEF IInv, Shapes
  <2> QED BY <2>3, <2>4, <2>5, EmptySeq
<1>5. \A v \in Workers : msg'[v] = IF v = w THEN msg[w] + 1 ELSE msg[v]
  BY <1>3 DEF IInv, Shapes
<1>6. Sent(w) = <<job[w], msg[w]>>
  BY <1>2 DEF Sent
<1>7. \A v \in Workers \ {w} : Sent(v)' = Sent(v) /\ (Waiting(v)' <=> Waiting(v))
  BY <1>3, <1>5 DEF Sent, Waiting
<1>8. \A v \in Workers : v # w => cq'[v] = cq[v]
  BY <1>3 DEF IInv, Shapes
<1>9. CASE msg[w] + 1 < Jobs[job[w]]
  <2> DEFINE data == [i \in Parts |-> Unit(w, <<job[w], msg[w] + 1>>, i)]
  <2>1. data \in [Parts -> Data]
    BY UnitType
  <2>2. /\ up' = [up EXCEPT ![w] = @ \o Packets(msg[w] + 1, 1 - poolBit[w], data)]
        /\ poolBit' = [poolBit EXCEPT ![w] = 1 - poolBit[w]]
    BY <1>9 DEF Accept, PostSend
  <2> HIDE DEF data
  <2>3. Waiting(w)' /\ Sent(w)' = <<job[w], msg[w] + 1>>
    BY <1>2, <1>3, <1>5, <1>9 DEF Waiting, Sent
  <2>4. NextOf(Sent(w)) = <<job[w], msg[w] + 1>>
    BY <1>2, <1>6, <1>9 DEF NextOf
  <2>5. GoesOn(w)
    BY <1>2, <1>3, <1>7, <2>2, <2>3, <2>4 DEF GoesOn
  <2>6. SwitchInv'
    BY <1>1, <2>5, GoesOnSwitch DEF IInv, TurnsInv, MayGoOn
  <2>7. /\ msg'[w] = msg[w] + 1 /\ Sent(w)[2] # msg'[w]
        /\ Sent(w)'[2] = msg'[w]
    <3>1. msg'[w] = msg[w] + 1 /\ msg[w] + 1 # msg[w]
      BY <1>2, <1>5
    <3> QED BY <1>6, <2>3, <3>1
  <2>8. msg'[w] \in MsgIds
    <3>1. msg[w] + 1 \in Nat
      BY <1>2
    <3> QED BY <1>2, <1>9, <2>7, <3>1, MessageType
  <2>9. UpFollows(w)' /\ DownFollows(w)' /\ CqFollows(w)'
    <3>1. up' = [up EXCEPT ![w] = @ \o Packets(msg'[w], 1 - poolBit[w], data)]
      BY <2>2, <2>7
    <3>2. down'[w] = down[w]
      BY <1>3
    <3> QED BY <1>1, <1>4, <2>1, <2>5, <2>7, <2>8, <3>1, <3>2, GoesOnLinks DEF TurnsInv
  <2>10. ASSUME NEW v \in Workers, v # w
         PROVE  UpFollows(v)' /\ DownFollows(v)' /\ CqFollows(v)'
    <3>1. /\ up'[v] = up[v] /\ down'[v] = down[v] /\ cq'[v] = cq[v] /\ rx'[v] = rx[v]
          /\ msg'[v] = msg[v] /\ poolBit'[v] = poolBit[v]
      BY <1>3, <1>5, <1>8, <2>2, <2>10 DEF IInv, Shapes
    <3> QED BY <1>3, <1>7, <2>10, <3>1, LinksUnchanged DEF TurnsInv
  <2>11. Quiet'
    <3>1. /\ job'[w] > 0 /\ \A v \in Workers : job'[v] = job[v]
          /\ \A v \in Workers \ {w} : up'[v] = up[v] /\ down'[v] = down[v]
      BY <1>2, <1>3, <2>2 DEF IInv, Shapes
    <3> QED BY <3>1, QuietLinks
  <2> QED BY <2>6, <2>9, <2>10, <2>11 DEF TurnsInv
<1>10. CASE ~(msg[w] + 1 < Jobs[job[w]])
  <2>1. UNCHANGED <<poolBit, up>>
    BY <1>10 DEF Accept
  <2>2. ~Waiting(w)' /\ Sent(w)' = Sent(w)
    <3>1. ~Waiting(w)'
      BY <1>2, <1>3, <1>5, <1>10 DEF Waiting
    <3>2. (msg[w] + 1) - 1 = msg[w]
      BY <1>2
    <3> QED BY <1>3, <1>5, <1>6, <3>1, <3>2 DEF Sent
  <2>3. Stops(w)
    BY <1>3, <1>7, <2>1, <2>2 DEF Stops
  <2>4. SwitchInv'
    BY <1>1, <2>3, StopsSwitch DEF IInv, TurnsInv
  <2>5. \A q : Current(w, q)' <=> Current(w, q)
    BY <2>1, <2>2 DEF Current
  <2>6. \A i : (Has(w, i)' <=> Has(w, i)) /\ (Summed(w, i)' <=> Summed(w, i))
    BY <2>1, <1>3 DEF Has, Summed
  <2>7. UpFollows(w)'
    BY <1>1, <1>3, <2>1, <2>5, <2>6 DEF UpFollows, TurnsInv
  <2>8. DownFollows(w)'
    <3>1. \A n \in 1 .. Len(down[w]) : Summed(w, down[w][n].part)
      <4> TAKE n \in 1 .. Len(down[w])
      <4>1. down[w] \in Seq(Packet)
        BY DEF IInv, Shapes
      <4>2. down[w][n] \in Packet
        BY <4>1, ElementOfSeq
      <4>3. down[w][n].part \in Parts
        BY <4>2 DEF Packet
      <4> QED BY <1>1, <4>3 DEF AllSummed
    <3> QED BY <1>1, <1>3, <2>1, <2>5, <2>6, <3>1 DEF DownFollows, TurnsInv
  <2>9. CqFollows(w)'
    BY <2>2 DEF CqFollows
  <2>10. ASSUME NEW v \in Workers, v # w
         PROVE  UpFollows(v)' /\ DownFollows(v)' /\ CqFollows(v)'
    <3>1. msg'[v] = msg[v] /\ cq'[v] = cq[v]
      BY <1>5, <1>8, <2>10
    <3> QED BY <1>3, <1>7, <2>1, <2>10, <3>1, LinksUnchanged DEF TurnsInv
  <2>11. Quiet'
    BY <1>3, <2>1 DEF TurnsInv, Quiet
  <2> QED BY <2>4, <2>7, <2>8, <2>9, <2>10, <2>11 DEF TurnsInv
<1> QED BY <1>9, <1>10

-----------------------------------------------------------------------------
(* Steps that leave the slots alone *)

\* Neither the workers nor the slots go on.
Stays == \A v \in Workers : /\ Sent(v)' = Sent(v) /\ (Waiting(v)' <=> Waiting(v))
                            /\ msg'[v] = msg[v] /\ job'[v] = job[v] /\ poolBit'[v] = poolBit[v]

LEMMA UnchangedStays ==
  ASSUME UNCHANGED <<job, msg, poolBit>>
  PROVE  Stays
BY DEF Stays, Sent, Waiting

LEMMA SwitchUnchanged ==
  ASSUME SwitchInv, Stays, UNCHANGED <<bitmap, count>>
  PROVE  SwitchInv'
<1>1. \A v \in Workers : /\ \A i : (Has(v, i)' <=> Has(v, i)) /\ (Summed(v, i)' <=> Summed(v, i))
                         /\ (AllSummed(v)' <=> AllSummed(v))
  BY DEF Has, Summed, AllSummed, Stays
<1>2. Turns' /\ Past' /\ OneBit' /\ InOrder'
  BY <1>1 DEF SwitchInv, Turns, Past, OneBit, InOrder, Stays
<1>3. \A i, b, m : (Filling(i, b, m)' <=> Filling(i, b, m)) /\ (Full(i, b, m)' <=> Full(i, b, m))
  BY DEF Filling, Full, Stays
<1>4. Slots'
  BY <1>3 DEF SwitchInv, Slots
<1> QED BY <1>2, <1>4 DEF SwitchInv

\* Only the links and completions of w change.
LEMMA OneWorkersLinks ==
  ASSUME TurnsInv, NEW w \in Workers, Stays, UNCHANGED <<bitmap, count>>,
         \A v \in Workers \ {w} : /\ up'[v] = up[v] /\ down'[v] = down[v] /\ cq'[v] = cq[v]
                                  /\ rx'[v] = rx[v],
         job[w] = 0 => up'[w] = <<>> /\ down'[w] = <<>>,
         UpFollows(w)', DownFollows(w)', CqFollows(w)'
  PROVE  TurnsInv'
<1>1. SwitchInv'
  BY SwitchUnchanged DEF TurnsInv
<1>2. ASSUME NEW v \in Workers, v # w
      PROVE  UpFollows(v)' /\ DownFollows(v)' /\ CqFollows(v)'
  BY <1>2, LinksUnchanged DEF TurnsInv, Stays
<1>3. Quiet'
  BY DEF TurnsInv, Quiet, Stays
<1> QED BY <1>1, <1>2, <1>3 DEF TurnsInv

\* What the parts about the links ask of the next state then.
LEMMA UpFollowsNext ==
  ASSUME Stays, UNCHANGED bitmap, NEW w \in Workers, NEW link, up'[w] = link,
         \A n \in 1 .. Len(link) :
           \/ Current(w, link[n])
           \/ Old(w, link[n]) /\ \A i \in Parts : w \in bitmap[i][1 - poolBit[w]],
         OldFirst(link, poolBit[w]),
         /\ link # <<>> /\ link[1].set = poolBit[w] /\ link[1].part > 0
         /\ ~link[1].gap /\ ~rx'[w].error
         => \A x \in Parts : x < link[1].part => Has(w, x)
  PROVE  UpFollows(w)'
<1>1. /\ Sent(w)' = Sent(w) /\ (Waiting(w)' <=> Waiting(w)) /\ msg'[w] = msg[w]
      /\ poolBit'[w] = poolBit[w]
  BY DEF Stays
<1>2. \A n \in 1 .. Len(up'[w]) :
        (\/ Current(w, up[w][n])
         \/ Old(w, up[w][n]) /\ \A i \in Parts : w \in bitmap[i][1 - poolBit[w]])'
  BY <1>1 DEF Current, Old
<1>3. OldFirst(up[w], poolBit[w])'
  BY <1>1 DEF OldFirst
<1>4. (/\ up[w] # <<>> /\ up[w][1].set = poolBit[w] /\ up[w][1].part > 0
       /\ ~up[w][1].gap /\ ~rx[w].error
       => \A x \in Parts : x < up[w][1].part => Has(w, x))'
  BY <1>1 DEF Has
<1> QED BY <1>2, <1>3, <1>4 DEF UpFollows

LEMMA DownFollowsNext ==
  ASSUME Stays, UNCHANGED <<bitmap, count>>, NEW w \in Workers, NEW link, down'[w] = link,
         \A n \in 1 .. Len(link) :
           \/ Current(w, link[n]) /\ Summed(w, link[n].part)
           \/ Old(w, link[n]),
         OldFirst(link, poolBit[w])
  PROVE  DownFollows(w)'
<1>1. /\ Sent(w)' = Sent(w) /\ (Waiting(w)' <=> Waiting(w)) /\ msg'[w] = msg[w]
      /\ poolBit'[w] = poolBit[w]
  BY DEF Stays
<1>2. \A n \in 1 .. Len(down'[w]) :
        (\/ Current(w, down[w][n]) /\ Summed(w, down[w][n].part)
         \/ Old(w, down[w][n]))'
  BY <1>1 DEF Current, Old, Summed, Has
<1>3. OldFirst(down[w], poolBit[w])'
  BY <1>1 DEF OldFirst
<1> QED BY <1>2, <1>3 DEF DownFollows

LEMMA CqFollowsNext ==
  ASSUME Stays, UNCHANGED <<bitmap, count>>, NEW w \in Workers,
         Waiting(w) =>
           \A n \in 1 .. Len(cq'[w]) : cq'[w][n] = msg[w] =>
             /\ AllSummed(w)
             /\ \A x \in 1 .. Len(down'[w]) : down'[w][x].set = poolBit[w]
  PROVE  CqFollows(w)'
<1>1. /\ (Waiting(w)' <=> Waiting(w)) /\ msg'[w] = msg[w] /\ poolBit'[w] = poolBit[w]
      /\ (AllSummed(w)' <=> AllSummed(w))
  BY DEF Stays, AllSummed, Summed, Has
<1> QED BY <1>1 DEF CqFollows

LEMMA DiscardTurns ==
  ASSUME IInv, TurnsInv, NEW w \in Workers, PollCompletion(w), Discard(w)
  PROVE  TurnsInv'
<1>1. /\ cq' = [cq EXCEPT ![w] = Tail(cq[w])]
      /\ UNCHANGED <<job, msg, poolBit, up, down, rx, bitmap, count>>
  BY DEF PollCompletion, Discard, downVars, slotVars
<1>2. Stays
  BY <1>1, UnchangedStays
<1>3. cq'[w] = <<>>
  <2>1. /\ recvs[w] + Len(cq[w]) = 1 /\ recvs[w] \in Nat /\ cq[w] \in Seq(MsgIds)
        /\ cq[w] # <<>>
    BY DEF IInv, OneReceive, Shapes, PollCompletion
  <2>2. Len(cq[w]) \in Nat \ {0}
    BY <2>1, LenProperties, EmptySeq
  <2>3. Tail(cq[w]) \in Seq(MsgIds) /\ Len(Tail(cq[w])) = Len(cq[w]) - 1
    BY <2>1, HeadTailProperties
  <2>4. ASSUME NEW a \in Nat, NEW c \in Nat \ {0}, a + c = 1
        PROVE  c - 1 = 0
    BY <2>4
  <2>5. Len(Tail(cq[w])) = 0
    BY <2>1, <2>2, <2>3, <2>4
  <2>6. cq'[w] = Tail(cq[w])
    BY <1>1 DEF IInv, Shapes
  <2> QED BY <2>3, <2>5, <2>6, EmptySeq
<1>4. UpFollows(w)' /\ DownFollows(w)' /\ CqFollows(w)'
  <2>1. /\ Sent(w)' = Sent(w) /\ (Waiting(w)' <=> Waiting(w)) /\ msg'[w] = msg[w]
        /\ poolBit'[w] = poolBit[w]
    BY <1>2 DEF Stays
  <2> QED BY <1>1, <1>3, <2>1, LinksUnchanged DEF TurnsInv
<1>5. \A v \in Workers \ {w} : cq'[v] = cq[v]
  BY <1>1 DEF IInv, Shapes
<1> QED BY <1>1, <1>2, <1>4, <1>5, OneWorkersLinks DEF TurnsInv, Quiet

LEMMA TimeoutTurns ==
  ASSUME IInv, TurnsInv, NEW w \in Workers, Timeout(w)
  PROVE  TurnsInv'
<1> DEFINE ps == Packets(msg[w], poolBit[w], buf[w])
<1>1. /\ Waiting(w) /\ up' = [up EXCEPT ![w] = up[w] \o ps]
      /\ UNCHANGED <<job, msg, poolBit, cq, down, rx, bitmap, count>>
  BY DEF Timeout, Repost, downVars, slotVars
<1>2. Stays
  BY <1>1, UnchangedStays
<1>3. /\ msg[w] \in MsgIds /\ poolBit[w] \in Sets /\ buf[w] \in [Parts -> Data] /\ job[w] # 0
      /\ up[w] \in Seq(Packet) /\ Sent(w)[2] = msg[w]
  BY <1>1, WaitingType, SentType DEF IInv, Shapes
<1>4. /\ ps \in Seq(Packet) /\ Len(ps) = PktsPerMsg
      /\ \A n \in 1 .. Len(ps) : ps[n].set = poolBit[w] /\ ps[n].msg = msg[w] /\ ps[n].part = n - 1
  BY <1>3, PacketsElements
<1> HIDE DEF ps
<1>5. /\ Len(up[w]) \in Nat /\ up'[w] = up[w] \o ps
      /\ \A n \in 1 .. Len(up'[w]) :
           \/ n \in 1 .. Len(up[w]) /\ up'[w][n] = up[w][n]
           \/ n > Len(up[w]) /\ n - Len(up[w]) \in 1 .. Len(ps)
              /\ up'[w][n] = ps[n - Len(up[w])]
      /\ \A n \in 1 .. Len(up[w]) : up'[w][n] = up[w][n]
      /\ \A n \in 1 .. Len(ps) : up'[w][Len(up[w]) + n] = ps[n]
  <2>1. up'[w] = up[w] \o ps
    BY <1>1 DEF IInv, Shapes
  <2> QED BY <1>3, <1>4, <2>1, ConcatElements
<1>6. UpFollows(w)'
  <2>1. ASSUME NEW n \in 1 .. Len(up'[w])
        PROVE  \/ Current(w, up'[w][n])
               \/ Old(w, up'[w][n]) /\ \A i \in Parts : w \in bitmap[i][1 - poolBit[w]]
    <3>1. CASE n \in 1 .. Len(up[w]) /\ up'[w][n] = up[w][n]
      BY <3>1 DEF TurnsInv, UpFollows
    <3>2. CASE n - Len(up[w]) \in 1 .. Len(ps) /\ up'[w][n] = ps[n - Len(up[w])]
      BY <1>3, <1>4, <3>2 DEF Current
    <3> QED BY <1>5, <2>1, <3>1, <3>2
  <2>2. OldFirst(up'[w], poolBit[w])
    <3>1. OldFirst(up[w], poolBit[w]) /\ \A n \in 1 .. Len(ps) : ps[n].set = poolBit[w]
      BY <1>4 DEF TurnsInv, UpFollows
    <3>2. OldFirst(up[w] \o ps, poolBit[w])
      BY <1>3, <1>4, <3>1, OldFirstConcat
    <3> QED BY <1>5, <3>2
  <2>3. \/ up'[w][1].part = 0
        \/ up[w] # <<>> /\ up'[w][1] = up[w][1]
    <3>1. CASE up[w] = <<>>
      <4>1. Len(up[w]) = 0 /\ 1 \in 1 .. Len(ps)
        BY <1>4, <3>1, EmptySeq, RdmaAssumption
      <4>2. Len(up[w]) + 1 = 1 /\ up'[w][Len(up[w]) + 1] = ps[1]
        BY <1>5, <4>1
      <4>3. up'[w][1] = ps[1]
        BY <4>2
      <4>4. ps[1].part = 1 - 1
        BY <1>4, <4>1
      <4>5. 1 - 1 = 0
        OBVIOUS
      <4> QED BY <4>3, <4>4, <4>5, Zenon
    <3>2. CASE up[w] # <<>>
      <4>1. 1 \in 1 .. Len(up[w])
        BY <3>2, <1>3, TailElements
      <4> QED BY <1>5, <3>2, <4>1
    <3> QED BY <3>1, <3>2
  <2>4. ASSUME up'[w][1].set = poolBit[w], up'[w][1].part > 0, ~up'[w][1].gap, ~rx[w].error
        PROVE  \A x \in Parts : x < up'[w][1].part => Has(w, x)
    <3>1. up'[w][1].part # 0
      <4>1. ~(0 > 0)
        OBVIOUS
      <4> QED BY <2>4, <4>1
    <3> QED BY <2>3, <2>4, <3>1 DEF TurnsInv, UpFollows
  <2> QED BY <1>1, <1>2, <2>1, <2>2, <2>4, UpFollowsNext
<1>7. DownFollows(w)' /\ CqFollows(w)'
  <2>1. DownFollows(w)'
    BY <1>1, <1>2, DownFollowsNext DEF TurnsInv, DownFollows
  <2>2. CqFollows(w)'
    BY <1>1, <1>2, CqFollowsNext DEF TurnsInv, CqFollows
  <2> QED BY <2>1, <2>2
<1>8. \A v \in Workers \ {w} : up'[v] = up[v]
  BY <1>1 DEF IInv, Shapes
<1> QED BY <1>1, <1>2, <1>3, <1>6, <1>7, <1>8, OneWorkersLinks

LEMMA SequenceViolationTurns ==
  ASSUME IInv, TurnsInv, NEW w \in Workers, SequenceViolation(w)
  PROVE  TurnsInv'
<1>1. /\ up[w] # <<>> /\ up' = [up EXCEPT ![w] = Tail(up[w])]
      /\ rx' = [rx EXCEPT ![w] = ReceiveRoce(rx[w], Head(up[w]))]
      /\ ReceiveRoce(rx[w], Head(up[w])).error
      /\ UNCHANGED <<job, msg, poolBit, cq, down, bitmap, count>>
  BY DEF SequenceViolation, workerVars, memoryVars, downVars, slotVars
<1>2. Stays
  BY <1>1, UnchangedStays
<1>3. /\ up[w] \in Seq(Packet) /\ up'[w] = Tail(up[w]) /\ rx'[w].error
      /\ \A v \in Workers \ {w} : up'[v] = up[v] /\ rx'[v] = rx[v]
  BY <1>1 DEF IInv, Shapes
<1>4. UpFollows(w)'
  <2>1. \A n \in 1 .. Len(Tail(up[w])) : n + 1 \in 1 .. Len(up[w]) /\ Tail(up[w])[n] = up[w][n + 1]
    BY <1>1, <1>3, TailElements
  <2>2. \A n \in 1 .. Len(Tail(up[w])) :
          \/ Current(w, Tail(up[w])[n])
          \/ Old(w, Tail(up[w])[n]) /\ \A i \in Parts : w \in bitmap[i][1 - poolBit[w]]
    BY <2>1 DEF TurnsInv, UpFollows
  <2>3. OldFirst(Tail(up[w]), poolBit[w])
    BY <1>1, <1>3, OldFirstTail DEF TurnsInv, UpFollows
  <2> QED BY <1>1, <1>2, <1>3, <2>2, <2>3, UpFollowsNext
<1>5. DownFollows(w)'
  BY <1>1, <1>2, DownFollowsNext DEF TurnsInv, DownFollows
<1>6. CqFollows(w)'
  BY <1>1, <1>2, CqFollowsNext DEF TurnsInv, CqFollows
<1>7. job[w] = 0 => up'[w] = <<>> /\ down'[w] = <<>>
  BY <1>1 DEF TurnsInv, Quiet
<1> QED BY <1>1, <1>2, <1>3, <1>4, <1>5, <1>6, <1>7, OneWorkersLinks

LEMMA LoseUplinkTurns ==
  ASSUME IInv, TurnsInv, NEW w \in Workers, LoseUplink(w)
  PROVE  TurnsInv'
<1> DEFINE u == AfterLoss(up[w])
<1>1. /\ up[w] # <<>> /\ up' = [up EXCEPT ![w] = u]
      /\ UNCHANGED <<job, msg, poolBit, cq, down, rx, bitmap, count>>
  BY DEF LoseUplink, workerVars, memoryVars, downVars, slotVars
<1>2. Stays
  BY <1>1, UnchangedStays
<1>3. /\ up[w] \in Seq(Packet) /\ up'[w] = u /\ \A v \in Workers \ {w} : up'[v] = up[v]
  BY <1>1 DEF IInv, Shapes
<1>4. /\ Len(u) = Len(up[w]) - 1 /\ Len(up[w]) \in Nat \ {0} /\ u \in Seq(Packet)
      /\ \A n \in 1 .. Len(u) :
           /\ n + 1 \in 1 .. Len(up[w])
           /\ u[n].set = up[w][n + 1].set /\ u[n].msg = up[w][n + 1].msg
           /\ n = 1 => u[n].part = 0 \/ u[n].gap
  BY <1>1, <1>3, LossElements
<1>5. OldFirst(u, poolBit[w])
  BY <1>1, <1>3, OldFirstLoss DEF TurnsInv, UpFollows
<1> HIDE DEF u
<1>6. UpFollows(w)'
  <2>1. \A n \in 1 .. Len(u) :
          \/ Current(w, u[n])
          \/ Old(w, u[n]) /\ \A i \in Parts : w \in bitmap[i][1 - poolBit[w]]
    BY <1>4 DEF TurnsInv, UpFollows, Current, Old
  <2>2. u # <<>> => u[1].part = 0 \/ u[1].gap
    <3>1. u # <<>> => 1 \in 1 .. Len(u)
      BY <1>4, EmptySeq
    <3> QED BY <1>4, <3>1
  <2>3. ~(u # <<>> /\ u[1].part > 0 /\ ~u[1].gap)
    <3>1. ~(0 > 0)
      OBVIOUS
    <3> QED BY <2>2, <3>1
  <2> QED BY <1>1, <1>2, <1>3, <1>5, <2>1, <2>3, UpFollowsNext
<1>7. DownFollows(w)'
  BY <1>1, <1>2, DownFollowsNext DEF TurnsInv, DownFollows
<1>8. CqFollows(w)'
  BY <1>1, <1>2, CqFollowsNext DEF TurnsInv, CqFollows
<1>9. job[w] = 0 => up'[w] = <<>> /\ down'[w] = <<>>
  BY <1>1 DEF TurnsInv, Quiet
<1> QED BY <1>1, <1>2, <1>3, <1>6, <1>7, <1>8, <1>9, OneWorkersLinks

LEMMA LoseDownlinkTurns ==
  ASSUME IInv, TurnsInv, NEW w \in Workers, LoseDownlink(w)
  PROVE  TurnsInv'
<1> DEFINE u == AfterLoss(down[w])
<1>1. /\ down[w] # <<>> /\ down' = [down EXCEPT ![w] = u]
      /\ UNCHANGED <<job, msg, poolBit, cq, up, rx, bitmap, count>>
  BY DEF LoseDownlink, workerVars, memoryVars, slotVars
<1>2. Stays
  BY <1>1, UnchangedStays
<1>3. /\ down[w] \in Seq(Packet) /\ down'[w] = u /\ \A v \in Workers \ {w} : down'[v] = down[v]
  BY <1>1 DEF IInv, Shapes
<1>4. \A n \in 1 .. Len(u) :
        /\ n + 1 \in 1 .. Len(down[w])
        /\ u[n].set = down[w][n + 1].set /\ u[n].msg = down[w][n + 1].msg
        /\ u[n].part = down[w][n + 1].part
  BY <1>1, <1>3, LossElements
<1>5. OldFirst(u, poolBit[w])
  BY <1>1, <1>3, OldFirstLoss DEF TurnsInv, DownFollows
<1> HIDE DEF u
<1>6. DownFollows(w)'
  <2>1. \A n \in 1 .. Len(u) :
          \/ Current(w, u[n]) /\ Summed(w, u[n].part)
          \/ Old(w, u[n])
    BY <1>4 DEF TurnsInv, DownFollows, Current, Old
  <2> QED BY <1>1, <1>2, <1>3, <1>5, <2>1, DownFollowsNext
<1>7. UpFollows(w)'
  BY <1>1, <1>2, UpFollowsNext DEF TurnsInv, UpFollows
<1>8. CqFollows(w)'
  <2>1. ASSUME \A x \in 1 .. Len(down[w]) : down[w][x].set = poolBit[w]
        PROVE  \A x \in 1 .. Len(down'[w]) : down'[w][x].set = poolBit[w]
    <3> TAKE x \in 1 .. Len(down'[w])
    <3>1. x \in 1 .. Len(u) /\ down'[w][x] = u[x]
      BY <1>3
    <3>2. x + 1 \in 1 .. Len(down[w]) /\ u[x].set = down[w][x + 1].set
      BY <1>4, <3>1
    <3> QED BY <2>1, <3>1, <3>2
  <2> QED BY <1>1, <1>2, <2>1, CqFollowsNext DEF TurnsInv, CqFollows
<1>9. job[w] = 0 => up'[w] = <<>> /\ down'[w] = <<>>
  BY <1>1 DEF TurnsInv, Quiet
<1> QED BY <1>1, <1>2, <1>3, <1>6, <1>7, <1>8, <1>9, OneWorkersLinks

\* A result that is complete answers for all parts before it.
LEMMA NicReceiveTurns ==
  ASSUME IInv, TurnsInv, NEW w \in Workers, NicReceive(w)
  PROVE  TurnsInv'
<1> DEFINE p == Head(down[w])
           t == Tail(down[w])
<1>1. /\ down[w] # <<>> /\ down' = [down EXCEPT ![w] = t]
      /\ \/ cq' = cq
         \/ cq' = [cq EXCEPT ![w] = Append(cq[w], p.msg)] /\ p.part = PktsPerMsg - 1
      /\ UNCHANGED <<job, msg, poolBit, up, rx, bitmap, count>>
  BY DEF NicReceive, workerVars, slotVars
<1>2. Stays
  BY <1>1, UnchangedStays
<1>3. /\ down[w] \in Seq(Packet) /\ cq[w] \in Seq(MsgIds) /\ down'[w] = t
      /\ \A v \in Workers \ {w} : down'[v] = down[v] /\ cq'[v] = cq[v]
  BY <1>1 DEF IInv, Shapes
<1>4. /\ p = down[w][1] /\ p \in Packet /\ Len(down[w]) \in Nat \ {0} /\ Len(t) = Len(down[w]) - 1
      /\ \A n \in 1 .. Len(t) : n + 1 \in 1 .. Len(down[w]) /\ t[n] = down[w][n + 1]
  BY <1>1, <1>3, TailElements
<1>5. OldFirst(t, poolBit[w])
  BY <1>1, <1>3, OldFirstTail DEF TurnsInv, DownFollows
<1> HIDE DEF p, t
<1>6. DownFollows(w)'
  <2>1. \A n \in 1 .. Len(t) :
          \/ Current(w, t[n]) /\ Summed(w, t[n].part)
          \/ Old(w, t[n])
    BY <1>4 DEF TurnsInv, DownFollows
  <2> QED BY <1>1, <1>2, <1>3, <1>5, <2>1, DownFollowsNext
<1>7. UpFollows(w)'
  BY <1>1, <1>2, UpFollowsNext DEF TurnsInv, UpFollows
<1>8. CqFollows(w)'
  <2>1. SUFFICES ASSUME Waiting(w), NEW n \in 1 .. Len(cq'[w]), cq'[w][n] = msg[w]
                 PROVE  /\ AllSummed(w)
                        /\ \A x \in 1 .. Len(t) : t[x].set = poolBit[w]
    BY <1>1, <1>2, <1>3, CqFollowsNext
  <2>2. CASE n \in 1 .. Len(cq[w]) /\ cq[w][n] = msg[w]
    <3>1. AllSummed(w) /\ \A x \in 1 .. Len(down[w]) : down[w][x].set = poolBit[w]
      BY <2>1, <2>2 DEF TurnsInv, CqFollows
    <3>2. ASSUME NEW x \in 1 .. Len(t)
          PROVE  t[x].set = poolBit[w]
      <4>1. x + 1 \in 1 .. Len(down[w]) /\ t[x] = down[w][x + 1]
        BY <1>4
      <4> QED BY <3>1, <4>1
    <3> QED BY <3>1, <3>2
  <2>3. CASE p.msg = msg[w] /\ p.part = PktsPerMsg - 1
    <3>1. msg[w] - 1 # msg[w]
      <4>1. msg[w] \in Nat
        BY WaitingType DEF IInv
      <4> QED BY <4>1
    <3>2. 1 \in 1 .. Len(down[w])
      BY <1>4
    <3>3. Current(w, p) /\ Summed(w, p.part)
      BY <1>4, <2>3, <3>1, <3>2 DEF TurnsInv, DownFollows, Old
    <3>4. AllSummed(w)
      BY <2>3, <3>3, LastSummed DEF IInv, TurnsInv, SwitchInv
    <3>5. \A x \in 1 .. Len(t) : t[x].set = poolBit[w]
      <4> TAKE x \in 1 .. Len(t)
      <4>1. x + 1 \in 1 .. Len(down[w]) /\ t[x] = down[w][x + 1] /\ 1 < x + 1
        BY <1>4
      <4>2. down[w][1].set = poolBit[w]
        BY <1>4, <3>3 DEF Current
      <4> QED BY <3>2, <4>1, <4>2 DEF TurnsInv, DownFollows, OldFirst
    <3> QED BY <3>4, <3>5
  <2>4. \/ n \in 1 .. Len(cq[w]) /\ cq[w][n] = msg[w]
        \/ p.msg = msg[w] /\ p.part = PktsPerMsg - 1
    <3>1. CASE cq' = cq
      BY <2>1, <3>1
    <3>2. CASE cq' = [cq EXCEPT ![w] = Append(cq[w], p.msg)] /\ p.part = PktsPerMsg - 1
      <4>1. cq'[w] = Append(cq[w], p.msg)
        BY <3>2 DEF IInv, Shapes
      <4>2. p.msg \in MsgIds
        BY <1>4 DEF Packet
      <4>3. /\ Len(cq[w]) \in Nat /\ Len(cq'[w]) = Len(cq[w]) + 1
            /\ \A k \in 1 .. Len(cq[w]) : cq'[w][k] = cq[w][k]
            /\ cq'[w][Len(cq[w]) + 1] = p.msg
        BY <1>3, <4>1, <4>2, AppendProperties, LenProperties
      <4> QED BY <2>1, <3>2, <4>3
    <3> QED BY <1>1, <3>1, <3>2
  <2> QED BY <2>2, <2>3, <2>4
<1>9. job[w] = 0 => up'[w] = <<>> /\ down'[w] = <<>>
  BY <1>1 DEF TurnsInv, Quiet
<1> QED BY <1>1, <1>2, <1>3, <1>6, <1>7, <1>8, <1>9, OneWorkersLinks

-----------------------------------------------------------------------------
(* A packet is aggregated *)

\* What the two passes of a packet come to: nothing, an answer to the sender, or one
\* to all.
Answer(flag, seen) ==
  IF NextStepConsume0(flag, seen) = "recirculate_for_HARVEST7"
  THEN NextStepHarvest7(flag, seen) ELSE "drop"

LEMMA Answers ==
  ASSUME NEW c \in Nat
  PROVE  /\ Answer(FirstLastFlag(c, TRUE), TRUE) =
              IF c = 0 \/ NumWorkers = 1 THEN "retransmit" ELSE "drop"
         /\ Answer(FirstLastFlag(c, FALSE), FALSE) =
              IF c = 1 \/ NumWorkers = 1 THEN "broadcast" ELSE "drop"
<1>1. ASSUME NEW flag \in Nat
      PROVE  /\ Answer(flag, TRUE) = IF flag = 0 THEN "retransmit" ELSE "drop"
             /\ Answer(flag, FALSE) = IF flag = 1 THEN "broadcast" ELSE "drop"
  <2>1. CASE flag = 0
    BY <2>1 DEF Answer, NextStepConsume0, NextStepHarvest7, FIRST, LAST
  <2>2. CASE flag = 1
    BY <2>2 DEF Answer, NextStepConsume0, NextStepHarvest7, FIRST, LAST
  <2>3. CASE flag \notin {0, 1}
    BY <2>3 DEF Answer, NextStepConsume0, NextStepHarvest7, FIRST, LAST
  <2> QED BY <2>1, <2>2, <2>3
<1>2. /\ FirstLastFlag(c, TRUE) = IF NumWorkers = 1 THEN 0 ELSE c
      /\ FirstLastFlag(c, FALSE) = IF NumWorkers = 1 THEN 1 ELSE c
  BY DEF FirstLastFlag
<1> QED BY <1>1, <1>2

\* Who gets an answer when a packet of w meets the slot i, b.
Receivers(w, i, b) ==
  IF w \in bitmap[i][b]
  THEN IF count[i][b] = 0 \/ NumWorkers = 1 THEN {w} ELSE {}
  ELSE IF count[i][b] = 1 \/ NumWorkers = 1 THEN Workers ELSE {}

\* What it is.
Reply(p, sum, v) ==
  [part |-> p.part, msg |-> p.msg, set |-> p.set, val |-> sum,
   gap |-> downGap[v] /\ p.part > 0]

\* Aggregate, spelled out: on the uplink, in the slot, and on the downlinks.
Takes(w, p) ==
  /\ up[w] # <<>> /\ p = up[w][1] /\ p \in Packet
  /\ p.part = 0 \/ (~p.gap /\ ~rx[w].error)
  /\ up'[w] = Tail(up[w]) /\ ~rx'[w].error
  /\ \A v \in Workers \ {w} : up'[v] = up[v] /\ rx'[v] = rx[v]

Marks(w, i, b) ==
  /\ bitmap'[i][b] = bitmap[i][b] \cup {w}
  /\ bitmap'[i][1 - b] = bitmap[i][1 - b] \ {w}
  /\ count'[i][b] = CountAfter(count[i][b], w \in bitmap[i][b])
  /\ count'[i][1 - b] = count[i][1 - b]
  /\ \A k \in Parts \ {i} : bitmap'[k] = bitmap[k] /\ count'[k] = count[k]

Adds(w, p, sum) ==
  /\ sum = RegisterAfter(bitmap[p.part][p.set], w \in bitmap[p.part][p.set],
                         value[p.part][p.set], p.val)
  /\ value'[p.part][p.set] = sum
  /\ \A k \in Parts, c \in Sets : k # p.part \/ c # p.set => value'[k][c] = value[k][c]

Replies(p, sum, to) ==
  \A v \in Workers :
    /\ v \in to => down'[v] = Append(down[v], Reply(p, sum, v)) /\ downGap'[v] = FALSE
    /\ v \notin to => down'[v] = down[v] /\ downGap'[v] = downGap[v]

LEMMA AggregateEffect ==
  ASSUME IInv, NEW w \in Workers, Aggregate(w)
  PROVE  \E p \in Packet, sum \in Data :
           /\ Takes(w, p) /\ Marks(w, p.part, p.set) /\ Adds(w, p, sum)
           /\ Replies(p, sum, Receivers(w, p.part, p.set))
           /\ UNCHANGED <<job, msg, poolBit, out, buf, recvs, cq, nic>>
<1>1. PICK p : p = Head(up[w])
  OBVIOUS
<1>2. PICK r : r = ReceiveRoce(rx[w], p)
  OBVIOUS
<1>3. /\ up[w] # <<>> /\ ~r.error /\ p \in Packet /\ p = up[w][1]
      /\ r.part = p.part /\ r.set = p.set
  BY <1>1, <1>2, RegisterCounts DEF Aggregate
<1>4. PICK i \in Parts : i = p.part
  BY <1>3 DEF Packet
<1>5. PICK b \in Sets : b = p.set
  BY <1>3 DEF Packet
<1>6. PICK seen : seen = (w \in bitmap[i][b])
  OBVIOUS
<1>7. PICK sum : sum = RegisterAfter(bitmap[i][b], seen, value[i][b], p.val)
  OBVIOUS
<1>8. PICK step : step = Answer(FirstLastFlag(count[i][b], seen), seen)
  OBVIOUS
<1>9. /\ up' = [up EXCEPT ![w] = Tail(up[w])] /\ rx' = [rx EXCEPT ![w] = r]
      /\ bitmap' = [bitmap EXCEPT ![i] = UpdateBitmap(bitmap[i], w, b)]
      /\ count' = [count EXCEPT ![i][b] = CountAfter(@, seen)]
      /\ value' = [value EXCEPT ![i][b] = sum]
      /\ down' = [v \in Workers |->
                    IF step = "broadcast" \/ (step = "retransmit" /\ v = w)
                    THEN Append(down[v], [part |-> i, msg |-> p.msg, set |-> b, val |-> sum,
                                          gap |-> downGap[v] /\ i > 0])
                    ELSE down[v]]
      /\ downGap' = [v \in Workers |->
                       downGap[v] /\ ~(step = "broadcast" \/ (step = "retransmit" /\ v = w))]
      /\ UNCHANGED <<job, msg, poolBit, out, buf, recvs, cq, nic>>
  <2>1. MapResult(bitmap[r.part][r.set], w) = seen
    BY <1>3, <1>4, <1>5, <1>6 DEF MapResult
  <2> QED BY <1>1, <1>2, <1>3, <1>4, <1>5, <1>7, <1>8, <2>1
          DEF Aggregate, Answer, workerVars, memoryVars
<1> seen \in BOOLEAN
  BY <1>6
<1>10. Takes(w, p)
  <2>1. p.part = 0 \/ (~p.gap /\ ~rx[w].error)
    <3>1. SUFFICES ASSUME p.part # 0, p.gap \/ rx[w].error PROVE FALSE
      OBVIOUS
    <3>2. r = [rx[w] EXCEPT !.error = TRUE] /\ rx[w] \in Register
      BY <1>2, <3>1 DEF ReceiveRoce, IInv, Shapes
    <3>3. r.error = TRUE
      BY <3>2 DEF Register
    <3> QED BY <1>3, <3>3
  <2>2. up'[w] = Tail(up[w]) /\ rx'[w] = r
    BY <1>9 DEF IInv, Shapes
  <2>3. \A v \in Workers \ {w} : up'[v] = up[v] /\ rx'[v] = rx[v]
    BY <1>9 DEF IInv, Shapes
  <2> QED BY <1>3, <2>1, <2>2, <2>3 DEF Takes
<1>11. 1 - b \in Sets /\ 1 - b # b
  BY BitsType
<1>12. Marks(w, i, b)
  <2>1. PICK u : u = UpdateBitmap(bitmap[i], w, b)
    OBVIOUS
  <2>2. u[b] = bitmap[i][b] \cup {w} /\ u[1 - b] = bitmap[i][1 - b] \ {w}
    BY <1>11, <2>1 DEF UpdateBitmap
  <2>3. bitmap'[i] = u /\ \A k \in Parts \ {i} : bitmap'[k] = bitmap[k]
    BY <1>9, <2>1 DEF IInv, Shapes
  <2>4. PICK c : c = CountAfter(count[i][b], seen)
    OBVIOUS
  <2>5. count' = [count EXCEPT ![i] = [count[i] EXCEPT ![b] = c]]
    BY <1>9, <2>4
  <2>6. count \in [Parts -> [Sets -> Nat]]
    BY DEF IInv, Shapes
  <2>7. /\ count'[i][b] = c /\ count'[i][1 - b] = count[i][1 - b]
        /\ \A k \in Parts \ {i} : count'[k] = count[k]
    BY <1>11, <2>5, <2>6
  <2> QED BY <1>6, <2>2, <2>3, <2>4, <2>7 DEF Marks
<1>13. sum \in Data /\ Adds(w, p, sum)
  <2>1. value \in [Parts -> [Sets -> Data]] /\ p.val \in Data
    BY <1>3 DEF IInv, Shapes, Packet
  <2>2. sum \in Data
    BY <1>7, <2>1, RegisterAfterType
  <2>3. value' = [value EXCEPT ![i] = [value[i] EXCEPT ![b] = sum]]
    BY <1>9
  <2>4. /\ value'[i][b] = sum
        /\ \A k \in Parts, c \in Sets : k # i \/ c # b => value'[k][c] = value[k][c]
    BY <2>1, <2>3
  <2> QED BY <1>4, <1>5, <1>6, <1>7, <2>2, <2>4 DEF Adds
<1>14. Replies(p, sum, Receivers(w, i, b))
  <2>1. count[i][b] \in Nat
    BY DEF IInv, Shapes
  <2>2. ASSUME NEW v \in Workers
        PROVE  (step = "broadcast" \/ (step = "retransmit" /\ v = w)) <=> v \in Receivers(w, i, b)
    <3>1. CASE seen
      <4>1. step = IF count[i][b] = 0 \/ NumWorkers = 1 THEN "retransmit" ELSE "drop"
        BY <1>8, <2>1, <3>1, Answers
      <4> QED BY <1>6, <3>1, <4>1 DEF Receivers
    <3>2. CASE ~seen
      <4>1. step = IF count[i][b] = 1 \/ NumWorkers = 1 THEN "broadcast" ELSE "drop"
        BY <1>8, <2>1, <3>2, Answers
      <4> QED BY <1>6, <3>2, <4>1 DEF Receivers
    <3> QED BY <3>1, <3>2
  <2>3. ASSUME NEW v \in Workers
        PROVE  Reply(p, sum, v) = [part |-> i, msg |-> p.msg, set |-> b, val |-> sum,
                                   gap |-> downGap[v] /\ i > 0]
    BY <1>4, <1>5 DEF Reply
  <2>4. \A v \in Workers : downGap[v] \in BOOLEAN
    BY DEF IInv, Shapes
  <2> HIDE DEF Receivers, Reply
  <2>5. ASSUME NEW v \in Workers, v \in Receivers(w, i, b)
        PROVE  down'[v] = Append(down[v], Reply(p, sum, v)) /\ downGap'[v] = FALSE
    <3>1. down'[v] = Append(down[v], Reply(p, sum, v))
      BY <1>9, <2>2, <2>3, <2>5
    <3>2. ~downGap'[v] /\ downGap'[v] \in BOOLEAN
      BY <1>9, <2>2, <2>5
    <3> QED BY <3>1, <3>2
  <2>6. ASSUME NEW v \in Workers, v \notin Receivers(w, i, b)
        PROVE  down'[v] = down[v] /\ downGap'[v] = downGap[v]
    <3>1. down'[v] = down[v]
      BY <1>9, <2>2, <2>6
    <3>2. (downGap'[v] <=> downGap[v]) /\ downGap'[v] \in BOOLEAN
      BY <1>9, <2>2, <2>6
    <3> QED BY <2>4, <3>1, <3>2, Zenon
  <2> QED BY <2>5, <2>6 DEF Replies
<1> QED BY <1>3, <1>4, <1>5, <1>9, <1>10, <1>12, <1>13, <1>14

LEMMA ReplyType ==
  ASSUME NEW p \in Packet, NEW sum \in Data, NEW v
  PROVE  /\ Reply(p, sum, v) \in Packet
         /\ Reply(p, sum, v).part = p.part /\ Reply(p, sum, v).msg = p.msg
         /\ Reply(p, sum, v).set = p.set /\ Reply(p, sum, v).val = sum
<1>1. ASSUME NEW g \in BOOLEAN
      PROVE  [part |-> p.part, msg |-> p.msg, set |-> p.set, val |-> sum, gap |-> g] \in Packet
  BY DEF Packet
<1>2. (downGap[v] /\ p.part > 0) \in BOOLEAN
  OBVIOUS
<1>3. Reply(p, sum, v) \in Packet
  BY <1>1, <1>2, Zenon DEF Reply
<1> QED BY <1>3 DEF Reply

\* What is left on the uplink: as before, but for the bits that w has lost.
LEMMA TakesFollows ==
  ASSUME IInv, NEW w \in Workers, UpFollows(w), NEW p \in Packet, Takes(w, p)
  PROVE  /\ \A n \in 1 .. Len(Tail(up[w])) :
              /\ n + 1 \in 1 .. Len(up[w]) /\ Tail(up[w])[n] = up[w][n + 1]
              /\ p.set = poolBit[w] => Tail(up[w])[n].set = poolBit[w]
         /\ OldFirst(Tail(up[w]), poolBit[w])
         /\ p.set = poolBit[w] => \A x \in Parts : x < p.part => Has(w, x)
         /\ Tail(up[w]) # <<>> /\ Tail(up[w])[1].part > 0 /\ ~Tail(up[w])[1].gap
            => Tail(up[w])[1].part = p.part + 1 /\ Tail(up[w])[1].set = p.set
<1>1. up[w] \in Seq(Packet) /\ up[w] # <<>> /\ p = up[w][1] /\ poolBit[w] \in Sets
  BY DEF Takes, IInv, Shapes
<1>2. /\ Len(up[w]) \in Nat \ {0} /\ Len(Tail(up[w])) = Len(up[w]) - 1
      /\ Tail(up[w]) \in Seq(Packet)
      /\ \A n \in 1 .. Len(Tail(up[w])) : n + 1 \in 1 .. Len(up[w]) /\ Tail(up[w])[n] = up[w][n + 1]
  BY <1>1, TailElements
<1>3. OldFirst(up[w], poolBit[w])
  BY DEF UpFollows
<1>4. ASSUME NEW n \in 1 .. Len(Tail(up[w])), p.set = poolBit[w]
      PROVE  Tail(up[w])[n].set = poolBit[w]
  <2>1. 1 \in 1 .. Len(up[w]) /\ n + 1 \in 1 .. Len(up[w]) /\ 1 < n + 1
    BY <1>2
  <2> QED BY <1>1, <1>2, <1>3, <1>4, <2>1 DEF OldFirst
<1>5. OldFirst(Tail(up[w]), poolBit[w])
  BY <1>1, <1>3, OldFirstTail
<1>6. ASSUME p.set = poolBit[w], NEW x \in Parts, x < p.part
      PROVE  Has(w, x)
  <2>1. p.part > 0 /\ p.part # 0
    <3>1. x \in Nat /\ p.part \in Nat
      BY FirstParts DEF Packet
    <3> QED BY <1>6, <3>1
  <2>2. ~p.gap /\ ~rx[w].error
    BY <2>1 DEF Takes
  <2> QED BY <1>1, <1>6, <2>1, <2>2 DEF UpFollows
<1>7. ASSUME Tail(up[w]) # <<>>, Tail(up[w])[1].part > 0, ~Tail(up[w])[1].gap
      PROVE  Tail(up[w])[1].part = p.part + 1 /\ Tail(up[w])[1].set = p.set
  <2>1. 1 \in 1 .. Len(Tail(up[w]))
    <3>1. Len(Tail(up[w])) # 0 /\ Len(Tail(up[w])) \in Nat
      BY <1>2, <1>7, EmptySeq, LenProperties
    <3>2. \A a \in Nat : a # 0 => 1 \in 1 .. a
      OBVIOUS
    <3> QED BY <3>1, <3>2, Zenon
  <2>2. Tail(up[w])[1] = up[w][1 + 1] /\ 1 \in 1 .. Len(up[w]) - 1
    BY <1>2, <2>1
  <2>3. Follows(up[w][1], up[w][1 + 1])
    BY <2>2 DEF IInv, UplinkInOrder, Contiguous
  <2>4. Tail(up[w])[1].part # 0
    <3>1. ~(0 > 0)
      OBVIOUS
    <3> QED BY <1>7, <3>1
  <2> QED BY <1>1, <1>7, <2>2, <2>3, <2>4 DEF Follows
<1> QED BY <1>2, <1>4, <1>5, <1>6, <1>7

\* The slot knows the packet: no bit and no count changes, and what the slot has is what
\* it had.
LEMMA SeenBits ==
  ASSUME IInv, TurnsInv, NEW w \in Workers, NEW p \in Packet, Marks(w, p.part, p.set),
         w \in bitmap[p.part][p.set], IInv'
  PROVE  UNCHANGED <<bitmap, count>>
<1>1. PICK i \in Parts : i = p.part
  BY DEF Packet
<1>2. PICK b \in Sets : b = p.set
  BY DEF Packet
<1>3. 1 - b \in Sets /\ \A c \in Sets : c = b \/ c = 1 - b
  BY BitsType
<1>4. w \notin bitmap[i][1 - b]
  BY <1>1, <1>2, OtherBitClear DEF IInv, TurnsInv, SwitchInv
<1>5. /\ bitmap'[i][b] = bitmap[i][b] /\ bitmap'[i][1 - b] = bitmap[i][1 - b]
      /\ count'[i][b] = count[i][b] /\ count'[i][1 - b] = count[i][1 - b]
  BY <1>1, <1>2, <1>4 DEF Marks, CountAfter
<1>6. \A k \in Parts, c \in Sets : bitmap'[k][c] = bitmap[k][c] /\ count'[k][c] = count[k][c]
  BY <1>1, <1>2, <1>3, <1>5 DEF Marks
<1>7. /\ bitmap \in [Parts -> [Sets -> SUBSET Workers]] /\ count \in [Parts -> [Sets -> Nat]]
      /\ bitmap' \in [Parts -> [Sets -> SUBSET Workers]] /\ count' \in [Parts -> [Sets -> Nat]]
  BY DEF IInv, Shapes
<1>8. \A k \in Parts : bitmap'[k] = bitmap[k]
  BY <1>6, <1>7
<1>9. \A k \in Parts : count'[k] = count[k]
  BY <1>6, <1>7
<1> QED BY <1>7, <1>8, <1>9

\* ... and the sender may get an answer, from a slot that is full.
LEMMA SeenReplies ==
  ASSUME IInv, TurnsInv, NEW w \in Workers, NEW p \in Packet, NEW sum \in Data,
         Replies(p, sum, Receivers(w, p.part, p.set)), w \in bitmap[p.part][p.set]
  PROVE  \/ \A v \in Workers : down'[v] = down[v] /\ downGap'[v] = downGap[v]
         \/ /\ count[p.part][p.set] = 0
            /\ \A v \in Workers \ {w} : down'[v] = down[v] /\ downGap'[v] = downGap[v]
            /\ down'[w] = Append(down[w], Reply(p, sum, w)) /\ downGap'[w] = FALSE
<1>1. PICK i \in Parts : i = p.part
  BY DEF Packet
<1>2. PICK b \in Sets : b = p.set
  BY DEF Packet
<1>3. CASE Receivers(w, i, b) = {}
  BY <1>1, <1>2, <1>3 DEF Replies
<1>4. CASE Receivers(w, i, b) = {w} /\ count[i][b] = 0
  BY <1>1, <1>2, <1>4 DEF Replies
<1>5. NumWorkers = 1 => count[i][b] = 0
  <2>1. PICK m \in Messages : Filling(i, b, m) \/ Full(i, b, m)
    BY <1>1, <1>2 DEF TurnsInv, SwitchInv, Slots
  <2>2. ASSUME NumWorkers = 1, Filling(i, b, m) PROVE FALSE
    <3>1. IsFiniteSet(bitmap[i][b]) /\ bitmap[i][b] # {}
      <4>1. bitmap[i][b] \in SUBSET Workers
        BY DEF IInv, Shapes
      <4> QED BY <1>1, <1>2, <4>1, WorkersAssumption, FS_Subset
    <3>2. Cardinality(bitmap[i][b]) \in Nat /\ Cardinality(bitmap[i][b]) # 0
      BY <3>1, FS_CardinalityType, FS_EmptySet
    <3>3. 1 - Cardinality(bitmap[i][b]) > 0
      BY <2>2 DEF Filling
    <3> QED BY <3>2, <3>3
  <2> QED BY <2>1, <2>2 DEF Full
<1>6. Receivers(w, i, b) = {} \/ (Receivers(w, i, b) = {w} /\ count[i][b] = 0)
  BY <1>1, <1>2, <1>5 DEF Receivers
<1> QED BY <1>1, <1>2, <1>3, <1>4, <1>6

LEMMA SeenTurns ==
  ASSUME IInv, TurnsInv, NEW w \in Workers, NEW p \in Packet, NEW sum \in Data,
         Takes(w, p), Marks(w, p.part, p.set), Replies(p, sum, Receivers(w, p.part, p.set)),
         w \in bitmap[p.part][p.set], IInv',
         UNCHANGED <<job, msg, poolBit, cq>>
  PROVE  TurnsInv'
<1>1. PICK i \in Parts : i = p.part
  BY DEF Packet
<1>2. PICK b \in Sets : b = p.set
  BY DEF Packet
<1>4. UNCHANGED <<bitmap, count>>
  BY SeenBits
<1>5. Stays
  BY UnchangedStays
<1>6. /\ up[w] \in Seq(Packet) /\ up[w] # <<>> /\ p = up[w][1] /\ up'[w] = Tail(up[w])
      /\ poolBit[w] \in Sets /\ 1 \in 1 .. Len(up[w])
  <2>1. up[w] \in Seq(Packet) /\ up[w] # <<>>
    BY DEF Takes, IInv, Shapes
  <2> QED BY <2>1, TailElements DEF Takes, IInv, Shapes
<1>7. UpFollows(w)'
  <2>1. UpFollows(w)
    BY DEF TurnsInv
  <2>2. \A n \in 1 .. Len(Tail(up[w])) : n + 1 \in 1 .. Len(up[w]) /\ Tail(up[w])[n] = up[w][n + 1]
    BY <2>1, TakesFollows
  <2>3. \A n \in 1 .. Len(Tail(up[w])) :
          \/ Current(w, Tail(up[w])[n])
          \/ Old(w, Tail(up[w])[n]) /\ \A k \in Parts : w \in bitmap[k][1 - poolBit[w]]
    BY <2>1, <2>2 DEF UpFollows
  <2>4. ASSUME Tail(up[w]) # <<>>, Tail(up[w])[1].set = poolBit[w], Tail(up[w])[1].part > 0,
               ~Tail(up[w])[1].gap, NEW x \in Parts, x < Tail(up[w])[1].part
        PROVE  Has(w, x)
    <3>1. Tail(up[w])[1].part = i + 1 /\ b = poolBit[w]
      BY <1>1, <1>2, <2>1, <2>4, TakesFollows
    <3>2. x < i \/ x = i
      BY <2>4, <3>1, FirstParts
    <3>3. x < i => Has(w, x)
      BY <1>1, <1>2, <2>1, <3>1, TakesFollows
    <3>4. x = i => Has(w, x)
      BY <1>1, <1>2, <3>1 DEF Has
    <3> QED BY <3>2, <3>3, <3>4
  <2>5. OldFirst(Tail(up[w]), poolBit[w])
    BY <2>1, TakesFollows
  <2> QED BY <1>4, <1>5, <1>6, <2>3, <2>4, <2>5, UpFollowsNext
<1>8. \/ \A v \in Workers : down'[v] = down[v]
      \/ /\ count[i][b] = 0 /\ \A v \in Workers \ {w} : down'[v] = down[v]
         /\ down'[w] = Append(down[w], Reply(p, sum, w))
  BY <1>1, <1>2, SeenReplies
<1>9. DownFollows(w)' /\ CqFollows(w)'
  <2>1. CASE down'[w] = down[w]
    <3>1. DownFollows(w)'
      BY <1>4, <1>5, <2>1, DownFollowsNext DEF TurnsInv, DownFollows
    <3>2. CqFollows(w)'
      BY <1>4, <1>5, <2>1, CqFollowsNext DEF TurnsInv, CqFollows
    <3> QED BY <3>1, <3>2
  <2>2. CASE count[i][b] = 0 /\ down'[w] = Append(down[w], Reply(p, sum, w))
    <3> DEFINE q == Reply(p, sum, w)
    <3>1. q.part = i /\ q.msg = p.msg /\ q.set = b /\ q.val = sum
      BY <1>1, <1>2 DEF Reply
    <3>2. q \in Packet
      BY ReplyType
    <3> HIDE DEF q
    <3>3. /\ down[w] \in Seq(Packet) /\ down'[w] = Append(down[w], q)
          /\ Len(down[w]) \in Nat /\ Len(down'[w]) = Len(down[w]) + 1
          /\ \A n \in 1 .. Len(down'[w]) : \/ n \in 1 .. Len(down[w]) /\ down'[w][n] = down[w][n]
                                           \/ n = Len(down[w]) + 1 /\ down'[w][n] = q
      <4>1. down[w] \in Seq(Packet) /\ down'[w] = Append(down[w], q)
        BY <2>2 DEF IInv, Shapes, q
      <4> QED BY <3>2, <4>1, AppendProperties, LenProperties
    <3>4. \/ Current(w, q) /\ Summed(w, i) /\ b = poolBit[w]
          \/ Old(w, q) /\ b = 1 - poolBit[w] /\ \A k \in Parts : ~Has(w, k)
      <4>1. Current(w, p) \/ (Old(w, p) /\ \A k \in Parts : w \in bitmap[k][1 - poolBit[w]])
        BY <1>6 DEF TurnsInv, UpFollows
      <4>2. CASE Current(w, p)
        <5>1. b = poolBit[w]
          BY <1>2, <4>2 DEF Current
        <5> QED BY <1>1, <1>2, <2>2, <3>1, <4>2, <5>1 DEF Current, Summed, Has
      <4>3. CASE Old(w, p) /\ \A k \in Parts : w \in bitmap[k][1 - poolBit[w]]
        <5>1. \A k \in Parts : ~Has(w, k)
          BY <1>6, <4>3, BitsType DEF Has, TurnsInv, SwitchInv, OneBit, Sets
        <5> QED BY <1>2, <3>1, <4>3, <5>1 DEF Old
      <4> QED BY <4>1, <4>2, <4>3
    <3>5. \A n \in 1 .. Len(down[w]) :
            \/ Current(w, down[w][n]) /\ Summed(w, down[w][n].part)
            \/ Old(w, down[w][n])
      BY DEF TurnsInv, DownFollows
    <3>6. q.set = poolBit[w] \/ \A n \in 1 .. Len(down[w]) : down[w][n].set # poolBit[w]
      <4>1. SUFFICES ASSUME \A k \in Parts : ~Has(w, k), NEW n \in 1 .. Len(down[w])
                     PROVE  down[w][n].set # poolBit[w]
        BY <3>1, <3>4
      <4>2. down[w][n].part \in Parts
        <5>1. down[w][n] \in Packet
          BY <3>3, ElementOfSeq
        <5> QED BY <5>1 DEF Packet
      <4>3. Old(w, down[w][n])
        BY <3>5, <4>1, <4>2 DEF Summed
      <4> QED BY <1>6, <4>3, BitsType DEF Old
    <3>7. OldFirst(down'[w], poolBit[w])
      <4>1. OldFirst(down[w], poolBit[w])
        BY DEF TurnsInv, DownFollows
      <4> QED BY <3>2, <3>3, <3>6, <4>1, OldFirstAppend
    <3>8. \A n \in 1 .. Len(down'[w]) :
            \/ Current(w, down'[w][n]) /\ Summed(w, down'[w][n].part)
            \/ Old(w, down'[w][n])
      BY <3>1, <3>3, <3>4, <3>5
    <3>9. DownFollows(w)'
      BY <1>4, <1>5, <3>7, <3>8, DownFollowsNext
    <3>10. ASSUME AllSummed(w), \A x \in 1 .. Len(down[w]) : down[w][x].set = poolBit[w]
           PROVE  \A x \in 1 .. Len(down'[w]) : down'[w][x].set = poolBit[w]
      <4>1. q.set = poolBit[w]
        BY <3>1, <3>4, <3>10, FirstParts DEF AllSummed, Summed
      <4> QED BY <3>3, <3>10, <4>1
    <3>11. CqFollows(w)'
      BY <1>4, <1>5, <3>10, CqFollowsNext DEF TurnsInv, CqFollows
    <3> QED BY <3>9, <3>11
  <2> QED BY <1>8, <2>1, <2>2
<1>10. job[w] # 0
  BY <1>6 DEF TurnsInv, Quiet
<1>11. \A v \in Workers \ {w} : /\ up'[v] = up[v] /\ down'[v] = down[v] /\ cq'[v] = cq[v]
                                /\ rx'[v] = rx[v]
  BY <1>8 DEF Takes
<1> QED BY <1>4, <1>5, <1>7, <1>9, <1>10, <1>11, OneWorkersLinks

\* A packet that the slot does not know is a part of the message that w waits for, and
\* nobody has the sum of that part.
LEMMA UnseenPacket ==
  ASSUME IInv, TurnsInv, NEW w \in Workers, NEW p \in Packet, Takes(w, p),
         w \notin bitmap[p.part][p.set]
  PROVE  /\ Waiting(w) /\ p.set = poolBit[w] /\ p.msg = Sent(w)[2] /\ Sent(w) \in Messages
         /\ ~Has(w, p.part)
         /\ \A v \in Workers :
              \/ Waiting(v) /\ Sent(v) = Sent(w) /\ poolBit[v] = poolBit[w]
              \/ NextOf(Sent(v)) = Sent(w) /\ poolBit[v] = 1 - poolBit[w]
<1>1. /\ up[w] \in Seq(Packet) /\ up[w] # <<>> /\ p = up[w][1] /\ p.part \in Parts
      /\ poolBit[w] \in Sets /\ 1 \in 1 .. Len(up[w])
  <2>1. up[w] \in Seq(Packet) /\ up[w] # <<>>
    BY DEF Takes, IInv, Shapes
  <2> QED BY <2>1, TailElements DEF Takes, IInv, Shapes, Packet
<1>2. Current(w, p)
  <2>1. Current(w, p) \/ (Old(w, p) /\ \A k \in Parts : w \in bitmap[k][1 - poolBit[w]])
    BY <1>1 DEF TurnsInv, UpFollows
  <2> QED BY <1>1, <2>1 DEF Old
<1>3. p.set = poolBit[w] /\ p.msg = Sent(w)[2] /\ ~Has(w, p.part)
  BY <1>2 DEF Current, Has
<1>4. ~AllSummed(w)
  BY <1>1, <1>3 DEF AllSummed, Summed
<1>5. job[w] \in Nat /\ job[w] > 0 /\ Sent(w) \in Messages
  <2>1. job[w] # 0
    BY <1>1 DEF TurnsInv, Quiet
  <2> QED BY <2>1, SentType DEF IInv
<1>6. ASSUME NEW v \in Workers
      PROVE  \/ Waiting(v) /\ Sent(v) = Sent(w) /\ poolBit[v] = poolBit[w]
             \/ NextOf(Sent(v)) = Sent(w) /\ poolBit[v] = 1 - poolBit[w]
  <2>1. Sent(v) # NextOf(Sent(w)) /\ (Sent(v) = Sent(w) => Waiting(v))
    BY <1>4, <1>5 DEF TurnsInv, SwitchInv, Past
  <2>2. poolBit[v] \in Sets
    BY DEF IInv, Shapes
  <2> QED BY <1>1, <2>1, <2>2, BitsType DEF TurnsInv, SwitchInv, Turns
<1>7. Waiting(w)
  <2>1. Sent(w) \in Places
    BY SentType DEF IInv
  <2> QED BY <1>6, <2>1, NextOrder
<1> QED BY <1>3, <1>5, <1>6, <1>7

\* The slot counts it, and may be full by it.
LEMMA UnseenSlot ==
  ASSUME IInv, TurnsInv, NEW w \in Workers, NEW p \in Packet, Takes(w, p),
         w \notin bitmap[p.part][p.set], Marks(w, p.part, p.set)
  PROVE  /\ \/ bitmap[p.part][p.set] = {} \/ Filling(p.part, p.set, Sent(w))
         /\ \A v \in Workers : NextOf(Sent(v)) = Sent(w) => v \notin bitmap[p.part][p.set]
         /\ bitmap'[p.part][p.set] = bitmap[p.part][p.set] \cup {w}
         /\ bitmap'[p.part][p.set] \in SUBSET Workers
         /\ count'[p.part][p.set] = NumWorkers - Cardinality(bitmap'[p.part][p.set])
         /\ count'[p.part][p.set] \in Nat
         /\ count[p.part][p.set] = 0 => bitmap[p.part][p.set] = {}
         /\ count[p.part][p.set] = 1 \/ NumWorkers = 1 => count'[p.part][p.set] = 0
         /\ count'[p.part][p.set] = 0 =>
              /\ count[p.part][p.set] = 1 \/ NumWorkers = 1
              /\ \A v \in Workers : v \in bitmap'[p.part][p.set]
<1>1. PICK i \in Parts : i = p.part
  BY DEF Packet
<1>2. PICK b \in Sets : b = p.set
  BY DEF Packet
<1>3. PICK B \in SUBSET Workers : B = bitmap[i][b]
  BY DEF IInv, Shapes
<1>4. PICK c \in Nat : c = count[i][b]
  BY DEF IInv, Shapes
<1>5. w \notin B /\ b = poolBit[w] /\ Sent(w) \in Messages /\ Sent(w) \in Places
  BY <1>1, <1>2, <1>3, UnseenPacket DEF Places
<1>6. bitmap'[i][b] = B \cup {w} /\ count'[i][b] = IF c = 0 THEN NumWorkers - 1 ELSE c - 1
  BY <1>1, <1>2, <1>3, <1>4, <1>5 DEF Marks, CountAfter
<1>7. \/ B = {} /\ c = 0
      \/ Filling(i, b, Sent(w))
  <2>1. SUFFICES ASSUME NEW m \in Messages, Filling(i, b, m) \/ Full(i, b, m)
                 PROVE  Filling(i, b, Sent(w))
    BY <1>3, <1>4 DEF TurnsInv, SwitchInv, Slots
  <2>2. CASE Filling(i, b, m)
    <3>1. PICK x \in Workers : x \in bitmap[i][b]
      BY <2>2, <1>3 DEF Filling
    <3>2. Sent(x) = m /\ poolBit[x] = b
      BY <2>2, <3>1 DEF Filling
    <3>3. /\ 1 - b # b
          /\ Sent(x) = Sent(w) \/ (NextOf(Sent(x)) = Sent(w) /\ poolBit[x] = 1 - poolBit[w])
      BY UnseenPacket, BitsType
    <3> QED BY <1>5, <2>2, <3>2, <3>3
  <2>3. CASE Full(i, b, m)
    BY <2>3, <1>3, <1>5, BitsType DEF Full
  <2> QED BY <2>1, <2>2, <2>3
<1>8. /\ IsFiniteSet(B) /\ Cardinality(B) \in Nat /\ Cardinality(B \cup {w}) = Cardinality(B) + 1
      /\ B \cup {w} \in SUBSET Workers /\ Cardinality(B \cup {w}) <= NumWorkers
      /\ Cardinality(B \cup {w}) = NumWorkers => B \cup {w} = Workers
      /\ B = {} => Cardinality(B) = 0
  <2>1. IsFiniteSet(Workers)
    BY WorkersAssumption
  <2>2. IsFiniteSet(B)
    BY <2>1, FS_Subset
  <2>3. B \cup {w} \in SUBSET Workers
    BY <1>3
  <2>4. Cardinality(B) \in Nat /\ Cardinality(B \cup {w}) = Cardinality(B) + 1
    BY <1>5, <2>2, FS_CardinalityType, FS_AddElement
  <2>5. /\ Cardinality(B \cup {w}) <= NumWorkers
        /\ Cardinality(B \cup {w}) = NumWorkers => B \cup {w} = Workers
    BY <2>1, <2>3, FS_Subset DEF NumWorkers
  <2> QED BY <2>2, <2>3, <2>4, <2>5, FS_EmptySet
<1>9. c = NumWorkers - Cardinality(B) \/ (B = {} /\ c = 0)
  BY <1>3, <1>4, <1>7 DEF Filling
<1>10. c = 0 => B = {}
  BY <1>3, <1>4, <1>7 DEF Filling
<1>11. /\ count'[i][b] = NumWorkers - (Cardinality(B) + 1) /\ count'[i][b] \in Nat
       /\ c = 1 \/ NumWorkers = 1 => count'[i][b] = 0
       /\ count'[i][b] = 0 => c = 1 \/ NumWorkers = 1
  <2>1. PICK n \in Nat : n = Cardinality(B)
    BY <1>8
  <2>2. NumWorkers \in Nat \ {0} /\ n + 1 <= NumWorkers
    BY <1>8, <2>1, WorkersCount
  <2>3. (c = 0 /\ n = 0) \/ (c # 0 /\ c = NumWorkers - n)
    BY <1>8, <1>9, <1>10, <2>1
  <2> QED BY <1>6, <2>1, <2>2, <2>3
<1>12. count'[i][b] = 0 => B \cup {w} = Workers
  <2>1. Cardinality(B) + 1 = NumWorkers => B \cup {w} = Workers
    BY <1>8
  <2>2. count'[i][b] = 0 => Cardinality(B) + 1 = NumWorkers
    BY <1>8, <1>11, WorkersCount
  <2> QED BY <2>1, <2>2
<1>13. \A v \in Workers : NextOf(Sent(v)) = Sent(w) => v \notin B
  <2> TAKE v \in Workers
  <2>1. Sent(v) \in Places
    BY SentType DEF IInv
  <2>2. NextOf(Sent(v)) = Sent(w) => Sent(v) # Sent(w)
    BY <2>1, NextOrder
  <2> QED BY <1>3, <1>7, <2>2 DEF Filling
<1> QED BY <1>1, <1>2, <1>3, <1>4, <1>6, <1>7, <1>8, <1>10, <1>11, <1>12, <1>13

\* No bit of a message that is being waited for gets lost, and no sum.
LEMMA UnseenKeeps ==
  ASSUME IInv, TurnsInv, NEW w \in Workers, NEW p \in Packet, Takes(w, p),
         w \notin bitmap[p.part][p.set], Marks(w, p.part, p.set), Stays
  PROVE  /\ \A v \in Workers, k \in Parts : /\ Has(v, k) => Has(v, k)'
                                            /\ Summed(v, k) => Summed(v, k)'
                                            /\ Has(v, k)' => Has(v, k) \/ (v = w /\ k = p.part)
         /\ \A v \in Workers : AllSummed(v) => AllSummed(v)'
         /\ Has(w, p.part)'
<1>1. PICK i \in Parts : i = p.part
  BY DEF Packet
<1>2. PICK b \in Sets : b = p.set
  BY DEF Packet
<1>3. b = poolBit[w] /\ \A v \in Workers : poolBit[v] = b \/ poolBit[v] = 1 - b
  BY <1>2, UnseenPacket, BitsType DEF IInv, Shapes
<1>4. /\ bitmap'[i][b] = bitmap[i][b] \cup {w} /\ bitmap'[i][1 - b] = bitmap[i][1 - b] \ {w}
      /\ count'[i][1 - b] = count[i][1 - b]
      /\ \A k \in Parts \ {i} : bitmap'[k] = bitmap[k] /\ count'[k] = count[k]
  BY <1>1, <1>2 DEF Marks
<1>5. \A v \in Workers, k \in Parts : Has(v, k)' <=> v \in bitmap'[k][poolBit[v]]
  BY DEF Has, Stays
<1>6. ASSUME NEW v \in Workers, NEW k \in Parts
      PROVE  /\ Has(v, k) => Has(v, k)'
             /\ Has(v, k)' => Has(v, k) \/ (v = w /\ k = i)
  <2>1. CASE k # i
    BY <1>4, <1>5, <2>1 DEF Has
  <2>2. CASE k = i /\ poolBit[v] = b
    BY <1>4, <1>5, <2>2 DEF Has
  <2>3. CASE k = i /\ poolBit[v] = 1 - b
    <3>1. v # w
      BY <1>3, <2>3, BitsType
    <3> QED BY <1>4, <1>5, <2>3, <3>1 DEF Has
  <2> QED BY <1>3, <2>1, <2>2, <2>3
<1>7. ASSUME NEW v \in Workers, NEW k \in Parts, Summed(v, k)
      PROVE  Summed(v, k)'
  <2>1. Has(v, k)'
    BY <1>6, <1>7 DEF Summed
  <2>2. CASE k = i /\ poolBit[v] = b
    <3>1. count[i][b] = 0 /\ v \in bitmap[i][b]
      BY <1>7, <2>2 DEF Summed, Has
    <3>2. bitmap[i][b] = {}
      BY <1>1, <1>2, <3>1, UnseenSlot
    <3> QED BY <3>1, <3>2
  <2>3. CASE k # i \/ poolBit[v] = 1 - b
    <3>1. count'[k][poolBit[v]] = count[k][poolBit[v]]
      BY <1>4, <2>3
    <3> QED BY <1>7, <2>1, <3>1 DEF Summed, Stays
  <2> QED BY <1>3, <2>2, <2>3
<1>8. \A v \in Workers : AllSummed(v) => AllSummed(v)'
  BY <1>7 DEF AllSummed
<1>9. Has(w, i)'
  BY <1>3, <1>4, <1>5
<1> QED BY <1>1, <1>6, <1>7, <1>8, <1>9

LEMMA UnseenSwitch ==
  ASSUME IInv, TurnsInv, NEW w \in Workers, NEW p \in Packet, Takes(w, p),
         w \notin bitmap[p.part][p.set], Marks(w, p.part, p.set), Stays
  PROVE  SwitchInv'
<1>1. PICK i \in Parts : i = p.part
  BY DEF Packet
<1>2. PICK b \in Sets : b = p.set
  BY DEF Packet
<1>3. /\ b = poolBit[w] /\ 1 - b \in Sets /\ 1 - b # b /\ \A c \in Sets : c = b \/ c = 1 - b
      /\ 1 - (1 - b) = b
  BY <1>2, UnseenPacket, BitsType
<1>4. /\ bitmap'[i][b] = bitmap[i][b] \cup {w} /\ bitmap'[i][1 - b] = bitmap[i][1 - b] \ {w}
      /\ count'[i][1 - b] = count[i][1 - b]
      /\ \A k \in Parts \ {i} : bitmap'[k] = bitmap[k] /\ count'[k] = count[k]
  BY <1>1, <1>2 DEF Marks
<1>5. Turns'
  BY DEF Turns, Stays, TurnsInv, SwitchInv
<1>6. Past'
  BY UnseenKeeps DEF Past, Stays, TurnsInv, SwitchInv
<1>7. OneBit'
  <2> SUFFICES ASSUME NEW v \in Workers, NEW k \in Parts, v \in bitmap'[k][0], v \in bitmap'[k][1]
               PROVE  FALSE
    BY DEF OneBit
  <2>1. ~(v \in bitmap[k][0] /\ v \in bitmap[k][1]) /\ (b = 0 \/ b = 1)
    BY DEF TurnsInv, SwitchInv, OneBit, Sets
  <2>2. k = i
    BY <1>4, <2>1
  <2>3. v \in bitmap'[i][b] /\ v \in bitmap'[i][1 - b]
    BY <2>1, <2>2
  <2>4. v # w /\ v \in bitmap[i][b] /\ v \in bitmap[i][1 - b]
    BY <1>4, <2>3
  <2> QED BY <2>1, <2>2, <2>4
<1>8. InOrder'
  <2> SUFFICES ASSUME NEW v \in Workers, NEW j \in Parts, NEW k \in Parts, j < k, Has(v, k)'
               PROVE  Has(v, j)'
    BY DEF InOrder
  <2>1. CASE Has(v, k)
    BY <2>1, UnseenKeeps DEF TurnsInv, SwitchInv, InOrder
  <2>2. CASE v = w /\ k = p.part
    <3>1. Has(w, j)
      BY <1>2, <1>3, <2>2, TakesFollows DEF TurnsInv
    <3> QED BY <2>2, <3>1, UnseenKeeps
  <2> QED BY <2>1, <2>2, UnseenKeeps
<1>9. Slots'
  <2> SUFFICES ASSUME NEW k \in Parts, NEW c \in Sets
               PROVE  \/ bitmap'[k][c] = {} /\ count'[k][c] = 0
                      \/ \E m \in Messages : Filling(k, c, m)' \/ Full(k, c, m)'
    BY DEF Slots
  <2>1. \/ bitmap[k][c] = {} /\ count[k][c] = 0
        \/ \E m \in Messages : Filling(k, c, m) \/ Full(k, c, m)
    BY DEF TurnsInv, SwitchInv, Slots
  <2>2. CASE k # i
    <3>1. bitmap'[k] = bitmap[k] /\ count'[k] = count[k]
      BY <1>4, <2>2
    <3>2. \A m : (Filling(k, c, m) => Filling(k, c, m)') /\ (Full(k, c, m) => Full(k, c, m)')
      BY <3>1 DEF Filling, Full, Stays
    <3> QED BY <2>1, <3>1, <3>2
  <2>3. CASE k = i /\ c = b
    <3>1. /\ Sent(w) \in Messages
          /\ \A v \in Workers : \/ Waiting(v) /\ Sent(v) = Sent(w) /\ poolBit[v] = b
                                \/ NextOf(Sent(v)) = Sent(w) /\ v \notin bitmap[i][b]
      <4>1. /\ Sent(w) \in Messages
            /\ \A v \in Workers : \/ Waiting(v) /\ Sent(v) = Sent(w) /\ poolBit[v] = b
                                  \/ NextOf(Sent(v)) = Sent(w)
        BY <1>3, UnseenPacket
      <4>2. \A v \in Workers : NextOf(Sent(v)) = Sent(w) => v \notin bitmap[i][b]
        BY <1>1, <1>2, UnseenSlot
      <4> QED BY <4>1, <4>2
    <3>2. /\ bitmap'[i][b] # {} /\ count'[i][b] = NumWorkers - Cardinality(bitmap'[i][b])
          /\ count'[i][b] \in Nat
          /\ count'[i][b] = 0 => \A v \in Workers : v \in bitmap'[i][b]
      BY <1>1, <1>2, UnseenSlot
    <3>3. Sent(w) \in Places /\ NextOf(Sent(w)) # Sent(w)
      BY <3>1, NextOrder DEF Places
    <3>4. CASE count'[i][b] = 0
      <4>1. \A v \in Workers : v \in bitmap[i][b] \/ v = w
        BY <1>4, <3>2, <3>4
      <4>2. \A v \in Workers : Sent(v) = Sent(w) /\ poolBit[v] = b
        BY <1>3, <3>1, <4>1
      <4>3. Full(i, b, Sent(w))'
        BY <3>2, <3>4, <4>2 DEF Full, Stays
      <4>4. \E m \in Messages : Full(i, b, m)'
        <5>1. PICK m \in Messages : m = Sent(w)
          BY <3>1
        <5>2. m = Sent(w)'
          BY <5>1 DEF Stays
        <5> QED BY <4>3, <5>2 DEF Full
      <4> QED BY <2>3, <4>4
    <3>5. CASE count'[i][b] # 0
      <4>1. PICK m \in Messages : m = Sent(w)
        BY <3>1
      <4>2. \A v \in Workers : \/ Waiting(v) /\ Sent(v) = m /\ poolBit[v] = b
                               \/ NextOf(Sent(v)) = m /\ v \notin bitmap'[i][b]
        BY <1>4, <3>1, <3>3, <4>1
      <4>3. count'[i][b] > 0
        BY <3>2, <3>5
      <4>4. Filling(i, b, m)'
        BY <3>2, <4>2, <4>3 DEF Filling, Stays
      <4> QED BY <2>3, <4>4
    <3> QED BY <3>4, <3>5
  <2>4. CASE k = i /\ c = 1 - b
    <3>1. CASE bitmap'[i][c] = {}
      <4>1. count[i][c] = 0 \/ \E m \in Messages : Filling(i, c, m)
        BY <2>1, <2>4 DEF Full
      <4>2. ASSUME NEW m \in Messages, Filling(i, c, m) PROVE FALSE
        <5>1. w \notin bitmap[i][c]
          BY <1>3, <2>4, <4>2 DEF Filling
        <5>2. bitmap[i][c] = {}
          BY <1>4, <2>4, <3>1, <5>1
        <5> QED BY <4>2, <5>2 DEF Filling
      <4> QED BY <1>4, <2>4, <3>1, <4>1, <4>2
    <3>2. ASSUME NEW m \in Messages, Filling(i, c, m) PROVE Filling(i, c, m)'
      <4>1. w \notin bitmap[i][c]
        BY <1>3, <2>4, <3>2 DEF Filling
      <4>2. bitmap'[i][c] = bitmap[i][c] /\ count'[i][c] = count[i][c]
        BY <1>4, <2>4, <4>1
      <4> QED BY <3>2, <4>2 DEF Filling, Stays
    <3>3. ASSUME NEW m \in Messages, Full(i, c, m), bitmap'[i][c] # {} PROVE Full(i, c, m)'
      <4>1. ASSUME NEW v \in Workers
            PROVE  \/ Sent(v) = m /\ poolBit[v] = c /\ v \in bitmap'[i][c]
                   \/ /\ Sent(v) = NextOf(m) /\ poolBit[v] = 1 - c
                      /\ v \in bitmap'[i][c] \/ v \in bitmap'[i][1 - c]
        <5>1. \/ Sent(v) = m /\ poolBit[v] = c /\ v \in bitmap[i][c]
              \/ /\ Sent(v) = NextOf(m) /\ poolBit[v] = 1 - c
                 /\ v \in bitmap[i][c] \/ v \in bitmap[i][1 - c]
          BY <3>3 DEF Full
        <5>2. bitmap'[i][1 - c] = bitmap[i][1 - c] \cup {w} /\ bitmap'[i][c] = bitmap[i][c] \ {w}
              /\ poolBit[w] # c
          BY <1>3, <1>4, <2>4
        <5> QED BY <5>1, <5>2
      <4>2. count'[i][c] = 0
        BY <1>4, <2>4, <3>3 DEF Full
      <4> QED BY <3>3, <4>1, <4>2 DEF Full, Stays
    <3>4. CASE bitmap[i][c] = {}
      BY <1>4, <2>1, <2>4, <3>1, <3>4
    <3> QED BY <2>1, <2>4, <3>1, <3>2, <3>3, <3>4
  <2> QED BY <1>3, <2>2, <2>3, <2>4
<1> QED BY <1>5, <1>6, <1>7, <1>8, <1>9 DEF SwitchInv

\* Either nobody gets an answer, or everybody gets one and has waited for it.
LEMMA UnseenReplies ==
  ASSUME IInv, TurnsInv, NEW w \in Workers, NEW p \in Packet, NEW sum \in Data,
         Takes(w, p), Marks(w, p.part, p.set), Replies(p, sum, Receivers(w, p.part, p.set)),
         w \notin bitmap[p.part][p.set], Stays
  PROVE  \/ /\ count'[p.part][p.set] # 0
            /\ \A v \in Workers : down'[v] = down[v] /\ downGap'[v] = downGap[v]
         \/ /\ count'[p.part][p.set] = 0
            /\ \A v \in Workers : /\ down'[v] = Append(down[v], Reply(p, sum, v))
                                  /\ downGap'[v] = FALSE
                                  /\ Sent(v) = Sent(w) /\ poolBit[v] = p.set
                                  /\ Summed(v, p.part)'
<1>1. PICK i \in Parts : i = p.part
  BY DEF Packet
<1>2. PICK b \in Sets : b = p.set
  BY DEF Packet
<1>3. CASE count[i][b] = 1 \/ NumWorkers = 1
  <2>1. count'[i][b] = 0 /\ \A v \in Workers : v \in bitmap'[i][b]
    BY <1>1, <1>2, <1>3, UnseenSlot
  <2>2. bitmap'[i][b] = bitmap[i][b] \cup {w}
    BY <1>1, <1>2, UnseenSlot
  <2>3. Receivers(w, i, b) = Workers
    BY <1>1, <1>2, <1>3 DEF Receivers
  <2>4. ASSUME NEW v \in Workers
        PROVE  Sent(v) = Sent(w) /\ poolBit[v] = b
    <3>1. NextOf(Sent(v)) = Sent(w) => v \notin bitmap[i][b]
      BY <1>1, <1>2, UnseenSlot
    <3>2. v = w \/ v \in bitmap[i][b]
      BY <2>1, <2>2
    <3>3. v = w \/ (Sent(v) = Sent(w) /\ poolBit[v] = poolBit[w])
      BY <3>1, <3>2, UnseenPacket
    <3>4. b = poolBit[w]
      BY <1>2, UnseenPacket
    <3> QED BY <3>3, <3>4
  <2>5. \A v \in Workers : Summed(v, i)'
    BY <2>1, <2>4 DEF Summed, Has, Stays
  <2>6. \A v \in Workers : down'[v] = Append(down[v], Reply(p, sum, v)) /\ downGap'[v] = FALSE
    BY <1>1, <1>2, <2>3 DEF Replies
  <2> QED BY <1>1, <1>2, <2>1, <2>4, <2>5, <2>6
<1>4. CASE ~(count[i][b] = 1 \/ NumWorkers = 1)
  <2>1. Receivers(w, i, b) = {}
    BY <1>1, <1>2, <1>4 DEF Receivers
  <2>2. count'[i][b] # 0
    BY <1>1, <1>2, <1>4, UnseenSlot
  <2> QED BY <1>1, <1>2, <2>1, <2>2 DEF Replies
<1> QED BY <1>3, <1>4

\* The slot is new to the packet: it is added, and everybody may get the sum.
LEMMA UnseenTurns ==
  ASSUME IInv, TurnsInv, NEW w \in Workers, NEW p \in Packet, NEW sum \in Data,
         Takes(w, p), Marks(w, p.part, p.set), Replies(p, sum, Receivers(w, p.part, p.set)),
         w \notin bitmap[p.part][p.set],
         UNCHANGED <<job, msg, poolBit, cq>>
  PROVE  TurnsInv'
<1>1. PICK i \in Parts : i = p.part
  BY DEF Packet
<1>2. PICK b \in Sets : b = p.set
  BY DEF Packet
<1>3. Stays
  BY UnchangedStays
<1>4. /\ \A v \in Workers, k \in Parts : /\ Has(v, k) => Has(v, k)'
                                         /\ Summed(v, k) => Summed(v, k)'
      /\ \A v \in Workers : AllSummed(v) => AllSummed(v)'
      /\ Has(w, i)'
  BY <1>1, <1>3, UnseenKeeps
<1>5. SwitchInv'
  BY <1>3, UnseenSwitch
<1>6. /\ Waiting(w) /\ b = poolBit[w] /\ p.msg = Sent(w)[2] /\ Sent(w) \in Messages
      /\ 1 - b # b
  BY <1>2, UnseenPacket, BitsType
<1>7. \A v \in Workers : /\ Sent(v)' = Sent(v) /\ (Waiting(v)' <=> Waiting(v))
                         /\ poolBit'[v] = poolBit[v] /\ msg'[v] = msg[v] /\ job'[v] = job[v]
  BY <1>3 DEF Stays
<1>8. \/ \A v \in Workers : down'[v] = down[v]
      \/ \A v \in Workers : /\ down'[v] = Append(down[v], Reply(p, sum, v))
                            /\ Sent(v) = Sent(w) /\ poolBit[v] = b /\ Summed(v, i)'
  BY <1>1, <1>2, <1>3, UnseenReplies
<1>9. UpFollows(w)'
  <2>1. UpFollows(w) /\ up'[w] = Tail(up[w])
    BY DEF TurnsInv, Takes
  <2>2. \A n \in 1 .. Len(Tail(up[w])) :
          /\ n + 1 \in 1 .. Len(up[w]) /\ Tail(up[w])[n] = up[w][n + 1]
          /\ Tail(up[w])[n].set = poolBit[w]
    BY <1>2, <1>6, <2>1, TakesFollows
  <2>3. \A n \in 1 .. Len(Tail(up[w])) : Current(w, Tail(up[w])[n])
    <3> TAKE n \in 1 .. Len(Tail(up[w]))
    <3>1. /\ n + 1 \in 1 .. Len(up[w]) /\ Tail(up[w])[n] = up[w][n + 1]
          /\ Tail(up[w])[n].set = poolBit[w]
      BY <2>2
    <3>2. ~Old(w, Tail(up[w])[n])
      BY <1>6, <3>1 DEF Old
    <3>3. Current(w, up[w][n + 1]) \/ Old(w, up[w][n + 1])
      BY <2>1, <3>1 DEF UpFollows
    <3> QED BY <3>1, <3>2, <3>3
  <2>4. ASSUME Tail(up[w]) # <<>>, Tail(up[w])[1].part > 0,
               ~Tail(up[w])[1].gap, NEW x \in Parts, x < Tail(up[w])[1].part
        PROVE  Has(w, x)'
    <3>1. Tail(up[w])[1].part = i + 1
      BY <1>1, <2>1, <2>4, TakesFollows
    <3>2. x < i \/ x = i
      BY <2>4, <3>1, FirstParts
    <3>3. x < i => Has(w, x)
      BY <1>1, <1>2, <1>6, <2>1, TakesFollows
    <3> QED BY <1>4, <3>2, <3>3
  <2>5. OldFirst(Tail(up[w]), poolBit[w])
    BY <2>1, TakesFollows
  <2>6. (\A n \in 1 .. Len(up[w]) : Current(w, up[w][n]))'
    BY <1>7, <2>1, <2>3 DEF Current
  <2>7. OldFirst(up[w], poolBit[w])'
    BY <1>7, <2>1, <2>5 DEF OldFirst
  <2>8. (/\ up[w] # <<>> /\ up[w][1].set = poolBit[w] /\ up[w][1].part > 0
         /\ ~up[w][1].gap /\ ~rx[w].error
         => \A x \in Parts : x < up[w][1].part => Has(w, x))'
    BY <2>1, <2>4
  <2> QED BY <2>6, <2>7, <2>8 DEF UpFollows
<1>10. ASSUME NEW v \in Workers, v # w
       PROVE  UpFollows(v)'
  <2>1. UpFollows(v) /\ up'[v] = up[v] /\ rx'[v] = rx[v]
    BY <1>10 DEF TurnsInv, Takes
  <2>2. \A k \in Parts, c \in Sets : v \in bitmap[k][c] => v \in bitmap'[k][c]
    <3> TAKE k \in Parts, c \in Sets
    <3>1. CASE k # i
      BY <1>1, <3>1 DEF Marks
    <3>2. CASE k = i
      <4>1. c = b \/ c = 1 - b
        BY BitsType
      <4>2. bitmap'[i][b] = bitmap[i][b] \cup {w} /\ bitmap'[i][1 - b] = bitmap[i][1 - b] \ {w}
        BY <1>1, <1>2 DEF Marks
      <4> QED BY <1>10, <3>2, <4>1, <4>2
    <3> QED BY <3>1, <3>2
  <2>3. 1 - poolBit[v] \in Sets
    BY BitsType DEF IInv, Shapes
  <2>4. (\A n \in 1 .. Len(up[v]) :
           \/ Current(v, up[v][n])
           \/ Old(v, up[v][n]) /\ \A k \in Parts : v \in bitmap[k][1 - poolBit[v]])'
    BY <1>7, <2>1, <2>2, <2>3 DEF UpFollows, Current, Old
  <2>5. OldFirst(up[v], poolBit[v])'
    BY <1>7, <2>1 DEF UpFollows, OldFirst
  <2>6. (/\ up[v] # <<>> /\ up[v][1].set = poolBit[v] /\ up[v][1].part > 0
         /\ ~up[v][1].gap /\ ~rx[v].error
         => \A x \in Parts : x < up[v][1].part => Has(v, x))'
    BY <1>4, <1>7, <2>1 DEF UpFollows
  <2> QED BY <2>4, <2>5, <2>6 DEF UpFollows
<1>11. ASSUME NEW v \in Workers
       PROVE  DownFollows(v)' /\ CqFollows(v)'
  <2>1. DownFollows(v) /\ CqFollows(v) /\ cq'[v] = cq[v] /\ down[v] \in Seq(Packet)
    BY DEF TurnsInv, IInv, Shapes
  <2>2. \A n \in 1 .. Len(down[v]) :
          \/ Current(v, down[v][n]) /\ \E k \in Parts : k = down[v][n].part /\ Summed(v, k)'
          \/ Old(v, down[v][n])
    <3> TAKE n \in 1 .. Len(down[v])
    <3>1. down[v][n] \in Packet
      BY <2>1, ElementOfSeq
    <3>2. down[v][n].part \in Parts
      BY <3>1 DEF Packet
    <3> QED BY <1>4, <2>1, <3>2 DEF DownFollows
  <2>3. CASE down'[v] = down[v]
    <3>1. (\A n \in 1 .. Len(down[v]) :
             \/ Current(v, down[v][n]) /\ Summed(v, down[v][n].part)
             \/ Old(v, down[v][n]))'
      BY <1>7, <2>2, <2>3 DEF Current, Old, Summed, Has
    <3>2. OldFirst(down[v], poolBit[v])'
      BY <1>7, <2>1, <2>3 DEF DownFollows, OldFirst
    <3>3. CqFollows(v)'
      BY <1>4, <1>7, <2>1, <2>3 DEF CqFollows
    <3> QED BY <3>1, <3>2, <3>3 DEF DownFollows
  <2>4. CASE /\ down'[v] = Append(down[v], Reply(p, sum, v))
             /\ Sent(v) = Sent(w) /\ poolBit[v] = b /\ Summed(v, i)'
    <3> DEFINE q == Reply(p, sum, v)
    <3>1. q.part = i /\ q.msg = p.msg /\ q.set = b
      BY <1>1, <1>2 DEF Reply
    <3>2. q \in Packet
      BY ReplyType
    <3> HIDE DEF q
    <3>3. /\ Len(down[v]) \in Nat /\ Len(down'[v]) = Len(down[v]) + 1 /\ down'[v] = Append(down[v], q)
          /\ \A n \in 1 .. Len(down'[v]) : \/ n \in 1 .. Len(down[v]) /\ down'[v][n] = down[v][n]
                                           \/ n = Len(down[v]) + 1 /\ down'[v][n] = q
      <4>1. down'[v] = Append(down[v], q)
        BY <2>4 DEF q
      <4> QED BY <2>1, <3>2, <4>1, AppendProperties, LenProperties
    <3>4. Current(v, q)
      BY <1>6, <2>4, <3>1 DEF Current
    <3>5. \A n \in 1 .. Len(down'[v]) :
            \/ Current(v, down'[v][n]) /\ \E k \in Parts : k = down'[v][n].part /\ Summed(v, k)'
            \/ Old(v, down'[v][n])
      BY <2>2, <2>4, <3>1, <3>3, <3>4
    <3>6. (\A n \in 1 .. Len(down[v]) :
             \/ Current(v, down[v][n]) /\ Summed(v, down[v][n].part)
             \/ Old(v, down[v][n]))'
      BY <1>7, <3>5 DEF Current, Old, Summed, Has
    <3>7. OldFirst(down'[v], poolBit[v])
      BY <2>1, <2>4, <3>1, <3>2, <3>3, OldFirstAppend DEF DownFollows
    <3>8. OldFirst(down[v], poolBit[v])'
      BY <1>7, <3>7 DEF OldFirst
    <3>9. CqFollows(v)'
      BY <1>4, <1>7, <2>1, <2>4, <3>1, <3>3 DEF CqFollows
    <3> QED BY <3>6, <3>8, <3>9 DEF DownFollows
  <2> QED BY <1>8, <2>3, <2>4
<1>12. Quiet'
  <2>1. job[w] # 0 /\ \A v \in Workers : Sent(v) = Sent(w) => job[v] # 0
    <3>1. \A v \in Workers : Sent(v) \in Messages => job[v] # 0
      BY SentType, MessagesPairs DEF IInv
    <3> QED BY <1>6, <3>1
  <2> QED BY <1>7, <1>8, <2>1 DEF Takes, Quiet, TurnsInv
<1> QED BY <1>5, <1>9, <1>10, <1>11, <1>12 DEF TurnsInv

LEMMA AggregateTurns ==
  ASSUME IInv, TurnsInv, NEW w \in Workers, Aggregate(w)
  PROVE  TurnsInv'
<1>1. PICK p \in Packet, sum \in Data :
        /\ Takes(w, p) /\ Marks(w, p.part, p.set)
        /\ Replies(p, sum, Receivers(w, p.part, p.set))
        /\ UNCHANGED <<job, msg, poolBit, cq>>
  BY AggregateEffect
<1>2. IInv'
  BY AggregateIInv
<1> QED BY <1>1, <1>2, SeenTurns, UnseenTurns

-----------------------------------------------------------------------------

LEMMA InitTurns == Init => TurnsInv
<1> SUFFICES ASSUME Init PROVE TurnsInv
  OBVIOUS
<1>1. /\ \A w \in Workers : /\ job[w] = 0 /\ msg[w] = 0 /\ poolBit[w] = 1 /\ ~Waiting(w)
                            /\ up[w] = <<>> /\ down[w] = <<>> /\ cq[w] = <<>>
      /\ \A i \in Parts, b \in Sets : bitmap[i][b] = {} /\ count[i][b] = 0
      /\ 0 \in Sets /\ 1 \in Sets
  BY DEF Init, Waiting, Sets
<1>2. \A v, w \in Workers : Sent(v) = Sent(w)
  BY <1>1 DEF Sent
<1>3. Turns /\ Past /\ OneBit /\ Slots /\ InOrder /\ Quiet
  BY <1>1, <1>2 DEF Turns, Past, OneBit, Slots, InOrder, Quiet, Has
<1>4. \A w \in Workers : UpFollows(w) /\ DownFollows(w) /\ CqFollows(w)
  BY <1>1, EmptySeq DEF UpFollows, DownFollows, CqFollows, OldFirst
<1> QED BY <1>3, <1>4 DEF TurnsInv, SwitchInv

LEMMA NextTurns ==
  ASSUME ~crossed', IInv, TurnsInv, [Next]_vars
  PROVE  TurnsInv'
<1>1. CASE UNCHANGED vars
  <2>1. Stays /\ UNCHANGED <<bitmap, count, up, down, cq, rx>>
    BY <1>1, UnchangedStays DEF vars, workerVars, memoryVars, downVars, slotVars
  <2>2. SwitchInv'
    BY <2>1, SwitchUnchanged DEF TurnsInv
  <2>3. \A w \in Workers : UpFollows(w)' /\ DownFollows(w)' /\ CqFollows(w)'
    BY <2>1, LinksUnchanged DEF TurnsInv, Stays
  <2> QED BY <2>1, <2>2, <2>3 DEF TurnsInv, Quiet, Stays
<1>2. ASSUME NEW w \in Workers, PollCompletion(w)
      PROVE  TurnsInv'
  BY <1>2, AcceptTurns, DiscardTurns DEF PollCompletion
<1>3. ASSUME NEW w \in Workers,
             \/ StartSlice(w) \/ Timeout(w) \/ Switch(w) \/ NicReceive(w)
             \/ LoseUplink(w) \/ LoseDownlink(w)
      PROVE  TurnsInv'
  BY <1>3, StartSliceTurns, TimeoutTurns, SequenceViolationTurns, AggregateTurns,
     NicReceiveTurns, LoseUplinkTurns, LoseDownlinkTurns DEF Switch
<1>4. CASE Done
  BY <1>1, <1>4 DEF Done
<1> QED BY <1>1, <1>2, <1>3, <1>4 DEF Next

\* A history variable stays as it is, or becomes TRUE or FALSE without forgetting.
Remembers(h, hh) == (h => hh) /\ (hh = h \/ hh \in BOOLEAN)

LEMMA HistoryEffect ==
  ASSUME NEW w \in Workers,
         \/ StartSlice(w) \/ Timeout(w) \/ PollCompletion(w)
         \/ Switch(w) \/ NicReceive(w)
         \/ LoseUplink(w) \/ LoseDownlink(w)
  PROVE  /\ Remembers(crossed, crossed')
         /\ Remembers(exposed, exposed')
         /\ Remembers(misplaced, misplaced')
<1>1. CASE StartSlice(w)
  <2>1. crossed' = (crossed \/ Crosses(w))
    BY <1>1 DEF StartSlice
  <2>2. exposed' = exposed /\ misplaced' = misplaced
    BY <1>1 DEF StartSlice
  <2> QED BY <2>1, <2>2, Zenon DEF Remembers
<1>2. CASE LoseUplink(w)
  <2>1. exposed' = (exposed \/ Exposes(w))
    BY <1>2 DEF LoseUplink
  <2>2. crossed' = crossed /\ misplaced' = misplaced
    BY <1>2 DEF LoseUplink
  <2> QED BY <2>1, <2>2, Zenon DEF Remembers
<1>3. CASE NicReceive(w)
  <2>1. \E x : misplaced' = (misplaced \/ x)
    BY <1>3, Zenon DEF NicReceive
  <2>2. crossed' = crossed /\ exposed' = exposed
    BY <1>3 DEF NicReceive
  <2> QED BY <2>1, <2>2, Zenon DEF Remembers
<1>4. CASE Timeout(w) \/ PollCompletion(w) \/ Switch(w) \/ LoseDownlink(w)
  <2>1. historyVars' = historyVars
    BY <1>4 DEF Timeout, PollCompletion, Switch, SequenceViolation, Aggregate, LoseDownlink
  <2>2. crossed' = crossed /\ exposed' = exposed /\ misplaced' = misplaced
    BY <2>1 DEF historyVars
  <2> QED BY <2>2, Zenon DEF Remembers
<1> QED BY <1>1, <1>2, <1>3, <1>4

\* The history variables remember.
LEMMA NextHistory ==
  ASSUME IInv, [Next]_vars
  PROVE  /\ crossed => crossed'
         /\ exposed => exposed'
         /\ misplaced => misplaced'
<1>1. CASE UNCHANGED vars
  BY <1>1 DEF vars, historyVars
<1>2. ASSUME NEW w \in Workers,
             \/ StartSlice(w) \/ Timeout(w) \/ PollCompletion(w)
             \/ Switch(w) \/ NicReceive(w)
             \/ LoseUplink(w) \/ LoseDownlink(w)
      PROVE  /\ crossed => crossed'
             /\ exposed => exposed'
             /\ misplaced => misplaced'
  BY <1>2, HistoryEffect, Zenon DEF Remembers
<1>3. CASE Done
  BY <1>1, <1>3 DEF Done
<1> QED BY <1>1, <1>2, <1>3 DEF Next

\* Where every worker is, what the switch has of it, and what is under way.
THEOREM TurnsInvariant == Spec => [](IInv /\ (~crossed => TurnsInv))
<1>1. Init => IInv /\ TurnsInv
  BY InitIInv, InitTurns
<1>2. IInv /\ (~crossed => TurnsInv) /\ [Next]_vars => IInv' /\ (~crossed => TurnsInv)'
  BY NextIInv, NextTurns, NextHistory
<1> QED BY <1>1, <1>2, PTL DEF Spec

\* The parts of a message are aggregated in the order of the message, whatever gets
\* lost and however often it is posted again (RDMAReceiver drops what is behind a gap),
\* until packets of a slice of one message cross to the next slice, whose first message
\* has their id.
THEOREM PartsComeInOrder == Spec => [](~crossed => PartsInOrder)
<1>1. TurnsInv => PartsInOrder
  BY DEF TurnsInv, SwitchInv, InOrder, PartsInOrder, Has
<1> QED BY <1>1, TurnsInvariant, PTL

HistoryType == <<crossed, exposed, misplaced>> \in BOOLEAN \X BOOLEAN \X BOOLEAN

LEMMA HistoryInvariant == Spec => []HistoryType
<1>1. Init => HistoryType
  BY DEF Init, HistoryType
<1>2. HistoryType /\ [Next]_vars => HistoryType'
  <2> SUFFICES ASSUME HistoryType, [Next]_vars
               PROVE  crossed' \in BOOLEAN /\ exposed' \in BOOLEAN /\ misplaced' \in BOOLEAN
    BY DEF HistoryType
  <2> USE DEF HistoryType
  <2>1. CASE UNCHANGED vars
    BY <2>1 DEF vars, historyVars
  <2>2. ASSUME NEW w \in Workers,
               \/ StartSlice(w) \/ Timeout(w) \/ PollCompletion(w)
               \/ Switch(w) \/ NicReceive(w)
               \/ LoseUplink(w) \/ LoseDownlink(w)
        PROVE  crossed' \in BOOLEAN /\ exposed' \in BOOLEAN /\ misplaced' \in BOOLEAN
    BY <2>2, HistoryEffect, Zenon DEF Remembers
  <2>3. CASE Done
    BY <2>1, <2>3 DEF Done
  <2> QED BY <2>1, <2>2, <2>3 DEF Next
<1> QED BY <1>1, <1>2, PTL DEF Spec

LEMMA CountBelow ==
  ASSUME IInv, TurnsInv, NEW i \in Parts, NEW b \in Sets
  PROVE  count[i][b] \in 0 .. NumWorkers - 1
<1>1. CASE count[i][b] = 0
  BY <1>1, WorkersCount
<1>2. CASE count[i][b] # 0
  <2>1. PICK m \in Messages : Filling(i, b, m)
    BY <1>2 DEF TurnsInv, SwitchInv, Slots, Full
  <2>2. bitmap[i][b] \in SUBSET Workers /\ bitmap[i][b] # {} /\ count[i][b] \in Nat
        /\ count[i][b] = NumWorkers - Cardinality(bitmap[i][b])
    BY <2>1 DEF Filling, IInv, Shapes
  <2>3. Cardinality(bitmap[i][b]) \in Nat /\ Cardinality(bitmap[i][b]) # 0
    <3>1. IsFiniteSet(bitmap[i][b])
      BY <2>2, WorkersAssumption, FS_Subset
    <3> QED BY <2>2, <3>1, FS_CardinalityType, FS_EmptySet
  <2> QED BY <2>2, <2>3, WorkersCount
<1> QED BY <1>1, <1>2

\* The bookkeeping of a queue pair is consistent on both sides: registers and counters
\* keep their ranges, the register of RDMAReceiver counts the parts right, one receive
\* work request stands for each awaited result, and the slots that the next message
\* goes to do not have the worker's bit (RdmaWorkerThread flips the pool bit per
\* message, worker_bitmap clears the other set's bit).  It stays so until packets of a
\* slice of one message cross to the next slice, whose first message has their id.
THEOREM QueuePairsConsistent == Spec => [](~crossed => Consistent)
<1>1. IInv /\ HistoryType /\ TurnsInv => Consistent
  <2> SUFFICES ASSUME IInv, HistoryType, TurnsInv PROVE Consistent
    OBVIOUS
  <2>1. ASSUME NEW w \in Workers
        PROVE  recvs[w] \in 0 .. 1
    <3>1. recvs[w] \in Nat /\ Len(cq[w]) \in Nat
      <4>1. cq[w] \in Seq(MsgIds)
        BY DEF IInv, Shapes
      <4> QED BY <4>1, LenProperties DEF IInv, Shapes
    <3>2. recvs[w] + Len(cq[w]) = 0 \/ recvs[w] + Len(cq[w]) = 1
      BY DEF IInv, OneReceive
    <3> QED BY <3>1, <3>2
  <2>2. recvs \in [Workers -> 0 .. 1]
    BY <2>1 DEF IInv, Shapes
  <2>3. count \in [Parts -> [Sets -> 0 .. NumWorkers - 1]]
    <3>1. \A i \in Parts : count[i] \in [Sets -> 0 .. NumWorkers - 1]
      <4> TAKE i \in Parts
      <4>1. count[i] \in [Sets -> Nat] /\ \A b \in Sets : count[i][b] \in 0 .. NumWorkers - 1
        BY CountBelow DEF IInv, Shapes
      <4> QED BY <4>1
    <3> QED BY <3>1 DEF IInv, Shapes
  <2>4. TypeOK
    BY <2>2, <2>3 DEF IInv, Shapes, TypeOK, Register, HistoryType
  <2>5. PartsCounted
    <3> SUFFICES ASSUME NEW w \in Workers, up[w] # <<>>
                 PROVE  ~ReceiveRoce(rx[w], Head(up[w])).error =>
                          ReceiveRoce(rx[w], Head(up[w])).part = Head(up[w]).part
      BY DEF PartsCounted
    <3> QED BY RegisterCounts
  <2>6. NextMessageIsNew
    <3> SUFFICES ASSUME NEW w \in Workers, ~Waiting(w), NEW i \in Parts
                 PROVE  w \notin bitmap[i][1 - poolBit[w]]
      BY DEF NextMessageIsNew
    <3>1. poolBit[w] \in Sets /\ 1 - poolBit[w] \in Sets
      BY BitsType DEF IInv, Shapes
    <3>2. CASE job[w] = 0
      BY <3>1, <3>2, NoBitsYet DEF IInv, TurnsInv, SwitchInv
    <3>3. CASE job[w] # 0
      <4>1. AllSummed(w)
        BY <3>3, SentType DEF IInv, TurnsInv, SwitchInv, Past
      <4>2. w \in bitmap[i][poolBit[w]]
        BY <4>1 DEF AllSummed, Summed, Has
      <4> QED BY <3>1, <4>2, OtherBitClear DEF IInv, TurnsInv, SwitchInv
    <3> QED BY <3>2, <3>3
  <2> QED BY <2>4, <2>5, <2>6 DEF Consistent, IInv
<1> QED BY <1>1, TurnsInvariant, HistoryInvariant, PTL

-----------------------------------------------------------------------------
(* Values.  Packets in the middle of a result have no address: the NIC puts   *)
(* them where it has got to, and misplaced says that it was the wrong place,  *)
(* as RdmaMixedResults shows of two packets of four.                          *)

\* What workers C have contributed to part i of message m.
Partial(C, m, i) ==
  [c \in Contribs |-> IF c[1] \in C /\ c[2] = m /\ c[3] = i THEN 1 ELSE 0]

\* The slots: the partial sum or the sum of the message w is at, and nothing of it
\* in what w has left behind.
SlotValues(w) ==
  \A i \in Parts :
    /\ Has(w, i) /\ count[i][poolBit[w]] # 0
       => value[i][poolBit[w]] = Partial(bitmap[i][poolBit[w]], Sent(w), i)
    /\ Summed(w, i) => value[i][poolBit[w]] = SumOf(Sent(w), i)
    /\ w \in bitmap[i][1 - poolBit[w]] =>
         \A x \in Parts : value[i][1 - poolBit[w]][<<w, Sent(w), x>>] = 0

\* The same of the results on their way to w.
ResultValue(w, q) ==
  /\ q.set = poolBit[w] => q.val = SumOf(Sent(w), q.part)
  /\ q.set # poolBit[w] => \A x \in Parts : q.val[<<w, Sent(w), x>>] = 0

DownValues(w) == \A n \in 1 .. Len(down[w]) : ResultValue(w, down[w][n])

\* The first n parts of the buffer are the result.
BufOk(w, n) == \A i \in Parts : i < n => buf[w][i] = SumOf(Sent(w), i)

CqValues(w) ==
  Waiting(w) =>
    \A n \in 1 .. Len(cq[w]) : cq[w][n] = msg[w] => BufOk(w, PktsPerMsg)

\* A part of the current result that the NIC may take for the next one follows one of
\* the current result.
Continues(w, n) ==
  IF n = 1 THEN nic[w] > 0 => BufOk(w, nic[w])
  ELSE down[w][n - 1].set = poolBit[w]

NicFollows(w) ==
  Waiting(w) =>
    /\ \A n \in 1 .. Len(down[w]) :
         (/\ down[w][n].set = poolBit[w] /\ down[w][n].part # 0 /\ ~down[w][n].gap)
         => Continues(w, n)
    /\ Summed(w, 0) /\ down[w] = <<>> /\ ~downGap[w] /\ nic[w] > 0 => BufOk(w, nic[w])
    /\ Summed(w, 0) /\ down[w] # <<>> => down[w][Len(down[w])].set = poolBit[w]

\* Part i of the buffer is as it was preprocessed.
Clean(w, i) == buf[w][i] = Unit(w, Sent(w), i)

\* The message as it was posted first is still on the uplink, from part k, behind n
\* packets of the message before it.
Pristine(w, n, k) ==
  /\ n \in Nat /\ k \in 0 .. PktsPerMsg /\ (n > 0 => k = 0)
  /\ \A x \in Parts : x < k => Has(w, x)
  /\ \A x \in 1 .. n : up[w][x].set = 1 - poolBit[w]
  /\ n + PktsPerMsg - k <= Len(up[w])
  /\ \A y \in Parts : y >= k =>
       LET q == up[w][n + y - k + 1]
       IN q.part = y /\ q.set = poolBit[w] /\ ~q.gap /\ q.val = Unit(w, Sent(w), y)
  /\ 0 < k /\ k < PktsPerMsg => ~rx[w].error

BufFollows(w) ==
  Waiting(w) =>
    /\ \A i \in Parts : ~Has(w, i) => Clean(w, i) \/ buf[w][i][<<w, Sent(w), i>>] = 0
    /\ \A i \in Parts : ~Has(w, i) /\ Clean(w, i) =>
         \A n \in 1 .. Len(up[w]) :
           up[w][n].set = poolBit[w] /\ up[w][n].part = i => up[w][n].val = Unit(w, Sent(w), i)
    /\ NoDuplicates(w) \/ \E n, k : Pristine(w, n, k)

OutExact(w) ==
  \A r \in out[w] : \A i \in Parts : r.vals[i] = SumOf(<<r.job, r.msg>>, i)

Values(w) ==
  /\ SlotValues(w) /\ DownValues(w) /\ CqValues(w) /\ NicFollows(w) /\ BufFollows(w)
  /\ OutExact(w)

ValuesInv ==
  /\ out = [w \in Workers |-> out[w]]
  /\ \A w \in Workers : Values(w)

LEMMA TripleType ==
  ASSUME NEW w \in Workers, NEW m \in Messages, NEW i \in Parts
  PROVE  <<w, m, i>> \in Contribs
BY DEF Contribs

\* A contribution that was added once shows, one that was not does not.
LEMMA UnitSums ==
  ASSUME NEW w \in Workers, NEW m \in Messages, NEW i \in Parts
  PROVE  /\ SumOf(m, i)[<<w, m, i>>] = 1 /\ Unit(w, m, i)[<<w, m, i>>] = 1
         /\ Unit(w, m, i) = Partial({w}, m, i)
         /\ \A n \in Messages, x \in Parts : n # m => SumOf(m, i)[<<w, n, x>>] = 0
<1>1. SumOf(m, i)[<<w, m, i>>] = 1
  <2>1. <<w, m, i>>[2] = m /\ <<w, m, i>>[3] = i
    OBVIOUS
  <2> QED BY <2>1, TripleType DEF SumOf
<1>2. \A c \in Contribs : c = <<w, m, i>> <=> (c[1] \in {w} /\ c[2] = m /\ c[3] = i)
  BY DEF Contribs
<1>3. Unit(w, m, i) = Partial({w}, m, i)
  <2>1. \A c \in Contribs : Unit(w, m, i)[c] = IF c = <<w, m, i>> THEN 1 ELSE 0
    BY TripleType DEF Unit, Zero
  <2>2. /\ Unit(w, m, i) = [c \in Contribs |-> Unit(w, m, i)[c]]
        /\ Partial({w}, m, i) = [c \in Contribs |-> Partial({w}, m, i)[c]]
    BY DEF Unit, Zero, Partial
  <2>3. \A c \in Contribs : Unit(w, m, i)[c] = Partial({w}, m, i)[c]
    BY <1>2, <2>1 DEF Partial
  <2> QED BY <2>2, <2>3
<1>4. Unit(w, m, i)[<<w, m, i>>] = 1
  BY TripleType DEF Unit, Zero
<1>5. ASSUME NEW n \in Messages, NEW x \in Parts, n # m
      PROVE  SumOf(m, i)[<<w, n, x>>] = 0
  <2>1. <<w, n, x>>[2] = n
    OBVIOUS
  <2> QED BY <1>5, <2>1, TripleType DEF SumOf
<1> QED BY <1>1, <1>3, <1>4, <1>5

LEMMA OtherSums ==
  ASSUME NEW w \in Workers, NEW m \in Messages, NEW n \in Messages, n # m,
         NEW i \in Parts, NEW x \in Parts
  PROVE  SumOf(m, i)[<<w, n, x>>] = 0
BY UnitSums

LEMMA PartialType ==
  ASSUME NEW C, NEW m, NEW i
  PROVE  Partial(C, m, i) \in Data /\ SumOf(m, i) \in Data
BY DEF Partial, SumOf, Data

\* One contribution more; and all of them.
LEMMA PartialSums ==
  ASSUME NEW m \in Messages, NEW i \in Parts
  PROVE  /\ \A C \in SUBSET Workers, w \in Workers : w \notin C =>
              Add(Partial(C, m, i), Unit(w, m, i)) = Partial(C \cup {w}, m, i)
         /\ Partial(Workers, m, i) = SumOf(m, i)
<1>1. ASSUME NEW C \in SUBSET Workers, NEW w \in Workers, w \notin C
      PROVE  Add(Partial(C, m, i), Unit(w, m, i)) = Partial(C \cup {w}, m, i)
  <2>1. Unit(w, m, i) = Partial({w}, m, i)
    BY UnitSums
  <2>2. Add(Partial(C, m, i), Partial({w}, m, i)) =
          [c \in Contribs |-> Partial(C, m, i)[c] + Partial({w}, m, i)[c]]
    BY DEF Add, Partial
  <2>3. ASSUME NEW c \in Contribs
        PROVE  Partial(C, m, i)[c] + Partial({w}, m, i)[c] = Partial(C \cup {w}, m, i)[c]
    <3>1. /\ Partial(C, m, i)[c] = IF c[1] \in C /\ c[2] = m /\ c[3] = i THEN 1 ELSE 0
          /\ Partial({w}, m, i)[c] = IF c[1] \in {w} /\ c[2] = m /\ c[3] = i THEN 1 ELSE 0
          /\ Partial(C \cup {w}, m, i)[c] =
               IF c[1] \in C \cup {w} /\ c[2] = m /\ c[3] = i THEN 1 ELSE 0
      BY DEF Partial
    <3> QED BY <1>1, <3>1
  <2>4. Partial(C \cup {w}, m, i) = [c \in Contribs |-> Partial(C \cup {w}, m, i)[c]]
    BY DEF Partial
  <2> QED BY <2>1, <2>2, <2>3, <2>4
<1>2. Partial(Workers, m, i) = SumOf(m, i)
  <2>1. \A c \in Contribs : c[1] \in Workers
    BY DEF Contribs
  <2> QED BY <2>1 DEF Partial, SumOf
<1> QED BY <1>1, <1>2

-----------------------------------------------------------------------------
(* What does not change *)

StaysAt(v) == /\ Sent(v)' = Sent(v) /\ (Waiting(v)' <=> Waiting(v))
              /\ msg'[v] = msg[v] /\ job'[v] = job[v] /\ poolBit'[v] = poolBit[v]

LEMMA BitsStay ==
  ASSUME NEW v \in Workers, StaysAt(v), UNCHANGED <<bitmap, count>>
  PROVE  \A i : (Has(v, i)' <=> Has(v, i)) /\ (Summed(v, i)' <=> Summed(v, i))
BY DEF Has, Summed, StaysAt

LEMMA SlotValuesStay ==
  ASSUME NEW v \in Workers, StaysAt(v), UNCHANGED <<bitmap, count, value>>, SlotValues(v)
  PROVE  SlotValues(v)'
<1>1. \A i : (Has(v, i)' <=> Has(v, i)) /\ (Summed(v, i)' <=> Summed(v, i))
  BY BitsStay
<1>2. ASSUME NEW i \in Parts
      PROVE  /\ Has(v, i)' /\ count'[i][poolBit'[v]] # 0
                => value'[i][poolBit'[v]] = Partial(bitmap'[i][poolBit'[v]], Sent(v)', i)
             /\ Summed(v, i)' => value'[i][poolBit'[v]] = SumOf(Sent(v)', i)
             /\ v \in bitmap'[i][1 - poolBit'[v]] =>
                  \A x \in Parts : value'[i][1 - poolBit'[v]][<<v, Sent(v)', x>>] = 0
  BY <1>1 DEF SlotValues, StaysAt
<1> QED BY <1>2 DEF SlotValues

LEMMA DownValuesNext ==
  ASSUME NEW v \in Workers, StaysAt(v),
         \A n \in 1 .. Len(down'[v]) : ResultValue(v, down'[v][n])
  PROVE  DownValues(v)'
<1>1. \A n \in 1 .. Len(down'[v]) :
        /\ down'[v][n].set = poolBit'[v] => down'[v][n].val = SumOf(Sent(v)', down'[v][n].part)
        /\ down'[v][n].set # poolBit'[v] =>
             \A x \in Parts : down'[v][n].val[<<v, Sent(v)', x>>] = 0
  BY DEF ResultValue, StaysAt
<1> QED BY <1>1 DEF DownValues, ResultValue

LEMMA BufOkStays ==
  ASSUME NEW v \in Workers, StaysAt(v), buf'[v] = buf[v]
  PROVE  \A n : BufOk(v, n)' <=> BufOk(v, n)
BY DEF BufOk, StaysAt

LEMMA CqValuesNext ==
  ASSUME NEW v \in Workers, StaysAt(v),
         Waiting(v) => \A n \in 1 .. Len(cq'[v]) : cq'[v][n] = msg[v] =>
           \A i \in Parts : buf'[v][i] = SumOf(Sent(v), i)
  PROVE  CqValues(v)'
<1>1. Waiting(v)' =>
        \A n \in 1 .. Len(cq'[v]) : cq'[v][n] = msg'[v] =>
          \A i \in Parts : buf'[v][i] = SumOf(Sent(v)', i)
  BY DEF StaysAt
<1> QED BY <1>1 DEF CqValues, BufOk

LEMMA NicFollowsStays ==
  ASSUME NEW v \in Workers, StaysAt(v), UNCHANGED <<bitmap, count>>, NicFollows(v),
         down'[v] = down[v], downGap'[v] = downGap[v], nic'[v] = nic[v], buf'[v] = buf[v]
  PROVE  NicFollows(v)'
<1>1. \A i : (Summed(v, i)' <=> Summed(v, i)) /\ (BufOk(v, i)' <=> BufOk(v, i))
  BY BitsStay, BufOkStays
<1>2. \A n : Continues(v, n)' <=> (IF n = 1 THEN nic[v] > 0 => \E k : k = nic[v] /\ BufOk(v, k)
                                   ELSE down[v][n - 1].set = poolBit[v])
  BY <1>1 DEF Continues, StaysAt, BufOk
<1>3. \A n : Continues(v, n)' <=> Continues(v, n)
  BY <1>2 DEF Continues
<1> QED BY <1>1, <1>3 DEF NicFollows, StaysAt, BufOk

\* Same links and buffer.
LEMMA NoDuplicatesStays ==
  ASSUME NEW v \in Workers, StaysAt(v), buf'[v] = buf[v],
         \A n \in DOMAIN up'[v] : \E m \in DOMAIN up[v] : up'[v][n].set = up[v][m].set,
         \A n \in DOMAIN down'[v] : \E m \in DOMAIN down[v] : down'[v][n].set = down[v][m].set,
         NoDuplicates(v)
  PROVE  NoDuplicates(v)'
BY DEF NoDuplicates, StaysAt

LEMMA PristineStays ==
  ASSUME NEW v \in Workers, StaysAt(v), up'[v] = up[v], rx'[v] = rx[v], UNCHANGED <<bitmap, count>>,
         NEW n, NEW k, Pristine(v, n, k)
  PROVE  Pristine(v, n, k)'
<1>1. \A i : Has(v, i)' <=> Has(v, i)
  BY BitsStay
<1> QED BY <1>1 DEF Pristine, StaysAt

\* The buffer of a worker that has not been sent to.
LEMMA BufFollowsNext ==
  ASSUME NEW v \in Workers, StaysAt(v), UNCHANGED <<bitmap, count>>,
         Waiting(v) =>
           /\ \A i \in Parts : ~Has(v, i) =>
                buf'[v][i] = Unit(v, Sent(v), i) \/ buf'[v][i][<<v, Sent(v), i>>] = 0
           /\ \A i \in Parts : ~Has(v, i) /\ buf'[v][i] = Unit(v, Sent(v), i) =>
                \A n \in 1 .. Len(up'[v]) :
                  up'[v][n].set = poolBit[v] /\ up'[v][n].part = i
                  => up'[v][n].val = Unit(v, Sent(v), i)
           /\ NoDuplicates(v)' \/ \E n, k : Pristine(v, n, k)'
  PROVE  BufFollows(v)'
<1>1. \A i : Has(v, i)' <=> Has(v, i)
  BY BitsStay
<1>2. \A i : Clean(v, i)' <=> buf'[v][i] = Unit(v, Sent(v), i)
  BY DEF Clean, StaysAt
<1>3. /\ Sent(v)' = Sent(v) /\ (Waiting(v)' <=> Waiting(v)) /\ poolBit'[v] = poolBit[v]
  BY DEF StaysAt
<1> QED BY <1>1, <1>2, <1>3 DEF BufFollows

LEMMA BufFollowsStays ==
  ASSUME NEW v \in Workers, StaysAt(v), UNCHANGED <<bitmap, count>>, BufFollows(v),
         up'[v] = up[v], down'[v] = down[v], buf'[v] = buf[v], rx'[v] = rx[v]
  PROVE  BufFollows(v)'
<1>1. NoDuplicates(v) => NoDuplicates(v)'
  BY NoDuplicatesStays
<1>2. ASSUME NEW n, NEW k, Pristine(v, n, k)
      PROVE  Pristine(v, n, k)'
  BY <1>2, PristineStays
<1>3. Waiting(v) => NoDuplicates(v)' \/ \E n, k : Pristine(v, n, k)'
  BY <1>1, <1>2 DEF BufFollows
<1> QED BY <1>3, BufFollowsNext DEF BufFollows, Clean

LEMMA OutExactNext ==
  ASSUME NEW v \in Workers, \A r \in out'[v] : r \in out[v] \/
                              \A i \in Parts : r.vals[i] = SumOf(<<r.job, r.msg>>, i),
         OutExact(v)
  PROVE  OutExact(v)'
BY DEF OutExact

\* Nothing changes for v.
LEMMA ValuesUnchanged ==
  ASSUME NEW v \in Workers, Values(v), StaysAt(v), UNCHANGED <<bitmap, count, value>>,
         up'[v] = up[v], down'[v] = down[v], cq'[v] = cq[v] \/ cq'[v] = <<>>,
         nic'[v] = nic[v], downGap'[v] = downGap[v], buf'[v] = buf[v], rx'[v] = rx[v],
         out'[v] = out[v]
  PROVE  Values(v)'
<1>1. SlotValues(v)'
  BY SlotValuesStay DEF Values
<1>2. DownValues(v)'
  BY DownValuesNext DEF Values, DownValues
<1>3. CqValues(v)'
  <2>1. Waiting(v) => \A n \in 1 .. Len(cq'[v]) : cq'[v][n] = msg[v] =>
           \A i \in Parts : buf[v][i] = SumOf(Sent(v), i)
    <3>1. \A i \in Parts : i < PktsPerMsg
      BY RdmaAssumption DEF Parts
    <3>2. CASE cq'[v] = <<>>
      BY <3>2, EmptySeq
    <3>3. CASE cq'[v] = cq[v]
      BY <3>1, <3>3 DEF Values, CqValues, BufOk
    <3> QED BY <3>2, <3>3
  <2> QED BY <2>1, CqValuesNext
<1>4. NicFollows(v)'
  BY NicFollowsStays DEF Values
<1>5. BufFollows(v)'
  BY BufFollowsStays DEF Values
<1>6. OutExact(v)'
  BY OutExactNext DEF Values
<1> QED BY <1>1, <1>2, <1>3, <1>4, <1>5, <1>6 DEF Values

\* Only w takes part in a step that leaves the slots alone.
LEMMA OneWorkersValues ==
  ASSUME ValuesInv, NEW w \in Workers, Values(w)',
         \A v \in Workers \ {w} :
           /\ StaysAt(v) /\ up'[v] = up[v] /\ down'[v] = down[v] /\ cq'[v] = cq[v]
           /\ nic'[v] = nic[v] /\ downGap'[v] = downGap[v] /\ buf'[v] = buf[v]
           /\ rx'[v] = rx[v] /\ out'[v] = out[v],
         UNCHANGED <<bitmap, count, value>>, out' = [v \in Workers |-> out'[v]]
  PROVE  ValuesInv'
<1>1. ASSUME NEW v \in Workers, v # w
      PROVE  Values(v)'
  BY <1>1, ValuesUnchanged DEF ValuesInv
<1> QED BY <1>1 DEF ValuesInv

-----------------------------------------------------------------------------
(* Values: the steps that only move packets *)

LEMMA EverybodyStaysAt ==
  ASSUME UNCHANGED <<job, msg, poolBit>>
  PROVE  \A v \in Workers : StaysAt(v)
BY UnchangedStays DEF Stays, StaysAt

\* The completions that are left after one has been polled.
LEMMA PolledEmpty ==
  ASSUME IInv, NEW w \in Workers, PollCompletion(w)
  PROVE  cq'[w] = <<>> /\ \A v \in Workers \ {w} : cq'[v] = cq[v]
<1>1. cq' = [cq EXCEPT ![w] = Tail(cq[w])]
  BY DEF PollCompletion
<1>2. /\ recvs[w] + Len(cq[w]) = 1 /\ recvs[w] \in Nat /\ cq[w] \in Seq(MsgIds) /\ cq[w] # <<>>
  BY DEF IInv, OneReceive, Shapes, PollCompletion
<1>3. Len(cq[w]) \in Nat \ {0}
  BY <1>2, LenProperties, EmptySeq
<1>4. Tail(cq[w]) \in Seq(MsgIds) /\ Len(Tail(cq[w])) = Len(cq[w]) - 1
  BY <1>2, HeadTailProperties
<1>5. ASSUME NEW a \in Nat, NEW c \in Nat \ {0}, a + c = 1
      PROVE  c - 1 = 0
  BY <1>5
<1>6. Len(Tail(cq[w])) = 0
  BY <1>2, <1>3, <1>4, <1>5
<1>7. cq'[w] = Tail(cq[w]) /\ \A v \in Workers \ {w} : cq'[v] = cq[v]
  BY <1>1 DEF IInv, Shapes
<1> QED BY <1>4, <1>6, <1>7, EmptySeq

LEMMA DiscardValues ==
  ASSUME IInv, ValuesInv, NEW w \in Workers, PollCompletion(w), Discard(w)
  PROVE  ValuesInv'
<1>1. UNCHANGED <<job, msg, poolBit, out, up, down, downGap, nic, buf, rx, bitmap, count, value>>
  BY DEF PollCompletion, Discard, downVars, slotVars
<1>2. cq'[w] = <<>> /\ \A v \in Workers \ {w} : cq'[v] = cq[v]
  BY PolledEmpty
<1>3. \A v \in Workers : Values(v)'
  BY <1>1, <1>2, EverybodyStaysAt, ValuesUnchanged DEF ValuesInv
<1> QED BY <1>1, <1>3 DEF ValuesInv

\* A message that is posted again behind itself.
LEMMA PristineLonger ==
  ASSUME NEW w \in Workers, StaysAt(w), UNCHANGED <<bitmap, count>>, rx'[w] = rx[w],
         Len(up[w]) \in Nat, Len(up'[w]) \in Nat, Len(up[w]) <= Len(up'[w]),
         \A n \in 1 .. Len(up[w]) : up'[w][n] = up[w][n],
         NEW n, NEW k, Pristine(w, n, k)
  PROVE  Pristine(w, n, k)'
<1>1. \A i : Has(w, i)' <=> Has(w, i)
  BY BitsStay
<1>2. /\ n \in Nat /\ k \in 0 .. PktsPerMsg /\ (n > 0 => k = 0) /\ PktsPerMsg \in Nat \ {0}
      /\ n + PktsPerMsg - k <= Len(up[w])
      /\ 0 < k /\ k < PktsPerMsg => ~rx[w].error
  BY RdmaAssumption DEF Pristine
<1>3. \A x \in 1 .. n : x \in 1 .. Len(up[w])
  BY <1>2
<1>4. \A y \in Parts : y >= k => n + y - k + 1 \in 1 .. Len(up[w])
  BY <1>2 DEF Parts
<1>5. \A x \in 1 .. n : up'[w][x].set = 1 - poolBit[w]
  BY <1>3 DEF Pristine
<1>6. \A y \in Parts : y >= k =>
        \E q : /\ q = up'[w][n + y - k + 1]
               /\ q.part = y /\ q.set = poolBit[w] /\ ~q.gap /\ q.val = Unit(w, Sent(w), y)
  BY <1>4 DEF Pristine
<1>7. n + PktsPerMsg - k <= Len(up'[w])
  BY <1>2
<1> QED BY <1>1, <1>2, <1>5, <1>6, <1>7 DEF Pristine, StaysAt

LEMMA TimeoutValues ==
  ASSUME IInv, ValuesInv, NEW w \in Workers, Timeout(w)
  PROVE  ValuesInv'
<1> DEFINE ps == Packets(msg[w], poolBit[w], buf[w])
<1>1. /\ Waiting(w) /\ up' = [up EXCEPT ![w] = up[w] \o ps]
      /\ UNCHANGED <<job, msg, poolBit, out, buf, recvs, cq, nic, down, downGap, rx,
                     bitmap, count, value>>
  BY DEF Timeout, Repost, downVars, slotVars
<1>2. \A v \in Workers : StaysAt(v)
  BY <1>1, EverybodyStaysAt
<1>3. /\ msg[w] \in MsgIds /\ poolBit[w] \in Sets /\ buf[w] \in [Parts -> Data]
      /\ up[w] \in Seq(Packet)
  BY <1>1, WaitingType DEF IInv, Shapes
<1>4. /\ ps \in Seq(Packet) /\ Len(ps) = PktsPerMsg
      /\ \A n \in 1 .. Len(ps) : /\ n - 1 \in Parts /\ ps[n].part = n - 1
                                 /\ ps[n].set = poolBit[w] /\ ps[n].val = buf[w][n - 1]
  BY <1>3, PacketsElements
<1> HIDE DEF ps
<1>5. /\ Len(up[w]) \in Nat /\ Len(ps) \in Nat /\ up'[w] = up[w] \o ps
      /\ Len(up'[w]) = Len(up[w]) + Len(ps)
      /\ \A n \in 1 .. Len(up'[w]) :
           \/ n \in 1 .. Len(up[w]) /\ up'[w][n] = up[w][n]
           \/ n - Len(up[w]) \in 1 .. Len(ps) /\ up'[w][n] = ps[n - Len(up[w])]
      /\ \A n \in 1 .. Len(up[w]) : up'[w][n] = up[w][n]
  <2>1. up'[w] = up[w] \o ps
    BY <1>1 DEF IInv, Shapes
  <2>2. PICK u : u = up[w] \o ps
    OBVIOUS
  <2>3. /\ Len(up[w]) \in Nat /\ Len(ps) \in Nat
        /\ Len(u) = Len(up[w]) + Len(ps)
        /\ \A n \in 1 .. Len(u) :
             \/ n \in 1 .. Len(up[w]) /\ u[n] = up[w][n]
             \/ n - Len(up[w]) \in 1 .. Len(ps) /\ u[n] = ps[n - Len(up[w])]
    BY <1>3, <1>4, <2>2, ConcatElements
  <2>4. \A n \in 1 .. Len(up[w]) : u[n] = up[w][n]
    BY <1>3, <1>4, <2>2, ConcatElements
  <2> QED BY <2>1, <2>2, <2>3, <2>4, Zenon
<1>6. \A n \in 1 .. Len(up'[w]) :
        \/ n \in 1 .. Len(up[w]) /\ up'[w][n] = up[w][n]
        \/ /\ up'[w][n].set = poolBit[w]
           /\ \E i \in Parts : up'[w][n].part = i /\ up'[w][n].val = buf[w][i]
  <2> TAKE n \in 1 .. Len(up'[w])
  <2>1. CASE n - Len(up[w]) \in 1 .. Len(ps) /\ up'[w][n] = ps[n - Len(up[w])]
    BY <1>4, <2>1
  <2> QED BY <1>5, <2>1
<1>7. BufFollows(w)
  BY DEF ValuesInv, Values
<1>8. BufFollows(w)'
  <2>1. ASSUME NEW i \in Parts, ~Has(w, i), buf'[w][i] = Unit(w, Sent(w), i),
               NEW n \in 1 .. Len(up'[w]), up'[w][n].set = poolBit[w], up'[w][n].part = i
        PROVE  up'[w][n].val = Unit(w, Sent(w), i)
    <3>1. buf[w][i] = Unit(w, Sent(w), i)
      BY <1>1, <2>1
    <3>2. CASE n \in 1 .. Len(up[w]) /\ up'[w][n] = up[w][n]
      BY <1>1, <1>7, <2>1, <3>1, <3>2 DEF BufFollows, Clean
    <3>3. CASE \E k \in Parts : up'[w][n].part = k /\ up'[w][n].val = buf[w][k]
      BY <2>1, <3>1, <3>3
    <3> QED BY <1>6, <2>1, <3>2, <3>3
  <2>2. ASSUME NoDuplicates(w)
        PROVE  NoDuplicates(w)'
    <3>1. \A n \in DOMAIN up[w] : up[w][n].set = poolBit[w]
      BY <2>2 DEF NoDuplicates
    <3>2. DOMAIN up[w] = 1 .. Len(up[w]) /\ DOMAIN up'[w] = 1 .. Len(up'[w])
      BY <1>3, <1>4, <1>5, ConcatElements, LenProperties
    <3>3. \A n \in DOMAIN up'[w] : up'[w][n].set = poolBit[w]
      BY <1>6, <3>1, <3>2
    <3>4. poolBit'[w] = poolBit[w] /\ down'[w] = down[w] /\ buf'[w] = buf[w]
          /\ (Waiting(w)' <=> Waiting(w)) /\ job'[w] = job[w] /\ msg'[w] = msg[w]
      BY <1>1, <1>2 DEF StaysAt
    <3> QED BY <2>2, <3>3, <3>4 DEF NoDuplicates
  <2>3. ASSUME NEW n, NEW k, Pristine(w, n, k)
        PROVE  Pristine(w, n, k)'
    <3>1. Len(up'[w]) \in Nat /\ Len(up[w]) <= Len(up'[w])
      BY <1>5
    <3> QED BY <1>1, <1>2, <1>5, <2>3, <3>1, PristineLonger
  <2>4. NoDuplicates(w)' \/ \E n, k : Pristine(w, n, k)'
    BY <1>1, <1>7, <2>2, <2>3 DEF BufFollows
  <2>5. \A i \in Parts : ~Has(w, i) =>
          buf'[w][i] = Unit(w, Sent(w), i) \/ buf'[w][i][<<w, Sent(w), i>>] = 0
    BY <1>1, <1>7 DEF BufFollows, Clean
  <2> QED BY <1>1, <1>2, <2>1, <2>4, <2>5, BufFollowsNext
<1>9. Values(w)'
  <2>1. SlotValues(w)'
    BY <1>1, <1>2, SlotValuesStay DEF ValuesInv, Values
  <2>2. DownValues(w)'
    BY <1>1, <1>2, DownValuesNext DEF ValuesInv, Values, DownValues
  <2>3. CqValues(w)'
    <3>1. \A i \in Parts : i < PktsPerMsg
      BY RdmaAssumption DEF Parts
    <3> QED BY <1>1, <1>2, <3>1, CqValuesNext DEF ValuesInv, Values, CqValues, BufOk
  <2>4. NicFollows(w)'
    BY <1>1, <1>2, NicFollowsStays DEF ValuesInv, Values
  <2>5. OutExact(w)'
    BY <1>1, OutExactNext DEF ValuesInv, Values
  <2> QED BY <1>8, <2>1, <2>2, <2>3, <2>4, <2>5 DEF Values
<1>10. \A v \in Workers \ {w} : up'[v] = up[v]
  BY <1>1 DEF IInv, Shapes
<1> QED BY <1>1, <1>2, <1>9, <1>10, OneWorkersValues DEF ValuesInv

\* One of the packets before a message that is as it was posted has gone.
LEMMA PristineTail ==
  ASSUME NEW w \in Workers, StaysAt(w), up[w] \in Seq(Packet), up[w] # <<>>,
         up'[w] = Tail(up[w]), NEW n, NEW k, Pristine(w, n, k), n > 0
  PROVE  Pristine(w, n - 1, 0)'
<1>1. /\ n \in Nat \ {0} /\ k = 0 /\ PktsPerMsg \in Nat \ {0}
      /\ n + PktsPerMsg <= Len(up[w])
  BY RdmaAssumption DEF Pristine
<1>2. /\ Len(up[w]) \in Nat /\ Len(up'[w]) = Len(up[w]) - 1
      /\ \A m \in 1 .. Len(up'[w]) : up'[w][m] = up[w][m + 1]
  BY TailElements
<1>3. PICK len \in Nat : len = Len(up[w])
  BY <1>2
<1>4. \A x \in 1 .. n - 1 : up'[w][x].set = 1 - poolBit[w]
  <2> TAKE x \in 1 .. n - 1
  <2>1. x \in 1 .. len - 1 /\ x + 1 \in 1 .. n
    BY <1>1, <1>3
  <2> QED BY <1>2, <1>3, <2>1 DEF Pristine
<1>5. ASSUME NEW y \in Parts
      PROVE  \E q : /\ q = up'[w][(n - 1) + y - 0 + 1]
                    /\ q.part = y /\ q.set = poolBit[w] /\ ~q.gap /\ q.val = Unit(w, Sent(w), y)
  <2>1. /\ y \in Nat /\ y < PktsPerMsg
    BY <1>1 DEF Parts
  <2>2. /\ (n - 1) + y - 0 + 1 \in 1 .. len - 1
        /\ ((n - 1) + y - 0 + 1) + 1 = n + y - 0 + 1
    BY <1>1, <1>3, <2>1
  <2>3. up'[w][(n - 1) + y - 0 + 1] = up[w][n + y - 0 + 1]
    BY <1>2, <1>3, <2>2
  <2>4. y >= k
    BY <1>1, <2>1
  <2> QED BY <1>1, <2>3, <2>4 DEF Pristine
<1>6. \A x \in Parts : ~(x < 0)
  BY FirstParts
<1>7. /\ n - 1 \in Nat /\ 0 \in 0 .. PktsPerMsg /\ (n - 1) + PktsPerMsg - 0 <= Len(up'[w])
      /\ ~(0 < 0)
  BY <1>1, <1>2
<1> QED BY <1>4, <1>5, <1>6, <1>7 DEF Pristine, StaysAt

\* ... all of it is there.
LEMMA PristineDone ==
  ASSUME NEW w \in Workers, StaysAt(w), \A x \in Parts : Has(w, x)', Len(up'[w]) \in Nat
  PROVE  Pristine(w, 0, PktsPerMsg)'
<1>1. /\ PktsPerMsg \in Nat /\ PktsPerMsg \in 0 .. PktsPerMsg /\ ~(PktsPerMsg < PktsPerMsg)
      /\ \A y \in Parts : ~(y >= PktsPerMsg)
  BY RdmaAssumption DEF Parts
<1>2. 0 + PktsPerMsg - PktsPerMsg <= Len(up'[w]) /\ ~(0 > 0) /\ 0 \in Nat
      /\ \A x \in 1 .. 0 : FALSE
  BY <1>1
<1> QED BY <1>1, <1>2 DEF Pristine

\* The head of a message that is as it was posted is neither marked nor dropped.
LEMMA PristineHead ==
  ASSUME NEW w \in Workers, NEW k, Pristine(w, 0, k), k # PktsPerMsg
  PROVE  /\ k \in Parts /\ up[w][1].part = k /\ up[w][1].set = poolBit[w] /\ ~up[w][1].gap
         /\ up[w][1].val = Unit(w, Sent(w), k) /\ (k # 0 => ~rx[w].error)
<1>1. k \in Parts /\ k >= k /\ 0 + k - k + 1 = 1 /\ k \in Nat /\ k < PktsPerMsg
  BY RdmaAssumption DEF Pristine, Parts
<1>2. LET q == up[w][0 + k - k + 1]
      IN q.part = k /\ q.set = poolBit[w] /\ ~q.gap /\ q.val = Unit(w, Sent(w), k)
  BY <1>1 DEF Pristine
<1>3. k # 0 => ~rx[w].error
  BY <1>1 DEF Pristine
<1> QED BY <1>1, <1>2, <1>3

LEMMA SequenceViolationValues ==
  ASSUME IInv, ValuesInv, NEW w \in Workers, SequenceViolation(w)
  PROVE  ValuesInv'
<1>1. /\ up[w] # <<>> /\ up' = [up EXCEPT ![w] = Tail(up[w])]
      /\ rx' = [rx EXCEPT ![w] = ReceiveRoce(rx[w], Head(up[w]))]
      /\ ReceiveRoce(rx[w], Head(up[w])).error
      /\ UNCHANGED <<job, msg, poolBit, out, buf, recvs, cq, nic, down, downGap,
                     bitmap, count, value>>
  BY DEF SequenceViolation, workerVars, memoryVars, downVars, slotVars
<1>2. \A v \in Workers : StaysAt(v)
  BY <1>1, EverybodyStaysAt
<1>3. /\ up[w] \in Seq(Packet) /\ up'[w] = Tail(up[w])
      /\ \A v \in Workers \ {w} : up'[v] = up[v] /\ rx'[v] = rx[v]
  BY <1>1 DEF IInv, Shapes
<1>4. /\ Len(up[w]) \in Nat \ {0} /\ Head(up[w]) = up[w][1] /\ up'[w] \in Seq(Packet)
      /\ \A n \in 1 .. Len(up'[w]) : n + 1 \in 1 .. Len(up[w]) /\ up'[w][n] = up[w][n + 1]
  BY ZenonT(60), <1>1, <1>3, TailElements
<1>5. BufFollows(w)
  BY DEF ValuesInv, Values
<1>6. BufFollows(w)'
  <2>1. ASSUME NEW i \in Parts, ~Has(w, i), buf'[w][i] = Unit(w, Sent(w), i), Waiting(w),
               NEW n \in 1 .. Len(up'[w]), up'[w][n].set = poolBit[w], up'[w][n].part = i
        PROVE  up'[w][n].val = Unit(w, Sent(w), i)
    <3>1. n + 1 \in 1 .. Len(up[w]) /\ up'[w][n] = up[w][n + 1] /\ Clean(w, i)
      BY <1>1, <1>4, <2>1 DEF Clean
    <3> QED BY <1>5, <2>1, <3>1 DEF BufFollows
  <2>2. ASSUME NoDuplicates(w)
        PROVE  NoDuplicates(w)'
    <3>1. \A n \in DOMAIN up'[w] : \E m \in DOMAIN up[w] : up'[w][n].set = up[w][m].set
      <4> TAKE n \in DOMAIN up'[w]
      <4>1. n \in 1 .. Len(up'[w]) /\ DOMAIN up[w] = 1 .. Len(up[w])
        BY <1>3, <1>4, LenProperties
      <4> QED BY <1>4, <4>1
    <3> QED BY <1>1, <1>2, <2>2, <3>1, NoDuplicatesStays
  <2>3. ASSUME NEW n, NEW k, Pristine(w, n, k)
        PROVE  \E m, l : Pristine(w, m, l)'
    <3>1. CASE n > 0
      BY <1>1, <1>2, <1>3, <2>3, <3>1, PristineTail
    <3>2. CASE n = 0 /\ k = PktsPerMsg
      <4>1. \A x \in Parts : Has(w, x)
        BY <2>3, <3>2, RdmaAssumption DEF Pristine, Parts
      <4>2. \A x \in Parts : Has(w, x)'
        BY <1>1, <1>2, <4>1, BitsStay
      <4>3. Len(up'[w]) \in Nat
        BY <1>4, LenProperties
      <4> QED BY <1>2, <4>2, <4>3, PristineDone
    <3>3. CASE n = 0 /\ k # PktsPerMsg
      <4>1. /\ up[w][1].part = k /\ ~up[w][1].gap /\ (k # 0 => ~rx[w].error)
        BY <2>3, <3>3, PristineHead
      <4>2. CASE k = 0
        BY <1>1, <1>4, <4>1, <4>2 DEF ReceiveRoce
      <4>3. CASE k # 0
        <5>1. rx[w] \in Register
          BY DEF IInv, Shapes
        <5>2. ReceiveRoce(rx[w], Head(up[w])) = [rx[w] EXCEPT !.part = @ + 1]
          BY <1>4, <4>1, <4>3 DEF ReceiveRoce
        <5>3. ~ReceiveRoce(rx[w], Head(up[w])).error
          BY <4>1, <4>3, <5>1, <5>2 DEF Register
        <5> QED BY <1>1, <5>3
      <4> QED BY <4>2, <4>3
    <3> QED BY <2>3, <3>1, <3>2, <3>3 DEF Pristine
  <2>4. Waiting(w) => NoDuplicates(w)' \/ \E n, k : Pristine(w, n, k)'
    BY <1>5, <2>2, <2>3 DEF BufFollows
  <2>5. Waiting(w) => \A i \in Parts : ~Has(w, i) =>
          buf'[w][i] = Unit(w, Sent(w), i) \/ buf'[w][i][<<w, Sent(w), i>>] = 0
    BY <1>1, <1>5 DEF BufFollows, Clean
  <2> QED BY <1>1, <1>2, <2>1, <2>4, <2>5, BufFollowsNext
<1>7. Values(w)'
  <2>1. SlotValues(w)'
    BY <1>1, <1>2, SlotValuesStay DEF ValuesInv, Values
  <2>2. DownValues(w)'
    BY <1>1, <1>2, DownValuesNext DEF ValuesInv, Values, DownValues
  <2>3. CqValues(w)'
    <3>1. \A i \in Parts : i < PktsPerMsg
      BY RdmaAssumption DEF Parts
    <3> QED BY <1>1, <1>2, <3>1, CqValuesNext DEF ValuesInv, Values, CqValues, BufOk
  <2>4. NicFollows(w)'
    BY <1>1, <1>2, NicFollowsStays DEF ValuesInv, Values
  <2>5. OutExact(w)'
    BY <1>1, OutExactNext DEF ValuesInv, Values
  <2> QED BY <1>6, <2>1, <2>2, <2>3, <2>4, <2>5 DEF Values
<1> QED BY <1>1, <1>2, <1>3, <1>7, OneWorkersValues DEF ValuesInv

LEMMA LoseUplinkValues ==
  ASSUME ~exposed', IInv, ValuesInv, NEW w \in Workers, LoseUplink(w)
  PROVE  ValuesInv'
<1> DEFINE u == AfterLoss(up[w])
<1>1. /\ up[w] # <<>> /\ up' = [up EXCEPT ![w] = u] /\ NoDuplicates(w)
      /\ UNCHANGED <<job, msg, poolBit, out, buf, recvs, cq, nic, down, downGap, rx,
                     bitmap, count, value>>
  BY DEF LoseUplink, Exposes, workerVars, memoryVars, downVars, slotVars
<1>2. \A v \in Workers : StaysAt(v)
  BY <1>1, EverybodyStaysAt
<1>3. /\ up[w] \in Seq(Packet) /\ up'[w] = u
      /\ \A v \in Workers \ {w} : up'[v] = up[v]
  BY <1>1 DEF IInv, Shapes
<1>4. /\ u \in Seq(Packet)
      /\ \A n \in 1 .. Len(u) :
           /\ n + 1 \in 1 .. Len(up[w])
           /\ u[n].part = up[w][n + 1].part /\ u[n].set = up[w][n + 1].set
           /\ u[n].val = up[w][n + 1].val
  BY <1>1, <1>3, LossElements
<1> HIDE DEF u
<1>5. BufFollows(w)
  BY DEF ValuesInv, Values
<1>6. BufFollows(w)'
  <2>1. ASSUME NEW i \in Parts, ~Has(w, i), buf'[w][i] = Unit(w, Sent(w), i), Waiting(w),
               NEW n \in 1 .. Len(up'[w]), up'[w][n].set = poolBit[w], up'[w][n].part = i
        PROVE  up'[w][n].val = Unit(w, Sent(w), i)
    <3>1. /\ n + 1 \in 1 .. Len(up[w]) /\ Clean(w, i)
          /\ up[w][n + 1].set = poolBit[w] /\ up[w][n + 1].part = i
          /\ up'[w][n].val = up[w][n + 1].val
      BY <1>1, <1>3, <1>4, <2>1 DEF Clean
    <3> QED BY <1>5, <2>1, <3>1 DEF BufFollows
  <2>2. NoDuplicates(w)'
    <3>1. \A n \in DOMAIN up'[w] : \E m \in DOMAIN up[w] : up'[w][n].set = up[w][m].set
      <4> TAKE n \in DOMAIN up'[w]
      <4>1. n \in 1 .. Len(u) /\ DOMAIN up[w] = 1 .. Len(up[w])
        BY <1>3, <1>4, LenProperties
      <4> QED BY <1>3, <1>4, <4>1
    <3> QED BY <1>1, <1>2, <3>1, NoDuplicatesStays
  <2>3. Waiting(w) => \A i \in Parts : ~Has(w, i) =>
          buf'[w][i] = Unit(w, Sent(w), i) \/ buf'[w][i][<<w, Sent(w), i>>] = 0
    BY <1>1, <1>5 DEF BufFollows, Clean
  <2> QED BY <1>1, <1>2, <2>1, <2>2, <2>3, BufFollowsNext
<1>7. Values(w)'
  <2>1. SlotValues(w)'
    BY <1>1, <1>2, SlotValuesStay DEF ValuesInv, Values
  <2>2. DownValues(w)'
    BY <1>1, <1>2, DownValuesNext DEF ValuesInv, Values, DownValues
  <2>3. CqValues(w)'
    <3>1. \A i \in Parts : i < PktsPerMsg
      BY RdmaAssumption DEF Parts
    <3> QED BY <1>1, <1>2, <3>1, CqValuesNext DEF ValuesInv, Values, CqValues, BufOk
  <2>4. NicFollows(w)'
    BY <1>1, <1>2, NicFollowsStays DEF ValuesInv, Values
  <2>5. OutExact(w)'
    BY <1>1, OutExactNext DEF ValuesInv, Values
  <2> QED BY <1>6, <2>1, <2>2, <2>3, <2>4, <2>5 DEF Values
<1> QED BY <1>1, <1>2, <1>3, <1>7, OneWorkersValues DEF ValuesInv

LEMMA NicFollowsNext ==
  ASSUME NEW v \in Workers, StaysAt(v),
         Waiting(v) =>
           /\ \A n \in 1 .. Len(down'[v]) :
                (/\ down'[v][n].set = poolBit[v] /\ down'[v][n].part # 0 /\ ~down'[v][n].gap)
                => IF n = 1
                   THEN nic'[v] > 0 =>
                          \A i \in Parts : i < nic'[v] => buf'[v][i] = SumOf(Sent(v), i)
                   ELSE down'[v][n - 1].set = poolBit[v]
           /\ Summed(v, 0)' /\ down'[v] = <<>> /\ ~downGap'[v] /\ nic'[v] > 0 =>
                \A i \in Parts : i < nic'[v] => buf'[v][i] = SumOf(Sent(v), i)
           /\ Summed(v, 0)' /\ down'[v] # <<>> => down'[v][Len(down'[v])].set = poolBit[v]
  PROVE  NicFollows(v)'
<1>1. Sent(v)' = Sent(v) /\ (Waiting(v)' <=> Waiting(v)) /\ poolBit'[v] = poolBit[v]
  BY DEF StaysAt
<1> QED BY <1>1 DEF NicFollows, Continues, BufOk

LEMMA LoseDownlinkValues ==
  ASSUME IInv, ValuesInv, NEW w \in Workers, LoseDownlink(w)
  PROVE  ValuesInv'
<1> DEFINE d == AfterLoss(down[w])
<1>1. /\ down[w] # <<>> /\ down' = [down EXCEPT ![w] = d]
      /\ downGap' = [downGap EXCEPT ![w] = @ \/ Len(down[w]) = 1]
      /\ UNCHANGED <<job, msg, poolBit, out, buf, recvs, cq, nic, up, rx, bitmap, count, value>>
  BY DEF LoseDownlink, workerVars, memoryVars, slotVars
<1>2. \A v \in Workers : StaysAt(v)
  BY <1>1, EverybodyStaysAt
<1>3. /\ down[w] \in Seq(Packet) /\ down'[w] = d /\ (Len(down[w]) = 1 => downGap'[w])
      /\ \A v \in Workers \ {w} : down'[v] = down[v] /\ downGap'[v] = downGap[v]
  BY <1>1 DEF IInv, Shapes
<1>4. /\ d \in Seq(Packet) /\ Len(d) = Len(down[w]) - 1 /\ Len(down[w]) \in Nat \ {0}
      /\ \A n \in 1 .. Len(d) :
           /\ n + 1 \in 1 .. Len(down[w])
           /\ d[n].part = down[w][n + 1].part /\ d[n].set = down[w][n + 1].set
           /\ d[n].val = down[w][n + 1].val
           /\ n = 1 => d[n].part = 0 \/ d[n].gap
           /\ n # 1 => d[n] = down[w][n + 1]
  BY <1>1, <1>3, LossElements
<1> HIDE DEF d
<1>5. NicFollows(w) /\ DownValues(w) /\ BufFollows(w)
  BY DEF ValuesInv, Values
<1>6. DownValues(w)'
  <2>1. \A n \in 1 .. Len(d) : ResultValue(w, d[n])
    <3> TAKE n \in 1 .. Len(d)
    <3>1. /\ n + 1 \in 1 .. Len(down[w]) /\ d[n].part = down[w][n + 1].part
          /\ d[n].set = down[w][n + 1].set /\ d[n].val = down[w][n + 1].val
      BY <1>4
    <3>2. ResultValue(w, down[w][n + 1])
      BY <1>5, <3>1 DEF DownValues
    <3> QED BY <3>1, <3>2 DEF ResultValue
  <2> QED BY <1>2, <1>3, <2>1, DownValuesNext
<1>7. NicFollows(w)'
  <2>1. ASSUME Waiting(w), NEW n \in 1 .. Len(d), d[n].set = poolBit[w], d[n].part # 0, ~d[n].gap
        PROVE  n # 1 /\ d[n - 1].set = poolBit[w]
    <3>1. n # 1 /\ d[n] = down[w][n + 1] /\ n + 1 \in 1 .. Len(down[w]) /\ n \in Nat
      BY <1>4, <2>1
    <3>2. n + 1 # 1 /\ (n + 1) - 1 = n
      BY <3>1
    <3>3. Continues(w, n + 1)
      BY <1>5, <2>1, <3>1 DEF NicFollows
    <3>4. down[w][n].set = poolBit[w]
      BY <3>2, <3>3 DEF Continues
    <3>5. n - 1 \in 1 .. Len(d) /\ (n - 1) + 1 = n
      <4>1. \A a \in Nat : \A x \in 1 .. a : x # 1 => x - 1 \in 1 .. a /\ (x - 1) + 1 = x
        OBVIOUS
      <4>2. Len(d) \in Nat
        BY <1>4, LenProperties
      <4> QED BY <2>1, <3>1, <4>1, <4>2, Zenon
    <3> QED BY <1>4, <3>1, <3>4, <3>5
  <2>2. d = <<>> => downGap'[w]
    <3>1. d = <<>> => Len(down[w]) - 1 = 0
      BY <1>4, EmptySeq
    <3>2. ASSUME NEW a \in Nat \ {0}, a - 1 = 0
          PROVE  a = 1
      BY <3>2
    <3> QED BY <1>3, <1>4, <3>1, <3>2
  <2>3. ASSUME Waiting(w), Summed(w, 0)', d # <<>>
        PROVE  d[Len(d)].set = poolBit[w]
    <3>1. Len(d) \in 1 .. Len(d) /\ Len(d) + 1 = Len(down[w])
      <4>1. Len(d) \in Nat /\ Len(d) # 0
        BY <1>4, <2>3, EmptySeq, LenProperties
      <4>2. \A a \in Nat, c \in Nat : a # 0 /\ a = c - 1 => a \in 1 .. a /\ a + 1 = c
        OBVIOUS
      <4>3. Len(down[w]) \in Nat
        BY <1>4
      <4> QED BY <1>4, <4>1, <4>2, <4>3, Zenon
    <3>2. Summed(w, 0)
      BY <1>1, <1>2, <2>3, BitsStay
    <3>3. down[w][Len(down[w])].set = poolBit[w]
      BY <1>1, <1>5, <2>3, <3>2 DEF NicFollows
    <3> QED BY <1>4, <3>1, <3>3
  <2> QED BY <1>2, <1>3, <2>1, <2>2, <2>3, NicFollowsNext
<1>8. BufFollows(w)'
  <2>1. ASSUME NoDuplicates(w)
        PROVE  NoDuplicates(w)'
    <3>1. \A n \in DOMAIN down'[w] : \E m \in DOMAIN down[w] : down'[w][n].set = down[w][m].set
      <4> TAKE n \in DOMAIN down'[w]
      <4>1. n \in 1 .. Len(d) /\ DOMAIN down[w] = 1 .. Len(down[w])
        BY <1>3, <1>4, LenProperties
      <4> QED BY <1>3, <1>4, <4>1
    <3> QED BY <1>1, <1>2, <2>1, <3>1, NoDuplicatesStays
  <2>2. ASSUME NEW n, NEW k, Pristine(w, n, k)
        PROVE  Pristine(w, n, k)'
    BY <1>1, <1>2, <2>2, PristineStays
  <2>3. Waiting(w) => NoDuplicates(w)' \/ \E n, k : Pristine(w, n, k)'
    BY <1>5, <2>1, <2>2 DEF BufFollows
  <2> QED BY <1>1, <1>2, <1>5, <2>3, BufFollowsNext DEF BufFollows, Clean
<1>9. SlotValues(w)'
  BY <1>1, <1>2, SlotValuesStay DEF ValuesInv, Values
<1>10. CqValues(w)'
  <2>1. \A i \in Parts : i < PktsPerMsg
    BY RdmaAssumption DEF Parts
  <2> QED BY <1>1, <1>2, <2>1, CqValuesNext DEF ValuesInv, Values, CqValues, BufOk
<1>11. OutExact(w)'
  BY <1>1, OutExactNext DEF ValuesInv, Values
<1>12. Values(w)'
  BY <1>6, <1>7, <1>8, <1>9, <1>10, <1>11 DEF Values
<1> QED BY <1>1, <1>2, <1>3, <1>12, OneWorkersValues DEF ValuesInv

\* What the NIC does with packet p: it writes it to part i, unless it ignores it.
Writes(w, p, i) ==
  \/ p.part = 0 /\ i = 0
  \/ p.part # 0 /\ ~p.gap /\ i = nic[w] /\ i > 0 /\ (p.part = PktsPerMsg - 1 <=> i = PktsPerMsg - 1)

LEMMA NicEffect ==
  ASSUME ~misplaced', IInv, NEW w \in Workers, NicReceive(w)
  PROVE  \E p \in Packet, i \in Parts :
           /\ down[w] # <<>> /\ p = down[w][1] /\ down'[w] = Tail(down[w])
           /\ \A j \in Parts : buf'[w][j] = IF Writes(w, p, i) /\ j = i THEN p.val ELSE buf[w][j]
           /\ Writes(w, p, i) => i = p.part
           /\ nic'[w] = IF Writes(w, p, i) /\ p.part # PktsPerMsg - 1 THEN i + 1 ELSE 0
           /\ \/ cq'[w] = cq[w]
              \/ /\ Writes(w, p, i) /\ p.part = PktsPerMsg - 1
                 /\ cq'[w] = Append(cq[w], p.msg)
           /\ \A v \in Workers \ {w} : /\ down'[v] = down[v] /\ buf'[v] = buf[v]
                                       /\ nic'[v] = nic[v] /\ cq'[v] = cq[v]
           /\ UNCHANGED <<job, msg, poolBit, out, up, downGap, rx, bitmap, count, value>>
<1>1. PICK p : p = Head(down[w])
  OBVIOUS
<1>2. PICK i : i = IF p.part = 0 THEN 0 ELSE nic[w]
  OBVIOUS
<1>3. PICK good : good = (p.part = 0 \/ (~p.gap /\ i > 0
                            /\ (p.part = PktsPerMsg - 1 <=> i = PktsPerMsg - 1)))
  OBVIOUS
<1>4. /\ down[w] # <<>> /\ down' = [down EXCEPT ![w] = Tail(down[w])]
      /\ IF good THEN buf' = [buf EXCEPT ![w][i] = p.val] ELSE UNCHANGED buf
      /\ nic' = [nic EXCEPT ![w] = IF good /\ p.part # PktsPerMsg - 1 THEN i + 1 ELSE 0]
      /\ \/ cq' = cq
         \/ good /\ p.part = PktsPerMsg - 1 /\ cq' = [cq EXCEPT ![w] = Append(cq[w], p.msg)]
      /\ misplaced' = (misplaced \/ (good /\ i # p.part))
      /\ UNCHANGED <<job, msg, poolBit, out, up, downGap, rx, bitmap, count, value>>
  BY <1>1, <1>2, <1>3 DEF NicReceive, workerVars, slotVars
<1>5. down[w] \in Seq(Packet) /\ nic[w] \in Parts /\ buf \in [Workers -> [Parts -> Data]]
  BY DEF IInv, Shapes
<1>6. p = down[w][1] /\ p \in Packet
  BY <1>1, <1>4, <1>5, TailElements
<1>7. i \in Parts
  BY <1>2, <1>5, FirstParts
<1>8. good <=> Writes(w, p, i)
  BY <1>2, <1>3 DEF Writes
<1>9. \A j \in Parts : buf'[w][j] = IF good /\ j = i THEN p.val ELSE buf[w][j]
  BY <1>4, <1>5, <1>7
<1>10. \A v \in Workers \ {w} : buf'[v] = buf[v]
  <2>1. CASE good
    <3>1. buf' = [buf EXCEPT ![w] = [buf[w] EXCEPT ![i] = p.val]]
      BY <1>4, <2>1
    <3> QED BY <1>5, <3>1
  <2> QED BY <1>4, <2>1
<1>11. /\ down'[w] = Tail(down[w])
       /\ nic'[w] = IF good /\ p.part # PktsPerMsg - 1 THEN i + 1 ELSE 0
       /\ \/ cq'[w] = cq[w]
          \/ good /\ p.part = PktsPerMsg - 1 /\ cq'[w] = Append(cq[w], p.msg)
       /\ \A v \in Workers \ {w} : down'[v] = down[v] /\ nic'[v] = nic[v] /\ cq'[v] = cq[v]
  BY <1>4 DEF IInv, Shapes
<1>12. Writes(w, p, i) => i = p.part
  <2>1. ~(good /\ i # p.part)
    BY <1>4, Zenon
  <2> QED BY <1>8, <2>1, Zenon
<1>13. UNCHANGED <<job, msg, poolBit, out, up, downGap, rx, bitmap, count, value>>
  BY <1>4
<1> HIDE DEF Writes
<1>14. \/ cq'[w] = cq[w]
       \/ /\ Writes(w, p, i) /\ p.part = PktsPerMsg - 1
          /\ cq'[w] = Append(cq[w], p.msg)
  BY <1>8, <1>11, Zenon
<1>15. nic'[w] = IF Writes(w, p, i) /\ p.part # PktsPerMsg - 1 THEN i + 1 ELSE 0
  BY <1>8, <1>11
<1>16. \A j \in Parts : buf'[w][j] = IF Writes(w, p, i) /\ j = i THEN p.val ELSE buf[w][j]
  BY <1>8, <1>9
<1>17. down[w] # <<>> /\ down'[w] = Tail(down[w])
  BY <1>4, <1>11
<1> QED BY <1>6, <1>7, <1>10, <1>11, <1>12, <1>13, <1>14, <1>15, <1>16, <1>17, Zenon

\* A packet of the current result that is written has all parts before it in the buffer.
LEMMA WrittenPrefix ==
  ASSUME IInv, NEW w \in Workers, NicFollows(w), DownValues(w), Waiting(w),
         NEW p \in Packet, NEW i \in Parts, down[w] # <<>>, p = down[w][1],
         p.set = poolBit[w], Writes(w, p, i), i = p.part,
         \A j \in Parts : buf'[w][j] = IF j = i THEN p.val ELSE buf[w][j]
  PROVE  /\ p.val = SumOf(Sent(w), i)
         /\ \A j \in Parts : j <= i => buf'[w][j] = SumOf(Sent(w), j)
<1>1. down[w] \in Seq(Packet)
  BY DEF IInv, Shapes
<1>2. 1 \in 1 .. Len(down[w])
  BY <1>1, TailElements
<1>3. i = p.part
  OBVIOUS
<1>4. p.val = SumOf(Sent(w), i)
  BY <1>2, <1>3 DEF DownValues, ResultValue
<1>5. ASSUME NEW j \in Parts, j < i
      PROVE  buf[w][j] = SumOf(Sent(w), j)
  <2>1. j \in Nat /\ i \in Nat /\ i # 0
    BY <1>5, FirstParts
  <2>2. p.part # 0 /\ ~p.gap /\ i = nic[w] /\ i > 0
    BY <2>1 DEF Writes
  <2>3. Continues(w, 1)
    BY <1>2, <2>2 DEF NicFollows
  <2>4. BufOk(w, i)
    BY <2>2, <2>3 DEF Continues
  <2> QED BY <1>5, <2>4 DEF BufOk
<1>6. ASSUME NEW j \in Parts, j <= i
      PROVE  buf'[w][j] = SumOf(Sent(w), j)
  <2>1. j = i \/ j < i
    BY <1>6, FirstParts
  <2>2. j < i => j # i
    BY FirstParts
  <2> QED BY <1>4, <1>5, <2>1, <2>2
<1> QED BY <1>4, <1>6

LEMMA NicReceiveValues ==
  ASSUME ~misplaced', IInv, TurnsInv, ValuesInv, NEW w \in Workers, NicReceive(w)
  PROVE  ValuesInv'
<1>1. PICK p \in Packet, i \in Parts :
           /\ down[w] # <<>> /\ p = down[w][1] /\ down'[w] = Tail(down[w])
           /\ \A j \in Parts : buf'[w][j] = IF Writes(w, p, i) /\ j = i THEN p.val ELSE buf[w][j]
           /\ Writes(w, p, i) => i = p.part
           /\ nic'[w] = IF Writes(w, p, i) /\ p.part # PktsPerMsg - 1 THEN i + 1 ELSE 0
           /\ \/ cq'[w] = cq[w]
              \/ /\ Writes(w, p, i) /\ p.part = PktsPerMsg - 1
                 /\ cq'[w] = Append(cq[w], p.msg)
           /\ \A v \in Workers \ {w} : /\ down'[v] = down[v] /\ buf'[v] = buf[v]
                                       /\ nic'[v] = nic[v] /\ cq'[v] = cq[v]
           /\ UNCHANGED <<job, msg, poolBit, out, up, downGap, rx, bitmap, count, value>>
  BY NicEffect
<1>2. \A v \in Workers : StaysAt(v)
  BY <1>1, EverybodyStaysAt
<1> DEFINE t == Tail(down[w])
<1>3. /\ down[w] \in Seq(Packet) /\ Len(down[w]) \in Nat \ {0} /\ t \in Seq(Packet)
      /\ Len(t) = Len(down[w]) - 1 /\ 1 \in 1 .. Len(down[w])
      /\ \A n \in 1 .. Len(t) : n + 1 \in 1 .. Len(down[w]) /\ t[n] = down[w][n + 1]
  <2>1. down[w] \in Seq(Packet)
    BY DEF IInv, Shapes
  <2> QED BY <1>1, <2>1, TailElements
<1>4. down'[w] = t
  BY <1>1
<1> HIDE DEF t
<1>5. /\ DownFollows(w) /\ CqFollows(w) /\ SlotValues(w) /\ DownValues(w) /\ CqValues(w)
      /\ NicFollows(w) /\ BufFollows(w) /\ OutExact(w)
  BY DEF TurnsInv, ValuesInv, Values
\* What is written of the current result is right, up to where it is written.
<1>6. ASSUME Waiting(w), p.set = poolBit[w], Writes(w, p, i)
      PROVE  /\ p.val = SumOf(Sent(w), i)
             /\ \A j \in Parts : j <= i => buf'[w][j] = SumOf(Sent(w), j)
  BY <1>1, <1>5, <1>6, WrittenPrefix
<1>7. p.set = poolBit[w] => Summed(w, p.part)
  <2>1. (Current(w, p) /\ Summed(w, p.part)) \/ Old(w, p)
    BY <1>1, <1>3, <1>5 DEF DownFollows
  <2>2. Old(w, p) => p.set # poolBit[w]
    BY BitsType DEF Old, IInv, Shapes
  <2> QED BY <2>1, <2>2
<1>8. DownValues(w)'
  <2>1. \A n \in 1 .. Len(t) : ResultValue(w, t[n])
    BY <1>3, <1>5 DEF DownValues
  <2> QED BY <1>2, <1>4, <2>1, DownValuesNext
<1>9. SlotValues(w)'
  BY <1>1, <1>2, <1>5, SlotValuesStay
<1>10. CqValues(w)'
  <2>1. SUFFICES ASSUME Waiting(w), NEW n \in 1 .. Len(cq'[w]), cq'[w][n] = msg[w],
                        NEW j \in Parts
                 PROVE  buf'[w][j] = SumOf(Sent(w), j)
    BY <1>2, CqValuesNext
  <2>2. CASE n \in 1 .. Len(cq[w]) /\ cq[w][n] = msg[w]
    <3>1. p.set = poolBit[w]
      BY <1>1, <1>3, <1>5, <2>1, <2>2 DEF CqFollows
    <3>2. buf[w][j] = SumOf(Sent(w), j)
      <4>1. j < PktsPerMsg
        BY RdmaAssumption DEF Parts
      <4> QED BY <1>5, <2>1, <2>2, <4>1 DEF CqValues, BufOk
    <3> QED BY <1>1, <1>6, <2>1, <3>1, <3>2
  <2>3. CASE p.msg = msg[w] /\ p.part = PktsPerMsg - 1 /\ Writes(w, p, i)
    <3>2. p.set = poolBit[w]
      BY <1>1, <1>3, <1>5, <2>3 DEF DownFollows, Old, Current
    <3>3. j <= i
      <4>1. i = PktsPerMsg - 1
        BY <1>1, <2>3
      <4> QED BY <4>1, RdmaAssumption DEF Parts
    <3> QED BY <1>6, <2>1, <2>3, <3>2, <3>3
  <2>4. \/ n \in 1 .. Len(cq[w]) /\ cq[w][n] = msg[w]
        \/ p.msg = msg[w] /\ p.part = PktsPerMsg - 1 /\ Writes(w, p, i)
    <3>1. CASE cq'[w] = cq[w]
      BY <2>1, <3>1
    <3>2. CASE Writes(w, p, i) /\ p.part = PktsPerMsg - 1 /\ cq'[w] = Append(cq[w], p.msg)
      <4>1. p.msg \in MsgIds /\ cq[w] \in Seq(MsgIds)
        BY DEF Packet, IInv, Shapes
      <4>2. /\ Len(cq[w]) \in Nat /\ Len(cq'[w]) = Len(cq[w]) + 1
            /\ \A k \in 1 .. Len(cq[w]) : cq'[w][k] = cq[w][k]
            /\ cq'[w][Len(cq[w]) + 1] = p.msg
        BY <3>2, <4>1, AppendProperties, LenProperties
      <4> QED BY <2>1, <3>2, <4>2
    <3> QED BY <1>1, <3>1, <3>2
  <2> QED BY <2>2, <2>3, <2>4
<1>11. ASSUME Waiting(w), p.set = poolBit[w], nic'[w] > 0, NEW j \in Parts, j < nic'[w]
       PROVE  buf'[w][j] = SumOf(Sent(w), j)
  <2>1. Writes(w, p, i) /\ nic'[w] = i + 1
    <3>1. ~(0 > 0)
      OBVIOUS
    <3> QED BY <1>1, <1>11, <3>1
  <2>2. j <= i
    BY <1>11, <2>1, FirstParts
  <2> QED BY <1>6, <1>11, <2>1, <2>2
<1>12. NicFollows(w)'
  <2>1. ASSUME Waiting(w), NEW n \in 1 .. Len(t), t[n].set = poolBit[w], t[n].part # 0, ~t[n].gap
        PROVE  IF n = 1
               THEN nic'[w] > 0 => \A j \in Parts : j < nic'[w] => buf'[w][j] = SumOf(Sent(w), j)
               ELSE t[n - 1].set = poolBit[w]
    <3>1. n + 1 \in 1 .. Len(down[w]) /\ t[n] = down[w][n + 1] /\ n + 1 # 1 /\ (n + 1) - 1 = n
      BY <1>3, <2>1
    <3>2. Continues(w, n + 1)
      BY <1>5, <2>1, <3>1 DEF NicFollows
    <3>3. down[w][n].set = poolBit[w]
      BY <3>1, <3>2 DEF Continues
    <3>4. CASE n = 1
      BY <1>1, <1>11, <2>1, <3>3, <3>4
    <3>5. CASE n # 1
      <4>1. \A a \in Nat : \A x \in 1 .. a : x # 1 => x - 1 \in 1 .. a /\ (x - 1) + 1 = x
        OBVIOUS
      <4>2. Len(t) \in Nat
        BY <1>3, LenProperties
      <4>3. n - 1 \in 1 .. Len(t) /\ (n - 1) + 1 = n
        BY <2>1, <3>5, <4>1, <4>2, Zenon
      <4> QED BY <1>3, <3>3, <3>5, <4>3
    <3> QED BY <3>4, <3>5
  <2>2. Summed(w, 0)' => Summed(w, 0)
    BY <1>1, <1>2, BitsStay
  <2>3. ASSUME Waiting(w), Summed(w, 0)', t = <<>>, nic'[w] > 0, NEW j \in Parts, j < nic'[w]
        PROVE  buf'[w][j] = SumOf(Sent(w), j)
    <3>1. Len(down[w]) = 1
      <4>1. Len(t) = 0
        BY <2>3, EmptySeq
      <4>2. \A a \in Nat \ {0} : a - 1 = 0 => a = 1
        OBVIOUS
      <4> QED BY <1>3, <4>1, <4>2, Zenon
    <3>2. p.set = poolBit[w]
      BY <1>1, <1>5, <2>2, <2>3, <3>1 DEF NicFollows
    <3> QED BY <1>11, <2>3, <3>2
  <2>4. ASSUME Waiting(w), Summed(w, 0)', t # <<>>
        PROVE  t[Len(t)].set = poolBit[w]
    <3>1. Len(t) \in 1 .. Len(t) /\ Len(t) + 1 = Len(down[w])
      <4>1. Len(t) \in Nat /\ Len(t) # 0
        BY <1>3, <2>4, EmptySeq, LenProperties
      <4>2. \A a \in Nat, c \in Nat : a # 0 /\ a = c - 1 => a \in 1 .. a /\ a + 1 = c
        OBVIOUS
      <4>3. Len(down[w]) \in Nat
        BY <1>3
      <4> QED BY <1>3, <4>1, <4>2, <4>3, Zenon
    <3>2. down[w][Len(down[w])].set = poolBit[w]
      BY <1>1, <1>5, <2>2, <2>4 DEF NicFollows
    <3> QED BY <1>3, <3>1, <3>2
  <2> QED BY <1>2, <1>4, <2>1, <2>3, <2>4, NicFollowsNext
<1>13. BufFollows(w)'
  <2>1. Waiting(w) => Sent(w) \in Messages
    <3>1. Waiting(w) => job[w] # 0 /\ job[w] \in Nat
      BY SentType DEF IInv
    <3> QED BY <3>1, SentType DEF IInv
  <2>2. ASSUME Waiting(w), ~Has(w, i), Writes(w, p, i)
        PROVE  buf'[w][i][<<w, Sent(w), i>>] = 0
    <3>1. p.set # poolBit[w]
      BY <1>1, <1>7, <2>2 DEF Summed
    <3>2. p.val[<<w, Sent(w), i>>] = 0
      BY <1>1, <1>3, <1>5, <3>1 DEF DownValues, ResultValue
    <3> QED BY <1>1, <2>2, <3>2
  <2>3. ASSUME NEW j \in Parts, ~Has(w, j), Waiting(w)
        PROVE  \/ buf'[w][j] = buf[w][j]
               \/ buf'[w][j][<<w, Sent(w), j>>] = 0 /\ buf'[w][j] # Unit(w, Sent(w), j)
    <3>1. CASE Writes(w, p, i) /\ j = i
      <4>1. buf'[w][j][<<w, Sent(w), j>>] = 0
        BY <2>2, <2>3, <3>1
      <4>2. Unit(w, Sent(w), j)[<<w, Sent(w), j>>] = 1
        BY <2>1, <2>3, UnitSums
      <4> QED BY <4>1, <4>2
    <3> QED BY <1>1, <3>1
  <2>4. Waiting(w) => \A j \in Parts : ~Has(w, j) =>
          buf'[w][j] = Unit(w, Sent(w), j) \/ buf'[w][j][<<w, Sent(w), j>>] = 0
    BY <1>5, <2>3 DEF BufFollows, Clean
  <2>5. Waiting(w) => \A j \in Parts : ~Has(w, j) /\ buf'[w][j] = Unit(w, Sent(w), j) =>
          \A n \in 1 .. Len(up'[w]) :
            up'[w][n].set = poolBit[w] /\ up'[w][n].part = j
            => up'[w][n].val = Unit(w, Sent(w), j)
    BY <1>1, <1>5, <2>3 DEF BufFollows, Clean
  <2>6. ASSUME Waiting(w), NoDuplicates(w)
        PROVE  NoDuplicates(w)'
    <3>1. Sent(w) = <<job[w], msg[w]>>
      BY <2>6 DEF Sent
    <3>2. DOMAIN down[w] = 1 .. Len(down[w]) /\ DOMAIN down'[w] = 1 .. Len(t)
      BY <1>3, <1>4, LenProperties
    <3>3. p.set = poolBit[w]
      BY <1>1, <1>3, <2>6, <3>2 DEF NoDuplicates
    <3>4. \A n \in DOMAIN down'[w] : down'[w][n].set = poolBit[w]
      <4> TAKE n \in DOMAIN down'[w]
      <4>1. n + 1 \in DOMAIN down[w] /\ down'[w][n] = down[w][n + 1]
        BY <1>3, <1>4, <3>2
      <4> QED BY <2>6, <4>1 DEF NoDuplicates
    <3>5. \A j \in Parts : buf'[w][j] = buf[w][j] \/ (j = i /\ buf'[w][j] = SumOf(Sent(w), j))
      BY <1>1, <1>6, <2>6, <3>3
    <3>6. \A j \in Parts :
            buf'[w][j] \in {Unit(w, <<job[w], msg[w]>>, j), SumOf(<<job[w], msg[w]>>, j)}
      BY <2>6, <3>1, <3>5 DEF NoDuplicates
    <3>7. \A n \in DOMAIN up[w] : up[w][n].set = poolBit[w]
      BY <2>6 DEF NoDuplicates
    <3>8. /\ poolBit'[w] = poolBit[w] /\ up'[w] = up[w] /\ job'[w] = job[w] /\ msg'[w] = msg[w]
      BY <1>1
    <3> QED BY <3>4, <3>6, <3>7, <3>8 DEF NoDuplicates
  <2>7. ASSUME NEW n, NEW k, Pristine(w, n, k)
        PROVE  Pristine(w, n, k)'
    BY <1>1, <1>2, <2>7, PristineStays
  <2>8. Waiting(w) => NoDuplicates(w)' \/ \E n, k : Pristine(w, n, k)'
    BY <1>5, <2>6, <2>7 DEF BufFollows
  <2> QED BY <1>1, <1>2, <2>4, <2>5, <2>8, BufFollowsNext
<1>14. OutExact(w)'
  BY <1>1, <1>5, OutExactNext
<1>15. Values(w)'
  BY <1>8, <1>9, <1>10, <1>12, <1>13, <1>14 DEF Values
<1> QED BY <1>1, <1>2, <1>15, OneWorkersValues DEF ValuesInv

-----------------------------------------------------------------------------
(* Values: the steps of the worker thread *)

\* The message as it has just been posted, behind what was on the uplink.
LEMMA PostedPristine ==
  ASSUME NEW w \in Workers, NEW s \in Seq(Packet), NEW ps \in Seq(Packet), up'[w] = s \o ps,
         poolBit[w] \in Sets, poolBit'[w] = 1 - poolBit[w], Len(ps) = PktsPerMsg,
         \A n \in 1 .. Len(s) : s[n].set = poolBit[w],
         \A n \in 1 .. Len(ps) : /\ ps[n].part = n - 1 /\ ps[n].set = poolBit'[w] /\ ~ps[n].gap
                                 /\ ps[n].val = Unit(w, Sent(w)', n - 1)
  PROVE  Pristine(w, Len(s), 0)'
<1>1. /\ Len(s) \in Nat /\ Len(ps) = PktsPerMsg /\ Len(up'[w]) = Len(s) + Len(ps)
      /\ PktsPerMsg \in Nat \ {0}
      /\ \A n \in 1 .. Len(s) : up'[w][n] = s[n]
      /\ \A n \in 1 .. Len(ps) : up'[w][Len(s) + n] = ps[n]
  <2>1. PICK u : u = s \o ps
    OBVIOUS
  <2>2. Len(s) \in Nat /\ Len(u) = Len(s) + Len(ps)
    BY <2>1, ConcatElements
  <2>3. \A n \in 1 .. Len(s) : u[n] = s[n]
    BY <2>1, ConcatElements
  <2>4. \A n \in 1 .. Len(ps) : u[Len(s) + n] = ps[n]
    BY <2>1, ConcatElements
  <2> QED BY <2>1, <2>2, <2>3, <2>4, RdmaAssumption, Zenon
<1>2. PICK n \in Nat : n = Len(s)
  BY <1>1
<1>3. 1 - (1 - poolBit[w]) = poolBit[w]
  BY BitsType
<1>4. \A x \in 1 .. n : up'[w][x].set = 1 - poolBit'[w]
  BY <1>1, <1>2, <1>3
<1>5. ASSUME NEW y \in Parts
      PROVE  \E q : /\ q = up'[w][n + y - 0 + 1]
                    /\ q.part = y /\ q.set = poolBit'[w] /\ ~q.gap /\ q.val = Unit(w, Sent(w)', y)
  <2>1. y + 1 \in 1 .. PktsPerMsg /\ (y + 1) - 1 = y /\ n + (y + 1) = n + y - 0 + 1
    BY <1>1, <1>2 DEF Parts
  <2>2. up'[w][n + y - 0 + 1] = ps[y + 1]
    BY <1>1, <1>2, <2>1
  <2>3. /\ ps[y + 1].part = y /\ ps[y + 1].set = poolBit'[w] /\ ~ps[y + 1].gap
        /\ ps[y + 1].val = Unit(w, Sent(w)', y)
    BY <1>1, <2>1
  <2> QED BY <2>2, <2>3
<1>6. \A x \in Parts : ~(x < 0)
  BY FirstParts
<1>7. /\ 0 \in 0 .. PktsPerMsg /\ n + PktsPerMsg - 0 <= Len(up'[w]) /\ ~(0 < 0)
  BY <1>1, <1>2
<1>8. Pristine(w, n, 0)'
  BY <1>4, <1>5, <1>6, <1>7 DEF Pristine
<1> QED BY <1>2, <1>8

LEMMA GoesOnValues ==
  ASSUME IInv, TurnsInv, ValuesInv, NEW w \in Workers, GoesOn(w), MayGoOn(w),
         NEW m \in Messages, Sent(w)' = m, m = <<job'[w], msg'[w]>>, msg'[w] \in MsgIds,
         buf'[w] = [i \in Parts |-> Unit(w, m, i)],
         up'[w] = up[w] \o Packets(msg'[w], 1 - poolBit[w], buf'[w]),
         cq'[w] = <<>>, down'[w] = down[w], value' = value,
         \A n \in 1 .. Len(up[w]) : Current(w, up[w][n]),
         \A n \in 1 .. Len(down[w]) : Current(w, down[w][n]),
         OutExact(w)'
  PROVE  Values(w)'
<1> DEFINE ps == Packets(msg'[w], 1 - poolBit[w], buf'[w])
<1>1. /\ poolBit[w] \in Sets /\ poolBit'[w] = 1 - poolBit[w] /\ 1 - poolBit[w] \in Sets
      /\ 1 - poolBit[w] # poolBit[w] /\ 1 - poolBit'[w] = poolBit[w]
      /\ Waiting(w)' /\ UNCHANGED <<bitmap, count>>
  BY BitsType DEF GoesOn, IInv, Shapes
<1>2. /\ up[w] \in Seq(Packet) /\ down[w] \in Seq(Packet)
      /\ \A n \in 1 .. Len(down[w]) : down[w][n].part \in Parts
  <2>1. up[w] \in Seq(Packet) /\ down[w] \in Seq(Packet)
    BY DEF IInv, Shapes
  <2>2. \A n \in 1 .. Len(down[w]) : down[w][n] \in Packet
    BY <2>1, ElementOfSeq
  <2> QED BY <2>1, <2>2 DEF Packet
<1>3. buf'[w] \in [Parts -> Data] /\ \A i \in Parts : buf'[w][i] = Unit(w, m, i)
  <2>1. buf'[w] \in [Parts -> Data]
    <3>1. [i \in Parts |-> Unit(w, <<job'[w], msg'[w]>>, i)] \in [Parts -> Data]
      BY UnitType
    <3> QED BY <3>1
  <2> QED BY <2>1
<1>4. /\ ps \in Seq(Packet) /\ Len(ps) = PktsPerMsg
      /\ \A n \in 1 .. Len(ps) : /\ n - 1 \in Parts /\ ps[n].part = n - 1
                                 /\ ps[n].set = 1 - poolBit[w] /\ ~ps[n].gap
                                 /\ ps[n].val = Unit(w, m, n - 1)
  <2>1. PICK k \in MsgIds : k = msg'[w]
    OBVIOUS
  <2>2. PICK bit \in Sets : bit = 1 - poolBit[w]
    BY <1>1
  <2>3. PICK data \in [Parts -> Data] : data = buf'[w]
    BY <1>3
  <2>4. ps = Packets(k, bit, data)
    BY <2>1, <2>2, <2>3
  <2> HIDE DEF ps
  <2>5. /\ ps \in Seq(Packet) /\ Len(ps) = PktsPerMsg
        /\ \A n \in 1 .. PktsPerMsg :
             /\ n - 1 \in Parts /\ ps[n].part = n - 1 /\ ps[n].set = bit
             /\ ps[n].val = data[n - 1] /\ ~ps[n].gap
    BY <2>4, PacketsElements
  <2> QED BY <1>3, <2>2, <2>3, <2>5
<1>5. up'[w] = up[w] \o ps
  OBVIOUS
<1> HIDE DEF ps
<1>6. Sent(w) # m
  BY SentType, NextOrder DEF GoesOn, IInv
<1>7. \A i \in Parts : Has(w, i) => Summed(w, i) /\ Sent(w) \in Messages
  <2> SUFFICES ASSUME NEW i \in Parts, Has(w, i) PROVE Summed(w, i) /\ Sent(w) \in Messages
    OBVIOUS
  <2>1. job[w] # 0
    BY <1>1, NoBitsYet DEF Has, IInv, TurnsInv, SwitchInv
  <2>2. Summed(w, i)
    BY <2>1 DEF MayGoOn, AllSummed
  <2> QED BY <2>2, SummedSlot DEF IInv, TurnsInv, SwitchInv
<1>8. \A i \in Parts : ~Has(w, i)'
  <2> SUFFICES ASSUME NEW i \in Parts PROVE w \notin bitmap[i][1 - poolBit[w]]
    BY <1>1 DEF Has
  <2>1. CASE job[w] = 0
    BY <1>1, <2>1, NoBitsYet DEF IInv, TurnsInv, SwitchInv
  <2>2. CASE AllSummed(w)
    <3>1. w \in bitmap[i][poolBit[w]]
      BY <2>2 DEF AllSummed, Summed, Has
    <3> QED BY <1>1, <3>1, OtherBitClear DEF IInv, TurnsInv, SwitchInv
  <2> QED BY <2>1, <2>2 DEF MayGoOn
<1>9. SlotValues(w)'
  <2>1. ASSUME NEW i \in Parts, w \in bitmap[i][poolBit[w]], NEW x \in Parts
        PROVE  value[i][poolBit[w]][<<w, m, x>>] = 0
    <3>1. Summed(w, i) /\ Sent(w) \in Messages
      BY <1>7, <2>1 DEF Has
    <3>2. value[i][poolBit[w]] = SumOf(Sent(w), i)
      BY <3>1 DEF ValuesInv, Values, SlotValues
    <3> QED BY <1>6, <2>1, <3>1, <3>2, OtherSums
  <2>2. \A i \in Parts : w \in bitmap'[i][1 - poolBit'[w]] =>
          \A x \in Parts : value'[i][1 - poolBit'[w]][<<w, Sent(w)', x>>] = 0
    BY <1>1, <2>1
  <2>3. \A i \in Parts : ~Summed(w, i)'
    BY <1>8 DEF Summed
  <2> QED BY <1>8, <2>2, <2>3 DEF SlotValues
<1>10. DownValues(w)'
  <2>1. ASSUME NEW n \in 1 .. Len(down[w]), NEW x \in Parts
        PROVE  down[w][n].set = poolBit[w] /\ down[w][n].val[<<w, m, x>>] = 0
    <3>1. down[w][n].set = poolBit[w]
      BY DEF Current
    <3>2. down[w][n].val = SumOf(Sent(w), down[w][n].part)
      BY <3>1 DEF ValuesInv, Values, DownValues, ResultValue
    <3>3. Summed(w, down[w][n].part)
      BY <1>1, <3>1 DEF TurnsInv, DownFollows, Old
    <3>4. Sent(w) \in Messages
      BY <1>2, <1>7, <3>3 DEF Summed
    <3>5. PICK k \in Parts : k = down[w][n].part
      BY <1>2
    <3>6. SumOf(Sent(w), k)[<<w, m, x>>] = 0
      BY <1>6, <3>4, OtherSums
    <3> QED BY <3>1, <3>2, <3>5, <3>6
  <2>2. \A n \in 1 .. Len(down'[w]) :
          /\ down'[w][n].set # poolBit'[w]
          /\ \A x \in Parts : down'[w][n].val[<<w, Sent(w)', x>>] = 0
    BY <1>1, <2>1, FirstParts
  <2> QED BY <2>2 DEF DownValues, ResultValue
<1>11. CqValues(w)'
  BY EmptySeq DEF CqValues
<1>12. NicFollows(w)'
  <2>1. \A n \in 1 .. Len(down'[w]) : down'[w][n].set # poolBit'[w]
    BY <1>1 DEF Current
  <2>2. ~Summed(w, 0)'
    BY <1>8, FirstParts DEF Summed
  <2> QED BY <2>1, <2>2 DEF NicFollows
<1>13. BufFollows(w)'
  <2>1. \E n : Pristine(w, n, 0)'
    <3>1. \A n \in 1 .. Len(up[w]) : up[w][n].set = poolBit[w]
      BY DEF Current
    <3>2. \A n \in 1 .. Len(ps) :
            /\ ps[n].part = n - 1 /\ ps[n].set = poolBit'[w] /\ ~ps[n].gap
            /\ ps[n].val = Unit(w, Sent(w)', n - 1)
      BY <1>1, <1>4
    <3>3. PICK s \in Seq(Packet) : s = up[w]
      BY <1>2
    <3>4. Pristine(w, Len(s), 0)'
      BY <1>1, <1>4, <1>5, <3>1, <3>2, <3>3, PostedPristine
    <3> QED BY <3>4
  <2>2. \A i \in Parts : Clean(w, i)'
    BY <1>3 DEF Clean
  <2>3. ASSUME NEW n \in 1 .. Len(up'[w]), up'[w][n].set = poolBit'[w], NEW i \in Parts,
               up'[w][n].part = i
        PROVE  up'[w][n].val = Unit(w, m, i)
    <3>1. \/ n \in 1 .. Len(up[w]) /\ up'[w][n] = up[w][n]
          \/ n - Len(up[w]) \in 1 .. Len(ps) /\ up'[w][n] = ps[n - Len(up[w])]
      <4>1. PICK u : u = up[w] \o ps
        OBVIOUS
      <4>2. \A x \in 1 .. Len(u) :
              \/ x \in 1 .. Len(up[w]) /\ u[x] = up[w][x]
              \/ x - Len(up[w]) \in 1 .. Len(ps) /\ u[x] = ps[x - Len(up[w])]
        BY <1>2, <1>4, <4>1, ConcatElements
      <4> QED BY <1>5, <2>3, <4>1, <4>2, Zenon
    <3>2. CASE n \in 1 .. Len(up[w]) /\ up'[w][n] = up[w][n]
      BY <1>1, <2>3, <3>2 DEF Current
    <3>3. CASE n - Len(up[w]) \in 1 .. Len(ps) /\ up'[w][n] = ps[n - Len(up[w])]
      BY ZenonT(60), <1>4, <2>3, <3>3
    <3> QED BY <3>1, <3>2, <3>3
  <2> QED BY <2>1, <2>2, <2>3 DEF BufFollows
<1> QED BY <1>9, <1>10, <1>11, <1>12, <1>13 DEF Values

LEMMA StartSliceValues ==
  ASSUME ~crossed', IInv, TurnsInv, ValuesInv, NEW w \in Workers, StartSlice(w)
  PROVE  ValuesInv'
<1>1. GoesOn(w) /\ MayGoOn(w) /\ msg'[w] = 0 /\ 0 \in MsgIds
  BY StartSliceGoesOn
<1>2. PICK m : m = <<job[w] + 1, 0>>
  OBVIOUS
<1>3. /\ ~Waiting(w) /\ job[w] < Len(Jobs)
      /\ job' = [job EXCEPT ![w] = job[w] + 1] /\ msg' = [msg EXCEPT ![w] = 0]
      /\ poolBit' = [poolBit EXCEPT ![w] = 1 - poolBit[w]]
      /\ buf' = [buf EXCEPT ![w] = [i \in Parts |-> Unit(w, m, i)]]
      /\ up' = [up EXCEPT ![w] = up[w] \o Packets(0, 1 - poolBit[w], [i \in Parts |-> Unit(w, m, i)])]
      /\ UNCHANGED <<out, cq, nic, down, downGap, rx, bitmap, count, value>>
  BY <1>2 DEF StartSlice, PostSend, downVars, slotVars
<1>4. job[w] \in Nat /\ Len(Jobs) \in Nat /\ job[w] + 1 \in JobIds /\ m \in Messages
  <2>1. job[w] \in Nat /\ Len(Jobs) \in Nat
    BY WaitingType DEF IInv
  <2>2. job[w] + 1 \in JobIds
    BY <1>3, <2>1 DEF JobIds
  <2>3. Jobs[job[w] + 1] \in Nat \ {0}
    BY <2>2, RdmaAssumption, ElementOfSeq DEF JobIds
  <2> QED BY <1>2, <2>1, <2>2, <2>3, MessageType
<1>5. /\ job'[w] = job[w] + 1 /\ msg'[w] = 0 /\ buf'[w] = [i \in Parts |-> Unit(w, m, i)]
      /\ up'[w] = up[w] \o Packets(0, 1 - poolBit[w], [i \in Parts |-> Unit(w, m, i)])
      /\ \A v \in Workers \ {w} : /\ job'[v] = job[v] /\ msg'[v] = msg[v] /\ up'[v] = up[v]
                                  /\ poolBit'[v] = poolBit[v] /\ buf'[v] = buf[v]
  BY <1>3 DEF IInv, Shapes
<1>6. m = <<job'[w], msg'[w]>> /\ Sent(w)' = m
  <2>1. m = <<job'[w], msg'[w]>>
    BY <1>2, <1>5
  <2> QED BY <1>1, <2>1 DEF GoesOn, Sent
<1>7. cq[w] = <<>>
  <2>1. recvs[w] + Len(cq[w]) = 0 /\ recvs[w] \in Nat /\ cq[w] \in Seq(MsgIds)
    BY <1>3 DEF IInv, OneReceive, Shapes
  <2>2. Len(cq[w]) = 0
    BY <2>1, LenProperties
  <2> QED BY <2>1, <2>2, EmptySeq
<1>8. /\ \A n \in 1 .. Len(up[w]) : Current(w, up[w][n])
      /\ \A n \in 1 .. Len(down[w]) : Current(w, down[w][n])
  BY StartSliceMeets
<1>9. OutExact(w)'
  BY <1>3, OutExactNext DEF ValuesInv, Values
<1>10. Values(w)'
  <2>1. up'[w] = up[w] \o Packets(msg'[w], 1 - poolBit[w], buf'[w])
    BY <1>5
  <2>2. msg'[w] \in MsgIds /\ cq'[w] = <<>> /\ down'[w] = down[w] /\ value' = value
    BY <1>1, <1>3, <1>7
  <2> QED BY <1>1, <1>4, <1>5, <1>6, <1>8, <1>9, <2>1, <2>2, GoesOnValues
<1>11. ASSUME NEW v \in Workers, v # w
       PROVE  Values(v)'
  <2>1. StaysAt(v)
    BY <1>1, <1>5, <1>11 DEF GoesOn, StaysAt
  <2> QED BY <1>3, <1>5, <1>11, <2>1, ValuesUnchanged DEF ValuesInv
<1> QED BY <1>3, <1>10, <1>11 DEF ValuesInv

LEMMA AcceptValues ==
  ASSUME IInv, TurnsInv, ValuesInv, NEW w \in Workers, PollCompletion(w), Accept(w)
  PROVE  ValuesInv'
<1>1. /\ AllSummed(w)
      /\ \A n \in 1 .. Len(up[w]) : Current(w, up[w][n])
      /\ \A n \in 1 .. Len(down[w]) : Current(w, down[w][n])
  BY AcceptMeans DEF Accept
<1>2. /\ Waiting(w) /\ job[w] \in JobIds /\ msg[w] \in Nat /\ msg[w] < Jobs[job[w]]
      /\ Jobs[job[w]] \in Nat /\ job[w] \in Nat /\ job[w] > 0
  <2>1. Waiting(w)
    BY DEF PollCompletion
  <2>2. /\ job[w] \in JobIds /\ msg[w] \in Nat /\ msg[w] < Jobs[job[w]] /\ job[w] \in Nat
        /\ job[w] # 0 => Jobs[job[w]] \in Nat
    BY <2>1, WaitingType DEF IInv
  <2>3. job[w] > 0
    BY <2>1, <2>2 DEF Waiting
  <2> QED BY <2>1, <2>2, <2>3
<1>3. /\ msg' = [msg EXCEPT ![w] = msg[w] + 1] /\ cq[w] # <<>> /\ Head(cq[w]) = msg[w]
      /\ out' = [out EXCEPT ![w] = @ \cup {[job |-> job[w], msg |-> msg[w], vals |-> buf[w]]}]
      /\ UNCHANGED <<job, nic, down, downGap, rx, bitmap, count, value>>
  BY DEF PollCompletion, Accept, downVars, slotVars
<1>4. cq'[w] = <<>> /\ \A v \in Workers \ {w} : cq'[v] = cq[v]
  BY PolledEmpty
<1>5. \A v \in Workers : msg'[v] = IF v = w THEN msg[w] + 1 ELSE msg[v]
  BY <1>3 DEF IInv, Shapes
<1>6. Sent(w) = <<job[w], msg[w]>>
  BY <1>2 DEF Sent
<1>7. \A v \in Workers \ {w} : Sent(v)' = Sent(v) /\ (Waiting(v)' <=> Waiting(v))
  BY <1>3, <1>5 DEF Sent, Waiting
<1>8. /\ out' = [v \in Workers |-> out'[v]]
      /\ \A v \in Workers :
           out'[v] = IF v = w THEN out[w] \cup {[job |-> job[w], msg |-> msg[w], vals |-> buf[w]]}
                     ELSE out[v]
  BY <1>3 DEF ValuesInv
<1>9. OutExact(w)'
  <2>1. cq[w] \in Seq(MsgIds)
    BY DEF IInv, Shapes
  <2>2. 1 \in 1 .. Len(cq[w]) /\ cq[w][1] = msg[w]
    <3>1. Len(cq[w]) \in Nat \ {0} /\ Head(cq[w]) = cq[w][1]
      BY <1>3, <2>1, LenProperties, EmptySeq, HeadTailProperties
    <3> QED BY <1>3, <3>1
  <2>3. BufOk(w, PktsPerMsg)
    BY <1>2, <2>2 DEF ValuesInv, Values, CqValues
  <2>4. \A i \in Parts : buf[w][i] = SumOf(<<job[w], msg[w]>>, i)
    <3>1. \A i \in Parts : i < PktsPerMsg
      BY RdmaAssumption DEF Parts
    <3> QED BY <1>6, <2>3, <3>1 DEF BufOk
  <2>5. OutExact(w)
    BY DEF ValuesInv, Values
  <2> QED BY <1>8, <2>4, <2>5, OutExactNext
<1>10. CASE msg[w] + 1 < Jobs[job[w]]
  <2>1. PICK m : m = <<job[w], msg[w] + 1>>
    OBVIOUS
  <2>2. PICK data : data = [i \in Parts |-> Unit(w, m, i)]
    OBVIOUS
  <2>3. /\ poolBit' = [poolBit EXCEPT ![w] = 1 - poolBit[w]]
        /\ buf' = [buf EXCEPT ![w] = data]
        /\ up' = [up EXCEPT ![w] = up[w] \o Packets(msg[w] + 1, 1 - poolBit[w], data)]
    BY <1>10, <2>1, <2>2 DEF Accept, PostSend
  <2>4. msg[w] + 1 \in MsgIds /\ m \in Messages
    <3>1. msg[w] + 1 \in Nat
      BY <1>2
    <3> QED BY <1>2, <1>10, <2>1, <3>1, MessageType
  <2>5. Waiting(w)' /\ Sent(w)' = m /\ m = <<job'[w], msg'[w]>>
    BY <1>2, <1>3, <1>5, <1>10, <2>1 DEF Waiting, Sent
  <2>6. NextOf(Sent(w)) = m
    BY <1>2, <1>6, <1>10, <2>1 DEF NextOf
  <2>7. GoesOn(w) /\ MayGoOn(w)
    BY <1>1, <1>2, <1>3, <1>7, <2>3, <2>5, <2>6 DEF GoesOn, MayGoOn
  <2>8. /\ buf'[w] = data
        /\ up'[w] = up[w] \o Packets(msg[w] + 1, 1 - poolBit[w], data)
        /\ \A v \in Workers \ {w} : /\ up'[v] = up[v] /\ poolBit'[v] = poolBit[v]
                                    /\ buf'[v] = buf[v]
    BY <2>3 DEF IInv, Shapes
  <2>9. Values(w)'
    <3>1. msg'[w] = msg[w] + 1
      BY <1>5
    <3>2. /\ up'[w] = up[w] \o Packets(msg'[w], 1 - poolBit[w], buf'[w])
          /\ buf'[w] = [i \in Parts |-> Unit(w, m, i)]
      BY <2>2, <2>8, <3>1
    <3>3. msg'[w] \in MsgIds /\ down'[w] = down[w] /\ value' = value
      BY <1>3, <2>4, <3>1
    <3> QED BY <1>1, <1>4, <1>9, <2>4, <2>5, <2>7, <3>2, <3>3, GoesOnValues
  <2>10. ASSUME NEW v \in Workers, v # w
         PROVE  Values(v)'
    <3>1. StaysAt(v)
      BY <1>3, <1>5, <1>7, <2>8, <2>10 DEF StaysAt
    <3> QED BY <1>3, <1>4, <1>8, <2>8, <2>10, <3>1, ValuesUnchanged DEF ValuesInv
  <2> QED BY <1>8, <2>9, <2>10 DEF ValuesInv
<1>11. CASE ~(msg[w] + 1 < Jobs[job[w]])
  <2>1. UNCHANGED <<poolBit, buf, up>>
    BY <1>11 DEF Accept
  <2>2. ~Waiting(w)' /\ Sent(w)' = Sent(w)
    <3>1. ~Waiting(w)'
      BY <1>2, <1>3, <1>5, <1>11 DEF Waiting
    <3>2. (msg[w] + 1) - 1 = msg[w]
      BY <1>2
    <3> QED BY <1>3, <1>5, <1>6, <3>1, <3>2 DEF Sent
  <2>3. \A i : (Has(w, i)' <=> Has(w, i)) /\ (Summed(w, i)' <=> Summed(w, i))
    BY <2>1, <1>3 DEF Has, Summed
  <2>4. SlotValues(w)'
    <3>1. ASSUME NEW i \in Parts
          PROVE  /\ Has(w, i)' /\ count'[i][poolBit'[w]] # 0
                    => value'[i][poolBit'[w]] = Partial(bitmap'[i][poolBit'[w]], Sent(w)', i)
                 /\ Summed(w, i)' => value'[i][poolBit'[w]] = SumOf(Sent(w)', i)
                 /\ w \in bitmap'[i][1 - poolBit'[w]] =>
                      \A x \in Parts : value'[i][1 - poolBit'[w]][<<w, Sent(w)', x>>] = 0
      BY <1>3, <2>1, <2>2, <2>3 DEF ValuesInv, Values, SlotValues
    <3> QED BY <3>1 DEF SlotValues
  <2>5. DownValues(w)'
    BY <1>3, <2>1, <2>2 DEF ValuesInv, Values, DownValues, ResultValue
  <2>6. CqValues(w)' /\ NicFollows(w)' /\ BufFollows(w)'
    BY <2>2 DEF CqValues, NicFollows, BufFollows
  <2>7. Values(w)'
    BY <1>9, <2>4, <2>5, <2>6 DEF Values
  <2>8. ASSUME NEW v \in Workers, v # w
        PROVE  Values(v)'
    <3>1. StaysAt(v)
      BY <1>3, <1>5, <1>7, <2>1, <2>8 DEF StaysAt
    <3> QED BY <1>3, <1>4, <1>8, <2>1, <2>8, <3>1, ValuesUnchanged DEF ValuesInv
  <2> QED BY <1>8, <2>7, <2>8 DEF ValuesInv
<1> QED BY <1>10, <1>11

-----------------------------------------------------------------------------
(* Values: a packet is aggregated *)

\* The first packet of a message that is as it was posted has been taken.
LEMMA PristineTaken ==
  ASSUME NEW w \in Workers, StaysAt(w), up[w] \in Seq(Packet), up[w] # <<>>,
         up'[w] = Tail(up[w]), ~rx'[w].error, \A x \in Parts : Has(w, x) => Has(w, x)',
         NEW k, Pristine(w, 0, k), k # PktsPerMsg, Has(w, k)'
  PROVE  Pristine(w, 0, k + 1)'
<1>1. /\ k \in Nat /\ PktsPerMsg \in Nat \ {0} /\ k + 1 \in 0 .. PktsPerMsg /\ k < PktsPerMsg
      /\ 0 + PktsPerMsg - k <= Len(up[w])
  BY RdmaAssumption DEF Pristine
<1>2. /\ Len(up[w]) \in Nat /\ Len(up'[w]) = Len(up[w]) - 1
      /\ \A m \in 1 .. Len(up'[w]) : up'[w][m] = up[w][m + 1]
  BY TailElements
<1>3. PICK len \in Nat : len = Len(up[w])
  BY <1>2
<1>4. ASSUME NEW y \in Parts, y >= k + 1
      PROVE  \E q : /\ q = up'[w][0 + y - (k + 1) + 1]
                    /\ q.part = y /\ q.set = poolBit[w] /\ ~q.gap /\ q.val = Unit(w, Sent(w), y)
  <2>1. y \in Nat /\ y < PktsPerMsg /\ y >= k
    BY <1>1, <1>4 DEF Parts
  <2>2. /\ 0 + y - (k + 1) + 1 \in 1 .. len - 1
        /\ (0 + y - (k + 1) + 1) + 1 = 0 + y - k + 1
    BY <1>1, <1>3, <1>4, <2>1
  <2>3. up'[w][0 + y - (k + 1) + 1] = up[w][0 + y - k + 1]
    BY <1>2, <1>3, <2>2
  <2> QED BY <2>1, <2>3 DEF Pristine
<1>5. \A x \in Parts : x < k + 1 => Has(w, x)'
  <2> SUFFICES ASSUME NEW x \in Parts, x < k + 1 PROVE Has(w, x)'
    OBVIOUS
  <2>1. x = k \/ x < k
    BY <1>1, FirstParts
  <2> QED BY <2>1 DEF Pristine
<1>6. /\ 0 \in Nat /\ ~(0 > 0) /\ 0 + PktsPerMsg - (k + 1) <= Len(up'[w])
      /\ \A x \in 1 .. 0 : FALSE
  BY <1>1, <1>2
<1> QED BY ZenonT(60), <1>1, <1>4, <1>5, <1>6 DEF Pristine, StaysAt

LEMMA PristineTakes ==
  ASSUME IInv, NEW w \in Workers, StaysAt(w), NEW p \in Packet, Takes(w, p),
         \A x \in Parts : Has(w, x) => Has(w, x)', Has(w, p.part)' \/ p.set # poolBit[w],
         NEW n, NEW k, Pristine(w, n, k)
  PROVE  \E m, l : Pristine(w, m, l)'
<1>1. /\ up[w] \in Seq(Packet) /\ up[w] # <<>> /\ p = up[w][1] /\ up'[w] = Tail(up[w])
      /\ ~rx'[w].error
  BY DEF Takes, IInv, Shapes
<1>2. CASE n > 0
  BY <1>1, <1>2, PristineTail
<1>3. CASE n = 0 /\ k = PktsPerMsg
  <2>1. \A x \in Parts : Has(w, x)
    BY <1>3, RdmaAssumption DEF Pristine, Parts
  <2>2. Len(up'[w]) \in Nat
    BY <1>1, TailElements, LenProperties
  <2> QED BY <2>1, <2>2, PristineDone
<1>4. CASE n = 0 /\ k # PktsPerMsg
  <2>1. p.part = k /\ p.set = poolBit[w]
    BY <1>1, <1>4, PristineHead
  <2>2. PICK x : x = p.part
    OBVIOUS
  <2>3. Has(w, x)'
    BY <2>1, <2>2
  <2> QED BY <1>1, <1>4, <2>1, <2>2, <2>3, PristineTaken
<1> QED BY <1>2, <1>3, <1>4 DEF Pristine

\* What comes behind the packets on a downlink.
LEMMA ReplyFollows ==
  ASSUME NEW v \in Workers, StaysAt(v), NicFollows(v), NEW q \in Packet,
         down[v] \in Seq(Packet), down'[v] = Append(down[v], q),
         nic'[v] = nic[v], buf'[v] = buf[v],
         q.set = poolBit[v] /\ q.part # 0 /\ ~q.gap => Summed(v, 0) /\ ~downGap[v],
         q.set = poolBit[v] \/ ~Summed(v, 0)'
  PROVE  NicFollows(v)'
<1>1. /\ Len(down[v]) \in Nat /\ Len(down'[v]) = Len(down[v]) + 1
      /\ \A n \in 1 .. Len(down[v]) : down'[v][n] = down[v][n]
      /\ down'[v][Len(down[v]) + 1] = q
  BY AppendProperties, LenProperties
<1>2. PICK len \in Nat : len = Len(down[v])
  BY <1>1
<1>3. ASSUME Waiting(v), NEW n \in 1 .. len, down[v][n].set = poolBit[v], down[v][n].part # 0,
             ~down[v][n].gap
      PROVE  IF n = 1
             THEN nic[v] > 0 => \A i \in Parts : i < nic[v] => buf[v][i] = SumOf(Sent(v), i)
             ELSE down'[v][n - 1].set = poolBit[v]
  <2>1. Continues(v, n)
    BY <1>2, <1>3 DEF NicFollows
  <2>2. n # 1 => n - 1 \in 1 .. len
    BY <1>2
  <2> QED BY <1>1, <1>2, <2>1, <2>2 DEF Continues, BufOk
<1>4. ASSUME Waiting(v), q.set = poolBit[v], q.part # 0, ~q.gap
      PROVE  IF len + 1 = 1
             THEN nic[v] > 0 => \A i \in Parts : i < nic[v] => buf[v][i] = SumOf(Sent(v), i)
             ELSE down'[v][(len + 1) - 1].set = poolBit[v]
  <2>1. CASE len = 0
    <3>1. down[v] = <<>>
      BY <1>2, <2>1, EmptySeq
    <3> QED BY <1>4, <2>1, <3>1 DEF NicFollows, BufOk
  <2>2. CASE len # 0
    <3>1. down[v] # <<>>
      BY <1>2, <2>2, EmptySeq
    <3>2. down[v][len].set = poolBit[v]
      BY <1>2, <1>4, <3>1 DEF NicFollows
    <3>3. len \in 1 .. len /\ (len + 1) - 1 = len /\ len + 1 # 1
      BY <2>2
    <3> QED BY <1>1, <1>2, <3>2, <3>3
  <2> QED BY <2>1, <2>2
<1>5. ASSUME Waiting(v), NEW n \in 1 .. Len(down'[v]), down'[v][n].set = poolBit[v],
             down'[v][n].part # 0, ~down'[v][n].gap
      PROVE  IF n = 1
             THEN nic[v] > 0 => \A i \in Parts : i < nic[v] => buf[v][i] = SumOf(Sent(v), i)
             ELSE down'[v][n - 1].set = poolBit[v]
  <2>1. n \in 1 .. len \/ n = len + 1
    BY <1>1, <1>2
  <2>2. CASE n \in 1 .. len
    <3>1. down'[v][n] = down[v][n]
      BY <1>1, <1>2, <2>2
    <3> QED BY <1>3, <1>5, <2>2, <3>1
  <2>3. CASE n = len + 1
    <3>1. down'[v][n] = q
      BY <1>1, <1>2, <2>3
    <3> QED BY <1>4, <1>5, <2>3, <3>1
  <2> QED BY <2>1, <2>2, <2>3
<1>6. down'[v] # <<>> /\ down'[v][Len(down'[v])] = q
  <2>1. Len(down'[v]) # 0
    BY <1>1
  <2> QED BY <1>1, <2>1, EmptySeq
<1> QED BY <1>5, <1>6, NicFollowsNext

\* The buffer of the worker whose packet the switch takes, ...
LEMMA SenderBuf ==
  ASSUME IInv, NEW w \in Workers, StaysAt(w), BufFollows(w), NEW p \in Packet, Takes(w, p),
         buf'[w] = buf[w], \A x \in Parts : Has(w, x) => Has(w, x)',
         Has(w, p.part)' \/ p.set # poolBit[w],
         \A n \in DOMAIN down'[w] : \/ \E m \in DOMAIN down[w] : down'[w][n].set = down[w][m].set
                                    \/ down'[w][n].set = p.set
  PROVE  BufFollows(w)'
<1>1. /\ up[w] \in Seq(Packet) /\ up[w] # <<>> /\ p = up[w][1] /\ up'[w] = Tail(up[w])
  BY DEF Takes, IInv, Shapes
<1>2. /\ Len(up[w]) \in Nat \ {0} /\ up'[w] \in Seq(Packet) /\ 1 \in DOMAIN up[w]
      /\ DOMAIN up[w] = 1 .. Len(up[w]) /\ DOMAIN up'[w] = 1 .. Len(up'[w])
      /\ \A n \in 1 .. Len(up'[w]) : n + 1 \in 1 .. Len(up[w]) /\ up'[w][n] = up[w][n + 1]
  <2>1. Len(up[w]) \in Nat \ {0} /\ up'[w] \in Seq(Packet)
        /\ \A n \in 1 .. Len(up'[w]) : n + 1 \in 1 .. Len(up[w]) /\ up'[w][n] = up[w][n + 1]
    BY <1>1, TailElements
  <2>2. DOMAIN up[w] = 1 .. Len(up[w]) /\ DOMAIN up'[w] = 1 .. Len(up'[w])
    BY <1>1, <2>1, LenProperties
  <2> QED BY <2>1, <2>2
<1>3. ASSUME NEW i \in Parts, ~Has(w, i)', Waiting(w)
      PROVE  /\ Clean(w, i) \/ buf[w][i][<<w, Sent(w), i>>] = 0
             /\ Clean(w, i) =>
                  \A n \in 1 .. Len(up'[w]) : up'[w][n].set = poolBit[w] /\ up'[w][n].part = i
                    => up'[w][n].val = Unit(w, Sent(w), i)
  <2>1. ~Has(w, i)
    BY <1>3
  <2> QED BY <1>2, <1>3, <2>1 DEF BufFollows
<1>4. ASSUME NoDuplicates(w)
      PROVE  NoDuplicates(w)'
  <2>1. p.set = poolBit[w]
    BY <1>1, <1>2, <1>4 DEF NoDuplicates
  <2>2. \A n \in DOMAIN up'[w] : up'[w][n].set = poolBit[w]
    BY <1>2, <1>4 DEF NoDuplicates
  <2>3. \A n \in DOMAIN down'[w] : down'[w][n].set = poolBit[w]
    BY <1>4, <2>1 DEF NoDuplicates
  <2> QED BY <1>4, <2>2, <2>3 DEF NoDuplicates, StaysAt
<1>5. Waiting(w) => NoDuplicates(w)' \/ \E n, k : Pristine(w, n, k)'
  BY <1>4, PristineTakes DEF BufFollows
<1>7. \A i : Clean(w, i)' <=> Clean(w, i)
  BY DEF Clean, StaysAt
<1> QED BY <1>3, <1>5, <1>7 DEF BufFollows, StaysAt

\* ... and of another one.
LEMMA OthersBuf ==
  ASSUME NEW v \in Workers, StaysAt(v), BufFollows(v),
         buf'[v] = buf[v], up'[v] = up[v], rx'[v] = rx[v],
         \A x \in Parts : Has(v, x) => Has(v, x)',
         \A n \in DOMAIN down'[v] : \/ \E m \in DOMAIN down[v] : down'[v][n].set = down[v][m].set
                                    \/ down'[v][n].set = poolBit[v]
  PROVE  BufFollows(v)'
<1>1. \A i \in Parts : ~Has(v, i)' => ~Has(v, i)
  OBVIOUS
<1>2. NoDuplicates(v) => NoDuplicates(v)'
  BY DEF NoDuplicates, StaysAt
<1>3. ASSUME NEW n, NEW k, Pristine(v, n, k)
      PROVE  Pristine(v, n, k)'
  BY <1>3 DEF Pristine, StaysAt
<1>4. Waiting(v) => NoDuplicates(v)' \/ \E n, k : Pristine(v, n, k)'
  BY <1>2, <1>3 DEF BufFollows
<1>5. \A i : Clean(v, i)' <=> Clean(v, i)
  BY DEF Clean, StaysAt
<1> QED BY <1>1, <1>4, <1>5 DEF BufFollows, StaysAt

\* What the slot has stays, and is what the answer brings.
LEMMA SeenValue ==
  ASSUME IInv, NEW w \in Workers, NEW p \in Packet, NEW sum \in Data, Adds(w, p, sum),
         w \in bitmap[p.part][p.set], IInv'
  PROVE  value' = value /\ sum = value[p.part][p.set]
<1>1. p.part \in Parts /\ p.set \in Sets
  BY DEF Packet
<1>2. sum = value[p.part][p.set]
  BY DEF Adds, RegisterAfter
<1>3. \A k \in Parts, c \in Sets : value'[k][c] = value[k][c]
  BY <1>1, <1>2 DEF Adds
<1>4. value \in [Parts -> [Sets -> Data]] /\ value' \in [Parts -> [Sets -> Data]]
  BY DEF IInv, Shapes
<1>5. \A k \in Parts : value'[k] = value[k]
  BY <1>3, <1>4
<1> QED BY <1>2, <1>4, <1>5

LEMMA SeenValues ==
  ASSUME IInv, TurnsInv, ValuesInv, IInv', NEW w \in Workers, NEW p \in Packet,
         NEW sum \in Data, Takes(w, p), Marks(w, p.part, p.set), Adds(w, p, sum),
         Replies(p, sum, Receivers(w, p.part, p.set)), w \in bitmap[p.part][p.set],
         UNCHANGED <<job, msg, poolBit, out, buf, cq, nic>>
  PROVE  ValuesInv'
<1>1. PICK i \in Parts : i = p.part
  BY DEF Packet
<1>2. PICK b \in Sets : b = p.set
  BY DEF Packet
<1>3. UNCHANGED <<bitmap, count, value>> /\ sum = value[i][b] /\ w \in bitmap[i][b]
  BY <1>1, <1>2, SeenBits, SeenValue
<1>4. \A v \in Workers : StaysAt(v)
  BY EverybodyStaysAt
<1>5. \A x : (Has(w, x)' <=> Has(w, x)) /\ (Summed(w, x)' <=> Summed(w, x))
  BY <1>3, <1>4, BitsStay
<1>6. \A v \in Workers \ {w} : up'[v] = up[v] /\ rx'[v] = rx[v]
  BY DEF Takes
<1>7. Values(w)
  BY DEF ValuesInv
<1>8. poolBit[w] \in Sets /\ (b = poolBit[w] \/ b = 1 - poolBit[w]) /\ 1 - poolBit[w] # poolBit[w]
      /\ down[w] \in Seq(Packet) /\ downGap[w] \in BOOLEAN
  BY BitsType DEF IInv, Shapes
<1>9. SlotValues(w)' /\ OutExact(w)'
  BY <1>3, <1>4, <1>7, SlotValuesStay, OutExactNext DEF Values
<1>10. CqValues(w)'
  <2>1. \A x \in Parts : x < PktsPerMsg
    BY RdmaAssumption DEF Parts
  <2> QED BY <1>4, <1>7, <2>1, CqValuesNext DEF Values, CqValues, BufOk
<1>11. (\A x \in Parts : Has(w, x) => Has(w, x)') /\ (Has(w, p.part)' \/ p.set # poolBit[w])
  <2>1. Has(w, i) \/ b # poolBit[w]
    BY <1>3 DEF Has
  <2>2. Has(w, i)' \/ p.set # poolBit[w]
    BY <1>2, <1>5, <2>1
  <2> QED BY <1>1, <1>5, <2>2
<1>12. CASE \A v \in Workers : down'[v] = down[v] /\ downGap'[v] = downGap[v]
  <2>1. BufFollows(w)'
    BY <1>4, <1>7, <1>11, <1>12, SenderBuf DEF Values
  <2>2. NicFollows(w)'
    BY <1>3, <1>4, <1>7, <1>12, NicFollowsStays DEF Values
  <2>3. DownValues(w)'
    BY <1>4, <1>7, <1>12, DownValuesNext DEF Values, DownValues
  <2>4. Values(w)'
    BY <1>9, <1>10, <2>1, <2>2, <2>3 DEF Values
  <2> QED BY <1>3, <1>4, <1>6, <1>12, <2>4, OneWorkersValues DEF ValuesInv
<1>13. CASE /\ count[i][b] = 0
            /\ \A v \in Workers \ {w} : down'[v] = down[v] /\ downGap'[v] = downGap[v]
            /\ down'[w] = Append(down[w], Reply(p, sum, w)) /\ downGap'[w] = FALSE
  <2>1. PICK q \in Packet : q = Reply(p, sum, w)
    BY ReplyType
  <2>2. q.part = i /\ q.set = b /\ q.val = sum /\ (q.gap <=> (downGap[w] /\ p.part > 0))
    BY <1>1, <1>2, <2>1 DEF Reply
  <2>3. /\ Len(down[w]) \in Nat /\ down'[w] = Append(down[w], q) /\ down'[w] \in Seq(Packet)
        /\ Len(down'[w]) = Len(down[w]) + 1
        /\ \A n \in 1 .. Len(down'[w]) : \/ n \in 1 .. Len(down[w]) /\ down'[w][n] = down[w][n]
                                         \/ n = Len(down[w]) + 1 /\ down'[w][n] = q
    BY <1>8, <1>13, <2>1, AppendProperties, LenProperties
  <2>4. b = poolBit[w] => Summed(w, i)
    BY <1>3, <1>13 DEF Summed, Has
  <2>5. ResultValue(w, q)
    <3>1. b = poolBit[w] => value[i][b] = SumOf(Sent(w), i)
      BY <1>7, <2>4 DEF Values, SlotValues
    <3>2. b = 1 - poolBit[w] => \A x \in Parts : value[i][b][<<w, Sent(w), x>>] = 0
      BY <1>3, <1>7 DEF Values, SlotValues
    <3> QED BY <1>3, <1>8, <2>2, <3>1, <3>2 DEF ResultValue
  <2>6. DownValues(w)'
    <3>1. \A n \in 1 .. Len(down'[w]) : ResultValue(w, down'[w][n])
      BY <1>7, <2>3, <2>5 DEF Values, DownValues
    <3> QED BY <1>4, <3>1, DownValuesNext
  <2>7. ASSUME q.set = poolBit[w], q.part # 0, ~q.gap
        PROVE  Summed(w, 0) /\ ~downGap[w]
    <3>1. 0 < i /\ p.part > 0
      BY <1>1, <2>2, <2>7, FirstParts
    <3>2. Summed(w, 0)
      BY <2>2, <2>4, <2>7, <3>1, FirstParts, SummedBelow DEF IInv, TurnsInv, SwitchInv
    <3> QED BY <2>2, <2>7, <3>1, <3>2
  <2>8. q.set = poolBit[w] \/ ~Summed(w, 0)'
    <3>1. SUFFICES ASSUME b # poolBit[w] PROVE ~Has(w, 0)
      BY <1>5, <2>2 DEF Summed
    <3>2. up[w] # <<>> /\ p = up[w][1] /\ 1 \in 1 .. Len(up[w])
      <4>1. up[w] \in Seq(Packet) /\ up[w] # <<>> /\ p = up[w][1]
        BY DEF Takes, IInv, Shapes
      <4> QED BY <4>1, TailElements
    <3>3. w \in bitmap[0][1 - poolBit[w]]
      BY <1>2, <3>1, <3>2, FirstParts DEF TurnsInv, UpFollows, Current
    <3>4. 1 - poolBit[w] \in Sets /\ 1 - (1 - poolBit[w]) = poolBit[w]
      BY <1>8, BitsType
    <3>5. w \notin bitmap[0][1 - (1 - poolBit[w])]
      BY <3>3, <3>4, FirstParts, OtherBitClear DEF IInv, TurnsInv, SwitchInv
    <3> QED BY <3>4, <3>5 DEF Has
  <2>9. NicFollows(w)'
    BY <1>4, <1>7, <1>8, <2>3, <2>7, <2>8, ReplyFollows DEF Values
  <2>10. BufFollows(w)'
    <3>1. \A n \in DOMAIN down'[w] : \/ \E m \in DOMAIN down[w] : down'[w][n].set = down[w][m].set
                                     \/ down'[w][n].set = p.set
      <4> TAKE n \in DOMAIN down'[w]
      <4>1. n \in 1 .. Len(down'[w]) /\ DOMAIN down[w] = 1 .. Len(down[w])
        BY <1>8, <2>3, LenProperties
      <4> QED BY <1>2, <2>2, <2>3, <4>1
    <3> QED BY <1>4, <1>7, <1>11, <3>1, SenderBuf DEF Values
  <2>11. Values(w)'
    BY <1>9, <1>10, <2>6, <2>9, <2>10 DEF Values
  <2> QED BY <1>3, <1>4, <1>6, <1>13, <2>11, OneWorkersValues DEF ValuesInv
<1> QED BY <1>1, <1>2, <1>12, <1>13, SeenReplies

\* What a slot does not know is a contribution as it was preprocessed: whatever the
\* buffer has got in the meantime, and however often it was posted.
LEMMA UnseenUnit ==
  ASSUME IInv, TurnsInv, ValuesInv, NEW w \in Workers, NEW p \in Packet, Takes(w, p),
         w \notin bitmap[p.part][p.set]
  PROVE  p.val = Unit(w, Sent(w), p.part)
<1>1. PICK i \in Parts : i = p.part
  BY DEF Packet
<1>2. Waiting(w) /\ p.set = poolBit[w] /\ Sent(w) \in Messages /\ ~Has(w, i)
  BY <1>1, UnseenPacket
<1>3. up[w] # <<>> /\ p = up[w][1] /\ 1 \in 1 .. Len(up[w]) /\ DOMAIN up[w] = 1 .. Len(up[w])
  <2>1. up[w] \in Seq(Packet) /\ up[w] # <<>> /\ p = up[w][1]
    BY DEF Takes, IInv, Shapes
  <2> QED BY <2>1, TailElements, LenProperties
<1>4. BufFollows(w)
  BY DEF ValuesInv, Values
<1>5. CASE NoDuplicates(w)
  <2>1. buf[w][i] = Unit(w, Sent(w), i) \/ buf[w][i] = SumOf(Sent(w), i)
    BY <1>2, <1>5 DEF NoDuplicates, Sent
  <2>2. Clean(w, i) \/ buf[w][i][<<w, Sent(w), i>>] = 0
    BY <1>2, <1>4 DEF BufFollows
  <2>3. SumOf(Sent(w), i)[<<w, Sent(w), i>>] = 1
    BY <1>2, UnitSums
  <2>4. Clean(w, i)
    BY <2>1, <2>2, <2>3 DEF Clean
  <2> QED BY <1>1, <1>2, <1>3, <1>4, <2>4 DEF BufFollows
<1>6. CASE \E n, k : Pristine(w, n, k)
  <2>1. PICK n, k : Pristine(w, n, k)
    BY <1>6
  <2>2. n = 0
    <3>1. n \in Nat /\ (n > 0 => 1 \in 1 .. n)
      BY <2>1 DEF Pristine
    <3>2. n > 0 => p.set = 1 - poolBit[w]
      BY <1>3, <2>1, <3>1 DEF Pristine
    <3>3. poolBit[w] # 1 - poolBit[w]
      BY BitsType DEF IInv, Shapes
    <3> QED BY <1>2, <3>1, <3>2, <3>3
  <2>3. k # PktsPerMsg
    <3>1. i < PktsPerMsg
      BY RdmaAssumption DEF Parts
    <3> QED BY <1>2, <2>1, <3>1 DEF Pristine
  <2>4. p.part = k /\ p.val = Unit(w, Sent(w), k)
    BY <1>3, <2>1, <2>2, <2>3, PristineHead
  <2> QED BY <2>4
<1> QED BY <1>2, <1>4, <1>5, <1>6 DEF BufFollows

\* So the slot has the contribution of everybody whose bit it has.
LEMMA UnseenSum ==
  ASSUME IInv, TurnsInv, ValuesInv, NEW w \in Workers, NEW p \in Packet, NEW sum \in Data,
         Takes(w, p), Marks(w, p.part, p.set), Adds(w, p, sum),
         w \notin bitmap[p.part][p.set]
  PROVE  /\ sum = Partial(bitmap'[p.part][p.set], Sent(w), p.part)
         /\ count'[p.part][p.set] = 0 => sum = SumOf(Sent(w), p.part)
<1>1. PICK i \in Parts : i = p.part
  BY DEF Packet
<1>2. PICK b \in Sets : b = p.set
  BY DEF Packet
<1>3. PICK B \in SUBSET Workers : B = bitmap[i][b]
  BY DEF IInv, Shapes
<1>4. Sent(w) \in Messages /\ b = poolBit[w] /\ w \notin B
  BY <1>1, <1>2, <1>3, UnseenPacket
<1>5. p.val = Unit(w, Sent(w), i)
  BY <1>1, UnseenUnit
<1>6. bitmap'[i][b] = B \cup {w}
  BY <1>1, <1>2, <1>3, UnseenSlot
<1>7. sum = IF B = {} THEN p.val ELSE Add(value[i][b], p.val)
  BY <1>1, <1>2, <1>3, <1>4 DEF Adds, RegisterAfter
<1>8. ASSUME B = {}
      PROVE  sum = Partial(bitmap'[i][b], Sent(w), i)
  <2>1. bitmap'[i][b] = {w}
    BY <1>6, <1>8
  <2>2. sum = Unit(w, Sent(w), i)
    BY <1>5, <1>7, <1>8
  <2>3. PICK m \in Messages : m = Sent(w)
    BY <1>4
  <2>4. Unit(w, m, i) = Partial({w}, m, i)
    BY UnitSums
  <2> QED BY <2>1, <2>2, <2>3, <2>4
<1>9. ASSUME B # {}
      PROVE  sum = Partial(bitmap'[i][b], Sent(w), i)
  <2>1. Filling(i, b, Sent(w))
    BY <1>1, <1>2, <1>3, <1>9, UnseenSlot
  <2>2. PICK x \in Workers : x \in B
    BY <1>9
  <2>3. Sent(x) = Sent(w) /\ poolBit[x] = b
    BY <1>3, <2>1, <2>2 DEF Filling
  <2>4. count[i][b] # 0
    BY <2>1 DEF Filling
  <2>5. value[i][b] = Partial(B, Sent(w), i)
    BY <1>3, <2>2, <2>3, <2>4 DEF ValuesInv, Values, SlotValues, Has
  <2>6. sum = Partial(B \cup {w}, Sent(w), i)
    BY <1>4, <1>5, <1>7, <1>9, <2>5, PartialSums
  <2> QED BY <1>6, <2>6
<1>10. sum = Partial(bitmap'[i][b], Sent(w), i)
  BY <1>8, <1>9
<1>11. ASSUME count'[i][b] = 0
       PROVE  sum = SumOf(Sent(w), i)
  <2>1. \A v \in Workers : v \in bitmap'[i][b]
    BY <1>1, <1>2, <1>11, UnseenSlot
  <2>2. bitmap'[i][b] = Workers
    BY <1>3, <1>6, <2>1
  <2> QED BY <1>4, <1>10, <2>2, PartialSums
<1> QED BY <1>1, <1>2, <1>10, <1>11

LEMMA UnseenSlotValues ==
  ASSUME IInv, TurnsInv, ValuesInv, NEW w \in Workers, NEW p \in Packet, NEW sum \in Data,
         Takes(w, p), Marks(w, p.part, p.set), Adds(w, p, sum),
         w \notin bitmap[p.part][p.set], UNCHANGED <<job, msg, poolBit>>,
         NEW v \in Workers
  PROVE  SlotValues(v)'
<1>1. PICK i \in Parts : i = p.part
  BY DEF Packet
<1>2. PICK b \in Sets : b = p.set
  BY DEF Packet
<1>3. /\ bitmap'[i][b] = bitmap[i][b] \cup {w} /\ bitmap'[i][1 - b] = bitmap[i][1 - b] \ {w}
      /\ count'[i][1 - b] = count[i][1 - b] /\ value'[i][b] = sum
      /\ value'[i][1 - b] = value[i][1 - b]
      /\ \A k \in Parts \ {i} : bitmap'[k] = bitmap[k] /\ count'[k] = count[k]
      /\ \A k \in Parts \ {i}, c \in Sets : value'[k][c] = value[k][c]
  BY <1>1, <1>2, BitsType DEF Marks, Adds
<1>4. /\ b = poolBit[w] /\ 1 - b # b /\ 1 - (1 - b) = b /\ 1 - b \in Sets
      /\ poolBit[v] = b \/ poolBit[v] = 1 - b
      /\ poolBit[v] \in Sets /\ 1 - poolBit[v] \in Sets
  BY <1>2, UnseenPacket, BitsType DEF IInv, Shapes
<1>5. StaysAt(v)
  BY EverybodyStaysAt
<1>6. SlotValues(v)
  BY DEF ValuesInv, Values
\* The slot of the packet.
<1>7. ASSUME poolBit[v] = b
      PROVE  /\ v \in bitmap'[i][b] => /\ sum = Partial(bitmap'[i][b], Sent(v), i)
                                       /\ count'[i][b] = 0 => sum = SumOf(Sent(v), i)
             /\ v \in bitmap'[i][1 - b] =>
                  \A x \in Parts : value[i][1 - b][<<v, Sent(v), x>>] = 0
  <2>1. Sent(v) = Sent(w)
    BY <1>4, <1>7, UnseenPacket
  <2>2. /\ sum = Partial(bitmap'[i][b], Sent(w), i)
        /\ count'[i][b] = 0 => sum = SumOf(Sent(w), i)
    BY <1>1, <1>2, UnseenSum
  <2>3. v \in bitmap'[i][1 - b] => v \in bitmap[i][1 - poolBit[v]]
    BY <1>3, <1>7
  <2> QED BY <1>6, <1>7, <2>1, <2>2, <2>3 DEF SlotValues
\* Its twin, which w leaves.
<1>8. ASSUME poolBit[v] = 1 - b
      PROVE  /\ v \in bitmap'[i][1 - b] =>
                  /\ count[i][1 - b] # 0 =>
                       value[i][1 - b] = Partial(bitmap'[i][1 - b], Sent(v), i)
                  /\ count[i][1 - b] = 0 => value[i][1 - b] = SumOf(Sent(v), i)
             /\ v \notin bitmap'[i][b]
  <2>1. v # w /\ NextOf(Sent(v)) = Sent(w)
    BY <1>4, <1>8, UnseenPacket
  <2>2. v \notin bitmap[i][b]
    BY <1>1, <1>2, <2>1, UnseenSlot
  <2>3. ASSUME v \in bitmap[i][1 - b], count[i][1 - b] # 0
        PROVE  bitmap'[i][1 - b] = bitmap[i][1 - b]
    <3>1. Filling(i, 1 - b, Sent(v)) \/ Full(i, 1 - b, Sent(v))
      BY <1>8, <2>3, MemberOfSlot DEF Has, IInv, TurnsInv, SwitchInv
    <3>2. w \notin bitmap[i][1 - b]
      BY <1>4, <2>3, <3>1 DEF Filling, Full
    <3> QED BY <1>3, <3>2
  <2>4. v \in bitmap[i][1 - b] =>
          /\ count[i][1 - b] # 0 => value[i][1 - b] = Partial(bitmap[i][1 - b], Sent(v), i)
          /\ count[i][1 - b] = 0 => value[i][1 - b] = SumOf(Sent(v), i)
    BY <1>6, <1>8 DEF SlotValues, Has, Summed
  <2> QED BY <1>3, <2>1, <2>2, <2>3, <2>4
<1>9. ASSUME NEW k \in Parts
      PROVE  /\ v \in bitmap'[k][poolBit[v]] /\ count'[k][poolBit[v]] # 0
                => value'[k][poolBit[v]] = Partial(bitmap'[k][poolBit[v]], Sent(v), k)
             /\ v \in bitmap'[k][poolBit[v]] /\ count'[k][poolBit[v]] = 0
                => value'[k][poolBit[v]] = SumOf(Sent(v), k)
             /\ v \in bitmap'[k][1 - poolBit[v]] =>
                  \A x \in Parts : value'[k][1 - poolBit[v]][<<v, Sent(v), x>>] = 0
  <2>1. CASE k # i
    <3>1. bitmap'[k] = bitmap[k] /\ count'[k] = count[k]
          /\ value'[k][poolBit[v]] = value[k][poolBit[v]]
          /\ value'[k][1 - poolBit[v]] = value[k][1 - poolBit[v]]
      BY <1>3, <1>4, <2>1
    <3> QED BY <1>6, <3>1 DEF SlotValues, Has, Summed
  <2>2. CASE k = i /\ poolBit[v] = b
    BY <1>3, <1>7, <2>2
  <2>3. CASE k = i /\ poolBit[v] = 1 - b
    BY <1>3, <1>4, <1>8, <2>3
  <2> QED BY <1>4, <2>1, <2>2, <2>3
<1> QED BY <1>5, <1>9 DEF SlotValues, Has, Summed, StaysAt

\* A worker whose links and buffer stay, while others are summed.
LEMMA NicFollowsLess ==
  ASSUME NEW v \in Workers, StaysAt(v), NicFollows(v), Summed(v, 0)' => Summed(v, 0),
         down'[v] = down[v], downGap'[v] = downGap[v], nic'[v] = nic[v], buf'[v] = buf[v]
  PROVE  NicFollows(v)'
BY SMTT(30), NicFollowsNext DEF NicFollows, Continues, BufOk

\* The slot of part 0 is full when a part behind it is.
LEMMA FirstSummed ==
  ASSUME IInv, TurnsInv, NEW w \in Workers, NEW b \in Sets,
         \A v \in Workers : Has(v, 0) /\ poolBit[v] = b
  PROVE  Summed(w, 0)
<1>1. bitmap[0][b] \in SUBSET Workers
  BY FirstParts DEF IInv, Shapes
<1>2. bitmap[0][b] = Workers
  BY <1>1 DEF Has
<1>3. Filling(0, b, Sent(w)) \/ Full(0, b, Sent(w))
  BY FirstParts, MemberOfSlot DEF IInv, TurnsInv, SwitchInv
<1>4. ~Filling(0, b, Sent(w))
  <2>1. SUFFICES ASSUME Filling(0, b, Sent(w)) PROVE FALSE
    OBVIOUS
  <2>2. count[0][b] = NumWorkers - NumWorkers /\ count[0][b] > 0
    BY <1>2, <2>1 DEF Filling, NumWorkers
  <2> QED BY <2>2, WorkersCount
<1> QED BY <1>3, <1>4 DEF Full, Summed

LEMMA UnseenValues ==
  ASSUME IInv, TurnsInv, ValuesInv, IInv', NEW w \in Workers, NEW p \in Packet,
         NEW sum \in Data, Takes(w, p), Marks(w, p.part, p.set), Adds(w, p, sum),
         Replies(p, sum, Receivers(w, p.part, p.set)), w \notin bitmap[p.part][p.set],
         UNCHANGED <<job, msg, poolBit, out, buf, cq, nic>>, NEW v \in Workers
  PROVE  Values(v)'
<1>1. PICK i \in Parts : i = p.part
  BY DEF Packet
<1>2. PICK b \in Sets : b = p.set
  BY DEF Packet
<1>3. StaysAt(v) /\ Stays
  BY EverybodyStaysAt, UnchangedStays
<1>4. Values(v) /\ down[v] \in Seq(Packet) /\ downGap[v] \in BOOLEAN
  BY DEF ValuesInv, IInv, Shapes
<1>5. SlotValues(v)'
  BY UnseenSlotValues
<1>6. OutExact(v)'
  BY <1>4, OutExactNext DEF Values
<1>7. CqValues(v)'
  <2>1. \A x \in Parts : x < PktsPerMsg
    BY RdmaAssumption DEF Parts
  <2> QED BY <1>3, <1>4, <2>1, CqValuesNext DEF Values, CqValues, BufOk
<1>8. /\ \A x \in Parts : Has(v, x) => Has(v, x)'
      /\ Has(w, i)' /\ b = poolBit[w]
      /\ \A x \in Parts : Has(v, x)' => Has(v, x) \/ x = i
      /\ \A x \in Parts, c \in Sets : x # i => bitmap'[x][c] = bitmap[x][c] /\ count'[x][c] = count[x][c]
  <2>1. \A x \in Parts, c \in Sets : x # i => bitmap'[x][c] = bitmap[x][c] /\ count'[x][c] = count[x][c]
    BY <1>1 DEF Marks
  <2> QED BY <1>1, <1>2, <1>3, <2>1, UnseenKeeps, UnseenPacket
<1>9. ASSUME \A n \in DOMAIN down'[v] :
               (\E m \in DOMAIN down[v] : down'[v][n].set = down[v][m].set)
               \/ (down'[v][n].set = poolBit[v] /\ poolBit[v] = b)
      PROVE  BufFollows(v)'
  <2>1. CASE v = w
    <3>1. \A n \in DOMAIN down'[v] :
            (\E m \in DOMAIN down[v] : down'[v][n].set = down[v][m].set)
            \/ down'[v][n].set = p.set
      BY <1>2, <1>9
    <3>2. \E x : x = p.part /\ Has(w, x)'
      BY <1>1, <1>8
    <3>3. Has(w, p.part)'
      BY <3>2
    <3> QED BY <1>3, <1>4, <1>8, <2>1, <3>1, <3>3, SenderBuf DEF Values
  <2>2. CASE v # w
    <3>1. up'[v] = up[v] /\ rx'[v] = rx[v]
      BY <2>2 DEF Takes
    <3> QED BY <1>3, <1>4, <1>8, <1>9, <3>1, OthersBuf DEF Values
  <2> QED BY <2>1, <2>2
<1>10. CASE /\ count'[i][b] # 0
            /\ \A u \in Workers : down'[u] = down[u] /\ downGap'[u] = downGap[u]
  <2>1. DownValues(v)'
    BY <1>3, <1>4, <1>10, DownValuesNext DEF Values, DownValues
  <2>2. Summed(v, 0)' => Summed(v, 0)
    <3>1. SUFFICES ASSUME Has(v, 0)', count'[0][poolBit[v]] = 0
                   PROVE  Has(v, 0) /\ count[0][poolBit[v]] = 0
      BY <1>3 DEF Summed, StaysAt
    <3>2. 0 \in Parts /\ poolBit[v] \in Sets /\ (poolBit[v] = b \/ poolBit[v] = 1 - b)
      BY FirstParts, BitsType DEF IInv, Shapes
    <3>3. CASE i # 0
      BY <1>8, <3>1, <3>2, <3>3
    <3>4. CASE i = 0
      <4>1. poolBit[v] = 1 - b /\ v # w
        <5>1. poolBit[v] = 1 - b
          BY <1>10, <3>1, <3>2, <3>4
        <5> QED BY <1>8, <5>1, BitsType
      <4>2. count'[0][poolBit[v]] = count[0][poolBit[v]]
        BY <1>1, <1>2, <3>4, <4>1 DEF Marks
      <4>3. Has(v, 0)
        BY <1>1, <1>3, <3>1, <3>2, <4>1, UnseenKeeps
      <4> QED BY <3>1, <4>2, <4>3
    <3> QED BY <3>3, <3>4
  <2>3. NicFollows(v)'
    BY <1>3, <1>4, <1>10, <2>2, NicFollowsLess DEF Values
  <2>4. BufFollows(v)'
    BY <1>9, <1>10
  <2> QED BY <1>5, <1>6, <1>7, <2>1, <2>3, <2>4 DEF Values
<1>11. CASE /\ count'[i][b] = 0
            /\ \A u \in Workers : /\ down'[u] = Append(down[u], Reply(p, sum, u))
                                  /\ downGap'[u] = FALSE
                                  /\ Sent(u) = Sent(w) /\ poolBit[u] = b /\ Summed(u, i)'
  <2>1. PICK q \in Packet : q = Reply(p, sum, v)
    BY ReplyType
  <2>2. q.part = i /\ q.set = b /\ q.val = sum /\ (q.gap <=> (downGap[v] /\ p.part > 0))
    BY <1>1, <1>2, <2>1 DEF Reply
  <2>3. /\ Len(down[v]) \in Nat /\ down'[v] = Append(down[v], q) /\ down'[v] \in Seq(Packet)
        /\ Len(down'[v]) = Len(down[v]) + 1
        /\ \A n \in 1 .. Len(down'[v]) : \/ n \in 1 .. Len(down[v]) /\ down'[v][n] = down[v][n]
                                         \/ n = Len(down[v]) + 1 /\ down'[v][n] = q
    <3>1. down'[v] = Append(down[v], q)
      BY <1>11, <2>1
    <3> QED BY <1>4, <3>1, AppendProperties, LenProperties
  <2>4. ResultValue(v, q)
    <3>1. sum = SumOf(Sent(w), i)
      BY <1>1, <1>2, <1>11, UnseenSum
    <3> QED BY <1>11, <2>2, <3>1 DEF ResultValue
  <2>5. DownValues(v)'
    <3>1. \A n \in 1 .. Len(down'[v]) : ResultValue(v, down'[v][n])
      BY <1>4, <2>3, <2>4 DEF Values, DownValues
    <3> QED BY <1>3, <3>1, DownValuesNext
  <2>6. ASSUME q.part # 0, ~q.gap
        PROVE  Summed(v, 0) /\ ~downGap[v]
    <3>1. i # 0 /\ 0 < i /\ p.part > 0
      BY <1>1, <2>2, <2>6, FirstParts
    <3>2. InOrder'
      BY <1>3, UnseenSwitch DEF SwitchInv
    <3>3. ASSUME NEW u \in Workers
          PROVE  Has(u, 0)
      <4>1. Has(u, i)'
        BY <1>11 DEF Summed
      <4>2. Has(u, 0)'
        BY <3>1, <3>2, <4>1, FirstParts DEF InOrder
      <4> QED BY <1>1, <1>3, <3>1, <4>2, FirstParts, UnseenKeeps
    <3>4. Summed(v, 0)
      BY <1>11, <3>3, FirstSummed
    <3> QED BY <2>2, <2>6, <3>1, <3>4
  <2>7. NicFollows(v)'
    BY <1>3, <1>4, <1>11, <2>2, <2>3, <2>6, ReplyFollows DEF Values
  <2>8. BufFollows(v)'
    <3>1. \A n \in DOMAIN down'[v] :
            (\E m \in DOMAIN down[v] : down'[v][n].set = down[v][m].set)
            \/ (down'[v][n].set = poolBit[v] /\ poolBit[v] = b)
      <4> TAKE n \in DOMAIN down'[v]
      <4>1. n \in 1 .. Len(down'[v]) /\ DOMAIN down[v] = 1 .. Len(down[v])
        BY <1>4, <2>3, LenProperties
      <4> QED BY <1>11, <2>2, <2>3, <4>1
    <3> QED BY <1>9, <3>1
  <2> QED BY <1>5, <1>6, <1>7, <2>5, <2>7, <2>8 DEF Values
<1> QED BY ZenonT(60), <1>1, <1>2, <1>3, <1>10, <1>11, UnseenReplies

LEMMA AggregateValues ==
  ASSUME IInv, TurnsInv, ValuesInv, NEW w \in Workers, Aggregate(w)
  PROVE  ValuesInv'
<1>1. PICK p \in Packet, sum \in Data :
        /\ Takes(w, p) /\ Marks(w, p.part, p.set) /\ Adds(w, p, sum)
        /\ Replies(p, sum, Receivers(w, p.part, p.set))
        /\ UNCHANGED <<job, msg, poolBit, out, buf, cq, nic>>
  BY AggregateEffect
<1>2. IInv'
  BY AggregateIInv
<1>3. CASE w \in bitmap[p.part][p.set]
  BY <1>1, <1>2, <1>3, SeenValues
<1>4. CASE w \notin bitmap[p.part][p.set]
  <2>1. \A v \in Workers : Values(v)'
    BY <1>1, <1>2, <1>4, UnseenValues
  <2> QED BY <1>1, <2>1 DEF ValuesInv
<1> QED BY <1>3, <1>4

-----------------------------------------------------------------------------

LEMMA InitValues == Init => ValuesInv
<1> SUFFICES ASSUME Init PROVE ValuesInv
  OBVIOUS
<1>1. /\ \A w \in Workers : /\ ~Waiting(w) /\ up[w] = <<>> /\ down[w] = <<>> /\ cq[w] = <<>>
                            /\ out[w] = {}
      /\ \A i \in Parts, b \in Sets : bitmap[i][b] = {}
      /\ \A w \in Workers : poolBit[w] \in Sets /\ 1 - poolBit[w] \in Sets
      /\ out = [w \in Workers |-> out[w]]
  BY DEF Init, Waiting, Sets
<1>2. \A w \in Workers : SlotValues(w)
  BY <1>1 DEF SlotValues, Has, Summed
<1>3. \A w \in Workers : /\ DownValues(w) /\ CqValues(w) /\ NicFollows(w) /\ BufFollows(w)
                         /\ OutExact(w)
  BY <1>1, EmptySeq DEF DownValues, CqValues, NicFollows, BufFollows, OutExact
<1> QED BY <1>1, <1>2, <1>3 DEF ValuesInv, Values

LEMMA NextValues ==
  ASSUME ~crossed', ~exposed', ~misplaced', IInv, TurnsInv, ValuesInv, [Next]_vars
  PROVE  ValuesInv'
<1>1. CASE UNCHANGED vars
  <2>1. UNCHANGED <<job, msg, poolBit, out, up, down, cq, nic, downGap, buf, rx,
                    bitmap, count, value>>
    BY <1>1 DEF vars, workerVars, memoryVars, downVars, slotVars
  <2>2. \A v \in Workers : Values(v)'
    BY <2>1, EverybodyStaysAt, ValuesUnchanged DEF ValuesInv
  <2> QED BY <2>1, <2>2 DEF ValuesInv
<1>2. ASSUME NEW w \in Workers, PollCompletion(w)
      PROVE  ValuesInv'
  <2>1. CASE Accept(w)
    BY <1>2, <2>1, AcceptValues
  <2>2. CASE Discard(w)
    BY <1>2, <2>2, DiscardValues
  <2> QED BY <1>2, <2>1, <2>2 DEF PollCompletion
<1>3. ASSUME NEW w \in Workers, Switch(w)
      PROVE  ValuesInv'
  BY <1>3, SequenceViolationValues, AggregateValues DEF Switch
<1>4. ASSUME NEW w \in Workers, StartSlice(w)
      PROVE  ValuesInv'
  BY <1>4, StartSliceValues
<1>5. ASSUME NEW w \in Workers, Timeout(w)
      PROVE  ValuesInv'
  BY <1>5, TimeoutValues
<1>6. ASSUME NEW w \in Workers, NicReceive(w)
      PROVE  ValuesInv'
  BY <1>6, NicReceiveValues
<1>7. ASSUME NEW w \in Workers, LoseUplink(w) \/ LoseDownlink(w)
      PROVE  ValuesInv'
  BY <1>7, LoseUplinkValues, LoseDownlinkValues
<1> QED BY <1>1, <1>2, <1>3, <1>4, <1>5, <1>6, <1>7 DEF Next, Done

\* A NIC has three kinds of packets to tell from each other, the first, the last and
\* those in between: of messages of up to three packets, it puts each in its place.
THEOREM WrittenInPlace ==
  ASSUME PktsPerMsg <= 3
  PROVE  Spec => []~misplaced
<1>1. Init => ~misplaced
  BY DEF Init
<1>2. IInv /\ ~misplaced /\ [Next]_vars => ~misplaced'
  <2> SUFFICES ASSUME IInv, ~misplaced, [Next]_vars PROVE ~misplaced'
    OBVIOUS
  <2>1. CASE UNCHANGED vars
    BY <2>1 DEF vars, historyVars
  <2>2. ASSUME NEW w \in Workers, NicReceive(w)
        PROVE  ~misplaced'
    <3>1. PICK p : p = Head(down[w])
      OBVIOUS
    <3>2. PICK i : i = IF p.part = 0 THEN 0 ELSE nic[w]
      OBVIOUS
    <3>3. PICK good : good = (p.part = 0 \/ (~p.gap /\ i > 0
                                /\ (p.part = PktsPerMsg - 1 <=> i = PktsPerMsg - 1)))
      OBVIOUS
    <3>4. misplaced' = (misplaced \/ (good /\ i # p.part)) /\ down[w] # <<>>
      BY <2>2, <3>1, <3>2, <3>3 DEF NicReceive
    <3>5. p \in Packet /\ nic[w] \in Parts
      <4>1. down[w] \in Seq(Packet) /\ nic[w] \in Parts
        BY DEF IInv, Shapes
      <4> QED BY <3>1, <3>4, <4>1, TailElements
    <3>6. /\ i \in Nat /\ p.part \in Nat /\ i <= PktsPerMsg - 1 /\ p.part <= PktsPerMsg - 1
          /\ PktsPerMsg \in Nat \ {0}
      BY <3>2, <3>5, RdmaAssumption DEF Packet, Parts
    <3>7. good => i = p.part
      <4>1. CASE p.part = 0
        BY <3>2, <4>1
      <4>2. CASE i > 0 /\ (p.part = PktsPerMsg - 1 <=> i = PktsPerMsg - 1) /\ p.part # 0
        BY <3>6, <4>2
      <4> QED BY <3>3, <4>1, <4>2, Zenon
    <3> QED BY <3>4, <3>7
  <2>3. ASSUME NEW w \in Workers,
               \/ StartSlice(w) \/ Timeout(w) \/ PollCompletion(w) \/ Switch(w)
               \/ LoseUplink(w) \/ LoseDownlink(w)
        PROVE  misplaced' = misplaced
    BY <2>3 DEF StartSlice, Timeout, PollCompletion, Switch, SequenceViolation, Aggregate,
                LoseUplink, LoseDownlink, historyVars
  <2>4. CASE Done
    BY <2>1, <2>4 DEF Done
  <2> QED BY <2>1, <2>2, <2>3, <2>4 DEF Next
<1> QED BY <1>1, <1>2, InductiveInvariant, PTL DEF Spec

Untouched == ~crossed /\ ~exposed /\ ~misplaced

\* The slots, what is on its way from them and the buffers have what the turns say.
THEOREM ValuesInvariant == Spec => [](IInv /\ (Untouched => TurnsInv /\ ValuesInv))
<1>1. Init => IInv /\ TurnsInv /\ ValuesInv
  BY InitIInv, InitTurns, InitValues
<1>2. /\ IInv /\ (Untouched => TurnsInv /\ ValuesInv) /\ [Next]_vars
      => IInv' /\ (Untouched => TurnsInv /\ ValuesInv)'
  BY NextIInv, NextTurns, NextValues, NextHistory DEF Untouched
<1> QED BY <1>1, <1>2, PTL DEF Spec

\* Every packet of every message a worker has postprocessed is one contribution of
\* every worker, although a message that is posted again is posted from the buffer
\* that part of its result has been written to, and however many packets a message
\* has: whatever else is lost, posted again, dropped or arrives twice, only what the
\* three history variables stand for can make a result wrong.
THEOREM ResultsAreExact ==
  Spec => [](~crossed /\ ~exposed /\ ~misplaced => ResultsExact)
<1>1. ValuesInv => ResultsExact
  BY DEF ValuesInv, Values, OutExact, ResultsExact
<1> QED BY <1>1, ValuesInvariant, PTL DEF Untouched

=============================================================================
