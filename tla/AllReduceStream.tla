-------------------------- MODULE AllReduceStream ---------------------------
(***************************************************************************)
(* What a stream of all-reduced packets promises, without switch, network   *)
(* or timers: every worker contributes the packets 0 .. LastPkt in order    *)
(* and gets each of them back as the sum of one contribution of every       *)
(* worker, never before every worker has contributed it.                    *)
(***************************************************************************)
EXTENDS Integers

CONSTANTS Workers,   \* the workers of the job
          LastPkt    \* packets are numbered 0 .. LastPkt

Pkts     == 0 .. LastPkt
Contribs == Workers \X Pkts   \* <<w, k>>: what worker w contributes to packet k

NotStarted == -1              \* the worker has not submitted the job yet

\* A packet's payload comes back in two halves, which the switch reads in two
\* pipeline passes.
Result(hi, lo) == [hi |-> hi, lo |-> lo]

Zero       == [c \in Contribs |-> 0]
SumOf(k)   == [c \in Contribs |-> IF c[2] = k THEN 1 ELSE 0]
NoResult   == Result(Zero, Zero)
Reduced(k) == Result(SumOf(k), SumOf(k))

VARIABLES cur,   \* cur[w]: the packet w is waiting for (LastPkt + 1: none left)
          out    \* out[w][k]: what w holds as the result of packet k

streamVars == <<cur, out>>

Init == /\ cur = [w \in Workers |-> NotStarted]
        /\ out = [w \in Workers |-> [k \in Pkts |-> NoResult]]

Start(w) == /\ cur[w] = NotStarted
            /\ cur' = [cur EXCEPT ![w] = 0]
            /\ UNCHANGED out

Complete(w) == /\ cur[w] \in Pkts
               /\ \A v \in Workers : cur[v] >= cur[w]
               /\ out' = [out EXCEPT ![w][cur[w]] = Reduced(cur[w])]
               /\ cur' = [cur EXCEPT ![w] = @ + 1]

Next == \E w \in Workers : Start(w) \/ Complete(w)

Spec == Init /\ [][Next]_streamVars

=============================================================================
