-------------------------------- MODULE NcclPlugin --------------------------------
(* The NCCL plugin: a collective network whose reductions are jobs of the      *)
(* context and whose connections are those of NCCL's point to point network    *)
(* (external: its calls succeed or fail). NCCL's proxy thread calls it; it      *)
(* holds one listening and one collective communicator and polls its requests. *)
EXTENDS ContextClient

CONSTANTS Requests,      \* the reductions NCCL asks for
          DataTypes, Operations,
          MaxConnects    \* how often it tries to connect

ASSUME NcclAssumption == MaxConnects \in Nat

VARIABLES
  initialized, listening, connected, connects,
  leaked,        \* collective communicators that no one can free any more
  request        \* SwitchMLRequest and what NCCL knows of it

ncclVars == <<initialized, listening, connected, connects, leaked, request>>

SendBuffer(r) == <<"send", r>>
RecvBuffer(r) == <<"recv", r>>
TempBuffer(r) == <<"temp", r>>

Filled(r) == 100 + r       \* what the caller has put in its send buffer

NcclBuffers == {"send", "recv", "temp"} \X Requests

TypeCheck(type) == type \in {"ncclInt32", "ncclUint8", "ncclFloat32"}
OpCheck(op) == op = "ncclSum"

NoRequest == [state |-> "none", dataType |-> "ncclInt32", sendData |-> <<>>,
              recvData |-> <<>>, job |-> 0]

NcclInit ==
  /\ initialized = FALSE /\ listening = FALSE /\ connected = FALSE
  /\ connects = 0 /\ leaked = 0
  /\ request = [r \in Requests |-> NoRequest]

ncclSwitchMLInit ==
  /\ ~initialized /\ initialized' = TRUE
  /\ StartContext
  /\ UNCHANGED <<listening, connected, connects, leaked, request,
                 tensor, sums, mem, live, aborted>>

ncclSwitchMLListen ==
  /\ initialized /\ ~listening /\ connects < MaxConnects
  /\ listening' = TRUE
  /\ UNCHANGED <<initialized, connected, connects, leaked, request, clientVars>>

ncclSwitchMLCloseListen ==
  /\ listening /\ listening' = FALSE
  /\ UNCHANGED <<initialized, connected, connects, leaked, request, clientVars>>

(* The communicator is allocated before the rank is looked at and before the   *)
(* network connects and accepts; when one of these fails it is left behind.    *)
ncclSwitchMLConnect ==
  /\ listening /\ ~connected /\ connects < MaxConnects
  /\ connects' = connects + 1
  /\ \/ connected' = TRUE /\ UNCHANGED leaked
     \/ leaked' = leaked + 1 /\ UNCHANGED connected
  /\ UNCHANGED <<initialized, listening, request, clientVars>>

\* NCCL closes a communicator when it has no request any more.
ncclSwitchMLCloseColl ==
  /\ connected /\ \A r \in Requests : request[r].state # "pending"
  /\ connected' = FALSE
  /\ UNCHANGED <<initialized, listening, connects, leaked, request, clientVars>>

ncclSwitchMLReduceSupport(type, op) == TypeCheck(type) /\ OpCheck(op)

(* SwitchML has no 8 bit elements: they are reduced in a temporary array of    *)
(* wider ones, which is both the input and the output of the job.              *)
JobBuffers(r, type, recv) ==
  IF type = "ncclUint8" THEN [in |-> TempBuffer(r), out |-> TempBuffer(r)]
  ELSE [in |-> SendBuffer(r), out |-> recv]

ncclSwitchMLIallreduce(r, type, op) ==
  /\ connected /\ request[r].state = "none"
  /\ IF ~ncclSwitchMLReduceSupport(type, op)
     THEN /\ request' = [request EXCEPT ![r].state = "refused"]
          /\ UNCHANGED clientVars
     ELSE \E recv \in {SendBuffer(r), RecvBuffer(r)} :
            LET b == JobBuffers(r, type, recv)
            IN  /\ request' = [request EXCEPT ![r] =
                     [state |-> "pending", dataType |-> type, sendData |-> SendBuffer(r),
                      recvData |-> recv, job |-> IF state = "RUNNING" THEN NextJob ELSE 0]]
                /\ live' = live \union {b.in}
                /\ mem' = [mem EXCEPT ![b.in] = mem[SendBuffer(r)]]
                /\ AllReduceAsync(b.in, b.out, mem')
  /\ UNCHANGED <<initialized, listening, connected, connects, leaked>>

\* (Broken on purpose: the sum is unloaded where the data came from.)
UnloadedToSendBug(r) ==
  /\ mem' = [mem EXCEPT ![request[r].sendData] = mem[TempBuffer(r)] % 256]
  /\ live' = live \ {TempBuffer(r)}

\* The wide elements are cut to 8 bits again, and their array is freed.
Unloaded(r) ==
  /\ mem' = [mem EXCEPT ![request[r].recvData] = mem[TempBuffer(r)] % 256]
  /\ live' = live \ {TempBuffer(r)}

\* (Broken on purpose: a request is over when its job has left the queue.)
IsFinishedEarlyBug(r) == status[request[r].job] \in {"RUNNING", "FINISHED"}

\* Only FINISHED counts: the request of a job that FAILED is polled for ever.
IsFinished(r) == status[request[r].job] = "FINISHED"

ncclSwitchMLTest(r) ==
  /\ request[r].state = "pending" /\ IsFinished(r)
  /\ IF request[r].dataType = "ncclUint8" THEN Unloaded(r) ELSE UNCHANGED <<mem, live>>
  /\ request' = [request EXCEPT ![r].state = "done"]
  /\ UNCHANGED <<initialized, listening, connected, connects, leaked,
                 contextVars, aborted>>

Proxy ==
  \/ ncclSwitchMLInit \/ ncclSwitchMLListen \/ ncclSwitchMLCloseListen
  \/ ncclSwitchMLConnect \/ ncclSwitchMLCloseColl
  \/ \E r \in Requests :
       \/ ncclSwitchMLTest(r)
       \/ \E type \in DataTypes, op \in Operations : ncclSwitchMLIallreduce(r, type, op)
=============================================================================
