----------------------------- MODULE FrameworkClients -----------------------------
(* A process in which both plugins use the one context: NCCL's proxy thread     *)
(* with several requests in flight, and the training thread with one blocking   *)
(* call after the other. The process may end when the training thread is in no  *)
(* call, whatever NCCL is doing.                                                *)
EXTENDS NcclPlugin, ProcessGroupSML

ASSUME BuffersAssumption == Buffers = NcclBuffers \union TorchBuffers

vars == <<clientVars, ncclVars, torchVars>>

Init ==
  /\ ClientInit /\ NcclInit /\ TorchInit
  /\ mem = [b \in Buffers |->
              IF b \in {"send"} \X Requests THEN Filled(b[2]) ELSE 0]
  /\ live = {"send", "recv"} \X Requests

Exit == ~Busy /\ ContextStops /\ UNCHANGED <<ncclVars, torchVars>>

Jobs == \E j \in JobIds : JobBegins(j) \/ JobFinishes(j)

Next ==
  /\ ~aborted
  /\ \/ Proxy /\ UNCHANGED torchVars
     \/ (Training \/ Gpu) /\ UNCHANGED ncclVars
     \/ Jobs /\ UNCHANGED <<ncclVars, torchVars>>
     \/ Exit

Spec == Init /\ [][Next]_vars

(* Jobs finish while the context runs (JobsFinish of JobScheduler), the GPU runs *)
(* what its streams hold, the training thread goes on in a call, NCCL polls.     *)
FairSpec ==
  /\ Spec
  /\ WF_vars(~aborted /\ state = "RUNNING" /\ Jobs /\ UNCHANGED <<ncclVars, torchVars>>)
  /\ WF_vars(~aborted /\ Gpu /\ UNCHANGED ncclVars)
  /\ \A w \in Works : WF_vars(~aborted /\ Call(w) /\ UNCHANGED ncclVars)
  /\ \A r \in Requests : WF_vars(~aborted /\ ncclSwitchMLTest(r) /\ UNCHANGED torchVars)

-----------------------------------------------------------------------------
(* Properties.                                                                  *)

(* The state has the shape of the code's.                                       *)
TypeOK ==
  /\ state \in {"CREATED", "RUNNING", "STOPPING", "STOPPED"}
  /\ status \in [JobIds -> {"INIT", "QUEUED", "RUNNING", "FINISHED", "FAILED"}]
  /\ live \subseteq Buffers /\ DOMAIN mem = Buffers
  /\ connects \in 0 .. MaxConnects /\ leaked \in 0 .. connects
  /\ \A r \in Requests : request[r].state = "pending" => aborted \/ request[r].job \in JobIds
  /\ \A r \in Requests : TempBuffer(r) \in live <=>
       request[r].state = "pending" /\ request[r].dataType = "ncclUint8"
  /\ \A w \in Works : work[w].at = "waiting" => aborted \/ work[w].sml_job \in JobIds

(* When Test has reported a request as done, the receive buffer that NCCL gave *)
(* holds the sum of all workers, of 8 bits for 8 bit elements, although the    *)
(* job may have worked on another array; a separate send buffer is unchanged.  *)
DoneHoldsSum ==
  \A r \in Requests : request[r].state = "done" =>
    LET q == request[r]
    IN  /\ mem[q.recvData] =
             IF q.dataType = "ncclUint8" THEN SumOf(q.job) % 256 ELSE SumOf(q.job)
        /\ tensor[q.job].value = Filled(r)
        /\ q.recvData # q.sendData => mem[q.sendData] = tensor[q.job].value

(* When the call has returned the tensor holds the sum of what the caller's    *)
(* kernel computed and the others' elements, as long as the caller has it:     *)
(* kernel, copies and submission are on two streams and a thread, and "wait"   *)
(* returns true at once and synchronizes with nothing.                          *)
ReturnedHoldsSum ==
  \A w \in Works :
    work[w].at = "returned" /\ Tensor(w) \in live /\ status[work[w].sml_job] = "FINISHED" =>
      mem[Tensor(w)] = Gradient(w) + sums[work[w].sml_job]

(* No copy of a stream reads or writes memory that is gone.                     *)
CopiesHaveMemory ==
  \A w \in Works : copyIn[w] = "pending" \/ copyOut[w] = "pending" =>
    {Tensor(w), HostTensor(w)} \subseteq live

(* The memory of jobs and copies is there while they need it, and the state has *)
(* its shape.                                                                    *)
Consistent == TypeOK /\ BuffersHeld /\ CopiesHaveMemory

(* Every request and every call comes to its end while the context runs.       *)
CallsEnd ==
  /\ \A r \in Requests :
       (request[r].state = "pending") ~> (request[r].state = "done" \/ state # "RUNNING" \/ aborted)
  /\ \A w \in Works :
       (work[w].at = "synchronize") ~> (work[w].at = "returned" \/ aborted)
=============================================================================
