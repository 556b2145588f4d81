-------------------------- MODULE FrameworkClientsProofs --------------------------
(* That jobs have their memory, and calls their results, whatever the plugins,  *)
(* the GPU and the context do at the same time. Every buffer has a tag and the  *)
(* request or call it belongs to, and a job works on the buffers of the one     *)
(* that submitted it: so the proof is about each request and each call for      *)
(* itself (RequestOk, CallOk), and about jobs that are never without an owner   *)
(* while they run (Owned).                                                      *)
EXTENDS FrameworkClients, TLAPS

Statuses == {"INIT", "QUEUED", "RUNNING", "FINISHED", "FAILED"}

Request ==
  [state : {"none", "refused", "pending", "done"}, dataType : DataTypes \union {"ncclInt32"},
   sendData : Buffers \union {<<>>}, recvData : Buffers \union {<<>>}, job : JobIds \union {0}]

WorkSML ==
  [at : {"none", "computed", "synchronize", "run", "waiting", "copying", "returned"},
   on_cuda : BOOLEAN, sml_job : JobIds \union {0}]

Shapes ==
  /\ state \in {"CREATED", "RUNNING", "STOPPING", "STOPPED"}
  /\ status \in [JobIds -> Statuses]
  /\ tensor = [j \in JobIds |-> tensor[j]] /\ sums = [j \in JobIds |-> sums[j]]
  /\ mem = [b \in Buffers |-> mem[b]] /\ live \subseteq Buffers
  /\ connects \in 0 .. MaxConnects /\ leaked \in 0 .. connects
  /\ request \in [Requests -> Request]
  /\ work \in [Works -> WorkSML]
  /\ kernel \in [Works -> {"none", "pending", "done"}]
  /\ copyIn \in [Works -> {"none", "pending", "done"}]
  /\ copyOut \in [Works -> {"none", "pending", "done"}]

\* The job of a request has its buffers, and they hold what its status says.
RequestJob(r, q) ==
  LET b == JobBuffers(r, q.dataType, q.recvData)
  IN  /\ tensor[q.job] = [in |-> b.in, out |-> b.out, value |-> Filled(r)]
      /\ status[q.job] # "INIT" /\ (q.state = "done" => status[q.job] = "FINISHED")
      /\ status[q.job] # "FINISHED" => mem[b.in] = Filled(r)
      /\ status[q.job] = "FINISHED" /\ q.state = "pending" =>
           mem[b.out] = Filled(r) + sums[q.job]
      /\ q.state = "done" =>
           mem[q.recvData] = IF q.dataType = "ncclUint8" THEN (Filled(r) + sums[q.job]) % 256
                             ELSE Filled(r) + sums[q.job]
      /\ q.recvData # SendBuffer(r) => mem[SendBuffer(r)] = Filled(r)

RequestOk(r) ==
  /\ {SendBuffer(r), RecvBuffer(r)} \subseteq live
  /\ TempBuffer(r) \in live <=>
       request[r].state = "pending" /\ request[r].dataType = "ncclUint8"
  /\ request[r].state \in {"none", "refused"} => mem[SendBuffer(r)] = Filled(r)
  /\ request[r].state \in {"pending", "done"} =>
       /\ request[r].sendData = SendBuffer(r)
       /\ request[r].recvData \in {SendBuffer(r), RecvBuffer(r)}
       /\ request[r].job \in JobIds \/ (request[r].state = "pending" /\ aborted)
       /\ request[r].job \in JobIds => RequestJob(r, request[r])

\* The streams of a call, until its job is submitted.
StreamsOk(w) ==
  LET at == work[w].at
  IN  /\ at \in {"synchronize", "copying"} => work[w].on_cuda
      /\ at \in {"computed", "synchronize", "run"} =>
           /\ kernel[w] = "done" => mem[Tensor(w)] = Gradient(w)
           /\ kernel[w] = "done" \/ (work[w].on_cuda /\ at # "run")
      /\ at \in {"synchronize", "run"} /\ work[w].on_cuda /\ copyIn[w] = "done" =>
           mem[HostTensor(w)] = Gradient(w)
      /\ at = "run" /\ work[w].on_cuda => copyIn[w] = "done"
      /\ kernel[w] = "pending" => at \in {"computed", "synchronize"}
      /\ copyIn[w] = "pending" => at = "synchronize"
      /\ copyIn[w] = "done" /\ at = "synchronize" => kernel[w] = "done"
      /\ copyOut[w] = "pending" => at = "copying"

\* The job of a call, and the copy back.
CallJob(w, j) ==
  /\ tensor[j] = [in |-> DataPtr(w), out |-> DataPtr(w), value |-> Gradient(w)]
  /\ status[j] # "INIT"
  /\ work[w].at # "waiting" => status[j] \in {"FINISHED", "FAILED"}
  /\ status[j] \in {"QUEUED", "RUNNING"} => mem[DataPtr(w)] = Gradient(w)
  /\ status[j] = "FINISHED" => mem[DataPtr(w)] = Gradient(w) + sums[j]
  /\ status[j] = "FINISHED" /\ work[w].at # "waiting" /\ copyOut[w] = "done" /\ work[w].on_cuda =>
       mem[Tensor(w)] = Gradient(w) + sums[j]
  /\ work[w].at = "returned" /\ work[w].on_cuda => copyOut[w] = "done"

CallOk(w) ==
  /\ work[w].at \in {"computed", "synchronize", "run", "waiting", "copying"} => Tensor(w) \in live
  /\ work[w].at \in {"synchronize", "run", "waiting", "copying"} /\ work[w].on_cuda =>
       HostTensor(w) \in live
  /\ StreamsOk(w)
  /\ work[w].at \in {"waiting", "copying", "returned"} =>
       /\ work[w].sml_job \in JobIds \/ (work[w].at = "waiting" /\ aborted)
       /\ work[w].sml_job \in JobIds => CallJob(w, work[w].sml_job)

\* A job that is not decided is the one a request or a call waits for.
Owned ==
  \A j \in JobIds : Service!Undecided(j) =>
    \/ \E r \in Requests : request[r].state = "pending" /\ request[r].job = j
    \/ \E w \in Works : work[w].at = "waiting" /\ work[w].sml_job = j

ClientsInv ==
  /\ Shapes /\ Owned
  /\ \A r \in Requests : RequestOk(r)
  /\ \A w \in Works : CallOk(w)

-----------------------------------------------------------------------------
(* Buffers and their owners                                                     *)

BuffersOf(r) == {SendBuffer(r), RecvBuffer(r), TempBuffer(r)}
BuffersOfCall(w) == {Tensor(w), HostTensor(w)}

\* Buffers with different tags, or of different owners, are different ones.
LEMMA BuffersDiffer ==
  /\ \A r \in Requests :
       /\ BuffersOf(r) \subseteq Buffers
       /\ SendBuffer(r) # RecvBuffer(r) /\ SendBuffer(r) # TempBuffer(r)
       /\ RecvBuffer(r) # TempBuffer(r)
  /\ \A w \in Works : BuffersOfCall(w) \subseteq Buffers /\ Tensor(w) # HostTensor(w)
  /\ \A r, s \in Requests : r # s =>
       \A b \in BuffersOf(r), c \in BuffersOf(s) : b # c
  /\ \A v, w \in Works : v # w =>
       \A b \in BuffersOfCall(v), c \in BuffersOfCall(w) : b # c
  /\ \A r \in Requests, w \in Works :
       \A b \in BuffersOf(r), c \in BuffersOfCall(w) : b # c
<1>1. /\ \A r : /\ SendBuffer(r) = <<"send", r>> /\ RecvBuffer(r) = <<"recv", r>>
                /\ TempBuffer(r) = <<"temp", r>>
                /\ BuffersOf(r) = {<<"send", r>>, <<"recv", r>>, <<"temp", r>>}
      /\ \A w : /\ Tensor(w) = <<"tensor", w>> /\ HostTensor(w) = <<"host", w>>
                /\ BuffersOfCall(w) = {<<"tensor", w>>, <<"host", w>>}
  BY DEF SendBuffer, RecvBuffer, TempBuffer, BuffersOf, Tensor, HostTensor, BuffersOfCall
<1>2. /\ "send" # "recv" /\ "send" # "temp" /\ "recv" # "temp" /\ "tensor" # "host"
      /\ \A a \in {"send", "recv", "temp"} : a # "tensor" /\ a # "host"
  OBVIOUS
<1>3. \A a, b, x, y : <<a, x>> = <<b, y>> => a = b /\ x = y
  OBVIOUS
<1>4. /\ \A r \in Requests : <<"send", r>> \in Buffers /\ <<"recv", r>> \in Buffers
                             /\ <<"temp", r>> \in Buffers
      /\ \A w \in Works : <<"tensor", w>> \in Buffers /\ <<"host", w>> \in Buffers
  BY BuffersAssumption DEF NcclBuffers, TorchBuffers
<1>5. /\ \A r : \A b \in BuffersOf(r) : \E t \in {"send", "recv", "temp"} : b = <<t, r>>
      /\ \A w : \A b \in BuffersOfCall(w) : \E t \in {"tensor", "host"} : b = <<t, w>>
  BY <1>1
<1>6. /\ \A r \in Requests : BuffersOf(r) \subseteq Buffers
      /\ \A w \in Works : BuffersOfCall(w) \subseteq Buffers
  BY <1>1, <1>4
<1>7. /\ \A r : /\ SendBuffer(r) # RecvBuffer(r) /\ SendBuffer(r) # TempBuffer(r)
                /\ RecvBuffer(r) # TempBuffer(r)
      /\ \A w : Tensor(w) # HostTensor(w)
  BY <1>1, <1>2, <1>3
<1>8. \A r, s : r # s => \A b \in BuffersOf(r), c \in BuffersOf(s) : b # c
  BY <1>3, <1>5
<1>9. \A v, w : v # w => \A b \in BuffersOfCall(v), c \in BuffersOfCall(w) : b # c
  BY <1>3, <1>5
<1>10. \A r, w : \A b \in BuffersOf(r), c \in BuffersOfCall(w) : b # c
  BY <1>2, <1>3, <1>5
<1> QED BY <1>6, <1>7, <1>8, <1>9, <1>10

-----------------------------------------------------------------------------
(* Steps that leave an owner alone                                              *)

JobStays(j) ==
  /\ tensor'[j] = tensor[j] /\ sums'[j] = sums[j]
  /\ \/ status'[j] = status[j]
     \/ status[j] \in {"QUEUED", "RUNNING"} /\ status'[j] \in {"RUNNING", "FAILED"}

MemoryStays(bs) == \A b \in bs : mem'[b] = mem[b] /\ (b \in live' <=> b \in live)

RequestStays(r) ==
  /\ request'[r] = request[r] /\ MemoryStays(BuffersOf(r))
  /\ request[r].job \in JobIds /\ request[r].state \in {"pending", "done"} =>
       JobStays(request[r].job)

CallStays(w) ==
  /\ work'[w] = work[w] /\ kernel'[w] = kernel[w]
  /\ copyIn'[w] = copyIn[w] /\ copyOut'[w] = copyOut[w]
  /\ MemoryStays(BuffersOfCall(w))
  /\ /\ work[w].sml_job \in JobIds
     /\ work[w].at \in {"waiting", "copying", "returned"}
     => JobStays(work[w].sml_job)

LEMMA RequestOkStays ==
  ASSUME NEW r \in Requests, RequestOk(r), RequestStays(r), aborted => aborted'
  PROVE  RequestOk(r)'
<1>1. /\ \A b \in BuffersOf(r) : mem'[b] = mem[b] /\ (b \in live' <=> b \in live)
      /\ request'[r] = request[r]
  BY DEF RequestStays, MemoryStays
<1>2. /\ mem'[SendBuffer(r)] = mem[SendBuffer(r)] /\ mem'[RecvBuffer(r)] = mem[RecvBuffer(r)]
      /\ mem'[TempBuffer(r)] = mem[TempBuffer(r)]
      /\ (SendBuffer(r) \in live' <=> SendBuffer(r) \in live)
      /\ (RecvBuffer(r) \in live' <=> RecvBuffer(r) \in live)
      /\ (TempBuffer(r) \in live' <=> TempBuffer(r) \in live)
  BY <1>1 DEF BuffersOf
<1>3. ASSUME request[r].state \in {"pending", "done"}, request[r].job \in JobIds
      PROVE  RequestJob(r, request[r])'
  <2>1. /\ RequestJob(r, request[r]) /\ JobStays(request[r].job)
        /\ request[r].recvData \in {SendBuffer(r), RecvBuffer(r)}
    BY <1>3 DEF RequestOk, RequestStays
  <2>2. PICK q : q = request[r]
    OBVIOUS
  <2>3. PICK b : b = JobBuffers(r, q.dataType, q.recvData)
    OBVIOUS
  <2>4. b.in \in BuffersOf(r) /\ b.out \in BuffersOf(r) /\ q.recvData \in BuffersOf(r)
    BY <2>1, <2>2, <2>3 DEF JobBuffers, BuffersOf
  <2>5. mem'[b.in] = mem[b.in] /\ mem'[b.out] = mem[b.out] /\ mem'[q.recvData] = mem[q.recvData]
    BY <1>1, <2>4
  <2>6. RequestJob(r, q)'
    BY <1>2, <2>1, <2>2, <2>3, <2>5 DEF RequestJob, JobStays
  <2> QED BY <1>1, <2>2, <2>6
<1> QED BY <1>1, <1>2, <1>3 DEF RequestOk

LEMMA CallOkStays ==
  ASSUME NEW w \in Works, CallOk(w), CallStays(w), aborted => aborted'
  PROVE  CallOk(w)'
<1>1. /\ mem'[Tensor(w)] = mem[Tensor(w)] /\ mem'[HostTensor(w)] = mem[HostTensor(w)]
      /\ (Tensor(w) \in live' <=> Tensor(w) \in live)
      /\ (HostTensor(w) \in live' <=> HostTensor(w) \in live)
      /\ work'[w] = work[w] /\ kernel'[w] = kernel[w]
      /\ copyIn'[w] = copyIn[w] /\ copyOut'[w] = copyOut[w]
  BY DEF CallStays, MemoryStays, BuffersOfCall
<1>2. StreamsOk(w)'
  BY <1>1 DEF StreamsOk, CallOk
<1>3. ASSUME work[w].at \in {"waiting", "copying", "returned"}, work[w].sml_job \in JobIds
      PROVE  CallJob(w, work[w].sml_job)'
  <2>1. CallJob(w, work[w].sml_job) /\ JobStays(work[w].sml_job)
    BY <1>3 DEF CallOk, CallStays
  <2>2. PICK j : j = work[w].sml_job
    OBVIOUS
  <2>3. DataPtr(w)' = DataPtr(w) /\ mem'[DataPtr(w)] = mem[DataPtr(w)]
    BY <1>1 DEF DataPtr
  <2>4. CallJob(w, j)'
    BY <1>1, <2>1, <2>2, <2>3 DEF CallJob, JobStays
  <2> QED BY <1>1, <2>2, <2>4
<1> QED BY <1>1, <1>2, <1>3 DEF CallOk

\* Nobody's step, or only the context's.
LEMMA QuietStep ==
  ASSUME ClientsInv, Shapes', UNCHANGED <<request, work, kernel, copyIn, copyOut, mem, live>>,
         aborted => aborted', \A j \in JobIds : JobStays(j)
  PROVE  ClientsInv'
<1>1. \A r \in Requests : RequestOk(r)'
  BY RequestOkStays DEF ClientsInv, RequestStays, MemoryStays
<1>2. \A w \in Works : CallOk(w)'
  BY CallOkStays DEF ClientsInv, CallStays, MemoryStays
<1>3. Owned'
  BY DEF ClientsInv, Owned, Service!Undecided, JobStays
<1> QED BY <1>1, <1>2, <1>3 DEF ClientsInv

\* A step of one owner.
LEMMA OneRequests ==
  ASSUME ClientsInv, Shapes', Owned', NEW r \in Requests, RequestOk(r)', aborted => aborted',
         \A s \in Requests \ {r} : RequestStays(s), \A w \in Works : CallStays(w)
  PROVE  ClientsInv'
<1>1. \A s \in Requests : RequestOk(s)'
  BY RequestOkStays DEF ClientsInv
<1>2. \A w \in Works : CallOk(w)'
  BY CallOkStays DEF ClientsInv
<1> QED BY <1>1, <1>2 DEF ClientsInv

LEMMA OneCalls ==
  ASSUME ClientsInv, Shapes', Owned', NEW w \in Works, CallOk(w)', aborted => aborted',
         \A r \in Requests : RequestStays(r), \A v \in Works \ {w} : CallStays(v)
  PROVE  ClientsInv'
<1>1. \A s \in Requests : RequestOk(s)'
  BY RequestOkStays DEF ClientsInv
<1>2. \A v \in Works : CallOk(v)'
  BY CallOkStays DEF ClientsInv
<1> QED BY <1>1, <1>2 DEF ClientsInv

\* The memory that r or w writes is nobody else's.
LEMMA OthersMemory ==
  ASSUME NEW bs,
         \A b \in Buffers : b \in bs \/ (mem'[b] = mem[b] /\ (b \in live' <=> b \in live))
  PROVE  /\ \A r \in Requests : bs \subseteq BuffersOf(r) =>
              /\ \A s \in Requests \ {r} : MemoryStays(BuffersOf(s))
              /\ \A w \in Works : MemoryStays(BuffersOfCall(w))
         /\ \A w \in Works : bs \subseteq BuffersOfCall(w) =>
              /\ \A v \in Works \ {w} : MemoryStays(BuffersOfCall(v))
              /\ \A r \in Requests : MemoryStays(BuffersOf(r))
<1>1. ASSUME NEW cs, cs \subseteq Buffers, \A b \in bs, c \in cs : b # c
      PROVE  MemoryStays(cs)
  BY <1>1 DEF MemoryStays
<1>2. ASSUME NEW r \in Requests, bs \subseteq BuffersOf(r)
      PROVE  /\ \A s \in Requests \ {r} : MemoryStays(BuffersOf(s))
             /\ \A w \in Works : MemoryStays(BuffersOfCall(w))
  <2>1. ASSUME NEW s \in Requests \ {r} PROVE MemoryStays(BuffersOf(s))
    <3>1. \A b \in bs, c \in BuffersOf(s) : b # c
      BY <1>2, BuffersDiffer
    <3> QED BY <1>1, <3>1, BuffersDiffer
  <2>2. ASSUME NEW w \in Works PROVE MemoryStays(BuffersOfCall(w))
    <3>1. \A b \in bs, c \in BuffersOfCall(w) : b # c
      BY <1>2, BuffersDiffer
    <3> QED BY <1>1, <3>1, BuffersDiffer
  <2> QED BY <2>1, <2>2
<1>3. ASSUME NEW w \in Works, bs \subseteq BuffersOfCall(w)
      PROVE  /\ \A v \in Works \ {w} : MemoryStays(BuffersOfCall(v))
             /\ \A r \in Requests : MemoryStays(BuffersOf(r))
  <2>1. ASSUME NEW v \in Works \ {w} PROVE MemoryStays(BuffersOfCall(v))
    <3>1. \A b \in bs, c \in BuffersOfCall(v) : b # c
      BY <1>3, BuffersDiffer
    <3> QED BY <1>1, <3>1, BuffersDiffer
  <2>2. ASSUME NEW r \in Requests PROVE MemoryStays(BuffersOf(r))
    <3>1. \A b \in bs, c \in BuffersOf(r) : b # c
      BY <1>3, BuffersDiffer
    <3> QED BY <1>1, <3>1, BuffersDiffer
  <2> QED BY <2>1, <2>2
<1> QED BY <1>2, <1>3

-----------------------------------------------------------------------------
(* The context                                                                  *)

LEMMA InitClients == Init => ClientsInv
<1> SUFFICES ASSUME Init PROVE ClientsInv
  OBVIOUS
<1>1. /\ state = "CREATED" /\ status = [j \in JobIds |-> "INIT"]
      /\ tensor = [j \in JobIds |-> NoTensor] /\ sums = [j \in JobIds |-> 0]
      /\ connects = 0 /\ leaked = 0 /\ MaxConnects \in Nat
      /\ request = [r \in Requests |-> NoRequest] /\ work = [w \in Works |-> NoWork]
      /\ kernel = [w \in Works |-> "none"] /\ copyIn = [w \in Works |-> "none"]
      /\ copyOut = [w \in Works |-> "none"] /\ live = {"send", "recv"} \X Requests
      /\ mem = [b \in Buffers |-> IF b \in {"send"} \X Requests THEN Filled(b[2]) ELSE 0]
  BY NcclAssumption DEF Init, ClientInit, NcclInit, TorchInit, Service!Init
<1>2. Shapes
  <2>1. live \subseteq Buffers
    BY <1>1, BuffersAssumption DEF NcclBuffers
  <2>2. NoRequest \in Request /\ NoWork \in WorkSML
    BY DEF NoRequest, NoWork, Request, WorkSML
  <2>3. /\ tensor = [j \in JobIds |-> tensor[j]] /\ sums = [j \in JobIds |-> sums[j]]
        /\ mem = [b \in Buffers |-> mem[b]]
    BY <1>1
  <2> QED BY <1>1, <2>1, <2>2, <2>3 DEF Shapes, Statuses
<1>3. \A r \in Requests : RequestOk(r)
  <2> TAKE r \in Requests
  <2>1. /\ SendBuffer(r) \in live /\ RecvBuffer(r) \in live /\ TempBuffer(r) \notin live
        /\ SendBuffer(r) \in {"send"} \X Requests /\ SendBuffer(r)[2] = r
    BY <1>1 DEF SendBuffer, RecvBuffer, TempBuffer
  <2>2. mem[SendBuffer(r)] = Filled(r)
    BY <1>1, <2>1, BuffersDiffer DEF BuffersOf
  <2> QED BY <1>1, <2>1, <2>2 DEF RequestOk, NoRequest
<1>4. \A w \in Works : CallOk(w)
  BY <1>1 DEF CallOk, StreamsOk, NoWork
<1>5. Owned
  BY <1>1 DEF Owned, Service!Undecided
<1> QED BY <1>2, <1>3, <1>4, <1>5 DEF ClientsInv

\* The context starts with the first plugin.
LEMMA StartsContext ==
  ASSUME ClientsInv, StartContext
  PROVE  /\ state' \in {"CREATED", "RUNNING", "STOPPING", "STOPPED"}
         /\ UNCHANGED status
BY DEF StartContext, Service!Start, ClientsInv, Shapes

LEMMA ExitClients ==
  ASSUME ClientsInv, Exit
  PROVE  ClientsInv'
<1>1. UNCHANGED <<request, work, kernel, copyIn, copyOut, mem, live, aborted, tensor, sums,
                  connects, leaked>>
  BY DEF Exit, ContextStops, ncclVars, torchVars
<1>2. /\ state' \in {"CREATED", "RUNNING", "STOPPING", "STOPPED"}
      /\ \/ UNCHANGED status
         \/ \E jobs \in SUBSET JobIds :
              /\ \A j \in jobs : status[j] \in {"QUEUED", "RUNNING"}
              /\ status' = [j \in JobIds |-> IF j \in jobs THEN "FAILED" ELSE status[j]]
  <2>1. {j \in JobIds : Service!Undecided(j)} \in SUBSET JobIds
    OBVIOUS
  <2> QED BY <2>1 DEF Exit, ContextStops, Service!BeginStop, Service!Drop, Service!EndStop,
                     Service!Undecided, ClientsInv, Shapes
<1>3. \A j \in JobIds : JobStays(j)
  BY <1>1, <1>2 DEF JobStays
<1>4. status' \in [JobIds -> Statuses]
  BY <1>2 DEF ClientsInv, Shapes, Statuses
<1>5. Shapes'
  BY <1>1, <1>2, <1>4 DEF ClientsInv, Shapes
<1> QED BY <1>1, <1>3, <1>5, QuietStep

LEMMA JobBeginsClients ==
  ASSUME ClientsInv, NEW j \in JobIds, JobBegins(j), UNCHANGED <<ncclVars, torchVars>>
  PROVE  ClientsInv'
<1>1. /\ UNCHANGED <<request, work, kernel, copyIn, copyOut, mem, live, aborted, tensor, sums,
                     connects, leaked, state>>
      /\ status' = [status EXCEPT ![j] = "RUNNING"] /\ status[j] = "QUEUED"
  BY DEF JobBegins, Service!Begin, Service!SetStatus, ncclVars, torchVars
<1>2. status' \in [JobIds -> Statuses] /\ \A k \in JobIds : JobStays(k)
  BY <1>1 DEF JobStays, Statuses, ClientsInv, Shapes
<1>3. Shapes'
  BY <1>1, <1>2 DEF ClientsInv, Shapes
<1> QED BY <1>1, <1>2, <1>3, QuietStep

\* A job works on the buffers of its owner, so it has one.
LEMMA JobsOfRequests ==
  ASSUME NEW r \in Requests, RequestOk(r), request[r].state \in {"pending", "done"},
         request[r].job \in JobIds
  PROVE  /\ tensor[request[r].job].in \in BuffersOf(r) /\ tensor[request[r].job].out \in BuffersOf(r)
         /\ status[request[r].job] # "INIT"
BY DEF RequestOk, RequestJob, JobBuffers, BuffersOf

LEMMA JobsOfCalls ==
  ASSUME NEW w \in Works, CallOk(w), work[w].at \in {"waiting", "copying", "returned"},
         work[w].sml_job \in JobIds
  PROVE  /\ tensor[work[w].sml_job].in \in BuffersOfCall(w)
         /\ tensor[work[w].sml_job].out \in BuffersOfCall(w)
         /\ status[work[w].sml_job] # "INIT"
BY DEF CallOk, CallJob, DataPtr, BuffersOfCall

LEMMA OtherOwners ==
  ASSUME ClientsInv, NEW j \in JobIds, \A k \in JobIds \ {j} : JobStays(k)
  PROVE  /\ \A r \in Requests, s \in Requests :
              r # s /\ tensor[j].in \in BuffersOf(r) /\ request'[s] = request[s]
              /\ MemoryStays(BuffersOf(s)) => RequestStays(s)
         /\ \A r \in Requests, w \in Works :
              tensor[j].in \in BuffersOf(r) /\ work'[w] = work[w] /\ kernel'[w] = kernel[w]
              /\ copyIn'[w] = copyIn[w] /\ copyOut'[w] = copyOut[w]
              /\ MemoryStays(BuffersOfCall(w)) => CallStays(w)
         /\ \A w \in Works, v \in Works :
              w # v /\ tensor[j].in \in BuffersOfCall(w) /\ work'[v] = work[v]
              /\ kernel'[v] = kernel[v] /\ copyIn'[v] = copyIn[v] /\ copyOut'[v] = copyOut[v]
              /\ MemoryStays(BuffersOfCall(v)) => CallStays(v)
         /\ \A w \in Works, r \in Requests :
              tensor[j].in \in BuffersOfCall(w) /\ request'[r] = request[r]
              /\ MemoryStays(BuffersOf(r)) => RequestStays(r)
<1>1. \A r \in Requests : request[r].job \in JobIds /\ request[r].state \in {"pending", "done"} =>
        tensor[request[r].job].in \in BuffersOf(r)
  BY JobsOfRequests DEF ClientsInv
<1>2. \A w \in Works : work[w].sml_job \in JobIds /\ work[w].at \in {"waiting", "copying", "returned"} =>
        tensor[work[w].sml_job].in \in BuffersOfCall(w)
  BY JobsOfCalls DEF ClientsInv
<1>3. ASSUME NEW s \in Requests, tensor[j].in \notin BuffersOf(s), request'[s] = request[s],
             MemoryStays(BuffersOf(s))
      PROVE  RequestStays(s)
  BY <1>1, <1>3 DEF RequestStays
<1>4. ASSUME NEW v \in Works, tensor[j].in \notin BuffersOfCall(v), work'[v] = work[v],
             kernel'[v] = kernel[v], copyIn'[v] = copyIn[v], copyOut'[v] = copyOut[v],
             MemoryStays(BuffersOfCall(v))
      PROVE  CallStays(v)
  BY <1>2, <1>4 DEF CallStays
<1>5. /\ \A r, s \in Requests : r # s => ~(tensor[j].in \in BuffersOf(r) /\ tensor[j].in \in BuffersOf(s))
      /\ \A v, w \in Works : v # w =>
           ~(tensor[j].in \in BuffersOfCall(v) /\ tensor[j].in \in BuffersOfCall(w))
      /\ \A r \in Requests, w \in Works :
           ~(tensor[j].in \in BuffersOf(r) /\ tensor[j].in \in BuffersOfCall(w))
  BY BuffersDiffer
<1> QED BY <1>3, <1>4, <1>5

LEMMA JobFinishesClients ==
  ASSUME ClientsInv, NEW j \in JobIds, JobFinishes(j), UNCHANGED <<ncclVars, torchVars>>
  PROVE  ClientsInv'
<1>1. PICK others \in Others :
        /\ sums' = [sums EXCEPT ![j] = others]
        /\ mem' = [mem EXCEPT ![tensor[j].out] = mem[tensor[j].in] + others]
        /\ status' = [status EXCEPT ![j] = "FINISHED"] /\ status[j] = "RUNNING"
        /\ UNCHANGED <<request, work, kernel, copyIn, copyOut, live, aborted, tensor,
                       connects, leaked, state>>
  BY DEF JobFinishes, Service!Finish, Service!SetStatus, ncclVars, torchVars
<1>2. /\ status' \in [JobIds -> Statuses] /\ \A k \in JobIds \ {j} : JobStays(k)
      /\ sums' = [k \in JobIds |-> sums'[k]] /\ mem' = [b \in Buffers |-> mem'[b]]
      /\ status'[j] = "FINISHED" /\ sums'[j] = others
      /\ \A b \in Buffers : mem'[b] = IF b = tensor[j].out THEN mem[tensor[j].in] + others
                                      ELSE mem[b]
  BY <1>1 DEF JobStays, Statuses, ClientsInv, Shapes
<1>3. Shapes'
  BY <1>1, <1>2 DEF ClientsInv, Shapes
<1>4. Owned'
  BY <1>1, <1>2 DEF Owned, ClientsInv, Service!Undecided, JobStays
<1>5. ASSUME NEW r \in Requests, request[r].state = "pending", request[r].job = j
      PROVE  ClientsInv'
  <2>1. PICK q : q = request[r]
    OBVIOUS
  <2>2. PICK b : b = JobBuffers(r, q.dataType, q.recvData)
    OBVIOUS
  <2>3. /\ tensor[j] = [in |-> b.in, out |-> b.out, value |-> Filled(r)]
        /\ mem[b.in] = Filled(r) /\ (q.recvData # SendBuffer(r) => mem[SendBuffer(r)] = Filled(r))
        /\ q.recvData \in {SendBuffer(r), RecvBuffer(r)} /\ q.sendData = SendBuffer(r)
        /\ q.state = "pending" /\ q.job = j /\ RequestOk(r)
    BY <1>1, <1>5, <2>1, <2>2 DEF ClientsInv, RequestOk, RequestJob
  <2>4. /\ b.in \in BuffersOf(r) /\ b.out \in BuffersOf(r) /\ BuffersOf(r) \subseteq Buffers
        /\ SendBuffer(r) \in Buffers
        /\ q.recvData # SendBuffer(r) => b.out # SendBuffer(r)
    BY <2>2, <2>3, BuffersDiffer DEF JobBuffers, BuffersOf
  <2>5. /\ \A s \in Requests \ {r} : MemoryStays(BuffersOf(s))
        /\ \A w \in Works : MemoryStays(BuffersOfCall(w))
    <3>1. PICK bs : bs = {b.out}
      OBVIOUS
    <3>2. bs \subseteq BuffersOf(r)
      BY <2>4, <3>1
    <3>3. \A c \in Buffers : c \in bs \/ (mem'[c] = mem[c] /\ (c \in live' <=> c \in live))
      BY <1>1, <1>2, <2>3, <3>1
    <3> QED BY <3>2, <3>3, OthersMemory
  <2>6. /\ \A s \in Requests \ {r} : RequestStays(s)
        /\ \A w \in Works : CallStays(w)
    BY <1>1, <1>2, <2>3, <2>4, <2>5, OtherOwners
  <2>7. mem'[b.out] = Filled(r) + others /\ (q.recvData # SendBuffer(r) => mem'[SendBuffer(r)] = Filled(r))
    BY <1>2, <2>3, <2>4
  <2>8. RequestJob(r, q)'
    BY <1>1, <1>2, <2>2, <2>3, <2>7 DEF RequestJob
  <2>9. RequestOk(r)'
    BY <1>1, <2>1, <2>3, <2>8 DEF RequestOk
  <2> QED BY <1>1, <1>3, <1>4, <2>6, <2>9, OneRequests
<1>6. ASSUME NEW w \in Works, work[w].at = "waiting", work[w].sml_job = j
      PROVE  ClientsInv'
  <2>1. PICK d : d = DataPtr(w)
    OBVIOUS
  <2>2. /\ tensor[j] = [in |-> d, out |-> d, value |-> Gradient(w)] /\ mem[d] = Gradient(w)
        /\ CallOk(w)
    BY <1>1, <1>6, <2>1 DEF ClientsInv, CallOk, CallJob
  <2>3. d \in BuffersOfCall(w) /\ BuffersOfCall(w) \subseteq Buffers /\ DataPtr(w)' = d
    BY <1>1, <2>1, BuffersDiffer DEF DataPtr, BuffersOfCall
  <2>4. /\ \A v \in Works \ {w} : MemoryStays(BuffersOfCall(v))
        /\ \A r \in Requests : MemoryStays(BuffersOf(r))
    <3>1. PICK bs : bs = {d}
      OBVIOUS
    <3>2. bs \subseteq BuffersOfCall(w)
      BY <2>3, <3>1
    <3>3. \A c \in Buffers : c \in bs \/ (mem'[c] = mem[c] /\ (c \in live' <=> c \in live))
      BY <1>1, <1>2, <2>2, <3>1
    <3> QED BY <3>2, <3>3, OthersMemory
  <2>5. /\ \A v \in Works \ {w} : CallStays(v)
        /\ \A r \in Requests : RequestStays(r)
    BY <1>1, <1>2, <2>2, <2>3, <2>4, OtherOwners
  <2>6. mem'[d] = Gradient(w) + others
    BY <1>2, <2>2, <2>3
  <2>7. CallJob(w, j)'
    BY <1>1, <1>2, <1>6, <2>2, <2>3, <2>6 DEF CallJob
  <2>8. StreamsOk(w)'
    BY <1>1, <1>6, <2>2 DEF CallOk, StreamsOk
  <2>9. CallOk(w)'
    BY <1>1, <1>6, <2>2, <2>7, <2>8 DEF CallOk
  <2> QED BY <1>1, <1>3, <1>4, <2>5, <2>9, OneCalls
<1>7. Service!Undecided(j)
  BY <1>1 DEF Service!Undecided
<1> QED BY <1>5, <1>6, <1>7 DEF ClientsInv, Owned

\* AllReduceAsync gives the next job its buffers, or ends the process.
LEMMA Submits ==
  ASSUME ClientsInv, NEW in, NEW out, NEW m, AllReduceAsync(in, out, m), NEW n, n = NextJob
  PROVE  \/ /\ state = "RUNNING" /\ n \in JobIds /\ status[n] = "INIT"
            /\ status' = [status EXCEPT ![n] = "QUEUED"]
            /\ tensor' = [tensor EXCEPT ![n] = [in |-> in, out |-> out, value |-> m[in]]]
            /\ UNCHANGED <<state, sums, aborted>>
            /\ \A j \in JobIds \ {n} : JobStays(j)
            /\ status'[n] = "QUEUED" /\ status' \in [JobIds -> Statuses]
            /\ tensor'[n] = [in |-> in, out |-> out, value |-> m[in]]
            /\ tensor' = [j \in JobIds |-> tensor'[j]]
         \/ state # "RUNNING" /\ aborted' /\ UNCHANGED <<state, status, tensor, sums>>
<1>1. CASE state = "RUNNING"
  <2>1. /\ n \in JobIds /\ status[n] = "INIT"
        /\ status' = [status EXCEPT ![n] = "QUEUED"]
        /\ tensor' = [tensor EXCEPT ![n] = [in |-> in, out |-> out, value |-> m[in]]]
        /\ UNCHANGED <<state, sums, aborted>>
    BY <1>1 DEF AllReduceAsync, Service!Submit, Service!SetStatus
  <2>2. /\ status'[n] = "QUEUED" /\ status' \in [JobIds -> Statuses]
        /\ tensor'[n] = [in |-> in, out |-> out, value |-> m[in]]
        /\ tensor' = [j \in JobIds |-> tensor'[j]]
        /\ \A j \in JobIds \ {n} : JobStays(j)
    BY <2>1 DEF ClientsInv, Shapes, Statuses, JobStays
  <2> QED BY <1>1, <2>1, <2>2
<1>2. CASE state # "RUNNING"
  BY <1>2 DEF AllReduceAsync, contextVars
<1> QED BY <1>1, <1>2

\* The jobs of the others are not new.
LEMMA OthersSubmitted ==
  ASSUME ClientsInv, \A j \in JobIds : status[j] # "INIT" => JobStays(j)
  PROVE  /\ \A r \in Requests : request'[r] = request[r] /\ MemoryStays(BuffersOf(r))
                                  => RequestStays(r)
         /\ \A w \in Works : /\ work'[w] = work[w] /\ kernel'[w] = kernel[w]
                             /\ copyIn'[w] = copyIn[w] /\ copyOut'[w] = copyOut[w]
                             /\ MemoryStays(BuffersOfCall(w))
                             => CallStays(w)
<1>1. \A r \in Requests : request'[r] = request[r] /\ MemoryStays(BuffersOf(r)) => RequestStays(r)
  BY JobsOfRequests DEF ClientsInv, RequestStays
<1>2. \A w \in Works : /\ work'[w] = work[w] /\ kernel'[w] = kernel[w]
                       /\ copyIn'[w] = copyIn[w] /\ copyOut'[w] = copyOut[w]
                       /\ MemoryStays(BuffersOfCall(w))
                       => CallStays(w)
  BY JobsOfCalls DEF ClientsInv, CallStays
<1> QED BY <1>1, <1>2

-----------------------------------------------------------------------------
(* NCCL                                                                         *)

LEMMA IallreduceClients ==
  ASSUME ClientsInv, ~aborted, NEW r \in Requests, NEW type \in DataTypes, NEW op,
         ncclSwitchMLIallreduce(r, type, op), UNCHANGED torchVars
  PROVE  ClientsInv'
<1>1. /\ request[r].state = "none" /\ mem[SendBuffer(r)] = Filled(r) /\ RequestOk(r)
      /\ UNCHANGED <<connects, leaked, work, kernel, copyIn, copyOut>>
  BY DEF ncclSwitchMLIallreduce, torchVars, ClientsInv, RequestOk
<1>2. request \in [Requests -> Request]
  BY DEF ClientsInv, Shapes
<1>3. CASE ~ncclSwitchMLReduceSupport(type, op)
  <2>1. /\ request' = [request EXCEPT ![r].state = "refused"]
        /\ UNCHANGED <<state, status, tensor, sums, mem, live, aborted>>
    BY <1>3 DEF ncclSwitchMLIallreduce, clientVars, contextVars
  <2>2. \A j \in JobIds : JobStays(j)
    BY <2>1 DEF JobStays
  <2>3. /\ request'[r].state = "refused" /\ request' \in [Requests -> Request]
        /\ \A s \in Requests \ {r} : request'[s] = request[s]
    BY <1>2, <2>1 DEF Request
  <2>4. Shapes'
    BY <1>1, <2>1, <2>3 DEF ClientsInv, Shapes
  <2>5. Owned'
    BY <1>1, <2>1, <2>3 DEF Owned, ClientsInv, Service!Undecided
  <2>6. RequestOk(r)'
    BY <1>1, <2>1, <2>3 DEF RequestOk
  <2>7. /\ \A s \in Requests \ {r} : RequestStays(s)
        /\ \A w \in Works : CallStays(w)
    BY <1>1, <2>1, <2>2, <2>3, OthersSubmitted DEF MemoryStays
  <2> QED BY <2>1, <2>4, <2>5, <2>6, <2>7, OneRequests
<1>4. CASE ncclSwitchMLReduceSupport(type, op)
  <2>1. PICK n : n = NextJob
    OBVIOUS
  <2>2. PICK recv \in {SendBuffer(r), RecvBuffer(r)} :
          LET b == JobBuffers(r, type, recv)
          IN  /\ request' = [request EXCEPT ![r] =
                   [state |-> "pending", dataType |-> type, sendData |-> SendBuffer(r),
                    recvData |-> recv, job |-> IF state = "RUNNING" THEN n ELSE 0]]
              /\ live' = live \union {b.in}
              /\ mem' = [mem EXCEPT ![b.in] = mem[SendBuffer(r)]]
              /\ AllReduceAsync(b.in, b.out, mem')
    BY <1>4, <2>1 DEF ncclSwitchMLIallreduce
  <2>3. PICK b : b = JobBuffers(r, type, recv)
    OBVIOUS
  <2>4. PICK q : q = [state |-> "pending", dataType |-> type, sendData |-> SendBuffer(r),
                      recvData |-> recv, job |-> IF state = "RUNNING" THEN n ELSE 0]
    OBVIOUS
  <2>5. /\ request' = [request EXCEPT ![r] = q] /\ live' = live \union {b.in}
        /\ mem' = [mem EXCEPT ![b.in] = mem[SendBuffer(r)]]
        /\ AllReduceAsync(b.in, b.out, mem')
    BY <2>2, <2>3, <2>4
  <2>6. /\ b.in \in {SendBuffer(r), TempBuffer(r)} /\ BuffersOf(r) \subseteq Buffers
        /\ b.in \in BuffersOf(r) /\ b.out \in BuffersOf(r)
        /\ recv \in Buffers /\ SendBuffer(r) \in Buffers
        /\ b.in = TempBuffer(r) <=> type = "ncclUint8"
        /\ SendBuffer(r) # TempBuffer(r)
    BY <2>3, BuffersDiffer DEF JobBuffers, BuffersOf
  <2>7. /\ mem'[b.in] = Filled(r) /\ mem'[SendBuffer(r)] = Filled(r)
        /\ mem' = [c \in Buffers |-> mem'[c]]
        /\ \A c \in Buffers : c # b.in => mem'[c] = mem[c] /\ (c \in live' <=> c \in live)
        /\ live' \subseteq Buffers
    BY <1>1, <2>5, <2>6 DEF ClientsInv, Shapes
  <2>8. \/ /\ state = "RUNNING" /\ n \in JobIds /\ status[n] = "INIT" /\ status'[n] = "QUEUED"
           /\ UNCHANGED <<state, sums, aborted>>
           /\ \A j \in JobIds \ {n} : JobStays(j)
           /\ status' \in [JobIds -> Statuses] /\ tensor' = [j \in JobIds |-> tensor'[j]]
           /\ tensor'[n] = [in |-> b.in, out |-> b.out, value |-> Filled(r)]
        \/ state # "RUNNING" /\ aborted' /\ UNCHANGED <<state, status, tensor, sums>>
    BY <2>1, <2>5, <2>7, Submits
  <2>9. /\ q.state = "pending" /\ q.dataType = type /\ q.sendData = SendBuffer(r)
        /\ q.recvData = recv /\ q.job = IF state = "RUNNING" THEN n ELSE 0
        /\ q \in Request
    <3>1. (IF state = "RUNNING" THEN n ELSE 0) \in JobIds \union {0}
      BY <2>8
    <3> QED BY <2>4, <2>6, <3>1 DEF Request
  <2>10. /\ request'[r] = q /\ request' \in [Requests -> Request]
         /\ \A s \in Requests \ {r} : request'[s] = request[s]
    BY <1>2, <2>5, <2>9
  <2>11. Shapes'
    BY <1>1, <2>7, <2>8, <2>10 DEF ClientsInv, Shapes
  <2>12. Owned'
    <3> SUFFICES ASSUME NEW j \in JobIds, Service!Undecided(j)'
                 PROVE  \/ \E s \in Requests : request'[s].state = "pending" /\ request'[s].job = j
                        \/ \E w \in Works : work'[w].at = "waiting" /\ work'[w].sml_job = j
      BY DEF Owned
    <3>1. CASE state = "RUNNING" /\ j = n
      BY <2>9, <2>10, <3>1
    <3>2. CASE state # "RUNNING" \/ j # n
      <4>1. status'[j] = status[j] \/ status[j] \in {"QUEUED", "RUNNING"}
        BY <2>8, <3>2 DEF JobStays
      <4>2. Service!Undecided(j)
        BY <4>1 DEF Service!Undecided
      <4> QED BY <1>1, <2>10, <4>2 DEF ClientsInv, Owned
    <3> QED BY <3>1, <3>2
  <2>13. /\ \A s \in Requests \ {r} : MemoryStays(BuffersOf(s))
         /\ \A w \in Works : MemoryStays(BuffersOfCall(w))
    <3>1. PICK bs : bs = {b.in}
      OBVIOUS
    <3>2. bs \subseteq BuffersOf(r)
      BY <2>6, <3>1
    <3>3. \A c \in Buffers : c \in bs \/ (mem'[c] = mem[c] /\ (c \in live' <=> c \in live))
      BY <2>7, <3>1
    <3> QED BY <3>2, <3>3, OthersMemory
  <2>14. /\ \A s \in Requests \ {r} : RequestStays(s)
         /\ \A w \in Works : CallStays(w)
    <3>1. \A j \in JobIds : status[j] # "INIT" => JobStays(j)
      BY <2>8 DEF JobStays
    <3> QED BY <1>1, <2>10, <2>13, <3>1, OthersSubmitted
  <2>15. ASSUME q.job \in JobIds
         PROVE  RequestJob(r, q)'
    <3>1. state = "RUNNING" /\ q.job = n
      BY <2>8, <2>9, <2>15 DEF JobIds
    <3> QED BY <2>3, <2>7, <2>8, <2>9, <3>1 DEF RequestJob
  <2>16. RequestOk(r)'
    <3>1. /\ SendBuffer(r) \in live' /\ RecvBuffer(r) \in live'
          /\ (TempBuffer(r) \in live' <=> type = "ncclUint8")
      BY <1>1, <2>5, <2>6 DEF RequestOk
    <3>2. q.job \in JobIds \/ aborted'
      BY <2>8, <2>9
    <3> QED BY <2>9, <2>10, <2>15, <3>1, <3>2 DEF RequestOk
  <2> QED BY <2>8, <2>11, <2>12, <2>14, <2>16, OneRequests
<1> QED BY <1>3, <1>4

LEMMA TestClients ==
  ASSUME ClientsInv, ~aborted, NEW r \in Requests, ncclSwitchMLTest(r), UNCHANGED torchVars
  PROVE  ClientsInv'
<1>1. PICK q : q = request[r]
  OBVIOUS
<1>2. /\ q.state = "pending" /\ status[q.job] = "FINISHED"
      /\ request' = [request EXCEPT ![r].state = "done"]
      /\ UNCHANGED <<state, status, tensor, sums, connects, leaked, aborted,
                     work, kernel, copyIn, copyOut>>
  BY <1>1 DEF ncclSwitchMLTest, IsFinished, contextVars, torchVars
<1>3. RequestOk(r) /\ request \in [Requests -> Request] /\ q \in Request
  BY <1>1 DEF ClientsInv, Shapes
<1>4. /\ request' = [request EXCEPT ![r] = [q EXCEPT !.state = "done"]]
  BY <1>1, <1>2
<1>5. PICK p : p = [q EXCEPT !.state = "done"]
  OBVIOUS
<1>6. /\ p.state = "done" /\ p.dataType = q.dataType /\ p.sendData = q.sendData
      /\ p.recvData = q.recvData /\ p.job = q.job /\ p \in Request
  BY <1>3, <1>5 DEF Request
<1>7. /\ request'[r] = p /\ request' \in [Requests -> Request]
      /\ \A s \in Requests \ {r} : request'[s] = request[s]
  BY <1>3, <1>4, <1>5, <1>6
<1>8. /\ q.job \in JobIds /\ RequestJob(r, q) /\ q.sendData = SendBuffer(r)
      /\ q.recvData \in {SendBuffer(r), RecvBuffer(r)}
  BY <1>1, <1>2, <1>3 DEF RequestOk
<1>9. PICK b : b = JobBuffers(r, q.dataType, q.recvData)
  OBVIOUS
<1>10. /\ mem[b.out] = Filled(r) + sums[q.job]
       /\ tensor[q.job] = [in |-> b.in, out |-> b.out, value |-> Filled(r)]
       /\ q.recvData # SendBuffer(r) => mem[SendBuffer(r)] = Filled(r)
  BY <1>2, <1>8, <1>9 DEF RequestJob
<1>11. /\ b = JobBuffers(r, p.dataType, p.recvData) /\ BuffersOf(r) \subseteq Buffers
       /\ q.recvData \in BuffersOf(r) /\ TempBuffer(r) \in BuffersOf(r)
       /\ SendBuffer(r) # TempBuffer(r) /\ RecvBuffer(r) # TempBuffer(r)
  BY <1>6, <1>8, <1>9, BuffersDiffer DEF BuffersOf
<1>12. Owned'
  <2>1. \A j \in JobIds : Service!Undecided(j)' => Service!Undecided(j) /\ j # q.job
    BY <1>2 DEF Service!Undecided
  <2>2. ASSUME NEW j \in JobIds, Service!Undecided(j), j # q.job
        PROVE  \/ \E s \in Requests : request'[s].state = "pending" /\ request'[s].job = j
               \/ \E w \in Works : work'[w].at = "waiting" /\ work'[w].sml_job = j
    BY <1>1, <1>2, <1>7, <2>2 DEF ClientsInv, Owned
  <2> QED BY <2>1, <2>2 DEF Owned
\* 8 bit elements are unloaded; others are where they were wanted.
<1>13. /\ mem'[q.recvData] = IF q.dataType = "ncclUint8" THEN (Filled(r) + sums[q.job]) % 256
                             ELSE Filled(r) + sums[q.job]
       /\ q.recvData # SendBuffer(r) => mem'[SendBuffer(r)] = Filled(r)
       /\ mem' = [c \in Buffers |-> mem'[c]] /\ live' \subseteq Buffers
       /\ \A c \in Buffers : c \in {q.recvData, TempBuffer(r)} \/
                             (mem'[c] = mem[c] /\ (c \in live' <=> c \in live))
       /\ TempBuffer(r) \notin live'
       /\ SendBuffer(r) \in live' /\ RecvBuffer(r) \in live'
  <2>0. mem = [c \in Buffers |-> mem[c]] /\ live \subseteq Buffers
        /\ SendBuffer(r) \in live /\ RecvBuffer(r) \in live
    BY <1>3 DEF ClientsInv, Shapes, RequestOk
  <2>1. CASE q.dataType = "ncclUint8"
    <3>1. /\ mem' = [mem EXCEPT ![q.recvData] = mem[TempBuffer(r)] % 256]
          /\ live' = live \ {TempBuffer(r)}
      BY <1>1, <2>1 DEF ncclSwitchMLTest, Unloaded
    <3>2. b.out = TempBuffer(r) /\ q.recvData \in Buffers /\ SendBuffer(r) \in Buffers
      BY <1>9, <1>11, <2>1 DEF JobBuffers, BuffersOf
    <3>3. mem'[q.recvData] = (Filled(r) + sums[q.job]) % 256
      BY <1>10, <2>0, <3>1, <3>2
    <3>4. /\ mem' = [c \in Buffers |-> mem'[c]]
          /\ \A c \in Buffers : c # q.recvData => mem'[c] = mem[c]
      BY <2>0, <3>1
    <3>5. q.recvData # SendBuffer(r) => mem'[SendBuffer(r)] = Filled(r)
      BY <1>10, <3>2, <3>4
    <3> QED BY <1>11, <2>0, <2>1, <3>1, <3>3, <3>4, <3>5
  <2>2. CASE q.dataType # "ncclUint8"
    <3>1. UNCHANGED <<mem, live>>
      BY <1>1, <2>2 DEF ncclSwitchMLTest
    <3>2. b.out = q.recvData
      BY <1>9, <2>2 DEF JobBuffers
    <3>3. TempBuffer(r) \notin live
      BY <1>1, <1>3, <2>2 DEF RequestOk
    <3> QED BY <1>10, <2>0, <2>2, <3>1, <3>2, <3>3
  <2> QED BY <2>1, <2>2
<1>14. Shapes'
  BY <1>2, <1>7, <1>13 DEF ClientsInv, Shapes
<1>15. RequestOk(r)'
  <2>1. RequestJob(r, p)'
    BY <1>2, <1>6, <1>10, <1>11, <1>13 DEF RequestJob
  <2> QED BY <1>6, <1>7, <1>8, <1>13, <2>1 DEF RequestOk
<1>16. /\ \A s \in Requests \ {r} : MemoryStays(BuffersOf(s))
       /\ \A w \in Works : MemoryStays(BuffersOfCall(w))
  <2>1. PICK bs : bs = {q.recvData, TempBuffer(r)}
    OBVIOUS
  <2>2. bs \subseteq BuffersOf(r)
    BY <1>11, <2>1
  <2>3. \A c \in Buffers : c \in bs \/ (mem'[c] = mem[c] /\ (c \in live' <=> c \in live))
    BY <1>13, <2>1
  <2> QED BY <2>2, <2>3, OthersMemory
<1>17. /\ \A s \in Requests \ {r} : RequestStays(s)
       /\ \A w \in Works : CallStays(w)
  <2>1. \A j \in JobIds : JobStays(j)
    BY <1>2 DEF JobStays
  <2> QED BY <1>2, <1>7, <1>16, <2>1, OthersSubmitted
<1> QED BY <1>2, <1>12, <1>14, <1>15, <1>17, OneRequests

LEMMA ProxyClients ==
  ASSUME ClientsInv, ~aborted, Proxy, UNCHANGED torchVars
  PROVE  ClientsInv'
<1>1. CASE ncclSwitchMLInit \/ ncclSwitchMLListen \/ ncclSwitchMLCloseListen
           \/ ncclSwitchMLConnect \/ ncclSwitchMLCloseColl
  <2>1. /\ UNCHANGED <<request, work, kernel, copyIn, copyOut, mem, live, tensor, sums,
                       aborted, status>>
        /\ state' \in {"CREATED", "RUNNING", "STOPPING", "STOPPED"}
    <3>1. CASE ncclSwitchMLInit
      BY <3>1, StartsContext DEF ncclSwitchMLInit, torchVars
    <3>2. CASE ncclSwitchMLListen \/ ncclSwitchMLCloseListen \/ ncclSwitchMLConnect
               \/ ncclSwitchMLCloseColl
      BY <3>2 DEF ncclSwitchMLListen, ncclSwitchMLCloseListen, ncclSwitchMLConnect,
                  ncclSwitchMLCloseColl, torchVars, clientVars, contextVars, ClientsInv, Shapes
    <3> QED BY <1>1, <3>1, <3>2
  <2>2. connects' \in 0 .. MaxConnects /\ leaked' \in 0 .. connects'
    <3>1. connects \in 0 .. MaxConnects /\ leaked \in 0 .. connects /\ MaxConnects \in Nat
      BY NcclAssumption DEF ClientsInv, Shapes
    <3>2. CASE UNCHANGED <<connects, leaked>>
      BY <3>1, <3>2
    <3>3. CASE ncclSwitchMLConnect
      BY <3>1, <3>3 DEF ncclSwitchMLConnect
    <3> QED BY <1>1, <3>2, <3>3 DEF ncclSwitchMLInit, ncclSwitchMLListen,
                                    ncclSwitchMLCloseListen, ncclSwitchMLCloseColl
  <2>3. \A j \in JobIds : JobStays(j)
    BY <2>1 DEF JobStays
  <2>4. Shapes'
    BY <2>1, <2>2 DEF ClientsInv, Shapes
  <2> QED BY <2>1, <2>3, <2>4, QuietStep
<1>2. CASE \E r \in Requests : ncclSwitchMLTest(r)
  BY <1>2, TestClients
<1>3. CASE \E r \in Requests : \E type \in DataTypes, op \in Operations :
             ncclSwitchMLIallreduce(r, type, op)
  BY <1>3, IallreduceClients
<1> QED BY <1>1, <1>2, <1>3 DEF Proxy

-----------------------------------------------------------------------------
(* PyTorch and the GPU                                                          *)

\* A step of w that submits no job, on w's memory only.
LEMMA CallsStep ==
  ASSUME ClientsInv, Shapes', NEW w \in Works, CallOk(w)',
         UNCHANGED <<status, tensor, sums, request>>, aborted => aborted',
         \A b \in Buffers \ BuffersOfCall(w) : mem'[b] = mem[b] /\ (b \in live' <=> b \in live),
         \A v \in Works \ {w} : /\ work'[v] = work[v] /\ kernel'[v] = kernel[v]
                               /\ copyIn'[v] = copyIn[v] /\ copyOut'[v] = copyOut[v],
         \/ work[w].at # "waiting" \/ work'[w] = work[w]
         \/ status[work[w].sml_job] \notin {"QUEUED", "RUNNING"}
  PROVE  ClientsInv'
<1>1. Owned'
  <2> SUFFICES ASSUME NEW j \in JobIds, status[j] \in {"QUEUED", "RUNNING"}
               PROVE  \/ \E s \in Requests : request'[s].state = "pending" /\ request'[s].job = j
                      \/ \E v \in Works : work'[v].at = "waiting" /\ work'[v].sml_job = j
    BY DEF Owned, Service!Undecided
  <2>1. CASE \E r \in Requests : request[r].state = "pending" /\ request[r].job = j
    BY <2>1
  <2>2. ASSUME NEW v \in Works, work[v].at = "waiting", work[v].sml_job = j
        PROVE  work'[v] = work[v]
    BY <2>2
  <2> QED BY <2>1, <2>2 DEF ClientsInv, Owned, Service!Undecided
<1>2. /\ \A v \in Works \ {w} : MemoryStays(BuffersOfCall(v))
      /\ \A r \in Requests : MemoryStays(BuffersOf(r))
  <2>1. PICK bs : bs = BuffersOfCall(w)
    OBVIOUS
  <2>2. \A c \in Buffers : c \in bs \/ (mem'[c] = mem[c] /\ (c \in live' <=> c \in live))
    BY <2>1
  <2> QED BY <2>1, <2>2, OthersMemory
<1>3. /\ \A v \in Works \ {w} : CallStays(v)
      /\ \A r \in Requests : RequestStays(r)
  <2>1. \A j \in JobIds : JobStays(j)
    BY DEF JobStays
  <2> QED BY <1>2, <2>1, OthersSubmitted
<1> QED BY <1>1, <1>3, OneCalls

LEMMA GotoEffect ==
  ASSUME ClientsInv, NEW w \in Works, NEW where,
         where \in {"none", "computed", "synchronize", "run", "waiting", "copying", "returned"},
         Goto(w, where)
  PROVE  /\ work' \in [Works -> WorkSML] /\ work'[w].at = where
         /\ work'[w].on_cuda = work[w].on_cuda /\ work'[w].sml_job = work[w].sml_job
         /\ \A v \in Works \ {w} : work'[v] = work[v]
<1>1. work \in [Works -> WorkSML] /\ work' = [work EXCEPT ![w].at = where]
  BY DEF ClientsInv, Shapes, Goto
<1>2. work'[w] = [work[w] EXCEPT !.at = where] /\ work[w] \in WorkSML
  BY <1>1
<1>3. /\ work'[w].at = where /\ work'[w] \in WorkSML
      /\ work'[w].on_cuda = work[w].on_cuda /\ work'[w].sml_job = work[w].sml_job
  BY <1>2 DEF WorkSML
<1> QED BY <1>1, <1>3

LEMMA ComputeClients ==
  ASSUME ClientsInv, NEW w \in Works, Compute(w), UNCHANGED ncclVars
  PROVE  ClientsInv'
<1>1. PICK cuda \in BOOLEAN :
        /\ work' = [work EXCEPT ![w].at = "computed", ![w].on_cuda = cuda]
        /\ kernel' = [kernel EXCEPT ![w] = IF cuda THEN "pending" ELSE "done"]
        /\ mem' = IF cuda THEN mem ELSE [mem EXCEPT ![Tensor(w)] = Gradient(w)]
        /\ live' = live \union {Tensor(w)}
  BY DEF Compute
<1>2. /\ UNCHANGED <<state, status, tensor, sums, request, connects, leaked, aborted,
                     copyIn, copyOut>>
      /\ work[w].at = "none" /\ StreamsOk(w)
  BY DEF Compute, contextVars, ncclVars, ClientsInv, CallOk
<1>3. /\ work \in [Works -> WorkSML] /\ mem = [b \in Buffers |-> mem[b]] /\ live \subseteq Buffers
      /\ kernel \in [Works -> {"none", "pending", "done"}] /\ Tensor(w) \in Buffers
      /\ BuffersOfCall(w) = {Tensor(w), HostTensor(w)}
  BY BuffersDiffer DEF ClientsInv, Shapes, BuffersOfCall
<1>4. /\ work'[w] = [work[w] EXCEPT !.at = "computed", !.on_cuda = cuda] /\ work[w] \in WorkSML
      /\ \A v \in Works \ {w} : work'[v] = work[v]
  BY <1>1, <1>3
<1>5. work'[w].at = "computed" /\ work'[w].on_cuda = cuda /\ work'[w] \in WorkSML
  BY <1>4 DEF WorkSML
<1>6. work' \in [Works -> WorkSML]
  BY <1>1, <1>3, <1>5
<1>7. /\ kernel' \in [Works -> {"none", "pending", "done"}]
      /\ kernel'[w] = IF cuda THEN "pending" ELSE "done"
      /\ \A v \in Works \ {w} : kernel'[v] = kernel[v]
  BY <1>1, <1>3
<1>8. /\ mem' = [b \in Buffers |-> mem'[b]] /\ live' \subseteq Buffers /\ Tensor(w) \in live'
      /\ \A b \in Buffers \ BuffersOfCall(w) : mem'[b] = mem[b] /\ (b \in live' <=> b \in live)
      /\ ~cuda => mem'[Tensor(w)] = Gradient(w)
  BY <1>1, <1>3
<1>9. Shapes'
  BY <1>2, <1>6, <1>7, <1>8 DEF ClientsInv, Shapes
<1>10. CallOk(w)'
  <2>1. copyIn'[w] # "pending" /\ copyOut'[w] # "pending"
    BY <1>2 DEF StreamsOk
  <2>2. StreamsOk(w)'
    BY <1>5, <1>7, <1>8, <2>1 DEF StreamsOk
  <2> QED BY <1>5, <1>8, <2>2 DEF CallOk
<1> QED BY <1>2, <1>4, <1>7, <1>8, <1>9, <1>10, CallsStep

LEMMA AllreduceClients ==
  ASSUME ClientsInv, ~aborted, NEW w \in Works, NEW type, Allreduce(w, type), UNCHANGED ncclVars
  PROVE  ClientsInv'
<1>1. /\ work[w].at = "computed" /\ CallOk(w) /\ StreamsOk(w)
      /\ UNCHANGED <<state, status, tensor, sums, request, connects, leaked, mem, kernel, copyOut>>
  BY DEF Allreduce, contextVars, ncclVars, ClientsInv, CallOk
<1>2. CASE type = "kDouble"
  <2>1. UNCHANGED <<work, copyIn, live>> /\ aborted'
    BY <1>2 DEF Allreduce
  <2>2. Shapes' /\ \A j \in JobIds : JobStays(j)
    BY <1>1, <2>1 DEF ClientsInv, Shapes, JobStays
  <2> QED BY <1>1, <2>1, <2>2, QuietStep
<1>3. CASE type # "kDouble"
  <2>1. PICK where : where = IF work[w].on_cuda THEN "synchronize" ELSE "run"
    OBVIOUS
  <2>2. /\ Goto(w, where) /\ UNCHANGED aborted
        /\ copyIn' = [copyIn EXCEPT ![w] = IF work[w].on_cuda THEN "pending" ELSE "none"]
        /\ live' = IF work[w].on_cuda THEN live \union {HostTensor(w)} ELSE live
    BY <1>3, <2>1 DEF Allreduce
  <2>3. /\ work' \in [Works -> WorkSML] /\ work'[w].at = where
        /\ work'[w].on_cuda = work[w].on_cuda
        /\ \A v \in Works \ {w} : work'[v] = work[v]
    BY <2>1, <2>2, GotoEffect
  <2>4. /\ copyIn \in [Works -> {"none", "pending", "done"}] /\ live \subseteq Buffers
        /\ BuffersOfCall(w) = {Tensor(w), HostTensor(w)} /\ HostTensor(w) \in Buffers
    BY BuffersDiffer DEF ClientsInv, Shapes, BuffersOfCall
  <2>5. /\ copyIn' \in [Works -> {"none", "pending", "done"}]
        /\ copyIn'[w] = IF work[w].on_cuda THEN "pending" ELSE "none"
        /\ \A v \in Works \ {w} : copyIn'[v] = copyIn[v]
    BY <2>2, <2>4
  <2>6. /\ live' \subseteq Buffers /\ (Tensor(w) \in live => Tensor(w) \in live')
        /\ work[w].on_cuda => HostTensor(w) \in live'
        /\ \A b \in Buffers \ BuffersOfCall(w) : b \in live' <=> b \in live
    BY <2>2, <2>4
  <2>7. Shapes'
    BY <1>1, <2>3, <2>5, <2>6 DEF ClientsInv, Shapes
  <2>8. StreamsOk(w)'
    BY <1>1, <2>1, <2>3, <2>5 DEF StreamsOk
  <2>9. CallOk(w)'
    BY <1>1, <2>1, <2>3, <2>6, <2>8 DEF CallOk
  <2> QED BY <1>1, <2>2, <2>3, <2>5, <2>6, <2>7, <2>9, CallsStep
<1> QED BY <1>2, <1>3

LEMMA SynchronizeClients ==
  ASSUME ClientsInv, NEW w \in Works, Synchronize(w), UNCHANGED ncclVars
  PROVE  ClientsInv'
<1>1. /\ work[w].at = "synchronize" /\ copyIn[w] = "done" /\ Goto(w, "run") /\ CallOk(w)
      /\ UNCHANGED <<state, status, tensor, sums, request, connects, leaked, mem, live, aborted,
                     kernel, copyIn, copyOut>>
  BY DEF Synchronize, Synchronized, clientVars, contextVars, ncclVars, ClientsInv
<1>2. /\ work' \in [Works -> WorkSML] /\ work'[w].at = "run"
      /\ work'[w].on_cuda = work[w].on_cuda
      /\ \A v \in Works \ {w} : work'[v] = work[v]
  BY <1>1, GotoEffect
<1>3. Shapes'
  BY <1>1, <1>2 DEF ClientsInv, Shapes
<1>4. StreamsOk(w)'
  BY <1>1, <1>2 DEF StreamsOk, CallOk
<1>5. CallOk(w)'
  BY <1>1, <1>2, <1>4 DEF CallOk
<1> QED BY <1>1, <1>2, <1>3, <1>5, CallsStep

LEMMA WaitToCompleteClients ==
  ASSUME ClientsInv, ~aborted, NEW w \in Works, WaitToComplete(w), UNCHANGED ncclVars
  PROVE  ClientsInv'
<1>1. /\ work[w].at = "waiting" /\ status[work[w].sml_job] \in {"FINISHED", "FAILED"} /\ CallOk(w)
      /\ UNCHANGED <<state, status, tensor, sums, request, connects, leaked, mem, live, aborted,
                     kernel, copyIn>>
  BY DEF WaitToComplete, clientVars, contextVars, ncclVars, ClientsInv
<1>2. PICK where : where = IF work[w].on_cuda THEN "copying" ELSE "returned"
  OBVIOUS
<1>3. /\ Goto(w, where)
      /\ IF work[w].on_cuda THEN copyOut' = [copyOut EXCEPT ![w] = "pending"]
         ELSE UNCHANGED copyOut
  BY <1>2 DEF WaitToComplete
<1>4. /\ work' \in [Works -> WorkSML] /\ work'[w].at = where
      /\ work'[w].on_cuda = work[w].on_cuda /\ work'[w].sml_job = work[w].sml_job
      /\ \A v \in Works \ {w} : work'[v] = work[v]
  BY <1>2, <1>3, GotoEffect
<1>5. /\ copyOut' \in [Works -> {"none", "pending", "done"}]
      /\ work[w].on_cuda => copyOut'[w] = "pending"
      /\ ~work[w].on_cuda => copyOut'[w] = copyOut[w]
      /\ \A v \in Works \ {w} : copyOut'[v] = copyOut[v]
  <2>1. copyOut \in [Works -> {"none", "pending", "done"}]
    BY DEF ClientsInv, Shapes
  <2> QED BY <1>3, <2>1
<1>6. Shapes'
  BY <1>1, <1>4, <1>5 DEF ClientsInv, Shapes
<1>7. StreamsOk(w)'
  BY <1>1, <1>2, <1>4, <1>5 DEF StreamsOk, CallOk
<1>8. PICK j : j = work[w].sml_job
  OBVIOUS
<1>9. /\ j \in JobIds /\ CallJob(w, j)
  BY <1>1, <1>8 DEF CallOk
<1>10. DataPtr(w)' = DataPtr(w)
  BY <1>4 DEF DataPtr
<1>11. CallJob(w, j)'
  BY <1>1, <1>2, <1>4, <1>5, <1>8, <1>9, <1>10 DEF CallJob
<1>12. CallOk(w)'
  BY <1>1, <1>2, <1>4, <1>7, <1>8, <1>9, <1>11 DEF CallOk
<1> QED BY <1>1, <1>4, <1>5, <1>6, <1>12, CallsStep

LEMMA ReturnClients ==
  ASSUME ClientsInv, ~aborted, NEW w \in Works, Return(w), UNCHANGED ncclVars
  PROVE  ClientsInv'
<1>1. /\ work[w].at = "copying" /\ copyOut[w] = "done" /\ Goto(w, "returned") /\ CallOk(w)
      /\ UNCHANGED <<state, status, tensor, sums, request, connects, leaked, mem, live, aborted,
                     kernel, copyIn, copyOut>>
  BY DEF Return, CopiedBack, clientVars, contextVars, ncclVars, ClientsInv
<1>2. /\ work' \in [Works -> WorkSML] /\ work'[w].at = "returned"
      /\ work'[w].on_cuda = work[w].on_cuda /\ work'[w].sml_job = work[w].sml_job
      /\ \A v \in Works \ {w} : work'[v] = work[v]
  BY <1>1, GotoEffect
<1>3. Shapes'
  BY <1>1, <1>2 DEF ClientsInv, Shapes
<1>4. StreamsOk(w)'
  BY <1>1, <1>2 DEF StreamsOk, CallOk
<1>5. PICK j : j = work[w].sml_job
  OBVIOUS
<1>6. j \in JobIds /\ CallJob(w, j)
  BY <1>1, <1>5 DEF CallOk
<1>7. DataPtr(w)' = DataPtr(w)
  BY <1>2 DEF DataPtr
<1>8. CallJob(w, j)'
  BY <1>1, <1>2, <1>5, <1>6, <1>7 DEF CallJob
<1>9. CallOk(w)'
  BY <1>1, <1>2, <1>4, <1>5, <1>6, <1>8 DEF CallOk
<1> QED BY <1>1, <1>2, <1>3, <1>9, CallsStep

LEMMA RunClients ==
  ASSUME ClientsInv, ~aborted, NEW w \in Works, Run(w), UNCHANGED ncclVars
  PROVE  ClientsInv'
<1>1. PICK n : n = NextJob
  OBVIOUS
<1>2. PICK d : d = DataPtr(w)
  OBVIOUS
<1>3. /\ work[w].at = "run" /\ CallOk(w) /\ AllReduceAsync(d, d, mem)
      /\ work' = [work EXCEPT ![w].at = "waiting",
                              ![w].sml_job = IF state = "RUNNING" THEN n ELSE 0]
      /\ UNCHANGED <<request, connects, leaked, mem, live, kernel, copyIn, copyOut>>
  BY <1>1, <1>2 DEF Run, ncclVars, ClientsInv
<1>4. \/ /\ state = "RUNNING" /\ n \in JobIds /\ status[n] = "INIT" /\ status'[n] = "QUEUED"
         /\ UNCHANGED <<state, sums, aborted>>
         /\ \A j \in JobIds \ {n} : JobStays(j)
         /\ status' \in [JobIds -> Statuses] /\ tensor' = [j \in JobIds |-> tensor'[j]]
         /\ tensor'[n] = [in |-> d, out |-> d, value |-> mem[d]]
      \/ state # "RUNNING" /\ aborted' /\ UNCHANGED <<state, status, tensor, sums>>
  BY <1>1, <1>3, Submits
<1>5. mem[d] = Gradient(w)
  BY <1>2, <1>3 DEF CallOk, StreamsOk, DataPtr
<1>6. PICK k \in JobIds \union {0} : k = IF state = "RUNNING" THEN n ELSE 0
  BY <1>4
<1>7. /\ work'[w].at = "waiting" /\ work'[w].sml_job = k /\ work'[w].on_cuda = work[w].on_cuda
      /\ work' \in [Works -> WorkSML]
      /\ \A v \in Works \ {w} : work'[v] = work[v]
  <2>1. work \in [Works -> WorkSML]
    BY DEF ClientsInv, Shapes
  <2>2. work'[w] = [work[w] EXCEPT !.at = "waiting", !.sml_job = k] /\ work[w] \in WorkSML
    BY <1>3, <1>6, <2>1
  <2>3. /\ work'[w].at = "waiting" /\ work'[w].sml_job = k
        /\ work'[w].on_cuda = work[w].on_cuda /\ work'[w] \in WorkSML
    BY <2>2 DEF WorkSML
  <2> QED BY <1>3, <2>1, <2>3
<1>8. Shapes'
  BY <1>3, <1>4, <1>7 DEF ClientsInv, Shapes
<1>9. Owned'
  <2> SUFFICES ASSUME NEW j \in JobIds, Service!Undecided(j)'
               PROVE  \/ \E s \in Requests : request'[s].state = "pending" /\ request'[s].job = j
                      \/ \E v \in Works : work'[v].at = "waiting" /\ work'[v].sml_job = j
    BY DEF Owned
  <2>1. CASE state = "RUNNING" /\ j = n
    BY <1>6, <1>7, <2>1
  <2>2. CASE state # "RUNNING" \/ j # n
    <3>1. status'[j] = status[j] \/ status[j] \in {"QUEUED", "RUNNING"}
      BY <1>4, <2>2 DEF JobStays
    <3>2. Service!Undecided(j)
      BY <3>1 DEF Service!Undecided
    <3>3. CASE \E r \in Requests : request[r].state = "pending" /\ request[r].job = j
      BY <1>3, <3>3
    <3>4. ASSUME NEW v \in Works, work[v].at = "waiting", work[v].sml_job = j
          PROVE  work'[v] = work[v]
      BY <1>3, <1>7, <3>4
    <3> QED BY <3>2, <3>3, <3>4 DEF ClientsInv, Owned
  <2> QED BY <2>1, <2>2
<1>10. /\ \A r \in Requests : RequestStays(r)
       /\ \A v \in Works \ {w} : CallStays(v)
  <2>1. \A j \in JobIds : status[j] # "INIT" => JobStays(j)
    BY <1>4 DEF JobStays
  <2> QED BY <1>3, <1>7, <2>1, OthersSubmitted DEF MemoryStays
<1>11. ASSUME k \in JobIds PROVE CallJob(w, k)'
  <2>1. state = "RUNNING" /\ k = n
    BY <1>6, <1>11 DEF JobIds
  <2>2. DataPtr(w)' = d
    BY <1>2, <1>7 DEF DataPtr
  <2> QED BY <1>3, <1>4, <1>5, <1>7, <2>1, <2>2 DEF CallJob
<1>12. StreamsOk(w)'
  BY <1>3, <1>7 DEF StreamsOk, CallOk
<1>13. CallOk(w)'
  <2>1. k \in JobIds \/ aborted'
    BY <1>4, <1>6
  <2> QED BY <1>3, <1>7, <1>11, <1>12, <2>1 DEF CallOk
<1> QED BY <1>4, <1>8, <1>9, <1>10, <1>13, OneCalls

LEMMA ReleaseClients ==
  ASSUME ClientsInv, NEW w \in Works, Release(w), UNCHANGED ncclVars
  PROVE  ClientsInv'
<1>1. /\ work[w].at = "returned" /\ live' = live \ {Tensor(w), HostTensor(w)} /\ CallOk(w)
      /\ UNCHANGED <<state, status, tensor, sums, request, connects, leaked, mem, aborted,
                     work, kernel, copyIn, copyOut>>
  BY DEF Release, contextVars, torchVars, ncclVars, ClientsInv
<1>2. Shapes'
  BY <1>1 DEF ClientsInv, Shapes
<1>3. StreamsOk(w)' /\ DataPtr(w)' = DataPtr(w)
  BY <1>1 DEF StreamsOk, CallOk, DataPtr
<1>4. PICK j : j = work[w].sml_job
  OBVIOUS
<1>5. j \in JobIds /\ CallJob(w, j)
  BY <1>1, <1>4 DEF CallOk
<1>6. CallJob(w, j)'
  BY <1>1, <1>3, <1>5 DEF CallJob
<1>7. CallOk(w)'
  BY <1>1, <1>3, <1>4, <1>5, <1>6 DEF CallOk
<1>8. \A b \in Buffers \ BuffersOfCall(w) : mem'[b] = mem[b] /\ (b \in live' <=> b \in live)
  BY <1>1 DEF BuffersOfCall
<1> QED BY <1>1, <1>2, <1>7, <1>8, CallsStep

LEMMA RunKernelClients ==
  ASSUME ClientsInv, NEW w \in Works, RunKernel(w), UNCHANGED ncclVars
  PROVE  ClientsInv'
<1>1. /\ kernel[w] = "pending" /\ kernel' = [kernel EXCEPT ![w] = "done"]
      /\ mem' = [mem EXCEPT ![Tensor(w)] = Gradient(w)] /\ CallOk(w) /\ StreamsOk(w)
      /\ UNCHANGED <<state, status, tensor, sums, request, connects, leaked, aborted, live,
                     work, copyIn, copyOut>>
  BY DEF RunKernel, contextVars, ncclVars, ClientsInv, CallOk
<1>2. work[w].at \in {"computed", "synchronize"}
  BY <1>1 DEF StreamsOk
<1>3. /\ kernel \in [Works -> {"none", "pending", "done"}] /\ mem = [b \in Buffers |-> mem[b]]
      /\ Tensor(w) \in Buffers /\ BuffersOfCall(w) = {Tensor(w), HostTensor(w)}
  BY BuffersDiffer DEF ClientsInv, Shapes, BuffersOfCall
<1>4. /\ kernel' \in [Works -> {"none", "pending", "done"}] /\ kernel'[w] = "done"
      /\ \A v \in Works \ {w} : kernel'[v] = kernel[v]
      /\ mem' = [b \in Buffers |-> mem'[b]] /\ mem'[Tensor(w)] = Gradient(w)
      /\ \A b \in Buffers \ BuffersOfCall(w) : mem'[b] = mem[b]
  BY <1>1, <1>3
<1>5. Shapes'
  BY <1>1, <1>4 DEF ClientsInv, Shapes
<1>6. StreamsOk(w)'
  BY <1>1, <1>2, <1>4 DEF StreamsOk
<1>7. CallOk(w)'
  BY <1>1, <1>2, <1>6 DEF CallOk
<1> QED BY <1>1, <1>4, <1>5, <1>7, CallsStep

LEMMA RunCopyInClients ==
  ASSUME ClientsInv, NEW w \in Works, RunCopyIn(w), UNCHANGED ncclVars
  PROVE  ClientsInv'
<1>1. /\ copyIn[w] = "pending" /\ kernel[w] = "done" /\ copyIn' = [copyIn EXCEPT ![w] = "done"]
      /\ mem' = [mem EXCEPT ![HostTensor(w)] = mem[Tensor(w)]] /\ CallOk(w) /\ StreamsOk(w)
      /\ UNCHANGED <<state, status, tensor, sums, request, connects, leaked, aborted, live,
                     work, kernel, copyOut>>
  BY DEF RunCopyIn, MayCopyIn, contextVars, ncclVars, ClientsInv, CallOk
<1>2. work[w].at = "synchronize" /\ mem[Tensor(w)] = Gradient(w)
  BY <1>1 DEF StreamsOk
<1>3. /\ copyIn \in [Works -> {"none", "pending", "done"}] /\ mem = [b \in Buffers |-> mem[b]]
      /\ HostTensor(w) \in Buffers /\ Tensor(w) \in Buffers /\ Tensor(w) # HostTensor(w)
      /\ BuffersOfCall(w) = {Tensor(w), HostTensor(w)}
  BY BuffersDiffer DEF ClientsInv, Shapes, BuffersOfCall
<1>4. /\ copyIn' \in [Works -> {"none", "pending", "done"}] /\ copyIn'[w] = "done"
      /\ \A v \in Works \ {w} : copyIn'[v] = copyIn[v]
      /\ mem' = [b \in Buffers |-> mem'[b]] /\ mem'[HostTensor(w)] = Gradient(w)
      /\ mem'[Tensor(w)] = Gradient(w)
      /\ \A b \in Buffers \ BuffersOfCall(w) : mem'[b] = mem[b]
  BY <1>1, <1>2, <1>3
<1>5. Shapes'
  BY <1>1, <1>4 DEF ClientsInv, Shapes
<1>6. StreamsOk(w)'
  BY <1>1, <1>2, <1>4 DEF StreamsOk
<1>7. CallOk(w)'
  BY <1>1, <1>2, <1>6 DEF CallOk
<1> QED BY <1>1, <1>2, <1>4, <1>5, <1>7, CallsStep

LEMMA RunCopyOutClients ==
  ASSUME ClientsInv, ~aborted, NEW w \in Works, RunCopyOut(w), UNCHANGED ncclVars
  PROVE  ClientsInv'
<1>1. /\ copyOut[w] = "pending" /\ copyOut' = [copyOut EXCEPT ![w] = "done"]
      /\ mem' = [mem EXCEPT ![Tensor(w)] = mem[HostTensor(w)]] /\ CallOk(w) /\ StreamsOk(w)
      /\ UNCHANGED <<state, status, tensor, sums, request, connects, leaked, aborted, live,
                     work, kernel, copyIn>>
  BY DEF RunCopyOut, contextVars, ncclVars, ClientsInv, CallOk
<1>2. work[w].at = "copying" /\ work[w].on_cuda
  BY <1>1 DEF StreamsOk
<1>3. /\ copyOut \in [Works -> {"none", "pending", "done"}] /\ mem = [b \in Buffers |-> mem[b]]
      /\ HostTensor(w) \in Buffers /\ Tensor(w) \in Buffers /\ Tensor(w) # HostTensor(w)
      /\ BuffersOfCall(w) = {Tensor(w), HostTensor(w)}
  BY BuffersDiffer DEF ClientsInv, Shapes, BuffersOfCall
<1>4. /\ copyOut' \in [Works -> {"none", "pending", "done"}] /\ copyOut'[w] = "done"
      /\ \A v \in Works \ {w} : copyOut'[v] = copyOut[v]
      /\ mem' = [b \in Buffers |-> mem'[b]] /\ mem'[HostTensor(w)] = mem[HostTensor(w)]
      /\ mem'[Tensor(w)] = mem[HostTensor(w)]
      /\ \A b \in Buffers \ BuffersOfCall(w) : mem'[b] = mem[b]
  BY <1>1, <1>3
<1>5. Shapes'
  BY <1>1, <1>4 DEF ClientsInv, Shapes
<1>6. StreamsOk(w)'
  BY <1>1, <1>2, <1>4 DEF StreamsOk
<1>7. PICK j : j = work[w].sml_job
  OBVIOUS
<1>8. j \in JobIds /\ CallJob(w, j)
  BY <1>1, <1>2, <1>7 DEF CallOk
<1>9. DataPtr(w) = HostTensor(w) /\ DataPtr(w)' = HostTensor(w)
  BY <1>1, <1>2 DEF DataPtr
<1>10. CallJob(w, j)'
  BY <1>1, <1>2, <1>4, <1>8, <1>9 DEF CallJob
<1>11. CallOk(w)'
  BY <1>1, <1>2, <1>6, <1>7, <1>8, <1>10 DEF CallOk
<1> QED BY <1>1, <1>2, <1>4, <1>5, <1>11, CallsStep

LEMMA ConstructProcessGroupClients ==
  ASSUME ClientsInv, ConstructProcessGroup, UNCHANGED ncclVars
  PROVE  ClientsInv'
<1>1. UNCHANGED <<tensor, sums, request, connects, leaked, aborted, mem, live,
                  work, kernel, copyIn, copyOut>>
  BY DEF ConstructProcessGroup, ncclVars
<1>2. state' \in {"CREATED", "RUNNING", "STOPPING", "STOPPED"} /\ UNCHANGED status
  BY StartsContext DEF ConstructProcessGroup
<1>3. Shapes' /\ \A j \in JobIds : JobStays(j)
  BY <1>1, <1>2 DEF ClientsInv, Shapes, JobStays
<1> QED BY <1>1, <1>3, QuietStep

LEMMA NextClients == ClientsInv /\ [Next]_vars => ClientsInv'
<1> SUFFICES ASSUME ClientsInv, [Next]_vars PROVE ClientsInv'
  OBVIOUS
<1>1. CASE UNCHANGED vars
  <2>1. UNCHANGED <<state, status, tensor, sums, request, connects, leaked, aborted, mem, live,
                    work, kernel, copyIn, copyOut>>
    BY <1>1 DEF vars, clientVars, contextVars, ncclVars, torchVars
  <2>2. Shapes' /\ \A j \in JobIds : JobStays(j)
    BY <2>1 DEF ClientsInv, Shapes, JobStays
  <2> QED BY <2>1, <2>2, QuietStep
<1>2. CASE ~aborted /\ Proxy /\ UNCHANGED torchVars
  BY <1>2, ProxyClients
<1>3. CASE ~aborted /\ Training /\ UNCHANGED ncclVars
  <2>1. CASE ConstructProcessGroup
    BY <1>3, <2>1, ConstructProcessGroupClients
  <2>2. CASE \E w \in Works : Compute(w) \/ Release(w)
    BY <1>3, <2>2, ComputeClients, ReleaseClients
  <2>3. CASE \E w \in Works : Call(w)
    BY <1>3, <2>3, SynchronizeClients, RunClients, WaitToCompleteClients, ReturnClients DEF Call
  <2>4. CASE \E w \in Works : \E type \in ScalarTypes : Allreduce(w, type)
    BY <1>3, <2>4, AllreduceClients
  <2> QED BY <1>3, <2>1, <2>2, <2>3, <2>4 DEF Training
<1>4. CASE ~aborted /\ Gpu /\ UNCHANGED ncclVars
  BY <1>4, RunKernelClients, RunCopyInClients, RunCopyOutClients DEF Gpu
<1>5. CASE Jobs /\ UNCHANGED <<ncclVars, torchVars>>
  BY <1>5, JobBeginsClients, JobFinishesClients DEF Jobs
<1>6. CASE Exit
  BY <1>6, ExitClients
<1> QED BY <1>1, <1>2, <1>3, <1>4, <1>5, <1>6 DEF Next

-----------------------------------------------------------------------------
(* The theorems                                                                 *)

(* Whatever NCCL's proxy thread, the training thread, the GPU's streams and the *)
(* context's workers do, each buffer stays with the request or call that it     *)
(* belongs to, and each undecided job with one of them.                         *)
THEOREM ClientsInvariant == Spec => []ClientsInv
<1>1. Init => ClientsInv
  BY InitClients
<1>2. ClientsInv /\ [Next]_vars => ClientsInv'
  BY NextClients
<1> QED BY <1>1, <1>2, PTL DEF Spec

LEMMA ClientsTyped == ClientsInv => TypeOK
<1> SUFFICES ASSUME ClientsInv PROVE TypeOK
  OBVIOUS
<1>1. /\ state \in {"CREATED", "RUNNING", "STOPPING", "STOPPED"}
      /\ status \in [JobIds -> {"INIT", "QUEUED", "RUNNING", "FINISHED", "FAILED"}]
      /\ live \subseteq Buffers /\ connects \in 0 .. MaxConnects /\ leaked \in 0 .. connects
  BY DEF ClientsInv, Shapes, Statuses
<1>2. DOMAIN mem = Buffers
  BY DEF ClientsInv, Shapes
<1>3. \A r \in Requests :
        /\ request[r].state = "pending" => aborted \/ request[r].job \in JobIds
        /\ TempBuffer(r) \in live <=>
             request[r].state = "pending" /\ request[r].dataType = "ncclUint8"
  BY DEF ClientsInv, RequestOk
<1>4. \A w \in Works : work[w].at = "waiting" => aborted \/ work[w].sml_job \in JobIds
  BY DEF ClientsInv, CallOk
<1> QED BY <1>1, <1>2, <1>3, <1>4 DEF TypeOK

LEMMA ClientsHoldBuffers == ClientsInv => BuffersHeld
<1> SUFFICES ASSUME ClientsInv, NEW j \in JobIds, status[j] \in {"QUEUED", "RUNNING"}
             PROVE  {tensor[j].in, tensor[j].out} \subseteq live /\ mem[tensor[j].in] = tensor[j].value
  BY DEF BuffersHeld, Service!Undecided
<1>1. ASSUME NEW r \in Requests, request[r].state = "pending", request[r].job = j
      PROVE  {tensor[j].in, tensor[j].out} \subseteq live /\ mem[tensor[j].in] = tensor[j].value
  <2>1. RequestOk(r) /\ RequestJob(r, request[r])
    BY <1>1 DEF ClientsInv, RequestOk
  <2>2. PICK b : b = JobBuffers(r, request[r].dataType, request[r].recvData)
    OBVIOUS
  <2>3. tensor[j] = [in |-> b.in, out |-> b.out, value |-> Filled(r)] /\ mem[b.in] = Filled(r)
    BY <1>1, <2>1, <2>2 DEF RequestJob
  <2>4. b.in \in live /\ b.out \in live
    BY <1>1, <2>1, <2>2 DEF JobBuffers, RequestOk
  <2> QED BY <2>3, <2>4
<1>2. ASSUME NEW w \in Works, work[w].at = "waiting", work[w].sml_job = j
      PROVE  {tensor[j].in, tensor[j].out} \subseteq live /\ mem[tensor[j].in] = tensor[j].value
  <2>1. CallOk(w) /\ CallJob(w, j)
    BY <1>2 DEF ClientsInv, CallOk
  <2>2. DataPtr(w) \in live
    BY <1>2, <2>1 DEF DataPtr, CallOk
  <2> QED BY <2>1, <2>2 DEF CallJob
<1> QED BY <1>1, <1>2 DEF ClientsInv, Owned, Service!Undecided

LEMMA ClientsHaveCopies == ClientsInv => CopiesHaveMemory
<1> SUFFICES ASSUME ClientsInv, NEW w \in Works, copyIn[w] = "pending" \/ copyOut[w] = "pending"
             PROVE  {Tensor(w), HostTensor(w)} \subseteq live
  BY DEF CopiesHaveMemory
<1>1. CallOk(w)
  BY DEF ClientsInv
<1>2. work[w].at \in {"synchronize", "copying"} /\ work[w].on_cuda
  BY <1>1 DEF CallOk, StreamsOk
<1> QED BY <1>1, <1>2 DEF CallOk

(* As long as a job is queued or worked on, the memory that the NCCL request or *)
(* the PyTorch call gave it is allocated and nobody has written its input: the  *)
(* 8 bit request's temporary array is freed only when Test unloads it, the      *)
(* pinned tensor only after the copy back.                                      *)
THEOREM ClientsConsistent == Spec => []Consistent
<1>1. ClientsInv => Consistent
  BY ClientsTyped, ClientsHoldBuffers, ClientsHaveCopies DEF Consistent
<1> QED BY <1>1, ClientsInvariant, PTL

(* When Test reports an NCCL request as done, NCCL's receive buffer holds the   *)
(* sum over all workers, cut to 8 bits when the elements have 8 bits, and the   *)
(* separate send buffer what the caller had put there, for any number of        *)
(* requests, calls and jobs.                                                    *)
THEOREM DoneRequestsHoldSums == Spec => []DoneHoldsSum
<1>1. ClientsInv => DoneHoldsSum
  <2> SUFFICES ASSUME ClientsInv, NEW r \in Requests, request[r].state = "done",
                      NEW q, q = request[r]
               PROVE  /\ mem[q.recvData] =
                           IF q.dataType = "ncclUint8" THEN SumOf(q.job) % 256 ELSE SumOf(q.job)
                      /\ tensor[q.job].value = Filled(r)
                      /\ q.recvData # q.sendData => mem[q.sendData] = tensor[q.job].value
    BY DEF DoneHoldsSum
  <2>1. q.sendData = SendBuffer(r) /\ RequestJob(r, q)
    BY DEF ClientsInv, RequestOk
  <2>2. tensor[q.job].value = Filled(r)
    BY <2>1 DEF RequestJob
  <2> QED BY <2>1, <2>2 DEF RequestJob, SumOf
<1> QED BY <1>1, ClientsInvariant, PTL

(* When a PyTorch call has returned and its job was not dropped, the caller's   *)
(* tensor holds its gradient plus what the others added: the kernel was waited  *)
(* for, the copy in preceded the submission and the copy back the return.       *)
THEOREM ReturnedTensorsHoldSums == Spec => []ReturnedHoldsSum
<1>1. ClientsInv => ReturnedHoldsSum
  <2> SUFFICES ASSUME ClientsInv, NEW w \in Works, work[w].at = "returned",
                      status[work[w].sml_job] = "FINISHED"
               PROVE  mem[Tensor(w)] = Gradient(w) + sums[work[w].sml_job]
    BY DEF ReturnedHoldsSum
  <2>1. CallJob(w, work[w].sml_job)
    BY DEF ClientsInv, CallOk
  <2> QED BY <2>1 DEF CallJob, DataPtr
<1> QED BY <1>1, ClientsInvariant, PTL

=============================================================================
