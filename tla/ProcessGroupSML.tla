----------------------------- MODULE ProcessGroupSML -----------------------------
(* The PyTorch plugin: allreduce makes a WorkSML, which copies a CUDA tensor to *)
(* pinned host memory on a stream of its own, submits the job, waits for it and *)
(* copies the sum back. The training thread calls it after launching the kernel *)
(* that computes the tensor, on its own stream; the GPU runs the streams apart. *)
EXTENDS ContextClient

CONSTANTS Works      \* the allreduce calls of the training thread, numbered

ASSUME TorchAssumption == Works \subseteq Nat

VARIABLES
  grouped,     \* the process group exists
  work,        \* how far each call is
  kernel,      \* the kernel that computes the tensor of each, on the caller's stream
  copyIn, copyOut   \* the copies to the host and back, on the stream of the work

torchVars == <<grouped, work, kernel, copyIn, copyOut>>

Tensor(w) == <<"tensor", w>>      \* the caller's
HostTensor(w) == <<"host", w>>    \* pinned

TorchBuffers == {"tensor", "host"} \X Works

Gradient(w) == 10 + w             \* what the kernel computes

ScalarTypes == {"kFloat", "kInt", "kDouble"}

NoWork == [at |-> "none", on_cuda |-> FALSE, sml_job |-> 0]

TorchInit ==
  /\ grouped = FALSE /\ work = [w \in Works |-> NoWork]
  /\ kernel = [w \in Works |-> "none"]
  /\ copyIn = [w \in Works |-> "none"] /\ copyOut = [w \in Works |-> "none"]

Goto(w, where) == work' = [work EXCEPT ![w].at = where]

\* The training thread is in a call, which does not return before it is done.
Busy == \E w \in Works : work[w].at \in {"synchronize", "run", "waiting", "copying"}

ConstructProcessGroup ==
  /\ ~grouped /\ grouped' = TRUE
  /\ StartContext
  /\ UNCHANGED <<work, kernel, copyIn, copyOut, tensor, sums, mem, live, aborted>>

\* The caller: a CUDA tensor is computed by a kernel, a CPU tensor at once.
Compute(w) ==
  /\ grouped /\ ~Busy /\ work[w].at = "none"
  /\ \A v \in Works : v < w => work[v].at = "returned"
  /\ \E cuda \in BOOLEAN :
       /\ work' = [work EXCEPT ![w].at = "computed", ![w].on_cuda = cuda]
       /\ kernel' = [kernel EXCEPT ![w] = IF cuda THEN "pending" ELSE "done"]
       /\ mem' = IF cuda THEN mem ELSE [mem EXCEPT ![Tensor(w)] = Gradient(w)]
       /\ live' = live \union {Tensor(w)}
  /\ UNCHANGED <<grouped, copyIn, copyOut, contextVars, aborted>>

(* allreduce, the constructor of WorkSML and the head of run: data type and     *)
(* operation are checked; the copy is put on the work's stream, which waits for *)
(* an event on the caller's stream.                                             *)
Allreduce(w, type) ==
  /\ work[w].at = "computed"
  /\ IF type = "kDouble"
     THEN aborted' = TRUE /\ UNCHANGED <<work, copyIn, live>>
     ELSE /\ Goto(w, IF work[w].on_cuda THEN "synchronize" ELSE "run")
          /\ copyIn' = [copyIn EXCEPT ![w] = IF work[w].on_cuda THEN "pending" ELSE "none"]
          /\ live' = IF work[w].on_cuda THEN live \union {HostTensor(w)} ELSE live
          /\ UNCHANGED aborted
  /\ UNCHANGED <<grouped, kernel, copyOut, contextVars, mem>>

\* (Broken on purpose: waits for the event that the copy back will record.)
SynchronizedOnCopyOutBug(w) == copyOut[w] = "done"

\* run: the stream is idle again.
Synchronized(w) == copyIn[w] = "done"

Synchronize(w) ==
  /\ work[w].at = "synchronize" /\ Synchronized(w)
  /\ Goto(w, "run")
  /\ UNCHANGED <<grouped, kernel, copyIn, copyOut, clientVars>>

DataPtr(w) == IF work[w].on_cuda THEN HostTensor(w) ELSE Tensor(w)

Run(w) ==
  /\ work[w].at = "run"
  /\ AllReduceAsync(DataPtr(w), DataPtr(w), mem)
  /\ work' = [work EXCEPT ![w].at = "waiting",
                          ![w].sml_job = IF state = "RUNNING" THEN NextJob ELSE 0]
  /\ UNCHANGED <<grouped, kernel, copyIn, copyOut, mem, live>>

\* Job::WaitToComplete returns on either outcome; then the tensor is copied back.
WaitToComplete(w) ==
  /\ work[w].at = "waiting" /\ status[work[w].sml_job] \in {"FINISHED", "FAILED"}
  /\ IF work[w].on_cuda
     THEN Goto(w, "copying") /\ copyOut' = [copyOut EXCEPT ![w] = "pending"]
     ELSE Goto(w, "returned") /\ UNCHANGED copyOut
  /\ UNCHANGED <<grouped, kernel, copyIn, clientVars>>

CopiedBack(w) == copyOut[w] = "done"

\* The copy back blocks; afterwards wait has nothing left to wait for.
Return(w) ==
  /\ work[w].at = "copying" /\ CopiedBack(w)
  /\ Goto(w, "returned")
  /\ UNCHANGED <<grouped, kernel, copyIn, copyOut, clientVars>>

\* The caller may let go of a tensor that it got back.
Release(w) ==
  /\ work[w].at = "returned" /\ Tensor(w) \in live
  /\ live' = live \ {Tensor(w), HostTensor(w)}
  /\ UNCHANGED <<torchVars, contextVars, mem, aborted>>

-----------------------------------------------------------------------------
(* The GPU.                                                                     *)

RunKernel(w) ==
  /\ kernel[w] = "pending"
  /\ kernel' = [kernel EXCEPT ![w] = "done"]
  /\ mem' = [mem EXCEPT ![Tensor(w)] = Gradient(w)]
  /\ UNCHANGED <<grouped, work, copyIn, copyOut, contextVars, live, aborted>>

\* (Broken on purpose: no event between the streams.)
MayCopyInBug(w) == copyIn[w] = "pending"

\* initializeStreamsEvents: an event recorded on the caller's stream comes first.
MayCopyIn(w) == copyIn[w] = "pending" /\ kernel[w] = "done"

RunCopyIn(w) ==
  /\ MayCopyIn(w)
  /\ copyIn' = [copyIn EXCEPT ![w] = "done"]
  /\ mem' = [mem EXCEPT ![HostTensor(w)] = mem[Tensor(w)]]
  /\ UNCHANGED <<grouped, work, kernel, copyOut, contextVars, live, aborted>>

RunCopyOut(w) ==
  /\ copyOut[w] = "pending" /\ copyIn[w] # "pending"
  /\ copyOut' = [copyOut EXCEPT ![w] = "done"]
  /\ mem' = [mem EXCEPT ![Tensor(w)] = mem[HostTensor(w)]]
  /\ UNCHANGED <<grouped, work, kernel, copyIn, contextVars, live, aborted>>

Gpu == \E w \in Works : RunKernel(w) \/ RunCopyIn(w) \/ RunCopyOut(w)

Call(w) ==
  \/ Synchronize(w) \/ Run(w) \/ WaitToComplete(w) \/ Return(w)

Training ==
  \/ ConstructProcessGroup
  \/ \E w \in Works :
       \/ Compute(w) \/ Call(w) \/ Release(w)
       \/ \E type \in ScalarTypes : Allreduce(w, type)
=============================================================================
