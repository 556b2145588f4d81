------------------------------ MODULE ContextClient ------------------------------
(* The context as the framework plugins use it: the service of JobService, plus *)
(* the memory its jobs work on. A job reads its input buffer while it runs and  *)
(* has written the sum of all workers to its output buffer when it is finished. *)
EXTENDS Integers, FiniteSets

CONSTANTS NumJobs,    \* bound: how many jobs the process submits at most
          Others,     \* the sums of the other workers' elements
          Buffers     \* of host and device memory

ASSUME ClientAssumption == NumJobs \in Nat /\ Others \subseteq Nat

JobIds == 1 .. NumJobs

VARIABLES
  state, status,   \* the context and its jobs, see JobService
  tensor,          \* of each job: its buffers and what the input held on submission
  sums,            \* what the other workers added to each finished job
  mem,             \* the value of each buffer (one element stands for all)
  live,            \* the buffers that are allocated
  aborted          \* a CHECK or LOG(FATAL) ended the process

contextVars == <<state, status, tensor, sums>>
clientVars == <<contextVars, mem, live, aborted>>

Service == INSTANCE JobService

NoTensor == [in |-> "none", out |-> "none", value |-> 0]

ClientInit ==
  /\ Service!Init
  /\ tensor = [j \in JobIds |-> NoTensor] /\ sums = [j \in JobIds |-> 0]
  /\ aborted = FALSE

Submitted(j) == status[j] # "INIT"
NextJob == Cardinality({j \in JobIds : Submitted(j)}) + 1

\* Context::Start: only the first call starts it, the others return false.
StartContext ==
  IF state = "CREATED" THEN Service!Start ELSE UNCHANGED <<state, status>>

\* Context::AllReduceAsync on memory m; a context that does not run is fatal.
AllReduceAsync(in, out, m) ==
  IF state = "RUNNING"
  THEN /\ NextJob \in JobIds
       /\ Service!Submit(NextJob)
       /\ tensor' = [tensor EXCEPT ![NextJob] = [in |-> in, out |-> out, value |-> m[in]]]
       /\ UNCHANGED <<sums, aborted>>
  ELSE aborted' = TRUE /\ UNCHANGED contextVars

JobBegins(j) ==
  /\ Service!Begin(j)
  /\ UNCHANGED <<tensor, sums, mem, live, aborted>>

JobFinishes(j) ==
  /\ Service!Finish(j)
  /\ \E others \in Others :
       /\ sums' = [sums EXCEPT ![j] = others]
       /\ mem' = [mem EXCEPT ![tensor[j].out] = mem[tensor[j].in] + others]
  /\ UNCHANGED <<tensor, live, aborted>>

\* The context's destructor, when the process ends, stops it.
ContextStops ==
  /\ \/ Service!BeginStop
     \/ Service!Drop({j \in JobIds : Service!Undecided(j)}) /\ status' # status
     \/ Service!EndStop /\ ~\E j \in JobIds : Service!Undecided(j)
  /\ UNCHANGED <<tensor, sums, mem, live, aborted>>

\* What a finished job's sum is.
SumOf(j) == tensor[j].value + sums[j]

(* A job that is not decided has its buffers, and nobody wrote its input since *)
(* it was submitted: worker threads read and write them at their own pace.     *)
BuffersHeld ==
  \A j \in JobIds : Service!Undecided(j) =>
    /\ {tensor[j].in, tensor[j].out} \subseteq live
    /\ mem[tensor[j].in] = tensor[j].value
=============================================================================
