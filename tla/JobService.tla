------------------------------- MODULE JobService -------------------------------
(* What a context promises the application about the jobs it submits, without  *)
(* worker threads, slices or a scheduler: jobs go through the states of        *)
(* JobStatus, they finish in the order of submission while the context runs,   *)
(* and once it stops any job that was not decided may be dropped.              *)
EXTENDS Naturals

CONSTANT JobIds     \* 1 .. n, in the order of submission

VARIABLES state,    \* of the context
          status    \* of each job

vars == <<state, status>>

Undecided(j) == status[j] \in {"QUEUED", "RUNNING"}

Init == state = "CREATED" /\ status = [j \in JobIds |-> "INIT"]

Start == state = "CREATED" /\ state' = "RUNNING" /\ UNCHANGED status

SetStatus(j, s) == status' = [status EXCEPT ![j] = s]

Submit(j) ==
  /\ state = "RUNNING" /\ status[j] = "INIT"
  /\ \A i \in JobIds : i < j => status[i] # "INIT"
  /\ SetStatus(j, "QUEUED")
  /\ UNCHANGED state

\* The first thread takes its slice of the job.
Begin(j) ==
  /\ status[j] = "QUEUED"
  /\ \A i \in JobIds : i < j => status[i] = "FINISHED"
  /\ SetStatus(j, "RUNNING")
  /\ UNCHANGED state

Finish(j) ==
  /\ status[j] = "RUNNING"
  /\ \A i \in JobIds : i < j => status[i] = "FINISHED"
  /\ SetStatus(j, "FINISHED")
  /\ UNCHANGED state

BeginStop == state = "RUNNING" /\ state' = "STOPPING" /\ UNCHANGED status

\* Stopping fails the jobs it still knows, in one or several steps.
Drop(jobs) ==
  /\ state = "STOPPING" /\ \A j \in jobs : Undecided(j)
  /\ status' = [j \in JobIds |-> IF j \in jobs THEN "FAILED" ELSE status[j]]
  /\ UNCHANGED state

EndStop == state = "STOPPING" /\ state' = "STOPPED" /\ UNCHANGED status

Next ==
  \/ Start \/ BeginStop \/ EndStop
  \/ \E j \in JobIds : Submit(j) \/ Begin(j) \/ Finish(j)
  \/ \E jobs \in SUBSET JobIds : Drop(jobs)

Spec == Init /\ [][Next]_vars
=============================================================================
