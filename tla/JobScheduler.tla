---------------------------- MODULE JobScheduler ----------------------------
(***************************************************************************)
(* The client library between the application and the worker threads of one *)
(* node: the Context, its FifoScheduler with the worker thread barrier, the  *)
(* status of jobs, and the loop in which a worker thread gets a job slice,   *)
(* works on it and reports it, up to Context::Stop, which joins the threads. *)
(*                                                                          *)
(* An action is what one thread does under one lock (the context's, the     *)
(* scheduler's or the barrier's mutex) or between two reads of the atomic    *)
(* context state.  Waiting on a condition variable is an action that is      *)
(* enabled when its predicate holds.  One application thread submits jobs    *)
(* and stops the context, another one may be in WaitForAllJobs.             *)
(*                                                                          *)
(* What a thread does with its slice is one step (see DpdkWorker), which may *)
(* end early once the context is not running any more.                      *)
(***************************************************************************)
EXTENDS Integers, Sequences, FiniteSets

CONSTANTS NumThreads,  \* num_worker_threads
          Numels,      \* the jobs the application submits: their numbers of elements
          StopAllowed  \* the application may stop the context

ASSUME SchedulerAssumption ==
  /\ NumThreads \in Nat \ {0}
  /\ Numels \in Seq(Nat)
  /\ StopAllowed \in BOOLEAN

Threads == 0 .. NumThreads - 1
JobIds  == 1 .. Len(Numels)

VARIABLES
  \* the context
  contextState, contextLocked, currentJobs,
  \* the scheduler: stopped_, queue_, the two maps, the barrier's count_ and flag_
  stopped, queue, undispatched, finished, barrierCount, barrierFlag,
  \* the jobs
  status,
  \* the worker threads: where each is, its slice's job, its copy of flag_
  at, sliceOf, flagCopy,
  \* the application: jobs submitted so far, and its two threads
  submitted, app, waiter,
  \* LOG(FATAL) ends the process
  aborted,
  \* history: slices given to each thread, and slices fully worked on
  taken, worked

contextVars == <<contextState, contextLocked, currentJobs>>
barrierVars == <<barrierCount, barrierFlag>>
queueVars   == <<queue, undispatched, finished>>
threadVars  == <<at, sliceOf, flagCopy>>
appVars     == <<submitted, app, waiter>>
history     == <<taken, worked>>
vars == <<contextVars, stopped, queueVars, barrierVars, status, threadVars,
          appVars, aborted, history>>

Statuses == {"INIT", "QUEUED", "RUNNING", "FINISHED", "FAILED"}
Decided(j) == status[j] \in {"FINISHED", "FAILED"}

TypeOK ==
  /\ contextState \in {"CREATED", "RUNNING", "STOPPING", "STOPPED"}
  /\ contextLocked \in BOOLEAN
  /\ currentJobs \in 0 .. Len(Numels)
  /\ stopped \in BOOLEAN
  /\ queue \in Seq(JobIds)
  /\ \E D \in SUBSET JobIds : undispatched \in [D -> 1 .. NumThreads]
  /\ \E D \in SUBSET JobIds : finished \in [D -> 0 .. NumThreads - 1]
  /\ barrierCount \in {-1} \cup 1 .. NumThreads
  /\ barrierFlag \in BOOLEAN
  /\ status \in [JobIds -> Statuses]
  /\ at \in [Threads -> {"created", "loop", "get", "barrier", "waiting", "dequeue", "work",
                         "empty", "notify", "finish", "account", "exited"}]
  /\ sliceOf \in [Threads -> 0 .. Len(Numels)]
  /\ flagCopy \in [Threads -> BOOLEAN]
  /\ submitted \in 0 .. Len(Numels)
  /\ app \in {"created", "starting", "ready", "enqueue", "blocked", "stopping", "clearing", "joining", "stopped"}
  /\ waiter \in {"idle", "waiting", "returned"}
  /\ aborted \in BOOLEAN
  /\ taken \in [JobIds -> [Threads -> Nat]]
  /\ worked \in [JobIds -> SUBSET Threads]

Init ==
  /\ contextState = "CREATED" /\ contextLocked = FALSE /\ currentJobs = 0
  /\ stopped = FALSE /\ queue = <<>> /\ undispatched = <<>> /\ finished = <<>>
  /\ barrierCount = NumThreads /\ barrierFlag = FALSE
  /\ status = [j \in JobIds |-> "INIT"]
  /\ at = [t \in Threads |-> "created"]
  /\ sliceOf = [t \in Threads |-> 0]
  /\ flagCopy = [t \in Threads |-> FALSE]
  /\ submitted = 0 /\ app = "created" /\ waiter = "idle"
  /\ aborted = FALSE
  /\ taken = [j \in JobIds |-> [t \in Threads |-> 0]]
  /\ worked = [j \in JobIds |-> {}]

Goto(t, where) == at' = [at EXCEPT ![t] = where]

-----------------------------------------------------------------------------
(* How a job is divided *)

SliceNumel(n, t) ==
  (n \div NumThreads) + IF n % NumThreads > t THEN 1 ELSE 0

SliceOffset(n, t) ==
  LET remainder == n % NumThreads
  IN IF remainder > t THEN t * SliceNumel(n, t)
                      ELSE t * SliceNumel(n, t) + remainder

Elements(n, t) == SliceOffset(n, t) .. SliceOffset(n, t) + SliceNumel(n, t) - 1

-----------------------------------------------------------------------------
(* The application *)

\* Context::Start, with the context's mutex to the end: RUNNING before the backend
\* starts the worker threads, which would leave their loop otherwise.
Start ==
  /\ app = "created"
  /\ contextState' = "RUNNING" /\ contextLocked' = TRUE
  /\ app' = "starting"
  /\ UNCHANGED <<currentJobs, stopped, queueVars, barrierVars, status, threadVars,
                 submitted, waiter, aborted, history>>

\* SetupWorker: one thread after the other.
StartThread(t) ==
  /\ app = "starting" /\ at[t] = "created" /\ \A u \in Threads : u < t => at[u] # "created"
  /\ Goto(t, "loop")
  /\ UNCHANGED <<contextVars, stopped, queueVars, barrierVars, status, sliceOf,
                 flagCopy, appVars, aborted, history>>

StartReturns ==
  /\ app = "starting" /\ \A t \in Threads : at[t] # "created"
  /\ contextLocked' = FALSE
  /\ app' = "ready"
  /\ UNCHANGED <<contextState, currentJobs, stopped, queueVars, barrierVars, status,
                 threadVars, submitted, waiter, aborted, history>>

\* AllReduceAsync: count the job, then hand it to the scheduler.
AllReduceAsync ==
  /\ app = "ready" /\ contextState = "RUNNING" /\ ~contextLocked
  /\ submitted < Len(Numels)
  /\ submitted' = submitted + 1
  /\ currentJobs' = currentJobs + 1
  /\ app' = "enqueue"
  /\ UNCHANGED <<contextState, contextLocked, stopped, queueVars, barrierVars,
                 status, threadVars, waiter, aborted, history>>

EnqueueJob ==
  /\ app = "enqueue"
  /\ LET Insert(map, n) == [j \in DOMAIN map \cup {submitted} |->
                              IF j = submitted THEN n ELSE map[j]]
     IN /\ finished' = Insert(finished, 0)
        /\ undispatched' = Insert(undispatched, NumThreads)
  /\ queue' = Append(queue, submitted)
  /\ status' = [status EXCEPT ![submitted] = "QUEUED"]
  /\ app' \in {"ready", "blocked"}
  /\ UNCHANGED <<contextVars, stopped, barrierVars, threadVars, submitted, waiter,
                 aborted, history>>

\* AllReduce submits like AllReduceAsync and then blocks in Job::WaitToComplete.
WaitToComplete ==
  /\ app = "blocked" /\ Decided(submitted)
  /\ app' = "ready"
  /\ UNCHANGED <<contextVars, stopped, queueVars, barrierVars, status, threadVars,
                 submitted, waiter, aborted, history>>

\* WaitForAllJobs, called while the context runs.
StartWaiting ==
  /\ waiter = "idle" /\ contextState = "RUNNING"
  /\ waiter' = "waiting"
  /\ UNCHANGED <<contextVars, stopped, queueVars, barrierVars, status, threadVars,
                 submitted, app, aborted, history>>

WakeWaiter ==
  /\ waiter = "waiting" /\ ~contextLocked /\ currentJobs = 0
  /\ waiter' = "returned"
  /\ UNCHANGED <<contextVars, stopped, queueVars, barrierVars, status, threadVars,
                 submitted, app, aborted, history>>

\* Context::Stop takes the context's mutex, and keeps it to the end.
Stop ==
  /\ StopAllowed /\ app = "ready" /\ contextState = "RUNNING" /\ ~contextLocked
  /\ contextLocked' = TRUE
  /\ contextState' = "STOPPING"
  /\ app' = "stopping"
  /\ UNCHANGED <<currentJobs, stopped, queueVars, barrierVars, status, threadVars,
                 submitted, waiter, aborted, history>>

\* Scheduler::Stop
StopScheduler ==
  /\ app = "stopping"
  /\ stopped' = TRUE
  /\ app' = "clearing"
  /\ UNCHANGED <<contextVars, queueVars, barrierVars, status, threadVars, submitted,
                 waiter, aborted, history>>

\* The rest of FifoScheduler::Stop: destroy the barrier, fail the queued jobs,
\* forget everything.
ClearScheduler ==
  /\ app = "clearing"
  /\ barrierCount' = -1
  /\ status' = [j \in JobIds |->
                  IF \E i \in DOMAIN queue : queue[i] = j THEN "FAILED" ELSE status[j]]
  /\ queue' = <<>> /\ undispatched' = <<>> /\ finished' = <<>>
  /\ currentJobs' = 0
  /\ app' = "joining"
  /\ UNCHANGED <<contextState, contextLocked, stopped, barrierFlag, threadVars,
                 submitted, waiter, aborted, history>>

\* CleanupWorker joins the worker threads; then the context is stopped.
JoinThreads ==
  /\ app = "joining" /\ \A t \in Threads : at[t] = "exited"
  /\ contextState' = "STOPPED" /\ contextLocked' = FALSE
  /\ app' = "stopped"
  /\ UNCHANGED <<currentJobs, stopped, queueVars, barrierVars, status, threadVars,
                 submitted, waiter, aborted, history>>

-----------------------------------------------------------------------------
(* A worker thread *)

\* The loop condition, and the same check in Context::GetJobSlice.
CheckContext(t) ==
  /\ at[t] = "loop"
  /\ Goto(t, IF contextState = "RUNNING" THEN "get" ELSE "exited")
  /\ UNCHANGED <<contextVars, stopped, queueVars, barrierVars, status, sliceOf,
                 flagCopy, appVars, aborted, history>>

\* FifoScheduler::GetJobSlice up to releasing the lock for the barrier.
GetJobSlice(t) ==
  /\ at[t] = "get"
  /\ Goto(t, IF stopped THEN "loop" ELSE "barrier")
  /\ UNCHANGED <<contextVars, stopped, queueVars, barrierVars, status, sliceOf,
                 flagCopy, appVars, aborted, history>>

BarrierWaitBug(t) ==
  /\ at[t] = "barrier"
  /\ Goto(t, "dequeue")
  /\ UNCHANGED <<contextVars, stopped, queueVars, barrierVars, status, sliceOf,
                 flagCopy, appVars, aborted, history>>

\* Barrier::Wait: fatal on a destroyed barrier; the last thread to arrive flips
\* the flag and goes on, the others wait for the flag.
BarrierWait(t) ==
  /\ at[t] = "barrier"
  /\ \/ /\ barrierCount = -1
        /\ aborted' = TRUE
        /\ UNCHANGED <<at, barrierVars, flagCopy>>
     \/ /\ barrierCount > 1
        /\ barrierCount' = barrierCount - 1
        /\ flagCopy' = [flagCopy EXCEPT ![t] = barrierFlag]
        /\ Goto(t, "waiting")
        /\ UNCHANGED <<barrierFlag, aborted>>
     \/ /\ barrierCount = 1
        /\ barrierCount' = NumThreads
        /\ barrierFlag' = ~barrierFlag
        /\ Goto(t, "dequeue")
        /\ UNCHANGED <<flagCopy, aborted>>
  /\ UNCHANGED <<contextVars, stopped, queueVars, status, sliceOf, appVars, history>>

BarrierWake(t) ==
  /\ at[t] = "waiting" /\ (barrierCount = -1 \/ flagCopy[t] # barrierFlag)
  /\ Goto(t, "dequeue")
  /\ UNCHANGED <<contextVars, stopped, queueVars, barrierVars, status, sliceOf,
                 flagCopy, appVars, aborted, history>>

\* The rest of GetJobSlice: wait for a job and take this thread's slice of it.
TakeSlice(t) ==
  /\ at[t] = "dequeue" /\ ~stopped /\ queue # <<>>
  /\ LET j == Head(queue)
     IN /\ IF undispatched[j] = 1
           THEN /\ undispatched' = [i \in DOMAIN undispatched \ {j} |-> undispatched[i]]
                /\ queue' = Tail(queue)
           ELSE /\ undispatched' = [undispatched EXCEPT ![j] = @ - 1]
                /\ UNCHANGED queue
        /\ status' = [status EXCEPT ![j] = "RUNNING"]
        /\ sliceOf' = [sliceOf EXCEPT ![t] = j]
        /\ taken' = [taken EXCEPT ![j][t] = @ + 1]
        /\ Goto(t, IF SliceNumel(Numels[j], t) > 0 THEN "work" ELSE "empty")
  /\ UNCHANGED <<contextVars, stopped, finished, barrierVars, flagCopy, appVars,
                 aborted, worked>>

WakeStopped(t) ==
  /\ at[t] = "dequeue" /\ stopped
  /\ Goto(t, "loop")
  /\ UNCHANGED <<contextVars, stopped, queueVars, barrierVars, status, sliceOf,
                 flagCopy, appVars, aborted, history>>

\* A slice without elements is reported only while the context runs.
SkipEmptySlice(t) ==
  /\ at[t] = "empty"
  /\ Goto(t, IF contextState = "RUNNING" THEN "notify" ELSE "loop")
  /\ UNCHANGED <<contextVars, stopped, queueVars, barrierVars, status, sliceOf,
                 flagCopy, appVars, aborted, history>>

FinishWork(t) ==
  /\ at[t] = "work"
  /\ worked' = [worked EXCEPT ![sliceOf[t]] = @ \cup {t}]
  /\ Goto(t, "notify")
  /\ UNCHANGED <<contextVars, stopped, queueVars, barrierVars, status, sliceOf,
                 flagCopy, appVars, aborted, taken>>

\* The receive loop ends when the context is no longer running.
AbandonWork(t) ==
  /\ at[t] = "work" /\ contextState # "RUNNING"
  /\ Goto(t, "notify")
  /\ UNCHANGED <<contextVars, stopped, queueVars, barrierVars, status, sliceOf,
                 flagCopy, appVars, aborted, history>>

NotifyJobSliceCompletionBug(t) ==
  /\ at[t] = "notify" /\ ~stopped
  /\ finished' = [i \in DOMAIN finished \ {sliceOf[t]} |-> finished[i]]
  /\ Goto(t, "finish")
  /\ UNCHANGED <<contextVars, stopped, queue, undispatched, barrierVars, status,
                 sliceOf, flagCopy, appVars, aborted, history>>

NotifyComparesFirstBug(t) ==
  /\ at[t] = "notify" /\ ~stopped
  /\ IF finished[sliceOf[t]] = NumThreads
     THEN /\ finished' = [i \in DOMAIN finished \ {sliceOf[t]} |-> finished[i]]
          /\ Goto(t, "finish")
     ELSE /\ finished' = [finished EXCEPT ![sliceOf[t]] = @ + 1]
          /\ Goto(t, "loop")
  /\ UNCHANGED <<contextVars, stopped, queue, undispatched, barrierVars, status,
                 sliceOf, flagCopy, appVars, aborted, history>>

\* FifoScheduler::NotifyJobSliceCompletion
NotifyJobSliceCompletion(t) ==
  /\ at[t] = "notify"
  /\ LET j == sliceOf[t]
     IN \/ /\ stopped
           /\ status' = [status EXCEPT ![j] = "FAILED"]
           /\ Goto(t, "loop")
           /\ UNCHANGED finished
        \/ /\ ~stopped /\ finished[j] + 1 = NumThreads
           /\ finished' = [i \in DOMAIN finished \ {j} |-> finished[i]]
           /\ Goto(t, "finish")
           /\ UNCHANGED status
        \/ /\ ~stopped /\ finished[j] + 1 < NumThreads
           /\ finished' = [finished EXCEPT ![j] = @ + 1]
           /\ Goto(t, "loop")
           /\ UNCHANGED status
  /\ UNCHANGED <<contextVars, stopped, queue, undispatched, barrierVars, sliceOf,
                 flagCopy, appVars, aborted, history>>

\* Context::NotifyJobSliceCompletion for the last slice of a job.
FinishJob(t) ==
  /\ at[t] = "finish"
  /\ status' = [status EXCEPT ![sliceOf[t]] = "FINISHED"]
  /\ Goto(t, "account")
  /\ UNCHANGED <<contextVars, stopped, queueVars, barrierVars, sliceOf, flagCopy,
                 appVars, aborted, history>>

AccountJob(t) ==
  /\ at[t] = "account" /\ ~contextLocked
  /\ currentJobs' = currentJobs - 1
  /\ Goto(t, "loop")
  /\ UNCHANGED <<contextState, contextLocked, stopped, queueVars, barrierVars, status,
                 sliceOf, flagCopy, appVars, aborted, history>>

-----------------------------------------------------------------------------

ThreadStep(t) ==
  \/ CheckContext(t) \/ GetJobSlice(t) \/ BarrierWait(t) \/ BarrierWake(t)
  \/ TakeSlice(t) \/ WakeStopped(t) \/ SkipEmptySlice(t)
  \/ FinishWork(t) \/ AbandonWork(t)
  \/ NotifyJobSliceCompletion(t) \/ FinishJob(t) \/ AccountJob(t)

StartStep == Start \/ StartReturns \/ \E t \in Threads : StartThread(t)

StopStep == StopScheduler \/ ClearScheduler \/ JoinThreads

\* The process is gone, the context is stopped, or the application has submitted
\* all it wants to: whether its jobs then finish is JobsFinish's question.
Idle == /\ aborted \/ app = "stopped" \/ (submitted = Len(Numels) /\ app = "ready")
        /\ UNCHANGED vars

Next ==
  \/ ~aborted /\ \/ StartStep \/ AllReduceAsync \/ EnqueueJob \/ WaitToComplete \/ StartWaiting \/ WakeWaiter
                 \/ Stop \/ StopStep
                 \/ \E t \in Threads : ThreadStep(t)
  \/ Idle

Spec == Init /\ [][Next]_vars

\* Threads are scheduled, a slice is worked on to its end, and the application
\* goes on submitting; it need not stop the context.
Fairness ==
  /\ \A t \in Threads : WF_vars(~aborted /\ ThreadStep(t))
  /\ WF_vars(~aborted /\ (StartStep \/ AllReduceAsync \/ EnqueueJob \/ WaitToComplete \/ StopStep))
  /\ WF_vars(~aborted /\ WakeWaiter)

FairSpec == Spec /\ Fairness

-----------------------------------------------------------------------------
(* Properties *)

\* Each step of the context, its scheduler and its threads is a step of the service
\* an application relies on (JobService): jobs finish in the order of submission
\* although each thread reports on its own, a job that was dropped by Stop is not
\* finished afterwards by a thread that was about to, and no status is skipped.
Service == INSTANCE JobService WITH state <- contextState

ImplementsService == Service!Spec

\* A thread gets one slice per job, and a slice of the next job only after every
\* thread has taken and left its slice of this one: the barrier keeps all
\* threads on the same job, so that slices never compete for switch slots.
JobsInLockstep ==
  \A t, u \in Threads : \A j \in JobIds :
    /\ taken[j][t] <= 1
    /\ (taken[j][t] = 1 /\ j > 1) =>
         /\ taken[j - 1][u] = 1
         /\ ~(sliceOf[u] = j - 1 /\ at[u] \in {"work", "empty", "notify"})

\* Once a job has left the queue its slices cover the tensor, without overlap.
SlicesPartition ==
  \A j \in JobIds : (\A t \in Threads : taken[j][t] = 1) =>
    /\ UNION {Elements(Numels[j], t) : t \in Threads} = 0 .. Numels[j] - 1
    /\ \A t, u \in Threads :
         t # u => Elements(Numels[j], t) \cap Elements(Numels[j], u) = {}

\* While the context runs, a job that reads FINISHED has been worked on completely,
\* by every thread that got elements of it (NotifyJobSliceCompletion).
FinishedMeansComplete ==
  contextState = "RUNNING" =>
    \A j \in JobIds : status[j] = "FINISHED" =>
      \A t \in Threads : SliceNumel(Numels[j], t) > 0 => t \in worked[j]

\* The counts of the scheduler's maps agree with what the threads did, and nobody
\* looks up a job that is not there (unordered_map::at would throw): no job leaves
\* the queue or finishes too early or never.  While the context is stopping, a
\* thread with an empty slice leaves without being counted.
MapsAgree ==
  LET HasSlice(t, j) == sliceOf[t] = j /\ at[t] \in {"work", "empty", "notify"}
      Took(j)        == {t \in Threads : taken[j][t] = 1}
      Left(j)        == {t \in Took(j) : ~HasSlice(t, j)}
  IN ~stopped =>
       \A j \in JobIds :
         /\ j \in DOMAIN undispatched => undispatched[j] = NumThreads - Cardinality(Took(j))
         /\ (j \in DOMAIN finished /\ contextState = "RUNNING") =>
              finished[j] = Cardinality(Left(j))
         /\ (\E t \in Threads : HasSlice(t, j)) => j \in DOMAIN finished
         /\ (\E i \in DOMAIN queue : queue[i] = j) <=> j \in DOMAIN undispatched

\* The bookkeeping of the scheduler: shapes, maps and the arithmetic of slices.
Consistent == TypeOK /\ MapsAgree /\ SlicesPartition

\* While the context runs, WaitForAllJobs returns only when all submitted jobs are
\* finished, although the last slice of each is reported in several steps.
WaitReturnsLate ==
  [][(waiter = "waiting" /\ waiter' = "returned" /\ contextState = "RUNNING") =>
       \A j \in 1 .. submitted : status[j] = "FINISHED"]_vars

\* Stop waits for the worker threads and returns.
StopReturns == (contextState = "STOPPING") ~> (contextState = "STOPPED" \/ aborted)

\* Every submitted job finishes, unless the context is stopped.
JobsFinish ==
  \A j \in JobIds : (submitted >= j) ~> (status[j] = "FINISHED" \/ contextState # "RUNNING")

\* WaitForAllJobs returns, unless the context is stopped.
WaiterReturns == (waiter = "waiting") ~> (waiter = "returned" \/ contextState # "RUNNING")

\* Jobs come to their end, and whoever waits for them notices.
JobsEnd == JobsFinish /\ WaiterReturns

=============================================================================
