------------------------- MODULE JobSchedulerProofs -------------------------
(***************************************************************************)
(* Proofs about JobScheduler, for every number of worker threads and every  *)
(* sequence of jobs, with or without a stop at any moment.                  *)
(***************************************************************************)
EXTENDS JobScheduler, FiniteSetTheorems, SequenceTheorems, TLAPS

Cleared == app \in {"joining", "stopped"}

\* The last job that was queued, and the last one that has left the queue.
Last       == IF app = "enqueue" THEN submitted - 1 ELSE submitted
Dispatched == Last - Len(queue)

Holding == {"work", "empty", "notify"}
InSlice == Holding \cup {"finish", "account"}

Left(t, j)  == sliceOf[t] > j \/ (sliceOf[t] = j /\ at[t] \notin Holding)
Gone(j)     == {t \in Threads : Left(t, j)}
Behind(j)   == {t \in Threads : sliceOf[t] < j}
Blocked     == {t \in Threads : at[t] = "waiting" /\ flagCopy[t] = barrierFlag}
Released(t) == at[t] = "dequeue" \/ (at[t] = "waiting" /\ flagCopy[t] # barrierFlag)

\* A thread has seen that the context stops, and will not be at the barrier again.
Leaving == contextState # "RUNNING" /\ \E t \in Threads : at[t] \in {"loop", "exited"}

-----------------------------------------------------------------------------
(* The inductive invariant *)

\* How far the application is tells the state of the context.
Phases ==
  /\ app = "created" <=> contextState = "CREATED"
  /\ app \in {"starting", "ready", "enqueue", "blocked"} <=> contextState = "RUNNING"
  /\ app \in {"stopping", "clearing", "joining"} <=> contextState = "STOPPING"
  /\ app = "stopped" <=> contextState = "STOPPED"
  /\ stopped <=> app \in {"clearing", "joining", "stopped"}
  /\ contextLocked <=> app \in {"starting", "stopping", "clearing", "joining"}
  /\ app = "created" => submitted = 0 /\ \A t \in Threads : at[t] = "created"
  /\ app = "stopped" => \A t \in Threads : at[t] = "exited"
  /\ app = "enqueue" => submitted > 0

\* The queue holds the jobs after the last one dispatched, and their first map says
\* how many threads have not taken them.
QueueInOrder ==
  ~Cleared =>
    /\ Dispatched >= 0
    /\ \A i \in 1 .. Len(queue) : queue[i] = Dispatched + i
    /\ DOMAIN undispatched = Dispatched + 1 .. Last
    /\ \A j \in Dispatched + 1 .. Last : undispatched[j] = Cardinality(Behind(j))

\* Threads take the jobs in turn, and never get ahead of one that is in a slice.
Turns ==
  /\ \A t \in Threads : sliceOf[t] <= Last /\ (at[t] \in InSlice => sliceOf[t] > 0)
  /\ \A j \in JobIds, t \in Threads : taken[j][t] = IF j <= sliceOf[t] THEN 1 ELSE 0
  /\ \A t, u \in Threads : sliceOf[t] > sliceOf[u] =>
       sliceOf[t] = sliceOf[u] + 1 /\ at[u] \notin InSlice

\* The barrier: either nobody has gone through since all took the last job dispatched,
\* or those it has released are the ones that have not taken the next.
Rounds ==
  ~stopped =>
    /\ barrierCount = NumThreads - Cardinality(Blocked)
    /\ \/ \A t \in Threads : sliceOf[t] = Dispatched /\ ~Released(t)
       \/ /\ \A t \in Threads : sliceOf[t] = IF Released(t) THEN Dispatched ELSE Dispatched + 1
          /\ \E t \in Threads : Released(t)

\* The second map counts the threads that have left a job, except for those that
\* leave without a word because the context stops.
Reports ==
  ~stopped =>
    /\ DOMAIN finished \subseteq 1 .. Last
    /\ \A j \in 1 .. Last :
         /\ (\E t \in Threads : ~Left(t, j)) => j \in DOMAIN finished
         /\ j \in DOMAIN finished =>
              /\ finished[j] <= Cardinality(Gone(j))
              /\ ~Leaving => finished[j] = Cardinality(Gone(j))
         /\ j \notin DOMAIN finished =>
              \/ status[j] = "FINISHED"
              \/ \E t \in Threads : at[t] = "finish" /\ sliceOf[t] = j

\* What the status of a job says about the threads, and the other way round.
StatusFits ==
  /\ \A j \in JobIds :
       /\ status[j] = "INIT" <=> j > Last
       /\ status[j] = "QUEUED" => \A t \in Threads : sliceOf[t] < j
       /\ status[j] = "RUNNING" => \E t \in Threads : sliceOf[t] >= j
       /\ status[j] = "FINISHED" => \A t \in Threads : Left(t, j)
       /\ status[j] = "FAILED" => stopped
  /\ \A t \in Threads : \A j \in JobIds :
       /\ j < sliceOf[t] => status[j] = "FINISHED"
       /\ j = sliceOf[t] =>
            /\ at[t] \in Holding => status[j] \in {"RUNNING", "FAILED"}
            /\ at[t] = "finish" => status[j] = "RUNNING" /\ \A u \in Threads : Left(u, j)
            /\ at[t] = "account" => status[j] = "FINISHED"
  /\ \A t, u \in Threads :
       (at[t] \in {"finish", "account"} /\ at[u] \in {"finish", "account"}
        /\ sliceOf[t] = sliceOf[u]) => t = u

\* The context counts the jobs that are not finished or not accounted for.
Open(j) == status[j] # "FINISHED" \/ \E t \in Threads : at[t] = "account" /\ sliceOf[t] = j

Accounts == ~Cleared => currentJobs = Cardinality({j \in 1 .. submitted : Open(j)})

\* While the context runs a thread leaves no slice that it has not worked on.
Efforts ==
  contextState = "RUNNING" =>
    \A t \in Threads : \A j \in JobIds :
      /\ SliceNumel(Numels[j], t) > 0
         /\ (Left(t, j) \/ (sliceOf[t] = j /\ at[t] = "notify")) => t \in worked[j]
      /\ sliceOf[t] = j /\ at[t] = "empty" => ~(SliceNumel(Numels[j], t) > 0)

IInv == /\ TypeOK /\ Phases /\ QueueInOrder /\ Turns /\ Rounds /\ Reports
        /\ StatusFits /\ Accounts /\ Efforts

-----------------------------------------------------------------------------
(* Sets of threads *)

LEMMA ThreadsType ==
  /\ NumThreads \in Nat /\ NumThreads >= 1
  /\ Len(Numels) \in Nat /\ JobIds = 1 .. Len(Numels)
  /\ \A j \in JobIds : Numels[j] \in Nat /\ j \in Nat
  /\ Threads \subseteq Nat
  /\ IsFiniteSet(Threads) /\ Cardinality(Threads) = NumThreads
<1>1. NumThreads \in Nat /\ NumThreads >= 1 /\ Numels \in Seq(Nat)
  BY SchedulerAssumption
<1>2. Len(Numels) \in Nat /\ \A j \in 1 .. Len(Numels) : Numels[j] \in Nat
  BY <1>1, LenProperties, ElementOfSeq
<1>3. IsFiniteSet(Threads) /\ Cardinality(Threads) = NumThreads
  <2>1. /\ IsFiniteSet(0 .. NumThreads - 1)
        /\ Cardinality(0 .. NumThreads - 1) =
             IF 0 > NumThreads - 1 THEN 0 ELSE NumThreads - 1 - 0 + 1
    BY <1>1, FS_Interval
  <2> QED BY <1>1, <2>1 DEF Threads
<1> QED BY <1>1, <1>2, <1>3 DEF JobIds, Threads

LEMMA SomeThreads ==
  ASSUME NEW S \in SUBSET Threads
  PROVE  /\ IsFiniteSet(S) /\ Cardinality(S) \in Nat /\ Cardinality(S) <= NumThreads
         /\ Cardinality(S) = 0 <=> S = {}
         /\ Cardinality(S) = NumThreads => S = Threads
<1>1. IsFiniteSet(S) /\ Cardinality(S) <= Cardinality(Threads)
      /\ (Cardinality(S) = Cardinality(Threads) => S = Threads)
  BY ThreadsType, FS_Subset
<1> QED BY <1>1, ThreadsType, FS_CardinalityType, FS_EmptySet

LEMMA OneMore ==
  ASSUME NEW S \in SUBSET Threads, NEW t \in Threads, t \notin S
  PROVE  Cardinality(S \cup {t}) = Cardinality(S) + 1
BY SomeThreads, FS_AddElement

LEMMA OneLess ==
  ASSUME NEW S \in SUBSET Threads, NEW t \in S
  PROVE  Cardinality(S \ {t}) = Cardinality(S) - 1
BY SomeThreads, FS_RemoveElement

\* All threads but one.
LEMMA AllOthers ==
  ASSUME NEW S \in SUBSET Threads, NEW t \in Threads, t \notin S,
         Cardinality(S) >= NumThreads - 1
  PROVE  S = Threads \ {t} /\ Cardinality(S) = NumThreads - 1
<1>1. Cardinality(S \cup {t}) = Cardinality(S) + 1
  BY OneMore
<1>2. Cardinality(S \cup {t}) <= NumThreads
      /\ (Cardinality(S \cup {t}) = NumThreads => S \cup {t} = Threads)
  BY SomeThreads
<1>3. Cardinality(S) \in Nat /\ NumThreads \in Nat
  BY SomeThreads, ThreadsType
<1>4. Cardinality(S) = NumThreads - 1 /\ S \cup {t} = Threads
  BY <1>1, <1>2, <1>3
<1> QED BY <1>4

-----------------------------------------------------------------------------
(* What leaves each part of the invariant alone *)

LEMMA LastType ==
  ASSUME TypeOK, Phases
  PROVE  /\ Last \in Nat /\ Last <= submitted /\ submitted \in Nat /\ 1 .. Last \subseteq JobIds
         /\ Len(queue) \in Nat /\ Dispatched \in Int /\ Dispatched <= Last
         /\ \A t \in Threads : sliceOf[t] \in Nat
<1>1. submitted \in Nat /\ submitted <= Len(Numels) /\ Len(Numels) \in Nat
  BY ThreadsType DEF TypeOK
<1>2. Last \in Nat /\ Last <= submitted
  BY <1>1 DEF Phases, Last
<1>3. Len(queue) \in Nat
  BY LenProperties DEF TypeOK
<1>4. \A t \in Threads : sliceOf[t] \in Nat
  BY ThreadsType DEF TypeOK
<1> QED BY <1>1, <1>2, <1>3, <1>4 DEF JobIds, Dispatched

LEMMA QueueFrame ==
  ASSUME QueueInOrder, Cleared => Cleared', Last' = Last,
         UNCHANGED <<queue, undispatched, sliceOf>>
  PROVE  QueueInOrder'
<1>1. \A j : Behind(j)' = Behind(j)
  BY DEF Behind
<1>2. Dispatched' = Dispatched
  BY DEF Dispatched
<1> QED BY <1>1, <1>2 DEF QueueInOrder

LEMMA TurnsFrame ==
  ASSUME TypeOK, Phases, Turns, Last' \in Int, Last' >= Last, UNCHANGED <<sliceOf, taken>>,
         \A u \in Threads : at'[u] \in InSlice => at[u] \in InSlice
  PROVE  Turns'
BY LastType DEF Turns

LEMMA RoundsFrame ==
  ASSUME Rounds, stopped => stopped', Dispatched' = Dispatched, Blocked' = Blocked,
         UNCHANGED <<barrierCount, sliceOf>>,
         \A u \in Threads : Released(u)' <=> Released(u)
  PROVE  Rounds'
BY DEF Rounds

LEMMA ReportsFrame ==
  ASSUME Reports, stopped => stopped', Last' = Last, Leaving => Leaving',
         UNCHANGED <<finished, sliceOf>>,
         \A u \in Threads : \A j \in 1 .. Last : Left(u, j)' <=> Left(u, j),
         \A j \in 1 .. Last : status[j] = "FINISHED" => status'[j] = "FINISHED",
         \A u \in Threads : at[u] = "finish" => at'[u] = "finish"
  PROVE  Reports'
<1>1. \A j \in 1 .. Last : Gone(j)' = Gone(j)
  BY DEF Gone
<1> QED BY <1>1 DEF Reports

LEMMA StatusFrame ==
  ASSUME StatusFits, stopped => stopped', Last' = Last, UNCHANGED <<status, sliceOf>>,
         \A u \in Threads : \A j \in JobIds : Left(u, j) => Left(u, j)',
         \A u \in Threads : /\ at'[u] \in Holding => at[u] \in Holding
                            /\ at'[u] = "finish" => at[u] = "finish"
                            /\ at'[u] = "account" => at[u] = "account"
  PROVE  StatusFits'
BY DEF StatusFits

LEMMA AccountsFrame ==
  ASSUME Accounts, Cleared => Cleared', UNCHANGED <<status, currentJobs, submitted, sliceOf>>,
         \A u \in Threads : at'[u] = "account" <=> at[u] = "account"
  PROVE  Accounts'
<1>1. \A j : Open(j)' <=> Open(j)
  BY DEF Open
<1>2. {j \in 1 .. submitted : Open(j)}' = {j \in 1 .. submitted : Open(j)}
  BY <1>1
<1> QED BY <1>2 DEF Accounts

LEMMA EffortsFrame ==
  ASSUME Efforts, contextState' = "RUNNING" => contextState = "RUNNING", UNCHANGED sliceOf,
         \A j \in JobIds : worked[j] \subseteq worked'[j],
         \A u \in Threads : \A j \in JobIds : Left(u, j)' => Left(u, j),
         \A u \in Threads : /\ at'[u] = "notify" => at[u] = "notify"
                            /\ at'[u] = "empty" => at[u] = "empty"
  PROVE  Efforts'
BY DEF Efforts

-----------------------------------------------------------------------------
(* The initial state *)

LEMMA InitIInv == Init => IInv
<1> SUFFICES ASSUME Init PROVE IInv
  OBVIOUS
<1>0. Last = 0 /\ Len(queue) = 0 /\ Dispatched = 0 /\ ~Cleared
  <2>1. Last = 0 /\ ~Cleared
    BY DEF Init, Last, Cleared
  <2>2. Len(queue) = 0
    BY DEF Init
  <2> QED BY <2>1, <2>2 DEF Dispatched
<1>1. TypeOK
  <2>1. /\ <<>> \in Seq(JobIds) /\ {} \in SUBSET JobIds
        /\ <<>> \in [{} -> 1 .. NumThreads] /\ <<>> \in [{} -> 0 .. NumThreads - 1]
    BY EmptySeq
  <2>2. /\ \E D \in SUBSET JobIds : undispatched \in [D -> 1 .. NumThreads]
        /\ \E D \in SUBSET JobIds : finished \in [D -> 0 .. NumThreads - 1]
    BY <2>1 DEF Init
  <2>3. /\ NumThreads \in {-1} \cup 1 .. NumThreads /\ 0 \in 0 .. Len(Numels)
        /\ queue \in Seq(JobIds)
    BY <2>1, ThreadsType DEF Init
  <2>4. /\ status \in [JobIds -> Statuses] /\ sliceOf \in [Threads -> 0 .. Len(Numels)]
        /\ flagCopy \in [Threads -> BOOLEAN]
        /\ taken \in [JobIds -> [Threads -> Nat]] /\ worked \in [JobIds -> SUBSET Threads]
    BY <2>3 DEF Init, Statuses
  <2> QED BY <2>2, <2>3, <2>4 DEF Init, TypeOK
<1>2. Phases
  BY DEF Init, Phases
<1>3. QueueInOrder
  <2>1. DOMAIN undispatched = {}
    BY DEF Init
  <2> QED BY <1>0, <2>1 DEF QueueInOrder
<1>4. Turns
  BY <1>0, ThreadsType DEF Init, Turns, InSlice, Holding
<1>5. Rounds
  <2>1. Blocked = {} /\ \A t \in Threads : ~Released(t)
    BY DEF Init, Blocked, Released
  <2>2. Cardinality(Blocked) = 0
    BY <2>1, FS_EmptySet
  <2> QED BY <1>0, <2>1, <2>2, ThreadsType DEF Init, Rounds
<1>6. Reports
  <2>1. DOMAIN finished = {}
    BY DEF Init
  <2> QED BY <1>0, <2>1 DEF Reports
<1>7. StatusFits
  BY <1>0, ThreadsType DEF Init, StatusFits, Holding
<1>8. Accounts
  <2>1. {j \in 1 .. submitted : Open(j)} = {}
    BY DEF Init
  <2> QED BY <2>1, FS_EmptySet DEF Init, Accounts
<1>9. Efforts
  BY DEF Init, Efforts
<1> QED BY <1>1, <1>2, <1>3, <1>4, <1>5, <1>6, <1>7, <1>8, <1>9 DEF IInv

-----------------------------------------------------------------------------
(* The application *)

LEMMA SameThreads ==
  ASSUME UNCHANGED <<at, sliceOf, flagCopy, barrierFlag>>
  PROVE  /\ \A t, j : Left(t, j)' <=> Left(t, j)
         /\ Blocked' = Blocked
         /\ \A t : Released(t)' <=> Released(t)
BY DEF Left, Blocked, Released

\* A step of the application that leaves the scheduler and the threads alone.
LEMMA ApplicationFrame ==
  ASSUME IInv, UNCHANGED <<threadVars, barrierVars, queueVars, status, history>>,
         Last' = Last, stopped => stopped', Cleared => Cleared', Leaving => Leaving'
  PROVE  /\ QueueInOrder' /\ Turns' /\ Rounds' /\ Reports' /\ StatusFits'
         /\ (contextState' = "RUNNING" => contextState = "RUNNING") => Efforts'
<1>1. UNCHANGED <<at, sliceOf, flagCopy, barrierCount, barrierFlag, queue, undispatched,
                  finished, taken, worked>>
  BY DEF threadVars, barrierVars, queueVars, history
<1>2. /\ \A t, j : Left(t, j)' <=> Left(t, j)
      /\ Blocked' = Blocked
      /\ \A t : Released(t)' <=> Released(t)
  BY <1>1, SameThreads
<1>3. Dispatched' = Dispatched
  BY <1>1 DEF Dispatched
<1>4. QueueInOrder'
  BY <1>1, QueueFrame DEF IInv
<1>5. Turns'
  BY <1>1, TurnsFrame, LastType DEF IInv
<1>6. Rounds'
  BY <1>1, <1>2, <1>3, RoundsFrame DEF IInv
<1>7. Reports'
  BY <1>1, <1>2, ReportsFrame DEF IInv
<1>8. StatusFits'
  BY <1>1, <1>2, StatusFrame DEF IInv
<1>9. (contextState' = "RUNNING" => contextState = "RUNNING") => Efforts'
  BY <1>1, <1>2, EffortsFrame DEF IInv
<1> QED BY <1>4, <1>5, <1>6, <1>7, <1>8, <1>9

LEMMA StartIInv == IInv /\ Start => IInv'
<1> SUFFICES ASSUME IInv, Start PROVE IInv'
  OBVIOUS
<1>1. TypeOK'
  BY DEF IInv, TypeOK, Start, queueVars, barrierVars, threadVars, history
<1>2. Phases'
  BY DEF IInv, Phases, Start
<1>3. Last' = Last /\ ~Cleared /\ ~Cleared' /\ ~Leaving
  BY DEF IInv, Phases, Start, Last, Cleared, Leaving
<1>4. QueueInOrder' /\ Turns' /\ Rounds' /\ Reports' /\ StatusFits'
  BY <1>3, ApplicationFrame DEF Start
<1>5. Accounts'
  BY <1>3, AccountsFrame DEF IInv, Start, threadVars
<1>6. Efforts'
  <2>1. \A t \in Threads : at'[t] = "created" /\ sliceOf'[t] = 0
    BY ThreadsType DEF IInv, TypeOK, Phases, Turns, Start, Last, threadVars
  <2>2. \A t \in Threads : \A j \in JobIds :
          ~Left(t, j)' /\ at'[t] # "notify" /\ at'[t] # "empty"
    BY <2>1, ThreadsType DEF Left
  <2> QED BY <2>2 DEF Efforts
<1> QED BY <1>1, <1>2, <1>4, <1>5, <1>6 DEF IInv

\* The steps that only change how far the application is.
LEMMA ProgressIInv ==
  ASSUME IInv, \/ StartReturns \/ WaitToComplete \/ StartWaiting \/ WakeWaiter
               \/ Stop \/ StopScheduler \/ JoinThreads
  PROVE  IInv'
<1>1. TypeOK'
  <2>1. /\ contextState' \in {"CREATED", "RUNNING", "STOPPING", "STOPPED"}
        /\ contextLocked' \in BOOLEAN /\ stopped' \in BOOLEAN
        /\ app' \in {"created", "starting", "ready", "enqueue", "blocked", "stopping", "clearing",
                     "joining", "stopped"}
        /\ waiter' \in {"idle", "waiting", "returned"}
    BY DEF IInv, TypeOK, StartReturns, WaitToComplete, StartWaiting, WakeWaiter, Stop, StopScheduler,
           JoinThreads, contextVars, appVars
  <2>2. UNCHANGED <<currentJobs, queue, undispatched, finished, barrierCount, barrierFlag, status, at,
                    sliceOf, flagCopy, submitted, aborted, taken, worked>>
    BY DEF StartReturns, WaitToComplete, StartWaiting, WakeWaiter, Stop, StopScheduler, JoinThreads,
           contextVars, queueVars, barrierVars, threadVars, appVars, history
  <2> QED BY <2>1, <2>2 DEF IInv, TypeOK
<1>2. Phases'
  BY DEF IInv, Phases, StartReturns, WaitToComplete, StartWaiting, WakeWaiter, Stop, StopScheduler,
         JoinThreads, contextVars, threadVars, appVars
<1>3. /\ Last' = Last
      /\ stopped => stopped'
      /\ Cleared => Cleared'
      /\ contextState' = "RUNNING" => contextState = "RUNNING"
  BY DEF IInv, Phases, Last, Cleared, StartReturns, WaitToComplete, StartWaiting, WakeWaiter, Stop,
         StopScheduler, JoinThreads, contextVars, appVars
<1>4. UNCHANGED <<threadVars, barrierVars, queueVars, status, history, currentJobs, submitted>>
  BY DEF StartReturns, WaitToComplete, StartWaiting, WakeWaiter, Stop, StopScheduler, JoinThreads,
         contextVars, appVars
<1>5. Leaving => Leaving'
  BY <1>3, <1>4 DEF Leaving, threadVars
<1>6. QueueInOrder' /\ Turns' /\ Rounds' /\ Reports' /\ StatusFits' /\ Efforts'
  <2>1. UNCHANGED <<threadVars, barrierVars, queueVars, status, history>>
    BY <1>4
  <2> HIDE DEF IInv
  <2> QED BY <1>3, <2>1, <1>5, ApplicationFrame
<1>7. Accounts'
  <2>1. UNCHANGED <<status, currentJobs, submitted, sliceOf>> /\ UNCHANGED at
    BY <1>4 DEF threadVars
  <2>2. Accounts /\ \A u \in Threads : at'[u] = "account" <=> at[u] = "account"
    BY <2>1 DEF IInv
  <2> QED BY <1>3, <2>1, <2>2, AccountsFrame
<1> QED BY <1>1, <1>2, <1>6, <1>7 DEF IInv

LEMMA AllReduceAsyncIInv == IInv /\ AllReduceAsync => IInv'
<1> SUFFICES ASSUME IInv, AllReduceAsync PROVE IInv'
  OBVIOUS
<1>1. submitted \in Nat /\ submitted < Len(Numels) /\ Last = submitted /\ Last' = Last
      /\ ~Cleared /\ ~Cleared'
  <2>1. submitted \in Nat
    BY ThreadsType DEF IInv, TypeOK
  <2> QED BY <2>1 DEF AllReduceAsync, Last, Cleared
<1>2. {j \in 1 .. submitted : Open(j)}' = {j \in 1 .. submitted : Open(j)} \cup {submitted + 1}
  <2>1. \A j : Open(j)' <=> Open(j)
    BY DEF AllReduceAsync, Open, threadVars
  <2>2. submitted + 1 \in JobIds /\ status[submitted + 1] = "INIT"
    BY <1>1, ThreadsType DEF IInv, StatusFits
  <2>3. Open(submitted + 1)
    BY <2>2 DEF Open
  <2>4. submitted' = submitted + 1 /\ 1 .. submitted + 1 = (1 .. submitted) \cup {submitted + 1}
    BY <1>1 DEF AllReduceAsync
  <2> QED BY <2>1, <2>3, <2>4
<1> DEFINE open == {j \in 1 .. submitted : Open(j)}
<1>3. /\ IsFiniteSet(open) /\ Cardinality(open) \in Nat /\ Cardinality(open) <= submitted
      /\ Cardinality(open \cup {submitted + 1}) = Cardinality(open) + 1
  <2>1. IsFiniteSet(1 .. submitted) /\ Cardinality(1 .. submitted) = submitted
    <3>1. /\ IsFiniteSet(1 .. submitted)
          /\ Cardinality(1 .. submitted) = IF 1 > submitted THEN 0 ELSE submitted - 1 + 1
      BY <1>1, FS_Interval
    <3> QED BY <1>1, <3>1
  <2>2. open \in SUBSET (1 .. submitted)
    OBVIOUS
  <2>3. IsFiniteSet(open) /\ Cardinality(open) <= submitted
    BY <2>1, <2>2, FS_Subset
  <2>4. submitted + 1 \notin open
    BY <1>1
  <2> QED BY <2>3, <2>4, FS_CardinalityType, FS_AddElement
<1>4. currentJobs = Cardinality(open)
  BY <1>1 DEF IInv, Accounts
<1>5. Accounts'
  <2>1. currentJobs' = currentJobs + 1
    BY DEF AllReduceAsync
  <2> QED BY <1>2, <1>3, <1>4, <2>1 DEF Accounts
<1>6. TypeOK'
  <2>1. submitted' \in 0 .. Len(Numels) /\ currentJobs' \in 0 .. Len(Numels)
    BY <1>1, <1>3, <1>4, ThreadsType DEF AllReduceAsync
  <2> QED BY <2>1 DEF IInv, TypeOK, AllReduceAsync, queueVars, barrierVars, threadVars, history
<1>7. Phases'
  BY <1>1 DEF IInv, Phases, AllReduceAsync, threadVars
<1>8. QueueInOrder' /\ Turns' /\ Rounds' /\ Reports' /\ StatusFits' /\ Efforts'
  <2>1. Leaving => Leaving'
    BY DEF Leaving, AllReduceAsync, threadVars
  <2> QED BY <1>1, <2>1, ApplicationFrame DEF AllReduceAsync
<1> QED BY <1>5, <1>6, <1>7, <1>8 DEF IInv

LEMMA EnqueueJobIInv == IInv /\ EnqueueJob => IInv'
<1> SUFFICES ASSUME IInv, EnqueueJob PROVE IInv'
  OBVIOUS
<1> DEFINE s == submitted
<1>0. /\ app = "enqueue" /\ app' \in {"ready", "blocked"} /\ contextState = "RUNNING" /\ ~stopped
      /\ UNCHANGED <<contextState, contextLocked, currentJobs, stopped, barrierCount, barrierFlag,
                     at, sliceOf, flagCopy, submitted, waiter, aborted, taken, worked>>
      /\ queue' = Append(queue, s)
      /\ status' = [status EXCEPT ![s] = "QUEUED"]
      /\ ~Cleared /\ ~Cleared' /\ ~Leaving /\ ~Leaving'
  BY DEF EnqueueJob, IInv, Phases, Cleared, Leaving, contextVars, barrierVars, threadVars, history
<1>1. /\ s \in Nat /\ s \in JobIds /\ Last = s - 1 /\ Last' = s /\ Last \in Nat
      /\ Len(queue) \in Nat /\ Len(queue') = Len(queue) + 1
      /\ Dispatched \in Int /\ Dispatched' = Dispatched
      /\ \A t \in Threads : sliceOf[t] \in Nat /\ sliceOf[t] < s
  <2>1. submitted > 0 /\ submitted \in 0 .. Len(Numels) /\ queue \in Seq(JobIds)
    BY <1>0 DEF IInv, TypeOK, Phases
  <2>2. s \in Nat /\ s \in JobIds /\ Last = s - 1 /\ Last' = s /\ Last \in Nat
    BY <1>0, <2>1, ThreadsType DEF Last
  <2>3. Len(queue) \in Nat /\ Len(queue') = Len(queue) + 1
    BY <1>0, <2>1, <2>2, AppendProperties, LenProperties
  <2>4. Dispatched \in Int /\ Dispatched' = Dispatched
    BY <2>2, <2>3 DEF Dispatched
  <2>5. \A t \in Threads : sliceOf[t] \in Nat /\ sliceOf[t] <= Last
    BY LastType DEF IInv, Turns
  <2> QED BY <2>2, <2>3, <2>4, <2>5
<1>2. /\ \E D \in SUBSET JobIds : undispatched' \in [D -> 1 .. NumThreads]
      /\ DOMAIN undispatched' = DOMAIN undispatched \cup {s}
      /\ undispatched'[s] = NumThreads
      /\ \A i \in DOMAIN undispatched : i # s => undispatched'[i] = undispatched[i]
  <2>1. PICK D \in SUBSET JobIds : undispatched \in [D -> 1 .. NumThreads]
    BY DEF IInv, TypeOK
  <2>2. NumThreads \in 1 .. NumThreads
    BY ThreadsType
  <2>3. undispatched' = [i \in DOMAIN undispatched \cup {s} |->
                           IF i = s THEN NumThreads ELSE undispatched[i]]
    BY DEF EnqueueJob
  <2>4. D \cup {s} \in SUBSET JobIds /\ undispatched' \in [D \cup {s} -> 1 .. NumThreads]
    BY <1>1, <2>1, <2>2, <2>3
  <2> QED BY <2>1, <2>3, <2>4
<1>3. /\ \E D \in SUBSET JobIds : finished' \in [D -> 0 .. NumThreads - 1]
      /\ DOMAIN finished' = DOMAIN finished \cup {s}
      /\ finished'[s] = 0
      /\ \A i \in DOMAIN finished : i # s => finished'[i] = finished[i]
  <2>1. PICK D \in SUBSET JobIds : finished \in [D -> 0 .. NumThreads - 1]
    BY DEF IInv, TypeOK
  <2>2. 0 \in 0 .. NumThreads - 1
    BY ThreadsType
  <2>3. finished' = [i \in DOMAIN finished \cup {s} |-> IF i = s THEN 0 ELSE finished[i]]
    BY DEF EnqueueJob
  <2>4. D \cup {s} \in SUBSET JobIds /\ finished' \in [D \cup {s} -> 0 .. NumThreads - 1]
    BY <1>1, <2>1, <2>2, <2>3
  <2> QED BY <2>1, <2>3, <2>4
<1>4. /\ status[s] = "INIT" /\ status'[s] = "QUEUED" /\ \A j \in JobIds : j # s => status'[j] = status[j]
      /\ \A j \in JobIds : j \in Nat
  BY <1>0, <1>1, ThreadsType DEF IInv, TypeOK, StatusFits
<1>5. /\ \A t, j : Left(t, j)' <=> Left(t, j)
      /\ \A j : Behind(j)' = Behind(j) /\ Gone(j)' = Gone(j)
      /\ Blocked' = Blocked
      /\ \A t : Released(t)' <=> Released(t)
  <2>1. /\ \A t, j : Left(t, j)' <=> Left(t, j)
        /\ Blocked' = Blocked
        /\ \A t : Released(t)' <=> Released(t)
    BY <1>0, SameThreads
  <2> QED BY <1>0, <2>1 DEF Behind, Gone
<1>6. Behind(s) = Threads /\ Gone(s) = {}
  BY <1>1 DEF Behind, Gone, Left
<1>7. TypeOK'
  <2>1. queue' \in Seq(JobIds)
    BY <1>0, <1>1, AppendProperties DEF IInv, TypeOK
  <2>2. status' \in [JobIds -> Statuses]
    BY <1>0, <1>1 DEF IInv, TypeOK, Statuses
  <2> QED BY <1>0, <1>2, <1>3, <2>1, <2>2 DEF IInv, TypeOK
<1>8. Phases'
  BY <1>0 DEF IInv, Phases
<1>9. QueueInOrder'
  <2>0. QueueInOrder
    BY DEF IInv
  <2>1. Dispatched + Len(queue) + 1 = s
    BY <1>1 DEF Dispatched
  <2>2. \A i \in 1 .. Len(queue') : queue'[i] = Dispatched + i
    <3>1. \A i \in 1 .. Len(queue) : queue'[i] = queue[i]
      BY <1>0, <1>1, AppendProperties DEF IInv, TypeOK
    <3>2. queue'[Len(queue) + 1] = s
      BY <1>0, <1>1, AppendProperties DEF IInv, TypeOK
    <3>3. \A i \in 1 .. Len(queue) : queue[i] = Dispatched + i
      BY <1>0, <2>0 DEF QueueInOrder
    <3>4. \A i \in 1 .. Len(queue') : i \in 1 .. Len(queue) \/ i = Len(queue) + 1
      BY <1>1
    <3> QED BY <1>1, <2>1, <3>1, <3>2, <3>3, <3>4
  <2>3. DOMAIN undispatched' = Dispatched + 1 .. s
    BY <1>0, <1>1, <1>2, <2>0, <2>1 DEF QueueInOrder
  <2>4. \A j \in Dispatched + 1 .. s : undispatched'[j] = Cardinality(Behind(j))
    <3>1. \A j \in Dispatched + 1 .. Last : j \in DOMAIN undispatched /\ undispatched[j] = Cardinality(Behind(j))
      BY <1>0, <2>0 DEF QueueInOrder
    <3>2. \A j \in Dispatched + 1 .. Last : undispatched'[j] = Cardinality(Behind(j))
      BY <1>1, <1>2, <3>1
    <3>3. undispatched'[s] = Cardinality(Behind(s))
      BY <1>2, <1>6, ThreadsType
    <3>4. \A j \in Dispatched + 1 .. s : j = s \/ j \in Dispatched + 1 .. Last
      BY <1>1
    <3> QED BY <3>2, <3>3, <3>4
  <2> QED BY <1>0, <1>1, <1>5, <2>0, <2>2, <2>3, <2>4 DEF QueueInOrder
<1>10. Turns'
  BY <1>0, <1>1, TurnsFrame DEF IInv
<1>11. Rounds'
  BY <1>0, <1>1, <1>5, RoundsFrame DEF IInv
<1>12. Reports'
  <2>1. Cardinality(Gone(s)) = 0
    BY <1>6, FS_EmptySet
  <2>2. \A j \in 1 .. s : j # s => j \in 1 .. Last /\ j \in JobIds
    BY <1>1, ThreadsType
  <2>3. \A j \in 1 .. Last : j # s
    BY <1>1
  <2>4. DOMAIN finished' \subseteq 1 .. s
    BY <1>0, <1>1, <1>3 DEF IInv, Reports
  <2>5. \A j \in 1 .. Last :
         /\ (\E t \in Threads : ~Left(t, j)) => j \in DOMAIN finished
         /\ j \in DOMAIN finished =>
              /\ finished[j] <= Cardinality(Gone(j))
              /\ finished[j] = Cardinality(Gone(j))
         /\ j \notin DOMAIN finished =>
              \/ status[j] = "FINISHED"
              \/ \E t \in Threads : at[t] = "finish" /\ sliceOf[t] = j
    BY <1>0 DEF IInv, Reports
  <2>6. \A j \in 1 .. s :
         /\ (\E t \in Threads : ~Left(t, j)) => j \in DOMAIN finished'
         /\ j \in DOMAIN finished' =>
              /\ finished'[j] <= Cardinality(Gone(j))
              /\ finished'[j] = Cardinality(Gone(j))
         /\ j \notin DOMAIN finished' =>
              \/ status'[j] = "FINISHED"
              \/ \E t \in Threads : at[t] = "finish" /\ sliceOf[t] = j
    <3> SUFFICES ASSUME NEW j \in 1 .. s
                 PROVE  /\ (\E t \in Threads : ~Left(t, j)) => j \in DOMAIN finished'
                        /\ j \in DOMAIN finished' =>
                             /\ finished'[j] <= Cardinality(Gone(j))
                             /\ finished'[j] = Cardinality(Gone(j))
                        /\ j \notin DOMAIN finished' =>
                             \/ status'[j] = "FINISHED"
                             \/ \E t \in Threads : at[t] = "finish" /\ sliceOf[t] = j
      OBVIOUS
    <3>1. CASE j = s
      BY <1>3, <2>1, <3>1
    <3>2. CASE j # s
      BY <1>3, <1>4, <2>2, <2>5, <3>2
    <3> QED BY <3>1, <3>2
  <2> QED BY <1>0, <1>1, <1>5, <2>4, <2>6 DEF Reports
<1>13. StatusFits'
  BY <1>0, <1>1, <1>4, <1>5 DEF IInv, StatusFits
<1>14. Accounts'
  <2>1. \A j \in 1 .. submitted : Open(j)' <=> Open(j)
    BY <1>0, <1>1, <1>4, ThreadsType DEF Open
  <2>2. {j \in 1 .. submitted : Open(j)}' = {j \in 1 .. submitted : Open(j)}
    BY <1>0, <2>1
  <2> QED BY <1>0, <2>2 DEF IInv, Accounts
<1>15. Efforts'
  BY <1>0, <1>5, EffortsFrame DEF IInv
<1> QED BY <1>7, <1>8, <1>9, <1>10, <1>11, <1>12, <1>13, <1>14, <1>15 DEF IInv

-----------------------------------------------------------------------------
(* The queue *)

LEMMA QueuedJobs ==
  ASSUME IInv, ~Cleared
  PROVE  /\ \A j : (\E i \in DOMAIN queue : queue[i] = j) <=> j \in Dispatched + 1 .. Last
         /\ Dispatched \in Nat
<1>1. /\ Dispatched >= 0 /\ \A i \in 1 .. Len(queue) : queue[i] = Dispatched + i
      /\ Len(queue) \in Nat /\ Dispatched \in Int /\ Last \in Nat
  BY LastType DEF IInv, QueueInOrder
<1>2. DOMAIN queue = 1 .. Len(queue)
  BY LenProperties DEF IInv, TypeOK
<1>3. Dispatched + Len(queue) = Last
  BY <1>1 DEF Dispatched
<1>4. ASSUME NEW j \in Dispatched + 1 .. Last
      PROVE  j - Dispatched \in 1 .. Len(queue) /\ Dispatched + (j - Dispatched) = j
  BY <1>1, <1>3
<1>5. ASSUME NEW i \in 1 .. Len(queue) PROVE Dispatched + i \in Dispatched + 1 .. Last
  BY <1>1, <1>3
<1>6. ASSUME NEW j, NEW i \in DOMAIN queue, queue[i] = j PROVE j \in Dispatched + 1 .. Last
  BY <1>1, <1>2, <1>5, <1>6
<1>7. ASSUME NEW j, j \in Dispatched + 1 .. Last PROVE \E i \in DOMAIN queue : queue[i] = j
  BY <1>1, <1>2, <1>4, <1>7
<1> QED BY <1>1, <1>6, <1>7

\* A job that is queued waits for a thread.
LEMMA QueuedNotAllTaken ==
  ASSUME IInv, ~Cleared, NEW j \in Dispatched + 1 .. Last
  PROVE  \E t \in Threads : sliceOf[t] < j
<1>1. j \in DOMAIN undispatched /\ undispatched[j] = Cardinality(Behind(j))
  BY DEF IInv, QueueInOrder
<1>2. undispatched[j] \in 1 .. NumThreads
  BY <1>1 DEF IInv, TypeOK
<1>3. Behind(j) \in SUBSET Threads
  BY DEF Behind
<1>4. Behind(j) # {}
  BY <1>1, <1>2, <1>3, ThreadsType, SomeThreads
<1> QED BY <1>4 DEF Behind

LEMMA ClearSchedulerIInv == IInv /\ ClearScheduler => IInv'
<1> SUFFICES ASSUME IInv, ClearScheduler PROVE IInv'
  OBVIOUS
<1>0. /\ app = "clearing" /\ app' = "joining" /\ contextState = "STOPPING" /\ stopped /\ stopped'
      /\ UNCHANGED <<contextState, contextLocked, stopped, barrierFlag,
                     at, sliceOf, flagCopy, submitted, waiter, aborted, taken, worked>>
      /\ ~Cleared /\ Cleared' /\ Last' = Last
  BY DEF ClearScheduler, IInv, Phases, Cleared, Last, threadVars, history
<1>1. /\ Last \in Nat /\ Last <= Len(Numels) /\ Dispatched \in Nat
      /\ \A t \in Threads : sliceOf[t] \in Nat
      /\ \A j \in JobIds : j \in Nat
  BY <1>0, LastType, QueuedJobs, ThreadsType DEF IInv, TypeOK
<1>2. /\ status' \in [JobIds -> Statuses]
      /\ \A j \in JobIds : status'[j] = IF j \in Dispatched + 1 .. Last THEN "FAILED" ELSE status[j]
  <2>1. \A j \in JobIds : status'[j] = IF j \in Dispatched + 1 .. Last THEN "FAILED" ELSE status[j]
    BY <1>0, QueuedJobs DEF ClearScheduler
  <2>2. status' \in [JobIds -> Statuses]
    BY DEF ClearScheduler, IInv, TypeOK, Statuses
  <2> QED BY <2>1, <2>2
<1>3. TypeOK'
  <2>1. /\ queue' = <<>> /\ undispatched' = <<>> /\ finished' = <<>>
        /\ barrierCount' = -1 /\ currentJobs' = 0
    BY DEF ClearScheduler
  <2>2. /\ <<>> \in Seq(JobIds) /\ {} \in SUBSET JobIds
        /\ <<>> \in [{} -> 1 .. NumThreads] /\ <<>> \in [{} -> 0 .. NumThreads - 1]
    BY EmptySeq
  <2>3. /\ \E D \in SUBSET JobIds : undispatched' \in [D -> 1 .. NumThreads]
        /\ \E D \in SUBSET JobIds : finished' \in [D -> 0 .. NumThreads - 1]
    BY <2>1, <2>2
  <2>4. /\ queue' \in Seq(JobIds)
        /\ barrierCount' \in {-1} \cup 1 .. NumThreads
        /\ currentJobs' \in 0 .. Len(Numels)
    BY <2>1, <2>2, ThreadsType
  <2> QED BY <1>0, <1>2, <2>3, <2>4 DEF IInv, TypeOK
<1>4. Phases'
  BY <1>0 DEF IInv, Phases
<1>5. Turns'
  BY <1>0, <1>1, TurnsFrame DEF IInv
<1>6. StatusFits'
  <2>1. \A j \in Dispatched + 1 .. Last : \E t \in Threads : sliceOf[t] < j
    BY <1>0, QueuedNotAllTaken
  <2>2. \A t \in Threads : \A j \in JobIds : j < sliceOf[t] => j \notin Dispatched + 1 .. Last
    <3> SUFFICES ASSUME NEW t \in Threads, NEW j \in Dispatched + 1 .. Last, j < sliceOf[t]
                 PROVE  FALSE
      OBVIOUS
    <3>1. PICK u \in Threads : sliceOf[u] < j
      BY <2>1
    <3>2. sliceOf[t] > sliceOf[u] => sliceOf[t] = sliceOf[u] + 1
      BY DEF IInv, Turns
    <3> QED BY <1>1, <3>1, <3>2
  <2>3. \A j \in JobIds : (\A t \in Threads : Left(t, j)) => j \notin Dispatched + 1 .. Last
    BY <1>1, <2>1 DEF Left
  <2>4. \A t, j : Left(t, j)' <=> Left(t, j)
    BY <1>0, SameThreads
  <2>5. \A j \in JobIds : j \in Dispatched + 1 .. Last => status'[j] = "FAILED"
    BY <1>2
  <2>6. \A j \in JobIds : j \notin Dispatched + 1 .. Last => status'[j] = status[j]
    BY <1>2
  <2>7. StatusFits
    BY DEF IInv
  <2>8. \A j \in JobIds :
          /\ status'[j] = "INIT" <=> j > Last
          /\ status'[j] = "QUEUED" => \A t \in Threads : sliceOf[t] < j
          /\ status'[j] = "RUNNING" => \E t \in Threads : sliceOf[t] >= j
          /\ status'[j] = "FINISHED" => \A t \in Threads : Left(t, j)
          /\ status'[j] = "FAILED" => stopped'
    BY <1>0, <1>1, <2>5, <2>6, <2>7 DEF StatusFits
  <2>9. \A t \in Threads : \A j \in JobIds :
          /\ j < sliceOf[t] => status'[j] = "FINISHED"
          /\ j = sliceOf[t] =>
               /\ at[t] \in Holding => status'[j] \in {"RUNNING", "FAILED"}
               /\ at[t] = "finish" => status'[j] = "RUNNING" /\ \A u \in Threads : Left(u, j)
               /\ at[t] = "account" => status'[j] = "FINISHED"
    BY <2>2, <2>3, <2>5, <2>6, <2>7 DEF StatusFits
  <2> QED BY <1>0, <2>4, <2>7, <2>8, <2>9 DEF StatusFits
<1>7. QueueInOrder' /\ Rounds' /\ Reports' /\ Accounts' /\ Efforts'
  BY <1>0 DEF QueueInOrder, Rounds, Reports, Accounts, Efforts
<1> QED BY <1>3, <1>4, <1>5, <1>6, <1>7 DEF IInv

-----------------------------------------------------------------------------
(* The worker threads *)

Places == {"created", "loop", "get", "barrier", "waiting", "dequeue", "work",
           "empty", "notify", "finish", "account", "exited"}

\* A thread that is on its way to the barrier or away from it, or ends.
LEMMA QuietMove ==
  ASSUME IInv, NEW t \in Threads, NEW w \in Places \ InSlice,
         app # "created", at[t] # "exited", at[t] \notin InSlice,
         at' = [at EXCEPT ![t] = w],
         UNCHANGED <<contextVars, stopped, queueVars, barrierVars, status, sliceOf,
                     flagCopy, appVars, aborted, history>>,
         at[t] = "loop" /\ contextState # "RUNNING" => w = "exited",
         ~stopped => t \notin Blocked /\ w # "waiting" /\ (Released(t) <=> w = "dequeue")
  PROVE  IInv'
<1>1. /\ UNCHANGED <<contextState, contextLocked, currentJobs, stopped, queue, undispatched, finished,
                     barrierCount, barrierFlag, status, sliceOf, flagCopy, submitted, app, waiter,
                     aborted, taken, worked>>
      /\ Last' = Last /\ Dispatched' = Dispatched
      /\ Cleared' <=> Cleared
  BY DEF contextVars, queueVars, barrierVars, appVars, history, Last, Dispatched, Cleared
<1>2. at \in [Threads -> Places] /\ at' \in [Threads -> Places]
  BY DEF IInv, TypeOK, Places
<1>3. at'[t] = w /\ \A u \in Threads : u # t => at'[u] = at[u]
  BY <1>2
<1>4. \A u \in Threads : /\ at'[u] \in InSlice => at[u] \in InSlice
                         /\ at'[u] \in Holding <=> at[u] \in Holding
                         /\ at'[u] = "finish" <=> at[u] = "finish"
                         /\ at'[u] = "account" <=> at[u] = "account"
                         /\ at'[u] = "notify" <=> at[u] = "notify"
                         /\ at'[u] = "empty" <=> at[u] = "empty"
  BY <1>3 DEF InSlice, Holding
<1>5. \A u \in Threads : \A j : Left(u, j)' <=> Left(u, j)
  BY <1>1, <1>4 DEF Left
<1>6. ~stopped => Blocked' = Blocked /\ \A u \in Threads : Released(u)' <=> Released(u)
  <2> SUFFICES ASSUME ~stopped PROVE Blocked' = Blocked /\ \A u \in Threads : Released(u)' <=> Released(u)
    OBVIOUS
  <2>1. Blocked' = Blocked
    BY <1>1, <1>3 DEF Blocked
  <2>2. \A u \in Threads : Released(u)' <=> Released(u)
    BY <1>1, <1>3 DEF Released
  <2> QED BY <2>1, <2>2
<1>7. Leaving => Leaving'
  BY <1>1, <1>3 DEF Leaving
<1>8. TypeOK'
  BY <1>1, <1>2 DEF IInv, TypeOK, Places
<1>9. Phases'
  BY <1>1, <1>3 DEF IInv, Phases
<1>10. QueueInOrder'
  BY <1>1, QueueFrame DEF IInv
<1>11. Turns'
  BY <1>1, <1>4, TurnsFrame, LastType DEF IInv
<1>12. Rounds'
  BY <1>1, <1>6, RoundsFrame DEF IInv, Rounds
<1>13. Reports'
  BY <1>1, <1>4, <1>5, <1>7, ReportsFrame DEF IInv
<1>14. StatusFits'
  BY <1>1, <1>4, <1>5, StatusFrame DEF IInv
<1>15. Accounts'
  BY <1>1, <1>4, AccountsFrame DEF IInv
<1>16. Efforts'
  BY <1>1, <1>4, <1>5, EffortsFrame DEF IInv
<1> QED BY <1>8, <1>9, <1>10, <1>11, <1>12, <1>13, <1>14, <1>15, <1>16 DEF IInv

LEMMA QuietIInv ==
  ASSUME IInv, NEW t \in Threads,
         StartThread(t) \/ CheckContext(t) \/ GetJobSlice(t) \/ BarrierWake(t) \/ WakeStopped(t)
  PROVE  IInv'
<1>1. app = "created" => at[t] = "created"
  BY DEF IInv, Phases
<1>2. CASE StartThread(t)
  BY <1>2, QuietMove DEF StartThread, Goto, Places, InSlice, Holding, Blocked, Released
<1>3. CASE CheckContext(t)
  BY <1>1, <1>3, QuietMove DEF CheckContext, Goto, Places, InSlice, Holding, Blocked, Released
<1>4. CASE GetJobSlice(t)
  BY <1>1, <1>4, QuietMove DEF GetJobSlice, Goto, Places, InSlice, Holding, Blocked, Released
<1>5. CASE BarrierWake(t)
  <2>1. ~stopped => barrierCount # -1
    <3>1. Blocked \in SUBSET Threads
      BY DEF Blocked
    <3>2. Cardinality(Blocked) \in Nat /\ Cardinality(Blocked) <= NumThreads
      BY <3>1, SomeThreads
    <3> QED BY <3>2, ThreadsType DEF IInv, Rounds
  <2>2. ~stopped => flagCopy[t] # barrierFlag
    BY <1>5, <2>1 DEF BarrierWake
  <2> QED BY <1>1, <1>5, <2>2, QuietMove DEF BarrierWake, Goto, Places, InSlice, Holding, Blocked, Released
<1>6. CASE WakeStopped(t)
  BY <1>1, <1>6, QuietMove DEF WakeStopped, Goto, Places, InSlice, Holding
<1> QED BY <1>2, <1>3, <1>4, <1>5, <1>6

\* A thread that goes on with its slice.
LEMMA WorkIInv ==
  ASSUME IInv, NEW t \in Threads, NEW w \in {"notify", "loop"}, at[t] \in {"work", "empty"},
         at' = [at EXCEPT ![t] = w],
         worked' \in [JobIds -> SUBSET Threads], \A j \in JobIds : worked[j] \subseteq worked'[j],
         UNCHANGED <<contextVars, stopped, queueVars, barrierVars, status, sliceOf,
                     flagCopy, appVars, aborted, taken>>,
         w = "loop" => contextState # "RUNNING",
         contextState = "RUNNING" =>
           \A j \in JobIds : sliceOf[t] = j /\ SliceNumel(Numels[j], t) > 0 => t \in worked'[j]
  PROVE  IInv'
<1>1. /\ UNCHANGED <<contextState, contextLocked, currentJobs, stopped, queue, undispatched, finished,
                     barrierCount, barrierFlag, status, sliceOf, flagCopy, submitted, app, waiter,
                     aborted, taken>>
      /\ Last' = Last /\ Dispatched' = Dispatched
      /\ Cleared' <=> Cleared
  BY DEF contextVars, queueVars, barrierVars, appVars, Last, Dispatched, Cleared
<1>2. at \in [Threads -> Places] /\ at' \in [Threads -> Places]
  BY DEF IInv, TypeOK, Places
<1>3. at'[t] = w /\ \A u \in Threads : u # t => at'[u] = at[u]
  BY <1>2
<1>4. \A u \in Threads : /\ at'[u] \in InSlice => at[u] \in InSlice
                         /\ at'[u] \in Holding => at[u] \in Holding
                         /\ at'[u] = "finish" <=> at[u] = "finish"
                         /\ at'[u] = "account" <=> at[u] = "account"
                         /\ at'[u] = "empty" => at[u] = "empty"
  BY <1>3 DEF InSlice, Holding
<1>5. \A u \in Threads : \A j : /\ Left(u, j) => Left(u, j)'
                                /\ w = "notify" => (Left(u, j)' <=> Left(u, j))
  BY <1>1, <1>3, <1>4 DEF Left, Holding
<1>6. Blocked' = Blocked /\ \A u \in Threads : Released(u)' <=> Released(u)
  <2>1. Blocked' = Blocked
    BY <1>1, <1>3 DEF Blocked
  <2>2. \A u \in Threads : Released(u)' <=> Released(u)
    BY <1>1, <1>3 DEF Released
  <2> QED BY <2>1, <2>2
<1>7. /\ Leaving => Leaving'
      /\ w = "loop" => Leaving'
  BY <1>1, <1>3 DEF Leaving
<1>8. TypeOK'
  BY <1>1, <1>2 DEF IInv, TypeOK, Places
<1>9. Phases'
  BY <1>1, <1>3 DEF IInv, Phases
<1>10. QueueInOrder'
  BY <1>1, QueueFrame DEF IInv
<1>11. Turns'
  BY <1>1, <1>4, TurnsFrame, LastType DEF IInv
<1>12. Rounds'
  BY <1>1, <1>6, RoundsFrame DEF IInv
<1>13. Reports'
  <2>1. CASE w = "notify"
    BY <1>1, <1>4, <1>5, <1>7, <2>1, ReportsFrame DEF IInv
  <2>2. CASE w = "loop"
    <3>1. \A j \in 1 .. Last : Cardinality(Gone(j)) <= Cardinality(Gone(j)')
      <4> SUFFICES ASSUME NEW j \in 1 .. Last
                   PROVE  Cardinality(Gone(j)) <= Cardinality(Gone(j)')
        OBVIOUS
      <4>1. Gone(j) \subseteq Gone(j)' /\ Gone(j)' \in SUBSET Threads
        BY <1>5 DEF Gone
      <4>2. IsFiniteSet(Gone(j)')
        BY <4>1, SomeThreads
      <4> QED BY <4>1, <4>2, FS_Subset
    <3>2. \A j \in 1 .. Last : Cardinality(Gone(j)) \in Nat /\ Cardinality(Gone(j)') \in Nat
      <4> SUFFICES ASSUME NEW j \in 1 .. Last
                   PROVE  Cardinality(Gone(j)) \in Nat /\ Cardinality(Gone(j)') \in Nat
        OBVIOUS
      <4>1. Gone(j) \in SUBSET Threads /\ Gone(j)' \in SUBSET Threads
        BY DEF Gone
      <4> QED BY <4>1, SomeThreads
    <3>3. \A j \in DOMAIN finished : finished[j] \in Nat
      BY ThreadsType DEF IInv, TypeOK
    <3>4. \A j \in 1 .. Last : finished[j] <= Cardinality(Gone(j)) /\ j \in DOMAIN finished
                                => finished[j] <= Cardinality(Gone(j)')
      BY <3>1, <3>2, <3>3
    <3> QED BY <1>1, <1>4, <1>5, <1>7, <2>2, <3>4 DEF IInv, Reports
  <2> QED BY <2>1, <2>2
<1>14. StatusFits'
  BY <1>1, <1>4, <1>5, StatusFrame DEF IInv
<1>15. Accounts'
  BY <1>1, <1>4, AccountsFrame DEF IInv
<1>16. Efforts'
  <2> SUFFICES ASSUME contextState = "RUNNING", w = "notify" PROVE Efforts'
    BY <1>1 DEF Efforts
  <2>1. \A u \in Threads : at'[u] = "notify" => u = t \/ at[u] = "notify"
    BY <1>3
  <2> QED BY <1>1, <1>4, <1>5, <2>1 DEF IInv, Efforts
<1> QED BY <1>8, <1>9, <1>10, <1>11, <1>12, <1>13, <1>14, <1>15, <1>16 DEF IInv

LEMMA SliceIInv ==
  ASSUME IInv, NEW t \in Threads, SkipEmptySlice(t) \/ FinishWork(t) \/ AbandonWork(t)
  PROVE  IInv'
<1>0. worked \in [JobIds -> SUBSET Threads]
  BY DEF IInv, TypeOK
<1>1. CASE SkipEmptySlice(t)
  <2>1. worked' = worked /\ taken' = taken
    BY <1>1 DEF SkipEmptySlice, history
  <2>2. contextState = "RUNNING" => \A j \in JobIds : sliceOf[t] = j => ~(SliceNumel(Numels[j], t) > 0)
    BY <1>1 DEF IInv, Efforts, SkipEmptySlice
  <2>3. CASE contextState = "RUNNING"
    <3>1. at' = [at EXCEPT ![t] = "notify"]
      BY <1>1, <2>3 DEF SkipEmptySlice, Goto
    <3> QED BY <1>0, <1>1, <2>1, <2>2, <2>3, <3>1, WorkIInv DEF SkipEmptySlice
  <2>4. CASE contextState # "RUNNING"
    <3>1. at' = [at EXCEPT ![t] = "loop"]
      BY <1>1, <2>4 DEF SkipEmptySlice, Goto
    <3> QED BY <1>0, <1>1, <2>1, <2>4, <3>1, WorkIInv DEF SkipEmptySlice
  <2> QED BY <2>3, <2>4
<1>2. CASE FinishWork(t)
  <2>1. sliceOf[t] \in JobIds
    <3>1. sliceOf[t] \in 0 .. Len(Numels) /\ sliceOf[t] > 0
      BY <1>2 DEF IInv, TypeOK, Turns, FinishWork, InSlice, Holding
    <3> QED BY <3>1, ThreadsType
  <2>2. /\ worked' = [worked EXCEPT ![sliceOf[t]] = worked[sliceOf[t]] \cup {t}]
        /\ at[t] = "work" /\ at' = [at EXCEPT ![t] = "notify"]
        /\ UNCHANGED <<contextVars, stopped, queueVars, barrierVars, status, sliceOf,
                       flagCopy, appVars, aborted, taken>>
    BY <1>2 DEF FinishWork, Goto
  <2>3. /\ worked' \in [JobIds -> SUBSET Threads]
        /\ \A j \in JobIds : worked[j] \subseteq worked'[j]
        /\ t \in worked'[sliceOf[t]]
    BY <1>0, <2>1, <2>2
  <2> QED BY <2>2, <2>3, WorkIInv
<1>3. CASE AbandonWork(t)
  <2>1. /\ worked' = worked /\ taken' = taken /\ contextState # "RUNNING"
        /\ at[t] = "work" /\ at' = [at EXCEPT ![t] = "notify"]
        /\ UNCHANGED <<contextVars, stopped, queueVars, barrierVars, status, sliceOf,
                       flagCopy, appVars, aborted, taken>>
    BY <1>3 DEF AbandonWork, Goto, history
  <2> QED BY <1>0, <2>1, WorkIInv
<1> QED BY <1>1, <1>2, <1>3

\* Everything but the barrier.
LEMMA BarrierFrame ==
  ASSUME IInv, NEW t \in Threads, NEW w \in {"waiting", "dequeue"}, at[t] = "barrier",
         at' = [at EXCEPT ![t] = w],
         flagCopy' \in [Threads -> BOOLEAN], barrierFlag' \in BOOLEAN,
         barrierCount' \in {-1} \cup 1 .. NumThreads,
         UNCHANGED <<contextVars, stopped, queueVars, status, sliceOf, appVars, history, aborted>>,
         Rounds'
  PROVE  IInv'
<1>1. /\ UNCHANGED <<contextState, contextLocked, currentJobs, stopped, queue, undispatched, finished,
                     status, sliceOf, submitted, app, waiter, aborted, taken, worked>>
      /\ Last' = Last
      /\ Cleared' <=> Cleared
  BY DEF contextVars, queueVars, appVars, history, Last, Cleared
<1>2. at \in [Threads -> Places] /\ at' \in [Threads -> Places]
  BY DEF IInv, TypeOK, Places
<1>3. at'[t] = w /\ \A u \in Threads : u # t => at'[u] = at[u]
  BY <1>2
<1>4. \A u \in Threads : /\ at'[u] \in InSlice <=> at[u] \in InSlice
                         /\ at'[u] \in Holding <=> at[u] \in Holding
                         /\ at'[u] = "finish" <=> at[u] = "finish"
                         /\ at'[u] = "account" <=> at[u] = "account"
                         /\ at'[u] = "notify" <=> at[u] = "notify"
                         /\ at'[u] = "empty" <=> at[u] = "empty"
  BY <1>3 DEF InSlice, Holding
<1>5. \A u \in Threads : \A j : Left(u, j)' <=> Left(u, j)
  BY <1>1, <1>4 DEF Left
<1>6. Leaving => Leaving'
  BY <1>1, <1>3 DEF Leaving
<1>7. TypeOK'
  BY <1>1, <1>2 DEF IInv, TypeOK, Places
<1>8. Phases'
  BY <1>1, <1>3 DEF IInv, Phases
<1>9. QueueInOrder'
  BY <1>1, QueueFrame DEF IInv
<1>10. Turns'
  BY <1>1, <1>4, TurnsFrame, LastType DEF IInv
<1>11. Reports'
  BY <1>1, <1>4, <1>5, <1>6, ReportsFrame DEF IInv
<1>12. StatusFits'
  BY <1>1, <1>4, <1>5, StatusFrame DEF IInv
<1>13. Accounts'
  BY <1>1, <1>4, AccountsFrame DEF IInv
<1>14. Efforts'
  BY <1>1, <1>4, <1>5, EffortsFrame DEF IInv
<1> QED BY <1>7, <1>8, <1>9, <1>10, <1>11, <1>12, <1>13, <1>14 DEF IInv

\* The process ends.
LEMMA AbortIInv ==
  ASSUME IInv, aborted' \in BOOLEAN,
         UNCHANGED <<contextVars, stopped, queueVars, barrierVars, status, threadVars,
                     appVars, history>>
  PROVE  IInv'
<1>1. /\ UNCHANGED <<contextState, contextLocked, currentJobs, stopped, queue, undispatched, finished,
                     barrierCount, barrierFlag, status, at, sliceOf, flagCopy, submitted, app, waiter,
                     taken, worked>>
      /\ Last' = Last /\ Dispatched' = Dispatched
      /\ Cleared' <=> Cleared
      /\ Leaving' <=> Leaving
  BY DEF contextVars, queueVars, barrierVars, threadVars, appVars, history, Last, Dispatched, Cleared,
         Leaving
<1>2. TypeOK'
  BY <1>1 DEF IInv, TypeOK
<1>3. Phases'
  BY <1>1 DEF IInv, Phases
<1>4. QueueInOrder' /\ Turns' /\ Rounds' /\ Reports' /\ StatusFits' /\ Efforts'
  BY <1>1, ApplicationFrame
<1>5. Accounts'
  BY <1>1, AccountsFrame DEF IInv
<1> QED BY <1>2, <1>3, <1>4, <1>5 DEF IInv

LEMMA BarrierWaitIInv ==
  ASSUME IInv, NEW t \in Threads, BarrierWait(t)
  PROVE  IInv'
<1>0. /\ at[t] = "barrier" /\ UNCHANGED <<contextVars, stopped, queueVars, status, sliceOf, appVars, history>>
      /\ at \in [Threads -> Places] /\ flagCopy \in [Threads -> BOOLEAN] /\ barrierFlag \in BOOLEAN
      /\ barrierCount \in {-1} \cup 1 .. NumThreads
      /\ t \notin Blocked /\ Blocked \in SUBSET Threads
  BY DEF BarrierWait, IInv, TypeOK, Places, Blocked
<1>1. stopped' = stopped /\ sliceOf' = sliceOf /\ Dispatched' = Dispatched
  BY <1>0 DEF queueVars, appVars, Dispatched, Last
<1>2. Cardinality(Blocked) \in Nat /\ NumThreads \in Nat /\ NumThreads >= 1
  BY <1>0, SomeThreads, ThreadsType
<1>3. CASE barrierCount = -1 /\ aborted' = TRUE /\ UNCHANGED <<at, barrierVars, flagCopy>>
  BY <1>0, <1>3, AbortIInv DEF threadVars
<1>4. CASE /\ barrierCount > 1
           /\ barrierCount' = barrierCount - 1
           /\ flagCopy' = [flagCopy EXCEPT ![t] = barrierFlag]
           /\ Goto(t, "waiting")
           /\ UNCHANGED <<barrierFlag, aborted>>
  <2>1. at' = [at EXCEPT ![t] = "waiting"]
    BY <1>4 DEF Goto
  <2>2. /\ at'[t] = "waiting" /\ flagCopy'[t] = barrierFlag
        /\ \A u \in Threads : u # t => at'[u] = at[u] /\ flagCopy'[u] = flagCopy[u]
    BY <1>0, <1>4, <2>1
  <2>3. Rounds'
    <3> SUFFICES ASSUME ~stopped PROVE Rounds'
      BY <1>1 DEF Rounds
    <3>1. Blocked' = Blocked \cup {t}
      BY <1>4, <2>2 DEF Blocked
    <3>2. Cardinality(Blocked') = Cardinality(Blocked) + 1
      BY <1>0, <3>1, OneMore
    <3>3. \A u \in Threads : Released(u)' <=> Released(u)
      BY <1>0, <1>4, <2>2 DEF Released
    <3>4. barrierCount' = NumThreads - Cardinality(Blocked')
      <4>1. barrierCount = NumThreads - Cardinality(Blocked)
        BY DEF IInv, Rounds
      <4> QED BY <1>2, <1>4, <3>2, <4>1
    <3> QED BY <1>1, <3>3, <3>4 DEF IInv, Rounds
  <2>4. barrierCount' \in {-1} \cup 1 .. NumThreads
    BY <1>0, <1>2, <1>4
  <2>5. flagCopy' \in [Threads -> BOOLEAN] /\ barrierFlag' \in BOOLEAN
    BY <1>0, <1>4
  <2> QED BY <1>0, <1>4, <2>1, <2>3, <2>4, <2>5, BarrierFrame
<1>5. CASE /\ barrierCount = 1
           /\ barrierCount' = NumThreads
           /\ barrierFlag' = ~barrierFlag
           /\ Goto(t, "dequeue")
           /\ UNCHANGED <<flagCopy, aborted>>
  <2>1. at' = [at EXCEPT ![t] = "dequeue"]
    BY <1>5 DEF Goto
  <2>2. /\ at'[t] = "dequeue"
        /\ \A u \in Threads : u # t => at'[u] = at[u]
    BY <1>0, <2>1
  <2>3. Rounds'
    <3> SUFFICES ASSUME ~stopped PROVE Rounds'
      BY <1>1 DEF Rounds
    <3>1. Cardinality(Blocked) >= NumThreads - 1
      <4>1. barrierCount = NumThreads - Cardinality(Blocked)
        BY DEF IInv, Rounds
      <4> QED BY <1>2, <1>5, <4>1
    <3>2. Blocked = Threads \ {t}
      BY <1>0, <3>1, AllOthers
    <3>3. \A u \in Threads : u # t => at[u] = "waiting" /\ flagCopy[u] = barrierFlag
      BY <3>2 DEF Blocked
    <3>4. \A u \in Threads : ~Released(u)
      BY <1>0, <3>3 DEF Released
    <3>5. barrierFlag' # barrierFlag
      BY <1>5
    <3>6. \A u \in Threads : u # t => flagCopy'[u] # barrierFlag'
      BY <1>5, <3>3, <3>5
    <3>7. \A u \in Threads : Released(u)'
      BY <2>2, <3>3, <3>6 DEF Released
    <3>8. Blocked' = {}
      BY <2>2, <3>6 DEF Blocked
    <3>9. barrierCount' = NumThreads - Cardinality(Blocked')
      <4>1. Cardinality(Blocked') = 0
        BY <3>8, FS_EmptySet
      <4> QED BY <1>2, <1>5, <4>1
    <3>10. \A u \in Threads : sliceOf[u] = Dispatched
      BY <3>4 DEF IInv, Rounds
    <3> QED BY <1>1, <3>7, <3>9, <3>10 DEF Rounds
  <2>4. barrierCount' \in {-1} \cup 1 .. NumThreads
    BY <1>2, <1>5
  <2>5. flagCopy' \in [Threads -> BOOLEAN] /\ barrierFlag' \in BOOLEAN
    BY <1>0, <1>5
  <2> QED BY <1>0, <1>5, <2>1, <2>3, <2>4, <2>5, BarrierFrame
<1> QED BY <1>3, <1>4, <1>5 DEF BarrierWait

\* What is known of a thread that reports its slice.
LEMMA Reporting ==
  ASSUME IInv, NEW t \in Threads, at[t] \in Holding
  PROVE  /\ sliceOf[t] \in JobIds /\ sliceOf[t] \in 1 .. Last
         /\ ~Left(t, sliceOf[t]) /\ t \notin Gone(sliceOf[t])
         /\ status[sliceOf[t]] \in {"RUNNING", "FAILED"}
         /\ \A u \in Threads : sliceOf[u] <= sliceOf[t]
         /\ \A u \in Threads : at[u] \in {"finish", "account"} => sliceOf[u] # sliceOf[t]
<1>1. sliceOf[t] \in 1 .. Last /\ 1 .. Last \subseteq JobIds /\ \A u \in Threads : sliceOf[u] \in Nat
  BY LastType DEF IInv, Turns, InSlice
<1>2. ~Left(t, sliceOf[t]) /\ t \notin Gone(sliceOf[t])
  BY <1>1 DEF Left, Gone
<1>3. status[sliceOf[t]] \in {"RUNNING", "FAILED"}
  BY <1>1 DEF IInv, StatusFits
<1>4. \A u \in Threads : sliceOf[u] <= sliceOf[t]
  BY <1>1 DEF IInv, Turns, InSlice
<1>5. \A u \in Threads : at[u] \in {"finish", "account"} => sliceOf[u] # sliceOf[t]
  BY <1>1, <1>2, <1>3 DEF IInv, StatusFits
<1> QED BY <1>1, <1>2, <1>3, <1>4, <1>5

LEMMA NotifyStoppedIInv ==
  ASSUME IInv, NEW t \in Threads, at[t] = "notify", stopped,
         status' = [status EXCEPT ![sliceOf[t]] = "FAILED"], at' = [at EXCEPT ![t] = "loop"],
         UNCHANGED <<contextVars, stopped, queueVars, barrierVars, sliceOf,
                     flagCopy, appVars, aborted, history>>
  PROVE  IInv'
<1> DEFINE j == sliceOf[t]
<1>1. /\ UNCHANGED <<contextState, contextLocked, currentJobs, stopped, queue, undispatched, finished,
                     barrierCount, barrierFlag, sliceOf, flagCopy, submitted, app, waiter,
                     aborted, taken, worked>>
      /\ Last' = Last
      /\ Cleared' <=> Cleared
  BY DEF contextVars, queueVars, barrierVars, appVars, history, Last, Cleared
<1>2. at \in [Threads -> Places] /\ at' \in [Threads -> Places]
  BY DEF IInv, TypeOK, Places
<1>3. at'[t] = "loop" /\ \A u \in Threads : u # t => at'[u] = at[u]
  BY <1>2
<1>4. /\ j \in JobIds /\ j \in 1 .. Last /\ status[j] \in {"RUNNING", "FAILED"}
      /\ \A u \in Threads : sliceOf[u] <= j
      /\ \A u \in Threads : at[u] \in {"finish", "account"} => sliceOf[u] # j
      /\ \A u \in Threads : sliceOf[u] \in Nat
      /\ Last \in Nat
  BY Reporting, LastType DEF Holding, IInv
<1>5. /\ status' \in [JobIds -> Statuses] /\ status'[j] = "FAILED"
      /\ \A i \in JobIds : i # j => status'[i] = status[i]
      /\ \A i \in JobIds : i \in Nat
  BY <1>4, ThreadsType DEF IInv, TypeOK, Statuses
<1>6. \A u \in Threads : /\ at'[u] \in InSlice => at[u] \in InSlice
                         /\ at'[u] \in Holding => at[u] \in Holding
                         /\ at'[u] = "finish" <=> at[u] = "finish"
                         /\ at'[u] = "account" <=> at[u] = "account"
  BY <1>3 DEF InSlice, Holding
<1>7. \A u \in Threads : \A i : Left(u, i) => Left(u, i)'
  BY <1>1, <1>6 DEF Left
<1>8. TypeOK'
  BY <1>1, <1>2, <1>5 DEF IInv, TypeOK, Places
<1>9. Phases'
  BY <1>1, <1>3 DEF IInv, Phases
<1>10. QueueInOrder'
  BY <1>1, QueueFrame DEF IInv
<1>11. Turns'
  BY <1>1, <1>6, TurnsFrame, LastType DEF IInv
<1>12. Rounds' /\ Reports' /\ Efforts'
  BY <1>1 DEF Rounds, Reports, Efforts, IInv, Phases
<1>13. StatusFits'
  <2>0. StatusFits
    BY DEF IInv
  <2>1. \A i \in JobIds :
          /\ status'[i] = "INIT" <=> i > Last
          /\ status'[i] = "QUEUED" => \A u \in Threads : sliceOf[u] < i
          /\ status'[i] = "RUNNING" => \E u \in Threads : sliceOf[u] >= i
          /\ status'[i] = "FINISHED" => \A u \in Threads : Left(u, i)'
          /\ status'[i] = "FAILED" => stopped
    BY <1>4, <1>5, <1>7, <2>0 DEF StatusFits
  <2>2. \A u \in Threads : \A i \in JobIds :
          /\ i < sliceOf[u] => status'[i] = "FINISHED"
          /\ i = sliceOf[u] =>
               /\ at'[u] \in Holding => status'[i] \in {"RUNNING", "FAILED"}
               /\ at'[u] = "finish" => status'[i] = "RUNNING" /\ \A v \in Threads : Left(v, i)'
               /\ at'[u] = "account" => status'[i] = "FINISHED"
    BY <1>4, <1>5, <1>6, <1>7, <2>0 DEF StatusFits
  <2>3. \A u, v \in Threads :
          (at'[u] \in {"finish", "account"} /\ at'[v] \in {"finish", "account"}
           /\ sliceOf[u] = sliceOf[v]) => u = v
    BY <1>6, <2>0 DEF StatusFits
  <2> QED BY <1>1, <2>1, <2>2, <2>3 DEF StatusFits
<1>14. Accounts'
  <2>1. \A i \in 1 .. submitted : i \in JobIds
    BY ThreadsType DEF IInv, TypeOK
  <2>2. \A i \in 1 .. submitted : Open(i)' <=> Open(i)
    BY <1>1, <1>4, <1>5, <1>6, <2>1 DEF Open
  <2>3. {i \in 1 .. submitted : Open(i)}' = {i \in 1 .. submitted : Open(i)}
    BY <1>1, <2>2
  <2> QED BY <1>1, <2>3 DEF IInv, Accounts
<1> QED BY <1>8, <1>9, <1>10, <1>11, <1>12, <1>13, <1>14 DEF IInv

\* A slice is reported and counted: what does not depend on the count.
LEMMA NotifyFrame ==
  ASSUME IInv, NEW t \in Threads, at[t] = "notify", ~stopped,
         NEW w \in {"finish", "loop"}, at' = [at EXCEPT ![t] = w],
         \E D \in SUBSET JobIds : finished' \in [D -> 0 .. NumThreads - 1],
         w = "finish" => \A u \in Threads : u # t => Left(u, sliceOf[t]),
         Reports',
         UNCHANGED <<contextVars, stopped, queue, undispatched, barrierVars, status, sliceOf,
                     flagCopy, appVars, aborted, history>>
  PROVE  IInv'
<1> DEFINE j == sliceOf[t]
<1>1. /\ UNCHANGED <<contextState, contextLocked, currentJobs, stopped, queue, undispatched,
                     barrierCount, barrierFlag, status, sliceOf, flagCopy, submitted, app, waiter,
                     aborted, taken, worked>>
      /\ Last' = Last /\ Dispatched' = Dispatched
      /\ Cleared' <=> Cleared
  BY DEF contextVars, barrierVars, appVars, history, Last, Cleared, Dispatched
<1>2. at \in [Threads -> Places] /\ at' \in [Threads -> Places]
  BY DEF IInv, TypeOK, Places
<1>3. at'[t] = w /\ \A u \in Threads : u # t => at'[u] = at[u]
  BY <1>2
<1>4. /\ j \in JobIds /\ j \in 1 .. Last /\ status[j] \in {"RUNNING", "FAILED"}
      /\ \A u \in Threads : sliceOf[u] <= j
      /\ \A u \in Threads : at[u] \in {"finish", "account"} => sliceOf[u] # j
      /\ \A u \in Threads : sliceOf[u] \in Nat
  BY Reporting, LastType DEF Holding, IInv
<1>5. \A u \in Threads : /\ at'[u] \in InSlice => at[u] \in InSlice
                         /\ at'[u] \in Holding => at[u] \in Holding
                         /\ at'[u] = "finish" => u = t \/ at[u] = "finish"
                         /\ at'[u] = "account" <=> at[u] = "account"
                         /\ at'[u] = "empty" => at[u] = "empty"
                         /\ at'[u] = "notify" => at[u] = "notify"
  BY <1>3 DEF InSlice, Holding
<1>6. \A u \in Threads : \A i : Left(u, i) => Left(u, i)'
  BY <1>1, <1>5 DEF Left
<1>7. Blocked' = Blocked /\ \A u \in Threads : Released(u)' <=> Released(u)
  <2>1. Blocked' = Blocked
    BY <1>1, <1>3 DEF Blocked
  <2>2. \A u \in Threads : Released(u)' <=> Released(u)
    BY <1>1, <1>3 DEF Released
  <2> QED BY <2>1, <2>2
<1>8. TypeOK'
  BY <1>1, <1>2 DEF IInv, TypeOK, Places
<1>9. Phases'
  BY <1>1, <1>3 DEF IInv, Phases
<1>10. QueueInOrder'
  BY <1>1, QueueFrame DEF IInv
<1>11. Turns'
  BY <1>1, <1>5, TurnsFrame, LastType DEF IInv
<1>12. Rounds'
  BY <1>1, <1>7, RoundsFrame DEF IInv
<1>13. StatusFits'
  <2>0. StatusFits
    BY DEF IInv
  <2>1. \A i \in JobIds :
          /\ status[i] = "INIT" <=> i > Last
          /\ status[i] = "QUEUED" => \A u \in Threads : sliceOf[u] < i
          /\ status[i] = "RUNNING" => \E u \in Threads : sliceOf[u] >= i
          /\ status[i] = "FINISHED" => \A u \in Threads : Left(u, i)'
          /\ status[i] = "FAILED" => stopped
    BY <1>6, <2>0 DEF StatusFits
  <2>2. w = "finish" => status[j] = "RUNNING" /\ \A v \in Threads : Left(v, j)'
    <3>1. status[j] # "FAILED"
      BY <1>4, <2>1
    <3>2. w = "finish" => Left(t, j)'
      BY <1>1, <1>3 DEF Left, Holding
    <3> QED BY <1>4, <1>6, <3>1, <3>2
  <2>3. \A u \in Threads : \A i \in JobIds :
          /\ i < sliceOf[u] => status[i] = "FINISHED"
          /\ i = sliceOf[u] =>
               /\ at'[u] \in Holding => status[i] \in {"RUNNING", "FAILED"}
               /\ at'[u] = "finish" => status[i] = "RUNNING" /\ \A v \in Threads : Left(v, i)'
               /\ at'[u] = "account" => status[i] = "FINISHED"
    <3>1. \A i \in JobIds : at'[t] = "finish" /\ i = sliceOf[t] =>
            status[i] = "RUNNING" /\ \A v \in Threads : Left(v, i)'
      BY <1>3, <2>2
    <3>2. \A u \in Threads : \A i \in JobIds : at'[u] = "finish" /\ u # t /\ i = sliceOf[u] =>
            status[i] = "RUNNING" /\ \A v \in Threads : Left(v, i)'
      BY <1>5, <1>6, <2>0 DEF StatusFits
    <3> QED BY <1>5, <2>0, <3>1, <3>2 DEF StatusFits
  <2>4. \A u, v \in Threads :
          (at'[u] \in {"finish", "account"} /\ at'[v] \in {"finish", "account"}
           /\ sliceOf[u] = sliceOf[v]) => u = v
    BY <1>4, <1>5, <2>0 DEF StatusFits
  <2> QED BY <1>1, <2>1, <2>3, <2>4 DEF StatusFits
<1>14. Accounts'
  BY <1>1, <1>5, AccountsFrame DEF IInv
<1>15. Efforts'
  <2>1. \A u \in Threads : \A i \in JobIds :
          Left(u, i)' => Left(u, i) \/ (sliceOf[u] = i /\ at[u] = "notify")
    BY <1>1, <1>3 DEF Left
  <2>2. Efforts
    BY DEF IInv
  <2> QED BY <1>1, <1>5, <2>1, <2>2 DEF Efforts
<1> QED BY <1>8, <1>9, <1>10, <1>11, <1>12, <1>13, <1>14, <1>15 DEF IInv

LEMMA NotifyIInv ==
  ASSUME IInv, NEW t \in Threads, NotifyJobSliceCompletion(t)
  PROVE  IInv'
<1> DEFINE j == sliceOf[t]
<1>1. /\ at[t] = "notify"
      /\ UNCHANGED <<contextVars, stopped, queue, undispatched, barrierVars, sliceOf,
                     flagCopy, appVars, aborted, history>>
  BY DEF NotifyJobSliceCompletion
<1>2. CASE /\ stopped
           /\ status' = [status EXCEPT ![j] = "FAILED"]
           /\ Goto(t, "loop")
           /\ UNCHANGED finished
  BY <1>1, <1>2, NotifyStoppedIInv DEF Goto, queueVars
<1>3. ASSUME ~stopped
      PROVE  /\ j \in JobIds /\ j \in 1 .. Last /\ j \in DOMAIN finished /\ t \notin Gone(j)
             /\ Gone(j) \in SUBSET Threads /\ Cardinality(Gone(j)) \in Nat
             /\ finished[j] \in Nat /\ finished[j] <= Cardinality(Gone(j))
             /\ ~Leaving => finished[j] = Cardinality(Gone(j))
             /\ stopped' = stopped /\ sliceOf' = sliceOf /\ contextState' = contextState
             /\ Last' = Last /\ Last \in Nat
  <2>1. j \in JobIds /\ j \in 1 .. Last /\ ~Left(t, j) /\ t \notin Gone(j)
    BY <1>1, Reporting DEF Holding
  <2>2. j \in DOMAIN finished /\ finished[j] <= Cardinality(Gone(j))
        /\ (~Leaving => finished[j] = Cardinality(Gone(j)))
    BY <1>3, <2>1 DEF IInv, Reports
  <2>3. finished[j] \in Nat
    BY <2>2, ThreadsType DEF IInv, TypeOK
  <2>4. Gone(j) \in SUBSET Threads
    BY DEF Gone
  <2>5. Cardinality(Gone(j)) \in Nat
    BY <2>4, SomeThreads
  <2>6. stopped' = stopped /\ sliceOf' = sliceOf /\ contextState' = contextState /\ Last' = Last
    BY <1>1 DEF contextVars, appVars, Last
  <2> QED BY <2>1, <2>2, <2>3, <2>4, <2>5, <2>6, LastType DEF IInv
<1>4. PICK D \in SUBSET JobIds : finished \in [D -> 0 .. NumThreads - 1]
  BY DEF IInv, TypeOK
<1>5. at \in [Threads -> Places]
  BY DEF IInv, TypeOK, Places
<1>6. NumThreads \in Nat /\ NumThreads >= 1
  BY ThreadsType
<1>7. ASSUME ~stopped, NEW w \in {"finish", "loop"}, at' = [at EXCEPT ![t] = w]
      PROVE  /\ at'[t] = w /\ \A u \in Threads : u # t => at'[u] = at[u]
             /\ \A u \in Threads : \A i : Left(u, i)' <=> Left(u, i) \/ (u = t /\ i = j)
             /\ \A i : i # j => Gone(i)' = Gone(i)
             /\ Gone(j)' = Gone(j) \cup {t}
             /\ Leaving => Leaving'
  <2>1. at'[t] = w /\ \A u \in Threads : u # t => at'[u] = at[u]
    BY <1>5, <1>7
  <2>2. \A u \in Threads : \A i : Left(u, i)' <=> Left(u, i) \/ (u = t /\ i = j)
    BY <1>1, <1>3, <1>7, <2>1 DEF Left, Holding
  <2>3. (\A i : i # j => Gone(i)' = Gone(i)) /\ Gone(j)' = Gone(j) \cup {t}
    <3>1. ASSUME NEW i, i # j PROVE Gone(i)' = Gone(i)
      BY <2>2, <3>1 DEF Gone
    <3>2. j' = j
      BY <1>3, <1>7
    <3>3. Gone(j)' = Gone(j) \cup {t}
      BY <2>2, <3>2 DEF Gone
    <3> QED BY <3>1, <3>3
  <2>4. Leaving => Leaving'
    BY <1>1, <1>3, <1>7, <2>1 DEF Leaving
  <2> QED BY <2>1, <2>2, <2>3, <2>4
<1>8. CASE /\ ~stopped /\ finished[j] + 1 = NumThreads
           /\ finished' = [i \in DOMAIN finished \ {j} |-> finished[i]]
           /\ Goto(t, "finish")
           /\ UNCHANGED status
  <2>1. at' = [at EXCEPT ![t] = "finish"]
    BY <1>8 DEF Goto
  <2>2. /\ at'[t] = "finish" /\ \A u \in Threads : u # t => at'[u] = at[u]
        /\ \A u \in Threads : \A i : Left(u, i)' <=> Left(u, i) \/ (u = t /\ i = j)
        /\ \A i : i # j => Gone(i)' = Gone(i)
        /\ Leaving => Leaving'
    BY <1>7, <1>8, <2>1
  <2>3. Gone(j) = Threads \ {t}
    <3>1. Cardinality(Gone(j)) >= NumThreads - 1
      BY <1>3, <1>6, <1>8
    <3> QED BY <1>3, <1>8, <3>1, AllOthers
  <2>4. \A u \in Threads : u # t => Left(u, j)
    BY <2>3 DEF Gone
  <2>5. \E E \in SUBSET JobIds : finished' \in [E -> 0 .. NumThreads - 1]
    <3>1. D \ {j} \in SUBSET JobIds /\ finished' \in [D \ {j} -> 0 .. NumThreads - 1]
      BY <1>4, <1>8
    <3> QED BY <3>1
  <2>6. DOMAIN finished' = DOMAIN finished \ {j} /\ \A i \in DOMAIN finished' : finished'[i] = finished[i]
    BY <1>8
  <2>7. Reports'
    <3>1. Reports
      BY DEF IInv
    <3>2. \A i \in 1 .. Last :
            /\ (\E u \in Threads : ~Left(u, i)') => i \in DOMAIN finished'
            /\ i \in DOMAIN finished' =>
                 /\ finished'[i] <= Cardinality(Gone(i)')
                 /\ ~Leaving' => finished'[i] = Cardinality(Gone(i)')
            /\ i \notin DOMAIN finished' =>
                 \/ status[i] = "FINISHED"
                 \/ \E u \in Threads : at'[u] = "finish" /\ sliceOf[u] = i
      <4> SUFFICES ASSUME NEW i \in 1 .. Last
                   PROVE  /\ (\E u \in Threads : ~Left(u, i)') => i \in DOMAIN finished'
                          /\ i \in DOMAIN finished' =>
                               /\ finished'[i] <= Cardinality(Gone(i)')
                               /\ ~Leaving' => finished'[i] = Cardinality(Gone(i)')
                          /\ i \notin DOMAIN finished' =>
                               \/ status[i] = "FINISHED"
                               \/ \E u \in Threads : at'[u] = "finish" /\ sliceOf[u] = i
        OBVIOUS
      <4>1. CASE i = j
        BY <2>2, <2>4, <2>6, <4>1
      <4>2. CASE i # j
        BY <1>1, <1>8, <2>2, <2>6, <3>1, <4>2 DEF Reports
      <4> QED BY <4>1, <4>2
    <3>3. DOMAIN finished' \subseteq 1 .. Last
      BY <1>8, <2>6, <3>1 DEF Reports
    <3> QED BY <1>3, <1>8, <3>2, <3>3 DEF Reports
  <2> QED BY <1>1, <1>8, <2>1, <2>4, <2>5, <2>7, NotifyFrame
<1>9. CASE /\ ~stopped /\ finished[j] + 1 < NumThreads
           /\ finished' = [finished EXCEPT ![j] = @ + 1]
           /\ Goto(t, "loop")
           /\ UNCHANGED status
  <2>1. at' = [at EXCEPT ![t] = "loop"]
    BY <1>9 DEF Goto
  <2>2. /\ at'[t] = "loop" /\ \A u \in Threads : u # t => at'[u] = at[u]
        /\ \A u \in Threads : \A i : Left(u, i)' <=> Left(u, i) \/ (u = t /\ i = j)
        /\ \A i : i # j => Gone(i)' = Gone(i)
        /\ Gone(j)' = Gone(j) \cup {t}
        /\ Leaving => Leaving'
    BY <1>7, <1>9, <2>1
  <2>3. /\ finished' \in [D -> 0 .. NumThreads - 1] /\ DOMAIN finished' = DOMAIN finished
        /\ finished'[j] = finished[j] + 1
        /\ \A i \in DOMAIN finished : i # j => finished'[i] = finished[i]
    <3>1. finished[j] + 1 \in 0 .. NumThreads - 1
      BY <1>3, <1>6, <1>9
    <3> QED BY <1>3, <1>4, <1>9, <3>1
  <2>4. Cardinality(Gone(j)') = Cardinality(Gone(j)) + 1
    BY <1>3, <1>9, <2>2, OneMore
  <2>5. finished'[j] <= Cardinality(Gone(j)') /\ (~Leaving => finished'[j] = Cardinality(Gone(j)'))
    BY <1>3, <1>9, <2>3, <2>4
  <2>6. Reports'
    <3>1. Reports
      BY DEF IInv
    <3>2. \A i \in 1 .. Last :
            /\ (\E u \in Threads : ~Left(u, i)') => i \in DOMAIN finished'
            /\ i \in DOMAIN finished' =>
                 /\ finished'[i] <= Cardinality(Gone(i)')
                 /\ ~Leaving' => finished'[i] = Cardinality(Gone(i)')
            /\ i \notin DOMAIN finished' =>
                 \/ status[i] = "FINISHED"
                 \/ \E u \in Threads : at'[u] = "finish" /\ sliceOf[u] = i
      <4> SUFFICES ASSUME NEW i \in 1 .. Last
                   PROVE  /\ (\E u \in Threads : ~Left(u, i)') => i \in DOMAIN finished'
                          /\ i \in DOMAIN finished' =>
                               /\ finished'[i] <= Cardinality(Gone(i)')
                               /\ ~Leaving' => finished'[i] = Cardinality(Gone(i)')
                          /\ i \notin DOMAIN finished' =>
                               \/ status[i] = "FINISHED"
                               \/ \E u \in Threads : at'[u] = "finish" /\ sliceOf[u] = i
        OBVIOUS
      <4>1. CASE i = j
        BY <1>3, <1>9, <2>2, <2>3, <2>5, <4>1
      <4>2. CASE i # j
        BY <1>1, <1>9, <2>2, <2>3, <3>1, <4>2 DEF Reports
      <4> QED BY <4>1, <4>2
    <3>3. DOMAIN finished' \subseteq 1 .. Last
      BY <1>9, <2>3, <3>1 DEF Reports
    <3> QED BY <1>3, <1>9, <3>2, <3>3 DEF Reports
  <2> QED BY <1>1, <1>9, <2>1, <2>3, <2>6, NotifyFrame
<1> QED BY <1>2, <1>8, <1>9 DEF NotifyJobSliceCompletion

\* What is known of the thread that finishes a job and accounts for it.
LEMMA Finishing ==
  ASSUME IInv, NEW t \in Threads, at[t] \in {"finish", "account"}
  PROVE  /\ sliceOf[t] \in JobIds /\ sliceOf[t] \in 1 .. Last
         /\ \A u \in Threads : Left(u, sliceOf[t])
         /\ status[sliceOf[t]] = IF at[t] = "finish" THEN "RUNNING" ELSE "FINISHED"
         /\ \A u \in Threads : at[u] \in {"finish", "account"} /\ sliceOf[u] = sliceOf[t] => u = t
<1>1. sliceOf[t] \in 1 .. Last /\ 1 .. Last \subseteq JobIds
  BY LastType DEF IInv, Turns, InSlice
<1>2. /\ status[sliceOf[t]] = IF at[t] = "finish" THEN "RUNNING" ELSE "FINISHED"
      /\ \A u \in Threads : Left(u, sliceOf[t])
  BY <1>1 DEF IInv, StatusFits
<1>3. \A u \in Threads : at[u] \in {"finish", "account"} /\ sliceOf[u] = sliceOf[t] => u = t
  BY DEF IInv, StatusFits
<1> QED BY <1>1, <1>2, <1>3

LEMMA FinishJobIInv ==
  ASSUME IInv, NEW t \in Threads, FinishJob(t)
  PROVE  IInv'
<1> DEFINE j == sliceOf[t]
<1>0. at[t] = "finish" /\ status' = [status EXCEPT ![j] = "FINISHED"] /\ at' = [at EXCEPT ![t] = "account"]
  BY DEF FinishJob, Goto
<1>1. /\ UNCHANGED <<contextState, contextLocked, currentJobs, stopped, queue, undispatched, finished,
                     barrierCount, barrierFlag, sliceOf, flagCopy, submitted, app, waiter,
                     aborted, taken, worked>>
      /\ Last' = Last /\ Dispatched' = Dispatched
      /\ Cleared' <=> Cleared
  BY DEF FinishJob, contextVars, queueVars, barrierVars, appVars, history, Last, Cleared, Dispatched
<1>2. at \in [Threads -> Places] /\ at' \in [Threads -> Places]
  BY <1>0 DEF IInv, TypeOK, Places
<1>3. at'[t] = "account" /\ \A u \in Threads : u # t => at'[u] = at[u]
  BY <1>0, <1>2
<1>4. /\ j \in JobIds /\ j \in 1 .. Last /\ status[j] = "RUNNING"
      /\ \A u \in Threads : Left(u, j)
      /\ \A u \in Threads : at[u] \in {"finish", "account"} /\ sliceOf[u] = j => u = t
      /\ Last \in Nat
  BY <1>0, Finishing, LastType DEF IInv
<1>5. /\ status' \in [JobIds -> Statuses] /\ status'[j] = "FINISHED"
      /\ \A i \in JobIds : i # j => status'[i] = status[i]
      /\ \A i \in JobIds : i \in Nat
  BY <1>0, <1>4, ThreadsType DEF IInv, TypeOK, Statuses
<1>6. \A u \in Threads : /\ at'[u] \in InSlice => at[u] \in InSlice
                         /\ at'[u] \in Holding <=> at[u] \in Holding
                         /\ at'[u] = "finish" <=> at[u] = "finish" /\ u # t
                         /\ at'[u] = "account" <=> at[u] = "account" \/ u = t
                         /\ at'[u] \in {"finish", "account"} <=> at[u] \in {"finish", "account"}
                         /\ at'[u] = "empty" => at[u] = "empty"
                         /\ at'[u] = "notify" => at[u] = "notify"
  BY <1>0, <1>3 DEF InSlice, Holding
<1>7. \A u \in Threads : \A i : Left(u, i)' <=> Left(u, i)
  BY <1>1, <1>6 DEF Left
<1>8. Blocked' = Blocked /\ \A u \in Threads : Released(u)' <=> Released(u)
  <2>1. Blocked' = Blocked
    BY <1>0, <1>1, <1>3 DEF Blocked
  <2>2. \A u \in Threads : Released(u)' <=> Released(u)
    BY <1>0, <1>1, <1>3 DEF Released
  <2> QED BY <2>1, <2>2
<1>9. TypeOK'
  BY <1>1, <1>2, <1>5 DEF IInv, TypeOK, Places
<1>10. Phases'
  BY <1>0, <1>1, <1>3 DEF IInv, Phases
<1>11. QueueInOrder'
  BY <1>1, QueueFrame DEF IInv
<1>12. Turns'
  BY <1>1, <1>6, TurnsFrame, LastType DEF IInv
<1>13. Rounds'
  BY <1>1, <1>8, RoundsFrame DEF IInv
<1>14. Reports'
  <2>1. \A i \in 1 .. Last : Gone(i)' = Gone(i)
    BY <1>7 DEF Gone
  <2>2. Leaving => Leaving'
    BY <1>0, <1>1, <1>3 DEF Leaving
  <2>3. \A i \in 1 .. Last :
          (\/ status[i] = "FINISHED"
           \/ \E u \in Threads : at[u] = "finish" /\ sliceOf[u] = i)
          => (\/ status'[i] = "FINISHED"
              \/ \E u \in Threads : at'[u] = "finish" /\ sliceOf[u] = i)
    <3>1. \A i \in 1 .. Last : i \in JobIds
      BY LastType DEF IInv
    <3> QED BY <1>5, <1>6, <3>1
  <2> QED BY <1>1, <1>7, <2>1, <2>2, <2>3 DEF IInv, Reports
<1>15. StatusFits'
  <2>0. StatusFits
    BY DEF IInv
  <2>1. \A i \in JobIds :
          /\ status'[i] = "INIT" <=> i > Last
          /\ status'[i] = "QUEUED" => \A u \in Threads : sliceOf[u] < i
          /\ status'[i] = "RUNNING" => \E u \in Threads : sliceOf[u] >= i
          /\ status'[i] = "FINISHED" => \A u \in Threads : Left(u, i)'
          /\ status'[i] = "FAILED" => stopped
    BY <1>4, <1>5, <1>7, <2>0 DEF StatusFits
  <2>2. \A u \in Threads : \A i \in JobIds :
          /\ i < sliceOf[u] => status'[i] = "FINISHED"
          /\ i = sliceOf[u] =>
               /\ at'[u] \in Holding => status'[i] \in {"RUNNING", "FAILED"}
               /\ at'[u] = "finish" => status'[i] = "RUNNING" /\ \A v \in Threads : Left(v, i)'
               /\ at'[u] = "account" => status'[i] = "FINISHED"
    <3> SUFFICES ASSUME NEW u \in Threads, NEW i \in JobIds
                 PROVE  /\ i < sliceOf[u] => status'[i] = "FINISHED"
                        /\ i = sliceOf[u] =>
                             /\ at'[u] \in Holding => status'[i] \in {"RUNNING", "FAILED"}
                             /\ at'[u] = "finish" => status'[i] = "RUNNING" /\ \A v \in Threads : Left(v, i)'
                             /\ at'[u] = "account" => status'[i] = "FINISHED"
      OBVIOUS
    <3>1. CASE i = j
      <4>1. i = sliceOf[u] => at[u] \notin Holding
        BY <1>4, <1>5, <3>1 DEF Left
      <4>2. i = sliceOf[u] => at'[u] # "finish"
        BY <1>4, <1>6, <3>1
      <4> QED BY <1>5, <1>6, <3>1, <4>1, <4>2
    <3>2. CASE i # j
      BY <1>5, <1>6, <1>7, <2>0, <3>2 DEF StatusFits
    <3> QED BY <3>1, <3>2
  <2>3. \A u, v \in Threads :
          (at'[u] \in {"finish", "account"} /\ at'[v] \in {"finish", "account"}
           /\ sliceOf[u] = sliceOf[v]) => u = v
    BY <1>6, <2>0 DEF StatusFits
  <2> QED BY <1>1, <2>1, <2>2, <2>3 DEF StatusFits
<1>16. Accounts'
  <2>1. \A i \in 1 .. submitted : i \in JobIds
    BY ThreadsType DEF IInv, TypeOK
  <2>2. ASSUME NEW i \in 1 .. submitted PROVE Open(i)' <=> Open(i)
    <3>1. CASE i = j
      <4>1. Open(i)'
        BY <1>1, <1>3, <3>1 DEF Open
      <4>2. Open(i)
        BY <1>4, <3>1 DEF Open
      <4> QED BY <4>1, <4>2
    <3>2. CASE i # j
      BY <1>1, <1>5, <1>6, <2>1, <3>2 DEF Open
    <3> QED BY <3>1, <3>2
  <2>3. {i \in 1 .. submitted : Open(i)}' = {i \in 1 .. submitted : Open(i)}
    BY <1>1, <2>2
  <2> QED BY <1>1, <2>3 DEF IInv, Accounts
<1>17. Efforts'
  BY <1>1, <1>6, <1>7, EffortsFrame DEF IInv
<1> QED BY <1>9, <1>10, <1>11, <1>12, <1>13, <1>14, <1>15, <1>16, <1>17 DEF IInv

LEMMA AccountJobIInv ==
  ASSUME IInv, NEW t \in Threads, AccountJob(t)
  PROVE  IInv'
<1> DEFINE j == sliceOf[t]
<1>0. /\ at[t] = "account" /\ at' = [at EXCEPT ![t] = "loop"] /\ currentJobs' = currentJobs - 1
      /\ app \in {"ready", "enqueue", "blocked"} /\ contextState = "RUNNING" /\ ~Cleared
  BY DEF AccountJob, Goto, IInv, TypeOK, Phases, Cleared
<1>1. /\ UNCHANGED <<contextState, contextLocked, stopped, queue, undispatched, finished,
                     barrierCount, barrierFlag, status, sliceOf, flagCopy, submitted, app, waiter,
                     aborted, taken, worked>>
      /\ Last' = Last /\ Dispatched' = Dispatched
      /\ Cleared' <=> Cleared
  BY DEF AccountJob, queueVars, barrierVars, appVars, history, Last, Cleared, Dispatched
<1>2. at \in [Threads -> Places] /\ at' \in [Threads -> Places]
  BY <1>0 DEF IInv, TypeOK, Places
<1>3. at'[t] = "loop" /\ \A u \in Threads : u # t => at'[u] = at[u]
  BY <1>0, <1>2
<1>4. /\ j \in JobIds /\ j \in 1 .. Last /\ status[j] = "FINISHED"
      /\ \A u \in Threads : at[u] \in {"finish", "account"} /\ sliceOf[u] = j => u = t
      /\ Last \in Nat /\ Last <= submitted /\ submitted \in Nat
  BY <1>0, Finishing, LastType DEF IInv
<1>5. \A u \in Threads : /\ at'[u] \in InSlice => at[u] \in InSlice
                         /\ at'[u] \in Holding <=> at[u] \in Holding
                         /\ at'[u] = "finish" <=> at[u] = "finish"
                         /\ at'[u] = "account" <=> at[u] = "account" /\ u # t
                         /\ at'[u] = "empty" => at[u] = "empty"
                         /\ at'[u] = "notify" => at[u] = "notify"
  BY <1>0, <1>3 DEF InSlice, Holding
<1>6. \A u \in Threads : \A i : Left(u, i)' <=> Left(u, i)
  BY <1>1, <1>5 DEF Left
<1>7. Blocked' = Blocked /\ \A u \in Threads : Released(u)' <=> Released(u)
  <2>1. Blocked' = Blocked
    BY <1>0, <1>1, <1>3 DEF Blocked
  <2>2. \A u \in Threads : Released(u)' <=> Released(u)
    BY <1>0, <1>1, <1>3 DEF Released
  <2> QED BY <2>1, <2>2
<1> DEFINE open == {i \in 1 .. submitted : Open(i)}
<1>8. IsFiniteSet(open) /\ Cardinality(open) \in Nat /\ j \in open /\ currentJobs = Cardinality(open)
  <2>1. IsFiniteSet(1 .. submitted)
    BY <1>4, FS_Interval
  <2>2. IsFiniteSet(open)
    BY <2>1, FS_Subset
  <2>3. j \in open
    BY <1>0, <1>4 DEF Open
  <2> QED BY <1>0, <2>2, <2>3, FS_CardinalityType DEF IInv, Accounts
<1>9. {i \in 1 .. submitted : Open(i)}' = open \ {j}
  <2>1. ASSUME NEW i \in 1 .. submitted PROVE Open(i)' <=> Open(i) /\ i # j
    BY <1>1, <1>4, <1>5 DEF Open
  <2> QED BY <1>1, <2>1
<1>10. Cardinality(open \ {j}) = Cardinality(open) - 1
  BY <1>8, FS_RemoveElement
<1>11. Accounts' /\ currentJobs' \in 0 .. Len(Numels)
  <2>1. Cardinality(open \ {j}) \in Nat
    <3>1. IsFiniteSet(open \ {j})
      BY <1>8, FS_RemoveElement
    <3> QED BY <3>1, FS_CardinalityType
  <2>2. currentJobs \in 0 .. Len(Numels) /\ Len(Numels) \in Nat
    BY ThreadsType DEF IInv, TypeOK
  <2>3. currentJobs' = Cardinality(open \ {j})
    BY <1>0, <1>8, <1>10
  <2>4. currentJobs' \in 0 .. Len(Numels)
    BY <1>0, <2>1, <2>2, <2>3
  <2>5. currentJobs' = Cardinality({i \in 1 .. submitted : Open(i)}')
    BY <1>9, <2>3
  <2>6. Accounts'
    BY <2>5 DEF Accounts
  <2> QED BY <2>4, <2>6
<1>12. TypeOK'
  BY <1>1, <1>2, <1>11 DEF IInv, TypeOK, Places
<1>13. Phases'
  BY <1>0, <1>1, <1>3 DEF IInv, Phases
<1>14. QueueInOrder'
  BY <1>1, QueueFrame DEF IInv
<1>15. Turns'
  BY <1>1, <1>5, TurnsFrame, LastType DEF IInv
<1>16. Rounds'
  BY <1>1, <1>7, RoundsFrame DEF IInv
<1>17. Reports'
  <2>1. ~Leaving
    BY <1>0 DEF Leaving
  <2> QED BY <1>1, <1>5, <1>6, <2>1, ReportsFrame DEF IInv
<1>18. StatusFits'
  BY <1>1, <1>5, <1>6, StatusFrame DEF IInv
<1>19. Efforts'
  BY <1>1, <1>5, <1>6, EffortsFrame DEF IInv
<1> QED BY <1>11, <1>12, <1>13, <1>14, <1>15, <1>16, <1>17, <1>18, <1>19 DEF IInv

-----------------------------------------------------------------------------
(* Taking a slice of the first job in the queue *)

\* The thread has gone through the barrier: it is one job behind, and those that have
\* taken the job are one ahead of it.
LEMMA Taking ==
  ASSUME IInv, NEW t \in Threads, at[t] = "dequeue", ~stopped, queue # <<>>
  PROVE  /\ Head(queue) = Dispatched + 1 /\ Dispatched + 1 \in JobIds
         /\ Dispatched \in Nat /\ Last \in Nat /\ Dispatched + 1 <= Last
         /\ Dispatched + 1 \in DOMAIN undispatched
         /\ sliceOf[t] = Dispatched
         /\ \A u \in Threads : sliceOf[u] = IF Released(u) THEN Dispatched ELSE Dispatched + 1
         /\ \A u \in Threads : Released(u) => at[u] \in {"dequeue", "waiting"}
         /\ Behind(Dispatched + 1) = {u \in Threads : Released(u)}
         /\ undispatched[Dispatched + 1] = Cardinality(Behind(Dispatched + 1))
<1>1. ~Cleared
  BY DEF Cleared, IInv, Phases
<1>2. queue \in Seq(JobIds) /\ Len(queue) \in Nat /\ Len(queue) > 0
  BY LenProperties, EmptySeq DEF IInv, TypeOK
<1>3. Dispatched \in Nat /\ Last \in Nat /\ Last <= Len(Numels)
  <2>1. Dispatched \in Nat
    BY <1>1, QueuedJobs
  <2>2. TypeOK /\ Phases
    BY DEF IInv
  <2>3. Last \in Nat /\ Last <= submitted /\ submitted \in Nat
    BY <2>2, LastType
  <2>4. submitted <= Len(Numels) /\ Len(Numels) \in Nat
    BY <2>2, ThreadsType DEF TypeOK
  <2> QED BY <2>1, <2>3, <2>4
<1>4. Dispatched + 1 <= Last
  BY <1>2, <1>3 DEF Dispatched
<1>5. Head(queue) = Dispatched + 1
  BY <1>1, <1>2, HeadTailProperties DEF IInv, QueueInOrder
<1>6. Dispatched + 1 \in JobIds
  BY <1>3, <1>4, ThreadsType
<1>7. /\ Dispatched + 1 \in DOMAIN undispatched
      /\ undispatched[Dispatched + 1] = Cardinality(Behind(Dispatched + 1))
  BY <1>1, <1>3, <1>4 DEF IInv, QueueInOrder
<1>8. Released(t)
  BY DEF Released
<1>9. \A u \in Threads : sliceOf[u] = IF Released(u) THEN Dispatched ELSE Dispatched + 1
  BY <1>8 DEF IInv, Rounds
<1>10. Behind(Dispatched + 1) = {u \in Threads : Released(u)}
  BY <1>3, <1>9 DEF Behind
<1> QED BY <1>3, <1>4, <1>5, <1>6, <1>7, <1>8, <1>9, <1>10 DEF Released

\* The job before has been finished by then: either a thread was ahead, or all are
\* between two slices, and have been counted.
LEMMA BeforeIsFinished ==
  ASSUME IInv, NEW t \in Threads, at[t] = "dequeue", ~stopped, queue # <<>>, Dispatched > 0
  PROVE  Dispatched \in JobIds /\ status[Dispatched] = "FINISHED"
<1> DEFINE d == Dispatched
<1>1. /\ d + 1 \in JobIds /\ d \in Nat /\ d + 1 <= Last /\ Last \in Nat /\ sliceOf[t] = d
      /\ \A u \in Threads : sliceOf[u] = IF Released(u) THEN d ELSE d + 1
      /\ \A u \in Threads : Released(u) => at[u] \in {"dequeue", "waiting"}
  BY Taking
<1>2. d \in JobIds /\ d \in 1 .. Last
  BY <1>1, ThreadsType
<1>3. CASE \E u \in Threads : ~Released(u)
  <2>1. PICK u \in Threads : ~Released(u)
    BY <1>3
  <2>2. d < sliceOf[u]
    BY <1>1, <2>1
  <2> QED BY <1>2, <2>2 DEF IInv, StatusFits
<1>4. CASE \A u \in Threads : Released(u)
  <2>1. \A u \in Threads : sliceOf[u] = d /\ at[u] \in {"dequeue", "waiting"}
    BY <1>1, <1>4
  <2>2. Gone(d) = Threads
    BY <1>1, <2>1 DEF Gone, Left, Holding
  <2>3. ~Leaving
    BY <2>1 DEF Leaving
  <2>4. d \notin DOMAIN finished
    <3> SUFFICES ASSUME d \in DOMAIN finished PROVE FALSE
      OBVIOUS
    <3>1. finished[d] = NumThreads
      BY <1>2, <2>2, <2>3, ThreadsType DEF IInv, Reports
    <3>2. finished[d] \in 0 .. NumThreads - 1
      BY DEF IInv, TypeOK
    <3> QED BY <3>1, <3>2, ThreadsType
  <2> QED BY <1>2, <2>1, <2>4 DEF IInv, Reports
<1> QED BY <1>2, <1>3, <1>4

\* The part of the invariant about the queue and the barrier.
LEMMA TakeSliceQueue ==
  ASSUME IInv, NEW t \in Threads, TakeSlice(t)
  PROVE  /\ queue' \in Seq(JobIds)
         /\ \E D \in SUBSET JobIds : undispatched' \in [D -> 1 .. NumThreads]
         /\ QueueInOrder' /\ Rounds'
<1> DEFINE d == Dispatched
           j == Dispatched + 1
<1>0. /\ at[t] = "dequeue" /\ ~stopped /\ ~stopped' /\ queue # <<>> /\ Last' = Last
      /\ UNCHANGED <<barrierCount, barrierFlag, flagCopy, app>>
  BY DEF TakeSlice, barrierVars, appVars, Last
<1>1. /\ Head(queue) = j /\ j \in JobIds
      /\ d \in Nat /\ Last \in Nat /\ j <= Last /\ j \in DOMAIN undispatched
      /\ \A u \in Threads : sliceOf[u] = IF Released(u) THEN d ELSE j
      /\ Behind(j) = {u \in Threads : Released(u)}
      /\ undispatched[j] = Cardinality(Behind(j))
  BY <1>0, Taking
<1>2. /\ queue \in Seq(JobIds) /\ Len(queue) \in Nat /\ Len(queue) = Last - d /\ Len(queue) >= 1
      /\ \A i \in 1 .. Len(queue) : queue[i] = d + i
      /\ DOMAIN undispatched = j .. Last
      /\ \A i \in j .. Last : undispatched[i] = Cardinality(Behind(i))
      /\ ~Cleared /\ ~Cleared'
  <2>1. ~Cleared /\ ~Cleared'
    BY <1>0 DEF Cleared, IInv, Phases
  <2>2. queue \in Seq(JobIds) /\ Len(queue) \in Nat
    BY LenProperties DEF IInv, TypeOK
  <2>3. Len(queue) = Last - d
    BY <1>1, <2>2 DEF Dispatched
  <2> QED BY <1>1, <2>1, <2>2, <2>3 DEF IInv, QueueInOrder
<1>3. PICK D \in SUBSET JobIds : undispatched \in [D -> 1 .. NumThreads]
  BY DEF IInv, TypeOK
<1>4. at \in [Threads -> Places] /\ sliceOf \in [Threads -> 0 .. Len(Numels)]
  BY DEF IInv, TypeOK, Places
<1>5. /\ sliceOf'[t] = j /\ at'[t] \in {"work", "empty"}
      /\ \A u \in Threads : u # t => sliceOf'[u] = sliceOf[u] /\ at'[u] = at[u]
  <2>1. sliceOf' = [sliceOf EXCEPT ![t] = j]
    BY <1>1 DEF TakeSlice
  <2>2. PICK w \in {"work", "empty"} : at' = [at EXCEPT ![t] = w]
    BY DEF TakeSlice, Goto
  <2> QED BY <1>4, <2>1, <2>2
<1>6. Released(t) /\ \A u \in Threads : Released(u)' <=> Released(u) /\ u # t
  BY <1>0, <1>5 DEF Released
<1>7. Blocked' = Blocked
  BY <1>0, <1>5 DEF Blocked
<1>8. barrierCount' = NumThreads - Cardinality(Blocked')
  BY <1>0, <1>7 DEF IInv, Rounds
<1>9. \A i \in j + 1 .. Last : Behind(i)' = Behind(i)
  <2>1. \A u \in Threads : \A i \in j + 1 .. Last : sliceOf[u] < i /\ sliceOf'[u] < i
    BY <1>1, <1>5
  <2> QED BY <2>1 DEF Behind
<1>10. Behind(j) \in SUBSET Threads /\ t \in Behind(j) /\ Cardinality(Behind(j)) \in Nat
  BY <1>1, <1>6, SomeThreads
<1>11. Cardinality(Behind(j) \ {t}) = Cardinality(Behind(j)) - 1
  BY <1>10, OneLess
<1>12. {u \in Threads : sliceOf'[u] < j} = Behind(j) \ {t}
  <2>1. \A u \in Threads : sliceOf'[u] < j <=> sliceOf[u] < j /\ u # t
    BY <1>1, <1>5
  <2> QED BY <2>1 DEF Behind
<1>13. CASE /\ undispatched[j] = 1
            /\ undispatched' = [i \in DOMAIN undispatched \ {j} |-> undispatched[i]]
            /\ queue' = Tail(queue)
  <2>1. /\ queue' \in Seq(JobIds) /\ Len(queue') = Len(queue) - 1
        /\ \A i \in 1 .. Len(queue') : queue'[i] = queue[i + 1]
    BY <1>0, <1>2, <1>13, HeadTailProperties
  <2>2. Dispatched' = j
    BY <1>0, <1>1, <1>2, <2>1 DEF Dispatched
  <2>3. \A i \in 1 .. Len(queue') : queue'[i] = j + i
    <3>1. \A i \in 1 .. Len(queue') : i + 1 \in 1 .. Len(queue) /\ d + (i + 1) = j + i
      BY <1>1, <1>2, <2>1
    <3> QED BY <1>2, <2>1, <3>1
  <2>4. \E E \in SUBSET JobIds : undispatched' \in [E -> 1 .. NumThreads]
    <3>1. D \ {j} \in SUBSET JobIds /\ undispatched' \in [D \ {j} -> 1 .. NumThreads]
      BY <1>3, <1>13
    <3> QED BY <3>1
  <2>5. DOMAIN undispatched' = j + 1 .. Last
    BY <1>1, <1>2, <1>13
  <2>6. \A i \in j + 1 .. Last : undispatched'[i] = Cardinality(Behind(i)')
    <3>1. \A i \in j + 1 .. Last : i \in j .. Last /\ i # j
      BY <1>1
    <3>2. \A i \in j + 1 .. Last : undispatched'[i] = undispatched[i]
      BY <1>2, <1>13, <3>1
    <3> QED BY <1>2, <1>9, <3>1, <3>2
  <2>7. QueueInOrder'
    BY <1>0, <1>1, <2>2, <2>3, <2>5, <2>6 DEF QueueInOrder
  <2>8. Behind(j) = {t}
    <3>1. Cardinality(Behind(j) \ {t}) = 0
      BY <1>1, <1>10, <1>11, <1>13
    <3>2. Behind(j) \ {t} = {}
      BY <1>10, <3>1, SomeThreads
    <3> QED BY <1>10, <3>2
  <2>9. \A u \in Threads : sliceOf'[u] = j /\ ~Released(u)'
    BY <1>1, <1>5, <1>6, <2>8
  <2>10. Rounds'
    BY <1>8, <2>2, <2>9 DEF Rounds
  <2> QED BY <2>1, <2>4, <2>7, <2>10
<1>14. CASE /\ undispatched[j] # 1
            /\ undispatched' = [undispatched EXCEPT ![j] = @ - 1]
            /\ UNCHANGED queue
  <2>1. Dispatched' = d
    BY <1>0, <1>14 DEF Dispatched
  <2>2. undispatched[j] \in 1 .. NumThreads /\ NumThreads \in Nat
    BY <1>1, <1>3, ThreadsType
  <2>3. undispatched' \in [D -> 1 .. NumThreads] /\ undispatched'[j] = undispatched[j] - 1
        /\ \A i \in DOMAIN undispatched : i # j => undispatched'[i] = undispatched[i]
    <3>1. undispatched[j] - 1 \in 1 .. NumThreads
      BY <1>14, <2>2
    <3> QED BY <1>1, <1>3, <1>14, <3>1
  <2>4. \A i \in j .. Last : undispatched'[i] = Cardinality(Behind(i)')
    <3>1. \A i \in j .. Last : i = j \/ i \in j + 1 .. Last
      BY <1>1
    <3>2. Behind(j)' = Behind(j) \ {t}
      BY <1>12, <2>1 DEF Behind
    <3>3. j' = j
      BY <2>1
    <3>4. undispatched'[j] = Cardinality(Behind(j)')
      BY <1>1, <1>10, <1>11, <2>3, <3>2
    <3>5. \A i \in j + 1 .. Last : i \in j .. Last /\ i # j
      BY <1>1
    <3>6. \A i \in j + 1 .. Last : undispatched'[i] = Cardinality(Behind(i)')
      BY <1>2, <1>9, <2>3, <3>5
    <3> QED BY <3>1, <3>3, <3>4, <3>6
  <2>5. DOMAIN undispatched' = j .. Last
    BY <1>2, <1>14
  <2>6. QueueInOrder'
    BY <1>0, <1>1, <1>2, <1>14, <2>1, <2>4, <2>5 DEF QueueInOrder
  <2>7. \E u \in Threads : Released(u)'
    <3>1. Behind(j) \ {t} # {}
      <4>1. Cardinality(Behind(j) \ {t}) # 0
        BY <1>1, <1>10, <1>11, <1>14
      <4> QED BY <4>1, FS_EmptySet
    <3> QED BY <1>1, <1>6, <3>1
  <2>8. \A u \in Threads : sliceOf'[u] = IF Released(u)' THEN d ELSE j
    BY <1>1, <1>5, <1>6
  <2>9. Rounds'
    BY <1>8, <2>1, <2>7, <2>8 DEF Rounds
  <2> QED BY <1>2, <1>14, <2>3, <2>6, <2>9
<1> QED BY <1>1, <1>13, <1>14 DEF TakeSlice

LEMMA TakeSliceIInv ==
  ASSUME IInv, NEW t \in Threads, TakeSlice(t)
  PROVE  IInv'
<1> DEFINE d == Dispatched
           j == Dispatched + 1
<1>0. /\ at[t] = "dequeue" /\ ~stopped /\ ~stopped' /\ queue # <<>> /\ Last' = Last
      /\ UNCHANGED <<contextState, contextLocked, currentJobs, stopped, finished, barrierCount,
                     barrierFlag, flagCopy, submitted, app, waiter, aborted, worked>>
      /\ Cleared' <=> Cleared
  BY DEF TakeSlice, contextVars, barrierVars, appVars, Last, Cleared
<1>1. /\ Head(queue) = j /\ j \in JobIds /\ d \in Nat /\ Last \in Nat /\ j <= Last
      /\ sliceOf[t] = d
      /\ \A u \in Threads : sliceOf[u] = IF Released(u) THEN d ELSE j
      /\ \A u \in Threads : Released(u) => at[u] \in {"dequeue", "waiting"}
  BY <1>0, Taking
<1>2. /\ at \in [Threads -> Places] /\ sliceOf \in [Threads -> 0 .. Len(Numels)]
      /\ status \in [JobIds -> Statuses] /\ taken \in [JobIds -> [Threads -> Nat]]
      /\ \A i \in JobIds : i \in Nat
  BY ThreadsType DEF IInv, TypeOK, Places
<1>3. /\ status' = [status EXCEPT ![j] = "RUNNING"]
      /\ sliceOf' = [sliceOf EXCEPT ![t] = j]
      /\ taken' = [taken EXCEPT ![j][t] = @ + 1]
      /\ at' = [at EXCEPT ![t] = IF SliceNumel(Numels[j], t) > 0 THEN "work" ELSE "empty"]
  BY <1>1 DEF TakeSlice, Goto
<1>4. /\ sliceOf'[t] = j /\ at'[t] \in {"work", "empty"}
      /\ at'[t] = "empty" => ~(SliceNumel(Numels[j], t) > 0)
      /\ \A u \in Threads : u # t => sliceOf'[u] = sliceOf[u] /\ at'[u] = at[u]
      /\ \A u \in Threads : sliceOf[u] \in Nat /\ sliceOf'[u] \in Nat
  BY <1>1, <1>2, <1>3, ThreadsType
<1>5. at' \in [Threads -> Places]
  <2>1. PICK w \in {"work", "empty"} : at' = [at EXCEPT ![t] = w]
    BY <1>3
  <2> QED BY <1>2, <2>1 DEF Places
<1>6. /\ status' \in [JobIds -> Statuses] /\ status'[j] = "RUNNING"
      /\ \A i \in JobIds : i # j => status'[i] = status[i]
  BY <1>1, <1>2, <1>3 DEF Statuses
<1>7. /\ taken' \in [JobIds -> [Threads -> Nat]]
      /\ taken'[j][t] = taken[j][t] + 1
      /\ \A i \in JobIds, u \in Threads : i # j \/ u # t => taken'[i][u] = taken[i][u]
  BY <1>1, <1>2, <1>3
<1>8. /\ queue' \in Seq(JobIds)
      /\ \E D \in SUBSET JobIds : undispatched' \in [D -> 1 .. NumThreads]
      /\ QueueInOrder' /\ Rounds'
  BY TakeSliceQueue
<1>9. \A u \in Threads : \A i \in JobIds : Left(u, i)' <=> Left(u, i)
  <2>1. \A i \in JobIds : Left(t, i)' <=> Left(t, i)
    BY <1>0, <1>1, <1>2, <1>4 DEF Left, Holding
  <2>2. \A u \in Threads : u # t => \A i \in JobIds : Left(u, i)' <=> Left(u, i)
    BY <1>4 DEF Left
  <2> QED BY <2>1, <2>2
<1>10. \A u \in Threads : /\ at'[u] \in InSlice => at[u] \in InSlice \/ u = t
                          /\ at'[u] = "finish" <=> at[u] = "finish"
                          /\ at'[u] = "account" <=> at[u] = "account"
                          /\ at'[u] = "notify" => at[u] = "notify"
  BY <1>0, <1>4 DEF InSlice, Holding
<1>11. TypeOK'
  <2>1. sliceOf' \in [Threads -> 0 .. Len(Numels)]
    BY <1>1, <1>2, <1>3, ThreadsType
  <2>2. /\ contextState' \in {"CREATED", "RUNNING", "STOPPING", "STOPPED"} /\ contextLocked' \in BOOLEAN
        /\ currentJobs' \in 0 .. Len(Numels) /\ stopped' \in BOOLEAN
        /\ \E D \in SUBSET JobIds : finished' \in [D -> 0 .. NumThreads - 1]
    BY <1>0 DEF IInv, TypeOK
  <2>3. /\ barrierCount' \in {-1} \cup 1 .. NumThreads /\ barrierFlag' \in BOOLEAN
        /\ flagCopy' \in [Threads -> BOOLEAN] /\ submitted' \in 0 .. Len(Numels)
    BY <1>0 DEF IInv, TypeOK
  <2>4. /\ app' \in {"created", "starting", "ready", "enqueue", "blocked", "stopping", "clearing",
                     "joining", "stopped"}
        /\ waiter' \in {"idle", "waiting", "returned"} /\ aborted' \in BOOLEAN
        /\ worked' \in [JobIds -> SUBSET Threads]
    BY <1>0 DEF IInv, TypeOK
  <2> QED BY <1>5, <1>6, <1>7, <1>8, <2>1, <2>2, <2>3, <2>4 DEF TypeOK, Places
<1>12. Phases'
  BY <1>0, <1>4 DEF IInv, Phases
<1>13. Turns'
  <2>0. Turns
    BY DEF IInv
  <2>1. \A u \in Threads : sliceOf'[u] <= Last /\ (at'[u] \in InSlice => sliceOf'[u] > 0)
    BY <1>1, <1>4, <1>10, <2>0 DEF Turns
  <2>2. \A i \in JobIds, u \in Threads : taken'[i][u] = IF i <= sliceOf'[u] THEN 1 ELSE 0
    <3> SUFFICES ASSUME NEW i \in JobIds, NEW u \in Threads
                 PROVE  taken'[i][u] = IF i <= sliceOf'[u] THEN 1 ELSE 0
      OBVIOUS
    <3>1. taken[i][u] = IF i <= sliceOf[u] THEN 1 ELSE 0
      BY <2>0 DEF Turns
    <3>2. CASE u # t
      BY <1>4, <1>7, <3>1, <3>2
    <3>3. CASE u = t /\ i = j
      BY <1>1, <1>4, <1>7, <3>1, <3>3
    <3>4. CASE u = t /\ i # j
      BY <1>1, <1>2, <1>4, <1>7, <3>1, <3>4
    <3> QED BY <3>2, <3>3, <3>4
  <2>3. \A u, v \in Threads : sliceOf'[u] > sliceOf'[v] =>
          sliceOf'[u] = sliceOf'[v] + 1 /\ at'[v] \notin InSlice
    <3> SUFFICES ASSUME NEW u \in Threads, NEW v \in Threads, sliceOf'[u] > sliceOf'[v]
                 PROVE  sliceOf'[u] = sliceOf'[v] + 1 /\ at'[v] \notin InSlice
      OBVIOUS
    <3>1. sliceOf'[u] \in {d, j} /\ sliceOf'[v] \in {d, j}
      BY <1>1, <1>4
    <3>2. sliceOf'[u] = j /\ sliceOf'[v] = d
      BY <1>1, <3>1
    <3>3. v # t /\ Released(v)
      BY <1>1, <1>4, <3>2
    <3> QED BY <1>1, <1>4, <3>2, <3>3 DEF InSlice, Holding
  <2> QED BY <1>0, <2>1, <2>2, <2>3 DEF Turns
<1>14. status[j] \in {"QUEUED", "RUNNING"}
  <2>1. ~Left(t, j)
    BY <1>1, <1>4 DEF Left
  <2> QED BY <1>0, <1>1, <1>2, <2>1 DEF IInv, StatusFits, Statuses
<1>15. Reports'
  <2>1. \A i \in 1 .. Last : i \in JobIds
    BY LastType DEF IInv
  <2>2. \A i \in 1 .. Last : Gone(i)' = Gone(i)
    BY <1>9, <2>1 DEF Gone
  <2>3. Leaving => Leaving'
    BY <1>0, <1>4 DEF Leaving
  <2>4. \A i \in 1 .. Last :
          (\/ status[i] = "FINISHED"
           \/ \E u \in Threads : at[u] = "finish" /\ sliceOf[u] = i)
          => (\/ status'[i] = "FINISHED"
              \/ \E u \in Threads : at'[u] = "finish" /\ sliceOf'[u] = i)
    <3>1. \A u \in Threads : at[u] = "finish" => sliceOf'[u] = sliceOf[u]
      BY <1>0, <1>4
    <3> QED BY <1>6, <1>10, <1>14, <2>1, <3>1
  <2> QED BY <1>0, <1>9, <2>1, <2>2, <2>3, <2>4 DEF IInv, Reports
<1>16. StatusFits'
  <2>0. StatusFits
    BY DEF IInv
  <2>1. \A i \in JobIds :
          /\ status'[i] = "INIT" <=> i > Last
          /\ status'[i] = "QUEUED" => \A u \in Threads : sliceOf'[u] < i
          /\ status'[i] = "RUNNING" => \E u \in Threads : sliceOf'[u] >= i
          /\ status'[i] = "FINISHED" => \A u \in Threads : Left(u, i)'
          /\ status'[i] = "FAILED" => stopped
    <3> SUFFICES ASSUME NEW i \in JobIds
                 PROVE  /\ status'[i] = "INIT" <=> i > Last
                        /\ status'[i] = "QUEUED" => \A u \in Threads : sliceOf'[u] < i
                        /\ status'[i] = "RUNNING" => \E u \in Threads : sliceOf'[u] >= i
                        /\ status'[i] = "FINISHED" => \A u \in Threads : Left(u, i)'
                        /\ status'[i] = "FAILED" => stopped
      OBVIOUS
    <3>1. CASE i = j
      <4>1. sliceOf'[t] >= i /\ ~(i > Last)
        BY <1>1, <1>4, <3>1
      <4> QED BY <1>6, <3>1, <4>1
    <3>2. CASE i # j
      <4>1. status'[i] = status[i]
        BY <1>6, <3>2
      <4>2. status[i] = "QUEUED" => \A u \in Threads : sliceOf'[u] < i
        <5> SUFFICES ASSUME status[i] = "QUEUED", NEW u \in Threads PROVE sliceOf'[u] < i
          OBVIOUS
        <5>1. \A v \in Threads : sliceOf[v] < i
          BY <2>0 DEF StatusFits
        <5>2. d < i /\ i \in Nat
          BY <1>1, <1>2, <5>1
        <5>3. j < i
          BY <1>1, <3>2, <5>2
        <5> QED BY <1>1, <1>4, <5>1, <5>3
      <4>3. \A u \in Threads : sliceOf'[u] >= sliceOf[u]
        BY <1>1, <1>4
      <4>4. status[i] = "RUNNING" => \E u \in Threads : sliceOf'[u] >= i
        <5>1. status[i] = "RUNNING" => \E u \in Threads : sliceOf[u] >= i
          BY <2>0 DEF StatusFits
        <5> SUFFICES ASSUME status[i] = "RUNNING" PROVE \E u \in Threads : sliceOf'[u] >= i
          OBVIOUS
        <5>2. PICK u \in Threads : sliceOf[u] >= i
          BY <5>1
        <5>3. sliceOf'[u] >= i
          BY <1>2, <1>4, <4>3, <5>2
        <5> QED BY <5>3
      <4> QED BY <1>9, <2>0, <4>1, <4>2, <4>4 DEF StatusFits
    <3> QED BY <3>1, <3>2
  <2>2. \A u \in Threads : \A i \in JobIds :
          /\ i < sliceOf'[u] => status'[i] = "FINISHED"
          /\ i = sliceOf'[u] =>
               /\ at'[u] \in Holding => status'[i] \in {"RUNNING", "FAILED"}
               /\ at'[u] = "finish" => status'[i] = "RUNNING" /\ \A v \in Threads : Left(v, i)'
               /\ at'[u] = "account" => status'[i] = "FINISHED"
    <3> SUFFICES ASSUME NEW u \in Threads, NEW i \in JobIds
                 PROVE  /\ i < sliceOf'[u] => status'[i] = "FINISHED"
                        /\ i = sliceOf'[u] =>
                             /\ at'[u] \in Holding => status'[i] \in {"RUNNING", "FAILED"}
                             /\ at'[u] = "finish" => status'[i] = "RUNNING" /\ \A v \in Threads : Left(v, i)'
                             /\ at'[u] = "account" => status'[i] = "FINISHED"
      OBVIOUS
    <3>1. i < j => status'[i] = "FINISHED"
      <4> SUFFICES ASSUME i < j PROVE status[i] = "FINISHED"
        BY <1>1, <1>2, <1>6
      <4>1. CASE i < d
        BY <1>1, <2>0, <4>1 DEF StatusFits
      <4>2. CASE i = d
        <5>1. d > 0
          BY <4>2, ThreadsType
        <5> QED BY <1>0, <4>2, <5>1, BeforeIsFinished
      <4> QED BY <1>1, <1>2, <4>1, <4>2
    <3>2. CASE u = t
      BY <1>4, <1>6, <3>1, <3>2 DEF Holding
    <3>3. CASE u # t
      <4>1. i < sliceOf[u] => status'[i] = "FINISHED"
        <5>1. sliceOf[u] <= j
          BY <1>1
        <5> QED BY <1>1, <1>2, <1>4, <3>1, <5>1
      <4>2. i = sliceOf[u] /\ at[u] \in Holding => status'[i] \in {"RUNNING", "FAILED"}
        BY <1>6, <2>0 DEF StatusFits
      <4>3. i = j => ~Left(t, i)
        BY <1>1, <1>4 DEF Left
      <4>4. i = sliceOf[u] /\ at[u] = "finish" =>
              status[i] = "RUNNING" /\ \A v \in Threads : Left(v, i)
        BY <2>0 DEF StatusFits
      <4>5. i = sliceOf[u] /\ at[u] = "finish" =>
              status'[i] = "RUNNING" /\ \A v \in Threads : Left(v, i)'
        BY <1>6, <1>9, <4>4
      <4>6. i = sliceOf[u] /\ at[u] = "account" => status'[i] = "FINISHED"
        BY <1>6, <1>14, <2>0 DEF StatusFits
      <4> QED BY <1>4, <3>3, <4>1, <4>2, <4>5, <4>6
    <3> QED BY <3>2, <3>3
  <2>3. \A u, v \in Threads :
          (at'[u] \in {"finish", "account"} /\ at'[v] \in {"finish", "account"}
           /\ sliceOf'[u] = sliceOf'[v]) => u = v
    <3>1. \A u \in Threads : at'[u] \in {"finish", "account"} =>
            at[u] \in {"finish", "account"} /\ sliceOf'[u] = sliceOf[u]
      BY <1>4, <1>10
    <3> QED BY <2>0, <3>1 DEF StatusFits
  <2> QED BY <1>0, <2>1, <2>2, <2>3 DEF StatusFits
<1>17. Accounts'
  <2>1. \A i \in 1 .. submitted : i \in JobIds
    BY ThreadsType DEF IInv, TypeOK
  <2>2. \A u \in Threads : at[u] = "account" => sliceOf'[u] = sliceOf[u]
    BY <1>0, <1>4
  <2>3. ASSUME NEW i \in 1 .. submitted PROVE Open(i)' <=> Open(i)
    <3>1. CASE i = j
      <4>1. Open(i)'
        BY <1>6, <3>1 DEF Open
      <4>2. Open(i)
        BY <1>14, <3>1 DEF Open
      <4> QED BY <4>1, <4>2
    <3>2. CASE i # j
      BY <1>6, <1>10, <2>1, <2>2, <3>2 DEF Open
    <3> QED BY <3>1, <3>2
  <2>4. {i \in 1 .. submitted : Open(i)}' = {i \in 1 .. submitted : Open(i)}
    BY <1>0, <2>3
  <2> QED BY <1>0, <2>4 DEF IInv, Accounts
<1>18. Efforts'
  <2>1. \A u \in Threads : at'[u] = "notify" => at[u] = "notify" /\ sliceOf'[u] = sliceOf[u]
    BY <1>4, <1>10
  <2>2. \A u \in Threads : at'[u] = "empty" /\ u # t => at[u] = "empty" /\ sliceOf'[u] = sliceOf[u]
    BY <1>4
  <2>3. Efforts
    BY DEF IInv
  <2>4. contextState = "RUNNING" =>
          \A u \in Threads : \A i \in JobIds :
            SliceNumel(Numels[i], u) > 0 /\ (Left(u, i)' \/ (sliceOf'[u] = i /\ at'[u] = "notify"))
              => u \in worked[i]
    BY <1>9, <2>1, <2>3 DEF Efforts
  <2>5. contextState = "RUNNING" =>
          \A u \in Threads : \A i \in JobIds :
            sliceOf'[u] = i /\ at'[u] = "empty" => ~(SliceNumel(Numels[i], u) > 0)
    <3>1. \A i \in JobIds : sliceOf'[t] = i /\ at'[t] = "empty" => ~(SliceNumel(Numels[i], t) > 0)
      BY <1>4
    <3>2. contextState = "RUNNING" =>
            \A u \in Threads : u # t => \A i \in JobIds :
              sliceOf'[u] = i /\ at'[u] = "empty" => ~(SliceNumel(Numels[i], u) > 0)
      BY <2>2, <2>3 DEF Efforts
    <3> QED BY <3>1, <3>2
  <2> QED BY <1>0, <2>4, <2>5 DEF Efforts, SliceNumel
<1> QED BY <1>8, <1>11, <1>12, <1>13, <1>15, <1>16, <1>17, <1>18 DEF IInv

-----------------------------------------------------------------------------
(* The theorems *)

LEMMA NextIInv == IInv /\ [Next]_vars => IInv'
<1> SUFFICES ASSUME IInv, [Next]_vars PROVE IInv'
  OBVIOUS
<1>1. CASE UNCHANGED vars
  <2>1. /\ aborted' = aborted
        /\ UNCHANGED <<contextVars, stopped, queueVars, barrierVars, status, threadVars,
                       appVars, history>>
    BY <1>1 DEF vars
  <2>2. aborted' \in BOOLEAN
    BY <2>1 DEF IInv, TypeOK
  <2> QED BY <2>1, <2>2, AbortIInv
<1>2. CASE StartStep
  BY <1>2, StartIInv, ProgressIInv, QuietIInv DEF StartStep
<1>3. CASE AllReduceAsync \/ EnqueueJob
  BY <1>3, AllReduceAsyncIInv, EnqueueJobIInv
<1>4. CASE WaitToComplete \/ StartWaiting \/ WakeWaiter \/ Stop
  BY <1>4, ProgressIInv
<1>5. CASE StopStep
  BY <1>5, ProgressIInv, ClearSchedulerIInv DEF StopStep
<1>6. ASSUME NEW t \in Threads, ThreadStep(t)
      PROVE  IInv'
  BY <1>6, QuietIInv, BarrierWaitIInv, TakeSliceIInv, SliceIInv, NotifyIInv, FinishJobIInv,
     AccountJobIInv DEF ThreadStep
<1> QED BY <1>1, <1>2, <1>3, <1>4, <1>5, <1>6 DEF Next, Idle

\* The invariant the others rest on holds in every reachable state.
THEOREM InductiveInvariant == Spec => []IInv
<1>1. Init => IInv
  BY InitIInv
<1>2. IInv /\ [Next]_vars => IInv'
  BY NextIInv
<1> QED BY <1>1, <1>2, PTL DEF Spec

\* Every variable of the context, the scheduler and the threads keeps its range: the
\* counters never pass their limits and the queue never holds anything but jobs.
THEOREM TypeCorrect == Spec => []TypeOK
<1>1. IInv => TypeOK
  BY DEF IInv
<1> QED BY <1>1, InductiveInvariant, PTL

\* The barrier keeps all threads on the same job (FifoScheduler::GetJobSlice).
THEOREM Lockstep == Spec => []JobsInLockstep
<1>1. IInv => JobsInLockstep
  <2> SUFFICES ASSUME IInv, NEW t \in Threads, NEW u \in Threads, NEW j \in JobIds
               PROVE  /\ taken[j][t] <= 1
                      /\ (taken[j][t] = 1 /\ j > 1) =>
                           /\ taken[j - 1][u] = 1
                           /\ ~(sliceOf[u] = j - 1 /\ at[u] \in {"work", "empty", "notify"})
    BY DEF JobsInLockstep
  <2>1. taken[j][t] = IF j <= sliceOf[t] THEN 1 ELSE 0
    BY DEF IInv, Turns
  <2>2. sliceOf[t] \in Nat /\ sliceOf[u] \in Nat /\ j \in Nat /\ j <= Len(Numels) /\ Len(Numels) \in Nat
    BY ThreadsType, LastType DEF IInv
  <2>3. ASSUME taken[j][t] = 1, j > 1
        PROVE  taken[j - 1][u] = 1 /\ ~(sliceOf[u] = j - 1 /\ at[u] \in {"work", "empty", "notify"})
    <3>1. j <= sliceOf[t]
      BY <2>1, <2>3
    <3>2. sliceOf[t] > sliceOf[u] => sliceOf[t] = sliceOf[u] + 1 /\ at[u] \notin InSlice
      BY DEF IInv, Turns
    <3>3. j - 1 <= sliceOf[u] /\ j - 1 \in JobIds
      BY <2>2, <2>3, <3>1, <3>2, ThreadsType
    <3>4. taken[j - 1][u] = 1
      BY <3>3 DEF IInv, Turns
    <3>5. sliceOf[u] = j - 1 => at[u] \notin InSlice
      BY <2>2, <3>1, <3>2
    <3> QED BY <3>4, <3>5 DEF InSlice, Holding
  <2> QED BY <2>1, <2>3
<1> QED BY <1>1, InductiveInvariant, PTL

\* A job that reads FINISHED has been worked on by every thread that got elements of it
\* (FifoScheduler::NotifyJobSliceCompletion).
THEOREM Complete == Spec => []FinishedMeansComplete
<1>1. IInv => FinishedMeansComplete
  BY DEF IInv, FinishedMeansComplete, StatusFits, Efforts
<1> QED BY <1>1, InductiveInvariant, PTL

\* WaitForAllJobs returns late enough: no job is open when the context counts none.
THEOREM WaitReturns == Spec => WaitReturnsLate
<1>1. ASSUME IInv, [Next]_vars, waiter = "waiting", waiter' = "returned", contextState = "RUNNING"
      PROVE  \A j \in 1 .. submitted : status[j] = "FINISHED"
  <2>1. WakeWaiter
    <3>1. ~UNCHANGED vars /\ ~Idle
      BY <1>1 DEF vars, appVars, Idle
    <3>2. ~StartStep /\ ~AllReduceAsync /\ ~EnqueueJob /\ ~WaitToComplete /\ ~StartWaiting /\ ~Stop
          /\ ~StopStep
      BY <1>1 DEF StartStep, Start, StartReturns, StartThread, AllReduceAsync, EnqueueJob, WaitToComplete,
                  StartWaiting, Stop, StopStep, StopScheduler, ClearScheduler, JoinThreads, appVars
    <3>3. \A t \in Threads : ~ThreadStep(t)
      BY <1>1 DEF ThreadStep, CheckContext, GetJobSlice, BarrierWait, BarrierWake, TakeSlice, WakeStopped,
                  SkipEmptySlice, FinishWork, AbandonWork, NotifyJobSliceCompletion, FinishJob,
                  AccountJob, appVars
    <3> QED BY <1>1, <3>1, <3>2, <3>3 DEF Next
  <2>2. currentJobs = 0 /\ ~Cleared
    BY <1>1, <2>1 DEF WakeWaiter, IInv, Phases, Cleared
  <2>3. Cardinality({j \in 1 .. submitted : Open(j)}) = 0
    BY <1>1, <2>2 DEF IInv, Accounts
  <2>4. IsFiniteSet({j \in 1 .. submitted : Open(j)})
    <3>1. submitted \in Nat
      BY <1>1, LastType DEF IInv
    <3>2. IsFiniteSet(1 .. submitted)
      BY <3>1, FS_Interval
    <3> QED BY <3>2, FS_Subset
  <2>5. {j \in 1 .. submitted : Open(j)} = {}
    BY <2>3, <2>4, FS_EmptySet
  <2> QED BY <2>5 DEF Open
<1>2. IInv /\ [Next]_vars =>
        [(waiter = "waiting" /\ waiter' = "returned" /\ contextState = "RUNNING") =>
            \A j \in 1 .. submitted : status[j] = "FINISHED"]_vars
  BY <1>1
<1> QED BY <1>2, InductiveInvariant, PTL DEF Spec, WaitReturnsLate

-----------------------------------------------------------------------------
(* The scheduler implements the job service *)

LEMMA StatusKnown ==
  ASSUME IInv, NEW j \in JobIds
  PROVE  status[j] \in Statuses /\ j \in Nat
BY ThreadsType DEF IInv, TypeOK

\* Stop fails the jobs in the queue that no thread has failed before.
LEMMA ClearIsDrop ==
  ASSUME IInv, ClearScheduler
  PROVE  Service!Next
<1> DEFINE jobs == {j \in JobIds : j \in Dispatched + 1 .. Last /\ status[j] # "FAILED"}
<1>1. app = "clearing" /\ contextState = "STOPPING" /\ contextState' = contextState /\ ~Cleared
  BY DEF ClearScheduler, IInv, Phases, Cleared
<1>2. \A j : (\E i \in DOMAIN queue : queue[i] = j) <=> j \in Dispatched + 1 .. Last
  BY <1>1, QueuedJobs
<1>3. \A j \in jobs : status[j] \in {"QUEUED", "RUNNING"}
  <2> SUFFICES ASSUME NEW j \in JobIds, j \in Dispatched + 1 .. Last, status[j] # "FAILED"
               PROVE  status[j] \in {"QUEUED", "RUNNING"}
    OBVIOUS
  <2>1. PICK t \in Threads : sliceOf[t] < j
    BY <1>1, QueuedNotAllTaken
  <2>2. ~Left(t, j)
    BY <2>1, LastType, StatusKnown DEF Left, IInv
  <2>3. status[j] # "FINISHED"
    BY <2>2 DEF IInv, StatusFits
  <2>4. ~(j > Last)
    BY LastType, QueuedJobs, <1>1, StatusKnown DEF IInv
  <2>5. status[j] # "INIT"
    BY <2>4 DEF IInv, StatusFits
  <2> QED BY <2>3, <2>5, StatusKnown DEF Statuses
<1>4. status' = [j \in JobIds |-> IF j \in jobs THEN "FAILED" ELSE status[j]]
  <2>1. status' = [j \in JobIds |-> IF \E i \in DOMAIN queue : queue[i] = j THEN "FAILED" ELSE status[j]]
    BY DEF ClearScheduler
  <2>2. \A j \in JobIds : (IF \E i \in DOMAIN queue : queue[i] = j THEN "FAILED" ELSE status[j])
                          = (IF j \in jobs THEN "FAILED" ELSE status[j])
    BY <1>2
  <2> QED BY <2>1, <2>2
<1>5. Service!Drop(jobs)
  BY <1>1, <1>3, <1>4 DEF Service!Drop, Service!Undecided
<1>6. jobs \in SUBSET JobIds
  OBVIOUS
<1> QED BY <1>5, <1>6 DEF Service!Next

\* A thread that reports its slice after the scheduler has stopped drops its job.
LEMMA NotifyIsDrop ==
  ASSUME IInv, NEW t \in Threads, NotifyJobSliceCompletion(t)
  PROVE  Service!Next \/ UNCHANGED <<contextState, status>>
<1> DEFINE j == sliceOf[t]
<1>1. at[t] = "notify" /\ contextState' = contextState
  BY DEF NotifyJobSliceCompletion, contextVars
<1>2. CASE status' = status
  BY <1>1, <1>2
<1>3. CASE stopped /\ status' = [status EXCEPT ![j] = "FAILED"]
  <2>1. contextState = "STOPPING"
    BY <1>1, <1>3 DEF IInv, Phases
  <2>2. j \in JobIds /\ status[j] \in {"RUNNING", "FAILED"}
    BY <1>1, Reporting DEF Holding
  <2>3. status \in [JobIds -> Statuses]
    BY DEF IInv, TypeOK
  <2>4. CASE status[j] = "FAILED"
    <3>1. status' = status
      BY <1>3, <2>3, <2>4
    <3> QED BY <1>1, <3>1
  <2>5. CASE status[j] = "RUNNING"
    <3>1. status' = [i \in JobIds |-> IF i \in {j} THEN "FAILED" ELSE status[i]]
      BY <1>3, <2>3
    <3>2. Service!Drop({j})
      BY <1>1, <2>1, <2>5, <3>1 DEF Service!Drop, Service!Undecided
    <3>3. {j} \in SUBSET JobIds
      BY <2>2
    <3> QED BY <3>2, <3>3 DEF Service!Next
  <2> QED BY <2>2, <2>4, <2>5
<1> QED BY <1>2, <1>3 DEF NotifyJobSliceCompletion

LEMMA TakeIsBegin ==
  ASSUME IInv, NEW t \in Threads, TakeSlice(t)
  PROVE  Service!Next \/ UNCHANGED <<contextState, status>>
<1> DEFINE j == Dispatched + 1
<1>1. /\ at[t] = "dequeue" /\ ~stopped /\ queue # <<>> /\ contextState' = contextState
  BY DEF TakeSlice, contextVars
<1>2. Head(queue) = j /\ j \in JobIds /\ Dispatched \in Nat /\ sliceOf[t] = Dispatched /\ j <= Last
      /\ Last \in Nat
  BY <1>1, Taking
<1>3. status' = [status EXCEPT ![j] = "RUNNING"]
  BY <1>2 DEF TakeSlice
<1>4. status \in [JobIds -> Statuses]
  BY DEF IInv, TypeOK
<1>5. status[j] \in {"QUEUED", "RUNNING"}
  <2>1. ~Left(t, j) /\ ~(j > Last)
    BY <1>1, <1>2 DEF Left
  <2> QED BY <1>1, <1>2, <1>4, <2>1 DEF IInv, StatusFits, Statuses
<1>6. CASE status[j] = "RUNNING"
  <2>1. status' = status
    BY <1>3, <1>4, <1>6
  <2> QED BY <1>1, <2>1
<1>7. CASE status[j] = "QUEUED"
  <2>1. \A i \in JobIds : i < j => status[i] = "FINISHED"
    <3> SUFFICES ASSUME NEW i \in JobIds, i < j PROVE status[i] = "FINISHED"
      OBVIOUS
    <3>1. i \in Nat /\ i > 0
      BY ThreadsType
    <3>2. CASE i < Dispatched
      BY <1>2, <3>2 DEF IInv, StatusFits
    <3>3. CASE i = Dispatched
      BY <1>1, <3>1, <3>3, BeforeIsFinished
    <3> QED BY <1>2, <3>1, <3>2, <3>3
  <2>2. Service!Begin(j)
    BY <1>1, <1>3, <1>7, <2>1 DEF Service!Begin, Service!SetStatus
  <2> QED BY <1>2, <2>2 DEF Service!Next
<1> QED BY <1>5, <1>6, <1>7

LEMMA FinishIsFinish ==
  ASSUME IInv, NEW t \in Threads, FinishJob(t)
  PROVE  Service!Next
<1> DEFINE j == sliceOf[t]
<1>1. at[t] = "finish" /\ contextState' = contextState /\ status' = [status EXCEPT ![j] = "FINISHED"]
  BY DEF FinishJob, contextVars
<1>2. j \in JobIds /\ status[j] = "RUNNING"
  BY <1>1, Finishing
<1>3. \A i \in JobIds : i < j => status[i] = "FINISHED"
  BY DEF IInv, StatusFits
<1>4. Service!Finish(j)
  BY <1>1, <1>2, <1>3 DEF Service!Finish, Service!SetStatus
<1> QED BY <1>2, <1>4 DEF Service!Next

LEMMA EnqueueIsSubmit ==
  ASSUME IInv, EnqueueJob
  PROVE  Service!Next
<1>1. app = "enqueue" /\ contextState = "RUNNING" /\ contextState' = contextState
      /\ status' = [status EXCEPT ![submitted] = "QUEUED"]
  BY DEF EnqueueJob, contextVars, IInv, Phases
<1>2. submitted \in JobIds /\ Last = submitted - 1
  <2>1. submitted > 0 /\ submitted \in 0 .. Len(Numels)
    BY <1>1 DEF IInv, TypeOK, Phases
  <2> QED BY <1>1, <2>1, ThreadsType DEF Last
<1>3. \A i \in JobIds : i \in Nat /\ (status[i] = "INIT" <=> i > Last)
  BY StatusKnown DEF IInv, StatusFits
<1>4. status[submitted] = "INIT" /\ \A i \in JobIds : i < submitted => status[i] # "INIT"
  BY <1>2, <1>3
<1>5. Service!Submit(submitted)
  BY <1>1, <1>4 DEF Service!Submit, Service!SetStatus
<1> QED BY <1>2, <1>5 DEF Service!Next

\* The context with its scheduler, its barrier and all its threads is the job service:
\* jobs finish in the order of submission, no status is skipped, and a job that Stop
\* dropped is not finished afterwards by a thread that was about to.
THEOREM Refinement == Spec => ImplementsService
<1>1. Init => Service!Init
  BY DEF Init, Service!Init
<1>2. ASSUME IInv, [Next]_vars
      PROVE  Service!Next \/ UNCHANGED <<contextState, status>>
  <2>1. CASE UNCHANGED vars
    BY <2>1 DEF vars, contextVars
  <2>2. CASE Start
    BY <1>2, <2>2 DEF Start, IInv, Phases, Service!Next, Service!Start
  <2>3. CASE Stop
    BY <2>3 DEF Stop, Service!Next, Service!BeginStop
  <2>4. CASE JoinThreads
    BY <1>2, <2>4 DEF JoinThreads, IInv, Phases, Service!Next, Service!EndStop
  <2>5. CASE \/ StartReturns \/ AllReduceAsync \/ WaitToComplete \/ StartWaiting \/ WakeWaiter
             \/ StopScheduler \/ \E t \in Threads : StartThread(t)
    BY <2>5 DEF StartReturns, AllReduceAsync, WaitToComplete, StartWaiting, WakeWaiter, StopScheduler,
                StartThread, contextVars
  <2>6. CASE EnqueueJob \/ ClearScheduler
    BY <1>2, <2>6, EnqueueIsSubmit, ClearIsDrop
  <2>7. ASSUME NEW t \in Threads, ThreadStep(t)
        PROVE  Service!Next \/ UNCHANGED <<contextState, status>>
    <3>1. CASE TakeSlice(t) \/ NotifyJobSliceCompletion(t) \/ FinishJob(t)
      BY <1>2, <3>1, TakeIsBegin, NotifyIsDrop, FinishIsFinish
    <3>2. CASE \/ CheckContext(t) \/ GetJobSlice(t) \/ BarrierWait(t) \/ BarrierWake(t) \/ WakeStopped(t)
               \/ SkipEmptySlice(t) \/ FinishWork(t) \/ AbandonWork(t) \/ AccountJob(t)
      BY <3>2 DEF CheckContext, GetJobSlice, BarrierWait, BarrierWake, WakeStopped, SkipEmptySlice,
                  FinishWork, AbandonWork, AccountJob, contextVars
    <3> QED BY <2>7, <3>1, <3>2 DEF ThreadStep
  <2> QED BY <1>2, <2>1, <2>2, <2>3, <2>4, <2>5, <2>6, <2>7 DEF Next, StartStep, StopStep, Idle
<1>3. IInv /\ [Next]_vars => [Service!Next]_(Service!vars)
  BY <1>2 DEF Service!vars
<1> QED BY <1>1, <1>3, InductiveInvariant, PTL DEF Spec, ImplementsService, Service!Spec

-----------------------------------------------------------------------------
(* The arithmetic of slices *)

LEMMA Division ==
  ASSUME NEW n \in Nat, NEW k \in Nat, k > 0
  PROVE  n = (n \div k) * k + (n % k) /\ n % k \in Nat /\ n % k < k /\ n \div k \in Nat
<1>1. n % k \in Nat /\ n % k < k
  OBVIOUS
<1>2. n \div k \in Nat
  OBVIOUS
<1>3. n = (n \div k) * k + (n % k)
  OBVIOUS
<1> QED BY <1>1, <1>2, <1>3

\* Multiples of a number are in the order of the factors.
LEMMA Multiples ==
  ASSUME NEW t \in Nat, NEW u \in Nat, NEW q \in Nat
  PROVE  /\ t * q \in Nat /\ (t + 1) * q = t * q + q /\ t * (q + 1) = t * q + t
         /\ t < u => t * q + q <= u * q
         /\ t <= u => t * q <= u * q
<1>1. t * q \in Nat /\ u * q \in Nat
  OBVIOUS
<1>2. (t + 1) * q = t * q + q /\ t * (q + 1) = t * q + t
  OBVIOUS
<1>3. t < u => t * q + q <= u * q
  <2> SUFFICES ASSUME t < u PROVE t * q + q <= u * q
    OBVIOUS
  <2>1. u * q = t * q + (u - t) * q
    OBVIOUS
  <2>2. (u - t) * q >= q
    OBVIOUS
  <2> QED BY <1>1, <2>1, <2>2
<1>4. t <= u => t * q <= u * q
  BY <1>1, <1>3
<1> QED BY <1>1, <1>2, <1>3, <1>4

\* A slice ends where the slice of the next thread begins.
LEMMA SliceShape ==
  ASSUME NEW n \in Nat, NEW t \in Threads, NEW q, q = n \div NumThreads, NEW r, r = n % NumThreads
  PROVE  /\ SliceOffset(n, t) = t * q + (IF t < r THEN t ELSE r)
         /\ SliceNumel(n, t) = q + (IF t < r THEN 1 ELSE 0)
         /\ SliceOffset(n, t) \in Nat /\ SliceNumel(n, t) \in Nat
         /\ SliceOffset(n, t) + SliceNumel(n, t) = (t + 1) * q + (IF t + 1 < r THEN t + 1 ELSE r)
<1>1. /\ t \in Nat /\ t < NumThreads /\ q \in Nat /\ r \in Nat /\ NumThreads \in Nat
  BY ThreadsType, Division DEF Threads
<1>2. t * q \in Nat /\ (t + 1) * q = t * q + q /\ t * (q + 1) = t * q + t
  BY <1>1, Multiples
<1>3. SliceNumel(n, t) = q + (IF t < r THEN 1 ELSE 0)
  BY <1>1 DEF SliceNumel
<1>4. SliceOffset(n, t) = t * q + (IF t < r THEN t ELSE r)
  <2>1. CASE t < r
    <3>1. SliceNumel(n, t) = q + 1
      BY <1>3, <2>1
    <3>2. SliceOffset(n, t) = t * (q + 1)
      BY <1>1, <2>1, <3>1 DEF SliceOffset
    <3> QED BY <1>2, <2>1, <3>2
  <2>2. CASE ~(t < r)
    <3>1. SliceNumel(n, t) = q
      BY <1>1, <1>3, <2>2
    <3>2. SliceOffset(n, t) = t * q + r
      BY <1>1, <2>2, <3>1 DEF SliceOffset
    <3> QED BY <2>2, <3>2
  <2> QED BY <2>1, <2>2
<1>5. SliceOffset(n, t) \in Nat /\ SliceNumel(n, t) \in Nat
  BY <1>1, <1>2, <1>3, <1>4
<1>6. SliceOffset(n, t) + SliceNumel(n, t) = (t + 1) * q + (IF t + 1 < r THEN t + 1 ELSE r)
  BY <1>1, <1>2, <1>3, <1>4
<1> QED BY <1>3, <1>4, <1>5, <1>6

LEMMA SlicesDisjoint ==
  ASSUME NEW n \in Nat, NEW t \in Threads, NEW u \in Threads, t < u
  PROVE  SliceOffset(n, t) + SliceNumel(n, t) <= SliceOffset(n, u)
<1> DEFINE q == n \div NumThreads
           r == n % NumThreads
<1>1. t \in Nat /\ u \in Nat /\ q \in Nat /\ r \in Nat
  BY ThreadsType, Division DEF Threads
<1>2. /\ SliceOffset(n, t) + SliceNumel(n, t) = (t + 1) * q + (IF t + 1 < r THEN t + 1 ELSE r)
      /\ SliceOffset(n, u) = u * q + (IF u < r THEN u ELSE r)
  BY SliceShape
<1>3. (t + 1) * q \in Nat /\ u * q \in Nat /\ (t + 1) * q <= u * q
  BY <1>1, Multiples
<1> HIDE DEF q, r
<1> QED BY <1>1, <1>2, <1>3

\* The thread an element belongs to.
LEMMA EveryElement ==
  ASSUME NEW n \in Nat, NEW x \in 0 .. n - 1
  PROVE  \E t \in Threads : x \in Elements(n, t)
<1> DEFINE q == n \div NumThreads
           r == n % NumThreads
<1>1. /\ NumThreads \in Nat /\ NumThreads > 0 /\ q \in Nat /\ r \in Nat /\ r < NumThreads
      /\ n = q * NumThreads + r /\ x \in Nat /\ x < n
  BY ThreadsType, Division
<1>2. ASSUME NEW t \in Threads
      PROVE  /\ t < r => SliceOffset(n, t) = t * q + t /\ SliceNumel(n, t) = q + 1
             /\ r <= t => SliceOffset(n, t) = t * q + r /\ SliceNumel(n, t) = q
  <2>1. /\ SliceOffset(n, t) = t * q + (IF t < r THEN t ELSE r)
        /\ SliceNumel(n, t) = q + (IF t < r THEN 1 ELSE 0)
    BY SliceShape
  <2>2. t \in Nat
    BY ThreadsType
  <2> HIDE DEF q, r
  <2> QED BY <1>1, <2>1, <2>2
<1> HIDE DEF q, r
<1>3. \A t \in 0 .. NumThreads - 1 : t \in Threads
  BY DEF Threads
<1>4. CASE x < r * (q + 1)
  <2> DEFINE t == x \div (q + 1)
             y == x % (q + 1)
  <2>1. /\ t \in Nat /\ y \in Nat /\ y < q + 1 /\ x = t * (q + 1) + y
    BY <1>1, Division
  <2> HIDE DEF t, y
  <2>2. t < r
    <3> SUFFICES ASSUME r <= t PROVE FALSE
      BY <1>1, <2>1
    <3>1. r * (q + 1) <= t * (q + 1) /\ t * (q + 1) \in Nat /\ r * (q + 1) \in Nat
      BY <1>1, <2>1, Multiples
    <3> QED BY <1>1, <1>4, <2>1, <3>1
  <2>3. t \in Threads
    BY <1>1, <1>3, <2>1, <2>2
  <2>4. SliceOffset(n, t) = t * q + t /\ SliceNumel(n, t) = q + 1
    BY <1>2, <2>2, <2>3
  <2>5. t * (q + 1) = t * q + t /\ t * q \in Nat
    BY <1>1, <2>1, Multiples
  <2>6. x \in Elements(n, t)
    BY <1>1, <2>1, <2>4, <2>5 DEF Elements
  <2> QED BY <2>3, <2>6
<1>5. CASE r * (q + 1) <= x
  <2>1. r * (q + 1) = r * q + r /\ r * q \in Nat /\ NumThreads * q \in Nat
    BY <1>1, Multiples
  <2>2. q > 0
    <3> SUFFICES ASSUME q = 0 PROVE FALSE
      BY <1>1
    <3>1. q * NumThreads = 0
      BY <1>1
    <3> QED BY <1>1, <1>5, <2>1, <3>1
  <2> DEFINE t == (x - r) \div q
             y == (x - r) % q
  <2>3. x - r \in Nat
    BY <1>1, <1>5, <2>1
  <2>4. t \in Nat /\ y \in Nat /\ y < q /\ x - r = t * q + y
    BY <1>1, <2>2, <2>3, Division
  <2> HIDE DEF t, y
  <2>5. t * q \in Nat
    BY <1>1, <2>4, Multiples
  <2>6. r <= t
    <3> SUFFICES ASSUME t < r PROVE FALSE
      BY <1>1, <2>4
    <3>1. t * q + q <= r * q
      BY <1>1, <2>4, Multiples
    <3> QED BY <1>1, <1>5, <2>1, <2>4, <2>5, <3>1
  <2>7. t < NumThreads
    <3> SUFFICES ASSUME NumThreads <= t PROVE FALSE
      BY <1>1, <2>4
    <3>1. NumThreads * q <= t * q
      BY <1>1, <2>4, Multiples
    <3>2. q * NumThreads = NumThreads * q
      BY <1>1
    <3> QED BY <1>1, <2>1, <2>4, <2>5, <3>1, <3>2
  <2>8. t \in Threads
    BY <1>1, <1>3, <2>4, <2>7
  <2>9. SliceOffset(n, t) = t * q + r /\ SliceNumel(n, t) = q
    BY <1>2, <2>6, <2>8
  <2>10. x \in Elements(n, t)
    BY <1>1, <2>4, <2>5, <2>9 DEF Elements
  <2> QED BY <2>8, <2>10
<1>6. r * (q + 1) \in Nat
  BY <1>1, Multiples
<1> QED BY <1>1, <1>4, <1>5, <1>6

LEMMA SlicesInside ==
  ASSUME NEW n \in Nat, NEW t \in Threads
  PROVE  Elements(n, t) \subseteq 0 .. n - 1
<1> DEFINE q == n \div NumThreads
           r == n % NumThreads
<1>1. /\ NumThreads \in Nat /\ t \in Nat /\ t < NumThreads /\ q \in Nat /\ r \in Nat /\ r < NumThreads
      /\ n = q * NumThreads + r
  BY ThreadsType, Division DEF Threads
<1>2. /\ SliceOffset(n, t) \in Nat /\ SliceNumel(n, t) \in Nat
      /\ SliceOffset(n, t) + SliceNumel(n, t) = (t + 1) * q + (IF t + 1 < r THEN t + 1 ELSE r)
  BY SliceShape
<1> HIDE DEF q, r
<1>3. (t + 1) * q <= NumThreads * q /\ (t + 1) * q \in Nat /\ NumThreads * q \in Nat
  BY <1>1, Multiples
<1>4. q * NumThreads = NumThreads * q
  BY <1>1
<1>5. SliceOffset(n, t) + SliceNumel(n, t) <= n
  BY <1>1, <1>2, <1>3, <1>4
<1> QED BY <1>1, <1>2, <1>5 DEF Elements

LEMMA Partition ==
  ASSUME NEW n \in Nat
  PROVE  /\ UNION {Elements(n, t) : t \in Threads} = 0 .. n - 1
         /\ \A t, u \in Threads : t # u => Elements(n, t) \cap Elements(n, u) = {}
<1>1. \A t \in Threads : Elements(n, t) \subseteq 0 .. n - 1
  BY SlicesInside
<1>2. \A x \in 0 .. n - 1 : \E t \in Threads : x \in Elements(n, t)
  BY EveryElement
<1>3. ASSUME NEW t \in Threads, NEW u \in Threads, t < u
      PROVE  Elements(n, t) \cap Elements(n, u) = {}
  <2>1. SliceOffset(n, t) + SliceNumel(n, t) <= SliceOffset(n, u)
    BY <1>3, SlicesDisjoint
  <2>2. SliceOffset(n, t) \in Nat /\ SliceNumel(n, t) \in Nat /\ SliceOffset(n, u) \in Nat
    BY SliceShape
  <2> QED BY <2>1, <2>2 DEF Elements
<1>4. \A t, u \in Threads : t # u => t < u \/ u < t
  BY ThreadsType
<1> QED BY <1>1, <1>2, <1>3, <1>4

LEMMA TheRest ==
  ASSUME NEW S \in SUBSET Threads
  PROVE  Cardinality(S) = NumThreads - Cardinality(Threads \ S)
<1>1. IsFiniteSet(Threads) /\ Cardinality(Threads) = NumThreads
  BY ThreadsType
<1>2. Cardinality(Threads \ S) = Cardinality(Threads) - Cardinality(Threads \cap S)
  BY <1>1, FS_Difference
<1>3. Threads \cap S = S /\ Threads \ S \in SUBSET Threads
  OBVIOUS
<1>4. Cardinality(S) \in Nat /\ Cardinality(Threads \ S) \in Nat /\ NumThreads \in Nat
  BY <1>3, SomeThreads, ThreadsType
<1>5. Cardinality(Threads \ S) = NumThreads - Cardinality(S)
  BY <1>1, <1>2, <1>3
<1> QED BY <1>4, <1>5

LEMMA CountsAgree == IInv => MapsAgree
<1> SUFFICES ASSUME IInv, ~stopped, NEW j \in JobIds
             PROVE  LET HasSlice(t, i) == sliceOf[t] = i /\ at[t] \in {"work", "empty", "notify"}
                        Took(i)        == {t \in Threads : taken[i][t] = 1}
                        Done(i)        == {t \in Took(i) : ~HasSlice(t, i)}
                    IN /\ j \in DOMAIN undispatched => undispatched[j] = NumThreads - Cardinality(Took(j))
                       /\ (j \in DOMAIN finished /\ contextState = "RUNNING") =>
                            finished[j] = Cardinality(Done(j))
                       /\ (\E t \in Threads : HasSlice(t, j)) => j \in DOMAIN finished
                       /\ (\E i \in DOMAIN queue : queue[i] = j) <=> j \in DOMAIN undispatched
  BY DEF MapsAgree
<1> DEFINE HasSlice(t) == sliceOf[t] = j /\ at[t] \in {"work", "empty", "notify"}
           Took        == {t \in Threads : taken[j][t] = 1}
           TookLeft    == {t \in Took : ~HasSlice(t)}
<1>1. ~Cleared
  BY DEF IInv, Phases, Cleared
<1>2. \A t \in Threads : sliceOf[t] \in Nat /\ j \in Nat /\ (taken[j][t] = IF j <= sliceOf[t] THEN 1 ELSE 0)
  BY ThreadsType, LastType DEF IInv, Turns
<1>3. Threads \ Took = Behind(j) /\ Took \in SUBSET Threads
  BY <1>2 DEF Behind
<1>4. TookLeft = Gone(j)
  BY <1>2 DEF Gone, Left, Holding
<1>5. (\E i \in DOMAIN queue : queue[i] = j) <=> j \in DOMAIN undispatched
  BY <1>1, QueuedJobs DEF IInv, QueueInOrder
<1>6. j \in DOMAIN undispatched => undispatched[j] = NumThreads - Cardinality(Took)
  <2> SUFFICES ASSUME j \in DOMAIN undispatched PROVE undispatched[j] = NumThreads - Cardinality(Took)
    OBVIOUS
  <2>1. undispatched[j] = Cardinality(Behind(j))
    BY <1>1 DEF IInv, QueueInOrder
  <2>2. Cardinality(Took) = NumThreads - Cardinality(Behind(j))
    BY <1>3, TheRest
  <2>3. Cardinality(Behind(j)) \in Nat /\ NumThreads \in Nat
    BY <1>3, SomeThreads, ThreadsType
  <2> QED BY <2>1, <2>2, <2>3
<1>7. (j \in DOMAIN finished /\ contextState = "RUNNING") => finished[j] = Cardinality(TookLeft)
  <2> SUFFICES ASSUME j \in DOMAIN finished, contextState = "RUNNING" PROVE finished[j] = Cardinality(Gone(j))
    BY <1>4
  <2>1. ~Leaving
    BY DEF Leaving
  <2>2. j \in 1 .. Last
    BY DEF IInv, Reports
  <2> QED BY <2>1, <2>2 DEF IInv, Reports
<1>8. (\E t \in Threads : HasSlice(t)) => j \in DOMAIN finished
  <2> SUFFICES ASSUME NEW t \in Threads, HasSlice(t) PROVE j \in DOMAIN finished
    OBVIOUS
  <2>1. j \in 1 .. Last /\ ~Left(t, j)
    BY Reporting DEF Holding
  <2> QED BY <2>1 DEF IInv, Reports
<1> QED BY <1>5, <1>6, <1>7, <1>8

\* The maps of the scheduler agree with what the threads did, no lookup fails, and the
\* slices of a job that has left the queue cover its tensor without overlap.
THEOREM Consistency == Spec => []Consistent
<1>1. SlicesPartition
  BY Partition, ThreadsType DEF SlicesPartition
<1>2. IInv => Consistent
  BY <1>1, CountsAgree DEF Consistent, IInv
<1> QED BY <1>2, InductiveInvariant, PTL

=============================================================================
