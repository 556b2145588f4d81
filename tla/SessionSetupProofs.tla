---------------------------- MODULE SessionSetupProofs ----------------------------
(* That the workers of a session start together, on a switch that is set up for *)
(* all of them, whatever their number, their machines, their configuration and  *)
(* the kills and resets before.                                                 *)
EXTENDS SessionSetup, FiniteSetTheorems, SequenceTheorems, TLAPS

Phases == {"created", "starting", "opened", "setup", "exchanged", "rtr", "running", "stopped",
           "dead", "fatal"}

SessionHandlers == {"add", "group", "create", "node"}
Handlers == {"idle", "barrier", "broadcast"} \union SessionHandlers

Shapes ==
  /\ cfg \in Configs /\ host \in [Workers -> Hosts] /\ known \subseteq Workers
  /\ run \in 1 .. Runs /\ kills \in 0 .. MaxKills /\ reset \in {"none", "tables", "sync"}
  /\ phase \in [Workers -> Phases] /\ step \in [Workers -> 1 .. 5]
  /\ session \in [Workers -> 0 .. run] /\ accepted \in [Workers -> BOOLEAN]
  /\ handler \in [Workers -> Handlers] /\ at \in [Workers -> Nat]
  /\ table \subseteq Workers /\ inbox \subseteq Workers /\ slot \in [Workers -> 0 .. run]

\* A broadcast: who has got it, and what.
Operation == [got : SUBSET Workers, value : 0 .. run]

\* The barrier and the list of broadcasts, which are kept over runs.
SyncShapes ==
  /\ barrier \in [op : Nat, ctrs : [DOMAIN barrier.ctrs -> Nat], released : SUBSET Nat]
  /\ DOMAIN barrier.ctrs \subseteq 0 .. barrier.op /\ barrier.op \in DOMAIN barrier.ctrs
  /\ barrier.released \subseteq DOMAIN barrier.ctrs \ {barrier.op}
  /\ bcast \in Seq(Operation) /\ Len(bcast) <= 1
  /\ group \in [present : BOOLEAN, nodes : SUBSET Workers]

\* Where the calls are in the scripts.
SessionStep(w) == IF w = Root THEN 2 ELSE 3
BarrierSteps(w) == IF w = Root THEN {3, 4} ELSE {2, 4}

\* How many barriers a worker is past, from its step.
Passed(w) ==
  IF w = Root THEN IF step[w] <= 3 THEN 0 ELSE step[w] - 3
  ELSE IF step[w] <= 2 THEN 0 ELSE IF step[w] <= 4 THEN 1 ELSE 2

\* What is true of each worker for itself.
Local(w) ==
  /\ phase[w] \in {"created", "starting", "opened"} => step[w] = 1 /\ handler[w] = "idle"
  /\ phase[w] = "starting" => host[w].file /\ ~Fatal(cfg)
  /\ \/ phase[w] \in {"opened", "setup", "exchanged", "rtr", "running", "stopped"}
     \/ step[w] > 1
     => Fit(w)
  /\ phase[w] \in {"exchanged", "rtr", "running", "stopped"} => step[w] = 5
  /\ handler[w] # "idle" => phase[w] \in {"setup", "dead"}
  /\ handler[w] = "broadcast" => step[w] = 1 /\ at[w] = 1 /\ Len(bcast) = 1
  /\ handler[w] = "barrier" => step[w] \in BarrierSteps(w) /\ at[w] \in DOMAIN barrier.ctrs
  /\ handler[w] \in SessionHandlers => step[w] = SessionStep(w)
  /\ handler[w] = "add" => w = Root
  /\ step[w] > 1 => session[w] = run
  /\ slot[w] = run => step[w] = 5 /\ phase[w] \in {"running", "stopped", "dead"}
  /\ phase[w] = "fatal" => step[w] = 1 \/ Passed(w) >= 1
  /\ known = Workers /\ Fit(w) => phase[w] # "fatal"
  /\ phase[w] = "stopped" => inbox # {}
  /\ inbox # {} => phase[w] \in {"running", "stopped", "dead"} /\ step[w] = 5

\* No two workers are more than one barrier apart.
StepsClose == \A v, w \in Workers : Passed(w) <= Passed(v) + 1

Killed == \E w \in Workers : phase[w] = "dead"

\* After a kill nobody calls any more, and the reset leaves nothing behind.
AfterKill ==
  /\ \A w \in Workers : phase[w] \in {"stopped", "dead", "fatal"}
  /\ reset = "none" => /\ barrier = FirstBarrier /\ bcast = <<>>
                       /\ \A w \in Workers : handler[w] \notin {"barrier", "broadcast"}

\* A worker that waits in a barrier that is over counts as past it.
Behind(w) == handler[w] = "barrier" /\ at[w] \in barrier.released
Counted(w) == Passed(w) + IF Behind(w) THEN 1 ELSE 0

WaitersAt(o) == {w \in Workers : handler[w] = "barrier" /\ at[w] = o}

BarrierOk ==
  /\ \A w \in Workers : handler[w] = "barrier" => at[w] = barrier.op \/ at[w] \in barrier.released
  /\ \A o \in DOMAIN barrier.ctrs : barrier.ctrs[o] = Cardinality(WaitersAt(o))
  /\ \A v, w \in Workers : Counted(v) = Counted(w)

\* The list of broadcasts holds the one of this run, or is as the last run left it.
OldBroadcast ==
  /\ \A w \in Workers : step[w] = 1 /\ handler[w] # "broadcast"
  /\ bcast = <<>> \/ AllGot(bcast[1])

NewBroadcast ==
  /\ bcast # <<>> /\ bcast[1].got = {w \in Workers : step[w] > 1}
  /\ bcast[1].value \in {0, run}
  /\ bcast[1].value = 0 => bcast[1].got = {}
  /\ bcast[1].got = {} => \E w \in Workers : handler[w] = "broadcast"

PastSession(w) == step[w] > SessionStep(w)

\* What the switch and its controller have for whom.
SwitchOk ==
  /\ \A w \in Workers : w = Root /\ (step[w] >= 3 \/ handler[w] \in SessionHandlers) =>
       \A v \in Workers : slot[v] \in {0, run}
  /\ \A w \in Workers : w = Root /\ handler[w] \in {"add", "group", "create"} => ~group.present
  /\ \A w \in Workers : handler[w] = "node" => group.present
  /\ \A w \in Workers : handler[w] \in {"group", "create", "node"} => w \in table
  /\ known = Workers =>
       \A w \in Workers :
         /\ w = Root /\ step[w] >= 3 => group.present
         /\ w # Root => handler[w] # "create"
         /\ PastSession(w) => w \in table /\ w \in group.nodes /\ accepted[w]

\* A result goes out when every slot is filled, and none is emptied after it.
Delivered == inbox # {} => \A w \in Workers : slot[w] # 0

Living ==
  reset = "none" /\ BarrierOk /\ (OldBroadcast \/ NewBroadcast) /\ SwitchOk /\ Delivered

SessionInv ==
  /\ Shapes /\ SyncShapes /\ StepsClose
  /\ \A w \in Workers : Local(w)
  /\ Killed => AfterKill
  /\ ~Killed => Living

-----------------------------------------------------------------------------
(* The scripts, the barrier's counters and the workers                          *)

LEMMA WorkersFinite ==
  ASSUME Shapes
  PROVE  /\ cfg.num_workers \in Nat /\ Workers \subseteq Nat /\ IsFiniteSet(Workers)
         /\ Cardinality(Workers) = cfg.num_workers
<1>1. cfg.num_workers \in Nat
  BY SessionAssumption DEF Shapes, ConfigType
<1>2. PICK m \in Int : m = cfg.num_workers - 1
  BY <1>1
<1>3. IsFiniteSet(0 .. m) /\ Cardinality(0 .. m) = IF 0 > m THEN 0 ELSE m - 0 + 1
  BY FS_Interval
<1>4. (IF 0 > m THEN 0 ELSE m - 0 + 1) = cfg.num_workers
  BY <1>1, <1>2
<1>5. Workers = 0 .. m
  BY <1>2 DEF Workers
<1> QED BY <1>1, <1>3, <1>4, <1>5

LEMMA Scripts ==
  ASSUME Shapes, NEW w \in Workers
  PROVE  /\ Calls(w, "Broadcast") <=> phase[w] = "setup" /\ step[w] = 1
         /\ Calls(w, "Barrier") <=> phase[w] = "setup" /\ step[w] \in BarrierSteps(w)
         /\ CallsSession(w) <=> phase[w] = "setup" /\ step[w] = SessionStep(w)
         /\ ScriptDone(w) <=> phase[w] = "setup" /\ step[w] = 5
<1>1. step[w] \in 1 .. 5
  BY DEF Shapes
<1>2. PICK s : s = Script(w)
  OBVIOUS
<1>3. /\ Len(s) = 4 /\ DOMAIN s = 1 .. 4
      /\ s[1] = "Broadcast" /\ s[4] = "Barrier"
      /\ w = Root => s[2] \in {"RdmaSession", "UdpSession"} /\ s[3] = "Barrier"
      /\ w # Root => s[3] \in {"RdmaSession", "UdpSession"} /\ s[2] = "Barrier"
  BY <1>2 DEF Script, ExchangeConnectionInfo, SetupSwitch
<1>4. step[w] = 1 \/ step[w] = 2 \/ step[w] = 3 \/ step[w] = 4 \/ step[w] = 5
  BY <1>1
<1> QED BY <1>2, <1>3, <1>4 DEF Calls, CallsSession, ScriptDone, BarrierSteps, SessionStep

LEMMA BarriersPassedOf ==
  ASSUME Shapes, NEW w \in Workers
  PROVE  BarriersPassed(w) = Passed(w)
<1>1. step[w] \in 1 .. 5
  BY DEF Shapes
<1>2. PICK s : s = Script(w)
  OBVIOUS
<1>3. /\ DOMAIN s = 1 .. 4
      /\ s[1] = "Broadcast" /\ s[4] = "Barrier"
      /\ w = Root => s[2] \in {"RdmaSession", "UdpSession"} /\ s[3] = "Barrier"
      /\ w # Root => s[3] \in {"RdmaSession", "UdpSession"} /\ s[2] = "Barrier"
  BY <1>2 DEF Script, ExchangeConnectionInfo, SetupSwitch
<1>4. PICK done : done = {i \in 1 .. step[w] - 1 : i \in DOMAIN s /\ s[i] = "Barrier"}
  OBVIOUS
<1>5. step[w] = 1 \/ step[w] = 2 \/ step[w] = 3 \/ step[w] = 4 \/ step[w] = 5
  BY <1>1
<1>6. /\ Passed(w) = 0 => done = {}
      /\ Passed(w) = 1 => done = IF w = Root THEN {3} ELSE {2}
      /\ Passed(w) = 2 => done = IF w = Root THEN {3, 4} ELSE {2, 4}
      /\ Passed(w) \in 0 .. 2
  BY <1>3, <1>4, <1>5 DEF Passed
<1>7. /\ Cardinality({}) = 0 /\ Cardinality({2}) = 1 /\ Cardinality({3}) = 1
      /\ Cardinality({2} \union {4}) = 2 /\ Cardinality({3} \union {4}) = 2
  <2>1. Cardinality({2}) = 1 /\ IsFiniteSet({2}) /\ Cardinality({3}) = 1 /\ IsFiniteSet({3})
    BY FS_Singleton
  <2>2. Cardinality({2} \union {4}) = 2
    BY <2>1, FS_AddElement
  <2>3. Cardinality({3} \union {4}) = 2
    BY <2>1, FS_AddElement
  <2> QED BY <2>1, <2>2, <2>3, FS_EmptySet
<1>8. {2, 4} = {2} \union {4} /\ {3, 4} = {3} \union {4}
  OBVIOUS
<1>9. Cardinality(done) = Passed(w)
  BY <1>6, <1>7, <1>8
<1>10. BarriersPassed(w) = Cardinality(done)
  BY <1>2, <1>4 DEF BarriersPassed
<1> QED BY <1>9, <1>10

\* How an operation of the barrier is followed by the next.
LEMMA NextOperation ==
  ASSUME SyncShapes, NEW b, b = Completed(barrier)
  PROVE  /\ b.op = barrier.op + 1 /\ b.released = barrier.released \union {barrier.op}
         /\ DOMAIN b.ctrs = DOMAIN barrier.ctrs \union {barrier.op + 1}
         /\ b.ctrs[b.op] = 0 /\ \A o \in DOMAIN barrier.ctrs : b.ctrs[o] = barrier.ctrs[o]
         /\ b.ctrs \in [DOMAIN b.ctrs -> Nat]
         /\ b = [op |-> b.op, ctrs |-> b.ctrs, released |-> b.released]
BY DEF Completed, SyncShapes

-----------------------------------------------------------------------------
(* What a step leaves alone                                                     *)

LEMMA SameSession ==
  ASSUME UNCHANGED <<cfg, host>>
  PROVE  Workers' = Workers /\ \A w \in Workers : Fit(w)' <=> Fit(w)
BY DEF Workers, Fit, HasEndpoint, Fatal

LEMMA SameOperation ==
  ASSUME UNCHANGED <<cfg, run>>
  PROVE  Operation' = Operation
BY DEF Operation, Workers

LEMMA SameParts ==
  ASSUME UNCHANGED <<cfg, host, known, run>>
  PROVE  /\ UNCHANGED step => (StepsClose => StepsClose')
         /\ UNCHANGED <<step, handler, at, barrier>> => (BarrierOk => BarrierOk')
         /\ UNCHANGED <<step, handler, bcast>> =>
              (OldBroadcast \/ NewBroadcast => OldBroadcast' \/ NewBroadcast')
         /\ UNCHANGED <<step, handler, slot, group, table, accepted>> => (SwitchOk => SwitchOk')
<1>1. Workers' = Workers
  BY SameSession
<1>2. UNCHANGED step => /\ \A w \in Workers : Passed(w)' = Passed(w)
                        /\ StepsClose => StepsClose'
  BY <1>1 DEF Passed, StepsClose
<1>3. ASSUME UNCHANGED <<step, handler, at, barrier>>, BarrierOk
      PROVE  BarrierOk'
  <2>1. /\ \A w \in Workers : Counted(w)' = Counted(w)
        /\ \A o : WaitersAt(o)' = WaitersAt(o)
    BY <1>1, <1>2, <1>3 DEF Counted, Behind, WaitersAt
  <2> QED BY <1>1, <1>3, <2>1 DEF BarrierOk
<1>4. UNCHANGED <<step, handler, bcast>> =>
        (OldBroadcast \/ NewBroadcast => OldBroadcast' \/ NewBroadcast')
  BY <1>1 DEF OldBroadcast, NewBroadcast, AllGot
<1>5. UNCHANGED <<step, handler, slot, group, table, accepted>> => (SwitchOk => SwitchOk')
  BY <1>1 DEF SwitchOk, PastSession, SessionStep
<1> QED BY <1>2, <1>3, <1>4, <1>5

WorkerStays(v) ==
  /\ phase'[v] = phase[v] /\ step'[v] = step[v] /\ handler'[v] = handler[v]
  /\ at'[v] = at[v] /\ session'[v] = session[v] /\ slot'[v] \in {slot[v], 0}

LEMMA LocalStays ==
  ASSUME SessionInv, UNCHANGED <<cfg, host, known, run, inbox>>,
         NEW v \in Workers, WorkerStays(v),
         handler[v] = "broadcast" => Len(bcast') = Len(bcast),
         handler[v] = "barrier" => at[v] \in DOMAIN barrier'.ctrs
  PROVE  Local(v)'
<1>1. Workers' = Workers /\ (Fit(v)' <=> Fit(v)) /\ Passed(v)' = Passed(v)
  BY SameSession DEF WorkerStays, Passed
<1>2. Local(v) /\ run # 0
  BY SessionAssumption DEF SessionInv, Shapes
<1>3. Fatal(cfg)' <=> Fatal(cfg)
  OBVIOUS
<1> QED BY <1>1, <1>2, <1>3 DEF Local, WorkerStays, BarrierSteps, SessionStep

\* A worker that goes on, which does not ask the controller.
LEMMA PhaseStep ==
  ASSUME SessionInv, NEW w \in Workers, NEW p \in Phases \ {"dead"},
         phase[w] \notin {"stopped", "dead", "fatal"}, phase' = [phase EXCEPT ![w] = p],
         UNCHANGED <<cluster, step, session, accepted, sync, switch>>, Local(w)'
  PROVE  SessionInv'
<1>1. /\ UNCHANGED <<cfg, host, known, run, kills, reset, step, session, accepted, handler, at,
                     barrier, bcast, table, group, slot, inbox>>
      /\ Workers' = Workers /\ phase \in [Workers -> Phases]
  BY SameSession DEF cluster, sync, switch, SessionInv, Shapes
<1>2. phase' \in [Workers -> Phases] /\ phase'[w] = p /\ \A v \in Workers \ {w} : phase'[v] = phase[v]
  BY <1>1
<1>3. ~Killed /\ ~Killed'
  BY <1>1, <1>2 DEF SessionInv, AfterKill, Killed
<1>4. Shapes' /\ SyncShapes'
  BY <1>1, <1>2, SameOperation DEF SessionInv, Shapes, SyncShapes
<1>5. \A v \in Workers : Local(v)'
  <2>1. ASSUME NEW v \in Workers \ {w} PROVE Local(v)'
    <3>1. Local(v) /\ WorkerStays(v)
      BY <1>1, <1>2 DEF WorkerStays, SessionInv
    <3> QED BY <1>1, <3>1, LocalStays DEF Local
  <2> QED BY <2>1
<1>6. Living' /\ StepsClose'
  BY <1>1, <1>3, SameParts DEF SessionInv, Living, Delivered
<1> QED BY <1>1, <1>3, <1>4, <1>5, <1>6 DEF SessionInv

-----------------------------------------------------------------------------
(* The workers                                                                  *)

\* A worker that goes on keeps what it has, and is aborted only when it should be.
LEMMA GoesOn ==
  ASSUME SessionInv, NEW w \in Workers, NEW p \in Phases \ {"created", "starting", "dead"},
         phase[w] \notin {"stopped", "dead", "fatal"}, phase' = [phase EXCEPT ![w] = p],
         UNCHANGED <<cluster, step, session, accepted, sync, switch>>,
         handler[w] = "idle",
         p # "fatal" => Fit(w), p = "opened" => step[w] = 1,
         p \in {"exchanged", "rtr", "running", "stopped"} => step[w] = 5,
         p = "fatal" => step[w] = 1 \/ Passed(w) >= 1,
         known = Workers /\ Fit(w) => p # "fatal",
         p = "stopped" => inbox # {},
         inbox # {} \/ slot[w] = run => p \in {"running", "stopped"}
  PROVE  SessionInv'
<1>1. /\ UNCHANGED <<cfg, host, known, run, step, session, handler, at, barrier, bcast, slot, inbox>>
      /\ phase'[w] = p /\ Local(w)
  BY DEF cluster, sync, switch, SessionInv, Shapes
<1>2. Workers' = Workers /\ (Fit(w)' <=> Fit(w)) /\ Passed(w)' = Passed(w)
  BY <1>1, SameSession DEF Passed
<1>3. Local(w)'
  BY <1>1, <1>2 DEF Local, BarrierSteps, SessionStep
<1> QED BY <1>3, PhaseStep

LEMMA NotSent ==
  ASSUME SessionInv, NEW w \in Workers, phase[w] \notin {"running", "stopped", "dead"}
  PROVE  slot[w] # run /\ inbox = {}
BY DEF SessionInv, Local

LEMMA WorkerSteps ==
  ASSUME SessionInv, NEW w \in Workers,
         \/ Start(w) \/ OpenEndpoint(w) \/ InitializeQueuePairs(w) \/ MasterThread(w)
         \/ CopyNeighbors(w) \/ MoveToRtr(w) \/ MoveToRts(w) \/ LaunchWorkerThreads(w) \/ Stop(w)
  PROVE  SessionInv'
<1>1. /\ Local(w) /\ Shapes /\ phase[w] \in Phases /\ step[w] \in 1 .. 5
      /\ UNCHANGED <<cluster, step, session, accepted, sync, switch>>
  BY DEF SessionInv, Shapes, Start, OpenEndpoint, InitializeQueuePairs, MasterThread,
         CopyNeighbors, MoveToRtr, MoveToRts, LaunchWorkerThreads, Stop
<1>2. CASE Start(w)
  <2>1. PICK p \in {"starting", "fatal"} :
          /\ p = IF Fatal(cfg) \/ ~host[w].file THEN "fatal" ELSE "starting"
          /\ phase' = [phase EXCEPT ![w] = p]
    BY <1>2 DEF Start
  <2>2. phase[w] = "created" /\ step[w] = 1 /\ handler[w] = "idle" /\ inbox = {}
    BY <1>1, <1>2 DEF Start, Local
  <2>3. CASE p = "starting"
    <3>1. Local(w)'
      <4>1. /\ UNCHANGED <<cfg, host, known, run, step, session, handler, at, barrier, bcast, slot,
                           inbox>>
            /\ phase'[w] = p
        BY <1>1, <2>1 DEF cluster, sync, switch, SessionInv, Shapes
      <4>2. Workers' = Workers /\ (Fit(w)' <=> Fit(w)) /\ Passed(w)' = Passed(w)
        BY <4>1, SameSession DEF Passed
      <4>3. host[w].file /\ ~Fatal(cfg)
        BY <2>1, <2>3
      <4> QED BY <1>1, <2>2, <2>3, <4>1, <4>2, <4>3 DEF Local, BarrierSteps, SessionStep
    <3> QED BY <1>1, <2>1, <2>2, <3>1, PhaseStep DEF Phases
  <2>4. CASE p = "fatal"
    BY <1>1, <2>1, <2>2, <2>4, NotSent, GoesOn DEF Phases, Fit
  <2> QED BY <2>1, <2>3, <2>4
<1>3. CASE OpenEndpoint(w)
  <2>1. PICK p \in {"opened", "fatal"} :
          /\ p = IF HasEndpoint(w) THEN "opened" ELSE "fatal"
          /\ phase' = [phase EXCEPT ![w] = p]
    BY <1>3 DEF OpenEndpoint
  <2>2. /\ phase[w] = "starting" /\ step[w] = 1 /\ handler[w] = "idle" /\ inbox = {}
        /\ host[w].file /\ ~Fatal(cfg) /\ cfg.backend = "rdma"
    BY <1>1, <1>3 DEF OpenEndpoint, Local
  <2>3. Fit(w) <=> p = "opened"
    BY <2>1, <2>2 DEF Fit
  <2> QED BY <1>1, <2>1, <2>2, <2>3, NotSent, GoesOn DEF Phases
<1>4. CASE InitializeQueuePairs(w)
  <2>1. phase[w] = "opened" /\ step[w] = 1 /\ handler[w] = "idle" /\ inbox = {} /\ Fit(w)
    BY <1>1, <1>4 DEF InitializeQueuePairs, Local
  <2> QED BY <1>1, <1>4, <2>1, NotSent, GoesOn DEF Phases, InitializeQueuePairs
<1>5. CASE MasterThread(w)
  <2>1. PICK p \in {"setup", "fatal"} :
          /\ p = IF cfg.cores # cfg.num_worker_threads THEN "fatal" ELSE "setup"
          /\ phase' = [phase EXCEPT ![w] = p]
    BY <1>5 DEF MasterThread
  <2>2. /\ phase[w] = "starting" /\ step[w] = 1 /\ handler[w] = "idle" /\ inbox = {}
        /\ host[w].file /\ ~Fatal(cfg) /\ cfg.backend # "rdma"
    BY <1>1, <1>5 DEF MasterThread, Local
  <2>3. Fit(w) <=> p = "setup"
    BY <2>1, <2>2 DEF Fit
  <2> QED BY <1>1, <2>1, <2>2, <2>3, NotSent, GoesOn DEF Phases
<1>6. ASSUME ScriptDone(w)
      PROVE  /\ phase[w] = "setup" /\ step[w] = 5 /\ handler[w] = "idle" /\ Fit(w) /\ inbox = {}
             /\ Passed(w) >= 1 /\ (known = Workers => accepted[w])
  <2>1. phase[w] = "setup" /\ step[w] = 5
    BY <1>1, <1>6, Scripts
  <2>2. handler[w] = "idle"
    BY <1>1, <2>1 DEF Local, BarrierSteps, SessionStep, Shapes, Handlers
  <2>3. ~Killed
    BY <2>1 DEF SessionInv, AfterKill
  <2>4. PastSession(w) /\ Passed(w) >= 1
    BY <2>1 DEF PastSession, SessionStep, Passed
  <2>5. known = Workers => accepted[w]
    BY <2>3, <2>4 DEF SessionInv, Living, SwitchOk
  <2> QED BY <1>1, <2>1, <2>2, <2>4, <2>5 DEF Local
<1>7. CASE CopyNeighbors(w)
  <2>1. PICK p \in {"exchanged"} \union (IF accepted[w] THEN {} ELSE {"fatal"}) :
          phase' = [phase EXCEPT ![w] = p]
    BY <1>7 DEF CopyNeighbors
  <2>2. ScriptDone(w) /\ (p = "exchanged" \/ (p = "fatal" /\ ~accepted[w]))
    BY <1>7, <2>1 DEF CopyNeighbors
  <2> QED BY <1>1, <1>6, <2>1, <2>2, NotSent, GoesOn DEF Phases
<1>8. ASSUME phase[w] \in {"exchanged", "rtr", "running"}
      PROVE  step[w] = 5 /\ handler[w] = "idle" /\ Fit(w)
  BY <1>1, <1>8 DEF Local, Shapes, Handlers
<1>9. CASE MoveToRtr(w)
  <2>1. phase[w] = "exchanged" /\ phase' = [phase EXCEPT ![w] = "rtr"] /\ inbox = {}
    BY <1>1, <1>9 DEF MoveToRtr, Local
  <2> QED BY <1>1, <1>8, <2>1, NotSent, GoesOn DEF Phases
<1>10. CASE MoveToRts(w)
  <2>1. phase[w] = "rtr" /\ phase' = [phase EXCEPT ![w] = "running"]
    BY <1>10 DEF MoveToRts
  <2> QED BY <1>1, <1>8, <2>1, NotSent, GoesOn DEF Phases
<1>11. CASE LaunchWorkerThreads(w)
  <2>1. ScriptDone(w) /\ phase' = [phase EXCEPT ![w] = "running"]
    BY <1>11 DEF LaunchWorkerThreads
  <2> QED BY <1>1, <1>6, <2>1, NotSent, GoesOn DEF Phases
<1>12. CASE Stop(w)
  <2>1. phase[w] = "running" /\ phase' = [phase EXCEPT ![w] = "stopped"] /\ inbox # {}
    BY <1>12 DEF Stop
  <2> QED BY <1>1, <1>8, <2>1, NotSent, GoesOn DEF Phases
<1> QED BY <1>2, <1>3, <1>4, <1>5, <1>7, <1>9, <1>10, <1>11, <1>12

-----------------------------------------------------------------------------
(* The barrier                                                                  *)

\* Workers that the barrier has in step are at most one operation apart.
LEMMA StepsAreClose == Shapes /\ BarrierOk => StepsClose
<1> SUFFICES ASSUME Shapes, BarrierOk, NEW v \in Workers, NEW w \in Workers
             PROVE  Passed(w) <= Passed(v) + 1
  BY DEF StepsClose
<1>1. Passed(v) \in Nat /\ Passed(w) \in Nat
  <2>1. step[v] \in 1 .. 5 /\ step[w] \in 1 .. 5
    BY DEF Shapes
  <2> QED BY <2>1 DEF Passed
<1>2. Counted(v) = Counted(w)
  BY DEF BarrierOk
<1> QED BY <1>1, <1>2 DEF Counted

\* A worker that passes a barrier.
LEMMA PassesBarrier ==
  ASSUME SessionInv, NEW w \in Workers, phase[w] = "setup", step[w] \in BarrierSteps(w),
         step' = [step EXCEPT ![w] = @ + 1], handler[w] \in {"idle", "barrier"},
         handler' = [handler EXCEPT ![w] = "idle"],
         UNCHANGED <<cluster, phase, session, accepted, at, bcast, switch>>,
         SyncShapes', BarrierOk',
         \A v \in Workers \ {w} : handler[v] = "barrier" => at[v] \in DOMAIN barrier'.ctrs
  PROVE  SessionInv'
<1>1. /\ UNCHANGED <<cfg, host, known, run, kills, reset, phase, session, accepted, at, bcast,
                     table, group, slot, inbox>>
      /\ Workers' = Workers
  BY SameSession DEF cluster, switch
<1>2. Local(w) /\ ~Killed
  BY DEF SessionInv, AfterKill
<1>3. step \in [Workers -> 1 .. 5] /\ handler \in [Workers -> Handlers] /\ step[w] \in {2, 3, 4}
  BY DEF SessionInv, Shapes, BarrierSteps
<1>4. /\ step' \in [Workers -> 1 .. 5] /\ step'[w] = step[w] + 1
      /\ handler' \in [Workers -> Handlers] /\ handler'[w] = "idle"
      /\ \A v \in Workers \ {w} : step'[v] = step[v] /\ handler'[v] = handler[v]
  BY <1>3 DEF Handlers
<1>5. Shapes'
  BY <1>1, <1>4 DEF SessionInv, Shapes
<1>6. StepsClose'
  BY <1>5, StepsAreClose, PTL
<1>7. \A v \in Workers : Local(v)'
  <2>1. ASSUME NEW v \in Workers \ {w} PROVE Local(v)'
    <3>1. WorkerStays(v)
      BY <1>1, <1>4 DEF WorkerStays
    <3>2. Local(v)
      BY DEF SessionInv
    <3> QED BY <1>1, <3>1, <3>2, LocalStays DEF Local
  <2>2. Local(w)'
    <3>1. /\ Fit(w) /\ (Fit(w)' <=> Fit(w)) /\ session[w] = run /\ slot[w] # run /\ inbox = {}
      BY <1>1, <1>2, <1>3, SameSession DEF Local
    <3>2. phase'[w] = "setup" /\ step'[w] \in 2 .. 5 /\ step'[w] > 1 /\ handler'[w] = "idle"
      BY <1>1, <1>3, <1>4
    <3> QED BY <1>1, <3>1, <3>2 DEF Local, SessionHandlers
  <2> QED BY <2>1, <2>2
<1>8. NewBroadcast'
  <2>1. NewBroadcast
    BY <1>2, <1>3 DEF SessionInv, Living, OldBroadcast
  <2>2. {v \in Workers : step'[v] > 1} = {v \in Workers : step[v] > 1}
    BY <1>3, <1>4
  <2>3. w \in {v \in Workers : step[v] > 1}
    BY <1>3
  <2> QED BY <1>1, <2>1, <2>2, <2>3 DEF NewBroadcast
<1>9. SwitchOk'
  <2>1. SwitchOk
    BY <1>2 DEF SessionInv, Living
  <2>2. \A v \in Workers : /\ handler'[v] \in SessionHandlers <=> handler[v] \in SessionHandlers
                           /\ handler'[v] \in SessionHandlers => handler'[v] = handler[v]
                           /\ (v = Root /\ step'[v] >= 3) <=> (v = Root /\ step[v] >= 3)
                           /\ PastSession(v)' <=> PastSession(v)
    BY <1>3, <1>4 DEF SessionHandlers, PastSession, SessionStep, BarrierSteps
  <2>3. \A v \in Workers : \A h \in SessionHandlers : handler'[v] = h <=> handler[v] = h
    BY <2>2
  <2>4. \A v \in Workers : /\ handler'[v] = "node" <=> handler[v] = "node"
                           /\ handler'[v] = "add" <=> handler[v] = "add"
                           /\ handler'[v] = "group" <=> handler[v] = "group"
                           /\ handler'[v] = "create" <=> handler[v] = "create"
    BY <2>3 DEF SessionHandlers
  <2> QED BY <1>1, <2>1, <2>2, <2>4 DEF SwitchOk
<1>10. ~Killed'
  BY <1>1, <1>2 DEF Killed
<1>11. Living'
  BY <1>1, <1>2, <1>8, <1>9 DEF SessionInv, Living, Delivered
<1> QED BY <1>1, <1>5, <1>6, <1>7, <1>10, <1>11 DEF SessionInv

LEMMA WaitersFinite ==
  ASSUME Shapes
  PROVE  \A o : /\ IsFiniteSet(WaitersAt(o)) /\ Cardinality(WaitersAt(o)) \in Nat
                /\ WaitersAt(o) \subseteq Workers
<1> TAKE o
<1>1. WaitersAt(o) \in SUBSET Workers
  BY DEF WaitersAt
<1>2. IsFiniteSet(WaitersAt(o))
  BY <1>1, WorkersFinite, FS_Subset
<1> QED BY <1>1, <1>2, FS_CardinalityType

LEMMA BarrierArrives ==
  ASSUME SessionInv, NEW w \in Workers, BarrierArrive(w)
  PROVE  SessionInv'
<1>1. /\ phase[w] = "setup" /\ step[w] \in BarrierSteps(w) /\ handler[w] = "idle"
      /\ UNCHANGED <<cluster, phase, session, accepted, bcast, switch>>
      /\ Shapes /\ SyncShapes
  BY Scripts DEF BarrierArrive, SessionInv
<1>2. ~Killed /\ Local(w) /\ BarrierOk
  <2>1. ~Killed
    BY <1>1 DEF SessionInv, AfterKill
  <2> QED BY <2>1 DEF SessionInv, Living
<1>3. /\ UNCHANGED <<cfg, host, known, run, kills, reset, phase, session, accepted, bcast,
                     table, group, slot, inbox>>
      /\ Workers' = Workers
  BY <1>1, SameSession DEF cluster, switch
<1>4. PICK b : b = barrier
  OBVIOUS
<1>5. /\ b = [op |-> b.op, ctrs |-> b.ctrs, released |-> b.released]
      /\ b.op \in Nat /\ b.ctrs \in [DOMAIN b.ctrs -> Nat] /\ b.released \in SUBSET Nat
      /\ DOMAIN b.ctrs \subseteq 0 .. b.op /\ b.op \in DOMAIN b.ctrs
      /\ b.released \subseteq DOMAIN b.ctrs \ {b.op}
  BY <1>1, <1>4 DEF SyncShapes
<1>6. /\ step[w] \in {2, 3, 4} /\ ~Behind(w)
      /\ handler \in [Workers -> Handlers] /\ at \in [Workers -> Nat] /\ step \in [Workers -> 1 .. 5]
  BY <1>1 DEF BarrierSteps, Shapes, Behind
<1>7. w \notin WaitersAt(b.op) /\ b.ctrs[b.op] = Cardinality(WaitersAt(b.op))
  BY <1>1, <1>2, <1>4, <1>5 DEF WaitersAt, BarrierOk
<1>8. CASE b.ctrs[b.op] + 1 < cfg.num_workers
  <2>1. /\ barrier' = [b EXCEPT !.ctrs[b.op] = @ + 1]
        /\ handler' = [handler EXCEPT ![w] = "barrier"]
        /\ at' = [at EXCEPT ![w] = b.op]
        /\ UNCHANGED step
    BY <1>4, <1>8 DEF BarrierArrive
  <2>2. /\ barrier'.op = b.op /\ barrier'.released = b.released
        /\ barrier'.ctrs = [b.ctrs EXCEPT ![b.op] = @ + 1]
        /\ barrier' = [op |-> barrier'.op, ctrs |-> barrier'.ctrs, released |-> barrier'.released]
    BY <1>5, <2>1
  <2>3. /\ DOMAIN barrier'.ctrs = DOMAIN b.ctrs /\ barrier'.ctrs[b.op] = b.ctrs[b.op] + 1
        /\ \A o \in DOMAIN b.ctrs \ {b.op} : barrier'.ctrs[o] = b.ctrs[o]
        /\ barrier'.ctrs \in [DOMAIN barrier'.ctrs -> Nat]
    BY <1>5, <2>2
  <2>4. /\ handler' \in [Workers -> Handlers] /\ handler'[w] = "barrier"
        /\ at' \in [Workers -> Nat] /\ at'[w] = b.op
        /\ \A v \in Workers \ {w} : handler'[v] = handler[v] /\ at'[v] = at[v]
    BY <1>5, <1>6, <2>1 DEF Handlers
  <2>5. Shapes' /\ SyncShapes'
    <3>1. Shapes'
      BY <1>1, <1>3, <2>1, <2>4 DEF Shapes
    <3>2. barrier' \in [op : Nat, ctrs : [DOMAIN barrier'.ctrs -> Nat], released : SUBSET Nat]
      BY <1>5, <2>2, <2>3
    <3> QED BY <1>1, <1>3, <1>5, <2>2, <2>3, <3>1, <3>2, SameOperation DEF SyncShapes
  <2>6. \A v \in Workers : Local(v)'
    <3>1. ASSUME NEW v \in Workers \ {w} PROVE Local(v)'
      <4>1. WorkerStays(v) /\ Local(v)
        BY <1>3, <2>1, <2>4 DEF WorkerStays, SessionInv
      <4> QED BY <1>3, <1>4, <2>3, <4>1, LocalStays DEF Local
    <3>2. Local(w)'
      <4>1. /\ Fit(w) /\ (Fit(w)' <=> Fit(w)) /\ session[w] = run /\ slot[w] # run /\ inbox = {}
        BY <1>1, <1>2, <1>3, <1>6, SameSession DEF Local
      <4>2. phase'[w] = "setup" /\ step'[w] \in BarrierSteps(w) /\ handler'[w] = "barrier"
            /\ at'[w] \in DOMAIN barrier'.ctrs /\ (BarrierSteps(w))' = BarrierSteps(w)
        BY <1>1, <1>3, <1>5, <2>1, <2>3, <2>4 DEF BarrierSteps
      <4> QED BY <1>3, <4>1, <4>2 DEF Local, SessionHandlers
    <3> QED BY <3>1, <3>2
  <2>7. BarrierOk'
    <3>1. \A v \in Workers : Counted(v)' = Counted(v)
      BY <1>1, <1>4, <1>5, <2>1, <2>2, <2>4 DEF Counted, Behind, Passed
    <3>2. \A o \in DOMAIN b.ctrs \ {b.op} : WaitersAt(o)' = WaitersAt(o)
      BY <1>1, <1>3, <2>4 DEF WaitersAt
    <3>3. WaitersAt(b.op)' = WaitersAt(b.op) \union {w}
      BY <1>3, <2>4 DEF WaitersAt
    <3>4. Cardinality(WaitersAt(b.op) \union {w}) = Cardinality(WaitersAt(b.op)) + 1
      BY <1>1, <1>7, WaitersFinite, FS_AddElement
    <3>5. \A o \in DOMAIN barrier'.ctrs : barrier'.ctrs[o] = Cardinality(WaitersAt(o)')
      <4>1. barrier'.ctrs[b.op] = Cardinality(WaitersAt(b.op)')
        BY <1>7, <2>3, <3>3, <3>4
      <4>2. \A o \in DOMAIN b.ctrs \ {b.op} : barrier'.ctrs[o] = Cardinality(WaitersAt(o)')
        BY <1>2, <1>4, <2>3, <3>2 DEF BarrierOk
      <4> QED BY <2>3, <4>1, <4>2
    <3>6. \A v \in Workers : handler'[v] = "barrier" => at'[v] = barrier'.op \/ at'[v] \in barrier'.released
      BY <1>2, <1>4, <2>2, <2>4 DEF BarrierOk
    <3> QED BY <1>2, <1>3, <3>1, <3>5, <3>6 DEF BarrierOk
  <2>8. StepsClose'
    BY <1>3, <2>1, SameParts DEF SessionInv
  <2>9. NewBroadcast'
    <3>1. NewBroadcast
      BY <1>2, <1>6 DEF SessionInv, Living, OldBroadcast
    <3>2. w \in {v \in Workers : step[v] > 1}
      BY <1>6
    <3> QED BY <1>3, <2>1, <3>1, <3>2 DEF NewBroadcast
  <2>10. SwitchOk'
    <3>1. SwitchOk
      BY <1>2 DEF SessionInv, Living
    <3>2. \A v \in Workers : /\ handler'[v] \in SessionHandlers <=> handler[v] \in SessionHandlers
                             /\ handler'[v] = "node" <=> handler[v] = "node"
                             /\ handler'[v] = "add" <=> handler[v] = "add"
                             /\ handler'[v] = "group" <=> handler[v] = "group"
                             /\ handler'[v] = "create" <=> handler[v] = "create"
                             /\ PastSession(v)' <=> PastSession(v)
      BY <1>1, <2>1, <2>4 DEF SessionHandlers, PastSession, SessionStep
    <3> QED BY <1>3, <2>1, <3>1, <3>2 DEF SwitchOk
  <2>11. ~Killed' /\ Living'
    BY <1>2, <1>3, <2>7, <2>9, <2>10 DEF SessionInv, Living, Killed, Delivered
  <2> QED BY <1>3, <2>5, <2>6, <2>8, <2>11 DEF SessionInv
<1>9. CASE ~(b.ctrs[b.op] + 1 < cfg.num_workers)
  <2>1. barrier' = Completed(barrier) /\ step' = [step EXCEPT ![w] = @ + 1] /\ UNCHANGED <<handler, at>>
    BY <1>4, <1>9 DEF BarrierArrive, Answered
  <2>2. /\ barrier'.op = b.op + 1 /\ barrier'.released = b.released \union {b.op}
        /\ DOMAIN barrier'.ctrs = DOMAIN b.ctrs \union {b.op + 1}
        /\ barrier'.ctrs[b.op + 1] = 0 /\ \A o \in DOMAIN b.ctrs : barrier'.ctrs[o] = b.ctrs[o]
        /\ barrier'.ctrs \in [DOMAIN barrier'.ctrs -> Nat]
        /\ barrier' = [op |-> barrier'.op, ctrs |-> barrier'.ctrs, released |-> barrier'.released]
    <3>1. PICK c : c = Completed(barrier)
      OBVIOUS
    <3> QED BY <1>1, <1>4, <2>1, <3>1, NextOperation
  <2>3. WaitersAt(b.op) = Workers \ {w}
    <3>1. /\ IsFiniteSet(Workers \ {w}) /\ Cardinality(Workers \ {w}) = cfg.num_workers - 1
          /\ cfg.num_workers \in Nat
      BY <1>1, WorkersFinite, FS_RemoveElement
    <3>2. WaitersAt(b.op) \in SUBSET (Workers \ {w})
      BY <1>7 DEF WaitersAt
    <3>3. Cardinality(WaitersAt(b.op)) <= Cardinality(Workers \ {w})
      BY <3>1, <3>2, FS_Subset
    <3>4. Cardinality(WaitersAt(b.op)) \in Nat
      BY <1>1, WaitersFinite
    <3>5. Cardinality(WaitersAt(b.op)) = Cardinality(Workers \ {w})
      BY <1>7, <1>9, <3>1, <3>3, <3>4
    <3> QED BY <3>1, <3>2, <3>5, FS_Subset
  <2>4. \A v \in Workers \ {w} : handler[v] = "barrier" /\ at[v] = b.op /\ ~Behind(v)
    BY <1>4, <1>5, <2>3 DEF WaitersAt, Behind
  <2>5. SyncShapes'
    <3>1. barrier' \in [op : Nat, ctrs : [DOMAIN barrier'.ctrs -> Nat], released : SUBSET Nat]
      BY <1>5, <2>2
    <3>2. DOMAIN barrier'.ctrs \subseteq 0 .. barrier'.op
          /\ barrier'.released \subseteq DOMAIN barrier'.ctrs \ {barrier'.op}
      BY <1>5, <2>2
    <3> QED BY <1>1, <1>3, <2>2, <3>1, <3>2, SameOperation DEF SyncShapes
  <2>6. BarrierOk'
    <3>1. \A v \in Workers : Counted(v)' = Passed(v) + 1
      <4>1. \A v \in Workers \ {w} : Behind(v)' /\ Passed(v)' = Passed(v)
        BY <1>6, <2>1, <2>2, <2>4 DEF Behind, Passed
      <4>2. ~Behind(w)' /\ Passed(w)' = Passed(w) + 1
        BY <1>1, <1>6, <2>1 DEF Behind, Passed, BarrierSteps
      <4>3. \A v \in Workers : Passed(v) \in Nat
        BY <1>6 DEF Passed
      <4> QED BY <4>1, <4>2, <4>3 DEF Counted
    <3>2. \A v \in Workers : Counted(v) = Passed(v)
      <4>1. \A v \in Workers : Passed(v) \in Nat
        BY <1>6 DEF Passed
      <4> QED BY <1>6, <2>4, <4>1 DEF Counted
    <3>3. \A u, v \in Workers : Counted(u)' = Counted(v)'
      BY <1>2, <3>1, <3>2 DEF BarrierOk
    <3>4. \A o : WaitersAt(o)' = WaitersAt(o)
      BY <1>3, <2>1 DEF WaitersAt
    <3>5. WaitersAt(b.op + 1) = {}
      BY <1>1, <1>5, <2>4 DEF WaitersAt
    <3>6. \A o \in DOMAIN barrier'.ctrs : barrier'.ctrs[o] = Cardinality(WaitersAt(o)')
      BY <1>2, <1>4, <2>2, <3>4, <3>5, FS_EmptySet DEF BarrierOk
    <3>7. \A v \in Workers : handler'[v] = "barrier" => at'[v] = barrier'.op \/ at'[v] \in barrier'.released
      BY <1>1, <2>1, <2>2, <2>4
    <3> QED BY <1>3, <3>3, <3>6, <3>7 DEF BarrierOk
  <2>7. \A v \in Workers \ {w} : handler[v] = "barrier" => at[v] \in DOMAIN barrier'.ctrs
    BY <1>5, <2>2, <2>4
  <2>8. handler' = [handler EXCEPT ![w] = "idle"]
    BY <1>1, <1>6, <2>1
  <2> QED BY <1>1, <2>1, <2>5, <2>6, <2>7, <2>8, PassesBarrier
<1> QED BY <1>8, <1>9

LEMMA BarrierWakes ==
  ASSUME SessionInv, NEW w \in Workers, BarrierWake(w)
  PROVE  SessionInv'
<1>1. /\ phase[w] = "setup" /\ handler[w] = "barrier" /\ at[w] \in barrier.released
      /\ handler' = [handler EXCEPT ![w] = "idle"] /\ step' = [step EXCEPT ![w] = @ + 1]
      /\ UNCHANGED <<cluster, phase, session, accepted, at, bcast, switch>>
      /\ Shapes /\ SyncShapes /\ Local(w)
  BY DEF BarrierWake, Answered, SessionInv
<1>2. ~Killed /\ BarrierOk /\ step[w] \in BarrierSteps(w)
  <2>1. ~Killed
    BY <1>1 DEF SessionInv, AfterKill
  <2> QED BY <1>1, <2>1 DEF SessionInv, Living, Local
<1>3. Workers' = Workers /\ UNCHANGED <<cfg, host, known, run, bcast, group>>
  BY <1>1, SameSession DEF cluster, switch
<1>4. PICK b : b = barrier
  OBVIOUS
<1>5. /\ b = [op |-> b.op, ctrs |-> b.ctrs, released |-> b.released]
      /\ b.op \in Nat /\ b.ctrs \in [DOMAIN b.ctrs -> Nat] /\ b.released \in SUBSET Nat
      /\ DOMAIN b.ctrs \subseteq 0 .. b.op /\ b.op \in DOMAIN b.ctrs
      /\ b.released \subseteq DOMAIN b.ctrs \ {b.op}
  BY <1>1, <1>4 DEF SyncShapes
<1>6. PICK o \in b.released : o = at[w]
  BY <1>1, <1>4
<1>7. /\ o \in DOMAIN b.ctrs /\ o # b.op /\ b.ctrs[o] = Cardinality(WaitersAt(o))
      /\ w \in WaitersAt(o)
  BY <1>1, <1>2, <1>4, <1>5, <1>6 DEF WaitersAt, BarrierOk
<1>8. PICK left : left = b.ctrs[o] - 1
  OBVIOUS
<1>9. left = Cardinality(WaitersAt(o) \ {w}) /\ left \in Nat
  <2>1. IsFiniteSet(WaitersAt(o)) /\ Cardinality(WaitersAt(o)) \in Nat
    BY <1>1, WaitersFinite
  <2>2. /\ Cardinality(WaitersAt(o) \ {w}) = Cardinality(WaitersAt(o)) - 1
        /\ IsFiniteSet(WaitersAt(o) \ {w})
    BY <1>7, <2>1, FS_RemoveElement
  <2> QED BY <1>7, <1>8, <2>2, FS_CardinalityType
<1>10. /\ handler \in [Workers -> Handlers] /\ step \in [Workers -> 1 .. 5]
       /\ handler'[w] = "idle" /\ step'[w] = step[w] + 1 /\ step[w] \in {2, 3, 4}
       /\ \A v \in Workers \ {w} : handler'[v] = handler[v] /\ step'[v] = step[v]
  BY <1>1, <1>2 DEF Shapes, BarrierSteps
<1>11. /\ WaitersAt(o)' = WaitersAt(o) \ {w}
       /\ \A p : p # o => WaitersAt(p)' = WaitersAt(p)
  BY <1>1, <1>3, <1>6, <1>10 DEF WaitersAt
<1>12. /\ barrier'.op = b.op /\ barrier'.ctrs \in [DOMAIN barrier'.ctrs -> Nat]
       /\ barrier' = [op |-> barrier'.op, ctrs |-> barrier'.ctrs, released |-> barrier'.released]
       /\ \A p \in DOMAIN barrier'.ctrs : p \in DOMAIN b.ctrs /\ barrier'.ctrs[p] = IF p = o THEN left ELSE b.ctrs[p]
       /\ \A p \in DOMAIN b.ctrs \ {o} : p \in DOMAIN barrier'.ctrs
       /\ o \in DOMAIN barrier'.ctrs <=> left # 0
       /\ barrier'.released = IF left = 0 THEN b.released \ {o} ELSE b.released
  <2>1. CASE left = 0
    <3>1. /\ barrier' = [b EXCEPT !.ctrs = Restrict(@, DOMAIN @ \ {o}), !.released = @ \ {o}]
      BY <1>4, <1>6, <1>8, <2>1 DEF BarrierWake
    <3>2. /\ barrier'.op = b.op /\ barrier'.released = b.released \ {o}
          /\ barrier'.ctrs = [p \in DOMAIN b.ctrs \ {o} |-> b.ctrs[p]]
          /\ barrier' = [op |-> barrier'.op, ctrs |-> barrier'.ctrs, released |-> barrier'.released]
      BY <1>5, <3>1 DEF Restrict
    <3> QED BY <1>5, <2>1, <3>2
  <2>2. CASE left # 0
    <3>1. barrier' = [b EXCEPT !.ctrs[o] = left]
      BY <1>4, <1>6, <1>8, <2>2 DEF BarrierWake
    <3>2. /\ barrier'.op = b.op /\ barrier'.released = b.released
          /\ barrier'.ctrs = [b.ctrs EXCEPT ![o] = left]
          /\ barrier' = [op |-> barrier'.op, ctrs |-> barrier'.ctrs, released |-> barrier'.released]
      BY <1>5, <3>1
    <3> QED BY <1>5, <1>7, <1>9, <2>2, <3>2
  <2> QED BY <2>1, <2>2
<1>13. SyncShapes'
  <2>1. barrier' \in [op : Nat, ctrs : [DOMAIN barrier'.ctrs -> Nat], released : SUBSET Nat]
    BY <1>5, <1>12
  <2>2. /\ DOMAIN barrier'.ctrs \subseteq 0 .. barrier'.op /\ barrier'.op \in DOMAIN barrier'.ctrs
        /\ barrier'.released \subseteq DOMAIN barrier'.ctrs \ {barrier'.op}
    BY <1>5, <1>7, <1>12
  <2> QED BY <1>1, <1>3, <2>1, <2>2, SameOperation DEF SyncShapes
<1>14. \A v \in Workers \ {w} : handler[v] = "barrier" /\ left = 0 => at[v] # o
  <2>1. left = 0 => WaitersAt(o) \ {w} = {}
    <3>1. IsFiniteSet(WaitersAt(o) \ {w})
      BY <1>1, WaitersFinite, FS_RemoveElement
    <3> QED BY <1>9, <3>1, FS_EmptySet
  <2> QED BY <2>1 DEF WaitersAt
<1>15. BarrierOk'
  <2>1. \A v \in Workers \ {w} : /\ handler'[v] = "barrier" => at'[v] = barrier'.op \/ at'[v] \in barrier'.released
                                 /\ Behind(v)' <=> Behind(v)
    BY <1>1, <1>2, <1>4, <1>10, <1>12, <1>14 DEF BarrierOk, Behind
  <2>2. \A p \in DOMAIN barrier'.ctrs : barrier'.ctrs[p] = Cardinality(WaitersAt(p)')
    BY <1>2, <1>4, <1>9, <1>11, <1>12 DEF BarrierOk
  <2>3. \A v \in Workers : Counted(v)' = Counted(v)
    <3>1. \A v \in Workers \ {w} : Passed(v)' = Passed(v)
      BY <1>10 DEF Passed
    <3>2. /\ Passed(w)' = Passed(w) + 1 /\ Passed(w) \in Nat /\ Behind(w) /\ ~Behind(w)'
      BY <1>1, <1>2, <1>10 DEF Passed, Behind, BarrierSteps
    <3> QED BY <2>1, <3>1, <3>2 DEF Counted
  <2> QED BY <1>2, <1>3, <1>10, <2>1, <2>2, <2>3 DEF BarrierOk
<1>16. \A v \in Workers \ {w} : handler[v] = "barrier" => at[v] \in DOMAIN barrier'.ctrs
  <2>1. \A v \in Workers \ {w} : handler[v] = "barrier" => at[v] \in DOMAIN b.ctrs
    BY <1>4 DEF SessionInv, Local
  <2> QED BY <1>12, <1>14, <2>1
<1> QED BY <1>1, <1>2, <1>13, <1>15, <1>16, PassesBarrier

-----------------------------------------------------------------------------
(* The broadcast                                                                *)

LEMMA ShortList ==
  ASSUME NEW S, NEW s \in Seq(S), Len(s) <= 1
  PROVE  /\ Len(s) \in {0, 1} /\ (Len(s) = 0 <=> s = <<>>)
         /\ s # <<>> => s = <<s[1]>> /\ s[1] \in S
<1>1. Len(s) \in Nat
  OBVIOUS
<1>2. Len(s) = 0 \/ Len(s) = 1
  <2>1. PICK n \in Nat : n = Len(s)
    BY <1>1
  <2>2. n <= 1
    BY <2>1
  <2>3. n = 0 \/ n = 1
    BY <2>2
  <2> QED BY <2>1, <2>3
<1>3. Len(s) = 0 <=> s = <<>>
  OBVIOUS
<1>4. ASSUME Len(s) = 1 PROVE s = <<s[1]>> /\ s[1] \in S
  <2>1. s[1] \in S
    BY <1>4
  <2>2. <<s[1]>> \in Seq(S) /\ Len(<<s[1]>>) = 1 /\ <<s[1]>>[1] = s[1]
    BY <2>1
  <2>3. \A i \in 1 .. 1 : s[i] = <<s[1]>>[i]
    BY <2>2
  <2> QED BY <1>4, <2>1, <2>2, <2>3, SeqEqual
<1> QED BY <1>2, <1>3, <1>4

LEMMA ListOfOne ==
  ASSUME NEW S, NEW e \in S
  PROVE  /\ <<e>> \in Seq(S) /\ Len(<<e>>) = 1 /\ <<e>>[1] = e /\ <<e>> # <<>>
         /\ Append(<<>>, e) = <<e>>
         /\ \A f : [<<e>> EXCEPT ![1] = f] = <<f>>
OBVIOUS

\* The step of a worker at its first call is before barriers and sessions.
LEMMA FirstCallParts ==
  ASSUME SessionInv, ~Killed, NEW w \in Workers, step[w] = 1,
         handler[w] \in {"idle", "broadcast"},
         UNCHANGED <<cluster, phase, accepted, barrier, switch>>,
         step' \in [Workers -> 1 .. 5], handler' \in [Workers -> Handlers],
         step'[w] \in {1, 2}, handler'[w] \in {"idle", "broadcast"},
         \A v \in Workers \ {w} : /\ step'[v] = step[v] /\ handler'[v] = handler[v]
                                  /\ at'[v] = at[v]
  PROVE  BarrierOk' /\ SwitchOk' /\ StepsClose'
<1>1. /\ UNCHANGED <<cfg, host, known, run, barrier, table, group, slot, accepted>>
      /\ Workers' = Workers /\ BarrierOk /\ SwitchOk
  BY SameSession DEF cluster, switch, SessionInv, Living
<1>2. \A v \in Workers : Passed(v)' = Passed(v) /\ (Behind(v)' <=> Behind(v))
  BY <1>1 DEF Passed, Behind
<1>3. \A o : WaitersAt(o)' = WaitersAt(o)
  BY <1>1 DEF WaitersAt
<1>4. BarrierOk'
  <2>1. \A v \in Workers : handler'[v] = "barrier" => handler[v] = "barrier" /\ at'[v] = at[v]
    BY <1>1
  <2> QED BY <1>1, <1>2, <1>3, <2>1 DEF BarrierOk, Counted
<1>5. SwitchOk'
  <2>1. \A v \in Workers : /\ handler'[v] \in SessionHandlers <=> handler[v] \in SessionHandlers
                           /\ handler'[v] = "node" <=> handler[v] = "node"
                           /\ handler'[v] = "add" <=> handler[v] = "add"
                           /\ handler'[v] = "group" <=> handler[v] = "group"
                           /\ handler'[v] = "create" <=> handler[v] = "create"
                           /\ PastSession(v)' <=> PastSession(v)
                           /\ step'[v] >= 3 <=> step[v] >= 3
    BY DEF SessionHandlers, PastSession, SessionStep
  <2> QED BY <1>1, <2>1 DEF SwitchOk
<1>6. StepsClose'
  BY <1>1, <1>2 DEF SessionInv, StepsClose
<1> QED BY <1>4, <1>5, <1>6

\* A worker gets the session id.
LEMMA GetsSession ==
  ASSUME SessionInv, NEW w \in Workers, phase[w] = "setup", step[w] = 1,
         handler[w] \in {"idle", "broadcast"}, step' = [step EXCEPT ![w] = @ + 1],
         handler' = [handler EXCEPT ![w] = "idle"], session' = [session EXCEPT ![w] = run],
         UNCHANGED <<cluster, phase, accepted, at, barrier, switch>>,
         SyncShapes', NewBroadcast', Len(bcast') = 1
  PROVE  SessionInv'
<1>1. /\ UNCHANGED <<cfg, host, known, run, kills, reset, phase, accepted, at, barrier,
                     table, group, slot, inbox>>
      /\ Workers' = Workers
  BY SameSession DEF cluster, switch
<1>2. ~Killed /\ Local(w) /\ Shapes
  BY DEF SessionInv, AfterKill
<1>3. /\ step' \in [Workers -> 1 .. 5] /\ handler' \in [Workers -> Handlers]
      /\ step'[w] = 2 /\ handler'[w] = "idle"
      /\ session' \in [Workers -> 0 .. run] /\ session'[w] = run
      /\ \A v \in Workers \ {w} : /\ step'[v] = step[v] /\ handler'[v] = handler[v]
                                  /\ session'[v] = session[v]
  BY <1>2, SessionAssumption DEF Shapes, Handlers
<1>4. BarrierOk' /\ SwitchOk' /\ StepsClose'
  BY <1>1, <1>2, <1>3, FirstCallParts
<1>5. Shapes'
  BY <1>1, <1>2, <1>3 DEF Shapes
<1>6. \A v \in Workers : Local(v)'
  <2>1. ASSUME NEW v \in Workers \ {w} PROVE Local(v)'
    <3>1. WorkerStays(v) /\ Local(v)
      BY <1>1, <1>3 DEF WorkerStays, SessionInv
    <3> QED BY <1>1, <3>1, LocalStays DEF Local
  <2>2. Local(w)'
    <3>1. Fit(w) /\ (Fit(w)' <=> Fit(w)) /\ slot[w] # run /\ inbox = {}
      BY <1>1, <1>2, SameSession DEF Local
    <3> QED BY <1>1, <1>3, <3>1 DEF Local, SessionHandlers
  <2> QED BY <2>1, <2>2
<1>7. ~Killed' /\ Living'
  BY <1>1, <1>2, <1>4 DEF SessionInv, Living, Killed, Delivered
<1> QED BY <1>1, <1>4, <1>5, <1>6, <1>7 DEF SessionInv

LEMMA BroadcastCalls ==
  ASSUME SessionInv, NEW w \in Workers, BroadcastCall(w)
  PROVE  SessionInv'
<1>1. /\ phase[w] = "setup" /\ step[w] = 1 /\ handler[w] = "idle"
      /\ UNCHANGED <<cluster, accepted, barrier, switch>>
      /\ Shapes /\ SyncShapes /\ Local(w)
  BY Scripts DEF BroadcastCall, SessionInv
<1>2. ~Killed /\ (OldBroadcast \/ NewBroadcast)
  <2>1. ~Killed
    BY <1>1 DEF SessionInv, AfterKill
  <2> QED BY <2>1 DEF SessionInv, Living
<1>3. /\ UNCHANGED <<cfg, host, known, run, kills, reset, accepted, barrier, table, group, slot, inbox>>
      /\ Workers' = Workers
  BY <1>1, SameSession DEF cluster, switch
<1>4. /\ run \in Nat \ {0} /\ bcast \in Seq(Operation) /\ Len(bcast) \in {0, 1}
      /\ Len(bcast) = 0 <=> bcast = <<>>
      /\ bcast # <<>> => bcast = <<bcast[1]>> /\ bcast[1] \in Operation
  <2>1. run \in Nat \ {0} /\ bcast \in Seq(Operation) /\ Len(bcast) <= 1
    BY <1>1, SessionAssumption DEF Shapes, SyncShapes
  <2> QED BY <2>1, ShortList
<1>5. ~CleaningFails(bcast)
  <2>1. PICK n \in {0, 1} : n = Len(bcast)
    BY <1>4
  <2>2. 1 .. n - 1 = {}
    OBVIOUS
  <2> QED BY <2>1, <2>2 DEF CleaningFails
\* The operation that w joins.
<1>6. PICK e \in Operation :
        /\ e.got = {v \in Workers : step[v] > 1} /\ e.value \in {0, run}
        /\ e.value = 0 => e.got = {}
        /\ \/ Cleaned(bcast) = <<>> /\ e = [got |-> {}, value |-> 0]
           \/ Cleaned(bcast) = <<e>>
  <2>1. CASE OldBroadcast
    <3>1. PICK e \in Operation : e = [got |-> {}, value |-> 0]
      <4>1. 0 \in 0 .. run /\ {} \in SUBSET Workers
        BY <1>4
      <4>2. [got |-> {}, value |-> 0] \in Operation
        BY <4>1 DEF Operation
      <4> QED BY <4>2
    <3>2. {v \in Workers : step[v] > 1} = {}
      BY <2>1 DEF OldBroadcast
    <3>3. Cleaned(bcast) = <<>>
      <4>1. CASE bcast = <<>>
        BY <4>1 DEF Cleaned
      <4>2. CASE bcast # <<>>
        <5>1. Len(bcast) = 1 /\ AllGot(bcast[1])
          BY <1>4, <2>1, <4>2 DEF OldBroadcast
        <5>2. Cleaned(bcast) = SubSeq(bcast, 1, 0)
          BY <4>2, <5>1 DEF Cleaned
        <5> QED BY <5>2
      <4> QED BY <4>1, <4>2
    <3> QED BY <3>1, <3>2, <3>3
  <2>2. CASE NewBroadcast
    <3>1. Len(bcast) = 1 /\ bcast[1] \in Operation /\ bcast = <<bcast[1]>>
      BY <1>4, <2>2 DEF NewBroadcast
    <3>2. w \notin bcast[1].got
      BY <1>1, <2>2 DEF NewBroadcast
    <3>3. Cleaned(bcast) = bcast
      BY <3>1, <3>2 DEF Cleaned, AllGot
    <3> QED BY <2>2, <3>1, <3>3 DEF NewBroadcast
  <2> QED BY <1>2, <2>1, <2>2
<1>7. w \notin e.got
  BY <1>1, <1>6
<1>8. PICK list : list = Cleaned(bcast)
  OBVIOUS
<1>9. EntryFor(w, list) = 1
  <2>1. CASE list = <<>>
    BY <2>1 DEF EntryFor
  <2>2. CASE list = <<e>>
    <3>1. {i \in 1 .. Len(list) : w \notin list[i].got} = {1}
      BY <1>7, <2>2
    <3>2. Min({1}) = 1
      BY DEF Min
    <3> QED BY <3>1, <3>2 DEF EntryFor
  <2> QED BY <1>6, <1>8, <2>1, <2>2
<1>10. PICK open : open = IF 1 > Len(list) THEN Append(list, [got |-> {}, value |-> 0]) ELSE list
  OBVIOUS
<1>11. open = <<e>>
  <2>1. CASE list = <<>>
    <3>1. e = [got |-> {}, value |-> 0]
      BY <1>6, <1>8, <2>1
    <3>2. PICK n : n = Len(list) /\ n = 0
      BY <2>1
    <3>3. open = IF 1 > n THEN Append(list, e) ELSE list
      BY <1>10, <3>1, <3>2
    <3>4. open = Append(<<>>, e)
      BY <2>1, <3>2, <3>3
    <3> QED BY <3>4, ListOfOne
  <2>2. CASE list = <<e>>
    BY <1>10, <2>2
  <2> QED BY <1>6, <1>8, <2>1, <2>2
<1>12. PICK value : value = IF w = Root THEN run ELSE e.value
  OBVIOUS
<1>13. /\ IF value = 0
          THEN /\ bcast' = open
               /\ handler' = [handler EXCEPT ![w] = "broadcast"]
               /\ at' = [at EXCEPT ![w] = 1]
               /\ UNCHANGED <<step, session>>
          ELSE /\ bcast' = [open EXCEPT ![1] = [got |-> @.got \union {w}, value |-> value]]
               /\ session' = [session EXCEPT ![w] = value]
               /\ Answered(w)
               /\ UNCHANGED <<handler, at>>
       /\ UNCHANGED phase
  BY <1>5, <1>8, <1>9, <1>10, <1>11, <1>12 DEF BroadcastCall
<1>14. CASE value = 0
  <2>1. /\ bcast' = <<e>> /\ handler' = [handler EXCEPT ![w] = "broadcast"]
        /\ at' = [at EXCEPT ![w] = 1] /\ UNCHANGED <<step, session, phase>>
    BY <1>11, <1>13, <1>14
  <2>2. /\ handler' \in [Workers -> Handlers] /\ handler'[w] = "broadcast"
        /\ at' \in [Workers -> Nat] /\ at'[w] = 1 /\ step \in [Workers -> 1 .. 5]
        /\ \A v \in Workers \ {w} : handler'[v] = handler[v] /\ at'[v] = at[v]
    BY <1>1, <2>1 DEF Shapes, Handlers
  <2>3. Len(bcast') = 1 /\ bcast'[1] = e /\ bcast' # <<>>
        /\ bcast' \in Seq(Operation)
    BY <2>1
  <2>4. e.value = 0
    BY <1>4, <1>12, <1>14
  <2>5. BarrierOk' /\ SwitchOk' /\ StepsClose'
    BY <1>1, <1>2, <2>1, <2>2, FirstCallParts
  <2>6. NewBroadcast'
    BY <1>3, <1>6, <2>1, <2>2, <2>3, <2>4 DEF NewBroadcast
  <2>7. Shapes' /\ SyncShapes'
    <3>1. Shapes'
      BY <1>1, <1>3, <2>1, <2>2 DEF Shapes
    <3>2. SyncShapes'
      BY <1>1, <1>3, <2>3, SameOperation DEF SyncShapes
    <3> QED BY <3>1, <3>2
  <2>8. \A v \in Workers : Local(v)'
    <3>1. ASSUME NEW v \in Workers \ {w} PROVE Local(v)'
      <4>1. WorkerStays(v) /\ Local(v)
        BY <2>1, <2>2, <1>3 DEF WorkerStays, SessionInv
      <4>2. handler[v] = "broadcast" => Len(bcast') = Len(bcast)
        BY <2>3, <4>1 DEF Local
      <4> QED BY <1>3, <4>1, <4>2, LocalStays DEF Local
    <3>2. Local(w)'
      <4>1. Fit(w) /\ (Fit(w)' <=> Fit(w)) /\ slot[w] # run /\ inbox = {}
        BY <1>1, <1>3, SameSession DEF Local
      <4> QED BY <1>1, <1>3, <2>1, <2>2, <2>3, <4>1 DEF Local, SessionHandlers
    <3> QED BY <3>1, <3>2
  <2>9. ~Killed' /\ Living'
    BY <1>2, <1>3, <2>1, <2>5, <2>6 DEF SessionInv, Living, Killed, Delivered
  <2> QED BY <1>3, <2>5, <2>7, <2>8, <2>9 DEF SessionInv
<1>15. CASE value # 0
  <2>1. value = run
    BY <1>4, <1>6, <1>12, <1>15
  <2>2. /\ session' = [session EXCEPT ![w] = run] /\ step' = [step EXCEPT ![w] = @ + 1]
        /\ UNCHANGED <<handler, at, phase>>
        /\ bcast' = [open EXCEPT ![1] = [got |-> @.got \union {w}, value |-> value]]
    BY <1>13, <1>15, <2>1 DEF Answered
  <2>3. PICK f \in Operation : f = [got |-> e.got \union {w}, value |-> run]
    <3>1. e.got \union {w} \in SUBSET Workers /\ run \in 0 .. run
      BY <1>4 DEF Operation
    <3>2. [got |-> e.got \union {w}, value |-> run] \in Operation
      BY <3>1 DEF Operation
    <3> QED BY <3>2
  <2>4. bcast' = <<f>>
    BY <1>11, <2>1, <2>2, <2>3, ListOfOne
  <2>5. Len(bcast') = 1 /\ bcast'[1] = f /\ bcast' # <<>>
        /\ bcast' \in Seq(Operation)
    BY <2>4
  <2>6. {v \in Workers : step'[v] > 1} = e.got \union {w}
    <3>1. step \in [Workers -> 1 .. 5]
      BY <1>1 DEF Shapes
    <3> QED BY <1>1, <1>6, <2>2, <3>1
  <2>7. NewBroadcast'
    BY <1>3, <1>4, <2>3, <2>5, <2>6 DEF NewBroadcast
  <2>8. SyncShapes'
    BY <1>1, <1>3, <2>5, SameOperation DEF SyncShapes
  <2>9. handler' = [handler EXCEPT ![w] = "idle"]
    BY <1>1, <2>2 DEF Shapes
  <2> QED BY <1>1, <2>2, <2>5, <2>7, <2>8, <2>9, GetsSession
<1> QED BY <1>14, <1>15

LEMMA BroadcastWakes ==
  ASSUME SessionInv, NEW w \in Workers, BroadcastWake(w)
  PROVE  SessionInv'
<1>1. /\ phase[w] = "setup" /\ handler[w] = "broadcast" /\ bcast[at[w]].value # 0
      /\ bcast' = [bcast EXCEPT ![at[w]].got = @ \union {w}]
      /\ session' = [session EXCEPT ![w] = bcast[at[w]].value]
      /\ handler' = [handler EXCEPT ![w] = "idle"] /\ step' = [step EXCEPT ![w] = @ + 1]
      /\ UNCHANGED <<cluster, phase, accepted, at, barrier, switch>>
      /\ Shapes /\ SyncShapes /\ Local(w)
  BY DEF BroadcastWake, Answered, SessionInv
<1>2. step[w] = 1 /\ at[w] = 1 /\ Len(bcast) = 1 /\ ~Killed
  BY <1>1 DEF Local, SessionInv, AfterKill
<1>3. NewBroadcast
  BY <1>1, <1>2 DEF SessionInv, Living, OldBroadcast
<1>4. PICK e \in Operation : bcast = <<e>> /\ e = bcast[1]
  <2>1. bcast \in Seq(Operation) /\ Len(bcast) <= 1
    BY <1>1 DEF SyncShapes
  <2>2. bcast # <<>>
    <3>1. Len(<<>>) = 0
      OBVIOUS
    <3>2. Len(bcast) # 0
      BY <1>2
    <3> QED BY <3>1, <3>2
  <2>3. bcast = <<bcast[1]>> /\ bcast[1] \in Operation
    BY <2>1, <2>2, ShortList
  <2> QED BY <2>3
<1>5. e.value = run /\ run \in Nat \ {0} /\ e.got = {v \in Workers : step[v] > 1}
  BY <1>1, <1>2, <1>3, <1>4, SessionAssumption DEF NewBroadcast, Shapes
<1>6. PICK f \in Operation : f = [got |-> e.got \union {w}, value |-> run]
  <2>1. e.got \union {w} \in SUBSET Workers /\ run \in 0 .. run
    BY <1>5 DEF Operation
  <2>2. [got |-> e.got \union {w}, value |-> run] \in Operation
    BY <2>1 DEF Operation
  <2> QED BY <2>2
<1>7. bcast' = <<f>>
  <2>1. [e EXCEPT !.got = @ \union {w}] = f
    BY <1>4, <1>5, <1>6 DEF Operation
  <2>2. bcast' = [bcast EXCEPT ![1] = f]
    BY <1>1, <1>2, <1>4, <2>1
  <2> QED BY <1>4, <2>2
<1>8. /\ Len(bcast') = 1 /\ bcast'[1] = f /\ bcast' # <<>>
      /\ bcast' \in Seq(Operation)
  BY <1>7
<1>9. Workers' = Workers /\ UNCHANGED <<cfg, run, barrier, group>>
  BY <1>1, SameSession DEF cluster, switch
<1>10. {v \in Workers : step'[v] > 1} = e.got \union {w}
  <2>1. step \in [Workers -> 1 .. 5]
    BY <1>1 DEF Shapes
  <2> QED BY <1>1, <1>2, <1>5, <2>1
<1>11. NewBroadcast'
  BY <1>5, <1>6, <1>8, <1>9, <1>10 DEF NewBroadcast
<1>12. SyncShapes'
  BY <1>1, <1>8, <1>9, SameOperation DEF SyncShapes
<1>13. session' = [session EXCEPT ![w] = run]
  BY <1>1, <1>2, <1>4, <1>5
<1> QED BY <1>1, <1>2, <1>8, <1>11, <1>12, <1>13, GetsSession

-----------------------------------------------------------------------------
(* The session service                                                          *)

\* After a kill the handlers that are under way go on, for clients that are gone.
LEMMA DeadStep ==
  ASSUME SessionInv, Killed, NEW w \in Workers, handler[w] # "idle",
         UNCHANGED <<cluster, phase, step, session, at, barrier, bcast, slot, inbox>>,
         UNCHANGED accepted, table' \in SUBSET Workers,
         group' \in [present : BOOLEAN, nodes : SUBSET Workers],
         NEW h \in {"idle", "group", "create", "node"}, handler' = [handler EXCEPT ![w] = h],
         h # "idle" => handler[w] \in SessionHandlers
  PROVE  SessionInv'
<1>1. /\ UNCHANGED <<cfg, host, known, run, kills, reset>> /\ Workers' = Workers
      /\ Shapes /\ SyncShapes /\ AfterKill
  BY SameSession DEF cluster, SessionInv
<1>2. /\ handler' \in [Workers -> Handlers] /\ handler'[w] = h
      /\ \A v \in Workers \ {w} : handler'[v] = handler[v]
  BY <1>1 DEF Shapes, Handlers, SessionHandlers
<1>3. Shapes'
  BY <1>1, <1>2 DEF Shapes
<1>4. SyncShapes'
  BY <1>1, SameOperation DEF SyncShapes
<1>5. Killed' /\ AfterKill'
  BY <1>1, <1>2 DEF AfterKill, Killed
<1>6. \A v \in Workers : Local(v)'
  <2>1. ASSUME NEW v \in Workers \ {w} PROVE Local(v)'
    <3>1. WorkerStays(v) /\ Local(v)
      BY <1>1, <1>2 DEF WorkerStays, SessionInv, Shapes
    <3> QED BY <1>1, <3>1, LocalStays DEF Local
  <2>2. Local(w)'
    <3>1. Local(w) /\ (Fit(w)' <=> Fit(w)) /\ Passed(w)' = Passed(w)
      BY <1>1, SameSession DEF SessionInv, Passed
    <3>2. phase[w] = "dead"
      BY <1>1, <3>1 DEF Local, AfterKill
    <3> QED BY <1>1, <1>2, <3>1, <3>2 DEF Local, SessionStep, SessionHandlers
  <2> QED BY <2>1, <2>2
<1>7. StepsClose'
  BY <1>1, SameParts DEF SessionInv
<1> QED BY <1>1, <1>3, <1>4, <1>5, <1>6, <1>7 DEF SessionInv

LEMMA Cancels ==
  ASSUME SessionInv, NEW w \in Workers, CancelWaiting(w)
  PROVE  SessionInv'
<1>1. /\ phase[w] = "dead" /\ handler[w] # "idle"
      /\ handler' = [handler EXCEPT ![w] = "idle"]
      /\ UNCHANGED <<cluster, phase, step, session, accepted, at, barrier, bcast,
                     table, group, slot, inbox>>
  BY DEF CancelWaiting, workerVars, switch
<1>2. Killed
  BY <1>1 DEF Killed
<1>3. table \in SUBSET Workers /\ group \in [present : BOOLEAN, nodes : SUBSET Workers]
  BY DEF SessionInv, Shapes, SyncShapes
<1> QED BY <1>1, <1>2, <1>3, DeadStep

\* A step of a handler that serves worker w while nobody was killed.
LEMMA SessionServed ==
  ASSUME SessionInv, NEW w \in Workers, phase[w] = "setup", step[w] = SessionStep(w),
         handler[w] \in {"idle"} \union SessionHandlers,
         UNCHANGED <<cluster, session, at, barrier, bcast, inbox>>,
         NEW p \in {"setup", "fatal"}, phase' = [phase EXCEPT ![w] = p],
         NEW s \in {step[w], step[w] + 1}, step' = [step EXCEPT ![w] = s],
         NEW h \in {"idle"} \union SessionHandlers, handler' = [handler EXCEPT ![w] = h],
         h = "idle" <=> p = "fatal" \/ s # step[w], h = "add" => w = Root,
         p = "fatal" => s = step[w] /\ Passed(w) >= 1 /\ known # Workers,
         accepted' \in [Workers -> BOOLEAN], table' \in SUBSET Workers,
         group' \in [present : BOOLEAN, nodes : SUBSET Workers],
         slot' \in [Workers -> 0 .. run], \A v \in Workers : slot'[v] \in {slot[v], 0},
         SwitchOk'
  PROVE  SessionInv'
<1>1. /\ UNCHANGED <<cfg, host, known, run, kills, reset>> /\ Workers' = Workers
      /\ Shapes /\ SyncShapes /\ ~Killed /\ Local(w)
  BY SameSession DEF cluster, SessionInv, AfterKill
<1>2. /\ phase' \in [Workers -> Phases] /\ phase'[w] = p
      /\ step' \in [Workers -> 1 .. 5] /\ step'[w] = s /\ step[w] \in {2, 3} /\ s \in {2, 3, 4}
      /\ handler' \in [Workers -> Handlers] /\ handler'[w] = h
      /\ \A v \in Workers \ {w} : /\ phase'[v] = phase[v] /\ step'[v] = step[v]
                                  /\ handler'[v] = handler[v]
  BY <1>1 DEF Shapes, Phases, Handlers, SessionStep
<1>3. Shapes'
  BY <1>1, <1>2 DEF Shapes
<1>4. SyncShapes'
  BY <1>1, SameOperation DEF SyncShapes
<1>5. \A v \in Workers : Passed(v)' = Passed(v)
  <2>1. Passed(w)' = Passed(w)
    BY <1>2 DEF Passed, SessionStep
  <2> QED BY <1>2, <2>1 DEF Passed
<1>6. BarrierOk'
  <2>1. \A v \in Workers : /\ handler'[v] = "barrier" <=> handler[v] = "barrier"
                           /\ at'[v] = at[v]
    BY <1>2 DEF SessionHandlers
  <2>2. \A v \in Workers : Counted(v)' = Counted(v)
    BY <1>5, <2>1 DEF Counted, Behind
  <2>3. \A o : WaitersAt(o)' = WaitersAt(o)
    BY <1>1, <2>1 DEF WaitersAt
  <2>4. BarrierOk
    BY <1>1 DEF SessionInv, Living
  <2> QED BY <1>1, <2>1, <2>2, <2>3, <2>4 DEF BarrierOk
<1>7. StepsClose'
  BY <1>1, <1>5 DEF SessionInv, StepsClose
<1>8. NewBroadcast'
  <2>1. NewBroadcast
    BY <1>1, <1>2 DEF SessionInv, Living, OldBroadcast
  <2>2. {v \in Workers : step'[v] > 1} = {v \in Workers : step[v] > 1}
    BY <1>2
  <2>3. w \in {v \in Workers : step[v] > 1}
    BY <1>2
  <2> QED BY <1>1, <2>1, <2>2, <2>3 DEF NewBroadcast
<1>9. \A v \in Workers : Local(v)'
  <2>1. ASSUME NEW v \in Workers \ {w} PROVE Local(v)'
    <3>1. WorkerStays(v) /\ Local(v)
      BY <1>1, <1>2 DEF WorkerStays, SessionInv
    <3> QED BY <1>1, <3>1, LocalStays DEF Local
  <2>2. Local(w)'
    <3>1. /\ Fit(w) /\ (Fit(w)' <=> Fit(w)) /\ session[w] = run
          /\ slot[w] # run /\ run # 0 /\ inbox = {}
      BY <1>1, <1>2, NotSent, SameSession, SessionAssumption DEF Local, Shapes
    <3>2. slot'[w] # run
      BY <3>1
    <3>3. h \in SessionHandlers => step'[w] = SessionStep(w) /\ p = "setup"
      BY <1>2 DEF SessionHandlers
    <3> QED BY <1>1, <1>2, <1>5, <3>1, <3>2, <3>3 DEF Local, SessionHandlers, SessionStep
  <2> QED BY <2>1, <2>2
<1>10. ~Killed'
  BY <1>1, <1>2 DEF Killed
<1>11. Living'
  BY <1>1, <1>6, <1>8, NotSent DEF SessionInv, Living, Delivered
<1> QED BY <1>1, <1>3, <1>4, <1>7, <1>9, <1>10, <1>11 DEF SessionInv

\* The others do not ask for the session before the root was answered.
LEMMA OthersWait ==
  ASSUME SessionInv, ~Killed, Root \in Workers, step[Root] <= 2
  PROVE  \A v \in Workers : /\ ~PastSession(v)
                            /\ v # Root => handler[v] \notin SessionHandlers /\ step[v] <= 2
<1>1. Shapes /\ BarrierOk /\ Local(Root)
  BY DEF SessionInv, Living
<1>2. step[Root] \in {1, 2} /\ handler[Root] # "barrier"
  BY <1>1 DEF Shapes, Local, BarrierSteps
<1>3. Counted(Root) = 0
  BY <1>2 DEF Counted, Passed, Behind
<1>4. ~PastSession(Root)
  BY <1>2 DEF PastSession, SessionStep
<1> SUFFICES ASSUME NEW v \in Workers \ {Root}
             PROVE  ~PastSession(v) /\ handler[v] \notin SessionHandlers /\ step[v] <= 2
  BY <1>4
<1>5. Counted(v) = 0 /\ Local(v) /\ step[v] \in 1 .. 5
  BY <1>1, <1>3 DEF BarrierOk, SessionInv, Shapes
<1>6. step[v] <= 2
  BY <1>5 DEF Counted, Passed
<1> QED BY <1>5, <1>6 DEF PastSession, SessionStep, Local

LEMMA RootIsWorker ==
  ASSUME SessionInv, NEW w \in Workers
  PROVE  Root \in Workers /\ (w # Root /\ step[w] >= 3 /\ ~Killed => step[Root] >= 3)
<1>1. Root \in Workers
  <2>1. Shapes
    BY DEF SessionInv
  <2>2. cfg.num_workers \in Nat /\ w \in 0 .. cfg.num_workers - 1
    BY <2>1, WorkersFinite DEF Workers
  <2>3. 0 \in 0 .. cfg.num_workers - 1
    BY <2>2
  <2> QED BY <2>3 DEF Workers, Root
<1>2. step[Root] \in 1 .. 5 /\ step[w] \in 1 .. 5
  BY <1>1 DEF SessionInv, Shapes
<1>3. ASSUME w # Root, step[w] >= 3, ~Killed, ~(step[Root] >= 3) PROVE FALSE
  BY <1>1, <1>2, <1>3, OthersWait
<1> QED BY <1>1, <1>3

\* What a handler that is under way says of its worker.
LEMMA HandlerOf ==
  ASSUME SessionInv, NEW w \in Workers, handler[w] \in SessionHandlers
  PROVE  /\ step[w] = SessionStep(w) /\ handler[w] # "idle"
         /\ Killed => phase[w] = "dead"
         /\ ~Killed => phase[w] = "setup" /\ SwitchOk
<1>1. Local(w) /\ handler[w] # "idle"
  BY DEF SessionInv, SessionHandlers
<1>2. phase[w] \in {"setup", "dead"} /\ step[w] = SessionStep(w)
  BY <1>1 DEF Local
<1>3. Killed => phase[w] = "dead"
  BY <1>2 DEF SessionInv, AfterKill
<1>4. ~Killed => phase[w] = "setup" /\ SwitchOk
  BY <1>2 DEF SessionInv, Living, Killed, Delivered
<1> QED BY <1>1, <1>2, <1>3, <1>4

LEMMA SwitchShapes ==
  ASSUME SessionInv
  PROVE  /\ table \in SUBSET Workers /\ group \in [present : BOOLEAN, nodes : SUBSET Workers]
         /\ slot \in [Workers -> 0 .. run] /\ accepted \in [Workers -> BOOLEAN]
         /\ handler \in [Workers -> Handlers] /\ phase \in [Workers -> Phases]
         /\ step \in [Workers -> 1 .. 5]
BY DEF SessionInv, Shapes, SyncShapes

LEMMA Clears ==
  ASSUME SessionInv, NEW w \in Workers, ClearWorkers(w)
  PROVE  SessionInv'
<1>1. /\ w = Root /\ phase[w] = "setup" /\ step[w] = SessionStep(w) /\ step[w] = 2
      /\ handler[w] = "idle" /\ handler' = [handler EXCEPT ![w] = "add"]
      /\ table' = {} /\ slot' = [v \in Workers |-> 0] /\ group' = NoGroup
      /\ UNCHANGED <<cluster, phase, step, session, accepted, at, barrier, bcast, inbox>>
  BY Scripts DEF ClearWorkers, SwitchCleared, workerVars, SessionInv, SessionStep, Fresh
<1>2. ~Killed
  BY <1>1 DEF SessionInv, AfterKill
<1>3. \A v \in Workers : /\ ~PastSession(v)
                         /\ v # w => handler[v] \notin SessionHandlers
  BY <1>1, <1>2, OthersWait
<1>4. /\ handler'[w] = "add" /\ \A v \in Workers \ {w} : handler'[v] = handler[v]
      /\ Workers' = Workers
  BY <1>1, SwitchShapes, SameSession DEF cluster
<1>5. SwitchOk'
  <2>1. \A v \in Workers : handler'[v] \notin {"group", "create", "node"}
    BY <1>3, <1>4 DEF SessionHandlers
  <2>2. \A v \in Workers : ~PastSession(v)'
    BY <1>1, <1>3 DEF PastSession, SessionStep
  <2>3. ~group'.present /\ \A v \in Workers : slot'[v] = 0
    BY <1>1 DEF NoGroup
  <2> QED BY <1>1, <1>4, <2>1, <2>2, <2>3 DEF SwitchOk
<1>6. /\ slot' \in [Workers -> 0 .. run] /\ \A v \in Workers : slot'[v] \in {slot[v], 0}
      /\ group' \in [present : BOOLEAN, nodes : SUBSET Workers] /\ table' \in SUBSET Workers
      /\ accepted' \in [Workers -> BOOLEAN]
  BY <1>1, SwitchShapes, SessionAssumption DEF NoGroup, SessionInv, Shapes
<1>7. phase' = [phase EXCEPT ![w] = "setup"] /\ step' = [step EXCEPT ![w] = step[w]]
  BY <1>1, SwitchShapes
<1> QED BY <1>1, <1>5, <1>6, <1>7, SessionServed DEF SessionHandlers

LEMMA Adds ==
  ASSUME SessionInv, NEW w \in Workers, AddWorker(w)
  PROVE  SessionInv'
<1>1. UNCHANGED <<cluster, phase, session, accepted, at, barrier, bcast, group, slot, inbox>>
  BY DEF AddWorker
<1>2. /\ handler[w] \in {"idle", "add"} /\ step[w] = SessionStep(w)
      /\ ~Killed => phase[w] = "setup"
      /\ Killed => phase[w] = "dead" /\ handler[w] = "add"
      /\ w = Root => handler[w] = "add"
  <2>1. CASE handler[w] = "add"
    BY <2>1, HandlerOf DEF SessionHandlers
  <2>2. CASE handler[w] # "add"
    <3>1. w # Root /\ phase[w] = "setup" /\ step[w] = SessionStep(w) /\ handler[w] = "idle"
      BY <2>2, Scripts DEF AddWorker, SessionInv
    <3> QED BY <3>1 DEF SessionInv, AfterKill
  <2> QED BY <2>1, <2>2
<1>3. PICK h \in {"group", "idle"} : /\ h = "group" <=> w \in known
                                     /\ handler' = [handler EXCEPT ![w] = h]
                                     /\ table' = IF h = "group" THEN table \union {w} ELSE table
  BY DEF AddWorker
<1>4. /\ handler'[w] = h /\ \A v \in Workers \ {w} : handler'[v] = handler[v]
      /\ Workers' = Workers /\ known' = known /\ run' = run /\ table' \in SUBSET Workers
  BY <1>1, <1>3, SwitchShapes, SameSession DEF cluster
<1>5. CASE Killed
  <2>1. phase[w] = "dead" /\ handler[w] # "idle" /\ UNCHANGED step
    BY <1>2, <1>3, <1>5 DEF AddWorker
  <2> QED BY <1>1, <1>2, <1>3, <1>4, <1>5, <2>1, SwitchShapes, DeadStep DEF SessionHandlers
<1>6. CASE ~Killed
  <2>1. PICK s \in {step[w], step[w] + 1} :
          step' = [step EXCEPT ![w] = s] /\ (s = step[w] <=> h = "group")
    <3>1. step[w] \in 1 .. 5 /\ step[w] # step[w] + 1
      BY SwitchShapes
    <3>2. CASE w \in known
      <4>1. step' = [step EXCEPT ![w] = step[w]]
        BY <3>2, SwitchShapes DEF AddWorker
      <4> QED BY <1>3, <3>2, <4>1
    <3>3. CASE w \notin known
      <4>1. step' = [step EXCEPT ![w] = step[w] + 1]
        BY <1>2, <1>6, <3>3 DEF AddWorker, Answered
      <4> QED BY <1>3, <3>1, <3>3, <4>1
    <3> QED BY <3>2, <3>3
  <2>2. SwitchOk
    BY <1>6 DEF SessionInv, Living
  <2>3. step'[w] = s /\ \A v \in Workers \ {w} : step'[v] = step[v]
    BY <2>1, SwitchShapes
  <2>4. SwitchOk'
    <3>1. /\ \A v \in Workers : handler'[v] = "node" => handler[v] = "node"
          /\ \A v \in Workers : handler'[v] = "create" => handler[v] = "create"
          /\ \A v \in Workers : handler'[v] \in {"group", "create", "node"} => v \in table'
          /\ w = Root => handler[w] = "add"
      BY <1>2, <1>3, <1>4, <2>2 DEF SwitchOk
    <3>2. known = Workers => UNCHANGED step
      BY <1>3, <2>1, SwitchShapes
    <3>3. \A v \in Workers : v \in table => v \in table'
      BY <1>3
    <3>4. known = Workers => \A v \in Workers : PastSession(v)' <=> PastSession(v)
      BY <3>2 DEF PastSession, SessionStep
    <3>5. known = Workers =>
            \A v \in Workers : /\ v = Root /\ step'[v] >= 3 => group.present
                               /\ v # Root => handler'[v] # "create"
                               /\ PastSession(v)' => v \in table' /\ v \in group.nodes /\ accepted[v]
      BY <2>2, <3>1, <3>2, <3>3, <3>4 DEF SwitchOk
    <3>6. \A v \in Workers : v = Root /\ (step'[v] >= 3 \/ handler'[v] \in SessionHandlers) =>
            step[v] >= 3 \/ handler[v] \in SessionHandlers
      BY <1>4, <2>3, <3>1 DEF SessionHandlers
    <3>7. \A v \in Workers : v = Root /\ handler'[v] \in {"add", "group", "create"} =>
            handler[v] \in {"add", "group", "create"}
      BY <1>4, <3>1
    <3> QED BY <1>1, <1>4, <2>2, <3>1, <3>5, <3>6, <3>7 DEF SwitchOk
  <2>5. phase' = [phase EXCEPT ![w] = "setup"]
    BY <1>1, <1>2, <1>6, SwitchShapes
  <2>6. \A v \in Workers : slot'[v] \in {slot[v], 0}
    BY <1>1
  <2>7. h = "idle" <=> s # step[w]
    BY <2>1
  <2> QED BY <1>1, <1>2, <1>3, <1>4, <1>6, <2>1, <2>4, <2>5, <2>6, <2>7, SwitchShapes, SessionServed
       DEF SessionHandlers
<1> QED BY <1>5, <1>6

LEMMA FindsGroup ==
  ASSUME SessionInv, NEW w \in Workers, FindGroup(w)
  PROVE  SessionInv'
<1>1. /\ handler[w] = "group" /\ handler[w] \in SessionHandlers
      /\ UNCHANGED <<cluster, phase, step, session, accepted, at, barrier, bcast,
                     table, group, slot, inbox>>
  BY DEF FindGroup, workerVars, switch, SessionHandlers
<1>2. PICK h \in {"node", "create"} : /\ h = IF group.present THEN "node" ELSE "create"
                                      /\ handler' = [handler EXCEPT ![w] = h]
  BY DEF FindGroup
<1>3. /\ handler'[w] = h /\ \A v \in Workers \ {w} : handler'[v] = handler[v]
      /\ Workers' = Workers /\ known' = known /\ run' = run
  BY <1>1, <1>2, SwitchShapes, SameSession DEF cluster
<1>4. CASE Killed
  BY <1>1, <1>2, <1>4, SwitchShapes, HandlerOf, DeadStep
<1>5. CASE ~Killed
  <2>1. phase[w] = "setup" /\ step[w] = SessionStep(w) /\ SwitchOk
    BY <1>1, <1>5, HandlerOf
  <2>2. known = Workers /\ w # Root => group.present
    <3>1. w # Root => step[w] = 3
      BY <2>1 DEF SessionStep
    <3>2. w # Root => Root \in Workers /\ step[Root] >= 3
      BY <1>5, <3>1, RootIsWorker
    <3> QED BY <2>1, <3>2 DEF SwitchOk
  <2>3. SwitchOk'
    <3>1. /\ \A v \in Workers : handler'[v] = "node" => group.present
          /\ \A v \in Workers : handler'[v] \in {"group", "create", "node"} => v \in table
          /\ \A v \in Workers : v = Root /\ handler'[v] \in {"add", "group", "create"} => ~group.present
      BY <1>1, <1>2, <1>3, <2>1 DEF SwitchOk
    <3>2. \A v \in Workers : handler'[v] \in SessionHandlers <=> handler[v] \in SessionHandlers
      BY <1>1, <1>2, <1>3 DEF SessionHandlers
    <3>3. known = Workers => \A v \in Workers : v # Root => handler'[v] # "create"
      BY <1>2, <1>3, <2>1, <2>2 DEF SwitchOk
    <3>4. \A v \in Workers : PastSession(v)' <=> PastSession(v)
      BY <1>1 DEF PastSession, SessionStep
    <3> QED BY <1>1, <1>3, <2>1, <3>1, <3>2, <3>3, <3>4 DEF SwitchOk
  <2>4. phase' = [phase EXCEPT ![w] = "setup"] /\ step' = [step EXCEPT ![w] = step[w]]
    BY <1>1, <2>1, SwitchShapes
  <2>5. \A v \in Workers : slot'[v] \in {slot[v], 0}
    BY <1>1
  <2> QED BY <1>1, <1>2, <1>3, <2>1, <2>3, <2>4, <2>5, SwitchShapes, SessionServed
       DEF SessionHandlers
<1> QED BY <1>4, <1>5

LEMMA Creates ==
  ASSUME SessionInv, NEW w \in Workers, CreateGroup(w)
  PROVE  SessionInv'
<1>1. /\ handler[w] = "create" /\ handler[w] \in SessionHandlers
      /\ UNCHANGED <<cluster, step, session, accepted, at, barrier, bcast, table, slot, inbox>>
  BY DEF CreateGroup, SessionHandlers
<1>2. PICK h \in {"node", "idle"} : /\ h = "idle" <=> group.present
                                    /\ handler' = [handler EXCEPT ![w] = h]
  BY DEF CreateGroup
<1>3. /\ handler'[w] = h /\ \A v \in Workers \ {w} : handler'[v] = handler[v]
      /\ Workers' = Workers /\ known' = known /\ run' = run
  BY <1>1, <1>2, SwitchShapes, SameSession DEF cluster
<1>4. /\ group' \in [present : BOOLEAN, nodes : SUBSET Workers] /\ group'.present
      /\ group.present => group' = group
      /\ ~group.present => group'.nodes = {}
  <2>1. CASE group.present
    <3>1. group' = group
      BY <2>1 DEF CreateGroup
    <3> QED BY <2>1, <3>1, SwitchShapes
  <2>2. CASE ~group.present
    <3>1. group' = [present |-> TRUE, nodes |-> {}]
      BY <2>2 DEF CreateGroup
    <3> QED BY <2>2, <3>1
  <2> QED BY <2>1, <2>2
<1>5. CASE Killed
  <2>1. UNCHANGED phase
    BY <1>1, <1>5, HandlerOf DEF CreateGroup
  <2> QED BY <1>1, <1>2, <1>4, <1>5, <2>1, SwitchShapes, HandlerOf, DeadStep
<1>6. CASE ~Killed
  <2>1. phase[w] = "setup" /\ step[w] = SessionStep(w) /\ SwitchOk
    BY <1>1, <1>6, HandlerOf
  <2>2. PICK p \in {"setup", "fatal"} : /\ phase' = [phase EXCEPT ![w] = p]
                                        /\ p = "fatal" <=> group.present
    <3>1. CASE group.present
      BY <2>1, <3>1 DEF CreateGroup, CallFailed
    <3>2. CASE ~group.present
      <4>1. phase' = [phase EXCEPT ![w] = "setup"]
        BY <2>1, <3>2, SwitchShapes DEF CreateGroup
      <4> QED BY <3>2, <4>1
    <3> QED BY <3>1, <3>2
  <2>3. p = "fatal" => w # Root /\ known # Workers /\ Passed(w) >= 1
    <3>1. p = "fatal" => w # Root /\ known # Workers
      BY <1>1, <2>1, <2>2 DEF SwitchOk
    <3>2. w # Root => step[w] = 3
      BY <2>1 DEF SessionStep
    <3> QED BY <3>1, <3>2 DEF Passed
  <2>4. w = Root \/ known # Workers
    BY <1>1, <2>1 DEF SwitchOk
  <2>5. w # Root => Root \in Workers /\ step[Root] >= 3
    <3>1. w # Root => step[w] = 3
      BY <2>1 DEF SessionStep
    <3> QED BY <1>6, <3>1, RootIsWorker
  <2>6. SwitchOk'
    <3>1. /\ \A v \in Workers : handler'[v] = "create" => handler[v] = "create"
          /\ \A v \in Workers : handler'[v] \in {"group", "create", "node"} => v \in table
          /\ \A v \in Workers : handler'[v] \in SessionHandlers => handler[v] \in SessionHandlers
      BY <1>1, <1>2, <1>3, <2>1 DEF SwitchOk, SessionHandlers
    <3>2. \A v \in Workers : v = Root => handler'[v] \notin {"add", "group", "create"}
      <4>1. CASE w = Root
        BY <1>3, <4>1
      <4>2. CASE w # Root
        <5>1. handler[Root] \in SessionHandlers => step[Root] = 2
          BY <2>5, <4>2, HandlerOf DEF SessionStep
        <5>2. handler[Root] \notin SessionHandlers
          BY <2>5, <4>2, <5>1, SwitchShapes
        <5> QED BY <1>3, <2>5, <4>2, <5>2 DEF SessionHandlers
      <4> QED BY <4>1, <4>2
    <3>3. known = Workers => \A v \in Workers : ~PastSession(v)
      <4>1. w = Root => step[Root] <= 2 /\ Root \in Workers
        BY <2>1 DEF SessionStep
      <4> QED BY <1>6, <2>4, <4>1, OthersWait
    <3>4. \A v \in Workers : PastSession(v)' <=> PastSession(v)
      BY <1>1 DEF PastSession, SessionStep
    <3> QED BY <1>1, <1>3, <1>4, <2>1, <3>1, <3>2, <3>3, <3>4 DEF SwitchOk
  <2>7. step' = [step EXCEPT ![w] = step[w]] /\ \A v \in Workers : slot'[v] \in {slot[v], 0}
    BY <1>1, SwitchShapes
  <2> QED BY <1>1, <1>2, <1>3, <1>4, <2>1, <2>2, <2>3, <2>6, <2>7, SwitchShapes, SessionServed
       DEF SessionHandlers
<1> QED BY <1>5, <1>6

LEMMA AddsNode ==
  ASSUME SessionInv, NEW w \in Workers, AddNode(w)
  PROVE  SessionInv'
<1>1. /\ handler[w] = "node" /\ handler[w] \in SessionHandlers
      /\ handler' = [handler EXCEPT ![w] = "idle"]
      /\ UNCHANGED <<cluster, phase, session, at, barrier, bcast, table, slot, inbox>>
  BY DEF AddNode, SessionHandlers
<1>2. /\ handler'[w] = "idle" /\ \A v \in Workers \ {w} : handler'[v] = handler[v]
      /\ Workers' = Workers /\ known' = known /\ run' = run
  BY <1>1, SwitchShapes, SameSession DEF cluster
<1>3. /\ group' \in [present : BOOLEAN, nodes : SUBSET Workers]
      /\ group'.present = group.present /\ group'.nodes = group.nodes \union {w}
  BY SwitchShapes DEF AddNode
<1>4. CASE Killed
  <2>1. UNCHANGED <<step, accepted>>
    BY <1>1, <1>4, HandlerOf DEF AddNode
  <2> QED BY <1>1, <1>3, <1>4, <2>1, SwitchShapes, HandlerOf, DeadStep
<1>5. CASE ~Killed
  <2>1. phase[w] = "setup" /\ step[w] = SessionStep(w) /\ SwitchOk
    BY <1>1, <1>5, HandlerOf
  <2>2. PICK s : s = step[w] + 1 /\ s # step[w]
    BY SwitchShapes
  <2>3. step' = [step EXCEPT ![w] = s] /\ accepted' = [accepted EXCEPT ![w] = TRUE]
    BY <2>1, <2>2 DEF AddNode, Answered
  <2>4. /\ step'[w] = s /\ \A v \in Workers \ {w} : step'[v] = step[v] /\ accepted'[v] = accepted[v]
        /\ accepted'[w] = TRUE /\ accepted' \in [Workers -> BOOLEAN]
    BY <2>3, SwitchShapes
  <2>5. SwitchOk'
    <3>1. /\ \A v \in Workers : handler'[v] = "node" => group.present
          /\ \A v \in Workers : handler'[v] = "create" => handler[v] = "create"
          /\ \A v \in Workers : handler'[v] \in {"group", "create", "node"} => v \in table
          /\ \A v \in Workers : handler'[v] \in {"add", "group", "create"} =>
               handler[v] \in {"add", "group", "create"}
          /\ \A v \in Workers : handler'[v] \in SessionHandlers => handler[v] \in SessionHandlers
          /\ w \in table /\ group.present
      BY <1>1, <1>2, <2>1 DEF SwitchOk, SessionHandlers
    <3>2. \A v \in Workers : v = Root /\ step'[v] >= 3 => step[v] >= 3 \/ handler[v] \in SessionHandlers
      BY <1>1, <2>4
    <3>3. \A v \in Workers \ {w} : PastSession(v)' <=> PastSession(v)
      BY <2>4 DEF PastSession, SessionStep
    <3>4. known = Workers =>
            \A v \in Workers : /\ v = Root /\ step'[v] >= 3 => group.present
                               /\ v # Root => handler'[v] # "create"
                               /\ PastSession(v)' => v \in table /\ v \in group'.nodes /\ accepted'[v]
      BY <1>3, <2>1, <2>4, <3>1, <3>3 DEF SwitchOk
    <3> QED BY <1>1, <1>2, <1>3, <2>1, <3>1, <3>2, <3>4 DEF SwitchOk
  <2>6. phase' = [phase EXCEPT ![w] = "setup"] /\ \A v \in Workers : slot'[v] \in {slot[v], 0}
    BY <1>1, <2>1, SwitchShapes
  <2> QED BY <1>1, <1>2, <1>3, <2>1, <2>2, <2>3, <2>4, <2>5, <2>6, SwitchShapes, SessionServed
       DEF SessionHandlers
<1> QED BY <1>4, <1>5

-----------------------------------------------------------------------------
(* The slots, kills, resets and runs                                            *)

LEMMA Sends ==
  ASSUME SessionInv, NEW w \in Workers, Send(w)
  PROVE  SessionInv'
<1>1. /\ phase[w] = "running" /\ slot[w] = 0 /\ slot' = [slot EXCEPT ![w] = run]
      /\ UNCHANGED <<cfg, host, known, run, kills, reset, phase, step, session, accepted, handler,
                     at, barrier, bcast, table, group>>
      /\ Workers' = Workers
  BY SameSession DEF Send, cluster, workerVars, sync
<1>2. /\ Shapes /\ SyncShapes /\ ~Killed /\ SwitchOk /\ run \in Nat \ {0} /\ step[w] = 5
      /\ inbox = {}
  <2>1. ~Killed /\ Local(w) /\ Shapes /\ SyncShapes
    BY <1>1 DEF SessionInv, AfterKill
  <2> QED BY <1>1, <2>1, SessionAssumption DEF SessionInv, Living, Local, Shapes, Delivered
<1>3. /\ slot' \in [Workers -> 0 .. run] /\ slot'[w] = run
      /\ \A v \in Workers \ {w} : slot'[v] = slot[v]
  BY <1>1, <1>2 DEF Shapes
<1>4. Root \in Workers /\ step[Root] >= 3
  <2>1. w # Root => step[Root] >= 3
    BY <1>2, RootIsWorker
  <2> QED BY <1>2, <2>1, RootIsWorker
<1>5. \A v \in Workers : slot[v] \in {0, run}
  BY <1>2, <1>4 DEF SwitchOk
<1>6. inbox' \in SUBSET Workers /\ (inbox' # {} => \A v \in Workers : slot'[v] # 0)
  BY <1>2 DEF Send, SyncShapes
\* A result goes out when every worker has sent its part in this run.
<1>7. inbox' # {} => \A v \in Workers : phase[v] \in {"running", "stopped", "dead"} /\ step[v] = 5
  <2>1. ASSUME inbox' # {}, NEW v \in Workers
        PROVE  phase[v] \in {"running", "stopped", "dead"} /\ step[v] = 5
    <3>1. Local(v) /\ slot'[v] # 0
      BY <1>6, <2>1 DEF SessionInv
    <3> QED BY <1>1, <1>2, <1>3, <1>5, <3>1 DEF Local
  <2> QED BY <2>1
<1>8. Shapes' /\ SyncShapes'
  BY <1>1, <1>2, <1>3, <1>6, SameOperation DEF Shapes, SyncShapes
<1>9. \A v \in Workers : Local(v)'
  <2> SUFFICES ASSUME NEW v \in Workers PROVE Local(v)'
    OBVIOUS
  <2>1. Local(v) /\ Passed(v)' = Passed(v) /\ (Fit(v)' <=> Fit(v))
    BY <1>1, SameSession DEF SessionInv, Passed
  <2>2. phase[v] # "stopped"
    BY <1>2, <2>1 DEF Local
  <2>3. slot'[v] = run => step[v] = 5 /\ phase[v] \in {"running", "stopped", "dead"}
    BY <1>1, <1>2, <1>3, <2>1 DEF Local
  <2> QED BY <1>1, <1>7, <2>1, <2>2, <2>3 DEF Local, BarrierSteps, SessionStep
<1>10. SwitchOk'
  <2>1. \A v \in Workers : PastSession(v)' <=> PastSession(v)
    BY <1>1 DEF PastSession, SessionStep
  <2>2. \A v \in Workers : slot'[v] \in {0, run}
    BY <1>3, <1>5
  <2> QED BY <1>1, <1>2, <2>1, <2>2 DEF SwitchOk
<1>11. Delivered'
  BY <1>1, <1>6 DEF Delivered
<1>12. StepsClose' /\ ~Killed' /\ Living'
  BY <1>1, <1>2, <1>10, <1>11, SameParts DEF SessionInv, Living, Killed
<1> QED BY <1>1, <1>8, <1>9, <1>12 DEF SessionInv

LEMMA Kills ==
  ASSUME SessionInv, Kill
  PROVE  SessionInv'
<1>1. /\ kills < MaxKills /\ ~Over /\ kills' = kills + 1 /\ reset' = "tables"
      /\ phase' = [w \in Workers |->
                     IF phase[w] \in {"stopped", "fatal"} THEN phase[w] ELSE "dead"]
      /\ UNCHANGED <<cfg, host, known, run, step, session, accepted, handler, at, barrier, bcast,
                     table, group, slot, inbox>>
      /\ Workers' = Workers /\ Shapes /\ SyncShapes
  BY SameSession DEF Kill, sync, switch, SessionInv
<1>2. \A w \in Workers : phase'[w] = IF phase[w] \in {"stopped", "fatal"} THEN phase[w] ELSE "dead"
  BY <1>1
<1>3. Shapes'
  <2>1. phase' \in [Workers -> Phases]
    BY <1>1 DEF Phases
  <2>2. kills' \in 0 .. MaxKills
    BY <1>1, SessionAssumption DEF Shapes
  <2> QED BY <1>1, <2>1, <2>2 DEF Shapes
<1>4. SyncShapes'
  BY <1>1, SameOperation DEF SyncShapes
<1>5. Killed' /\ AfterKill'
  <2>1. PICK w \in Workers : phase[w] \notin {"stopped", "dead", "fatal"}
    BY <1>1 DEF Over
  <2>2. phase'[w] = "dead"
    BY <1>2, <2>1
  <2>3. \A v \in Workers : phase'[v] \in {"stopped", "dead", "fatal"}
    BY <1>2
  <2> QED BY <1>1, <2>2, <2>3 DEF Killed, AfterKill
<1>6. \A w \in Workers : Local(w)'
  <2> SUFFICES ASSUME NEW w \in Workers PROVE Local(w)'
    OBVIOUS
  <2>1. Local(w) /\ Passed(w)' = Passed(w) /\ (Fit(w)' <=> Fit(w))
    BY <1>1, SameSession DEF SessionInv, Passed
  <2>2. \/ phase[w] = "stopped" /\ phase'[w] = "stopped"
        \/ phase[w] = "fatal" /\ phase'[w] = "fatal"
        \/ phase[w] \notin {"stopped", "fatal"} /\ phase'[w] = "dead"
    BY <1>2
  <2>3. handler[w] # "idle" => phase'[w] = "dead"
    BY <2>1, <2>2 DEF Local
  <2> QED BY <1>1, <2>1, <2>2, <2>3 DEF Local, BarrierSteps, SessionStep
<1>7. StepsClose'
  BY <1>1, SameParts DEF SessionInv
<1> QED BY <1>1, <1>3, <1>4, <1>5, <1>6, <1>7 DEF SessionInv

\* The operator resets only after a kill.
LEMMA ResetsTables ==
  ASSUME SessionInv, ResetTables
  PROVE  SessionInv'
<1>1. /\ reset = "tables" /\ reset' = "sync" /\ table' = {} /\ group' = NoGroup
      /\ slot' = [w \in Workers |-> 0]
      /\ UNCHANGED <<cfg, host, known, run, kills, phase, step, session, accepted, handler, at,
                     barrier, bcast, inbox>>
      /\ Workers' = Workers /\ Shapes /\ SyncShapes
  BY SameSession DEF ResetTables, SwitchCleared, Fresh, workerVars, sync, SessionInv
<1>2. Killed' /\ AfterKill'
  BY <1>1 DEF SessionInv, Living, Killed, AfterKill
<1>3. Shapes'
  <2>1. slot' \in [Workers -> 0 .. run]
    BY <1>1, SessionAssumption DEF Shapes
  <2> QED BY <1>1, <2>1 DEF Shapes
<1>4. SyncShapes'
  BY <1>1, SameOperation DEF SyncShapes, NoGroup
<1>5. \A w \in Workers : Local(w)'
  <2> SUFFICES ASSUME NEW w \in Workers PROVE Local(w)'
    OBVIOUS
  <2>1. WorkerStays(w) /\ Local(w)
    BY <1>1 DEF WorkerStays, SessionInv
  <2> QED BY <1>1, <2>1, LocalStays DEF Local
<1>6. StepsClose'
  BY <1>1, SameParts DEF SessionInv
<1> QED BY <1>1, <1>2, <1>3, <1>4, <1>5, <1>6 DEF SessionInv

LEMMA EmptyList == <<>> \in Seq(Operation) /\ Len(<<>>) = 0 /\ Len(<<>>) <= 1
OBVIOUS

LEMMA FirstBarrierShape ==
  /\ FirstBarrier.op = 0 /\ FirstBarrier.released = {} /\ DOMAIN FirstBarrier.ctrs = {0}
  /\ FirstBarrier.ctrs[0] = 0
  /\ FirstBarrier \in [op : Nat, ctrs : [DOMAIN FirstBarrier.ctrs -> Nat], released : SUBSET Nat]
  /\ DOMAIN FirstBarrier.ctrs \subseteq 0 .. FirstBarrier.op
BY DEF FirstBarrier

LEMMA ResetsSync ==
  ASSUME SessionInv, ResetSync
  PROVE  SessionInv'
<1>1. /\ reset = "sync" /\ reset' = "none" /\ barrier' = FirstBarrier /\ bcast' = <<>>
      /\ \A w \in Workers : handler[w] \notin {"barrier", "broadcast"}
      /\ UNCHANGED <<cfg, host, known, run, kills, phase, step, session, accepted, handler, at,
                     table, group, slot, inbox>>
      /\ Workers' = Workers /\ Shapes /\ SyncShapes
  BY SameSession DEF ResetSync, SyncReset, workerVars, switch, SessionInv
<1>2. Killed' /\ AfterKill'
  <2>1. Killed /\ AfterKill
    BY <1>1 DEF SessionInv, Living
  <2>2. Killed'
    BY <1>1, <2>1 DEF Killed
  <2> QED BY <1>1, <2>1, <2>2 DEF AfterKill, FirstBarrier
<1>3. Shapes'
  BY <1>1 DEF Shapes
<1>4. SyncShapes'
  BY <1>1, FirstBarrierShape, EmptyList, SameOperation DEF SyncShapes
<1>5. \A w \in Workers : Local(w)'
  <2> SUFFICES ASSUME NEW w \in Workers PROVE Local(w)'
    OBVIOUS
  <2>1. WorkerStays(w)
    BY <1>1 DEF WorkerStays
  <2> QED BY <1>1, <2>1, LocalStays
<1>6. StepsClose'
  BY <1>1, SameParts DEF SessionInv
<1> QED BY <1>1, <1>2, <1>3, <1>4, <1>5, <1>6 DEF SessionInv

LEMMA NextRuns ==
  ASSUME SessionInv, NextRun
  PROVE  SessionInv'
<1>1. /\ \A w \in Workers : phase[w] \in {"stopped", "dead", "fatal"}
      /\ run < Runs /\ reset = "none" /\ \A w \in Workers : handler[w] = "idle"
      /\ run' = run + 1 /\ phase' = [w \in Workers |-> "created"] /\ step' = [w \in Workers |-> 1]
      /\ session' = [w \in Workers |-> 0] /\ accepted' = [w \in Workers |-> FALSE]
      /\ at' = [w \in Workers |-> 0] /\ inbox' = {}
      /\ UNCHANGED <<cfg, host, known, kills, reset, handler, barrier, bcast, table, group, slot>>
      /\ Workers' = Workers /\ Shapes /\ SyncShapes /\ run \in Nat \ {0} /\ Runs \in Nat
  BY SameSession, SessionAssumption DEF NextRun, Over, Fresh, SessionInv, Shapes
<1>2. \A w \in Workers : /\ phase'[w] = "created" /\ step'[w] = 1 /\ handler'[w] = "idle"
                         /\ slot'[w] # run'
  BY <1>1 DEF Shapes
<1>3. Shapes'
  <2>1. phase' \in [Workers -> Phases] /\ step' \in [Workers -> 1 .. 5]
        /\ accepted' \in [Workers -> BOOLEAN] /\ at' \in [Workers -> Nat]
    BY <1>1 DEF Phases
  <2>2. run' \in 1 .. Runs /\ \A i \in 0 .. run : i \in 0 .. run'
    BY <1>1
  <2>3. session' \in [Workers -> 0 .. run'] /\ slot' \in [Workers -> 0 .. run']
    BY <1>1, <2>2 DEF Shapes
  <2> QED BY <1>1, <2>1, <2>2, <2>3 DEF Shapes
\* The list of broadcasts is empty, or holds the one that everyone got.
<1>4. bcast = <<>> \/ AllGot(bcast[1])
  <2>1. CASE Killed
    BY <1>1, <2>1 DEF SessionInv, AfterKill
  <2>2. CASE ~Killed
    <3>1. BarrierOk /\ StepsClose /\ (OldBroadcast \/ NewBroadcast)
      BY <2>2 DEF SessionInv, Living
    <3>2. CASE OldBroadcast
      BY <3>2 DEF OldBroadcast
    <3>3. CASE NewBroadcast
      <4>1. PICK v \in Workers : step[v] > 1
        BY <1>1, <3>3 DEF NewBroadcast
      <4>2. Local(v) /\ phase[v] \in {"stopped", "fatal"} /\ step[v] \in 1 .. 5
        BY <1>1, <2>2 DEF SessionInv, Killed, Shapes
      <4>3. Passed(v) >= 1
        BY <4>1, <4>2 DEF Local, Passed
      <4>4. \A u \in Workers : Passed(u) = Passed(v)
        <5>1. \A u \in Workers : Passed(u) \in Nat
          BY <1>1 DEF Passed, Shapes
        <5>2. \A u \in Workers : Counted(u) = Passed(u)
          BY <1>1, <5>1 DEF Counted, Behind
        <5> QED BY <3>1, <5>2 DEF BarrierOk
      <4>5. \A u \in Workers : step[u] > 1
        <5> SUFFICES ASSUME NEW u \in Workers PROVE step[u] > 1
          OBVIOUS
        <5>1. Passed(u) >= 1 /\ step[u] \in 1 .. 5
          BY <1>1, <4>3, <4>4 DEF Shapes
        <5> QED BY <5>1 DEF Passed
      <4> QED BY <3>3, <4>5 DEF NewBroadcast, AllGot
    <3> QED BY <3>1, <3>2, <3>3
  <2> QED BY <2>1, <2>2
<1>5. bcast \in Seq(Operation') /\ Len(bcast) <= 1
  <2>1. bcast \in Seq(Operation) /\ Len(bcast) <= 1
    BY <1>1 DEF SyncShapes
  <2>2. CASE bcast = <<>>
    BY <2>2
  <2>3. CASE bcast # <<>>
    <3>1. PICK e \in Operation : bcast = <<e>>
      <4>1. bcast = <<bcast[1]>> /\ bcast[1] \in Operation
        BY <2>1, <2>3, ShortList
      <4> QED BY <4>1
    <3>2. e \in Operation'
      <4>1. \A i \in 0 .. run : i \in 0 .. run'
        BY <1>1
      <4> QED BY <1>1, <4>1 DEF Operation
    <3> QED BY <2>1, <3>1, <3>2, ListOfOne
  <2> QED BY <2>2, <2>3
<1>6. SyncShapes'
  BY <1>1, <1>5 DEF SyncShapes
<1>7. StepsClose'
  BY <1>1, <1>2 DEF StepsClose, Passed
<1>8. \A w \in Workers : Local(w)'
  <2> SUFFICES ASSUME NEW w \in Workers PROVE Local(w)'
    OBVIOUS
  <2>1. inbox' = {} /\ (Passed(w)' = 0)
    BY <1>1, <1>2 DEF Passed
  <2> QED BY <1>2, <2>1 DEF Local, SessionHandlers
<1>9. ~Killed'
  BY <1>1, <1>2 DEF Killed
<1>10. BarrierOk'
  <2>1. \A o : WaitersAt(o) = {} /\ WaitersAt(o)' = {}
    BY <1>1, <1>2 DEF WaitersAt
  <2>2. \A o \in DOMAIN barrier.ctrs : barrier.ctrs[o] = 0
    <3>1. CASE Killed
      BY <1>1, <3>1, FirstBarrierShape DEF SessionInv, AfterKill
    <3>2. CASE ~Killed
      BY <2>1, <3>2, FS_EmptySet DEF SessionInv, Living, BarrierOk
    <3> QED BY <3>1, <3>2
  <2>3. \A w \in Workers : Counted(w)' = 0
    BY <1>1, <1>2 DEF Counted, Passed, Behind
  <2> QED BY <1>1, <1>2, <2>1, <2>2, <2>3, FS_EmptySet DEF BarrierOk
<1>11. OldBroadcast'
  <2>1. AllGot(bcast[1])' <=> AllGot(bcast[1])
    BY <1>1 DEF AllGot
  <2> QED BY <1>1, <1>2, <1>4, <2>1 DEF OldBroadcast
<1>12. SwitchOk'
  <2>1. \A w \in Workers : ~PastSession(w)'
    BY <1>2, <1>1 DEF PastSession, SessionStep
  <2>2. \A w \in Workers : ~(step'[w] >= 3)
    BY <1>2
  <2> QED BY <1>1, <1>2, <2>1, <2>2 DEF SwitchOk, SessionHandlers
<1>13. Delivered' /\ Living'
  BY <1>1, <1>10, <1>11, <1>12 DEF Delivered, Living
<1> QED BY <1>1, <1>3, <1>6, <1>7, <1>8, <1>9, <1>13 DEF SessionInv

-----------------------------------------------------------------------------
(* The invariant                                                                *)

LEMMA SessionStarts == Init => SessionInv
<1> SUFFICES ASSUME Init PROVE SessionInv
  OBVIOUS
<1>1. /\ cfg \in Configs /\ host \in [Workers -> Hosts] /\ known \in SUBSET Workers
      /\ run = 1 /\ kills = 0 /\ reset = "none"
      /\ phase = [w \in Workers |-> "created"] /\ step = [w \in Workers |-> 1]
      /\ session = [w \in Workers |-> 0] /\ accepted = [w \in Workers |-> FALSE]
      /\ handler = [w \in Workers |-> "idle"] /\ at = [w \in Workers |-> 0]
      /\ barrier = FirstBarrier /\ bcast = <<>>
      /\ table = {} /\ group = NoGroup /\ slot = [w \in Workers |-> 0] /\ inbox = {}
  BY DEF Init, Fresh
<1>2. \A w \in Workers : /\ phase[w] = "created" /\ step[w] = 1 /\ handler[w] = "idle"
                         /\ slot[w] = 0 /\ slot[w] # run
  BY <1>1
<1>3. Shapes
  <2>1. phase \in [Workers -> Phases] /\ step \in [Workers -> 1 .. 5]
        /\ handler \in [Workers -> Handlers]
    BY <1>1 DEF Phases, Handlers
  <2>2. run \in 1 .. Runs /\ kills \in 0 .. MaxKills /\ 0 \in 0 .. run
    BY <1>1, SessionAssumption
  <2>3. /\ session \in [Workers -> 0 .. run] /\ accepted \in [Workers -> BOOLEAN]
        /\ at \in [Workers -> Nat] /\ slot \in [Workers -> 0 .. run]
    BY <1>1, <2>2
  <2> QED BY <1>1, <2>1, <2>2, <2>3 DEF Shapes
<1>4. SyncShapes
  BY <1>1, FirstBarrierShape, EmptyList DEF SyncShapes, NoGroup
<1>5. \A w \in Workers : Local(w)
  BY <1>1, <1>2 DEF Local, SessionHandlers
<1>6. \A w \in Workers : Passed(w) = 0
  BY <1>2 DEF Passed
<1>7. StepsClose
  BY <1>6 DEF StepsClose
<1>8. ~Killed
  BY <1>2 DEF Killed
<1>9. BarrierOk
  <2>1. \A o : WaitersAt(o) = {}
    BY <1>2 DEF WaitersAt
  <2>2. \A w \in Workers : Counted(w) = 0
    BY <1>2, <1>6 DEF Counted, Behind
  <2> QED BY <1>1, <1>2, <2>1, <2>2, FirstBarrierShape, FS_EmptySet DEF BarrierOk
<1>10. OldBroadcast
  BY <1>1, <1>2 DEF OldBroadcast
<1>11. SwitchOk
  <2>1. \A w \in Workers : ~PastSession(w) /\ ~(step[w] >= 3)
    BY <1>2 DEF PastSession, SessionStep
  <2> QED BY <1>2, <2>1 DEF SwitchOk, SessionHandlers
<1>12. Living
  BY <1>1, <1>9, <1>10, <1>11 DEF Living, Delivered
<1> QED BY <1>3, <1>4, <1>5, <1>7, <1>8, <1>12 DEF SessionInv

LEMMA SessionStutters ==
  ASSUME SessionInv, UNCHANGED vars
  PROVE  SessionInv'
<1>1. /\ UNCHANGED <<cfg, host, known, run, kills, reset, phase, step, session, accepted,
                     handler, at, barrier, bcast, table, group, slot, inbox>>
      /\ Workers' = Workers
  BY SameSession DEF vars, cluster, workerVars, sync, switch
<1>2. Shapes' /\ SyncShapes'
  BY <1>1, SameOperation DEF SessionInv, Shapes, SyncShapes
<1>3. \A w \in Workers : Local(w)'
  <2> SUFFICES ASSUME NEW w \in Workers PROVE Local(w)'
    OBVIOUS
  <2>1. WorkerStays(w) /\ Local(w)
    BY <1>1 DEF WorkerStays, SessionInv
  <2> QED BY <1>1, <2>1, LocalStays DEF Local
<1>4. StepsClose'
  BY <1>1, SameParts DEF SessionInv
<1>5. (Killed' <=> Killed) /\ (AfterKill => AfterKill')
  BY <1>1 DEF Killed, AfterKill, FirstBarrier
<1>6. Living => Living'
  BY <1>1, SameParts DEF Living, Delivered
<1> QED BY <1>1, <1>2, <1>3, <1>4, <1>5, <1>6 DEF SessionInv

LEMMA SessionNext == SessionInv /\ [Next]_vars => SessionInv'
<1> SUFFICES ASSUME SessionInv, [Next]_vars PROVE SessionInv'
  OBVIOUS
<1>1. CASE UNCHANGED vars
  BY <1>1, SessionStutters
<1>2. ASSUME NEW w \in Workers, Setup(w) PROVE SessionInv'
  BY <1>2, WorkerSteps, Sends DEF Setup
<1>3. ASSUME NEW w \in Workers, Serve(w) PROVE SessionInv'
  BY <1>3, BarrierArrives, BarrierWakes, BroadcastCalls, BroadcastWakes, Cancels, Clears, Adds,
     FindsGroup, Creates, AddsNode DEF Serve
<1>4. CASE Kill \/ ResetTables \/ ResetSync \/ NextRun
  BY <1>4, Kills, ResetsTables, ResetsSync, NextRuns
<1> QED BY <1>1, <1>2, <1>3, <1>4 DEF Next

\* The inductive invariant of the start of a session: what a worker is told, has
\* reached and was refused, and what the barrier, the broadcast and the switch
\* hold for whom, in a run that nobody killed and from a kill to the reset.
THEOREM SessionInvariant == Spec => []SessionInv
<1>1. Init => SessionInv
  BY SessionStarts
<1>2. SessionInv /\ [Next]_vars => SessionInv'
  BY SessionNext
<1> QED BY <1>1, <1>2, PTL DEF Spec

-----------------------------------------------------------------------------
(* What follows for the workers and the switch                                  *)

LEMMA StepsOfAll ==
  ASSUME SessionInv
  PROVE  \A w \in Workers : /\ step[w] \in 1 .. 5 /\ Passed(w) \in Nat
                            /\ step[w] = 5 => Passed(w) = 2
                            /\ Passed(w) >= 1 => step[w] > 1
<1> SUFFICES ASSUME NEW w \in Workers
             PROVE  /\ step[w] \in 1 .. 5 /\ Passed(w) \in Nat
                    /\ step[w] = 5 => Passed(w) = 2
                    /\ Passed(w) >= 1 => step[w] > 1
  OBVIOUS
<1>1. step[w] \in 1 .. 5
  BY DEF SessionInv, Shapes
<1> QED BY <1>1 DEF Passed

LEMMA SessionTypes == SessionInv => TypeOK
<1> SUFFICES ASSUME SessionInv PROVE TypeOK
  OBVIOUS
<1>1. Shapes /\ SyncShapes
  BY DEF SessionInv
<1>2. \A w \in Workers : handler[w] = "barrier" => at[w] \in DOMAIN barrier.ctrs
  BY DEF SessionInv, Local
<1>3. \A w \in Workers : handler[w] = "broadcast" => at[w] \in DOMAIN bcast
  <2> SUFFICES ASSUME NEW w \in Workers, handler[w] = "broadcast"
               PROVE  at[w] \in DOMAIN bcast
    OBVIOUS
  <2>1. at[w] = 1 /\ Len(bcast) = 1 /\ bcast \in Seq(Operation)
    BY <1>1 DEF SessionInv, Local, SyncShapes
  <2> QED BY <2>1
<1>4. /\ phase \in [Workers -> {"created", "starting", "opened", "setup", "exchanged", "rtr",
                                "running", "stopped", "dead", "fatal"}]
      /\ handler \in [Workers -> {"idle", "barrier", "broadcast", "add", "group", "create", "node"}]
  BY <1>1 DEF Shapes, Phases, Handlers, SessionHandlers
<1>5. group.nodes \subseteq Workers /\ barrier.op \in DOMAIN barrier.ctrs
  BY <1>1 DEF SyncShapes
<1> QED BY <1>1, <1>2, <1>3, <1>4, <1>5 DEF TypeOK, Shapes

LEMMA Together == SessionInv => BarriersTogether
<1> SUFFICES ASSUME SessionInv, NEW w \in Workers, NEW v \in Workers,
                    Alive(w), phase[w] # "created"
             PROVE  BarriersPassed(w) <= BarriersReached(v)
  BY DEF BarriersTogether
<1>1. BarriersPassed(w) = Passed(w) /\ BarriersPassed(v) = Passed(v)
  BY BarriersPassedOf DEF SessionInv
<1>2. Passed(w) \in Nat /\ Passed(v) \in Nat
  BY StepsOfAll
<1>3. CASE Killed
  <2>1. phase[w] = "stopped"
    BY <1>3 DEF SessionInv, AfterKill, Alive
  <2>2. inbox # {}
    BY <2>1 DEF SessionInv, Local
  <2>3. step[w] = 5 /\ step[v] = 5
    BY <2>2 DEF SessionInv, Local
  <2>4. Passed(w) = 2 /\ Passed(v) = 2
    BY <2>3, StepsOfAll
  <2> QED BY <1>1, <2>4 DEF BarriersReached
<1>4. CASE ~Killed
  <2>1. Counted(w) = Counted(v)
    BY <1>4 DEF SessionInv, Living, BarrierOk
  <2>2. Passed(w) <= Counted(w)
    BY <1>2 DEF Counted
  <2>3. PICK n \in {0, 1} : n = IF handler[v] = "barrier" THEN 1 ELSE 0
    OBVIOUS
  <2>4. Counted(v) \in Nat /\ Counted(v) <= Passed(v) + n
    BY <1>2, <2>3 DEF Counted, Behind
  <2>5. Passed(w) <= Passed(v) + n
    BY <1>2, <2>1, <2>2, <2>4
  <2> QED BY <1>1, <2>3, <2>5 DEF BarriersReached
<1> QED BY <1>3, <1>4

\* The synchronisation service keeps its promises to any number of workers: a
\* barrier returns to all together, and a broadcast gives everyone the value of
\* this run, whatever runs, kills and resets were before (grpc_server.py).
THEOREM SyncServiceConsistent == Spec => []Consistent
<1>1. SessionInv => SessionAgreed
  BY DEF SessionInv, Local, SessionAgreed
<1>2. SessionInv => Consistent
  BY <1>1, SessionTypes, Together DEF Consistent
<1> QED BY <1>2, SessionInvariant, PTL

LEMMA AllPast ==
  ASSUME SessionInv, NEW w \in Workers, step[w] = 5
  PROVE  \A v \in Workers : step[v] > 1 /\ Fit(v)
<1> SUFFICES ASSUME NEW v \in Workers PROVE step[v] > 1 /\ Fit(v)
  OBVIOUS
<1>1. Passed(w) = 2 /\ Passed(w) <= Passed(v) + 1 /\ Passed(v) \in Nat
  BY StepsOfAll DEF SessionInv, StepsClose
<1>2. Passed(v) >= 1
  BY <1>1
<1>3. step[v] > 1
  BY <1>2, StepsOfAll
<1> QED BY <1>3 DEF SessionInv, Local

\* One rank that cannot start keeps every rank from sending: the barrier after
\* the broadcast is only passed when all arrived, and those that arrive are fit.
THEOREM NobodySendsUnlessAllFit == Spec => []NobodySendsWithoutAll
<1>1. SessionInv => NobodySendsWithoutAll
  <2> SUFFICES ASSUME SessionInv, NEW w \in Workers, phase[w] = "running" \/ slot[w] = run
               PROVE  \A v \in Workers : Fit(v)
    BY DEF NobodySendsWithoutAll
  <2>1. step[w] = 5
    BY DEF SessionInv, Local
  <2> QED BY <2>1, AllPast
<1> QED BY <1>1, SessionInvariant, PTL

\* When the forwarder knows all the workers, no call to the controller aborts a
\* worker that is in order: the list of broadcasts has one entry to remove at
\* most, and only the root ever creates the multicast group.
THEOREM FitWorkersAreNotAborted == Spec => []NobodyAborts
<1>1. SessionInv => NobodyAborts
  BY DEF SessionInv, Local, NobodyAborts
<1> QED BY <1>1, SessionInvariant, PTL

LEMMA SwitchKnows == SessionInv => SwitchKnowsAll
<1> SUFFICES ASSUME SessionInv, known = Workers, NEW w \in Workers, phase[w] = "running"
             PROVE  table = Workers /\ group.nodes = Workers
  BY DEF SwitchKnowsAll
<1>1. ~Killed /\ step[w] = 5 /\ handler[w] = "idle"
  <2>1. Local(w) /\ handler[w] \in Handlers /\ ~Killed
    BY DEF SessionInv, Shapes, AfterKill
  <2> QED BY <2>1 DEF Local
<1>2. SwitchOk /\ BarrierOk
  BY <1>1 DEF SessionInv, Living
<1>3. Counted(w) = 2
  <2>1. ~Behind(w) /\ Passed(w) = 2
    BY <1>1, StepsOfAll DEF Behind
  <2> QED BY <2>1 DEF Counted
<1>4. \A v \in Workers : PastSession(v)
  <2> SUFFICES ASSUME NEW v \in Workers PROVE PastSession(v)
    OBVIOUS
  <2>1. Counted(v) = 2 /\ step[v] \in 1 .. 5 /\ Local(v)
    BY <1>2, <1>3, StepsOfAll DEF BarrierOk, SessionInv
  <2>2. Behind(v) => step[v] \in BarrierSteps(v)
    BY <2>1 DEF Local, Behind
  <2>3. CASE v = Root
    BY <2>1, <2>2, <2>3 DEF Counted, Passed, BarrierSteps, PastSession, SessionStep
  <2>4. CASE v # Root
    BY <2>1, <2>2, <2>4 DEF Counted, Passed, BarrierSteps, PastSession, SessionStep
  <2> QED BY <2>3, <2>4
<1>5. \A v \in Workers : v \in table /\ v \in group.nodes
  BY <1>2, <1>4 DEF SwitchOk
<1>6. table \subseteq Workers /\ group.nodes \subseteq Workers
  BY DEF SessionInv, Shapes, SyncShapes
<1> QED BY <1>5, <1>6

LEMMA SwitchClean == SessionInv => NoLeftovers
<1> SUFFICES ASSUME SessionInv, NEW w \in Workers, NEW v \in Workers, phase[v] = "running"
             PROVE  slot[w] \in {0, run}
  BY DEF NoLeftovers
<1>1. ~Killed /\ step[v] = 5
  BY DEF SessionInv, Local, AfterKill
<1>2. Root \in Workers /\ step[Root] >= 3
  <2>1. v # Root => step[Root] >= 3
    BY <1>1, RootIsWorker
  <2> QED BY <1>1, <2>1, RootIsWorker
<1>3. SwitchOk
  BY <1>1 DEF SessionInv, Living
<1> QED BY <1>2, <1>3 DEF SwitchOk

\* The switch that a running worker sends to has all workers in its table and in
\* its group, nothing of an earlier run in its slots, and answers only those that
\* can receive: two barriers stand between its clearing and the first packet.
THEOREM SwitchIsReady == Spec => []SwitchReady
<1>1. SessionInv => ResultsFindReceivers
  <2> SUFFICES ASSUME SessionInv, NEW w \in inbox
               PROVE  phase[w] \in {"running", "stopped", "dead"}
    BY DEF ResultsFindReceivers
  <2>1. w \in Workers /\ inbox # {}
    BY DEF SessionInv, Shapes
  <2> QED BY <2>1 DEF SessionInv, Local
<1>2. SessionInv => SwitchReady
  BY <1>1, SwitchKnows, SwitchClean DEF SwitchReady
<1> QED BY <1>2, SessionInvariant, PTL

-----------------------------------------------------------------------------
(* What the threads of a worker compute for themselves (WorkerLayout)           *)

LEMMA DivisionOf ==
  ASSUME NEW n \in Nat, NEW k \in Nat, k > 0
  PROVE  n = (n \div k) * k + (n % k) /\ n % k \in 0 .. k - 1 /\ n \div k \in Nat
<1>1. n % k \in 0 .. k - 1
  OBVIOUS
<1>2. n \div k \in Nat
  OBVIOUS
<1>3. n = (n \div k) * k + (n % k)
  OBVIOUS
<1> QED BY <1>1, <1>2, <1>3

LEMMA MultipleIn ==
  ASSUME NEW a \in Nat, NEW b \in Nat, NEW u \in Nat \ {0}
  PROVE  a * u \in Nat /\ (a < b => a * u + u <= b * u) /\ (a <= b => a * u <= b * u)
<1>1. a * u \in Nat /\ b * u \in Nat
  OBVIOUS
<1>2. PICK d \in Int : b = a + d
  <2>1. b - a \in Int /\ b = a + (b - a)
    OBVIOUS
  <2> QED BY <2>1
<1>3. b * u = a * u + d * u
  BY <1>2
<1>4. d >= 1 => d * u >= u
  BY <1>2
<1>5. d >= 0 => d * u >= 0
  BY <1>2
<1> QED BY <1>1, <1>2, <1>3, <1>4, <1>5

LEMMA Quotient ==
  ASSUME NEW q \in Nat, NEW u \in Nat \ {0}, NEW r \in 0 .. u - 1
  PROVE  (q * u + r) \div u = q
<1>1. PICK n \in Nat : n = q * u + r
  <2>1. q * u \in Nat
    BY MultipleIn
  <2> QED BY <2>1
<1>2. PICK d \in Nat, m \in 0 .. u - 1 : d = n \div u /\ m = n % u /\ n = d * u + m
  BY DivisionOf
<1>3. ASSUME d < q PROVE FALSE
  <2>1. d * u + u <= q * u /\ d * u \in Nat /\ q * u \in Nat
    BY <1>3, MultipleIn
  <2> QED BY <1>1, <1>2, <2>1
<1>4. ASSUME q < d PROVE FALSE
  <2>1. q * u + u <= d * u /\ d * u \in Nat /\ q * u \in Nat
    BY <1>4, MultipleIn
  <2> QED BY <1>1, <1>2, <2>1
<1> QED BY <1>1, <1>2, <1>3, <1>4

LEMMA Exact ==
  ASSUME NEW q \in Nat, NEW u \in Nat \ {0}
  PROVE  (q * u) \div u = q
<1>1. 0 \in 0 .. u - 1 /\ q * u \in Nat
  BY MultipleIn
<1>2. (q * u + 0) \div u = q
  BY <1>1, Quotient
<1> QED BY <1>1, <1>2

\* The parts of equal width that a range is cut into.
Part(width, i) == i * width .. i * width + width - 1

LEMMA Parts ==
  ASSUME NEW width \in Nat \ {0}, NEW count \in Nat
  PROVE  /\ \A i, j \in 0 .. count - 1 : i # j => Part(width, i) \cap Part(width, j) = {}
         /\ \A i \in 0 .. count - 1 : Part(width, i) \subseteq 0 .. count * width - 1
         /\ \A x \in 0 .. count * width - 1 :
              x \div width \in 0 .. count - 1 /\ x \in Part(width, x \div width)
         /\ \A i \in 0 .. count - 1 : \A x \in Part(width, i) : x \div width = i
         /\ UNION {Part(width, i) : i \in 0 .. count - 1} = 0 .. count * width - 1
<1>1. ASSUME NEW i \in 0 .. count - 1, NEW x \in Part(width, i)
      PROVE  x \div width = i /\ x \in 0 .. count * width - 1
  <2>1. i \in Nat /\ i * width \in Nat /\ i * width + width <= count * width /\ count * width \in Nat
    BY MultipleIn
  <2>2. PICK r \in 0 .. width - 1 : x = i * width + r
    <3>1. x \in Nat /\ x - i * width \in 0 .. width - 1 /\ x = i * width + (x - i * width)
      BY <1>1, <2>1 DEF Part
    <3> QED BY <3>1
  <2> QED BY <2>1, <2>2, Quotient
<1>2. ASSUME NEW x \in 0 .. count * width - 1
      PROVE  x \div width \in 0 .. count - 1 /\ x \in Part(width, x \div width)
  <2>1. count * width \in Nat
    BY MultipleIn
  <2>2. x \in Nat /\ x < count * width
    BY <2>1
  <2>3. PICK d \in Nat, m \in 0 .. width - 1 : d = x \div width /\ x = d * width + m
    BY <2>2, DivisionOf
  <2>4. ~(count <= d)
    <3> SUFFICES ASSUME count <= d PROVE FALSE
      OBVIOUS
    <3>1. count * width <= d * width /\ d * width \in Nat
      BY MultipleIn
    <3> QED BY <2>1, <2>2, <2>3, <3>1
  <2>5. d * width \in Nat
    BY MultipleIn
  <2> QED BY <2>3, <2>4, <2>5 DEF Part
<1> QED BY <1>1, <1>2

LEMMA Rounded ==
  ASSUME NEW n \in Nat \ {0}, NEW unit \in Nat \ {0}, NEW count \in Nat \ {0}
  PROVE  \E m \in Nat \ {0} : RoundTo(n, unit, count) = m * unit
<1>1. CASE n % unit = 0
  <2>1. PICK d \in Nat : d = n \div unit /\ n = d * unit + (n % unit)
    BY DivisionOf
  <2>2. d * unit \in Nat /\ n = d * unit
    BY <1>1, <2>1, MultipleIn
  <2>3. d # 0
    BY <2>2
  <2> QED BY <1>1, <2>1, <2>2, <2>3 DEF RoundTo
<1>2. CASE n % unit # 0
  <2>1. RoundTo(n, unit, count) = count * unit \/ RoundTo(n, unit, count) = (count + 1) * unit
    BY <1>2 DEF RoundTo
  <2>2. count \in Nat \ {0} /\ count + 1 \in Nat \ {0}
    OBVIOUS
  <2> QED BY <2>1, <2>2
<1> QED BY <1>1, <1>2

\* A worker's layout: per thread so many messages of so many packets each.
Layout(d, msgs, pkts) ==
  /\ msgs \in Nat \ {0} /\ pkts \in Nat \ {0}
  /\ d.num_worker_threads \in Nat \ {0} /\ d.packet_numel \in Nat \ {0}
  /\ d.max_outstanding_packets = (msgs * d.num_worker_threads) * pkts
  /\ d.backend = "rdma" => d.msg_numel = pkts * d.packet_numel /\ PacketsPerMessage(d) = pkts
  /\ d.backend # "rdma" => pkts = 1

\* Config::Validate gives every thread whole messages, and at least one.
LEMMA ValidLayout ==
  ASSUME NEW c \in ConfigType, ~Fatal(c)
  PROVE  \E msgs, pkts : Layout(Validated(c), msgs, pkts)
<1>1. PICK t \in Nat \ {0}, p \in Nat \ {0}, n \in Nat, m \in Nat :
        /\ t = c.num_worker_threads /\ p = c.packet_numel
        /\ n = c.max_outstanding_packets /\ m = c.msg_numel
  BY DEF ConfigType
<1>2. n \div t \in Nat \ {0} /\ n # 0
  <2>1. n \div t \in Nat /\ n = (n \div t) * t + (n % t) /\ n % t \in 0 .. t - 1
    BY DivisionOf
  <2>2. n \div t # 0
    BY <1>1 DEF Fatal
  <2>3. (n \div t) * t # 0
    BY <2>1, <2>2
  <2>4. (n \div t) * t \in Nat
    BY <2>1
  <2> QED BY <2>1, <2>2, <2>3, <2>4
<1>3. PICK a \in Nat \ {0} : RoundTo(n, t, n \div t) = a * t
  BY <1>2, Rounded
<1>4. PICK divided : divided = [c EXCEPT !.max_outstanding_packets = a * t]
  OBVIOUS
<1>5. /\ divided = [c EXCEPT !.max_outstanding_packets =
                      RoundTo(@, c.num_worker_threads, @ \div c.num_worker_threads)]
      /\ divided.max_outstanding_packets = a * t /\ divided.backend = c.backend
      /\ divided.num_worker_threads = t /\ divided.packet_numel = p
  BY <1>1, <1>3, <1>4 DEF ConfigType
<1>6. CASE c.backend # "rdma"
  <2>1. Validated(c) = divided
    BY <1>5, <1>6 DEF Validated
  <2>2. Layout(divided, a, 1)
    BY <1>5, <1>6 DEF Layout
  <2> QED BY <2>1, <2>2
<1>7. CASE c.backend = "rdma"
  <2>1. PICK k \in Nat \ {0} : k = PacketsPerMessage(c)
    <3>1. m \div p \in Nat /\ m = (m \div p) * p + (m % p) /\ m % p \in 0 .. p - 1
      BY DivisionOf
    <3>2. ~(m < p)
      BY <1>1, <1>7 DEF Fatal
    <3>3. m \div p # 0
      BY <3>1, <3>2
    <3> QED BY <1>1, <3>1, <3>3 DEF PacketsPerMessage
  <2>2. PICK unit \in Nat \ {0} : unit = t * k
    <3>1. t * k \in Nat /\ t * k # 0
      OBVIOUS
    <3> QED BY <3>1
  <2>3. a * t \in Nat \ {0}
    OBVIOUS
  <2>4. PICK count \in Nat \ {0} : count = Max({1, (a * t) \div unit})
    <3>1. PICK x \in Nat : x = (a * t) \div unit
      BY <2>3, DivisionOf
    <3>2. PICK y \in {1, x} : \A z \in {1, x} : y >= z
      <4>1. x >= 1 \/ 1 >= x
        OBVIOUS
      <4> QED BY <4>1
    <3>3. Max({1, x}) \in {1, x} /\ \A z \in {1, x} : Max({1, x}) >= z
      BY <3>2 DEF Max
    <3> QED BY <3>1, <3>3
  <2>5. PICK b \in Nat \ {0} : RoundTo(a * t, unit, count) = b * unit
    BY <2>3, Rounded
  <2>6. PICK valid : valid = [divided EXCEPT !.msg_numel = k * p, !.max_outstanding_packets = b * unit]
    OBVIOUS
  <2>7. Validated(c) = valid
    BY <1>1, <1>5, <1>7, <2>1, <2>2, <2>4, <2>5, <2>6 DEF Validated
  <2>8. /\ valid.msg_numel = k * p /\ valid.max_outstanding_packets = b * unit
        /\ valid.backend = "rdma" /\ valid.num_worker_threads = t /\ valid.packet_numel = p
    BY <1>4, <1>5, <1>7, <2>6 DEF ConfigType
  <2>9. PacketsPerMessage(valid) = k
    BY <2>8, Exact DEF PacketsPerMessage
  <2>10. b * unit = (b * t) * k
    BY <2>2
  <2>11. Layout(valid, b, k)
    BY <2>8, <2>9, <2>10 DEF Layout
  <2> QED BY <2>7, <2>11
<1> QED BY <1>6, <1>7

\* The parts that a part is cut into.
LEMMA SubParts ==
  ASSUME NEW width \in Nat \ {0}, NEW n \in Nat \ {0}, NEW i \in Nat
  PROVE  UNION {Part(width, n * i + q) : q \in 0 .. n - 1} = Part(n * width, i)
<1>1. PICK base \in Nat : base = i * (n * width)
  BY MultipleIn
<1>2. PICK all \in Nat : all = n * width
  BY MultipleIn
<1>3. \A q \in 0 .. n - 1 : /\ q * width \in Nat /\ q * width + width <= all
                            /\ (n * i + q) * width = base + q * width
  <2> SUFFICES ASSUME NEW q \in 0 .. n - 1
               PROVE  /\ q * width \in Nat /\ q * width + width <= all
                      /\ (n * i + q) * width = base + q * width
    OBVIOUS
  <2>1. q * width \in Nat /\ q * width + width <= all
    BY <1>2, MultipleIn
  <2>2. (n * i + q) * width = (n * i) * width + q * width
    OBVIOUS
  <2>3. (n * i) * width = base
    BY <1>1
  <2> QED BY <2>1, <2>2, <2>3
<1>4. ASSUME NEW q \in 0 .. n - 1, NEW x \in Part(width, n * i + q)
      PROVE  x \in Part(n * width, i)
  <2>1. x \in base + q * width .. base + q * width + width - 1
    BY <1>3 DEF Part
  <2>2. x \in base .. base + all - 1
    BY <1>3, <2>1
  <2> QED BY <1>1, <1>2, <2>2 DEF Part
<1>5. ASSUME NEW x \in Part(n * width, i)
      PROVE  \E q \in 0 .. n - 1 : x \in Part(width, n * i + q)
  <2>1. x \in base .. base + all - 1
    BY <1>1, <1>2 DEF Part
  <2>2. PICK y \in 0 .. n * width - 1 : x = base + y
    <3>1. x - base \in 0 .. n * width - 1 /\ x = base + (x - base)
      BY <1>2, <2>1
    <3> QED BY <3>1
  <2>3. PICK q \in 0 .. n - 1 : y \in Part(width, q)
    BY Parts
  <2>4. y \in q * width .. q * width + width - 1
    BY <2>3 DEF Part
  <2>5. x \in (n * i + q) * width .. (n * i + q) * width + width - 1
    BY <1>3, <2>2, <2>4
  <2> QED BY <2>5 DEF Part
<1> QED BY <1>4, <1>5

LEMMA LayoutQueuePairs ==
  ASSUME NEW d, NEW msgs, NEW pkts, Layout(d, msgs, pkts), d.backend = "rdma"
  PROVE  /\ NumQueuePairs(d) = d.num_worker_threads * msgs /\ QueuePairsPerThread(d) = msgs
         /\ \A t \in Nat : ThreadQueuePairs(d, t) = Part(msgs, t)
         /\ \A i : CompletionQueue(d, i) = i \div msgs
<1>1. PICK t \in Nat \ {0} : t = d.num_worker_threads
  BY DEF Layout
<1>2. msgs \in Nat \ {0} /\ pkts \in Nat \ {0} /\ PacketsPerMessage(d) = pkts
      /\ d.max_outstanding_packets = (msgs * t) * pkts
  BY <1>1 DEF Layout
<1>3. PICK n \in Nat : n = msgs * t
  BY <1>2
<1>4. NumQueuePairs(d) = n
  BY <1>2, <1>3, Exact DEF NumQueuePairs
<1>5. QueuePairsPerThread(d) = msgs
  BY <1>1, <1>2, <1>3, <1>4, Exact DEF QueuePairsPerThread
<1>6. n = t * msgs
  BY <1>2, <1>3
<1>7. ASSUME NEW i \in Nat PROVE ThreadQueuePairs(d, i) = Part(msgs, i)
  <2>1. msgs * i = i * msgs /\ i * msgs \in Nat
    BY <1>2
  <2> QED BY <1>5, <2>1 DEF ThreadQueuePairs, Part
<1> QED BY <1>1, <1>4, <1>5, <1>6, <1>7 DEF CompletionQueue

\* The switch has as many slots as its workers count on.
LEMMA LayoutSlots ==
  ASSUME NEW d, NEW msgs, NEW pkts, Layout(d, msgs, pkts), d.backend \in {"rdma", "dpdk"},
         2 * d.max_outstanding_packets <= SlotNumbers
  PROVE  \E width \in Nat \ {0} :
           /\ 2 * d.max_outstanding_packets = d.num_worker_threads * width
           /\ \A t \in 0 .. d.num_worker_threads - 1 : ThreadSlots(d, t) = Part(width, t)
<1>1. PICK T \in Nat \ {0} : T = d.num_worker_threads
  BY DEF Layout
<1>2. msgs \in Nat \ {0} /\ pkts \in Nat \ {0} /\ d.max_outstanding_packets = (msgs * T) * pkts
  BY <1>1 DEF Layout
<1>3. PICK two \in Nat \ {0} : two = 2 * pkts
  BY <1>2
<1>4. PICK width \in Nat \ {0} : width = msgs * two
  <2>1. msgs * two \in Nat /\ msgs * two # 0
    BY <1>2
  <2> QED BY <2>1
<1>5. 2 * d.max_outstanding_packets = T * width
  <2>1. 2 * ((msgs * T) * pkts) = (msgs * T) * (2 * pkts)
    BY <1>2
  <2>2. (msgs * T) * two = T * (msgs * two)
    BY <1>2
  <2> QED BY <1>2, <1>3, <1>4, <2>1, <2>2
<1>6. ASSUME NEW t \in 0 .. T - 1 PROVE ThreadSlots(d, t) = Part(width, t)
  <2>1. CASE d.backend # "rdma"
    <3>1. pkts = 1 /\ width = 2 * msgs /\ d.max_outstanding_packets = msgs * T
      BY <1>2, <1>3, <1>4, <2>1 DEF Layout
    <3>2. d.max_outstanding_packets \div T = msgs
      BY <1>2, <3>1, Exact
    <3>3. PoolIndexStart(d, t) = t * width
      <4>1. PoolIndexStart(d, t) = 2 * msgs * t
        BY <1>1, <3>2 DEF PoolIndexStart
      <4> QED BY <1>2, <3>1, <4>1
    <3> QED BY <1>1, <2>1, <3>1, <3>2, <3>3 DEF ThreadSlots, Part
  <2>2. CASE d.backend = "rdma"
    <3>1. QueuePairsPerThread(d) = msgs /\ PacketsPerMessage(d) = pkts
      BY <2>2, LayoutQueuePairs DEF Layout
    <3>2. ASSUME NEW q \in 0 .. msgs - 1 PROVE MessageSlots(d, t, q) = Part(two, msgs * t + q)
      <4>1. PICK m \in Nat : m = msgs * t + q /\ m < T * msgs
        <5>1. t \in Nat /\ t * msgs \in Nat /\ t * msgs + msgs <= T * msgs /\ T * msgs \in Nat
          BY <1>2, MultipleIn
        <5>2. msgs * t = t * msgs
          BY <1>2
        <5> QED BY <1>2, <5>1, <5>2
      <4>2. m * two \in Nat /\ m * two + two <= (T * msgs) * two /\ T * msgs \in Nat
        BY <1>2, <4>1, MultipleIn
      <4>3. (T * msgs) * two = T * width
        BY <1>2, <1>4
      <4>4. PICK x \in Nat : x = m * two /\ x + two <= SlotNumbers
        BY <1>1, <1>2, <1>5, <4>2, <4>3 DEF SlotNumbers
      <4>5. x + 1 < SlotNumbers /\ SlotNumbers \in Nat
        BY <1>3, <1>2, <4>4 DEF SlotNumbers
      <4>6. (x + 1) % SlotNumbers = x + 1
        BY <4>5
      <4>7. m * pkts * 2 = x
        BY <1>2, <1>3, <4>1, <4>4
      <4>8. PoolIndex(d, t, q) = x + 1
        BY <3>1, <4>1, <4>6, <4>7 DEF PoolIndex
      <4>9. x + 1 - 1 = x
        OBVIOUS
      <4> QED BY <1>3, <3>1, <4>1, <4>4, <4>8, <4>9 DEF MessageSlots, Part
    <3>3. ThreadSlots(d, t) = UNION {Part(two, msgs * t + q) : q \in 0 .. msgs - 1}
      BY <2>2, <3>1, <3>2 DEF ThreadSlots
    <3> QED BY <1>2, <1>4, <3>3, SubParts
  <2> QED BY <2>1, <2>2
<1> QED BY <1>1, <1>5, <1>6

\* The registered region has room for the messages of every thread, in its part.
LEMMA LayoutMemory ==
  ASSUME NEW d, NEW msgs, NEW pkts, Layout(d, msgs, pkts), d.backend = "rdma"
  PROVE  \E part \in Nat, size \in Nat \ {0} :
           /\ size = d.msg_numel * ElementSize /\ msgs * size <= part
           /\ part = MemoryLength(d) \div d.num_worker_threads /\ MemoryLength(d) \in Nat
           /\ d.num_worker_threads * part <= MemoryLength(d)
<1>1. PICK T \in Nat \ {0}, p \in Nat \ {0} : T = d.num_worker_threads /\ p = d.packet_numel
  BY DEF Layout
<1>2. /\ msgs \in Nat \ {0} /\ pkts \in Nat \ {0} /\ d.msg_numel = pkts * p
      /\ d.max_outstanding_packets = (msgs * T) * pkts
  BY <1>1 DEF Layout
<1>3. PICK size \in Nat \ {0} : size = d.msg_numel * ElementSize
  <2>1. pkts * p \in Nat /\ pkts * p # 0
    BY <1>2
  <2> QED BY <1>2, <2>1 DEF ElementSize
<1>4. PICK mine \in Nat : mine = msgs * size
  BY <1>2
<1>5. PICK needed \in Nat : needed = T * mine /\ needed = p * d.max_outstanding_packets * ElementSize
  <2>1. T * mine = T * (msgs * ((pkts * p) * 4))
    BY <1>2, <1>3, <1>4 DEF ElementSize
  <2>2. PICK a \in Nat : a = msgs * T
    BY <1>2
  <2>3. PICK b \in Nat : b = pkts * p
    BY <1>2
  <2>4. T * (msgs * (b * 4)) = (a * b) * 4
    BY <1>2, <2>2
  <2>5. a * (pkts * p) = p * (a * pkts)
    BY <1>2, <2>2
  <2>6. T * mine \in Nat
    OBVIOUS
  <2> QED BY <1>2, <2>1, <2>2, <2>3, <2>4, <2>5, <2>6 DEF ElementSize
<1>6. PICK pages \in Nat : /\ pages = (needed + HugePage - 1) \div HugePage
                           /\ needed <= pages * HugePage /\ pages * HugePage \in Nat
  <2>1. HugePage \in Nat /\ HugePage > 0
    BY HugePageAssumption
  <2>2. PICK n \in Nat : n = needed + HugePage - 1
    BY <2>1
  <2>3. PICK x \in Nat, y \in 0 .. HugePage - 1 : x = n \div HugePage /\ n = x * HugePage + y
    BY <2>1, <2>2, DivisionOf
  <2>4. x * HugePage \in Nat
    BY <2>1
  <2>5. needed <= x * HugePage
    BY <2>1, <2>2, <2>3, <2>4
  <2> QED BY <2>2, <2>3, <2>4, <2>5
<1>7. PICK length \in Nat : length = MemoryLength(d) /\ needed <= length
  BY <1>1, <1>5, <1>6 DEF MemoryLength
<1>8. PICK part \in Nat, rest \in 0 .. T - 1 : part = length \div T /\ length = part * T + rest
  BY DivisionOf
<1>9. mine <= part
  <2> SUFFICES ASSUME part < mine PROVE FALSE
    OBVIOUS
  <2>1. part * T + T <= mine * T /\ part * T \in Nat /\ mine * T \in Nat
    BY MultipleIn
  <2>2. mine * T = T * mine
    OBVIOUS
  <2> QED BY <1>5, <1>7, <1>8, <2>1, <2>2
<1>10. T * part <= length
  <2>1. part * T \in Nat /\ part * T = T * part
    OBVIOUS
  <2> QED BY <1>8, <2>1
<1> QED BY <1>1, <1>3, <1>4, <1>7, <1>8, <1>9, <1>10

LEMMA MessagesApart ==
  ASSUME NEW T \in Nat \ {0}, NEW n \in Nat \ {0}, NEW part \in Nat, NEW size \in Nat \ {0},
         n * size <= part,
         NEW t \in 0 .. T - 1, NEW q \in 0 .. n - 1
  PROVE  /\ t * part + q * size \in Nat /\ t * part + q * size + size - 1 < T * part
         /\ t * part + q * size + size - 1 < t * part + part
         /\ \A r \in 0 .. n - 1 : q < r => t * part + q * size + size - 1 < t * part + r * size
         /\ \A u \in 0 .. T - 1 : \A r \in 0 .. n - 1 :
              t < u => t * part + q * size + size - 1 < u * part + r * size
<1>1. q * size \in Nat /\ q * size + size <= n * size /\ n * size \in Nat
  BY MultipleIn
<1>2. part \in Nat \ {0}
  BY <1>1
<1>3. t * part \in Nat /\ t * part + part <= T * part /\ T * part \in Nat
  BY <1>2, MultipleIn
<1>4. t * part + q * size + size - 1 < t * part + part
  BY <1>1, <1>3
<1>5. ASSUME NEW r \in 0 .. n - 1, q < r
      PROVE  t * part + q * size + size - 1 < t * part + r * size
  <2>1. q * size + size <= r * size /\ r * size \in Nat
    BY <1>5, MultipleIn
  <2> QED BY <1>1, <1>3, <2>1
<1>6. ASSUME NEW u \in 0 .. T - 1, NEW r \in 0 .. n - 1, t < u
      PROVE  t * part + q * size + size - 1 < u * part + r * size
  <2>1. t * part + part <= u * part /\ u * part \in Nat /\ r * size \in Nat
    BY <1>2, <1>6, MultipleIn
  <2> QED BY <1>1, <1>3, <1>4, <2>1
<1> QED BY <1>1, <1>3, <1>4, <1>5, <1>6

\* The bytes of a message of one queue pair.
LEMMA MessageRoom ==
  ASSUME NEW d, NEW msgs, NEW pkts, Layout(d, msgs, pkts), d.backend = "rdma",
         NEW x \in (0 .. d.num_worker_threads - 1) \X (0 .. msgs - 1),
         NEW y \in (0 .. d.num_worker_threads - 1) \X (0 .. msgs - 1)
  PROVE  LET a == MessageBytes(d, x[1], x[2])
             b == MessageBytes(d, y[1], y[2])
         IN  a.last < MemoryLength(d) /\ (x # y => a.last < b.first \/ b.last < a.first)
<1>1. PICK part \in Nat, size \in Nat \ {0} :
        /\ size = d.msg_numel * ElementSize /\ msgs * size <= part
        /\ part = MemoryLength(d) \div d.num_worker_threads /\ MemoryLength(d) \in Nat
        /\ d.num_worker_threads * part <= MemoryLength(d)
  BY LayoutMemory
<1>2. PICK T \in Nat \ {0}, n \in Nat \ {0} : T = d.num_worker_threads /\ n = msgs
  BY DEF Layout
<1>3. PICK t \in 0 .. T - 1, q \in 0 .. n - 1 : t = x[1] /\ q = x[2] /\ x = <<t, q>>
  BY <1>2
<1>4. PICK u \in 0 .. T - 1, r \in 0 .. n - 1 : u = y[1] /\ r = y[2] /\ y = <<u, r>>
  BY <1>2
<1>5. PICK a : a = MessageBytes(d, x[1], x[2])
  OBVIOUS
<1>6. PICK b : b = MessageBytes(d, y[1], y[2])
  OBVIOUS
<1>7. a.first = t * part + q * size /\ a.last = t * part + q * size + size - 1
  BY <1>1, <1>3, <1>5 DEF MessageBytes, ThreadMemory
<1>8. b.first = u * part + r * size /\ b.last = u * part + r * size + size - 1
  BY <1>1, <1>4, <1>6 DEF MessageBytes, ThreadMemory
<1>9. a.last < MemoryLength(d)
  <2>1. t * part + q * size \in Nat /\ t * part + q * size + size - 1 < T * part
    BY <1>1, <1>2, MessagesApart
  <2>2. T * part \in Nat /\ T * part <= MemoryLength(d)
    BY <1>1, <1>2
  <2>3. PICK s \in Nat : s = t * part + q * size
    BY <2>1
  <2> QED BY <1>1, <1>7, <2>1, <2>2, <2>3
<1>10. n * size <= part
  BY <1>1, <1>2
<1>11. t < u => t * part + q * size + size - 1 < u * part + r * size
  BY <1>10, MessagesApart
<1>12. u < t => u * part + r * size + size - 1 < t * part + q * size
  BY <1>10, MessagesApart
<1>13. q < r => t * part + q * size + size - 1 < t * part + r * size
  BY <1>10, MessagesApart
<1>14. r < q => u * part + r * size + size - 1 < u * part + q * size
  BY <1>10, MessagesApart
<1>15. ASSUME x # y PROVE a.last < b.first \/ b.last < a.first
  <2>1. t < u \/ u < t \/ (t = u /\ q < r) \/ (t = u /\ r < q)
    BY <1>3, <1>4, <1>15
  <2>2. CASE t < u \/ u < t
    BY <1>7, <1>8, <1>11, <1>12, <2>2
  <2>3. CASE t = u
    BY <1>7, <1>8, <1>13, <1>14, <2>1, <2>3
  <2> QED BY <2>1, <2>2, <2>3
<1> QED BY <1>5, <1>6, <1>9, <1>15

\* A worker whose threads run has a configuration that Validate accepted.
LEMMA RunningLayout ==
  ASSUME SessionInv, Running
  PROVE  \E msgs, pkts : Layout(Conf, msgs, pkts) /\ Conf.backend \in {"rdma", "dpdk"}
<1>1. PICK w \in Workers : phase[w] = "running"
  BY DEF Running
<1>2. cfg \in Configs /\ cfg \in ConfigType /\ ~Fatal(cfg)
  BY <1>1, SessionAssumption DEF SessionInv, Shapes, Local, Fit
<1>3. PICK msgs, pkts : Layout(Conf, msgs, pkts)
  BY <1>2, ValidLayout DEF Conf
<1>4. Conf.backend = cfg.backend
  BY <1>2 DEF Conf, Validated, ConfigType
<1> QED BY <1>2, <1>3, <1>4 DEF ConfigType

\* The threads of a worker share no slot, no queue pair and no byte, and leave
\* nothing over, though each computes its part from its own id alone: for every
\* configuration whose slots have numbers of 16 bits, which Validate never checks.
THEOREM ThreadsPartitionWhatTheyHave ==
  ASSUME \A c \in Configs : 2 * Validated(c).max_outstanding_packets <= SlotNumbers
  PROVE  Spec => []ThreadsPartition
<1>1. ASSUME SessionInv, Running PROVE ThreadsShareNothing /\ ThreadsShareEvenly
  <2>1. PICK msgs, pkts : Layout(Conf, msgs, pkts) /\ Conf.backend \in {"rdma", "dpdk"}
    BY <1>1, RunningLayout
  <2>2. PICK d : d = Conf
    OBVIOUS
  <2>3. 2 * d.max_outstanding_packets <= SlotNumbers
    BY <1>1, <2>2 DEF SessionInv, Shapes, Conf
  <2>4. Layout(d, msgs, pkts) /\ d.backend \in {"rdma", "dpdk"}
    BY <2>1, <2>2
  <2>5. PICK width \in Nat \ {0} :
          /\ 2 * d.max_outstanding_packets = d.num_worker_threads * width
          /\ \A t \in 0 .. d.num_worker_threads - 1 : ThreadSlots(d, t) = Part(width, t)
    BY <2>3, <2>4, LayoutSlots
  <2>6. PICK T \in Nat \ {0} : T = d.num_worker_threads
    BY <2>4 DEF Layout
  <2>7. Threads = 0 .. T - 1
    BY <2>2, <2>6 DEF Threads
  <2>8. /\ \A t \in 0 .. T - 1 : ThreadSlots(d, t) = Part(width, t)
        /\ 2 * d.max_outstanding_packets = T * width
    BY <2>5, <2>6
  <2>9. /\ \A t, u \in 0 .. T - 1 : t # u => Part(width, t) \cap Part(width, u) = {}
        /\ \A t \in 0 .. T - 1 : Part(width, t) \subseteq 0 .. T * width - 1
        /\ UNION {Part(width, t) : t \in 0 .. T - 1} = 0 .. T * width - 1
    BY Parts
  <2>10. /\ \A t, u \in 0 .. T - 1 : t # u => ThreadSlots(d, t) \cap ThreadSlots(d, u) = {}
         /\ \A t \in 0 .. T - 1 : ThreadSlots(d, t) \subseteq 0 .. 2 * d.max_outstanding_packets - 1
    BY <2>8, <2>9
  <2>11. UNION {ThreadSlots(d, t) : t \in 0 .. T - 1} = 0 .. 2 * d.max_outstanding_packets - 1
    <3>1. {ThreadSlots(d, t) : t \in 0 .. T - 1} = {Part(width, t) : t \in 0 .. T - 1}
      BY <2>8
    <3> QED BY <2>8, <2>9, <3>1
  <2>12. ASSUME d.backend = "rdma"
         PROVE  /\ QueuePairsPerThread(d) =
                     (d.max_outstanding_packets \div PacketsPerMessage(d)) \div d.num_worker_threads
                /\ QueuePairsPerThread(d) >= 1
                /\ UNION {ThreadQueuePairs(d, t) : t \in 0 .. T - 1} = 0 .. NumQueuePairs(d) - 1
                /\ \A t \in 0 .. T - 1 : \A i \in ThreadQueuePairs(d, t) : CompletionQueue(d, i) = t
    <3>1. /\ NumQueuePairs(d) = T * msgs /\ QueuePairsPerThread(d) = msgs
          /\ \A t \in Nat : ThreadQueuePairs(d, t) = Part(msgs, t)
          /\ \A i : CompletionQueue(d, i) = i \div msgs
      BY <2>4, <2>6, <2>12, LayoutQueuePairs
    <3>2. msgs \in Nat \ {0}
      BY <2>4 DEF Layout
    <3>3. /\ \A t \in 0 .. T - 1 : \A i \in Part(msgs, t) : i \div msgs = t
          /\ UNION {Part(msgs, t) : t \in 0 .. T - 1} = 0 .. T * msgs - 1
      BY <3>2, Parts
    <3>4. \A t \in 0 .. T - 1 : ThreadQueuePairs(d, t) = Part(msgs, t)
      BY <3>1
    <3>5. {ThreadQueuePairs(d, t) : t \in 0 .. T - 1} = {Part(msgs, t) : t \in 0 .. T - 1}
      BY <3>4
    <3>6. QueuePairsPerThread(d) =
            (d.max_outstanding_packets \div PacketsPerMessage(d)) \div d.num_worker_threads
      BY DEF QueuePairsPerThread, NumQueuePairs
    <3>7. QueuePairsPerThread(d) >= 1
      BY <3>1, <3>2
    <3>8. UNION {ThreadQueuePairs(d, t) : t \in 0 .. T - 1} = 0 .. NumQueuePairs(d) - 1
      BY <3>1, <3>3, <3>5
    <3>9. \A t \in 0 .. T - 1 : \A i \in ThreadQueuePairs(d, t) : CompletionQueue(d, i) = t
      BY <3>1, <3>3, <3>4
    <3> QED BY <3>6, <3>7, <3>8, <3>9
  <2>13. ASSUME d.backend = "rdma"
         PROVE  \A x, y \in (0 .. T - 1) \X OwnQueuePairs :
                  LET a == MessageBytes(d, x[1], x[2])
                      b == MessageBytes(d, y[1], y[2])
                  IN  a.last < MemoryLength(d) /\ (x # y => a.last < b.first \/ b.last < a.first)
    <3>1. OwnQueuePairs = 0 .. msgs - 1
      BY <2>2, <2>4, <2>13, LayoutQueuePairs DEF OwnQueuePairs
    <3> QED BY <2>4, <2>6, <2>13, <3>1, MessageRoom
  <2>14. ThreadsShareNothing
    BY <2>2, <2>7, <2>10, <2>13 DEF ThreadsShareNothing
  <2>15. ThreadsShareEvenly
    BY <2>2, <2>7, <2>11, <2>12 DEF ThreadsShareEvenly
  <2> QED BY <2>14, <2>15
<1>2. SessionInv => ThreadsPartition
  BY <1>1 DEF ThreadsPartition, ThreadsShareNothing, ThreadsShareEvenly
<1> QED BY <1>2, SessionInvariant, PTL

=============================================================================
