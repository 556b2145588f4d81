------------------------------ MODULE SessionSetup ------------------------------
(* How the workers of a session start: every worker's context sets its backend *)
(* up, and the backends meet at the controller, which has a broadcast and a    *)
(* barrier for all of them and fills the tables of the switch one worker at a  *)
(* time. Then each sends, the switch aggregates, and they stop. The program is *)
(* run again after that, or after all its processes were killed at any point,  *)
(* in which case the operator resets the controller from its command line.     *)
EXTENDS WorkerLayout, Sequences, Functions

CONSTANTS Files,       \* the configuration files, the same for every rank
          Hosts,       \* the machines that a rank may be started on
          Runs,        \* how often the program is run
          MaxKills     \* how often it is killed

\* file: one of the paths that are searched has the configuration file; devices:
\* the names of the verbs devices, each with so many ports, and their GIDs.
HostType == [file : BOOLEAN, devices : SUBSET STRING, ports : Nat, gids : SUBSET Nat]

Configs == {LoadFromFile(f) : f \in Files}

ASSUME SessionAssumption ==
  /\ \A c \in Configs : c \in ConfigType
  /\ \A h \in Hosts : h \in HostType
  /\ Runs \in Nat \ {0} /\ MaxKills \in Nat

VARIABLES
  cfg,        \* the configuration that was read
  host,       \* the machine of each rank
  known,      \* the ranks whose MAC address the forwarder knows the port of
  run, kills,
  reset,      \* what the operator has left to do: "none", "tables" or "sync"
  \* the workers
  phase,      \* how far each worker is
  step,       \* the next call of its script to the controller
  session,    \* the session id it was told
  accepted,   \* its session request was answered, with something other than zeros
  \* the controller
  handler,    \* where the call of each worker is: "idle" when it is not there yet
  at,         \* the barrier operation or broadcast entry it waits for
  barrier,    \* operation id, counters and released operations of Barrier
  bcast,      \* the pending broadcast operations
  \* the switch
  table,      \* the ranks in the receiver and sender tables
  group,      \* the multicast group
  slot,       \* the run whose contribution of each rank a slot holds, or 0
  inbox       \* the ranks a result was sent to

cluster == <<cfg, host, known, run, kills, reset>>
workerVars == <<phase, step, session, accepted>>
sync == <<handler, at, barrier, bcast>>
switch == <<table, group, slot, inbox>>
vars == <<cluster, workerVars, sync, switch>>

Workers == 0 .. cfg.num_workers - 1
Root == 0

Conf == Validated(cfg)

NoGroup == [present |-> FALSE, nodes |-> {}]

-----------------------------------------------------------------------------
(* The calls a backend makes to the controller, in order.                       *)

\* (Broken on purpose: everyone asks at once, so the clearing comes when it may.)
ExchangeAtOnceBug(w) == <<"Broadcast", "RdmaSession", "Barrier", "Barrier">>

\* (Broken on purpose: as if the broadcast of the root waited for everyone.)
ExchangeNoBarrierBug(w) == <<"Broadcast", "RdmaSession">>

\* RdmaConnection::ExchangeConnectionInfo.
ExchangeConnectionInfo(w) ==
  IF w = Root THEN <<"Broadcast", "RdmaSession", "Barrier", "Barrier">>
  ELSE <<"Broadcast", "Barrier", "RdmaSession", "Barrier">>

\* DpdkBackend::SetupSwitch.
SetupSwitch(w) ==
  IF w = Root THEN <<"Broadcast", "UdpSession", "Barrier", "Barrier">>
  ELSE <<"Broadcast", "Barrier", "UdpSession", "Barrier">>

Script(w) == IF cfg.backend = "rdma" THEN ExchangeConnectionInfo(w) ELSE SetupSwitch(w)

Calls(w, call) ==
  phase[w] = "setup" /\ step[w] \in DOMAIN Script(w) /\ Script(w)[step[w]] = call

CallsSession(w) == Calls(w, "RdmaSession") \/ Calls(w, "UdpSession")

Answered(w) == step' = [step EXCEPT ![w] = @ + 1]

\* The client checks the status of every call and aborts when it failed.
CallFailed(w) == phase' = [phase EXCEPT ![w] = "fatal"]

-----------------------------------------------------------------------------
FirstBarrier == [op |-> 0, ctrs |-> [o \in {0} |-> 0], released |-> {}]

Fresh(value) == [w \in Workers |-> value]

Init ==
  /\ cfg \in Configs
  /\ host \in [Workers -> Hosts] /\ known \in SUBSET Workers
  /\ run = 1 /\ kills = 0 /\ reset = "none"
  /\ phase = Fresh("created") /\ step = Fresh(1)
  /\ session = Fresh(0) /\ accepted = Fresh(FALSE)
  /\ handler = Fresh("idle") /\ at = Fresh(0)
  /\ barrier = FirstBarrier /\ bcast = <<>>
  /\ table = {} /\ group = NoGroup /\ slot = Fresh(0) /\ inbox = {}

(* Context::Start: reads and validates the configuration, sets the backend up.  *)
Start(w) ==
  /\ phase[w] = "created"
  /\ phase' = [phase EXCEPT ![w] =
                 IF Fatal(cfg) \/ ~host[w].file THEN "fatal" ELSE "starting"]
  /\ UNCHANGED <<cluster, step, session, accepted, sync, switch>>

(* RdmaEndpoint: the device that is named, or the only one, with its port and   *)
(* GID; the program ends when there is none.                                    *)
HasEndpoint(w) ==
  /\ Cardinality(host[w].devices) = 1 \/ cfg.device_name \in host[w].devices
  /\ cfg.device_port_id \in 1 .. host[w].ports
  /\ cfg.gid_index \in host[w].gids

OpenEndpoint(w) ==
  /\ cfg.backend = "rdma" /\ phase[w] = "starting"
  /\ phase' = [phase EXCEPT ![w] = IF HasEndpoint(w) THEN "opened" ELSE "fatal"]
  /\ UNCHANGED <<cluster, step, session, accepted, sync, switch>>

(* RdmaConnection::InitializeQueuePairs: the queue pairs go to INIT.            *)
InitializeQueuePairs(w) ==
  /\ phase[w] = "opened"
  /\ phase' = [phase EXCEPT ![w] = "setup"]
  /\ UNCHANGED <<cluster, step, session, accepted, sync, switch>>

(* The DPDK master thread: one core per worker thread, or it ends the program.  *)
MasterThread(w) ==
  /\ cfg.backend = "dpdk" /\ phase[w] = "starting"
  /\ phase' = [phase EXCEPT ![w] =
                 IF cfg.cores # cfg.num_worker_threads THEN "fatal" ELSE "setup"]
  /\ UNCHANGED <<cluster, step, session, accepted, sync, switch>>

-----------------------------------------------------------------------------
(* The synchronisation service. A handler runs without interruption on the     *)
(* event loop up to an await; the calls of a dead client are cancelled there.  *)

\* The barrier after its last caller: the next operation has its own counter.
Completed(b) ==
  [op |-> b.op + 1,
   ctrs |-> [o \in DOMAIN b.ctrs \union {b.op + 1} |->
               IF o = b.op + 1 THEN 0 ELSE b.ctrs[o]],
   released |-> b.released \union {b.op}]

BarrierArrive(w) ==
  /\ Calls(w, "Barrier") /\ handler[w] = "idle"
  /\ IF barrier.ctrs[barrier.op] + 1 < cfg.num_workers
     THEN /\ barrier' = [barrier EXCEPT !.ctrs[barrier.op] = @ + 1]
          /\ handler' = [handler EXCEPT ![w] = "barrier"]
          /\ at' = [at EXCEPT ![w] = barrier.op]
          /\ UNCHANGED step
     ELSE /\ barrier' = Completed(barrier)   \* counted and uncounted again
          /\ Answered(w)
          /\ UNCHANGED <<handler, at>>
  /\ UNCHANGED <<cluster, phase, session, accepted, bcast, switch>>

\* A waiter that was released; the last one deletes the operation.
BarrierWake(w) ==
  /\ phase[w] = "setup" /\ handler[w] = "barrier" /\ at[w] \in barrier.released
  /\ LET left == barrier.ctrs[at[w]] - 1
     IN  barrier' =
           IF left = 0
           THEN [barrier EXCEPT !.ctrs = Restrict(@, DOMAIN @ \ {at[w]}),
                                !.released = @ \ {at[w]}]
           ELSE [barrier EXCEPT !.ctrs[at[w]] = left]
  /\ handler' = [handler EXCEPT ![w] = "idle"]
  /\ Answered(w)
  /\ UNCHANGED <<cluster, phase, session, accepted, at, bcast, switch>>

\* An operation of the broadcast list that all its workers have got.
AllGot(b) == b.got = Workers

(* The loop that removes old operations runs over the length the list had at    *)
(* first: it fails when anything but the last entry is removed.                 *)
CleaningFails(list) == \E i \in 1 .. Len(list) - 1 : AllGot(list[i])

Cleaned(list) ==
  IF list # <<>> /\ AllGot(list[Len(list)]) THEN SubSeq(list, 1, Len(list) - 1) ELSE list

\* The first operation that rank w has not got, or a new one at the end.
EntryFor(w, list) ==
  LET open == {i \in 1 .. Len(list) : w \notin list[i].got}
  IN  IF open = {} THEN Len(list) + 1 ELSE Min(open)

BroadcastCall(w) ==
  /\ Calls(w, "Broadcast") /\ handler[w] = "idle"
  /\ IF CleaningFails(bcast)
     THEN CallFailed(w) /\ UNCHANGED <<step, session, handler, at, bcast>>
     ELSE
       LET list == Cleaned(bcast)
           i == EntryFor(w, list)
           open == IF i > Len(list) THEN Append(list, [got |-> {}, value |-> 0]) ELSE list
           value == IF w = Root THEN run ELSE open[i].value
       IN  /\ IF value = 0
              THEN /\ bcast' = open
                   /\ handler' = [handler EXCEPT ![w] = "broadcast"]
                   /\ at' = [at EXCEPT ![w] = i]
                   /\ UNCHANGED <<step, session>>
              ELSE /\ bcast' = [open EXCEPT ![i] =
                                  [got |-> @.got \union {w}, value |-> value]]
                   /\ session' = [session EXCEPT ![w] = value]
                   /\ Answered(w)
                   /\ UNCHANGED <<handler, at>>
           /\ UNCHANGED phase
  /\ UNCHANGED <<cluster, accepted, barrier, switch>>

BroadcastWake(w) ==
  /\ phase[w] = "setup" /\ handler[w] = "broadcast" /\ bcast[at[w]].value # 0
  /\ bcast' = [bcast EXCEPT ![at[w]].got = @ \union {w}]
  /\ session' = [session EXCEPT ![w] = bcast[at[w]].value]
  /\ handler' = [handler EXCEPT ![w] = "idle"]
  /\ Answered(w)
  /\ UNCHANGED <<cluster, phase, accepted, at, barrier, switch>>

CancelWaiting(w) ==
  /\ phase[w] = "dead" /\ handler[w] \in {"barrier", "broadcast"}
  /\ handler' = [handler EXCEPT ![w] = "idle"]
  /\ UNCHANGED <<cluster, workerVars, at, barrier, bcast, switch>>

-----------------------------------------------------------------------------
(* The session service: its handlers are not coroutines, so those of several   *)
(* workers run in threads side by side, and go on when the client is gone.     *)

\* (Broken on purpose: the slots keep what an earlier run left in them.)
SwitchClearedButSlotsBug == table' = {} /\ UNCHANGED slot /\ group' = NoGroup

\* Everything the switch keeps for a session, on the arrival of rank 0.
SwitchCleared == table' = {} /\ slot' = Fresh(0) /\ group' = NoGroup

ClearWorkers(w) ==
  /\ w = Root /\ CallsSession(w) /\ handler[w] = "idle"
  /\ SwitchCleared
  /\ handler' = [handler EXCEPT ![w] = "add"]
  /\ UNCHANGED <<cluster, workerVars, at, barrier, bcast, inbox>>

\* A refused worker is answered with zeros, like an accepted one with OK.
AddWorker(w) ==
  /\ IF w = Root THEN handler[w] = "add" ELSE CallsSession(w) /\ handler[w] = "idle"
  /\ IF w \in known
     THEN /\ table' = table \union {w}
          /\ handler' = [handler EXCEPT ![w] = "group"]
          /\ UNCHANGED step
     ELSE /\ handler' = [handler EXCEPT ![w] = "idle"]
          /\ IF phase[w] = "setup" THEN Answered(w) ELSE UNCHANGED step
          /\ UNCHANGED table
  /\ UNCHANGED <<cluster, phase, session, accepted, at, barrier, bcast, group, slot, inbox>>

\* "Add multicast group if not present": looked up here, created in a later step.
FindGroup(w) ==
  /\ handler[w] = "group"
  /\ handler' = [handler EXCEPT ![w] = IF group.present THEN "node" ELSE "create"]
  /\ UNCHANGED <<cluster, workerVars, at, barrier, bcast, switch>>

\* The driver refuses a group that exists, and the call fails.
CreateGroup(w) ==
  /\ handler[w] = "create"
  /\ IF group.present
     THEN /\ handler' = [handler EXCEPT ![w] = "idle"]
          /\ IF phase[w] = "setup" THEN CallFailed(w) ELSE UNCHANGED phase
          /\ UNCHANGED group
     ELSE /\ group' = [present |-> TRUE, nodes |-> {}]
          /\ handler' = [handler EXCEPT ![w] = "node"]
          /\ UNCHANGED phase
  /\ UNCHANGED <<cluster, step, session, accepted, at, barrier, bcast, table, slot, inbox>>

AddNode(w) ==
  /\ handler[w] = "node"
  /\ group' = [group EXCEPT !.nodes = @ \union {w}]
  /\ handler' = [handler EXCEPT ![w] = "idle"]
  /\ IF phase[w] = "setup"
     THEN Answered(w) /\ accepted' = [accepted EXCEPT ![w] = TRUE]
     ELSE UNCHANGED <<step, accepted>>
  /\ UNCHANGED <<cluster, phase, session, at, barrier, bcast, table, slot, inbox>>

-----------------------------------------------------------------------------
(* After the last call.                                                         *)

ScriptDone(w) == phase[w] = "setup" /\ step[w] > Len(Script(w))

(* The queue pair numbers of the answer are read without looking whether there  *)
(* are any: on an answer of zeros the program may end, or connect to nothing.   *)
CopyNeighbors(w) ==
  /\ cfg.backend = "rdma" /\ ScriptDone(w)
  /\ \E next \in {"exchanged"} \union (IF accepted[w] THEN {} ELSE {"fatal"}) :
       phase' = [phase EXCEPT ![w] = next]
  /\ UNCHANGED <<cluster, step, session, accepted, sync, switch>>

MoveToRtr(w) ==
  /\ phase[w] = "exchanged"
  /\ phase' = [phase EXCEPT ![w] = "rtr"]
  /\ UNCHANGED <<cluster, step, session, accepted, sync, switch>>

\* RdmaBackend::SetupWorker starts the threads once all queue pairs can send.
MoveToRts(w) ==
  /\ phase[w] = "rtr"
  /\ phase' = [phase EXCEPT ![w] = "running"]
  /\ UNCHANGED <<cluster, step, session, accepted, sync, switch>>

\* The DPDK master thread launches the worker threads.
LaunchWorkerThreads(w) ==
  /\ cfg.backend = "dpdk" /\ ScriptDone(w)
  /\ phase' = [phase EXCEPT ![w] = "running"]
  /\ UNCHANGED <<cluster, step, session, accepted, sync, switch>>

(* A worker's part of a slot; the switch drops what comes from no worker of its *)
(* table, and sends the result to its group when all workers were seen.         *)
Send(w) ==
  /\ phase[w] = "running" /\ w \in table /\ slot[w] = 0
  /\ slot' = [slot EXCEPT ![w] = run]
  /\ inbox' = IF \A v \in Workers : slot'[v] # 0 THEN group.nodes ELSE inbox
  /\ UNCHANGED <<cluster, workerVars, sync, table, group>>

\* The job is over, and the context is stopped.
Stop(w) ==
  /\ phase[w] = "running" /\ w \in inbox /\ accepted[w]
  /\ phase' = [phase EXCEPT ![w] = "stopped"]
  /\ UNCHANGED <<cluster, step, session, accepted, sync, switch>>

-----------------------------------------------------------------------------
(* The environment: all processes are killed; the operator resets the workers   *)
(* state, first that of the switch and then, under the lock that every handler  *)
(* holds while it waits, that of the synchronisation service; and the next run. *)

Over == \A w \in Workers : phase[w] \in {"stopped", "dead", "fatal"}

Kill ==
  /\ kills < MaxKills /\ ~Over
  /\ kills' = kills + 1 /\ reset' = "tables"
  /\ phase' = [w \in Workers |-> IF phase[w] \in {"stopped", "fatal"} THEN phase[w] ELSE "dead"]
  /\ UNCHANGED <<cfg, host, known, run, step, session, accepted, sync, switch>>

ResetTables ==
  /\ reset = "tables"
  /\ SwitchCleared
  /\ reset' = "sync"
  /\ UNCHANGED <<cfg, host, known, run, kills, workerVars, sync, inbox>>

\* (Broken on purpose: the counters of the barrier survive.)
SyncResetBroadcastBug == UNCHANGED barrier /\ bcast' = <<>>

\* (Broken on purpose: the pending broadcasts survive.)
SyncResetBarrierBug == barrier' = FirstBarrier /\ UNCHANGED bcast

\* GRPCServer.reset.
SyncReset == barrier' = FirstBarrier /\ bcast' = <<>>

ResetSync ==
  /\ reset = "sync" /\ \A w \in Workers : handler[w] \notin {"barrier", "broadcast"}
  /\ SyncReset
  /\ reset' = "none"
  /\ UNCHANGED <<cfg, host, known, run, kills, workerVars, handler, at, switch>>

NextRun ==
  /\ Over /\ run < Runs /\ reset = "none" /\ handler = Fresh("idle")
  /\ run' = run + 1
  /\ phase' = Fresh("created") /\ step' = Fresh(1)
  /\ session' = Fresh(0) /\ accepted' = Fresh(FALSE)
  /\ at' = Fresh(0) /\ inbox' = {}
  /\ UNCHANGED <<cfg, host, known, kills, reset, handler, barrier, bcast, table, group, slot>>

-----------------------------------------------------------------------------
Setup(w) ==
  \/ Start(w) \/ OpenEndpoint(w) \/ InitializeQueuePairs(w) \/ MasterThread(w)
  \/ CopyNeighbors(w) \/ MoveToRtr(w) \/ MoveToRts(w) \/ LaunchWorkerThreads(w)
  \/ Send(w) \/ Stop(w)

Serve(w) ==
  \/ BarrierArrive(w) \/ BarrierWake(w) \/ BroadcastCall(w) \/ BroadcastWake(w)
  \/ CancelWaiting(w) \/ ClearWorkers(w) \/ AddWorker(w) \/ FindGroup(w)
  \/ CreateGroup(w) \/ AddNode(w)

Next ==
  \/ \E w \in Workers : Setup(w) \/ Serve(w)
  \/ Kill \/ ResetTables \/ ResetSync \/ NextRun

Spec == Init /\ [][Next]_vars

Ranks == 0 .. Max({c.num_workers : c \in Configs}) - 1

\* Processes run, and the controller answers: nothing is owed by the operator.
FairSpec ==
  Spec /\ \A w \in Ranks : /\ WF_vars(w \in Workers /\ Setup(w))
                           /\ WF_vars(w \in Workers /\ Serve(w))
-----------------------------------------------------------------------------
(* Properties.                                                                  *)

(* The state has the shape of the code's.                                       *)
TypeOK ==
  /\ cfg \in Configs /\ host \in [Workers -> Hosts] /\ known \subseteq Workers
  /\ run \in 1 .. Runs /\ kills \in 0 .. MaxKills /\ reset \in {"none", "tables", "sync"}
  /\ phase \in [Workers -> {"created", "starting", "opened", "setup", "exchanged", "rtr",
                             "running", "stopped", "dead", "fatal"}]
  /\ step \in [Workers -> 1 .. 5]
  /\ session \in [Workers -> 0 .. run] /\ accepted \in [Workers -> BOOLEAN]
  /\ handler \in [Workers -> {"idle", "barrier", "broadcast", "add", "group", "create", "node"}]
  /\ \A w \in Workers : handler[w] = "barrier" => at[w] \in DOMAIN barrier.ctrs
  /\ \A w \in Workers : handler[w] = "broadcast" => at[w] \in DOMAIN bcast
  /\ barrier.op \in DOMAIN barrier.ctrs
  /\ table \subseteq Workers /\ group.nodes \subseteq Workers /\ inbox \subseteq Workers
  /\ slot \in [Workers -> 0 .. run]

Alive(w) == phase[w] \notin {"dead", "fatal"}

BarriersPassed(w) ==
  Cardinality({i \in 1 .. step[w] - 1 : i \in DOMAIN Script(w) /\ Script(w)[i] = "Barrier"})

BarriersReached(w) == BarriersPassed(w) + IF handler[w] = "barrier" THEN 1 ELSE 0

(* "All the requests return at the same time only when all the requests are    *)
(* received" (grpc_server.py, Barrier): nobody is past a barrier that somebody *)
(* of this run has not reached, whatever earlier runs left behind.             *)
BarriersTogether ==
  \A w, v \in Workers :
    Alive(w) /\ phase[w] # "created" => BarriersPassed(w) <= BarriersReached(v)

(* A worker past the broadcast has the session id that the root drew in this   *)
(* run (Broadcast sends "the value received from the root to all"), never one  *)
(* of an earlier operation still in the list.                                  *)
SessionAgreed == \A w \in Workers : Alive(w) /\ step[w] > 1 => session[w] = run

(* The synchronisation service keeps both promises, and the state its shape,   *)
(* after any run, kill and reset.                                               *)
Consistent == TypeOK /\ BarriersTogether /\ SessionAgreed

(* A worker whose threads run finds the switch set up for all the workers: no  *)
(* entry was lost to the clearing by rank 0 or to another worker's request, and*)
(* the multicast group that two requests might both create is complete.        *)
SwitchKnowsAll ==
  known = Workers =>
    \A w \in Workers :
      phase[w] = "running" => table = Workers /\ group.nodes = Workers

(* No slot still holds a contribution of an earlier run when a worker runs: it *)
(* would be added to the results of this one.                                  *)
NoLeftovers ==
  \A w, v \in Workers : phase[v] = "running" => slot[w] \in {0, run}

(* A result only goes to workers that can receive: the last barrier is before  *)
(* the move to RTR, so this rests on the result waiting for every worker.      *)
ResultsFindReceivers ==
  known = Workers => \A w \in inbox : phase[w] \in {"running", "stopped", "dead"}

(* The switch as a worker that runs finds it: complete, clean, and waiting for  *)
(* everyone before it answers.                                                  *)
SwitchReady == SwitchKnowsAll /\ NoLeftovers /\ ResultsFindReceivers

\* What rank w starts with is in order: its file, the options and the device.
Fit(w) ==
  /\ host[w].file /\ ~Fatal(cfg)
  /\ IF cfg.backend = "rdma" THEN HasEndpoint(w) ELSE cfg.cores = cfg.num_worker_threads

(* When the workers are known, none that starts in order is aborted by a       *)
(* failing call, whoever else aborts: neither by the loop that removes         *)
(* broadcast operations from the list it runs over nor by a second creation of *)
(* the multicast group.                                                         *)
NobodyAborts ==
  known = Workers => \A w \in Workers : Fit(w) => phase[w] # "fatal"

(* One rank that ends during its start keeps all of them, of this run, from    *)
(* sending: the slots of the switch are not left half filled.                   *)
NobodySendsWithoutAll ==
  \A w \in Workers :
    phase[w] = "running" \/ slot[w] = run => \A v \in Workers : Fit(v)

Threads == 0 .. Conf.num_worker_threads - 1

OwnQueuePairs == 0 .. QueuePairsPerThread(Conf) - 1

Running == \E w \in Workers : phase[w] = "running"

(* The threads of a worker that runs share no switch slot, and its queue pairs *)
(* no byte of the registered region, all inside the region and below the end   *)
(* of the pool; each thread computes its part alone.                           *)
ThreadsShareNothing ==
  Running =>
    /\ \A t, u \in Threads : t # u => ThreadSlots(Conf, t) \cap ThreadSlots(Conf, u) = {}
    /\ \A t \in Threads :
         ThreadSlots(Conf, t) \subseteq 0 .. 2 * Conf.max_outstanding_packets - 1
    /\ Conf.backend = "rdma" =>
         \A x, y \in Threads \X OwnQueuePairs :
           LET a == MessageBytes(Conf, x[1], x[2])
               b == MessageBytes(Conf, y[1], y[2])
           IN  a.last < MemoryLength(Conf) /\ (x # y => a.last < b.first \/ b.last < a.first)

(* Every thread of a worker that runs has work to do, all have the same number *)
(* of outstanding messages (the CHECK on queue_pairs_.size()), no queue pair   *)
(* and no slot is left over, and a completion goes to the thread that sends.   *)
ThreadsShareEvenly ==
  Running =>
    /\ UNION {ThreadSlots(Conf, t) : t \in Threads} = 0 .. 2 * Conf.max_outstanding_packets - 1
    /\ Conf.backend = "rdma" =>
         /\ QueuePairsPerThread(Conf) =
              (Conf.max_outstanding_packets \div PacketsPerMessage(Conf)) \div Conf.num_worker_threads
         /\ QueuePairsPerThread(Conf) >= 1
         /\ UNION {ThreadQueuePairs(Conf, t) : t \in Threads} = 0 .. NumQueuePairs(Conf) - 1
         /\ \A t \in Threads : \A i \in ThreadQueuePairs(Conf, t) : CompletionQueue(Conf, i) = t

(* The threads partition what the worker has.                                   *)
ThreadsPartition == ThreadsShareNothing /\ ThreadsShareEvenly

(* The workers never wait for each other for ever: a run whose workers are all *)
(* known and start in order, or none of which does, ends for all of them.      *)
RunsEnd ==
  \A r \in 1 .. Runs :
    (run = r /\ known = Workers /\ \A w, v \in Workers : Fit(w) = Fit(v)) ~> Over

(* "Ensure switch has gotten all workers' job state before proceeding"         *)
(* (rdma_connection.cc, dpdk_backend.cc): a worker past its last barrier finds *)
(* all the workers of its run in the switch's table.                           *)
ProceedsOnlyWhenSwitchHasAll ==
  \A w \in Workers :
    phase[w] \in {"exchanged", "rtr", "running"} => table = Workers
=============================================================================
