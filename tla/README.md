# SwitchML: specifications, model checks and proofs

SwitchML sums the gradients of distributed training inside a programmable
switch. Workers split a tensor into packets, the switch adds up the packets of
all workers slot by slot and sends the sums back, and both sides together
recover from lost packets. This directory specifies the parts of `src/dev_root`
whose correctness depends on ordering, loss, concurrency or arithmetic, from the
switch pipeline up to the framework plugins, checks them with TLC on small
instances and proves every safety property of the passing runs with TLAPS, for any number
of workers, packets, slots, slices, threads, jobs, requests and timeout queue entries
(section 5 names the hypotheses, and the events after which the code itself goes wrong).

## 1. Inventory

| Component | State | Operations | Talks to |
|---|---|---|---|
| Switch pipeline (`p4/switchml.p4` and the controls it applies) | per slot and set: worker bitmap, count of missing workers, value and exponent registers; recirculated packets | CONSUME passes (update and read the registers), HARVEST passes (read the rest), drop, recirculate, broadcast, retransmit | workers (UDP or RoCE packets); its tables are filled by the controller |
| Next-step entries (`controller/next_step_selector.py`) | table entries, constant after start | which pass follows which, by first/last flag and retransmission flag | pipeline |
| RDMA receiver and sender (`p4/rdma_*.p4`) | per queue pair: expected PSN | message reassembly, address and PSN of results | RDMA workers |
| DPDK worker thread (`backends/dpdk/dpdk_worker_thread*`) | receive bitmap of the slice, timers with callback arguments, pool index shift, transmit buffer | start a slice, receive, resend on timeout, finish a slice | Context (slices), switch (packets) |
| DPDK backend and master thread | switch addresses, cores | set up the session, launch the threads | controller |
| RDMA worker thread (`backends/rdma/rdma_worker_thread.cc`) | message ids, pool indexes, work requests | post writes, poll completions, resend | Context, switch, timeout queue |
| RDMA timeout queue | linked list of time stamps, timeout, threshold | push, remove, check | RDMA worker thread |
| RDMA endpoint, connection, backend | device, queue pairs, completion queues, registered memory | open, initialise, exchange information, move to RTR and RTS | verbs library, controller |
| Dummy backend | pending packets, outstanding buffers | send, receive a burst in any order | Context |
| Context (`context.cc`) | state, number of current jobs | start, stop, submit, wait, get a slice, report a slice | application, scheduler, backend |
| FIFO scheduler (`schedulers/fifo_scheduler.cc`), barrier (`utils.cc`) | `stopped_`, queue, two maps of slice counts; barrier count and flag | enqueue, get a slice, report a slice, stop | Context, worker threads |
| Job (`job.cc`) | status | set the status, wait for completion | all of the above |
| Pre- and postprocessors | scaling factors, exponents of the next batch | set up a slice, fill a packet, read a result, clean up | worker threads |
| Configuration (`config.cc`) | options | load with defaults, validate and round | all of the library |
| gRPC service (`controller/grpc_server.py`, `grpc_client.cc`) | barrier counters, pending broadcasts | barrier, broadcast, create a session, reset | worker processes, controller tables |
| Controller tables (`controller/switchml.py` and its tables) | worker entries, multicast group | add and clear workers, reset | switch, gRPC service |
| NCCL plugin | communicators, requests with temporary arrays | connect, iallreduce, test, close | NCCL, Context |
| PyTorch process group | works with host tensors, streams and events | allreduce, run, synchronize | PyTorch, GPU, Context |
| Parsers, forwarder, ARP/ICMP, ports, CLI, statistics, benchmarks | - | - | not part of the core logic |

### What is hard

* *Loss, duplication and delay.* Any packet and any result may be lost, timers
  may fire although nothing was lost, a resend may meet its slot before, during
  or after the other workers' packets, and results of an old packet or job may
  arrive late.
* *Two passes.* The switch cannot read all registers of a packet in one pass;
  between the passes of one packet other packets change the same slot.
* *Slot reuse.* Slots are overwritten, never cleared. Whether a packet is the
  first of its slot is known from a bitmap that the packets of the *other* set
  clear.
* *Slices.* Packet ids start again with every slice, pool indexes must not.
* *Threads.* Worker threads, the application and `Stop` interleave over three
  mutexes, two condition variables and an atomic state.
* *Lagging exponents.* A packet carries the values of one chunk and the exponent
  of a later one; the factor of a chunk comes back before the chunk is sent.
* *A list as a clock.* Only the tail of the timeout queue is ever looked at.
* *Start-up.* Workers that start, fail or are killed at any time meet at a
  service that counts calls, in handlers that interleave at awaits and in
  threads; the switch is filled one worker at a time and cleared by the first.
* *Arithmetic in several places.* Threads never negotiate: buffers, completion
  queues and pool indexes are divided by formulas in different files.
* *Streams and polling.* A plugin's buffers live between a job and the poll
  that finds out it is finished, or between two GPU streams.

### What makes each component correct

* Pipeline and worker together: an accepted result is one contribution of every
  worker, exactly (`ResultsExact`); nothing is broadcast twice (`BroadcastOnce`); while somebody waits, the switch keeps the
  answer (`ShadowCopyHeld`); every packet gets through in the end
  (`JobCompletes`).
* DPDK thread: one outstanding packet per slot, timers that name what is
  outstanding, a shift that makes the next slice look new (`OnePacketPerSlot`,
  `TimersResendOutstanding`, `NextBatchIsNew`).
* RDMA: results are exact although a message may be aggregated in part and
  reposted from a buffer its result has half overwritten (`ResultsExact`), packets
  of a message are aggregated in order (`PartsInOrder`), one receive request stands
  for each awaited result (`OneReceive`).
* Timeout queue: the list is the order of the deadlines (`ListInOrder`,
  `PushInOrder`), so that looking at its tail is enough (`ImplementsDeadlines`), and
  every doubling of the timeout costs its threshold of timeouts (`BackoffIsPaid`).
* Pre- and postprocessors: everyone scales a chunk alike (`FactorsAgree`), nothing
  overflows (`SumsFit`), results are right up to rounding
  (`ResultsWithinRounding`), a packet can be rebuilt (`ResendIsSame`).
* Context and scheduler: slices cover a tensor once, threads stay on the same
  job, a job is finished when and only when all its slices are, and the whole
  implements the plain job service that applications see (`SlicesPartition`,
  `JobsInLockstep`, `FinishedMeansComplete`, `ImplementsService`); stopping
  returns (`StopReturns`, which the code violates).
* Start-up: nobody passes a barrier or sends without the others
  (`BarriersTogether`, `NobodySendsWithoutAll`), everyone has the session of this
  run (`SessionAgreed`), the switch knows everyone, holds nothing old and can
  reach who waits for a result (`SwitchReady`), threads share nothing and leave
  nothing over (`ThreadsPartition`), and a run ends (`RunsEnd`).
* Plugins: a job's memory is there while it runs (`BuffersHeld`,
  `CopiesHaveMemory`), what is reported done is the sum of what was computed
  (`DoneHoldsSum`, `ReturnedHoldsSum`).

The small facts about a module's bookkeeping are checked together with its types, as the
conjuncts of one invariant `Consistent`: `NextBatchIsNew` in `DpdkWorker`, `OneReceive`,
`PartsCounted` and `NextMessageIsNew` in `RdmaMessages`, `PushInOrder` in `TimeoutQueue`,
`SlicesPartition` and `MapsAgree` in `JobScheduler`, `FactorsAgree` in `QuantizedExchange`,
`BarriersTogether` and `SessionAgreed` in `SessionSetup`, `BuffersHeld` and
`CopiesHaveMemory` in `FrameworkClients`.

## 2. Modules

| Module | Kind | Models |
|---|---|---|
| `SwitchPipeline` | operators | what one packet does to one slot: bitmap, counter, registers, next step |
| `AllReduceStream` | abstract | what a stream of reduced packets promises |
| `SlotProtocol` | state machine | workers, lossy links and the two-pass pipeline around one slot; refines `AllReduceStream` |
| `SlotProtocolProofs` | proofs | the inductive invariant of `SlotProtocol` and what follows from it |
| `DpdkWorker` | state machine | worker threads running slice after slice through N slots |
| `DpdkWorkerProofs` | proofs | the inductive invariant of `DpdkWorker`: exact results, slots and timers |
| `RdmaMessages` | state machine | messages of several packets, the switch's sequence register, NIC and shared buffer |
| `RdmaMessagesProofs` | proofs | what the worker and the switch count without being told, whose turn a slot is, and the values |
| `DeadlineQueue` | abstract | what the timeout queue promises: the longest waiting message, if it is due |
| `TimeoutQueue` | state machine | the doubly linked list, its time stamps and the backoff; refines `DeadlineQueue` |
| `TimeoutQueueProofs` | proofs | the inductive invariant of the list, order and refinement |
| `QuantizedExchange` | state machine | threads that run slices through a pre- and postprocessor and a backend |
| `QuantizedExchangeProofs` | proofs | packets and buffers, factors, range, rounding and rebuilt packets |
| `JobService` | abstract | what a context promises about jobs |
| `JobScheduler` | state machine | Context, FIFO scheduler, barrier, job status and the threads' loop; refines `JobService` |
| `JobSchedulerProofs` | proofs | the inductive invariant of `JobScheduler`, its safety properties and refinement |
| `WorkerLayout` | operators | options, validation, and what each thread computes as its own |
| `SessionSetup` | state machine | workers' start, controller service, switch tables, kills and further runs; uses `WorkerLayout` |
| `SessionSetupProofs` | proofs | the inductive invariant of the start, and the arithmetic of the layout |
| `ContextClient` | component | `JobService` with the memory of the jobs, for a plugin to call |
| `NcclPlugin`, `ProcessGroupSML` | components | the two plugins over `ContextClient` |
| `FrameworkClients` | composition | both plugins and the context in one process |
| `FrameworkClientsProofs` | proofs | who owns a buffer and a job, and what is in it |
| `MC*` | instances | constant values for TLC |

The chain from top to bottom: the plugins call a context that behaves like
`JobService`; `JobScheduler` implements it, assuming that a slice's work ends; that
it does is `AllJobsComplete` of `DpdkWorker` and `RdmaMessages`; these run a
packet's two passes at once, as `SlotProtocol` allows, which implements
`AllReduceStream`; this is the switch of `QuantizedExchange`. `SessionSetup` is
what has to have happened before any of it.

Operators whose names end in `Bug` (`CountAfterBug`, ...) are plausible defects
of the definition that follows them. Nothing uses them; replacing a definition
by its defect makes TLC report the property that is there to notice it
(`PROJECT.json`, "mutants").

### SwitchPipeline

The P4 register actions as constant operators. `UpdateBitmap` and `MapResult` are
`bitmap_checker.p4`, `CountAfter` and `FirstLastFlag` `workers_counter.p4`,
`RegisterAfter` `processor.p4` (and `exponents.p4`, with max in place of +),
`NextStepConsume0` and `NextStepHarvest7` the controller's entries for 256-byte
packets. A vector of integers is abstracted to how often each contribution was
added: two runs that agree on this agree on every sum, and a double count, a lost
one or a stale register shows.

### SlotProtocol

| Action | Code |
|---|---|
| `SendFirst` | first batch of a slice |
| `Timeout` | `ResendPacketCallback` |
| `Receive` (`Accept`, `Discard`) | receive loop: store, stop the timer, reuse the buffer for the slot's next packet; or drop a duplicate |
| `Consume` | first pipeline pass: all register actions, next step CONSUME0, recirculation |
| `Harvest` | second pass: read the other half, broadcast, retransmit or drop |
| `LoseUplink`, `LoseDownlink`, `DropInSwitch` | link losses; ingress and egress drop simulator |

The recirculation port is a queue, so packets of the passes interleave in every
order it allows. A worker's packets stay in order on their way to the switch
(one port, one cable, the transmit buffer is drained before timers run); results
may be reordered, and both may be lost. The history `broadcasted` remembers the
packets whose broadcast has left the recirculation port, be it to the workers or into
the drop simulator.

### DpdkWorker

One action per phase of the thread's loop: `StartSlice` (first batch and its
timers), `Timeout`, `Receive`, `FinishSlice` (the shift); `Switch` runs both passes
of a packet at once, which `SlotProtocol` justifies. Headers carry a short job id
(`ShortId`, the low 8 bits in the code, `ShortIds` values here), and that is what
`IsNew` compares; the field `job` beside it is there for the properties to say which job
a result belongs to, and no action of a thread or of the switch looks at it. Because
short ids come round again, the network has to be trusted with one thing, that it does
not hold a result back for as long as `ShortIds` jobs take (`Recent`).

Two things the code gets wrong (section 4) end what the safety properties promise, and
`Regular`, their premise, names them: a timer of a first batch has run out (the history
`misfired`; the code gives these timers N times the period and another packet's
arguments), or a slice with an extra batch has too few packets for its window
(`FullWindow`). Nothing else is excluded from them: packets of any batch may be lost.
`FirstBatchSafe = TRUE` restricts an *instance* to first batches that get through before
their timers run out, so that `AllJobsComplete` can be asked of it; the proofs do not
assume it.

### RdmaMessages

One queue pair per worker and the slots it uses. `StartSlice`, `PollCompletion`
(`Accept`, `Discard`) and `Timeout` are the worker thread; `SequenceViolation` and
`Aggregate` are what the switch does to a packet, with `ReceiveRoce` for the
register of `rdma_receiver.p4`; `NicReceive` is the responder of an unreliable
connection and external. Sequence numbers are not counted: the packet behind a lost one
carries a mark, which is all the register's comparison finds out. `buf` is the
memory a message is sent from and its result is written to; that it is one is
what the module is about. Three history variables record what the code cannot tell has
happened (section 4): `crossed`, packets of a slice of one message were still on their way
when the next slice began, whose first message has the same id (`Crosses`); `exposed`, a
packet was lost while something of the message before was left on a link or in the buffer
(`Exposes`), so that a repost may send an old result; `misplaced`, the NIC has put a packet in the
place of another, which takes messages of four packets (`RdmaMixedResults`). The proofs are
about all behaviours until one of these happens. `LateDuplicates = FALSE` is the bound that
cuts the first two off in an instance. `LossyUplinks` names the workers whose uplink may
lose packets.

### TimeoutQueue

`Push`, `Remove` and `Check` are the functions of that name, `Unlinked`, `Linked` and
`Backoff` their parts; the entries have the code's fields, with `None` for -1. The
clock is finer than the milliseconds that `Check` compares (`Ms` units each), and
the comparison is strict as in the code: an entry is reported in the
millisecond *after* its timeout. `Since`, what `DeadlineQueue` sees of an entry, is
its time stamp while it is valid.

### QuantizedExchange

`PreprocessSingle` and `PostprocessSingle` are the two functions of the quantizer
(or of the bypass processor), `Exponent` its reading of the exponent field,
`Quantize` and `Dequantize` what the scaling factors do, `scale` the exponents these were
computed from; `Batch`, `TotalPkts` and `NeedsExtraBatch` are the set-up of a slice.
`StartSlice`, `ReceiveBurst`, `ProcessReceived` and `FinishSlice` follow the dummy worker
thread's loop, `Stop` ends it at any moment. `ResendIsSame` builds an outstanding packet
once more, as `ResendPacketCallback` does. With the dummy backend, packets return
in any order and are multiplied by the number of workers; with the switch, the
result is what `AllReduceStream` promises. Floats are small integers, and the
range of 32-bit integers is scaled down to `MaxInt`: the formulas are the code's
with that number in place of INT32_MAX. The tensors of one job have the same size and type at
every worker (`JobsAssumption`), which the code requires and cannot check.

### JobScheduler

One action per critical section or per read of the atomic context state, so every
interleaving of threads at the granularity of the locks is explored. `at[t]` is
where thread t is in its loop. `FinishWork` stands for a whole slice and
`AbandonWork` for the receive loop that ends because the context stops.
`taken` and `worked` are history variables. Its refinement mapping to `JobService` takes
the state and the status of the jobs as they are.

### WorkerLayout and SessionSetup

`WorkerLayout` is arithmetic: `LoadFromFile` with the defaults, `Fatal` and `Validated` for
`Config::Validate`, then what `RdmaConnection`, `RdmaEndpoint` and the worker
threads make of the result (`QueuePairsPerThread`, `CompletionQueue`, `MessageBytes`,
`PoolIndex`, `ThreadSlots`).

In `SessionSetup` each worker goes through `Context::Start`: `Start` (file and validation),
`OpenEndpoint` (the device) and `InitializeQueuePairs`, or `MasterThread` for DPDK; then the
calls of its script, `ExchangeConnectionInfo` or `SetupSwitch`; then RTR, RTS and the
threads. `BarrierArrive` and `BroadcastCall` are coroutines up to their await, `BarrierWake`
and `BroadcastWake` after it; the session handlers (`ClearWorkers`, `AddWorker`,
`FindGroup`, `CreateGroup`, `AddNode`) run in threads, so their steps interleave and go on
when the client is gone. `Send` and `Stop` are the smallest program that notices a wrong
set-up: one slot, one contribution per worker. `Kill` ends all processes at any point (a
launcher does that when one of them fails), `ResetTables` and `ResetSync` are the operator's
command, in two steps because the second waits for the lock that handlers hold, and
`NextRun` starts the program again. `SwitchReady` has three parts: `SwitchKnowsAll` (the
tables), `NoLeftovers` (of an earlier run) and `ResultsFindReceivers` (nobody's queue pair
is behind the results).

### ContextClient, NcclPlugin, ProcessGroupSML, FrameworkClients

`ContextClient` is `JobService` with memory: a job reads its input when it
finishes and writes the sum. The plugin modules have one action per entry point
(`ncclSwitchMLIallreduce`, `ncclSwitchMLTest`, `Allreduce`, ...) or per step of the work
thread, and the GPU executes copies and kernels in the order its streams and events
leave. `Exit` stops the context; the code does so when the process ends.

## 3. Runs

| Run | Instance | Shows |
|---|---|---|
| `SlotTwoWorkers` | 2 workers, packets 0..2, 2 in flight per worker, under `FairSpec` | all safety properties, the refinement of `AllReduceStream`, completion |
| `DpdkJobs` | 2 workers, 2 slots, 2 short job ids, slices of 2 + extra, 1 and 3 packets | reuse of slots within and across slices, short ids that come round, completion |
| `RdmaJobs` | 2 workers, 2 packets per message, jobs of 1 and 2 messages, one lossy uplink | partial losses, reposts, duplicates, both pool bits across jobs, completion once losses end |
| `TimeoutQueue` | 3 entries, 2 clock units per millisecond, 8 units, 5 reports | list order, backoff, the refinement of `DeadlineQueue` |
| `QuantizedExchange` | 2 workers, LTUs of 2 elements, 2 outstanding; a slice of 3 LTUs of floats, an empty one, one of integers; both backends and processors, in place | pairing of exponents and values, range, rounding, buffers, rebuilt packets, completion |
| `SchedulerJobs` | 3 threads, jobs of 2 and 4 elements, stopped at any moment or never | partition, lockstep, lookups, status order, waiting, completion, the refinement of `JobService` |
| `SessionSetup` | 3 workers of either backend, on machines in order or not; 2 runs, 1 kill; single workers with 160 layouts | barriers, sessions, tables, leftovers, layouts, end of runs |
| `FrameworkClients` | 2 NCCL requests and 1 PyTorch call, 3 jobs, one connection attempt | buffers, ordering of streams and polls, 8-bit sums, end of calls |

Four more runs expect a violation (section 4). `RdmaMixedResults` has 2 workers, one
message of the shipped four packets and links that lose nothing; eight packets in flight
are two copies of the message.

*Bounds.* Three packets use a slot's sets 0, 1, 0: the third overwrites what the
first left, which is the longest memory the protocol has (the invariant of the
proof relates neighbouring packets only). Two packets in flight per worker allow a
resend to meet the original, its result or the next packet. Two slots make slot
and set differ; the slices are chosen so that one starts at an odd shift, one is
smaller than a batch and one ends in the middle of a batch. With two short job ids the third
slice has that of the first, whose results may still be on their way when the second begins;
`Recent` is what keeps them from the third, and without it TLC finds `ResultsExact`
violated. Three threads separate
"first", "last" and "neither" in the scheduler's counts, and the first job leaves
one thread without elements. Jobs of one and two messages make the second job
start with the other pool bit and the third message reuse the slot of the
first; two packets are the fewest that make a partial message; the roles of the workers
are symmetric, so that it is enough if one uplink loses packets (the downlinks
all do). `MaxInFlight` bounds only how often a timer fires while its packets are
still under way. Three queue entries are a head, a tail and a middle; `MaxReports`
covers two doublings. Three LTUs with two outstanding packets give a full batch, a
partial one and a partial LTU; in the floats the larger exponent is at
each worker in turn and one value is next to a power of two. Three workers
separate the root, a worker that is early and one that is late; two runs and one
kill are the fewest that leave something over. `MCFiles` has files that leave
options to their defaults and every combination of threads, packets and message
sizes that rounds differently; `MCHosts` a machine in order, one without a
configuration file and one without the device.

*Fairness.* Worker threads run (weak fairness): they are busy loops. Timers fire
(`SF` of `Timeout`, because receiving disables it again and again). Strong
fairness of `Consume`, `HarvestFor` and `ReceiveCurrent` says that a link which is used
again and again delivers something; weak fairness would not say that, because a
loss disables the delivery. In `RdmaMessages` a message gets through only if all
its packets do, so its fairness says instead that losses end some time. For the
scheduler: threads are scheduled, a slice's work ends (which is `AllJobsComplete`), the
application goes on submitting, and a started `Stop` goes on. Stopping is never
required. Because a stop abandons slices, `FinishedMeansComplete`, `WaitReturnsLate` and
`JobsEnd` (every job finishes, every waiter returns) speak of jobs while the
context is RUNNING. In
`QuantizedExchange` the threads run. In `SessionSetup` processes run and the
controller answers, but neither the operator nor the next run is owed: `RunsEnd`
is about each run that has begun. In `FrameworkClients` jobs finish while the context runs
(`JobsFinish`), the GPU runs what its streams hold, a training thread goes on
inside a call, and NCCL polls. `TimeoutQueue` needs no fairness.

*Deadlock.* It is checked in `SlotTwoWorkers`, `DpdkJobs`, `RdmaJobs` and
`TimeoutQueue`. Elsewhere the program really stops: the context is stopped, all runs are
over, or the process has ended; there the liveness properties show that it
did not stop too early.

## 4. Disagreements between the code and its documentation

Each of these runs expects a violation of one property, which states what a comment of
the repository says:

* `DpdkFirstBatchTimer` (`TimeoutsResend`): the first-batch loop takes the timer's
  index and arguments after `pkt_id++`, but the pool index from before.
* `RdmaMixedResults` (`ResultsExact`): "if a particular message has some packets received
  and added and some not and the message is retransmitted, the packets that have already been
  received will be ignored" (`rdma_receiver.p4:311`). They are ignored by the registers, but
  answered if their slot is full, while the later parts of the message are still being added
  and broadcast. The sender gives all these packets consecutive sequence numbers
  (`rdma_sender.p4:154`) and an address to the first one only (`:193-211`), so a worker
  receives the parts 0, 2, 1, 3 as one valid RDMA write and puts parts 1 and 2 at each
  other's place. Nothing is lost in the run; a timeout while the other worker is late is
  enough. Two middle parts are needed, hence four packets, as configured in
  `configs/rdma.cfg:9` and `configs/general.cfg:35`; with at most three, a NIC is proved to
  put every packet in its place (`WrittenInPlace`, section 5).
* `SchedulerStopDeadlock` (`StopReturns`): `Stop` joins threads under a mutex the last
  notification of a job needs.
* `SessionRefused` (`ProceedsOnlyWhenSwitchHasAll`): a worker that the switch refuses is
  answered with zeros, does not look, and everyone proceeds past the barrier that
  is there to "ensure switch has gotten all workers' job state"
  (`rdma_connection.cc:230`, `dpdk_backend.cc:138`).

Seen in the models, without a run of their own:

* in `RdmaMessages`, with `LateDuplicates = TRUE`, late duplicates get through in two ways. The
  message id (`rdma_worker_thread.cc:221`) tells one apart only after the NIC has written it
  over the next message; if a packet of that message is lost and it is reposted, the old
  result is added up (`exposed`). One job of two messages of one packet, both
  uplinks lossy, and `MaxInFlight = 2` are enough for TLC to find `ResultsExact` violated.
  And message ids start from 0 in every slice, so that what is left of a slice of one message
  is taken for the first message of the next (`crossed`): `ResultsExact` is violated, and
  `PartsInOrder` with it;
* with an extra batch in a slice whose main packets do not fill the window
  (`~FullWindow`), packet k + batch is not in the slot of packet k
  (`dpdk_worker_thread.cc:347`), against the comment at `:241`. Three slots and a
  slice of two packets with an extra batch are enough for TLC to find two outstanding
  packets in one slot (`OnePacketPerSlot`), the timer of an outstanding packet
  stopped by the reception of another one (`:351`, `TimersResendOutstanding`) and, with a
  loss, a slice that never ends (`AllJobsComplete`). The invariants of `DpdkWorker` are
  therefore about behaviours whose slices so far keep to `FullWindow` (in `Regular`): without
  an extra batch any size does;
* in a slice smaller than a batch, a first-batch timer is not the one the reception
  stops (`dpdk_worker_thread.cc:349`) and fires in the next slice;
* a job already taken stays RUNNING after `Stop` when its last notifications do not
  come (`fifo_scheduler.cc:140`), against `fifo_scheduler.h:104`; the process aborts when
  a thread reaches the barrier `Stop` has destroyed (`utils.cc:45`,
  `fifo_scheduler.cc:63`); between the two state changes of `Stop` (`context.cc:108`) an
  abandoned job is marked FINISHED, where `dpdk_worker_thread.cc:405` says it is set to
  failed. This is why properties above are restricted to a RUNNING context;
* the timeout doubles with the timeout *after* the threshold: "each time the timeouts_counter
  reaches the timeouts threshold" (`rdma_timeout_queue.h:141`, and `config.h:104` asks "How
  many timeouts should occur before we double the timeout time?") is not what
  `rdma_timeout_queue.cc:124` does, which compares with `>`, and whose comment (`:125`) says
  "once the timeouts exceed the threshold". The backoff of the DPDK timers compares with `>=`
  (`dpdk_worker_thread_utils.inc:237`). `Backoff` is the code; as the comments disagree,
  `BackoffIsPaid` admits both and says what neither leaves open, that between two doublings no
  timeout is lost or counted twice;
* after a kill, a next run *without* the operator's reset violates `BarriersTogether`,
  `SessionAgreed`, `NobodyAborts` and `SwitchReady`: the counters keep the dead waiters;
* the event of a barrier with a single worker is never deleted (`grpc_server.py:137`);
* `config.cc:260` prints the port id as `bulk_drain_tx_us`.

## 5. Proofs

`SlotProtocolProofs` proves, for every finite non-empty set of workers, every
number of packets and every bound in flight (the assumptions
`WorkersAssumption` and `BoundsAssumption`):

* `TypeCorrect`: `Spec => []TypeOK`;
* `InductiveInvariant`: `Spec => []IInv`;
* `ResultsAreExact`, `ShadowCopyIsHeld`, `CountAlwaysAgrees`, and with the types
  `Consistency`, that is `Spec => []Consistent`;
* `BroadcastsOnce`: `Spec => []BroadcastOnce`: no packet is broadcast a second time, even if
  the first broadcast was lost or is still under way, nor when a worker has its result;
* `Refinement`: `Spec => ImplementsStream`.

The argument: `Level(w)` is the last packet of w that the slot has, read off the
bitmap and w's own position. The bits record levels and nothing else
(`BitsFollowLevels`); nobody waits for a packet more than one ahead of anybody's
level, because a result needs everyone's contribution (`Lockstep`); therefore a
set that holds some worker's last packet k has no bits of packet k - 2 left, and
count and value are those of the workers at level k or beyond
(`RegistersFollowLevels`). What leaves the second pass as a result belongs to a
packet everyone contributed to (`RecircComplete`): its first half was the full
sum when it was read, and the second half still is, because nobody can
overwrite the set before the waiting worker gets the result. Results under way
are exact or too old to be accepted (`DownlinkExact`), which depends on the order
of the uplink (`UplinkInOrder`). `ResultsExact` alone is not inductive: it says
nothing about the registers. `BroadcastsOnce` needs two parts more. `BroadcastFirst`: while
a broadcast is in the recirculation queue nobody has that result, no link carries
it, nothing ahead of it in the queue answers for it, and every broadcast that has left
was of an older packet. `BroadcastedComplete`: the slot has had what everybody contributes
to a packet that was broadcast, so that a resend is never the last to complete it.

`DpdkWorkerProofs` proves, for every number of workers, slots and short job ids and every
sequence of slices (`WorkersAssumption`, `DpdkAssumption`, nothing else):

* `TypeCorrectness`: `Spec => []TypeInv`, in regular states and others;
* `InductiveInvariant`: `Spec => [](Regular => IInv)`;
* `ResultsAreExact`: `Spec => []ResultsExact`;
* `Consistency`: `Spec => []Consistent`, with `NextBatchIsNew`;
* `SlotsAreShared`: `Spec => []OnePacketPerSlot`;
* `TimersAreCurrent`: `Spec => []TimersResendOutstanding`.

`Regular`, the premise of the last four properties, says that no first-batch timer has run
out and that the slices so far keep to `FullWindow`. Both name what the code gets wrong
(section 4): a first-batch timer resends the wrong packet, and without a full window slots do
not follow the window. The packets of first batches may be lost like any others, and whatever
the workers do until such a timer runs out is covered. The theorems say that nothing else
goes wrong, on a network that keeps to `Recent`: no result is of a job later than its
receiver's, so that among the last `ShortIds` jobs equal short ids mean equal jobs.

The argument: number the packets of all slices
through (`Pos`). Because the shift is the number of packets so far, modulo two
windows (`ShiftFollows`), the position alone gives a packet's slot (`Pos % N`) and
set (`(Pos \div N) % 2`), across slices as within them. So the packets of one slot
are in a line, and neighbours are in different sets (`Predecessor`, `Successor`).
Each worker gets the results of a slot in that order (`GotInOrder`), and the switch has added
up a packet of w (`Added`) if w has its result, or if it is the next one in line and w's bit
is set: a bit is always that of w's latest packet (`BitsFollow`). Nobody has a
result without everybody's contribution (`Lockstep`), hence a set that holds
somebody's latest packet holds nothing older, and its count and value are those of
the workers who added that packet (`RegistersFollow`). A packet on an uplink is one
whose turn it is or was (`PacketTimely`), in the order of the line
(`UplinkFollows`); a result on a downlink is exact or no longer awaited
(`DownlinkExact`); a short timer is that of a packet beyond the first window, and
stopped by the reception that ends it (`TimerFollows`).

`TimeoutQueueProofs` proves, for every number of entries and all parameters of the
backoff:

* `QueueInvariant`: `Spec => []IInv`, where the links are those of the entries in
  the order of *some* rank, with unbounded ranks, that agrees with their time
  stamps. A push takes a rank above all others, a removal keeps the ranks of the rest
  (`LinkedOrdered`, `UnlinkedOrdered`); a bounded rank, as in `ListInOrder`, is
  right but would have to be renumbered in every step;
* `TypeCorrect`, `PushesInOrder`, together `Consistency`;
* `ListStaysInOrder`: `Spec => []ListInOrder`. From the unbounded ranks to the bounded
  ones: count the entries below (`RanksFit`);
* `BackoffAlwaysPaid`: `Spec => []BackoffIsPaid`, by an invariant of its own
  (`BackoffInv`): d doublings so far, and the counter within the threshold. That a
  power of two doubles (`PowerDoubles`) is read off the number of subsets of a set,
  the library's `FS_SUBSET`, since the provers know nothing of `^`. The proof of `FS_SUBSET` that
  comes with the prover's library leaves one step of arithmetic about powers to the reader;
* `Refinement`: `Spec => ImplementsDeadlines`. The tail is an oldest entry, and whole
  milliseconds are monotone (`DivMonotone`), so when the tail is not due nothing is.

`RdmaMessagesProofs` proves, for every number of workers and packets per message and every
sequence of jobs (`WorkersAssumption`, `RdmaAssumption`), in three layers:

* what is counted without being told (`InductiveInvariant`).
  `ReceivesMatch`: `Spec => []OneReceive`. A duplicate takes the only receive
  request, and the thread that discards it posts the next one. `PartsAreCounted`:
  `Spec => []PartsCounted`. The register of the switch counts; the
  invariant (`UplinkInOrder`) is that every packet on an uplink is the first of its
  message, or behind a loss, or the part after the one before it, and that the head of
  the link relates to the register in the same way. Messages are posted whole
  (`ConcatInOrder`), and a loss marks what is behind it (`LossInOrder`);
* until packets of a slice of one message have crossed to the next, whose turn it is
  (`TurnsInvariant`, with `TurnsInv`): `PartsComeInOrder`: `Spec => [](~crossed => PartsInOrder)`,
  and `QueuePairsConsistent`: `Spec => [](~crossed => Consistent)`. Workers are at the same message or at neighbouring ones
  (`Turns`), a message that somebody has left is summed for everybody (`Past`), a worker
  has a bit in one set of a slot at most (`OneBit`), and each set of a slot is empty, being
  filled for a message that everybody is at or comes to, or full and some are one ahead (`Slots`). Bits are set from part 0 upwards
  (`InOrder`), because a message that is aggregated again begins with part 0. What
  is on an uplink, on a downlink or in the completion queue is of the current message or of
  the one before it, the older first (`UpFollows`, `DownFollows`, `CqFollows`);
* until one of the three events has happened, the values (`ValuesInvariant`, with
  `ValuesInv`): `ResultsAreExact`:
  `Spec => [](~crossed /\ ~exposed /\ ~misplaced => ResultsExact)`, for any number of packets
  per message, the shipped four included. A slot holds the sum of those whose
  bit is set (`SlotValues`), results carry full sums (`DownValues`), a completion stands for
  a message whose parts are all written (`CqValues`). The NIC puts a packet without an address
  where it has got to, so the invariant says that what it takes next continues the current
  result (`NicFollows`). The buffer (`BufFollows`): where
  w's bit is not set yet, an element is still w's own, or a late result of the message before
  has replaced it. In that case the rest of the message as it was first posted is still on
  the uplink, and gets to the switch before any repost (`Pristine`), unless nothing late is left
  (`NoDuplicates`) and all elements are w's own or results.
  Where the bit is set, a repost from an overwritten element is not added again. Finished
  messages are right (`OutExact`).

The three events are history variables, written where the thing happens and read by no
action, and each is a case in which section 4 shows the code wrong; the theorems say that
nothing else goes wrong, whatever the number of packets. `WrittenInPlace` says when the third
cannot happen: `PktsPerMsg <= 3 => (Spec => []~misplaced)`. Three packets leave only one part
that is neither the first nor the last, which ends the write, so that no two can change places.

`QuantizedExchangeProofs` proves, for every number of workers, every sequence of jobs, every
packet size and number of outstanding packets, both backends, both processors, in place or
not (`ExchangeAssumption`, `JobsAssumption`):

* `ExchangeInvariant`: `Spec => []ExchangeInv`;
* `ExchangeConsistent` (`Consistent`) and `ResendsAreSame` (`ResendIsSame`);
* `QuantizedSumsFit`: `LargestFit /\ Spec => []SumsFit`;
* `ResultsAreWithinRounding`: `LargestFit /\ IntSumsFit /\ Spec => []ResultsWithinRounding`.

What a packet carries (`Element`), what its result is (`ElementSum`) and the factor of a
chunk (`Factor`) are functions of the tensors alone. `PacketsOk`: the packets a thread has
started and not processed are in buffers of their own, one for each index modulo the batch,
and `got` counts those processed. `DataOk`: the buffer of a packet carries or returns what
it should, and elements and factors have their final value just when the packet that brings
them was processed; as the factor of a chunk comes back a batch before the chunk, it is
there when the chunk is sent. `SentOk`: the switch has at most one contribution of a worker
to each packet, it is what the tensor says, and it is not ahead of what the worker has
outstanding in that buffer. A resent packet reads the tensor again, of which results have
overwritten only what was processed. The sums over sets of workers are folds; what is needed
of them (monotone, one summand changed, a bound times the number of workers) is proved from
the recursion that the folds' definition chooses a solution of (`Sums`), whose solution
exists and is unique by least counterexamples (`LeastNat`), as the library's induction
theorems are not available. The rounding is half a unit for each worker when quantizing and
one floor division after.

`LargestFit` says that as many of the largest quantized values as there are workers fit an
integer: the scaling factor is made for that, rounding works against it. The lemma
`WideIntegers` derives it from `NumWorkers * 2^8 <= 2 * MaxInt`, that is, up to 2^24 workers
with 32 bits (floats of the model are below 2^8); the run's instance has it too.
`IntSumsFit` says that integer tensors add up without overflow; nothing in the code looks
after that, and the switch would wrap.

`SessionSetupProofs` proves, for any number of workers, runs and kills, any configurations
and machines (`SessionAssumption`):

* `SessionInvariant`: `Spec => []SessionInv`;
* `SyncServiceConsistent` (`Consistent`), `FitWorkersAreNotAborted` (`NobodyAborts`),
  `NobodySendsUnlessAllFit` (`NobodySendsWithoutAll`), `SwitchIsReady` (`SwitchReady`);
* `ThreadsPartitionWhatTheyHave` (`ThreadsPartition`), if slots have 16-bit numbers in
  every configuration, which `Validate` does not check.

`Local` says for each worker, from its place in the script, what it has been told, which
handler runs for it and what that handler has done to the tables. `BarrierOk`: the counter
of the open barrier is the number of those waiting at it; a worker that waits in a barrier
already over counts as past it, and so counted all workers have passed the same number of
barriers; in their scripts they are one apart at most (`StepsClose`). The list of broadcasts
is empty or has one entry, which everyone got in the run before or which this run's workers
are getting (`OldBroadcast`, `NewBroadcast`). `SwitchOk`: the root clears the switch in its
session request, before the first barrier; the other workers reach theirs only after it, so
the table grows and nothing is removed from it any more. After a kill nobody calls any more,
and the operator's reset leaves barrier and broadcasts as at the start (`AfterKill`).
`Delivered`: a result is on its way only when all contributions were sent. The layout is
arithmetic: `Validate` leaves each thread a whole number of messages, so intervals of a
thread's width do not overlap and add up to the whole (`Parts`, `SubParts` and the lemmas on
`Part`).

`FrameworkClientsProofs` proves, for any number of requests, calls and jobs, and any
contributions of the other workers (`ClientAssumption`, `BuffersAssumption`):

* `ClientsInvariant`: `Spec => []ClientsInv`;
* `ClientsConsistent` (`Consistent`), `DoneRequestsHoldSums` (`DoneHoldsSum`) and
  `ReturnedTensorsHoldSums` (`ReturnedHoldsSum`).

Every buffer belongs to one request or one call, by its name, and a job works on the buffers
of the one that submitted it. So the invariant is one about each request (`RequestOk`: which
buffers are allocated, what they hold and what its job says, in each of its states) and one
about each call (`CallOk`, with `StreamsOk` for what its two streams still have to do); a
step of one leaves the others' buffers alone. What ties them together is `Owned`: an
undecided job always has a request or a call that waits for it, and with that its memory.

`JobSchedulerProofs` proves, for every number of threads and every sequence of jobs, with
a stop at any moment or never (`SchedulerAssumption` alone):

* `InductiveInvariant`: `Spec => []IInv`;
* `Consistency`, `Lockstep`, `Complete`, `WaitReturns`: the run's properties
  `Consistent`, `JobsInLockstep`, `FinishedMeansComplete` and `WaitReturnsLate`;
* `Refinement`: `Spec => ImplementsService`.

The invariant has nine parts. `Phases`: how far the application is fixes the state of the
context and the flags. `QueueInOrder`: the queue holds the jobs after the last one
dispatched, and the first map counts the threads behind each. `Turns`: threads take jobs in
order, and one that is ahead of another is ahead by one job that the other has left.
`Rounds` is the barrier: the count is what is missing of a full round, and the threads it
has released are just those that have not taken the job of this round. `Reports`: the second
map counts the threads that have left a job, exact as long as no thread leaves without a
word. `StatusFits`: what each status says about where the threads are; `Accounts`: the
context counts the jobs that are open; `Efforts`: no thread leaves a slice it has not worked
on while the context runs. `JobsInLockstep` alone is not inductive: it says nothing about
who is inside the barrier.

Only model-checked: all liveness (`JobCompletes`, `AllJobsComplete`, `JobsEnd`,
`JobsComplete`, `RunsEnd`, `CallsEnd`), which is out of the prover's reach, as is `ENABLED`.
What `DpdkWorker` does after a first-batch timer or without a full window, `RdmaMessages`
after one of its three events, and the refused session are where the properties do not hold
(section 4). No module that is
proved about declares a recursive operator.

## 6. What is not modelled

Header layout and parsing, forwarding, ARP/ICMP, port configuration, the rest of the
CLI, statistics, benchmarks and examples: no state that the properties depend on.
EAL, flow rules and verbs calls that only fill structures: hardware set-up. The folded
pipeline of 1024-byte packets: four pipes with their own registers multiply the
states of `SlotProtocol` beyond TLC; its packets keep their order in the same way.
Send completions and the depth of completion queues. A torn increment of
`Job::next_id_` and two threads that submit while a third stops. What
RDMA workers do with late results that the run cuts off (`LateDuplicates`, section 4). Memory safety is not
visible in these models. Values wrap at 32 bits in the switch; the model counts
contributions, and addition modulo 2^32 is a function of these counts.

## 7. Plan

Done: `SwitchPipeline`, `AllReduceStream`, `SlotProtocol`, `DpdkWorker`, `RdmaMessages`,
`TimeoutQueue` with `DeadlineQueue`, `QuantizedExchange`, `JobScheduler` with `JobService`,
`WorkerLayout`, `SessionSetup` and the plugins, each state machine with proofs of all the
safety properties its run checks.

Left, in order of importance:

1. `RdmaMessages`: several queue pairs over one `TimeoutQueue`, send completions.
2. `JobScheduler`: a second submitting thread, submission during `Stop`.
3. The folded pipeline, refining the registers of `SwitchPipeline`.
4. `DpdkWorker` as an implementation of `AllReduceStream`, slice by slice.
