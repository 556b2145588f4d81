------------------------------ MODULE WorkerLayout ------------------------------
(* What a configuration gives every worker thread: the checks and roundings of *)
(* Config::Validate, and the queue pairs, buffers and switch slots that a      *)
(* thread computes from its own id alone. The threads never negotiate what is  *)
(* whose, so the arithmetic of several classes has to agree.                   *)
EXTENDS Integers, FiniteSets, FiniteSetsExt, TLC

CONSTANT HugePage      \* bytes of a huge page

ASSUME HugePageAssumption == HugePage \in Nat \ {0}

\* RDMA_SWITCH_ELEMENT_SIZE: bytes of an element on the wire.
ElementSize == 4

\* The width of a switch slot number in a packet or in a remote key.
SlotNumbers == 2 ^ 16

(* The options of a configuration file that the layout depends on; cores is    *)
(* the number of cores of backend.dpdk.cores.                                   *)
ConfigType ==
  [backend : {"dpdk", "rdma"}, num_workers : Nat, num_worker_threads : Nat \ {0},
   max_outstanding_packets : Nat, packet_numel : Nat \ {0}, msg_numel : Nat,
   cores : Nat, device_name : STRING, device_port_id : Nat, gid_index : Nat]

(* Config::LoadFromFile: the options that a file leaves out have defaults.      *)
LoadFromFile(options) ==
  options @@ [num_workers |-> 1, num_worker_threads |-> 4,
              max_outstanding_packets |-> 256, packet_numel |-> 1024, msg_numel |-> 1024,
              cores |-> 4, device_name |-> "mlx5_0", device_port_id |-> 1, gid_index |-> 3]

-----------------------------------------------------------------------------
(* Config::Validate.                                                            *)

\* The configurations that end the program.
Fatal(c) ==
  \/ c.max_outstanding_packets \div c.num_worker_threads = 0
  \/ c.packet_numel \notin {64, 256}
  \/ c.backend = "rdma" /\ c.msg_numel < c.packet_numel

\* The multiple of unit, at least count * unit, that n is replaced by.
RoundTo(n, unit, count) ==
  LET low == count * unit
      high == (count + 1) * unit
  IN  IF n % unit = 0 THEN n
      ELSE IF low < n /\ n - low > high - n THEN high ELSE low

PacketsPerMessage(c) == c.msg_numel \div c.packet_numel

(* The configuration after validation. The outstanding packets are first       *)
(* divided between the threads; the RDMA backend then rounds the message to    *)
(* whole packets and gives every thread whole messages, at least one.          *)
Validated(c) ==
  LET threads == c.num_worker_threads
      divided == [c EXCEPT !.max_outstanding_packets =
                    RoundTo(@, threads, @ \div threads)]
      unit == threads * PacketsPerMessage(c)
  IN  IF c.backend # "rdma" THEN divided
      ELSE [divided EXCEPT
              !.msg_numel = PacketsPerMessage(c) * c.packet_numel,
              !.max_outstanding_packets = RoundTo(@, unit, Max({1, @ \div unit}))]

-----------------------------------------------------------------------------
(* RdmaConnection: one queue pair per outstanding message, spread over threads. *)

NumQueuePairs(c) == c.max_outstanding_packets \div PacketsPerMessage(c)

QueuePairsPerThread(c) == NumQueuePairs(c) \div c.num_worker_threads

\* The queue pairs (and remote keys) that thread t is handed.
ThreadQueuePairs(c, t) ==
  LET first == QueuePairsPerThread(c) * t
  IN  first .. first + QueuePairsPerThread(c) - 1

\* The completion queue, one per thread, that queue pair i reports to.
CompletionQueue(c, i) == i \div QueuePairsPerThread(c)

\* Bytes of the registered region: what is outstanding, in whole huge pages.
MemoryLength(c) ==
  LET needed == c.packet_numel * c.max_outstanding_packets * ElementSize
  IN  ((needed + HugePage - 1) \div HugePage) * HugePage

\* The offset of thread t's part of the region.
ThreadMemory(c, t) == t * (MemoryLength(c) \div c.num_worker_threads)

\* RdmaWorkerThread: the bytes that the thread's q-th queue pair sends from.
MessageBytes(c, t, q) ==
  LET size == c.msg_numel * ElementSize
      start == ThreadMemory(c, t) + q * size
  IN  [first |-> start, last |-> start + size - 1]

\* (Broken on purpose: counts slots of messages, not of packets.)
PoolIndexOfMessageBug(c, t, q) == ((QueuePairsPerThread(c) * t + q) * 2 + 1) % SlotNumbers

(* The pool index that goes into the low bits of the remote key, with the set  *)
(* bit on: a message of n packets uses n slots of each of the two sets.        *)
PoolIndex(c, t, q) ==
  ((QueuePairsPerThread(c) * t + q) * PacketsPerMessage(c) * 2 + 1) % SlotNumbers

MessageSlots(c, t, q) ==
  LET base == PoolIndex(c, t, q) - 1
  IN  base .. base + 2 * PacketsPerMessage(c) - 1

-----------------------------------------------------------------------------
(* DpdkWorkerThread: the slots are numbered within the thread's own range.      *)

PoolIndexStart(c, t) == 2 * (c.max_outstanding_packets \div c.num_worker_threads) * t

ThreadSlots(c, t) ==
  IF c.backend = "rdma"
  THEN UNION {MessageSlots(c, t, q) : q \in 0 .. QueuePairsPerThread(c) - 1}
  ELSE PoolIndexStart(c, t) ..
       PoolIndexStart(c, t) + 2 * (c.max_outstanding_packets \div c.num_worker_threads) - 1
=============================================================================
