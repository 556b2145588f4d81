---------------------------- MODULE MCSessionSetup ----------------------------
(* Three workers of either backend with one layout, and single workers with    *)
(* the layouts that the roundings of the configuration tell apart.             *)
EXTENDS SessionSetup

File(backend, workers, threads, outstanding, packet, message, cores) ==
  [backend |-> backend, num_workers |-> workers, num_worker_threads |-> threads,
   max_outstanding_packets |-> outstanding, packet_numel |-> packet,
   msg_numel |-> message, cores |-> cores]

\* Options that a file may leave to their defaults; the defaults alone are refused.
Short(backend, packet) == [backend |-> backend, packet_numel |-> packet]

MCFiles ==
  {[backend |-> "rdma"], Short("rdma", 256), Short("dpdk", 64)} \union
  {File("rdma", 3, 1, 2, 64, 128, 1), File("dpdk", 3, 2, 4, 64, 64, 2)}
  \union {File("rdma", 1, t, n, 64, m, t) : t \in 1 .. 3, n \in 1 .. 9, m \in {48, 64, 130, 192}}
  \union {File("dpdk", 1, t, n, p, 64, 2) : t \in 1 .. 3, n \in 1 .. 7, p \in {64, 100}}

\* A machine in order with a device of another name, one without a file, and one
\* with two devices, neither of them the one that is named.
InOrder == [file |-> TRUE, devices |-> {"mlx5_1"}, ports |-> 1, gids |-> 0 .. 3]

MCHosts ==
  {InOrder, [InOrder EXCEPT !.file = FALSE], [InOrder EXCEPT !.devices = {"mlx5_1", "mlx5_2"}]}
=============================================================================
