--------------------------- MODULE MCFrameworkClients ---------------------------
(* Two requests of NCCL and one or two calls of PyTorch; the other workers add  *)
(* nothing, little, or what takes an 8 bit element past its range.              *)
EXTENDS FrameworkClients

MCRequests == {1, 2}
MCDataTypes == {"ncclUint8", "ncclInt32", "ncclFloat16"}
MCOperations == {"ncclSum", "ncclMax"}
MCWorks == {1}
MCOthers == {0, 200}
MCBuffers == NcclBuffers \union TorchBuffers
=============================================================================
