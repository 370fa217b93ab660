------------------------------ MODULE MCSettlement ------------------------------
(* An instance of Settlement for TLC. *)
EXTENDS MCPipeline, Settlement

CONSTANTS u1, u2

MCUnpinJobs == {DataJob(s) : s \in StorageRequests}
                  \union {BatchJob(b) : b \in Batches}

\* Every job has a cid of its own.
MCCidOf == [j \in UnpinJobs |-> j]
================================================================================
