-------------------------------- MODULE Unpinner --------------------------------
(***************************************************************************)
(* The unpinner of brokerd (cmd/brokerd/broker/unpinner.go): a daemon in   *)
(* every brokerd process that claims unpin jobs from a shared table,       *)
(* removes the pin from IPFS and deletes the job.                          *)
(*                                                                         *)
(* A claim that is older than stuckSeconds is taken over by another        *)
(* daemon.  The calls of a daemon have no time limit, so the one that lost *)
(* its claim may still be at work.  A retry delay (ready_at) may be over   *)
(* at any time.                                                            *)
(***************************************************************************)
EXTENDS Naturals

CONSTANTS
    UnpinJobs,         \* ids of unpin jobs
    CidOf,             \* job -> the cid it unpins
    Unpinners,         \* the brokerd processes
    MaxUnpinFaults     \* bound: restarts, failed or slow calls and writes

ASSUME UnpinnerAssumption ==
    /\ DOMAIN CidOf = UnpinJobs
    /\ Unpinners # {}
    /\ MaxUnpinFaults \in Nat

VARIABLES
    jobs,          \* the table
    stuckJobs,     \* jobs claimed more than stuckSeconds ago
    unpinner,      \* what each daemon is doing
    pins,          \* the recursive pins of IPFS
    unpinFaults

unpinVars == <<jobs, stuckJobs, unpinner, pins, unpinFaults>>

Resting == [step |-> "idle"]

Working(step, j) == [step |-> step, job |-> j]

UnpinInit ==
    /\ jobs = [j \in UnpinJobs |-> "none"]
    /\ stuckJobs = {}
    /\ unpinner = [u \in Unpinners |-> Resting]
    /\ unpinFaults = 0

UnpinFault ==
    /\ unpinFaults < MaxUnpinFaults
    /\ unpinFaults' = unpinFaults + 1

NoUnpinFault == unpinFaults' = unpinFaults

Turns(u, state) == unpinner' = [unpinner EXCEPT ![u] = state]

--------------------------------------------------------------------------------
(* The table. *)

\* INSERT INTO unpin_jobs, in the transaction that moves the batch.
CreateUnpinJob(js) ==
    jobs' = [j \in UnpinJobs |->
                IF j \in js /\ jobs[j] = "none" THEN "pending" ELSE jobs[j]]

\* NextUnpinJob: jobs that wait, and jobs that have been executing for too long.
NextUnpinJob(j) ==
    \/ jobs[j] = "pending"
    \/ jobs[j] = "executing" /\ j \in stuckJobs

UnpinJobGetNext(u, j) ==
    /\ unpinner[u] = Resting
    /\ NextUnpinJob(j)
    /\ jobs' = [jobs EXCEPT ![j] = "executing"]
    /\ stuckJobs' = stuckJobs \ {j}
    /\ Turns(u, Working("unpin", j))
    /\ UNCHANGED <<pins, unpinFaults>>

\* UPDATE and DELETE ... WHERE id = j AND executing: a daemon that lost its claim
\* may find the job pending, or gone, and then changes nothing.
MoveExecuting(j, status) ==
    /\ jobs' = IF jobs[j] = "executing" THEN [jobs EXCEPT ![j] = status] ELSE jobs
    /\ stuckJobs' = stuckJobs \ {j}

--------------------------------------------------------------------------------
(* The daemon. *)

\* Mutant: an error counts as already unpinned, whatever it is.
UnpinCidAnyError(u) ==
    /\ unpinner[u].step = "unpin"
    /\ LET j == unpinner[u].job
       IN  \/ /\ pins' = pins \ {CidOf[j]}
              /\ Turns(u, Working("delete", j))
              /\ NoUnpinFault
           \/ /\ pins' = pins
              /\ Turns(u, Working("delete", j))
              /\ UnpinFault
    /\ UNCHANGED <<jobs, stuckJobs>>

\* unpinCid: the error for a cid that is not pinned (code 0) counts as success;
\* after any other error, before or after the pin was removed, the job is retried.
UnpinCid(u) ==
    /\ unpinner[u].step = "unpin"
    /\ LET j == unpinner[u].job
       IN  \/ /\ pins' = pins \ {CidOf[j]}
              /\ Turns(u, Working("delete", j))
              /\ NoUnpinFault
           \/ /\ pins' \in {pins, pins \ {CidOf[j]}}
              /\ Turns(u, Working("retry", j))
              /\ UnpinFault
    /\ UNCHANGED <<jobs, stuckJobs>>

DeleteExecuting(u) ==
    /\ unpinner[u].step = "delete"
    /\ \/ /\ MoveExecuting(unpinner[u].job, "deleted")
          /\ Turns(u, Resting)
          /\ NoUnpinFault
       \/ /\ Turns(u, Working("retry", unpinner[u].job))
          /\ UnpinFault
          /\ UNCHANGED <<jobs, stuckJobs>>
    /\ UNCHANGED pins

\* A failed write is logged; the job stays executing until it counts as stuck.
UnpinJobMoveToPending(u) ==
    /\ unpinner[u].step = "retry"
    /\ Turns(u, Resting)
    /\ \/ MoveExecuting(unpinner[u].job, "pending") /\ NoUnpinFault
       \/ UNCHANGED <<jobs, stuckJobs>> /\ UnpinFault
    /\ UNCHANGED pins

RestartUnpinner(u) ==
    /\ unpinner[u] # Resting
    /\ Turns(u, Resting)
    /\ UnpinFault
    /\ UNCHANGED <<jobs, stuckJobs, pins>>

\* stuckSeconds pass; that a daemon is still at work on the job is a fault.
ClaimExpires(j) ==
    /\ jobs[j] = "executing"
    /\ j \notin stuckJobs
    /\ stuckJobs' = stuckJobs \union {j}
    /\ IF \E u \in Unpinners : unpinner[u] # Resting /\ unpinner[u].job = j
       THEN UnpinFault ELSE NoUnpinFault
    /\ UNCHANGED <<jobs, unpinner, pins>>

--------------------------------------------------------------------------------
UnpinWork(u, j) ==
    \/ UnpinJobGetNext(u, j)
    \/ UnpinCid(u)
    \/ DeleteExecuting(u)
    \/ UnpinJobMoveToPending(u)

UnpinNext ==
    \/ \E u \in Unpinners, j \in UnpinJobs : UnpinWork(u, j)
    \/ \E u \in Unpinners : RestartUnpinner(u)
    \/ \E j \in UnpinJobs : ClaimExpires(j)

\* The daemons tick for ever and take the job that has waited longest (ORDER BY
\* ready_at), and time passes.
UnpinFairness ==
    \A j \in UnpinJobs :
        /\ \A u \in Unpinners : SF_unpinVars(UnpinWork(u, j))
        /\ WF_unpinVars(ClaimExpires(j))

================================================================================
