--------------------------------- MODULE Piecer ---------------------------------
(***************************************************************************)
(* piecerd: prepares the batches of new-batch-created and announces them   *)
(* on new-batch-prepared (cmd/piecerd).                                    *)
(*                                                                         *)
(* The processes share the table unprepared_batches.  Each has one daemon  *)
(* that claims a batch, prepares and announces it, and moves it to "done", *)
(* or back to "pending" when something fails.  A batch that is executing   *)
(* for longer than stuckSeconds may be claimed again.                      *)
(*                                                                         *)
(* What is abstracted: what is computed (the CAR file, commP, padding), and *)
(* the order in which GetNextPending takes batches.                        *)
(***************************************************************************)
EXTENDS Integers, FiniteSets

CONSTANTS
    Batches,
    Processes,
    MaxFaults     \* bound: failed calls, crashes, and batches that take too long

ASSUME PiecerAssumption ==
    /\ IsFiniteSet(Processes) /\ Processes # {}
    /\ MaxFaults \in Nat

VARIABLES
    rows,         \* the table unprepared_batches
    newRequest,   \* the channel of each process that wakes up its daemon
    daemon,       \* what each daemon is doing
    prepared,     \* how often each batch was announced as prepared
    faults

vars == <<rows, newRequest, daemon, prepared, faults>>

\* ready: ready_at has passed.  stuck: not updated for stuckSeconds.
Row == [status : {"none", "pending", "executing", "done"}, ready : BOOLEAN,
        stuck : BOOLEAN]

At(step) == [step |-> step]

With(step, b) == [step |-> step, batch |-> b]

Init ==
    /\ rows = [b \in Batches |->
                 [status |-> "none", ready |-> TRUE, stuck |-> FALSE]]
    /\ newRequest = [p \in Processes |-> 0]
    /\ daemon = [p \in Processes |-> At("starting")]
    /\ prepared = [b \in Batches |-> 0]
    /\ faults = 0

Fault == faults < MaxFaults /\ faults' = faults + 1

NoFault == faults' = faults

Become(p, state) == daemon' = [daemon EXCEPT ![p] = state]

--------------------------------------------------------------------------------
CreateUnpreparedBatch(b) == [rows EXCEPT ![b].status = "pending"]

\* OnNewBatchCreated: a batch that exists is acked.  The signal is dropped when
\* the channel (of capacity one) is full.
ReadyToPrepare(p, b) ==
    /\ rows[b].status = "none"
    /\ rows' = CreateUnpreparedBatch(b)
    /\ newRequest' = [newRequest EXCEPT ![p] = 1]
    /\ UNCHANGED <<daemon, prepared, faults>>

\* The daemon first sends itself a signal, and waits while the channel is full.
StartDaemon(p) ==
    /\ daemon[p] = At("starting")
    /\ newRequest[p] = 0
    /\ newRequest' = [newRequest EXCEPT ![p] = 1]
    /\ Become(p, At("waiting"))
    /\ UNCHANGED <<rows, prepared, faults>>

\* A signal is received, or daemonFrequency has passed.
WakeUp(p) ==
    /\ daemon[p] = At("waiting")
    /\ newRequest' \in {newRequest, [newRequest EXCEPT ![p] = 0]}
    /\ Become(p, At("polling"))
    /\ UNCHANGED <<rows, prepared, faults>>

ClaimablePending(b) ==
    rows[b].status = "pending" /\ rows[b].ready

Claimable(b) ==
    \/ rows[b].status = "pending" /\ rows[b].ready
    \/ rows[b].status = "executing" /\ rows[b].stuck

GetNextPending(p) ==
    /\ daemon[p] = At("polling")
    /\ \/ \E b \in Batches :
             /\ Claimable(b)
             /\ rows' = [rows EXCEPT ![b].status = "executing", ![b].stuck = FALSE]
             /\ Become(p, With("preparing", b))
             /\ NoFault
       \/ /\ \A b \in Batches : ~Claimable(b)
          /\ Become(p, At("waiting"))
          /\ NoFault /\ UNCHANGED rows
       \/ Become(p, At("waiting")) /\ Fault /\ UNCHANGED rows
    /\ UNCHANGED <<newRequest, prepared>>

--------------------------------------------------------------------------------
\* Mutant: an error is logged, and the batch is done.
PrepareIgnoresError(p) ==
    /\ daemon[p].step = "preparing"
    /\ LET b == daemon[p].batch
       IN  /\ prepared' \in {prepared, [prepared EXCEPT ![b] = @ + 1]}
           /\ Become(p, With("moving", b))
    /\ IF prepared' = prepared THEN Fault ELSE NoFault
    /\ UNCHANGED <<rows, newRequest>>

\* prepare(): the batch is announced, or something fails: before it was announced,
\* or the publish itself, of which the message may have got through.
Prepare(p) ==
    /\ daemon[p].step = "preparing"
    /\ LET b == daemon[p].batch
           announced == [prepared EXCEPT ![b] = @ + 1]
       IN  \/ prepared' = announced /\ NoFault /\ Become(p, With("moving", b))
           \/ /\ prepared' \in {prepared, announced}
              /\ Fault
              /\ Become(p, With("failed", b))
    /\ UNCHANGED <<rows, newRequest>>

\* MoveToStatus, with a retry delay for "pending".  The status of the row is not
\* looked at.
MoveToStatus(b, status) ==
    [rows EXCEPT ![b].status = status, ![b].ready = (status = "done"),
                 ![b].stuck = FALSE]

\* The update fails, or its answer is lost.
MoveToDone(p) ==
    /\ daemon[p].step = "moving"
    /\ LET b == daemon[p].batch
           moved == MoveToStatus(b, "done")
       IN  \/ rows' = moved /\ NoFault /\ Become(p, At("polling"))
           \/ rows' \in {rows, moved} /\ Fault /\ Become(p, With("failed", b))
    /\ UNCHANGED <<newRequest, prepared>>

MoveToPending(p) ==
    /\ daemon[p].step = "failed"
    /\ \/ rows' = MoveToStatus(daemon[p].batch, "pending") /\ NoFault
       \/ rows' = rows /\ Fault
    /\ Become(p, At("waiting"))
    /\ UNCHANGED <<newRequest, prepared>>

--------------------------------------------------------------------------------
\* The process stops, or crashes, and starts again; with its context cancelled
\* nothing more is saved.
Restart(p) ==
    /\ Fault
    /\ Become(p, At("starting"))
    /\ newRequest' = [newRequest EXCEPT ![p] = 0]
    /\ UNCHANGED <<rows, prepared>>

RetryDelayPasses(b) ==
    /\ ~rows[b].ready
    /\ rows' = [rows EXCEPT ![b].ready = TRUE]
    /\ UNCHANGED <<newRequest, daemon, prepared, faults>>

InProgress(b) ==
    \E p \in Processes :
        daemon[p].step \in {"preparing", "moving", "failed"} /\ daemon[p].batch = b

\* stuckSeconds pass; the daemon that works on the batch may just be slow.
BecomesStuck(b) ==
    /\ rows[b].status = "executing" /\ ~rows[b].stuck
    /\ rows' = [rows EXCEPT ![b].stuck = TRUE]
    /\ IF InProgress(b) THEN Fault ELSE NoFault
    /\ UNCHANGED <<newRequest, daemon, prepared>>

Daemon(p) ==
    \/ StartDaemon(p) \/ WakeUp(p) \/ GetNextPending(p)
    \/ Prepare(p) \/ MoveToDone(p) \/ MoveToPending(p)

Time(b) == RetryDelayPasses(b) \/ BecomesStuck(b)

Next ==
    \/ \E p \in Processes, b \in Batches : ReadyToPrepare(p, b)
    \/ \E p \in Processes : Daemon(p) \/ Restart(p)
    \/ \E b \in Batches : Time(b)

Spec == Init /\ [][Next]_vars

\* The daemons run, every call returns, and time passes.
FairSpec ==
    /\ Spec
    /\ \A p \in Processes : WF_vars(Daemon(p))
    /\ \A b \in Batches : WF_vars(Time(b))

--------------------------------------------------------------------------------
(* Properties. *)

\* A batch is done only when brokerd has been told that it is prepared, whatever
\* failed before; and every repeated announcement has a failure as its cause: two
\* daemons don't prepare the same batch of their own accord.
DoneIsPrepared ==
    \A b \in Batches :
        /\ rows[b].status = "done" => prepared[b] > 0
        /\ prepared[b] <= 1 + faults

\* The first signal was sent before the daemon started, which then waits for ever.
Blocked(p) == daemon[p] = At("starting") /\ newRequest[p] = 1

\* "The caller is responsible for updating the status later to Pending on error,
\* or Done on success" (GetNextPending): every batch ends as done, through crashes
\* and failed calls, as long as the daemon of one process gets started.
BatchPrepared ==
    \A b \in Batches :
        rows[b].status # "none" ~>
            [](rows[b].status = "done") \/ \A p \in Processes : Blocked(p)

================================================================================
