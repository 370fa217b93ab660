--------------------------------- MODULE Packer ---------------------------------
(***************************************************************************)
(* packerd (cmd/packerd): storage requests are added to open batches, a    *)
(* batch that is large or old enough is claimed by a daemon, turned into a *)
(* DAG, marked done and announced on new-batch-created.                    *)
(*                                                                         *)
(* Batch ids are the indices of batches: created_at orders batches the way *)
(* their ids do.  The daemons are the replicas of packerd, which share one *)
(* database.  pack() runs under a context of one hour, and a batch may be  *)
(* claimed again one hour (stuckSeconds) after it was claimed: the context *)
(* is the older of the two, so it has expired by then.                     *)
(***************************************************************************)
EXTENDS Integers, Sequences, FiniteSetsExt

CONSTANTS
    Messages,       \* the ready-to-batch messages: an operation and its items
    BatchMaxSize,   \* calcBatchLimit(sectorSize)
    BatchMinSize,   \* a batch of this size is ready at once
    MinTimedSize,   \* the smallest batch that is closed when it is old (1 MiB)
    Daemons,
    MaxBatches,     \* bound: no more batches than items
    MaxFaults       \* bound: errors, crashes and expired contexts

ASSUME PackerAssumption ==
    /\ \A m \in Messages : m.items \in Seq([sr : STRING, size : Nat \ {0},
                                            origin : STRING])
    /\ {BatchMaxSize, BatchMinSize, MinTimedSize, MaxBatches, MaxFaults}
          \subseteq Nat

VARIABLES
    store,       \* the database: batches and rows
    daemon,      \* where each daemon is in pack()
    stuck,       \* the batches that were claimed an hour ago
    announced,   \* the new-batch-created messages, in order
    faults

vars == <<store, daemon, stuck, announced, faults>>

Row == [op : {m.op : m \in Messages}, sr : STRING, batch : Nat, size : Nat]
Batch == [status : {"open", "ready", "executing", "done"}, size : Nat,
          origin : STRING]

Idle == [step |-> "idle"]

Init ==
    /\ store = [batches |-> <<>>, rows |-> {}]
    /\ daemon = [w \in Daemons |-> Idle]
    /\ stuck = {}
    /\ announced = <<>>
    /\ faults = 0

Fault == faults < MaxFaults /\ faults' = faults + 1

SetStatus(d, bs, status) ==
    [d EXCEPT !.batches = [b \in DOMAIN d.batches |->
        IF b \in bs THEN [d.batches[b] EXCEPT !.status = status]
        ELSE d.batches[b]]]

--------------------------------------------------------------------------------
(* ready-to-batch messages. *)

\* Mutants: a batch that is closed takes requests; the new request doesn't
\* count.
FindAnyBatchWithSpace(d, item) ==
    {b \in DOMAIN d.batches : /\ d.batches[b].size <= BatchMaxSize - item.size
                              /\ d.batches[b].origin = item.origin}
FindOpenBatchWithSomeSpace(d, item) ==
    {b \in DOMAIN d.batches : /\ d.batches[b].status = "open"
                              /\ d.batches[b].size <= BatchMaxSize
                              /\ d.batches[b].origin = item.origin}

FindOpenBatchWithSpace(d, item) ==
    {b \in DOMAIN d.batches : /\ d.batches[b].status = "open"
                              /\ d.batches[b].size <= BatchMaxSize - item.size
                              /\ d.batches[b].origin = item.origin}

CreateOpenBatch(d, origin) ==
    [d EXCEPT !.batches = Append(@, [status |-> "open", size |-> 0, origin |-> origin])]

UpdateBatchSize(d, b, size) == [d EXCEPT !.batches[b].size = size]

AddStorageRequestInBatch(d, op, item, b) ==
    [d EXCEPT !.rows = @ \union {[op |-> op, sr |-> item.sr, batch |-> b,
                                  size |-> item.size]}]

\* The oldest open batch with space, or a new one.
AddStorageRequestToOpenBatch(d, op, item) ==
    LET found == FindOpenBatchWithSpace(d, item)
        opened == IF found # {} THEN d ELSE CreateOpenBatch(d, item.origin)
        b == IF found # {} THEN Min(found) ELSE Len(opened.batches)
        total == opened.batches[b].size + item.size
        added == AddStorageRequestInBatch(UpdateBatchSize(opened, b, total), op, item, b)
    IN  IF total >= BatchMinSize THEN SetStatus(added, {b}, "ready") ELSE added

\* The items of a message are added in one transaction; a row that is there
\* already (its key is the operation and the request) undoes all of it.
ReadyToBatch(m) ==
    /\ \A r \in store.rows : r.op # m.op
    /\ LET added[i \in 0..Len(m.items)] ==
               IF i = 0 THEN store
               ELSE AddStorageRequestToOpenBatch(added[i - 1], m.op, m.items[i])
       IN  store' = added[Len(m.items)]
    /\ UNCHANGED <<daemon, stuck, announced, faults>>

--------------------------------------------------------------------------------
(* The daemon. *)

\* pack() first closes the open batches that have waited long enough: no batch
\* below 1 MiB ever has.
Closable == {b \in DOMAIN store.batches :
                /\ store.batches[b].status = "open"
                /\ store.batches[b].size >= MinTimedSize}

TimeBasedBatchClose(w, old) ==
    /\ daemon[w].step = "idle"
    /\ store' = SetStatus(store, old, "ready")
    /\ daemon' = [daemon EXCEPT ![w] = [step |-> "next"]]
    /\ UNCHANGED <<stuck, announced, faults>>

\* Mutant: a claim never expires.
ClaimableReady == {b \in DOMAIN store.batches : store.batches[b].status = "ready"}

Claimable == {b \in DOMAIN store.batches :
                 \/ store.batches[b].status = "ready"
                 \/ store.batches[b].status = "executing" /\ b \in stuck}

GetStorageRequestsFromBatch(b) ==
    {<<r.op, r.sr>> : r \in {x \in store.rows : x.batch = b}}

\* The claim and the requests of the batch, read in one transaction.
GetNextReadyBatch(w) ==
    /\ daemon[w].step = "next"
    /\ \/ \E b \in Claimable :
            /\ store' = SetStatus(store, {b}, "executing")
            /\ stuck' = stuck \ {b}
            /\ daemon' = [daemon EXCEPT ![w] =
                  [step    |-> "packing",
                   batch   |-> b,
                   entries |-> GetStorageRequestsFromBatch(b),
                   expired |-> FALSE]]
       \/ /\ Claimable = {}
          /\ daemon' = [daemon EXCEPT ![w] = Idle]
          /\ UNCHANGED <<store, stuck>>
    /\ UNCHANGED <<announced, faults>>

\* createDAGForBatch fails: the batch stays executing.
CreateDAGFails(w) ==
    /\ daemon[w].step = "packing"
    /\ IF daemon[w].expired THEN faults' = faults ELSE Fault
    /\ daemon' = [daemon EXCEPT ![w] = Idle]
    /\ UNCHANGED <<store, stuck, announced>>

\* Under an expired context pinBatchDAG never gets the confirmation it waits
\* for, and it never stops waiting.
PinNeverConfirmed(w) ==
    /\ daemon[w].step = "packing"
    /\ daemon[w].expired
    /\ daemon' = [daemon EXCEPT ![w] = [step |-> "hung"]]
    /\ UNCHANGED <<store, stuck, announced, faults>>

\* Mutant: pack() runs without a time limit.
MoveBatchToStatusLate(w) ==
    /\ daemon[w].step = "packing"
    /\ store' = SetStatus(store, {daemon[w].batch}, "done")
    /\ daemon' = [daemon EXCEPT ![w].step = "publishing"]
    /\ UNCHANGED <<stuck, announced, faults>>

MoveBatchToStatus(w) ==
    /\ daemon[w].step = "packing"
    /\ ~daemon[w].expired
    /\ store' = SetStatus(store, {daemon[w].batch}, "done")
    /\ daemon' = [daemon EXCEPT ![w].step = "publishing"]
    /\ UNCHANGED <<stuck, announced, faults>>

\* Mutant: the message is not published.
PublishNothing(w) ==
    /\ daemon[w].step = "publishing"
    /\ daemon' = [daemon EXCEPT ![w] = Idle]
    /\ UNCHANGED <<store, stuck, announced, faults>>

PublishNewBatchCreated(w) ==
    /\ daemon[w].step = "publishing"
    /\ announced' = Append(announced, [batch   |-> daemon[w].batch,
                                       entries |-> daemon[w].entries])
    /\ daemon' = [daemon EXCEPT ![w] = Idle]
    /\ UNCHANGED <<store, stuck, faults>>

--------------------------------------------------------------------------------
(* Faults. *)

\* The message of a batch that is done is not published.
PublishFails(w) ==
    /\ daemon[w].step = "publishing"
    /\ Fault
    /\ daemon' = [daemon EXCEPT ![w] = Idle]
    /\ UNCHANGED <<store, stuck, announced>>

Restart(w) ==
    /\ daemon[w] # Idle
    /\ Fault
    /\ daemon' = [daemon EXCEPT ![w] = Idle]
    /\ UNCHANGED <<store, stuck, announced>>

\* The daemons at work on batch b.
Packing(b) == {w \in Daemons : /\ daemon[w].step = "packing"
                               /\ daemon[w].batch = b
                               /\ ~daemon[w].expired}

\* An hour passes after batch b was claimed; a daemon still at work on it has
\* been too slow.
HourPasses(b) ==
    /\ store.batches[b].status = "executing"
    /\ b \notin stuck
    /\ stuck' = stuck \union {b}
    /\ IF Packing(b) = {} THEN faults' = faults ELSE Fault
    /\ daemon' = [w \in Daemons |->
          IF w \in Packing(b) THEN [daemon[w] EXCEPT !.expired = TRUE]
          ELSE daemon[w]]
    /\ UNCHANGED <<store, announced>>

--------------------------------------------------------------------------------
Daemon(w) ==
    \/ \E old \in SUBSET Closable : TimeBasedBatchClose(w, old)
    \/ GetNextReadyBatch(w)
    \/ MoveBatchToStatus(w)
    \/ PublishNewBatchCreated(w)

Next ==
    \/ \E m \in Messages : ReadyToBatch(m)
    \/ \E w \in Daemons : \/ Daemon(w) \/ CreateDAGFails(w)
                          \/ PinNeverConfirmed(w) \/ PublishFails(w)
                          \/ Restart(w)
    \/ \E b \in DOMAIN store.batches : HourPasses(b)

Spec == Init /\ [][Next]_vars

\* Messages are redelivered until they are acked, the daemons keep running, and
\* time passes: an open batch grows old before some tick of a daemon.
FairSpec ==
    /\ Spec
    /\ \A m \in Messages : WF_vars(ReadyToBatch(m))
    /\ \A w \in Daemons : WF_vars(Daemon(w))
    /\ \A b \in 1..MaxBatches :
          /\ WF_vars(b \in DOMAIN store.batches /\ HourPasses(b))
          /\ SF_vars(\E w \in Daemons, old \in SUBSET Closable :
                        b \in old /\ TimeBasedBatchClose(w, old))

--------------------------------------------------------------------------------
(* Properties. *)

RowsOf(b) == {r \in store.rows : r.batch = b}

\* total_size is the size of the requests in the batch, and a batch with more
\* than one request fits a sector (AddStorageRequestToOpenBatch computes the
\* one from a row it has read and checks the other before it adds).
BatchFits ==
    \A b \in DOMAIN store.batches :
        /\ store.batches[b].size = MapThenSumSet(LAMBDA r : r.size, RowsOf(b))
        /\ Cardinality(RowsOf(b)) > 1 => store.batches[b].size <= BatchMaxSize

\* A closed batch takes no more requests: the daemon reads them when it claims
\* the batch and announces them when the DAG is made.
ClosedIsFrozen ==
    [][\A b \in DOMAIN store.batches : store.batches[b].status # "open" =>
          RowsOf(b)' = RowsOf(b)]_vars

Promise == INSTANCE Packing WITH
    BatchIDs <- 1..MaxBatches,
    Entries <- UNION {{<<m.op, m.items[i].sr>> : i \in DOMAIN m.items} :
                          m \in Messages}

\* packerd announces every batch at most once, and every entry in at most one
\* batch, although a batch may be claimed by several daemons in turn.
AnnouncesOnce == Promise!Spec

DoneBatches == {b \in DOMAIN store.batches : store.batches[b].status = "done"}

Announced == {announced[i].batch : i \in DOMAIN announced}

Announcing == {daemon[w].batch : w \in {x \in Daemons : daemon[x].step = "publishing"}}

\* A batch is announced only when it is done, and with all of its requests.  Without
\* faults, a batch that pack() marked done is announced, or is about to be: no claim
\* that changes hands loses the message.
DoneIsAnnounced ==
    /\ \A i \in DOMAIN announced :
          /\ store.batches[announced[i].batch].status = "done"
          /\ announced[i].entries = {<<r.op, r.sr>> : r \in RowsOf(announced[i].batch)}
    /\ faults = 0 => DoneBatches \subseteq Announced \union Announcing

\* A batch of at least 1 MiB is packed in the end, even when a daemon fails,
\* restarts or hangs on the way: the claim expires and another one takes over.
LargeBatchPacked ==
    \A b \in 1..MaxBatches :
        b \in DOMAIN store.batches /\ store.batches[b].size >= MinTimedSize
            ~> b \in DOMAIN store.batches /\ store.batches[b].status = "done"

================================================================================
