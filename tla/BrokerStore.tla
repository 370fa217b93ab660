------------------------------ MODULE BrokerStore ------------------------------
(***************************************************************************)
(* The Postgres store of brokerd (cmd/brokerd/store).                      *)
(*                                                                         *)
(* The whole database is one record, and every store method is an operator *)
(* from a database to the database the method leaves behind.  brokerd runs *)
(* each handler in one serializable transaction (storeutil.CtxWithTx), so  *)
(* a handler is a composition of these operators and its commit replaces   *)
(* the database in one step.                                               *)
(*                                                                         *)
(* What is abstracted: a cid, an id or a wallet is a model value; tags,    *)
(* manifests, wallets, prices and time stamps are dropped; a PieceCid and  *)
(* the origin that auctions it (the key of the exclusion history) are one  *)
(* value of Pieces.  The unpin jobs are the sets of requests and batches   *)
(* for whose cid a job was ever created.                                   *)
(***************************************************************************)
EXTENDS Naturals, FiniteSets

CONSTANTS
    StorageRequests,   \* ids of storage requests
    Batches,           \* ids of batches
    Providers,         \* ids of storage providers
    Pieces,            \* (piece cid, origin) pairs
    NoBatch,           \* batch_id is NULL
    NoPiece            \* piece_cid is empty

ASSUME StoreAssumption ==
    /\ NoBatch \notin Batches
    /\ NoPiece \notin Pieces
    /\ IsFiniteSet(Providers)

--------------------------------------------------------------------------------
(* Rows. *)

RequestStatus == {"none", "batching", "preparing", "auctioning",
                  "deal_making", "success", "error"}

BatchStatus == {"none", "preparing", "auctioning", "deal_making",
                "success", "error"}

RequestRow == [status : RequestStatus, batch : Batches \union {NoBatch},
               rebatches : Nat]

BatchRow == [status : BatchStatus, rep : Nat, piece : Pieces \union {NoPiece},
             disallow : BOOLEAN, providers : SUBSET Providers, carURL : BOOLEAN]

\* An operation id: uuid.New() at each publish, so it names the publish.
AuctionOp == Nat \X Nat                  \* auction, how many times published
DealOp == Nat \X Providers \X Nat        \* deal set, provider, times published

\* A deal row: deal_id = 0 and no error ("pending"), deal_id > 0 and no error
\* ("confirmed"), or an error cause ("failed").  bid identifies the winning bid.
DealRow == [batch : Batches, bid : AuctionOp, sp : Providers,
            state : {"pending", "confirmed", "failed"}]

DBType == [requests   : [StorageRequests -> RequestRow],
           batches    : [Batches -> BatchRow],
           deals      : SUBSET DealRow,
           unpinData  : SUBSET StorageRequests,
           unpinBatch : SUBSET Batches,
           operations : SUBSET (AuctionOp \union DealOp)]

NoRequestRow == [status |-> "none", batch |-> NoBatch, rebatches |-> 0]

NoBatchRow == [status |-> "none", rep |-> 0, piece |-> NoPiece,
               disallow |-> FALSE, providers |-> {}, carURL |-> FALSE]

EmptyDB == [requests   |-> [s \in StorageRequests |-> NoRequestRow],
            batches    |-> [b \in Batches |-> NoBatchRow],
            deals      |-> {},
            unpinData  |-> {},
            unpinBatch |-> {},
            operations |-> {}]

--------------------------------------------------------------------------------
(* Queries. *)

\* SELECT id FROM storage_requests WHERE batch_id = b.
GetStorageRequestIDs(d, b) ==
    {s \in StorageRequests : d.requests[s].batch = b}

GetDeals(d, b) == {r \in d.deals : r.batch = b}

\* Mutant: only the providers whose deal was confirmed.
GetExcludedConfirmed(d, piece) ==
    {r.sp : r \in {x \in d.deals : /\ d.batches[x.batch].piece = piece
                                   /\ x.state = "confirmed"}}

\* Every provider with a deal row, of whatever outcome, in some batch of piece.
GetExcludedStorageProviders(d, piece) ==
    {r.sp : r \in {x \in d.deals : d.batches[x.batch].piece = piece}}

--------------------------------------------------------------------------------
(* Updates. *)

CreateStorageRequest(d, s, status) ==
    [d EXCEPT !.requests[s] = [NoRequestRow EXCEPT !.status = status]]

\* UPDATE storage_requests SET status WHERE batch_id = b.
UpdateStorageRequestsStatus(d, b, status) ==
    [d EXCEPT !.requests =
        [s \in StorageRequests |->
            IF d.requests[s].batch = b
            THEN [d.requests[s] EXCEPT !.status = status]
            ELSE d.requests[s]]]

\* UPDATE batches SET ... WHERE batch_id = b.
UpdateBatch(d, b, row) == [d EXCEPT !.batches[b] = row]

UpdateBatchStatus(d, b, status) ==
    UpdateBatch(d, b, [d.batches[b] EXCEPT !.status = status])

\* UPDATE storage_requests SET status, batch_id WHERE id = any(srs), whatever
\* batch a request was in before.
BatchUpdateStorageRequests(d, b, status, srs) ==
    [d EXCEPT !.requests =
        [s \in StorageRequests |->
            IF s \in srs
            THEN [d.requests[s] EXCEPT !.status = status, !.batch = b]
            ELSE d.requests[s]]]

\* A request takes the status of its batch.
CreateBatch(d, b, row, srs) ==
    BatchUpdateStorageRequests(UpdateBatch(d, b, row), b, row.status, srs)

\* Mutant: the requests keep their status.
BatchToAuctioningAlone(d, b, piece) ==
    UpdateBatch(d, b, [d.batches[b] EXCEPT !.status = "auctioning",
                                           !.piece = piece])

BatchToAuctioning(d, b, piece) ==
    UpdateStorageRequestsStatus(
        UpdateBatch(d, b, [d.batches[b] EXCEPT !.status = "auctioning",
                                               !.piece = piece]),
        b, "auctioning")

\* Mutant: the data of the released requests is unpinned too.
BatchErrorUnpinsData(d, b, rebatch) ==
    LET status == IF rebatch THEN "batching" ELSE "error"
        moved == UpdateStorageRequestsStatus(
                    UpdateBatchStatus(d, b, "error"), b, status)
    IN  [moved EXCEPT !.unpinData = @ \union GetStorageRequestIDs(d, b)]

\* SET rebatch_count = rebatch_count + 1 WHERE batch_id = b.
RebatchStorageRequests(d, b) ==
    [d EXCEPT !.requests =
        [s \in StorageRequests |->
            IF d.requests[s].batch = b
            THEN [d.requests[s] EXCEPT !.rebatches = @ + 1]
            ELSE d.requests[s]]]

CreateUnpinJobs(d, data, batches) ==
    [d EXCEPT !.unpinData = @ \union data, !.unpinBatch = @ \union batches]

\* Only a batch being auctioned or in deal making moves to error; a batch that
\* has already succeeded or errored is left as it is.  (For a batch in
\* preparation the method returns an error; no handler calls it for one.)
BatchError(d, b, rebatch) ==
    LET status == IF rebatch THEN "batching" ELSE "error"
        moved == UpdateStorageRequestsStatus(
                    UpdateBatchStatus(d, b, "error"), b, status)
        released == IF rebatch THEN RebatchStorageRequests(moved, b) ELSE moved
    IN  IF d.batches[b].status \notin {"auctioning", "deal_making"} THEN d
        ELSE IF d.batches[b].disallow THEN released
        ELSE CreateUnpinJobs(released, {}, {b})

\* No condition on the status the batch is in.
BatchSuccess(d, b) ==
    LET done == UpdateStorageRequestsStatus(
                    UpdateBatchStatus(d, b, "success"), b, "success")
    IN  IF d.batches[b].disallow THEN done
        ELSE CreateUnpinJobs(done, GetStorageRequestIDs(d, b), {b})

\* The winners that history does not exclude; a batch with targeted providers
\* excludes nobody.
AcceptedWinners(d, b, winners) ==
    IF d.batches[b].providers = {}
    THEN winners \ GetExcludedStorageProviders(d, d.batches[b].piece)
    ELSE winners

\* INSERT INTO deals.
CreateDeals(d, rows) == [d EXCEPT !.deals = @ \union rows]

AddDeals(d, b, bid, winners) ==
    LET rows == {[batch |-> b, bid |-> bid, sp |-> p, state |-> "pending"] :
                    p \in AcceptedWinners(d, b, winners)}
        added == CreateDeals(d, rows)
    IN  IF d.batches[b].status = "auctioning"
        THEN UpdateStorageRequestsStatus(
                UpdateBatchStatus(added, b, "deal_making"), b, "deal_making")
        ELSE added

\* UPDATE deals WHERE batch_id = b AND storage_provider_id = p.
SaveDeals(d, b, p, state) ==
    [d EXCEPT !.deals = {IF r.batch = b /\ r.sp = p
                         THEN [r EXCEPT !.state = state] ELSE r : r \in d.deals}]

\* INSERT INTO operations; the handler goes on only if the id was new.
OperationExists(d, op) == op \in d.operations

CreateOperation(d, op) == [d EXCEPT !.operations = @ \union {op}]

================================================================================
