----------------------------- MODULE PipelineProofs -----------------------------
(***************************************************************************)
(* Proofs about Pipeline, for every set of requests, batches, providers    *)
(* and pieces and every bound, with faults and repeated reports: types,    *)
(* the status of requests, no double deals (Inv); pending deals are        *)
(* announced (AnnouncedInv); success meets the replication factor          *)
(* (SuccessInv).                                                           *)
(*                                                                         *)
(* The last two rest on what each step commits, row by row (StepCases),    *)
(* and so do SlotProofs and SettlementProofs.                              *)
(***************************************************************************)
EXTENDS Pipeline, FiniteSetTheorems, TLAPS

\* Zenon proves the leaves that name no other prover.
USE Zenon

--------------------------------------------------------------------------------
(* The inductive invariant. *)

\* The status a request of a batch has.
Mirror(row) == IF row.status = "error" /\ ~row.disallow THEN "batching"
               ELSE row.status

RequestsMirror(d) ==
    \A s \in StorageRequests : d.requests[s].batch # NoBatch =>
        /\ d.requests[s].status = Mirror(d.batches[d.requests[s].batch])
        /\ d.batches[d.requests[s].batch].status # "none"

\* Only clients choose providers, and what clients prepare is never rebatched.
PreparedRows(d) ==
    \A b \in Batches :
        /\ d.batches[b].providers # {} => d.batches[b].disallow
        /\ d.batches[b].disallow => d.batches[b].status \notin {"none", "preparing"}

\* The piece of a batch is known, and fixed, once the batch has deals.
DealsAfterPiece(d) ==
    \A r \in d.deals : d.batches[r.batch].status \notin {"none", "preparing"}

DistinctProviders(d) ==
    \A q, r \in d.deals :
        /\ q # r
        /\ q.sp = r.sp
        /\ d.batches[q.batch].piece = d.batches[r.batch].piece
        => \/ d.batches[q.batch].providers # {}
           \/ d.batches[r.batch].providers # {}

DBInv(d) ==
    /\ d \in DBType
    /\ RequestsMirror(d)
    /\ PreparedRows(d)
    /\ DealsAfterPiece(d)
    /\ DistinctProviders(d)

\* What changes between the databases d and e leaves every prepared batch a
\* prepared batch.
KeepsDisallow(d, e) ==
    \A b \in Batches : d.batches[b].disallow => e.batches[b].disallow

--------------------------------------------------------------------------------
(* What each method of the store preserves. *)

\* The empty database satisfies the invariant.
LEMMA EmptyDBInv == DBInv(EmptyDB)
BY StoreAssumption DEF DBInv, EmptyDB, DBType, NoRequestRow, NoBatchRow, RequestRow,
                       BatchRow, RequestStatus, BatchStatus, RequestsMirror,
                       PreparedRows, DealsAfterPiece, DistinctProviders

\* The statuses handlers move batches and requests to.
LEMMA StatusNames ==
    /\ \A st \in {"auctioning", "deal_making", "success", "error"} :
          st \in RequestStatus /\ st \in BatchStatus
    /\ "batching" \in RequestStatus
BY DEF RequestStatus, BatchStatus

\* UpdateStorageRequestsStatus writes the status of the requests of one batch
\* and nothing else.
LEMMA UpdateStatusRows ==
    ASSUME NEW d \in DBType, NEW b \in Batches, NEW st \in RequestStatus
    PROVE  LET e == UpdateStorageRequestsStatus(d, b, st)
           IN  /\ e \in DBType
               /\ e.batches = d.batches
               /\ e.deals = d.deals
               /\ \A s \in StorageRequests :
                    /\ e.requests[s].batch = d.requests[s].batch
                    /\ e.requests[s].status = IF d.requests[s].batch = b THEN st
                                              ELSE d.requests[s].status
BY ZenonT(60) DEF UpdateStorageRequestsStatus, DBType, RequestRow

\* When the rows of the batches and the deals stay as they are and the requests
\* mirror them, the invariant holds.
LEMMA SameBatches ==
    ASSUME NEW d, NEW e, DBInv(d), e \in DBType, RequestsMirror(e),
           e.batches = d.batches, e.deals = d.deals
    PROVE  DBInv(e)
BY SMT DEF DBInv, PreparedRows, DealsAfterPiece, DistinctProviders

\* UpdateBatch writes one row of the batches and nothing else.
LEMMA UpdateBatchRows ==
    ASSUME NEW d \in DBType, NEW b \in Batches, NEW row \in BatchRow
    PROVE  LET e == UpdateBatch(d, b, row)
           IN  /\ e \in DBType
               /\ e.requests = d.requests
               /\ e.deals = d.deals
               /\ e.batches[b] = row
               /\ \A y \in Batches : y # b => e.batches[y] = d.batches[y]
BY DEF UpdateBatch, DBType

\* What touches neither batches nor deals, and no request's batch or status.
LEMMA SameRows ==
    ASSUME NEW d, DBInv(d), NEW e \in DBType,
           e.batches = d.batches, e.deals = d.deals,
           \A s \in StorageRequests : /\ e.requests[s].batch = d.requests[s].batch
                                      /\ e.requests[s].status = d.requests[s].status
    PROVE  DBInv(e) /\ KeepsDisallow(d, e)
<1>1. RequestsMirror(e)
  BY DEF DBInv, RequestsMirror
<1> QED
  BY <1>1, SameBatches DEF KeepsDisallow

\* Recording an operation id leaves requests, batches and deals alone.
LEMMA CreateOperationInv ==
    ASSUME NEW d, DBInv(d), NEW op \in AuctionOp \union DealOp
    PROVE  LET e == CreateOperation(d, op)
           IN  DBInv(e) /\ e.batches = d.batches /\ e.deals = d.deals
<1> DEFINE e == CreateOperation(d, op)
<1>1. e \in DBType /\ e.requests = d.requests /\ e.batches = d.batches /\ e.deals = d.deals
  BY DEF CreateOperation, DBInv, DBType
<1> QED
  BY <1>1, SameRows

\* The accepted winners are among the winners.
LEMMA AcceptedWinnersType ==
    ASSUME NEW d, NEW b, NEW winners \in SUBSET Providers
    PROVE  AcceptedWinners(d, b, winners) \subseteq winners
BY DEF AcceptedWinners

--------------------------------------------------------------------------------
(* The invariant of the system. *)

\* What a handler leaves to be committed to database d.
TxOK(d, tx) ==
    /\ DBInv(tx.db)
    /\ KeepsDisallow(d, tx.db)
    /\ tx.batching \subseteq ReadyToBatchMsg
    /\ tx.auctions \subseteq ReadyToAuctionMsg
    /\ tx.creates \subseteq ReadyToCreateDealsMsg

Inv ==
    /\ BrokerTypeOK
    /\ DBInv(db)
    /\ \A b \in late : db.batches[b].disallow
    /\ IsFiniteSet(auctionClosed) /\ IsFiniteSet(finalizedDeal)

\* The variables that no handler of brokerd changes.
others == <<late, newBatchCreated, newBatchPrepared, auctionClosed, finalizedDeal>>

\* The invariant holds initially.
LEMMA InvInit == Init => Inv
<1> SUFFICES ASSUME Init PROVE Inv
  OBVIOUS
<1>1. DBInv(db)
  BY EmptyDBInv DEF Init, BrokerInit
<1>2. BrokerTypeOK
  BY <1>1 DEF Init, BrokerInit, BrokerTypeOK, DBInv
<1>3. IsFiniteSet(auctionClosed) /\ IsFiniteSet(finalizedDeal)
  BY FS_EmptySet DEF Init, BrokerInit
<1> QED
  BY <1>1, <1>2, <1>3 DEF Init, BrokerInit, Inv

\* Every step preserves the invariant.
LEMMA InvNext == Inv /\ [Next]_vars => Inv'
\* Saving a new request: it is in no batch.
<1>CreateStorageRequestInv.
    ASSUME NEW d, DBInv(d), NEW s \in StorageRequests, NEW st \in RequestStatus
    PROVE  LET e == CreateStorageRequest(d, s, st)
           IN  /\ DBInv(e)
               /\ e.batches = d.batches
               /\ e.deals = d.deals
  <2> USE <1>CreateStorageRequestInv
  <2> DEFINE e == CreateStorageRequest(d, s, st)
  <2>1. /\ e \in DBType
        /\ e.batches = d.batches
        /\ e.deals = d.deals
        /\ e.requests[s].batch = NoBatch
        /\ \A x \in StorageRequests : x # s => e.requests[x] = d.requests[x]
    BY DEF DBInv, CreateStorageRequest, DBType, NoRequestRow, RequestRow
  <2>2. RequestsMirror(e)
    BY <2>1 DEF DBInv, RequestsMirror
  <2> QED
    BY <2>1, <2>2, SameBatches

\* A new batch takes any requests it likes, as long as its id is unused.
<1>CreateBatchInv.
    ASSUME NEW d, DBInv(d), NEW b \in Batches, d.batches[b].status = "none",
           NEW row \in BatchRow, NEW srs \in SUBSET StorageRequests,
           row.status \in {"preparing", "auctioning"},
           row.providers # {} => row.disallow,
           row.disallow => row.status = "auctioning"
    PROVE  LET e == CreateBatch(d, b, row, srs)
           IN  /\ DBInv(e)
               /\ e.batches[b] = row
               /\ \A x \in Batches : x # b => e.batches[x] = d.batches[x]
  <2> USE <1>CreateBatchInv
  <2> DEFINE e == CreateBatch(d, b, row, srs)
  <2>1. /\ e \in DBType
        /\ e.batches = [d.batches EXCEPT ![b] = row]
        /\ e.deals = d.deals
        /\ \A s \in StorageRequests :
              IF s \in srs
              THEN e.requests[s].status = row.status /\ e.requests[s].batch = b
              ELSE e.requests[s] = d.requests[s]
    <3> DEFINE rows == [s \in StorageRequests |->
                          IF s \in srs
                          THEN [d.requests[s] EXCEPT !.status = row.status, !.batch = b]
                          ELSE d.requests[s]]
    <3>1. rows \in [StorageRequests -> RequestRow]
      <4>1. row.status \in RequestStatus
        BY DEF RequestStatus
      <4>2. \A s \in StorageRequests : d.requests[s] \in RequestRow
        BY DEF DBInv, DBType
      <4>3. \A r \in RequestRow :
               [r EXCEPT !.status = row.status, !.batch = b] \in RequestRow
        BY <4>1 DEF RequestRow
      <4> QED
        BY <4>2, <4>3
    <3>2. e = [d EXCEPT !.batches[b] = row, !.requests = rows]
      BY DEF CreateBatch, BatchUpdateStorageRequests, UpdateBatch, DBInv, DBType
    <3>3. /\ e \in DBType
          /\ e.requests = rows
          /\ e.batches = [d.batches EXCEPT ![b] = row]
          /\ e.deals = d.deals
      <4> HIDE DEF e, rows
      <4> QED
        BY <3>1, <3>2 DEF DBInv, DBType
    <3>4. \A s \in StorageRequests :
              IF s \in srs
              THEN rows[s].status = row.status /\ rows[s].batch = b
              ELSE rows[s] = d.requests[s]
      BY DEF DBInv, DBType, RequestRow
    <3> QED
      BY <3>3, <3>4
  <2>2. e.batches[b] = row /\ \A x \in Batches : x # b => e.batches[x] = d.batches[x]
    BY <2>1 DEF DBInv, DBType
  <2>3. \A r \in d.deals : r.batch \in Batches /\ r.batch # b
    BY DEF DBInv, DealsAfterPiece, DBType, DealRow
  <2>4. RequestsMirror(e)
    <3> SUFFICES ASSUME NEW s \in StorageRequests, e.requests[s].batch # NoBatch
                 PROVE  /\ e.requests[s].status = Mirror(e.batches[e.requests[s].batch])
                        /\ e.batches[e.requests[s].batch].status # "none"
      BY DEF RequestsMirror
    <3>1. CASE s \in srs
      BY SMTT(30), <3>1, <2>1, <2>2 DEF Mirror
    <3>2. CASE s \notin srs
      <4>1. e.requests[s] = d.requests[s]
        BY <3>2, <2>1
      <4>2. d.requests[s].batch \in Batches /\ d.requests[s].batch # b
        BY <4>1 DEF DBInv, RequestsMirror, DBType, RequestRow
      <4> QED
        BY <4>1, <4>2, <2>2, SMT DEF DBInv, RequestsMirror
    <3> QED
      BY <3>1, <3>2
  <2>5. PreparedRows(e)
    BY <2>2, SMT DEF DBInv, PreparedRows
  <2>6. DealsAfterPiece(e) /\ DistinctProviders(e)
    BY <2>1, <2>2, <2>3, SMT DEF DBInv, DealsAfterPiece, DistinctProviders
  <2> QED
    BY <2>1, <2>2, <2>4, <2>5, <2>6 DEF DBInv

\* A batch that exists moves to a later status, and its requests with it.
<1>MoveBatch.
    ASSUME NEW d, DBInv(d), NEW b \in Batches, NEW row \in BatchRow,
           row.disallow = d.batches[b].disallow,
           row.providers = d.batches[b].providers,
           row.status \notin {"none", "preparing"},
           row.piece = d.batches[b].piece \/ d.batches[b].status = "preparing",
           NEW st \in RequestStatus, st = Mirror(row)
    PROVE  LET e == UpdateStorageRequestsStatus(UpdateBatch(d, b, row), b, st)
           IN  DBInv(e) /\ KeepsDisallow(d, e)
  <2> USE <1>MoveBatch
  <2> DEFINE c == UpdateBatch(d, b, row)
             e == UpdateStorageRequestsStatus(c, b, st)
  <2>1. /\ c \in DBType
        /\ c.requests = d.requests
        /\ c.deals = d.deals
        /\ c.batches[b] = row
        /\ \A y \in Batches : y # b => c.batches[y] = d.batches[y]
    BY UpdateBatchRows, ZenonT(60) DEF DBInv
  <2> HIDE DEF c
  <2>2. /\ e \in DBType
        /\ e.batches = c.batches
        /\ e.deals = c.deals
        /\ \A s \in StorageRequests :
              /\ e.requests[s].batch = c.requests[s].batch
              /\ e.requests[s].status = IF c.requests[s].batch = b THEN st
                                        ELSE c.requests[s].status
    BY <2>1, UpdateStatusRows, ZenonT(60)
  <2> HIDE DEF e
  <2>3. RequestsMirror(e)
    <3>1. \A s \in StorageRequests : d.requests[s].batch \in Batches \union {NoBatch}
      BY DEF DBInv, DBType, RequestRow
    <3> QED
      BY SMTT(30), <2>1, <2>2, <3>1 DEF DBInv, RequestsMirror
  <2>4. PreparedRows(e)
    BY <2>1, <2>2, SMT DEF DBInv, PreparedRows
  <2>5. \A r \in d.deals : r.batch \in Batches
    BY DEF DBInv, DBType, DealRow
  <2>6. DealsAfterPiece(e)
    BY <2>1, <2>2, <2>5, SMT DEF DBInv, DealsAfterPiece
  <2>7. \A r \in d.deals : /\ e.batches[r.batch].piece = d.batches[r.batch].piece
                           /\ e.batches[r.batch].providers = d.batches[r.batch].providers
    BY <2>1, <2>2, <2>5 DEF DBInv, DealsAfterPiece
  <2>8. DistinctProviders(e)
    BY <2>1, <2>2, <2>7, SMT DEF DBInv, DistinctProviders
  <2>9. DBInv(e)
    BY <2>2, <2>3, <2>4, <2>6, <2>8 DEF DBInv
  <2>10. KeepsDisallow(d, e)
    BY <2>1, <2>2 DEF KeepsDisallow
  <2> QED
    BY <2>9, <2>10 DEF c, e

\* store.BatchToAuctioning: a batch in preparation gets its piece.
<1>BatchToAuctioningInv.
    ASSUME NEW d, DBInv(d), NEW b \in Batches, d.batches[b].status = "preparing",
           NEW x \in Pieces
    PROVE  LET e == BatchToAuctioning(d, b, x)
           IN  DBInv(e) /\ KeepsDisallow(d, e)
  <2> USE <1>BatchToAuctioningInv
  <2> DEFINE row == [d.batches[b] EXCEPT !.status = "auctioning", !.piece = x]
  <2>1. d.batches[b] \in BatchRow
    BY DEF DBInv, DBType
  <2>2. /\ row \in BatchRow
        /\ row.status = "auctioning"
        /\ row.disallow = d.batches[b].disallow
        /\ row.providers = d.batches[b].providers
    BY <2>1, StatusNames DEF BatchRow
  <2>3. BatchToAuctioning(d, b, x)
          = UpdateStorageRequestsStatus(UpdateBatch(d, b, row), b, "auctioning")
    BY DEF BatchToAuctioning
  <2> HIDE DEF row
  <2>4. "auctioning" \in RequestStatus /\ "auctioning" = Mirror(row)
    BY <2>2, StatusNames DEF Mirror
  <2>5. row.status \notin {"none", "preparing"}
    BY <2>2
  <2> QED
    BY <2>2, <2>3, <2>4, <2>5, <1>MoveBatch

\* The same for the moves that change nothing but the status.
<1>MoveStatus.
    ASSUME NEW d, DBInv(d), NEW b \in Batches,
           NEW st \in {"deal_making", "success", "error"}, NEW rst \in RequestStatus,
           rst = IF st = "error" /\ ~d.batches[b].disallow THEN "batching" ELSE st
    PROVE  LET e == UpdateStorageRequestsStatus(UpdateBatchStatus(d, b, st), b, rst)
           IN  DBInv(e) /\ KeepsDisallow(d, e)
  <2> USE <1>MoveStatus
  <2> DEFINE row == [d.batches[b] EXCEPT !.status = st]
  <2>1. d.batches[b] \in BatchRow
    BY DEF DBInv, DBType
  <2>2. /\ row \in BatchRow
        /\ row.status = st
        /\ row.piece = d.batches[b].piece
        /\ row.disallow = d.batches[b].disallow
        /\ row.providers = d.batches[b].providers
    BY <2>1, StatusNames DEF BatchRow
  <2>3. UpdateBatchStatus(d, b, st) = UpdateBatch(d, b, row)
    BY DEF UpdateBatchStatus
  <2> HIDE DEF row
  <2>4. rst = Mirror(row)
    BY <2>2 DEF Mirror
  <2>5. row.status \notin {"none", "preparing"}
    BY <2>2
  <2> QED
    BY <2>2, <2>3, <2>4, <2>5, <1>MoveBatch

\* Counting a rebatch leaves batches and statuses alone.
<1>RebatchStorageRequestsInv.
    ASSUME NEW d, DBInv(d), NEW b \in Batches
    PROVE  LET e == RebatchStorageRequests(d, b)
           IN  DBInv(e) /\ KeepsDisallow(d, e)
  <2> USE <1>RebatchStorageRequestsInv
  <2> DEFINE e == RebatchStorageRequests(d, b)
  <2>1. /\ e \in DBType
        /\ e.batches = d.batches
        /\ e.deals = d.deals
        /\ \A s \in StorageRequests : /\ e.requests[s].batch = d.requests[s].batch
                                       /\ e.requests[s].status = d.requests[s].status
    <3> DEFINE rows == [s \in StorageRequests |->
                          IF d.requests[s].batch = b
                          THEN [d.requests[s] EXCEPT !.rebatches = @ + 1]
                          ELSE d.requests[s]]
    <3>1. \A s \in StorageRequests : d.requests[s] \in RequestRow
      BY DEF DBInv, DBType
    <3>2. \A r \in RequestRow : LET u == [r EXCEPT !.rebatches = @ + 1]
                                IN  /\ u \in RequestRow
                                    /\ u.batch = r.batch
                                    /\ u.status = r.status
      BY SMT DEF RequestRow
    <3>3. /\ rows \in [StorageRequests -> RequestRow]
          /\ \A s \in StorageRequests : /\ rows[s].batch = d.requests[s].batch
                                         /\ rows[s].status = d.requests[s].status
      BY <3>1, <3>2
    <3>4. e = [d EXCEPT !.requests = rows]
      BY DEF RebatchStorageRequests
    <3> HIDE DEF rows, e
    <3> QED
      BY <3>3, <3>4 DEF DBInv, DBType
  <2> QED
    BY <2>1, SameRows

\* Creating unpin jobs leaves requests, batches and deals alone.
<1>CreateUnpinJobsInv.
    ASSUME NEW d, DBInv(d), NEW data \in SUBSET StorageRequests,
           NEW batches \in SUBSET Batches
    PROVE  LET e == CreateUnpinJobs(d, data, batches)
           IN  DBInv(e) /\ KeepsDisallow(d, e)
  <2> USE <1>CreateUnpinJobsInv
  <2> DEFINE e == CreateUnpinJobs(d, data, batches)
  <2>1. e \in DBType /\ e.requests = d.requests /\ e.batches = d.batches /\ e.deals = d.deals
    BY DEF CreateUnpinJobs, DBInv, DBType
  <2> QED
    BY <2>1, SameRows

\* A batch that is not rebatched is a prepared one.
<1>BatchErrorInv.
    ASSUME NEW d, DBInv(d), NEW b \in Batches, NEW rebatch \in BOOLEAN,
           rebatch = ~d.batches[b].disallow
    PROVE  LET e == BatchError(d, b, rebatch)
           IN  DBInv(e) /\ KeepsDisallow(d, e)
  <2> USE <1>BatchErrorInv
  <2> DEFINE status == IF rebatch THEN "batching" ELSE "error"
             moved == UpdateStorageRequestsStatus(
                          UpdateBatchStatus(d, b, "error"), b, status)
             released == IF rebatch THEN RebatchStorageRequests(moved, b) ELSE moved
             e == BatchError(d, b, rebatch)
  <2>1. status \in RequestStatus
    BY StatusNames
  <2>2. DBInv(moved) /\ KeepsDisallow(d, moved)
    <3>1. "error" \in {"deal_making", "success", "error"}
      OBVIOUS
    <3>2. status = IF "error" = "error" /\ ~d.batches[b].disallow THEN "batching"
                   ELSE "error"
      OBVIOUS
    <3> HIDE DEF status
    <3> QED
      BY <2>1, <3>1, <3>2, <1>MoveStatus
  <2> HIDE DEF moved
  <2>3. DBInv(released) /\ KeepsDisallow(d, released)
    BY <2>2, <1>RebatchStorageRequestsInv DEF KeepsDisallow
  <2>4. e = d \/ e = released \/ e = CreateUnpinJobs(released, {}, {b})
    BY DEF BatchError, moved
  <2> HIDE DEF released
  <2>5. LET u == CreateUnpinJobs(released, {}, {b})
        IN  DBInv(u) /\ KeepsDisallow(released, u)
    <3>1. {} \in SUBSET StorageRequests /\ {b} \in SUBSET Batches
      OBVIOUS
    <3> QED
      BY <2>3, <3>1, <1>CreateUnpinJobsInv
  <2> QED
    BY <2>3, <2>4, <2>5 DEF KeepsDisallow

\* store.BatchSuccess, whatever status the batch was in.
<1>BatchSuccessInv.
    ASSUME NEW d, DBInv(d), NEW b \in Batches
    PROVE  LET e == BatchSuccess(d, b)
           IN  DBInv(e) /\ KeepsDisallow(d, e)
  <2> USE <1>BatchSuccessInv
  <2> DEFINE done == UpdateStorageRequestsStatus(
                         UpdateBatchStatus(d, b, "success"), b, "success")
             srs == GetStorageRequestIDs(d, b)
             e == BatchSuccess(d, b)
  <2>1. DBInv(done) /\ KeepsDisallow(d, done)
    <3>1. /\ "success" \in {"deal_making", "success", "error"}
          /\ "success" \in RequestStatus
          /\ "success" = IF "success" = "error" /\ ~d.batches[b].disallow
                         THEN "batching" ELSE "success"
      BY StatusNames
    <3> QED
      BY <3>1, <1>MoveStatus
  <2>2. e = done \/ e = CreateUnpinJobs(done, srs, {b})
    BY DEF BatchSuccess
  <2>3. srs \in SUBSET StorageRequests /\ {b} \in SUBSET Batches
    BY DEF GetStorageRequestIDs
  <2> HIDE DEF done, srs
  <2>4. LET u == CreateUnpinJobs(done, srs, {b})
        IN  DBInv(u) /\ KeepsDisallow(done, u)
    BY <2>1, <2>3, <1>CreateUnpinJobsInv
  <2> QED
    BY <2>1, <2>2, <2>4 DEF KeepsDisallow

\* No new row repeats the provider of another row of the piece: the rows of one
\* auction are one per provider, and a provider with an older row is excluded.
<1>CreateDealsInv.
    ASSUME NEW d, DBInv(d), NEW b \in Batches, NEW bid \in AuctionOp,
           d.batches[b].status \notin {"none", "preparing"},
           NEW winners \in SUBSET Providers
    PROVE  LET rows == {[batch |-> b, bid |-> bid, sp |-> p, state |-> "pending"] :
                           p \in AcceptedWinners(d, b, winners)}
               e == CreateDeals(d, rows)
           IN  DBInv(e) /\ e.batches = d.batches
  <2> USE <1>CreateDealsInv
  <2> DEFINE accepted == AcceptedWinners(d, b, winners)
             rows == {[batch |-> b, bid |-> bid, sp |-> p, state |-> "pending"] :
                          p \in accepted}
             e == CreateDeals(d, rows)
  <2>1. accepted \subseteq Providers
    BY AcceptedWinnersType
  <2>2. \A r \in rows : /\ r \in DealRow
                        /\ r.batch = b
                        /\ r.bid = bid
                        /\ r.state = "pending"
                        /\ r.sp \in accepted
                        /\ r = [batch |-> b, bid |-> bid, sp |-> r.sp, state |-> "pending"]
    <3> HIDE DEF accepted
    <3> QED
      BY <2>1, SMT DEF DealRow
  <2> HIDE DEF rows
  <2>3. /\ e \in DBType
        /\ e.requests = d.requests
        /\ e.batches = d.batches
        /\ e.deals = d.deals \union rows
    BY <2>2 DEF CreateDeals, DBInv, DBType
  <2> HIDE DEF e
  <2>4. RequestsMirror(e) /\ PreparedRows(e)
    BY <2>3, ZenonT(60) DEF DBInv, RequestsMirror, PreparedRows
  <2>5. DealsAfterPiece(e)
    BY <2>2, <2>3 DEF DBInv, DealsAfterPiece
  <2>6. \A q, r \in rows : q.sp = r.sp => q = r
    BY <2>2
  <2>7. \A q \in d.deals, r \in rows :
           q.sp = r.sp /\ d.batches[q.batch].piece = d.batches[b].piece
              => d.batches[b].providers # {}
    <3> SUFFICES ASSUME NEW q \in d.deals, NEW r \in rows, q.sp = r.sp,
                        d.batches[q.batch].piece = d.batches[b].piece,
                        d.batches[b].providers = {}
                 PROVE  FALSE
      OBVIOUS
    <3>1. q.sp \in GetExcludedStorageProviders(d, d.batches[b].piece)
      BY DEF GetExcludedStorageProviders
    <3>2. r.sp \in winners \ GetExcludedStorageProviders(d, d.batches[b].piece)
      BY <2>2 DEF AcceptedWinners
    <3> QED
      BY <3>1, <3>2
  <2>8. DistinctProviders(e)
    <3> SUFFICES ASSUME NEW q \in d.deals \union rows, NEW r \in d.deals \union rows,
                        q # r, q.sp = r.sp,
                        d.batches[q.batch].piece = d.batches[r.batch].piece
                 PROVE  \/ d.batches[q.batch].providers # {}
                        \/ d.batches[r.batch].providers # {}
      BY <2>3, ZenonT(60) DEF DistinctProviders
    <3>1. CASE q \in d.deals /\ r \in d.deals
      BY <3>1 DEF DBInv, DistinctProviders
    <3>2. CASE q \in d.deals /\ r \in rows
      BY <3>2, <2>2, <2>7
    <3>3. CASE q \in rows /\ r \in d.deals
      BY <3>3, <2>2, <2>7
    <3>4. CASE q \in rows /\ r \in rows
      BY <3>4, <2>6
    <3> QED
      BY <3>1, <3>2, <3>3, <3>4
  <2> QED
    BY <2>3, <2>4, <2>5, <2>8 DEF DBInv, e, rows

\* store.AddDeals: the accepted winners get rows, the batch moves to deal making.
<1>AddDealsInv.
    ASSUME NEW d, DBInv(d), NEW b \in Batches, NEW bid \in AuctionOp,
           d.batches[b].status \in {"auctioning", "deal_making"},
           NEW winners \in SUBSET Providers
    PROVE  LET e == AddDeals(d, b, bid, winners)
           IN  DBInv(e) /\ KeepsDisallow(d, e)
  <2> USE <1>AddDealsInv
  <2> DEFINE rows == {[batch |-> b, bid |-> bid, sp |-> p, state |-> "pending"] :
                          p \in AcceptedWinners(d, b, winners)}
             added == CreateDeals(d, rows)
             moved == UpdateStorageRequestsStatus(
                          UpdateBatchStatus(added, b, "deal_making"), b, "deal_making")
             e == AddDeals(d, b, bid, winners)
  <2>1. DBInv(added) /\ added.batches = d.batches
    <3>1. d.batches[b].status \notin {"none", "preparing"}
      OBVIOUS
    <3> QED
      BY <3>1, <1>CreateDealsInv
  <2>2. e = added \/ e = moved
    BY DEF AddDeals
  <2> HIDE DEF added
  <2>3. DBInv(moved) /\ KeepsDisallow(added, moved)
    <3>1. /\ "deal_making" \in {"deal_making", "success", "error"}
          /\ "deal_making" \in RequestStatus
          /\ "deal_making" = IF "deal_making" = "error" /\ ~added.batches[b].disallow
                             THEN "batching" ELSE "deal_making"
      BY StatusNames
    <3> QED
      BY <2>1, <3>1, <1>MoveStatus
  <2> HIDE DEF moved, e
  <2> QED
    BY <2>1, <2>2, <2>3 DEF KeepsDisallow, e

\* store.SaveDeals changes the outcome of rows, never whose they are.
<1>SaveDealsInv.
    ASSUME NEW d, DBInv(d), NEW b \in Batches, NEW p \in Providers,
           NEW state \in {"pending", "confirmed", "failed"}
    PROVE  LET e == SaveDeals(d, b, p, state)
           IN  DBInv(e) /\ e.batches = d.batches
  <2> USE <1>SaveDealsInv
  <2> DEFINE upd(r) == IF r.batch = b /\ r.sp = p THEN [r EXCEPT !.state = state] ELSE r
             rows == {upd(r) : r \in d.deals}
             e == SaveDeals(d, b, p, state)
  <2>1. \A r \in d.deals : r \in DealRow
    BY DEF DBInv, DBType
  <2>2. \A r \in DealRow : /\ upd(r) \in DealRow
                           /\ upd(r).batch = r.batch
                           /\ upd(r).sp = r.sp
    BY DEF DealRow
  <2>3. \A r \in rows : \E q \in d.deals : r = upd(q)
    OBVIOUS
  <2>4. e = [d EXCEPT !.deals = rows]
    BY DEF SaveDeals
  <2> HIDE DEF rows, e
  <2>5. rows \subseteq DealRow
    BY <2>1, <2>2, <2>3
  <2>6. /\ e \in DBType
        /\ e.requests = d.requests
        /\ e.batches = d.batches
        /\ e.deals = rows
    BY <2>4, <2>5 DEF DBInv, DBType
  <2>7. RequestsMirror(e) /\ PreparedRows(e)
    BY <2>6 DEF DBInv, RequestsMirror, PreparedRows
  <2> HIDE DEF upd
  <2>8. DealsAfterPiece(e)
    BY <2>1, <2>2, <2>3, <2>6, SMT DEF DBInv, DealsAfterPiece
  <2>9. DistinctProviders(e)
    <3> SUFFICES ASSUME NEW q \in rows, NEW r \in rows, q # r, q.sp = r.sp,
                        d.batches[q.batch].piece = d.batches[r.batch].piece
                 PROVE  \/ d.batches[q.batch].providers # {}
                        \/ d.batches[r.batch].providers # {}
      BY <2>6, SMT DEF DistinctProviders
    <3>1. PICK x \in d.deals, y \in d.deals : q = upd(x) /\ r = upd(y)
      BY <2>3
    <3>2. /\ q.batch = x.batch /\ q.sp = x.sp
          /\ r.batch = y.batch /\ r.sp = y.sp
          /\ x # y
      BY <2>1, <2>2, <3>1
    <3> QED
      BY <3>2 DEF DBInv, DistinctProviders
  <2> QED
    BY <2>6, <2>7, <2>8, <2>9 DEF DBInv, e

\* A handler that publishes nothing.
<1>SilentTx.
    ASSUME NEW d, NEW e, DBInv(e), KeepsDisallow(d, e)
    PROVE  TxOK(d, Tx(e, {}, {}, {}))
  BY <1>SilentTx DEF TxOK, Tx

\* A handler that publishes a ready-to-batch message.
<1>BatchingTx.
    ASSUME NEW d, NEW e, DBInv(e), KeepsDisallow(d, e),
           NEW batching \in SUBSET ReadyToBatchMsg
    PROVE  TxOK(d, Tx(e, batching, {}, {}))
  BY <1>BatchingTx DEF TxOK, Tx

\* Only providers are excluded.
<1>ExcludedType.
    ASSUME NEW d, DBInv(d), NEW piece
    PROVE  GetExcludedStorageProviders(d, piece) \in SUBSET Providers
  BY <1>ExcludedType, SMT DEF GetExcludedStorageProviders, DBInv, DBType, DealRow

\* startAuction, from any database and for any number of copies.
<1>StartAuctionTx.
    ASSUME NEW d, DBInv(d), NEW b \in Batches, NEW piece, NEW rep \in Nat,
           NEW ignore \in BOOLEAN, nextID \in Nat
    PROVE  TxOK(d, StartAuction(d, b, piece, rep, ignore))
  <2> USE <1>StartAuctionTx
  <2> DEFINE excluded == IF ignore THEN {} ELSE GetExcludedStorageProviders(d, piece)
             targeted == d.batches[b].providers
             msg == [id |-> nextID, batch |-> b, rep |-> rep,
                     excluded |-> excluded, providers |-> targeted]
             tx == StartAuction(d, b, piece, rep, ignore)
  <2>1. excluded \in SUBSET Providers
    BY <1>ExcludedType
  <2>2. targeted \in SUBSET Providers
    BY DEF DBInv, DBType, BatchRow
  <2>3. msg \in ReadyToAuctionMsg
    <3> HIDE DEF excluded, targeted
    <3> QED
      BY <2>1, <2>2 DEF ReadyToAuctionMsg
  <2>4. \/ targeted # {} /\ tx = Tx(BatchError(d, b, FALSE), {}, {}, {})
        \/ tx = Tx(d, {}, {msg}, {})
    BY DEF StartAuction
  <2>5. targeted # {} => TxOK(d, Tx(BatchError(d, b, FALSE), {}, {}, {}))
    <3> SUFFICES ASSUME targeted # {}
                 PROVE  TxOK(d, Tx(BatchError(d, b, FALSE), {}, {}, {}))
      OBVIOUS
    <3>1. FALSE = ~d.batches[b].disallow
      BY DEF DBInv, PreparedRows, DBType, BatchRow
    <3> QED
      BY <3>1, <1>BatchErrorInv, <1>SilentTx
  <2>6. TxOK(d, Tx(d, {}, {msg}, {}))
    <3> HIDE DEF msg
    <3> QED
      BY <2>3 DEF TxOK, Tx, KeepsDisallow
  <2> QED
    BY <2>4, <2>5, <2>6

\* BatchAuctioned for an auction that failed.
<1>AuctionFailedTx.
    ASSUME NEW d, DBInv(d), NEW b \in Batches, nextID \in Nat
    PROVE  TxOK(d, AuctionFailed(d, b))
  <2> USE <1>AuctionFailedTx
  <2> DEFINE msg == [op |-> nextID, srs |-> GetStorageRequestIDs(d, b)]
  <2>1. msg \in ReadyToBatchMsg
    BY DEF ReadyToBatchMsg, GetStorageRequestIDs
  <2>2. CASE d.batches[b].disallow
    <3>1. FALSE = ~d.batches[b].disallow
      BY <2>2
    <3>2. AuctionFailed(d, b) = Tx(BatchError(d, b, FALSE), {}, {}, {})
      BY <2>2 DEF AuctionFailed
    <3> QED
      BY <3>1, <3>2, <1>BatchErrorInv, <1>SilentTx
  <2>3. CASE ~d.batches[b].disallow
    <3>1. TRUE = ~d.batches[b].disallow
      BY <2>3
    <3>2. AuctionFailed(d, b) = Tx(BatchError(d, b, TRUE), {msg}, {}, {})
      BY <2>3 DEF AuctionFailed
    <3>3. LET e == BatchError(d, b, TRUE) IN DBInv(e) /\ KeepsDisallow(d, e)
      BY <3>1, <1>BatchErrorInv
    <3>4. {msg} \in SUBSET ReadyToBatchMsg
      BY <2>1
    <3> HIDE DEF msg
    <3> QED
      BY <3>2, <3>3, <3>4, <1>BatchingTx
  <2> QED
    BY <2>2, <2>3

\* BatchAuctioned for an auction that succeeded: winners and losers are finite
\* sets, so the number of copies to auction again is a natural number.
<1>AuctionWonTx.
    ASSUME NEW d, DBInv(d), NEW m \in AuctionClosedMsg, nextID \in Nat,
           d.batches[m.batch].status \in {"auctioning", "deal_making"}
    PROVE  TxOK(d, AuctionWon(d, m))
  <2> USE <1>AuctionWonTx
  <2> DEFINE accepted == AcceptedWinners(d, m.batch, m.winners)
             missing == Cardinality(m.winners \ accepted)
             added == AddDeals(d, m.batch, m.op, m.winners)
             tx == FillGap(added, m.batch, missing)
             msg == [id |-> nextID, auction |-> m.op[1], batch |-> m.batch,
                     sps |-> accepted]
  <2>1. /\ m.batch \in Batches
        /\ m.op \in AuctionOp
        /\ m.op[1] \in Nat
        /\ m.winners \in SUBSET Providers
    BY DEF AuctionClosedMsg, AuctionOp
  <2>2. accepted \subseteq m.winners
    BY <2>1, AcceptedWinnersType
  <2>3. missing \in Nat
    <3>1. IsFiniteSet(m.winners \ accepted)
      BY <2>1, StoreAssumption, FS_Subset
    <3> QED
      BY <3>1, FS_CardinalityType
  <2>4. DBInv(added) /\ KeepsDisallow(d, added)
    BY <2>1, <1>AddDealsInv
  <2> HIDE DEF added, missing, accepted
  <2>5. TxOK(added, tx)
    <3>1. CASE missing = 0
      BY <3>1, <2>4, <1>SilentTx DEF FillGap, KeepsDisallow
    <3>2. CASE missing # 0
      BY <3>2, <2>1, <2>3, <2>4, <1>StartAuctionTx DEF FillGap
    <3> QED
      BY <3>1, <3>2
  <2>6. msg \in ReadyToCreateDealsMsg
    BY <2>1, <2>2 DEF ReadyToCreateDealsMsg
  <2>7. tx = [db |-> tx.db, batching |-> tx.batching, auctions |-> tx.auctions,
              creates |-> tx.creates]
    BY DEF FillGap, StartAuction, Tx
  <2>8. AuctionWon(d, m) = tx \/ AuctionWon(d, m) = [tx EXCEPT !.creates = {msg}]
    BY DEF AuctionWon, added, missing, accepted
  <2> HIDE DEF tx, msg
  <2>9. TxOK(added, [tx EXCEPT !.creates = {msg}])
    BY <2>5, <2>6, <2>7 DEF TxOK
  <2> QED
    BY <2>4, <2>5, <2>8, <2>9 DEF TxOK, KeepsDisallow

\* BatchFinalizedDeal for a confirmed deal.
<1>DealConfirmedTx.
    ASSUME NEW d, DBInv(d), NEW b \in Batches
    PROVE  TxOK(d, DealConfirmed(d, b))
  <2> USE <1>DealConfirmedTx
  <2>1. TxOK(d, Tx(BatchSuccess(d, b), {}, {}, {}))
    BY <1>BatchSuccessInv, <1>SilentTx
  <2>2. TxOK(d, Tx(d, {}, {}, {}))
    BY <1>SilentTx DEF KeepsDisallow
  <2> QED
    BY <2>1, <2>2 DEF DealConfirmed

\* BatchFinalizedDeal for a failed deal.
<1>DealFailedTx.
    ASSUME NEW d, DBInv(d), NEW m \in FinalizedDealMsg, nextID \in Nat,
           m.batch \in late => d.batches[m.batch].disallow
    PROVE  TxOK(d, DealFailed(d, m))
  <2> USE <1>DealFailedTx
  <2>1. m.batch \in Batches
    BY DEF FinalizedDealMsg
  <2>2. CASE m.outcome # "rejected" /\ m.batch \in late
    <3>1. FALSE = ~d.batches[m.batch].disallow
      BY <2>2
    <3>2. DealFailed(d, m) = Tx(BatchError(d, m.batch, FALSE), {}, {}, {})
      BY <2>2 DEF DealFailed
    <3> QED
      BY <2>1, <3>1, <3>2, <1>BatchErrorInv, <1>SilentTx
  <2>3. CASE ~(m.outcome # "rejected" /\ m.batch \in late)
    <3>1. DealFailed(d, m)
            = StartAuction(d, m.batch, d.batches[m.batch].piece, 1, FALSE)
      BY <2>3 DEF DealFailed
    <3> QED
      BY <2>1, <3>1, <1>StartAuctionTx
  <2> QED
    BY <2>2, <2>3

\* What Publish does to the types of the topics.
<1>PublishType.
    ASSUME BrokerTypeOK,
           NEW batching \in SUBSET ReadyToBatchMsg,
           NEW auctions \in SUBSET ReadyToAuctionMsg,
           NEW creates \in SUBSET ReadyToCreateDealsMsg,
           Publish(batching, auctions, creates)
    PROVE  /\ nextID' \in Nat
           /\ readyToBatch' \subseteq ReadyToBatchMsg
           /\ readyToAuction' \subseteq ReadyToAuctionMsg
           /\ readyToCreateDeals' \subseteq ReadyToCreateDealsMsg
  <2> USE <1>PublishType
  <2>1. nextID' = nextID \/ nextID' = nextID + 1
    BY DEF Publish
  <2> QED
    BY <2>1, SMT DEF BrokerTypeOK, Publish

\* Whether the transaction of a handler commits or fails after publishing, the
\* invariant holds again.
<1>FinishTxInv.
    ASSUME Inv, NEW tx, TxOK(db, tx), FinishTx(tx), UNCHANGED others
    PROVE  Inv'
  <2> USE <1>FinishTxInv
  <2>1. CASE /\ Publish(tx.batching, tx.auctions, tx.creates)
             /\ db' = tx.db
             /\ faults' = faults
    <3>1. /\ nextID' \in Nat
          /\ readyToBatch' \subseteq ReadyToBatchMsg
          /\ readyToAuction' \subseteq ReadyToAuctionMsg
          /\ readyToCreateDeals' \subseteq ReadyToCreateDealsMsg
      BY <2>1, <1>PublishType DEF TxOK, Inv
    <3>2. BrokerTypeOK'
      BY <2>1, <3>1 DEF BrokerTypeOK, Inv, TxOK, DBInv, others
    <3>3. DBInv(db)'
      BY <2>1 DEF TxOK
    <3>4. \A b \in late' : db'.batches[b].disallow
      BY <2>1 DEF Inv, TxOK, KeepsDisallow, BrokerTypeOK, others
    <3> QED
      BY <3>2, <3>3, <3>4 DEF Inv, others
  <2>2. CASE \E creates \in {{}, tx.creates} :
               /\ Publish(tx.batching, tx.auctions, creates)
               /\ db' = db
               /\ faults' = faults + 1
    <3>1. PICK creates \in {{}, tx.creates} :
               /\ Publish(tx.batching, tx.auctions, creates)
               /\ db' = db
               /\ faults' = faults + 1
      BY <2>2
    <3>2. creates \subseteq ReadyToCreateDealsMsg
      BY DEF TxOK
    <3>3. /\ nextID' \in Nat
          /\ readyToBatch' \subseteq ReadyToBatchMsg
          /\ readyToAuction' \subseteq ReadyToAuctionMsg
          /\ readyToCreateDeals' \subseteq ReadyToCreateDealsMsg
      BY <3>1, <3>2, <1>PublishType DEF TxOK, Inv
    <3>4. BrokerTypeOK'
      BY <3>1, <3>3, SMT DEF BrokerTypeOK, Inv, others
    <3>5. DBInv(db)'
      BY <3>1 DEF Inv
    <3>6. \A b \in late' : db'.batches[b].disallow
      BY <3>1 DEF Inv, others
    <3> QED
      BY <3>4, <3>5, <3>6 DEF Inv, others
  <2> QED
    BY <2>1, <2>2 DEF FinishTx

\* Create preserves the invariant.
<1>CreateInv.
    ASSUME Inv, NEW s \in StorageRequests, Create(s)
    PROVE  Inv'
  <2> USE <1>CreateInv
  <2> DEFINE msg == [op |-> nextID, srs |-> {s}]
  <2>1. msg \in ReadyToBatchMsg
    BY DEF ReadyToBatchMsg, Inv, BrokerTypeOK
  <2>2. DBInv(db') /\ db'.batches = db.batches
    <3>1. "batching" \in RequestStatus
      BY StatusNames
    <3> QED
      BY <3>1, <1>CreateStorageRequestInv DEF Inv, Create
  <2>3. \/ Publish({msg}, {}, {}) /\ faults' = faults
        \/ Publish({}, {}, {}) /\ faults' = faults + 1
    BY DEF Create
  <2> HIDE DEF msg
  <2>4. /\ nextID' \in Nat
        /\ readyToBatch' \subseteq ReadyToBatchMsg
        /\ readyToAuction' \subseteq ReadyToAuctionMsg
        /\ readyToCreateDeals' \subseteq ReadyToCreateDealsMsg
    <3>1. /\ {msg} \in SUBSET ReadyToBatchMsg
          /\ {} \in SUBSET ReadyToBatchMsg
          /\ {} \in SUBSET ReadyToAuctionMsg
          /\ {} \in SUBSET ReadyToCreateDealsMsg
      BY <2>1
    <3> QED
      BY <2>3, <3>1, <1>PublishType DEF Inv
  <2>5. UNCHANGED others
    BY DEF Create, others
  <2>6. BrokerTypeOK'
    BY <2>2, <2>3, <2>4, <2>5, SMT DEF BrokerTypeOK, Inv, DBInv, others
  <2> QED
    BY <2>2, <2>5, <2>6 DEF Inv, others

\* CreatePrepared preserves the invariant.
<1>CreatePreparedInv.
    ASSUME Inv, NEW s \in StorageRequests, NEW b \in Batches,
           NEW in \in PreparedInputs, CreatePrepared(s, b, in)
    PROVE  Inv'
  <2> USE <1>CreatePreparedInv
  <2> DEFINE row == [status    |-> "auctioning",
                     rep       |-> IF in.rep = 0 THEN DealReplication ELSE in.rep,
                     piece     |-> in.piece,
                     disallow  |-> TRUE,
                     providers |-> in.providers,
                     carURL    |-> in.carURL]
             d1 == CreateStorageRequest(db, s, "auctioning")
             d2 == CreateBatch(d1, b, row, {s})
             tx == StartAuction(d2, b, row.piece, row.rep, row.providers # {})
  <2>1. /\ in.rep \in Nat
        /\ in.providers \in SUBSET Providers
        /\ in.piece \in Pieces
        /\ in.carURL \in BOOLEAN
        /\ DealReplication \in Nat
    BY BrokerAssumption
  <2>2. /\ row \in BatchRow
        /\ row.status \in {"preparing", "auctioning"}
        /\ row.providers # {} => row.disallow
        /\ row.disallow => row.status = "auctioning"
        /\ row.rep \in Nat
        /\ row.disallow
    BY <2>1, StatusNames DEF BatchRow
  <2>3. FinishTx(tx) /\ UNCHANGED others /\ db.batches[b].status = "none"
    BY DEF CreatePrepared, UnusedBatch, others
  <2> HIDE DEF row
  <2>4. DBInv(d1) /\ d1.batches = db.batches
    <3>1. "auctioning" \in RequestStatus
      BY StatusNames
    <3> QED
      BY <3>1, <1>CreateStorageRequestInv DEF Inv
  <2> HIDE DEF d1
  <2>5. /\ DBInv(d2)
        /\ d2.batches[b] = row
        /\ \A x \in Batches : x # b => d2.batches[x] = db.batches[x]
    <3>1. {s} \in SUBSET StorageRequests /\ d1.batches[b].status = "none"
      BY <2>3, <2>4
    <3>2. /\ DBInv(d2)
          /\ d2.batches[b] = row
          /\ \A x \in Batches : x # b => d2.batches[x] = d1.batches[x]
      BY <2>2, <2>4, <3>1, <1>CreateBatchInv, SMT
    <3> QED
      BY <2>4, <3>2
  <2> HIDE DEF d2
  <2>6. KeepsDisallow(db, d2)
    BY <2>2, <2>5 DEF KeepsDisallow
  <2>7. TxOK(d2, tx)
    <3>1. nextID \in Nat /\ (row.providers # {}) \in BOOLEAN
      BY DEF Inv, BrokerTypeOK
    <3> QED
      BY <2>2, <2>5, <3>1, <1>StartAuctionTx
  <2> HIDE DEF tx
  <2>8. TxOK(db, tx)
    BY <2>6, <2>7 DEF TxOK, KeepsDisallow
  <2> QED
    BY <2>3, <2>8, <1>FinishTxInv

\* CreateNewBatch preserves the invariant.
<1>CreateNewBatchInv.
    ASSUME Inv, NEW m \in newBatchCreated, CreateNewBatch(m)
    PROVE  Inv'
  <2> USE <1>CreateNewBatchInv
  <2> DEFINE srs == {e[2] : e \in m.entries}
             row == [NoBatchRow EXCEPT !.status = "preparing",
                                       !.rep = DealReplication,
                                       !.carURL = TRUE]
             d == CreateBatch(db, m.batch, row, srs)
  <2>1. m.batch \in Batches /\ m.entries \subseteq Nat \X StorageRequests
    BY DEF Inv, BrokerTypeOK, NewBatchCreatedMsg
  <2>2. srs \in SUBSET StorageRequests
    BY <2>1
  <2>3. /\ row \in BatchRow
        /\ row.status \in {"preparing", "auctioning"}
        /\ row.providers # {} => row.disallow
        /\ row.disallow => row.status = "auctioning"
    BY BrokerAssumption DEF NoBatchRow, BatchRow, BatchStatus
  <2>4. /\ FinishTx(Tx(d, {}, {}, {}))
        /\ UNCHANGED others
        /\ db.batches[m.batch].status = "none"
    BY DEF CreateNewBatch, others
  <2> HIDE DEF row, srs
  <2>5. /\ DBInv(d)
        /\ \A x \in Batches : x # m.batch => d.batches[x] = db.batches[x]
    BY <2>1, <2>2, <2>3, <2>4, <1>CreateBatchInv, SMT DEF Inv
  <2>6. KeepsDisallow(db, d)
    <3>1. ~db.batches[m.batch].disallow
      BY <2>1, <2>4 DEF Inv, DBInv, PreparedRows
    <3> HIDE DEF d
    <3> QED
      BY <2>5, <3>1 DEF KeepsDisallow
  <2> HIDE DEF d
  <2>7. TxOK(db, Tx(d, {}, {}, {}))
    BY <2>5, <2>6, <1>SilentTx
  <2> QED
    BY <2>4, <2>7, <1>FinishTxInv

\* NewBatchPrepared preserves the invariant.
<1>NewBatchPreparedInv.
    ASSUME Inv, NEW m \in newBatchPrepared, NewBatchPrepared(m)
    PROVE  Inv'
  <2> USE <1>NewBatchPreparedInv
  <2> DEFINE d == BatchToAuctioning(db, m.batch, m.piece)
             rep == db.batches[m.batch].rep
             tx == StartAuction(d, m.batch, NoPiece, rep, FALSE)
  <2>1. m.batch \in Batches /\ m.piece \in Pieces
    BY DEF Inv, BrokerTypeOK, NewBatchPreparedMsg
  <2>2. FinishTx(tx) /\ UNCHANGED others
    BY DEF NewBatchPrepared, others
  <2>3. db.batches[m.batch].status = "preparing"
    BY DEF NewBatchPrepared, PreparedVerdict
  <2>4. rep \in Nat /\ nextID \in Nat
    BY <2>1 DEF Inv, BrokerTypeOK, DBType, BatchRow
  <2>5. DBInv(d) /\ KeepsDisallow(db, d)
    BY <2>1, <2>3, <1>BatchToAuctioningInv DEF Inv
  <2> HIDE DEF d, rep
  <2>6. TxOK(d, tx)
    BY <2>1, <2>4, <2>5, <1>StartAuctionTx
  <2> HIDE DEF tx
  <2>7. TxOK(db, tx)
    BY <2>5, <2>6 DEF TxOK, KeepsDisallow
  <2> QED
    BY <2>2, <2>7, <1>FinishTxInv

\* BatchAuctioned preserves the invariant.
<1>BatchAuctionedInv.
    ASSUME Inv, NEW m \in auctionClosed, BatchAuctioned(m)
    PROVE  Inv'
  <2> USE <1>BatchAuctionedInv
  <2> DEFINE d == CreateOperation(db, m.op)
             ba == db.batches[m.batch]
  <2>1. m \in AuctionClosedMsg /\ m.batch \in Batches /\ m.op \in AuctionOp
    BY DEF Inv, BrokerTypeOK, AuctionClosedMsg
  <2>2. UNCHANGED others
    BY DEF BatchAuctioned, others
  <2>3. \/ FinishTx(Tx(d, {}, {}, {}))
        \/ /\ ba.status \in {"auctioning", "deal_making"}
           /\ FinishTx(AuctionWon(d, m)) \/ FinishTx(AuctionFailed(d, m.batch))
    BY DEF BatchAuctioned
  <2>4. DBInv(d) /\ d.batches = db.batches
    BY <2>1, CreateOperationInv DEF Inv
  <2> HIDE DEF d
  <2>5. TxOK(d, Tx(d, {}, {}, {}))
    BY <2>4, <1>SilentTx DEF KeepsDisallow
  <2>6. nextID \in Nat
    BY DEF Inv, BrokerTypeOK
  <2>7. ba.status \in {"auctioning", "deal_making"} =>
           TxOK(d, AuctionWon(d, m)) /\ TxOK(d, AuctionFailed(d, m.batch))
    BY <2>1, <2>4, <2>6, <1>AuctionWonTx, <1>AuctionFailedTx
  <2>8. \A tx : TxOK(d, tx) => TxOK(db, tx)
    BY <2>4 DEF TxOK, KeepsDisallow
  <2> QED
    BY <2>2, <2>3, <2>5, <2>7, <2>8, <1>FinishTxInv

\* BatchFinalizedDeal preserves the invariant.
<1>BatchFinalizedDealInv.
    ASSUME Inv, NEW m \in finalizedDeal, BatchFinalizedDeal(m)
    PROVE  Inv'
  <2> USE <1>BatchFinalizedDealInv
  <2> DEFINE c == CreateOperation(db, m.op)
             state == IF m.outcome = "confirmed" THEN "confirmed" ELSE "failed"
             d == SaveDeals(c, m.batch, m.sp, state)
  <2>1. /\ m \in FinalizedDealMsg
        /\ m.batch \in Batches
        /\ m.sp \in Providers
        /\ m.op \in DealOp
    BY DEF Inv, BrokerTypeOK, FinalizedDealMsg
  <2>2. UNCHANGED others
    BY DEF BatchFinalizedDeal, others
  <2>3. FinishTx(DealConfirmed(d, m.batch)) \/ FinishTx(DealFailed(d, m))
    BY DEF BatchFinalizedDeal
  <2>4. DBInv(c) /\ c.batches = db.batches
    BY <2>1, CreateOperationInv DEF Inv
  <2> HIDE DEF c
  <2>5. DBInv(d) /\ d.batches = db.batches
    <3>1. state \in {"pending", "confirmed", "failed"}
      OBVIOUS
    <3> HIDE DEF state
    <3> QED
      BY <2>1, <2>4, <3>1, <1>SaveDealsInv
  <2> HIDE DEF d
  <2>6. nextID \in Nat /\ (m.batch \in late => d.batches[m.batch].disallow)
    BY <2>5 DEF Inv, BrokerTypeOK
  <2>7. TxOK(d, DealConfirmed(d, m.batch)) /\ TxOK(d, DealFailed(d, m))
    BY <2>1, <2>5, <2>6, <1>DealConfirmedTx, <1>DealFailedTx
  <2>8. \A tx : TxOK(d, tx) => TxOK(db, tx)
    BY <2>5 DEF TxOK, KeepsDisallow
  <2> QED
    BY <2>2, <2>3, <2>7, <2>8, <1>FinishTxInv

\* The clock preserves the invariant.
<1>DeadlinePassesInv.
    ASSUME Inv, NEW b \in Batches, DeadlinePasses(b)
    PROVE  Inv'
  <2> USE <1>DeadlinePassesInv
  <2>1. UNCHANGED <<db, nextID, faults, readyToBatch, newBatchCreated,
                    newBatchPrepared, readyToAuction, auctionClosed,
                    readyToCreateDeals, finalizedDeal>>
    BY DEF DeadlinePasses, brokerVars
  <2>2. late' = late \union {b} /\ db.batches[b].disallow
    BY DEF DeadlinePasses
  <2>3. BrokerTypeOK'
    BY <2>1, <2>2 DEF Inv, BrokerTypeOK
  <2> QED
    BY <2>1, <2>2, <2>3 DEF Inv

\* packerd preserves the invariant.
<1>PackBatchInv.
    ASSUME Inv, NEW b \in Batches, NEW entries \in SUBSET Entries,
           PackBatch(b, entries)
    PROVE  Inv'
  <2> USE <1>PackBatchInv
  <2>1. Entries \subseteq Nat \X StorageRequests
    BY SMT DEF Entries, Inv, BrokerTypeOK, ReadyToBatchMsg
  <2>2. [batch |-> b, entries |-> entries] \in NewBatchCreatedMsg
    BY <2>1 DEF NewBatchCreatedMsg
  <2>3. BrokerTypeOK'
    BY <2>2 DEF PackBatch, brokerVars, Inv, BrokerTypeOK
  <2> QED
    BY <2>3 DEF PackBatch, brokerVars, Inv

\* piecerd preserves the invariant.
<1>PrepareBatchInv.
    ASSUME Inv, NEW m \in newBatchCreated, PrepareBatch(m)
    PROVE  Inv'
  <2> USE <1>PrepareBatchInv
  <2>1. [batch |-> m.batch, piece |-> PieceOf[m.batch]] \in NewBatchPreparedMsg
    BY PipelineAssumption DEF Inv, BrokerTypeOK, NewBatchCreatedMsg, NewBatchPreparedMsg
  <2>2. BrokerTypeOK'
    BY <2>1 DEF PrepareBatch, brokerVars, Inv, BrokerTypeOK
  <2> QED
    BY <2>2 DEF PrepareBatch, brokerVars, Inv

\* auctioneerd preserves the invariant.
<1>CloseAuctionInv.
    ASSUME Inv, NEW m \in readyToAuction, NEW ok \in BOOLEAN,
           NEW winners \in SUBSET Providers, CloseAuction(m, ok, winners)
    PROVE  Inv'
  <2> USE <1>CloseAuctionInv
  <2> DEFINE n == Cardinality(Closings(m.id)) + 1
             msg == [op |-> <<m.id, n>>, batch |-> m.batch, ok |-> ok,
                     winners |-> winners]
  <2>1. n \in Nat
    <3>1. IsFiniteSet(Closings(m.id))
      BY FS_Subset DEF Inv, Closings
    <3>2. Cardinality(Closings(m.id)) \in Nat
      BY <3>1, FS_CardinalityType
    <3> QED
      BY <3>2, SMT
  <2>2. auctionClosed' = auctionClosed \union {msg}
    BY DEF CloseAuction
  <2> HIDE DEF n
  <2>3. msg \in AuctionClosedMsg
    BY <2>1 DEF Inv, BrokerTypeOK, ReadyToAuctionMsg, AuctionClosedMsg, AuctionOp
  <2> HIDE DEF msg
  <2>4. UNCHANGED <<brokerVars, late, newBatchCreated, newBatchPrepared, finalizedDeal>>
    BY DEF CloseAuction
  <2>5. BrokerTypeOK'
    BY <2>2, <2>3, <2>4 DEF brokerVars, Inv, BrokerTypeOK
  <2>6. IsFiniteSet(auctionClosed')
    BY <2>2, FS_AddElement DEF Inv
  <2> QED
    BY <2>4, <2>5, <2>6 DEF brokerVars, Inv

\* dealerd preserves the invariant.
<1>FinalizeDealInv.
    ASSUME Inv, NEW m \in readyToCreateDeals, NEW sp \in m.sps,
           NEW outcome \in {"confirmed", "failed", "rejected"},
           FinalizeDeal(m, sp, outcome)
    PROVE  Inv'
  <2> USE <1>FinalizeDealInv
  <2> DEFINE n == Cardinality(Reports(m.id, sp)) + 1
             msg == [op |-> <<m.id, sp, n>>, batch |-> m.batch, sp |-> sp,
                     outcome |-> outcome]
  <2>1. n \in Nat
    <3>1. IsFiniteSet(Reports(m.id, sp))
      BY FS_Subset DEF Inv, Reports
    <3>2. Cardinality(Reports(m.id, sp)) \in Nat
      BY <3>1, FS_CardinalityType
    <3> QED
      BY <3>2, SMT
  <2>2. finalizedDeal' = finalizedDeal \union {msg}
    BY DEF FinalizeDeal
  <2> HIDE DEF n
  <2>3. msg \in FinalizedDealMsg
    BY <2>1 DEF Inv, BrokerTypeOK, ReadyToCreateDealsMsg, FinalizedDealMsg, DealOp
  <2> HIDE DEF msg
  <2>4. UNCHANGED <<brokerVars, late, newBatchCreated, newBatchPrepared, auctionClosed>>
    BY DEF FinalizeDeal
  <2>5. BrokerTypeOK'
    BY <2>2, <2>3, <2>4 DEF brokerVars, Inv, BrokerTypeOK
  <2>6. IsFiniteSet(finalizedDeal')
    BY <2>2, FS_AddElement DEF Inv
  <2> QED
    BY <2>4, <2>5, <2>6 DEF brokerVars, Inv

<1> SUFFICES ASSUME Inv, [Next]_vars PROVE Inv'
  OBVIOUS
<1>1. CASE Clients
  BY <1>1, <1>CreateInv, <1>CreatePreparedInv DEF Clients
<1>2. CASE Brokerd
  BY <1>2, <1>CreateNewBatchInv, <1>NewBatchPreparedInv, <1>BatchAuctionedInv,
     <1>BatchFinalizedDealInv DEF Brokerd
<1>3. CASE Peers
  BY <1>3, <1>PackBatchInv, <1>PrepareBatchInv, <1>CloseAuctionInv, <1>FinalizeDealInv
     DEF Peers
<1>4. CASE \E b \in Batches : DeadlinePasses(b)
  BY <1>4, <1>DeadlinePassesInv
<1>5. CASE UNCHANGED vars
  BY <1>5 DEF vars, brokerVars, Inv, BrokerTypeOK
<1> QED
  BY <1>1, <1>2, <1>3, <1>4, <1>5 DEF Next

\* The inductive invariant holds in every behaviour of brokerd and its peers,
\* failed publishes, failed commits, redelivered messages and repeated reports
\* included.
THEOREM Invariance == Spec => []Inv
BY InvInit, InvNext, PTL DEF Spec

\* Rows and messages always have their types: in particular an auction that
\* BatchAuctioned starts for discarded winners asks for a natural number of
\* copies, and only known providers are excluded or targeted.
THEOREM TypeCorrect == Spec => []TypeOK
<1>1. Inv => TypeOK
  BY DEF Inv, TypeOK
<1> QED
  BY <1>1, Invariance, PTL

\* The status of a request mirrors that of its batch at all times, whatever is
\* redelivered, reordered, reported twice, published without a commit, or taken
\* from another batch.
THEOREM StatusAlwaysMirrored == Spec => []StatusMirrored
<1>1. Inv => StatusMirrored
  BY DEF Inv, DBInv, RequestsMirror, Mirror, StatusMirrored
<1> QED
  BY <1>1, Invariance, PTL

\* Unless the client chose the providers, no provider ever has two deals for one
\* piece, however many auctions of the piece run at the same time.
THEOREM NoDoubleDeals == Spec => []OneDealPerProvider
<1>1. Inv => OneDealPerProvider
  BY DEF Inv, DBInv, DistinctProviders, OneDealPerProvider
<1> QED
  BY <1>1, Invariance, PTL

Live(d, b) == d.batches[b].status \in {"auctioning", "deal_making"}

--------------------------------------------------------------------------------
(* What each method of the store writes. *)

\* e is d with batch b moved to status st and its requests to status rst.
Moved(d, e, b, st, rst) ==
    /\ e.batches = [d.batches EXCEPT ![b].status = st]
    /\ \A s \in StorageRequests :
          /\ e.requests[s].batch = d.requests[s].batch
          /\ e.requests[s].status = IF d.requests[s].batch = b THEN rst
                                    ELSE d.requests[s].status
    /\ e.deals = d.deals
    /\ e.operations = d.operations

SameUnpins(d, e) == e.unpinData = d.unpinData /\ e.unpinBatch = d.unpinBatch

\* The rows store.AddDeals inserts.
NewRows(b, bid, sps) ==
    {[batch |-> b, bid |-> bid, sp |-> p, state |-> "pending"] : p \in sps}

StateSaved(d, e, b, p, state) ==
    /\ \A r \in d.deals : IF r.batch = b /\ r.sp = p
                          THEN [r EXCEPT !.state = state] \in e.deals
                          ELSE r \in e.deals
    /\ \A q \in e.deals :
          \/ q \in d.deals /\ ~(q.batch = b /\ q.sp = p)
          \/ \E r \in d.deals : /\ r.batch = b /\ r.sp = p
                                /\ q = [r EXCEPT !.state = state]

--------------------------------------------------------------------------------
(* What each handler commits.  A step without a fault is one of these. *)

SameRequests ==
    \A s \in StorageRequests :
        /\ db'.requests[s].batch = db.requests[s].batch
        /\ db'.requests[s].status = db.requests[s].status

RequestsMove(b, rst) ==
    \A s \in StorageRequests :
        /\ db'.requests[s].batch = db.requests[s].batch
        /\ db'.requests[s].status = IF db.requests[s].batch = b THEN rst
                                    ELSE db.requests[s].status

AuctionMsg(b, rep, excluded) ==
    [id |-> nextID, batch |-> b, rep |-> rep, excluded |-> excluded,
     providers |-> db.batches[b].providers]

\* A result for a batch that is over: only the operation is recorded.
Noted(m) ==
    /\ db.batches[m.batch].status \in {"success", "error"}
    /\ db'.batches = db.batches
    /\ db'.deals = db.deals
    /\ db'.operations = db.operations \union {m.op}
    /\ SameRequests
    /\ SameUnpins(db, db')
    /\ Publish({}, {}, {})

\* The winners that replace nobody get deals, the others a new auction.
Won(m) ==
    LET accepted == AcceptedWinners(db, m.batch, m.winners)
        lost == m.winners \ accepted
        excluded == GetExcludedStorageProviders(db', db.batches[m.batch].piece)
    IN  /\ m.ok
        /\ Live(db, m.batch)
        /\ db'.batches = [db.batches EXCEPT ![m.batch].status = "deal_making"]
        /\ db'.deals = db.deals \union NewRows(m.batch, m.op, accepted)
        /\ db'.operations = db.operations \union {m.op}
        /\ RequestsMove(m.batch, "deal_making")
        /\ SameUnpins(db, db')
        /\ db.batches[m.batch].providers # {} => lost = {}
        /\ Publish({},
                   IF lost = {} THEN {}
                   ELSE {AuctionMsg(m.batch, Cardinality(lost), excluded)},
                   IF accepted = {} \/ ~db.batches[m.batch].carURL THEN {}
                   ELSE {[id |-> nextID, auction |-> m.op[1], batch |-> m.batch,
                          sps |-> accepted]})

\* The batch moves to error; its requests are batched again or move with it.
Lost(m) ==
    LET disallow == db.batches[m.batch].disallow
    IN  /\ ~m.ok
        /\ Live(db, m.batch)
        /\ db'.batches = [db.batches EXCEPT ![m.batch].status = "error"]
        /\ db'.deals = db.deals
        /\ db'.operations = db.operations \union {m.op}
        /\ RequestsMove(m.batch, IF disallow THEN "error" ELSE "batching")
        /\ db'.unpinData = db.unpinData
        /\ db'.unpinBatch = IF disallow THEN db.unpinBatch
                            ELSE db.unpinBatch \union {m.batch}
        /\ Publish(IF disallow THEN {}
                   ELSE {[op |-> nextID, srs |-> GetStorageRequestIDs(db, m.batch)]},
                   {}, {})

\* The rows of a deal get its outcome.
Saved(m, state) ==
    /\ \E r \in db.deals : r.batch = m.batch /\ r.sp = m.sp
    /\ db'.operations = db.operations \union {m.op}
    /\ StateSaved(db, db', m.batch, m.sp, state)

ConfirmedRows(d, b) == {r \in GetDeals(d, b) : r.state = "confirmed"}

\* The last deal a batch needs.
Completed(m) ==
    LET disallow == db.batches[m.batch].disallow
    IN  /\ m.outcome = "confirmed"
        /\ Saved(m, "confirmed")
        /\ Cardinality(ConfirmedRows(db', m.batch)) = db.batches[m.batch].rep
        /\ db'.batches = [db.batches EXCEPT ![m.batch].status = "success"]
        /\ RequestsMove(m.batch, "success")
        /\ db'.unpinData = IF disallow THEN db.unpinData
                           ELSE db.unpinData \union GetStorageRequestIDs(db, m.batch)
        /\ db'.unpinBatch = IF disallow THEN db.unpinBatch
                            ELSE db.unpinBatch \union {m.batch}
        /\ Publish({}, {}, {})

\* Any other confirmed deal.
Progressed(m) ==
    /\ m.outcome = "confirmed"
    /\ Saved(m, "confirmed")
    /\ Cardinality(ConfirmedRows(db', m.batch)) # db.batches[m.batch].rep
    /\ db'.batches = db.batches
    /\ SameRequests
    /\ SameUnpins(db, db')
    /\ Publish({}, {}, {})

\* A failed deal that is auctioned again.
Replaced(m) ==
    LET excluded == GetExcludedStorageProviders(db', db.batches[m.batch].piece)
    IN  /\ m.outcome # "confirmed"
        /\ Saved(m, "failed")
        /\ db'.batches = db.batches
        /\ SameRequests
        /\ SameUnpins(db, db')
        /\ Publish({}, {AuctionMsg(m.batch, 1, excluded)}, {})

\* A failed deal that can't be auctioned again, too late or for lack of
\* targeted providers.
GivenUp(m) ==
    /\ m.outcome # "confirmed"
    /\ Saved(m, "failed")
    /\ db.batches[m.batch].disallow
    /\ IF Live(db, m.batch)
       THEN /\ db'.batches = [db.batches EXCEPT ![m.batch].status = "error"]
            /\ RequestsMove(m.batch, "error")
       ELSE db'.batches = db.batches /\ SameRequests
    /\ SameUnpins(db, db')
    /\ Publish({}, {}, {})

\* A request to be batched is saved and published.
Made(s) ==
    /\ db.requests[s].status = "none"
    /\ db'.batches = db.batches
    /\ db'.deals = db.deals
    /\ db'.operations = db.operations
    /\ SameUnpins(db, db')
    /\ db'.requests[s].batch = NoBatch
    /\ db'.requests[s].status = "batching"
    /\ \A x \in StorageRequests : x # s => db'.requests[x] = db.requests[x]
    /\ Publish({[op |-> nextID, srs |-> {s}]}, {}, {})

\* A new batch with row row takes the requests srs.
Opened(b, row, srs) ==
    /\ db.batches[b].status = "none"
    /\ row \in BatchRow
    /\ row.rep # 0
    /\ db'.batches = [db.batches EXCEPT ![b] = row]
    /\ db'.deals = db.deals
    /\ db'.operations = db.operations
    /\ SameUnpins(db, db')
    /\ \A s \in StorageRequests :
          IF s \in srs
          THEN db'.requests[s].status = row.status /\ db'.requests[s].batch = b
          ELSE db'.requests[s] = db.requests[s]

\* A prepared batch is opened and auctioned at once.
OpenedPrepared(s, b, in) ==
    /\ db.requests[s].status = "none"
    /\ UnusedBatch(b)
    /\ \E row, excluded :
          /\ row.status = "auctioning" /\ row.disallow
          /\ row.carURL = in.carURL
          /\ row.providers = in.providers
          /\ row.rep = IF in.rep = 0 THEN DealReplication ELSE in.rep
          /\ Opened(b, row, {s})
          /\ Publish({}, {[id |-> nextID, batch |-> b, rep |-> row.rep,
                           excluded |-> excluded, providers |-> row.providers]}, {})

\* A batch of packerd is opened.
OpenedPacked(m) ==
    \E row :
        /\ row.status = "preparing" /\ ~row.disallow
        /\ row.carURL
        /\ row.providers = {}
        /\ Opened(m.batch, row, {e[2] : e \in m.entries})
        /\ Publish({}, {}, {})

\* A batch of packerd gets its piece and is auctioned.
Auctioned(m) ==
    LET ba == db.batches[m.batch]
    IN  /\ ba.status = "preparing"
        /\ db'.batches = [db.batches EXCEPT
                             ![m.batch] = [@ EXCEPT !.status = "auctioning",
                                                    !.piece = m.piece]]
        /\ RequestsMove(m.batch, "auctioning")
        /\ db'.deals = db.deals
        /\ db'.operations = db.operations
        /\ SameUnpins(db, db')
        /\ \E excluded : Publish({}, {AuctionMsg(m.batch, ba.rep, excluded)}, {})

\* A fault leaves the database as it was, except that Create keeps the request;
\* what was published before it stays published.
Faulty ==
    /\ faults' = faults + 1
    /\ db'.batches = db.batches
    /\ db'.deals = db.deals
    /\ db'.operations = db.operations
    /\ readyToCreateDeals \subseteq readyToCreateDeals'
    /\ UNCHANGED others

\* A step of brokerd without a fault.
Committed ==
    /\ UNCHANGED others
    /\ \/ \E s \in StorageRequests : Made(s)
       \/ \E s \in StorageRequests, b \in Batches, in \in PreparedInputs :
             OpenedPrepared(s, b, in)
       \/ \E m \in newBatchCreated : OpenedPacked(m)
       \/ \E m \in newBatchPrepared : Auctioned(m)
       \/ \E m \in auctionClosed :
             m.op \notin db.operations /\ (Noted(m) \/ Won(m) \/ Lost(m))
       \/ \E m \in finalizedDeal :
             /\ m.op \notin db.operations
             /\ Completed(m) \/ Progressed(m) \/ Replaced(m) \/ GivenUp(m)

\* The ways a step can go.
LEMMA StepCases ==
    Inv /\ [Next]_vars =>
       \/ Faulty
       \/ Committed /\ faults' = faults
       \/ Peers
       \/ UNCHANGED <<brokerVars, newBatchCreated, newBatchPrepared,
                      auctionClosed, finalizedDeal>>
\* UpdateStorageRequestsStatus leaves the other tables alone.
<1>UpdateStatusTables.
    ASSUME NEW d \in DBType, NEW b, NEW st
    PROVE  LET e == UpdateStorageRequestsStatus(d, b, st)
           IN  e.operations = d.operations /\ SameUnpins(d, e)
  BY <1>UpdateStatusTables DEF UpdateStorageRequestsStatus, DBType, SameUnpins

\* UpdateBatch leaves the other tables alone.
<1>UpdateBatchTables.
    ASSUME NEW d \in DBType, NEW b \in Batches, NEW row
    PROVE  LET e == UpdateBatch(d, b, row)
           IN  /\ e.batches = [d.batches EXCEPT ![b] = row]
               /\ e.operations = d.operations
               /\ SameUnpins(d, e)
  BY <1>UpdateBatchTables DEF UpdateBatch, DBType, SameUnpins

\* A batch and its requests move to a status, with nothing else changed.
<1>MoveRows.
    ASSUME NEW d \in DBType, NEW b \in Batches,
           NEW st \in BatchStatus, NEW rst \in RequestStatus
    PROVE  LET e == UpdateStorageRequestsStatus(UpdateBatchStatus(d, b, st), b, rst)
           IN  e \in DBType /\ Moved(d, e, b, st, rst) /\ SameUnpins(d, e)
  <2> USE <1>MoveRows
  <2> DEFINE row == [d.batches[b] EXCEPT !.status = st]
             c == UpdateBatch(d, b, row)
             e == UpdateStorageRequestsStatus(c, b, rst)
  <2>1. row \in BatchRow
    BY SMT DEF DBType, BatchRow
  <2>2. /\ c \in DBType
        /\ c.requests = d.requests
        /\ c.deals = d.deals
        /\ c.batches = [d.batches EXCEPT ![b] = row]
        /\ c.operations = d.operations
        /\ SameUnpins(d, c)
    <3> HIDE DEF row
    <3>1. c \in DBType /\ c.requests = d.requests /\ c.deals = d.deals
      BY <2>1, UpdateBatchRows, ZenonT(60)
    <3>2. /\ c.batches = [d.batches EXCEPT ![b] = row]
          /\ c.operations = d.operations
          /\ SameUnpins(d, c)
      BY <1>UpdateBatchTables
    <3> HIDE DEF c
    <3> QED
      BY <3>1, <3>2
  <2> HIDE DEF c
  <2>3. /\ e \in DBType
        /\ e.batches = c.batches
        /\ e.deals = c.deals
        /\ e.operations = c.operations
        /\ SameUnpins(c, e)
        /\ \A s \in StorageRequests :
              /\ e.requests[s].batch = c.requests[s].batch
              /\ e.requests[s].status = IF c.requests[s].batch = b THEN rst
                                        ELSE c.requests[s].status
    <3>1. /\ e \in DBType
          /\ e.batches = c.batches
          /\ e.deals = c.deals
          /\ \A s \in StorageRequests :
              /\ e.requests[s].batch = c.requests[s].batch
              /\ e.requests[s].status = IF c.requests[s].batch = b THEN rst
                                        ELSE c.requests[s].status
      <4>1. c \in DBType
        BY <2>2
      <4> QED
        BY <4>1, UpdateStatusRows, ZenonT(60)
    <3>2. e.operations = c.operations /\ SameUnpins(c, e)
      BY <2>2, <1>UpdateStatusTables
    <3> HIDE DEF e
    <3> QED
      BY <3>1, <3>2
  <2>4. UpdateStorageRequestsStatus(UpdateBatchStatus(d, b, st), b, rst) = e
    BY DEF UpdateBatchStatus, c
  <2> HIDE DEF e
  <2>5. e.batches = [d.batches EXCEPT ![b].status = st]
    BY <2>2, <2>3
  <2>6. Moved(d, e, b, st, rst)
    BY <2>2, <2>3, <2>5, ZenonT(60) DEF Moved
  <2>7. SameUnpins(d, e)
    BY <2>2, <2>3 DEF SameUnpins
  <2> QED
    BY <2>3, <2>4, <2>6, <2>7

\* store.BatchError: a live batch moves to error and its requests go back to
\* batching or to error; any other batch stays as it is.
<1>BatchErrorRows.
    ASSUME NEW d \in DBType, NEW b \in Batches, NEW rebatch \in BOOLEAN
    PROVE  LET e == BatchError(d, b, rebatch)
           IN  IF Live(d, b)
               THEN /\ Moved(d, e, b, "error", IF rebatch THEN "batching" ELSE "error")
                    /\ e.unpinData = d.unpinData
                    /\ e.unpinBatch = IF d.batches[b].disallow THEN d.unpinBatch
                                      ELSE d.unpinBatch \union {b}
               ELSE e = d
  <2> USE <1>BatchErrorRows
  <2> DEFINE st == IF rebatch THEN "batching" ELSE "error"
             moved == UpdateStorageRequestsStatus(UpdateBatchStatus(d, b, "error"), b, st)
             released == IF rebatch THEN RebatchStorageRequests(moved, b) ELSE moved
             e == BatchError(d, b, rebatch)
  <2>1. CASE ~Live(d, b)
    BY <2>1 DEF BatchError, Live
  <2>2. CASE Live(d, b)
    <3>1. st \in RequestStatus /\ "error" \in BatchStatus
      BY StatusNames
    <3>2. e = IF d.batches[b].disallow THEN released
              ELSE CreateUnpinJobs(released, {}, {b})
      BY <2>2 DEF BatchError, Live
    <3>3. moved \in DBType /\ Moved(d, moved, b, "error", st) /\ SameUnpins(d, moved)
      <4> HIDE DEF st
      <4> QED
        BY <3>1, <1>MoveRows
    <3> HIDE DEF moved
    <3>4. /\ released \in DBType
          /\ Moved(d, released, b, "error", st)
          /\ SameUnpins(d, released)
      <4> DEFINE f == RebatchStorageRequests(moved, b)
                 rows == [s \in StorageRequests |->
                            IF moved.requests[s].batch = b
                            THEN [moved.requests[s] EXCEPT !.rebatches = @ + 1]
                            ELSE moved.requests[s]]
      <4>1. f = [moved EXCEPT !.requests = rows]
        BY DEF RebatchStorageRequests
      <4>2. \A s \in StorageRequests : moved.requests[s] \in RequestRow
        BY <3>3 DEF DBType
      <4>3. \A r \in RequestRow : LET u == [r EXCEPT !.rebatches = @ + 1]
                                  IN  /\ u \in RequestRow
                                      /\ u.batch = r.batch
                                      /\ u.status = r.status
        BY SMT DEF RequestRow
      <4>4. /\ rows \in [StorageRequests -> RequestRow]
            /\ \A s \in StorageRequests : /\ rows[s].batch = moved.requests[s].batch
                                           /\ rows[s].status = moved.requests[s].status
        BY <4>2, <4>3
      <4>5. /\ f \in DBType
            /\ f.requests = rows
            /\ f.batches = moved.batches
            /\ f.deals = moved.deals
            /\ f.operations = moved.operations
            /\ SameUnpins(moved, f)
        <5> HIDE DEF rows, f
        <5> QED
          BY <3>3, <4>1, <4>4 DEF DBType, SameUnpins
      <4> HIDE DEF rows, f, st
      <4>6. Moved(d, f, b, "error", st)
        BY <3>3, <4>4, <4>5, ZenonT(60) DEF Moved
      <4>7. SameUnpins(d, f)
        BY <3>3, <4>5 DEF SameUnpins
      <4> QED
        BY <3>3, <4>5, <4>6, <4>7 DEF f
    <3> HIDE DEF released, st
    <3>5. LET u == CreateUnpinJobs(released, {}, {b})
          IN  /\ u.batches = released.batches
              /\ u.requests = released.requests
              /\ u.deals = released.deals
              /\ u.operations = released.operations
              /\ u.unpinData = released.unpinData
              /\ u.unpinBatch = released.unpinBatch \union {b}
      BY <3>4 DEF CreateUnpinJobs, DBType
    <3>6. Moved(d, CreateUnpinJobs(released, {}, {b}), b, "error", st)
      BY <3>4, <3>5 DEF Moved
    <3> QED
      BY <2>2, <3>2, <3>4, <3>5, <3>6 DEF SameUnpins, st
  <2> QED
    BY <2>1, <2>2

\* store.BatchSuccess: the batch and its requests move to success.
<1>BatchSuccessRows.
    ASSUME NEW d \in DBType, NEW b \in Batches
    PROVE  LET e == BatchSuccess(d, b)
           IN  /\ Moved(d, e, b, "success", "success")
               /\ e.unpinData = IF d.batches[b].disallow THEN d.unpinData
                                ELSE d.unpinData \union GetStorageRequestIDs(d, b)
               /\ e.unpinBatch = IF d.batches[b].disallow THEN d.unpinBatch
                                 ELSE d.unpinBatch \union {b}
  <2> USE <1>BatchSuccessRows
  <2> DEFINE done == UpdateStorageRequestsStatus(
                         UpdateBatchStatus(d, b, "success"), b, "success")
             srs == GetStorageRequestIDs(d, b)
             u == CreateUnpinJobs(done, srs, {b})
  <2>1. "success" \in RequestStatus /\ "success" \in BatchStatus
    BY StatusNames
  <2>2. done \in DBType /\ Moved(d, done, b, "success", "success") /\ SameUnpins(d, done)
    BY <2>1, <1>MoveRows
  <2>3. BatchSuccess(d, b) = IF d.batches[b].disallow THEN done ELSE u
    BY DEF BatchSuccess
  <2> HIDE DEF done, srs
  <2>4. /\ u.batches = done.batches
        /\ u.requests = done.requests
        /\ u.deals = done.deals
        /\ u.operations = done.operations
        /\ u.unpinData = done.unpinData \union srs
        /\ u.unpinBatch = done.unpinBatch \union {b}
    BY <2>2 DEF CreateUnpinJobs, DBType
  <2> HIDE DEF u
  <2>5. Moved(d, u, b, "success", "success")
    BY <2>2, <2>4 DEF Moved
  <2> QED
    BY <2>2, <2>3, <2>4, <2>5 DEF SameUnpins, srs

\* store.BatchToAuctioning: the batch gets its piece, its requests move with it.
<1>BatchToAuctioningRows.
    ASSUME NEW d \in DBType, NEW b \in Batches, NEW x \in Pieces
    PROVE  LET e == BatchToAuctioning(d, b, x)
           IN  /\ e.batches = [d.batches EXCEPT
                                  ![b] = [@ EXCEPT !.status = "auctioning", !.piece = x]]
               /\ \A s \in StorageRequests :
                    /\ e.requests[s].batch = d.requests[s].batch
                    /\ e.requests[s].status = IF d.requests[s].batch = b
                                              THEN "auctioning"
                                              ELSE d.requests[s].status
               /\ e.deals = d.deals
               /\ e.operations = d.operations
               /\ SameUnpins(d, e)
  <2> USE <1>BatchToAuctioningRows
  <2> DEFINE row == [d.batches[b] EXCEPT !.status = "auctioning", !.piece = x]
             c == UpdateBatch(d, b, row)
             e == UpdateStorageRequestsStatus(c, b, "auctioning")
  <2>1. row \in BatchRow
    <3>1. d.batches[b] \in BatchRow
      BY DEF DBType
    <3> QED
      BY <3>1, StatusNames DEF BatchRow
  <2>2. BatchToAuctioning(d, b, x) = e
    BY DEF BatchToAuctioning
  <2>3. [d.batches EXCEPT ![b] = [@ EXCEPT !.status = "auctioning", !.piece = x]]
          = [d.batches EXCEPT ![b] = row]
    OBVIOUS
  <2> HIDE DEF row
  <2>4. c \in DBType /\ c.requests = d.requests /\ c.deals = d.deals
    BY <2>1, UpdateBatchRows, ZenonT(60)
  <2>5. /\ c.batches = [d.batches EXCEPT ![b] = row]
        /\ c.operations = d.operations
        /\ SameUnpins(d, c)
    BY <1>UpdateBatchTables
  <2> HIDE DEF c
  <2>6. "auctioning" \in RequestStatus
    BY StatusNames
  <2>7. /\ e \in DBType
        /\ e.batches = c.batches
        /\ e.deals = c.deals
        /\ \A s \in StorageRequests :
              /\ e.requests[s].batch = c.requests[s].batch
              /\ e.requests[s].status = IF c.requests[s].batch = b THEN "auctioning"
                                        ELSE c.requests[s].status
    <3>1. c \in DBType
      BY <2>4
    <3> QED
      BY <2>6, <3>1, UpdateStatusRows, ZenonT(60)
  <2>8. e.operations = c.operations /\ SameUnpins(c, e)
    BY <2>4, <1>UpdateStatusTables
  <2> HIDE DEF e
  <2>9. e.batches = [d.batches EXCEPT
                        ![b] = [@ EXCEPT !.status = "auctioning", !.piece = x]]
    BY <2>3, <2>5, <2>7
  <2>10. SameUnpins(d, e) /\ e.operations = d.operations /\ e.deals = d.deals
    BY <2>4, <2>5, <2>7, <2>8 DEF SameUnpins
  <2>11. \A s \in StorageRequests :
              /\ e.requests[s].batch = d.requests[s].batch
              /\ e.requests[s].status = IF d.requests[s].batch = b THEN "auctioning"
                                        ELSE d.requests[s].status
    BY <2>4, <2>7
  <2> QED
    BY <2>2, <2>9, <2>10, <2>11

\* store.CreateStorageRequest writes one row.
<1>CreateStorageRequestRows.
    ASSUME NEW d \in DBType, NEW s \in StorageRequests, NEW st \in RequestStatus
    PROVE  LET e == CreateStorageRequest(d, s, st)
           IN  /\ e \in DBType
               /\ e.batches = d.batches
               /\ e.deals = d.deals
               /\ e.operations = d.operations
               /\ SameUnpins(d, e)
               /\ e.requests[s].batch = NoBatch
               /\ e.requests[s].status = st
               /\ \A x \in StorageRequests : x # s => e.requests[x] = d.requests[x]
  BY <1>CreateStorageRequestRows DEF CreateStorageRequest, DBType, NoRequestRow,
                                     RequestRow, SameUnpins

\* store.CreateBatch writes the row of the batch and takes the requests.
<1>CreateBatchRows.
    ASSUME NEW d \in DBType, NEW b \in Batches, NEW row \in BatchRow,
           NEW srs \in SUBSET StorageRequests
    PROVE  LET e == CreateBatch(d, b, row, srs)
           IN  /\ e.batches = [d.batches EXCEPT ![b] = row]
               /\ e.deals = d.deals
               /\ e.operations = d.operations
               /\ SameUnpins(d, e)
               /\ \A s \in StorageRequests :
                    IF s \in srs
                    THEN e.requests[s].status = row.status /\ e.requests[s].batch = b
                    ELSE e.requests[s] = d.requests[s]
  <2> USE <1>CreateBatchRows
  <2> DEFINE rows == [s \in StorageRequests |->
                        IF s \in srs
                        THEN [d.requests[s] EXCEPT !.status = row.status, !.batch = b]
                        ELSE d.requests[s]]
             e == CreateBatch(d, b, row, srs)
  <2>1. e = [d EXCEPT !.batches[b] = row, !.requests = rows]
    BY DEF CreateBatch, BatchUpdateStorageRequests, UpdateBatch, DBType
  <2>2. \A s \in StorageRequests :
            IF s \in srs
            THEN rows[s].status = row.status /\ rows[s].batch = b
            ELSE rows[s] = d.requests[s]
    BY DEF DBType, RequestRow
  <2>3. /\ e.requests = rows
        /\ e.batches = [d.batches EXCEPT ![b] = row]
        /\ e.deals = d.deals
        /\ e.operations = d.operations
        /\ SameUnpins(d, e)
    <3> HIDE DEF e, rows
    <3> QED
      BY <2>1 DEF DBType, SameUnpins
  <2> QED
    BY <2>2, <2>3

\* Recording an operation writes nothing else.
<1>CreateOperationRows.
    ASSUME NEW d \in DBType, NEW op \in AuctionOp \union DealOp
    PROVE  LET e == CreateOperation(d, op)
           IN  /\ e \in DBType
               /\ e.requests = d.requests
               /\ e.batches = d.batches
               /\ e.deals = d.deals
               /\ e.operations = d.operations \union {op}
               /\ SameUnpins(d, e)
  BY <1>CreateOperationRows DEF CreateOperation, DBType, SameUnpins

\* store.AddDeals: rows for the accepted winners; the batch is in deal making
\* afterwards, and so are its requests.
<1>AddDealsRows.
    ASSUME NEW d, DBInv(d), NEW b \in Batches, NEW bid \in AuctionOp, Live(d, b),
           NEW winners \in SUBSET Providers
    PROVE  LET e == AddDeals(d, b, bid, winners)
           IN  /\ e.batches = [d.batches EXCEPT ![b].status = "deal_making"]
               /\ \A s \in StorageRequests :
                    /\ e.requests[s].batch = d.requests[s].batch
                    /\ e.requests[s].status = IF d.requests[s].batch = b
                                              THEN "deal_making"
                                              ELSE d.requests[s].status
               /\ e.deals = d.deals \union
                     NewRows(b, bid, AcceptedWinners(d, b, winners))
               /\ e.operations = d.operations
               /\ SameUnpins(d, e)
  <2> USE <1>AddDealsRows
  <2> DEFINE rows == NewRows(b, bid, AcceptedWinners(d, b, winners))
             added == CreateDeals(d, rows)
             moved == UpdateStorageRequestsStatus(
                          UpdateBatchStatus(added, b, "deal_making"), b, "deal_making")
             e == AddDeals(d, b, bid, winners)
  <2>1. d \in DBType
    BY DEF DBInv
  <2>2. AcceptedWinners(d, b, winners) \subseteq Providers
    BY AcceptedWinnersType
  <2>3. rows \subseteq DealRow
    BY <2>2, SMT DEF NewRows, DealRow
  <2>4. e = IF d.batches[b].status = "auctioning" THEN moved ELSE added
    BY DEF AddDeals, NewRows
  <2> HIDE DEF rows, e
  <2>5. /\ added \in DBType
        /\ added.requests = d.requests
        /\ added.batches = d.batches
        /\ added.deals = d.deals \union rows
        /\ added.operations = d.operations
        /\ SameUnpins(d, added)
    BY <2>1, <2>3 DEF CreateDeals, DBType, SameUnpins
  <2> HIDE DEF added
  <2>6. CASE d.batches[b].status = "auctioning"
    <3>1. "deal_making" \in BatchStatus /\ "deal_making" \in RequestStatus
      BY StatusNames
    <3>2. /\ Moved(added, moved, b, "deal_making", "deal_making")
          /\ SameUnpins(added, moved)
      BY <2>5, <3>1, <1>MoveRows
    <3>3. e = moved
      BY <2>4, <2>6
    <3> HIDE DEF moved
    <3>4. SameUnpins(d, e)
      BY <2>5, <3>2, <3>3 DEF SameUnpins
    <3> QED
      BY <2>5, <3>2, <3>3, <3>4, SMT DEF Moved, rows, e
  <2>7. CASE d.batches[b].status = "deal_making"
    <3>1. e = added
      BY <2>4, <2>7
    <3>2. d.batches = [d.batches EXCEPT ![b].status = "deal_making"]
      <4>1. d.batches[b] = [d.batches[b] EXCEPT !.status = "deal_making"]
        BY <2>1, <2>7 DEF DBType, BatchRow
      <4> QED
        BY <2>1, <4>1 DEF DBType
    <3>3. \A s \in StorageRequests :
             d.requests[s].batch = b => d.requests[s].status = "deal_making"
      BY <2>7, StoreAssumption DEF DBInv, RequestsMirror, Mirror
    <3> QED
      BY <2>5, <3>1, <3>2, <3>3 DEF rows, e
  <2> QED
    BY <2>6, <2>7 DEF Live

\* store.SaveDeals: the rows of one provider in one batch get a state.
<1>SaveDealsRows.
    ASSUME NEW d \in DBType, NEW b, NEW p, NEW state \in {"pending", "confirmed", "failed"}
    PROVE  LET e == SaveDeals(d, b, p, state)
           IN  /\ e \in DBType
               /\ e.requests = d.requests
               /\ e.batches = d.batches
               /\ e.operations = d.operations
               /\ SameUnpins(d, e)
               /\ StateSaved(d, e, b, p, state)
  <2> USE <1>SaveDealsRows
  <2> DEFINE upd(r) == IF r.batch = b /\ r.sp = p THEN [r EXCEPT !.state = state] ELSE r
             rows == {upd(r) : r \in d.deals}
             e == SaveDeals(d, b, p, state)
  <2>1. e = [d EXCEPT !.deals = rows]
    BY DEF SaveDeals
  <2>2. rows \subseteq DealRow
    BY SMT DEF DBType, DealRow
  <2>3. \A r \in d.deals : IF r.batch = b /\ r.sp = p
                           THEN [r EXCEPT !.state = state] \in rows
                           ELSE r \in rows
    OBVIOUS
  <2>4. \A q \in rows :
           \/ q \in d.deals /\ ~(q.batch = b /\ q.sp = p)
           \/ \E r \in d.deals : /\ r.batch = b /\ r.sp = p
                                 /\ q = [r EXCEPT !.state = state]
    OBVIOUS
  <2> HIDE DEF rows, e
  <2>5. /\ e \in DBType
        /\ e.requests = d.requests
        /\ e.batches = d.batches
        /\ e.operations = d.operations
        /\ e.deals = rows
        /\ SameUnpins(d, e)
    BY <2>1, <2>2 DEF DBType, SameUnpins
  <2> QED
    BY <2>3, <2>4, <2>5 DEF e, StateSaved

\* A transaction without a fault commits.
<1>Commits.
    ASSUME faults \in Nat, NEW tx, FinishTx(tx), faults' = faults
    PROVE  Publish(tx.batching, tx.auctions, tx.creates) /\ db' = tx.db
  BY <1>Commits, SMT DEF FinishTx

\* BatchAuctioned for a batch that is over.
<1>NotedStep.
    ASSUME Inv, NEW m \in auctionClosed, ~OperationExists(db, m.op),
           db.batches[m.batch].status \in {"error", "success"},
           FinishTx(Tx(CreateOperation(db, m.op), {}, {}, {})), faults' = faults
    PROVE  Noted(m)
  <2> USE <1>NotedStep
  <2>1. m.op \in AuctionOp
    BY DEF Inv, BrokerTypeOK, AuctionClosedMsg
  <2>2. db \in DBType /\ faults \in Nat
    BY DEF Inv, BrokerTypeOK
  <2>3. db' = CreateOperation(db, m.op) /\ Publish({}, {}, {})
    BY <2>2, <1>Commits, SMT DEF Tx
  <2> QED
    BY <2>1, <2>2, <2>3, <1>CreateOperationRows DEF Noted, SameRequests

\* BatchAuctioned for an auction that succeeded.
<1>WonStep.
    ASSUME Inv, NEW m \in auctionClosed, Live(db, m.batch), m.ok,
           FinishTx(AuctionWon(CreateOperation(db, m.op), m)), faults' = faults
    PROVE  Won(m)
  <2> USE <1>WonStep
  <2> DEFINE d == CreateOperation(db, m.op)
             accepted == AcceptedWinners(d, m.batch, m.winners)
             lost == m.winners \ accepted
             added == AddDeals(d, m.batch, m.op, m.winners)
             tx == FillGap(added, m.batch, Cardinality(lost))
             won == AuctionWon(d, m)
             excluded == GetExcludedStorageProviders(added, added.batches[m.batch].piece)
             create == [id |-> nextID, auction |-> m.op[1], batch |-> m.batch,
                        sps |-> accepted]
  <2>1. /\ m.op \in AuctionOp
        /\ m.batch \in Batches
        /\ m.winners \in SUBSET Providers
        /\ db \in DBType /\ faults \in Nat
    BY DEF Inv, BrokerTypeOK, AuctionClosedMsg
  <2>2. /\ DBInv(d)
        /\ d.requests = db.requests
        /\ d.batches = db.batches
        /\ d.deals = db.deals
        /\ d.operations = db.operations \union {m.op}
        /\ SameUnpins(db, d)
    BY <2>1, <1>CreateOperationRows, CreateOperationInv DEF Inv
  <2>3. won = IF accepted = {} \/ ~d.batches[m.batch].carURL THEN tx
              ELSE [tx EXCEPT !.creates = {create}]
    BY DEF AuctionWon
  <2>4. Publish(won.batching, won.auctions, won.creates) /\ db' = won.db
    BY <2>1, <1>Commits
  <2> HIDE DEF d
  <2>5. /\ accepted = AcceptedWinners(db, m.batch, m.winners)
        /\ accepted \subseteq m.winners
    BY <2>1, <2>2 DEF AcceptedWinners, GetExcludedStorageProviders
  <2>6. /\ added.batches = [d.batches EXCEPT ![m.batch].status = "deal_making"]
        /\ \A s \in StorageRequests :
              /\ added.requests[s].batch = d.requests[s].batch
              /\ added.requests[s].status = IF d.requests[s].batch = m.batch
                                            THEN "deal_making"
                                            ELSE d.requests[s].status
        /\ added.deals = d.deals \union NewRows(m.batch, m.op, accepted)
        /\ added.operations = d.operations
        /\ SameUnpins(d, added)
    <3>1. Live(d, m.batch)
      BY <2>2 DEF Live
    <3> QED
      BY <2>1, <2>2, <3>1, <1>AddDealsRows
  <2>7. IsFiniteSet(lost) /\ (Cardinality(lost) = 0 <=> lost = {})
    BY <2>1, <2>5, StoreAssumption, FS_Subset, FS_EmptySet
  <2>8. db.batches[m.batch].providers # {} => lost = {}
    BY <2>2 DEF AcceptedWinners
  <2>9. /\ added.batches[m.batch].providers = db.batches[m.batch].providers
        /\ added.batches[m.batch].piece = db.batches[m.batch].piece
    BY <2>1, <2>2, <2>6, SMT DEF DBType, BatchRow
  <2> HIDE DEF added, accepted, lost, excluded, create
  <2>10. /\ tx.db = added /\ tx.batching = {} /\ tx.creates = {}
         /\ tx.auctions = IF lost = {} THEN {}
                          ELSE {AuctionMsg(m.batch, Cardinality(lost), excluded)}
         /\ tx = [db |-> tx.db, batching |-> tx.batching, auctions |-> tx.auctions,
                  creates |-> tx.creates]
    <3>1. CASE lost = {}
      BY <3>1, <2>7 DEF FillGap, Tx
    <3>2. CASE lost # {}
      <4>1. added.batches[m.batch].providers = {}
        BY <3>2, <2>8, <2>9
      <4>2. tx = StartAuction(added, m.batch, added.batches[m.batch].piece,
                              Cardinality(lost), FALSE)
        BY <3>2, <2>7 DEF FillGap
      <4>3. tx = Tx(added, {}, {AuctionMsg(m.batch, Cardinality(lost), excluded)}, {})
        BY <4>1, <4>2, <2>9 DEF StartAuction, AuctionMsg, excluded
      <4> QED
        BY <3>2, <4>3, SMT DEF Tx
    <3> QED
      BY <3>1, <3>2
  <2> HIDE DEF tx
  <2>11. /\ won.db = added
         /\ won.batching = {}
         /\ won.auctions = tx.auctions
         /\ won.creates = IF accepted = {} \/ ~d.batches[m.batch].carURL THEN {}
                          ELSE {create}
    BY <2>3, <2>10
  <2> HIDE DEF won
  <2>12. db' = added /\ excluded = GetExcludedStorageProviders(db', db.batches[m.batch].piece)
    BY <2>4, <2>9, <2>11 DEF excluded
  <2>13. Publish({}, IF lost = {} THEN {}
                     ELSE {AuctionMsg(m.batch, Cardinality(lost), excluded)},
                     IF accepted = {} \/ ~db.batches[m.batch].carURL THEN {}
                     ELSE {create})
    BY <2>2, <2>4, <2>10, <2>11
  <2>14. SameUnpins(db, db') /\ RequestsMove(m.batch, "deal_making")
    BY <2>2, <2>6, <2>12, SMT DEF SameUnpins, RequestsMove
  <2> QED
    BY <2>2, <2>5, <2>6, <2>8, <2>12, <2>13, <2>14 DEF Won, lost, create

\* BatchAuctioned for an auction that failed.
<1>LostStep.
    ASSUME Inv, NEW m \in auctionClosed, Live(db, m.batch), ~m.ok,
           FinishTx(AuctionFailed(CreateOperation(db, m.op), m.batch)), faults' = faults
    PROVE  Lost(m)
  <2> USE <1>LostStep
  <2> DEFINE d == CreateOperation(db, m.op)
             b == m.batch
             disallow == db.batches[b].disallow
             rebatch == ~disallow
             e == BatchError(d, b, rebatch)
             msg == [op |-> nextID, srs |-> GetStorageRequestIDs(db, b)]
  <2>1. m.op \in AuctionOp /\ b \in Batches /\ db \in DBType /\ faults \in Nat
    BY DEF Inv, BrokerTypeOK, AuctionClosedMsg
  <2>2. /\ d \in DBType
        /\ d.requests = db.requests
        /\ d.batches = db.batches
        /\ d.deals = db.deals
        /\ d.operations = db.operations \union {m.op}
        /\ SameUnpins(db, d)
    BY <2>1, <1>CreateOperationRows
  <2>3. disallow \in BOOLEAN
    BY <2>1 DEF DBType, BatchRow
  <2>4. GetStorageRequestIDs(d, b) = GetStorageRequestIDs(db, b)
    BY <2>2 DEF GetStorageRequestIDs
  <2>5. AuctionFailed(d, b) = Tx(e, IF disallow THEN {} ELSE {msg}, {}, {})
    <3>1. CASE disallow
      <4>1. rebatch = FALSE
        BY <3>1
      <4> QED
        BY <3>1, <4>1, <2>2 DEF AuctionFailed
    <3>2. CASE ~disallow
      <4>1. rebatch = TRUE
        BY <3>2
      <4> QED
        BY <3>2, <4>1, <2>2, <2>4 DEF AuctionFailed
    <3> QED
      BY <3>1, <3>2
  <2>6. /\ Publish(IF disallow THEN {} ELSE {msg}, {}, {})
        /\ db' = e
    <3>1. FinishTx(Tx(e, IF disallow THEN {} ELSE {msg}, {}, {}))
      BY <2>5
    <3> HIDE DEF e, msg, disallow
    <3> QED
      BY <2>1, <3>1, <1>Commits, SMT DEF Tx
  <2>7. /\ Moved(d, e, b, "error", IF rebatch THEN "batching" ELSE "error")
        /\ e.unpinData = d.unpinData
        /\ e.unpinBatch = IF d.batches[b].disallow THEN d.unpinBatch
                          ELSE d.unpinBatch \union {b}
    <3>1. Live(d, b) /\ rebatch \in BOOLEAN
      BY <2>2, <2>3 DEF Live
    <3> HIDE DEF rebatch, d
    <3> QED
      BY <2>1, <2>2, <3>1, <1>BatchErrorRows
  <2> HIDE DEF e, d
  <2>8. RequestsMove(b, IF disallow THEN "error" ELSE "batching")
    BY <2>2, <2>6, <2>7, SMT DEF Moved, RequestsMove
  <2> QED
    BY <2>2, <2>6, <2>7, <2>8 DEF Lost, Moved, SameUnpins

\* What BatchAuctioned commits.
<1>BatchAuctionedStep.
    ASSUME Inv, NEW m \in auctionClosed, BatchAuctioned(m), faults' = faults
    PROVE  /\ m.op \notin db.operations
           /\ Noted(m) \/ Won(m) \/ Lost(m)
  <2> USE <1>BatchAuctionedStep
  <2>1. ~OperationExists(db, m.op)
    BY DEF BatchAuctioned
  <2>2. \/ /\ db.batches[m.batch].status \in {"error", "success"}
           /\ FinishTx(Tx(CreateOperation(db, m.op), {}, {}, {}))
        \/ /\ Live(db, m.batch) /\ m.ok
           /\ FinishTx(AuctionWon(CreateOperation(db, m.op), m))
        \/ /\ Live(db, m.batch) /\ ~m.ok
           /\ FinishTx(AuctionFailed(CreateOperation(db, m.op), m.batch))
    BY DEF BatchAuctioned, Live
  <2> QED
    BY <2>1, <2>2, <1>NotedStep, <1>WonStep, <1>LostStep DEF OperationExists

\* What BatchFinalizedDeal commits.
<1>BatchFinalizedDealStep.
    ASSUME Inv, NEW m \in finalizedDeal, BatchFinalizedDeal(m), faults' = faults
    PROVE  /\ m.op \notin db.operations
           /\ Completed(m) \/ Progressed(m) \/ Replaced(m) \/ GivenUp(m)
  <2> USE <1>BatchFinalizedDealStep
  <2> DEFINE c == CreateOperation(db, m.op)
             state == IF m.outcome = "confirmed" THEN "confirmed" ELSE "failed"
             d == SaveDeals(c, m.batch, m.sp, state)
             ba == db.batches[m.batch]
  <2>1. /\ m.batch \in Batches /\ m.op \in DealOp
        /\ db \in DBType /\ faults \in Nat
    BY DEF Inv, BrokerTypeOK, FinalizedDealMsg
  <2>2. /\ m.op \notin db.operations
        /\ \E r \in db.deals : r.batch = m.batch /\ r.sp = m.sp
        /\ FinishTx(IF m.outcome = "confirmed" THEN DealConfirmed(d, m.batch)
                    ELSE DealFailed(d, m))
    BY DEF BatchFinalizedDeal, OperationExists
  <2>3. /\ c \in DBType
        /\ c.requests = db.requests
        /\ c.batches = db.batches
        /\ c.deals = db.deals
        /\ c.operations = db.operations \union {m.op}
        /\ SameUnpins(db, c)
    BY <2>1, <1>CreateOperationRows
  <2> HIDE DEF c
  <2>4. state \in {"pending", "confirmed", "failed"}
    OBVIOUS
  <2>5. /\ d \in DBType
        /\ d.requests = c.requests
        /\ d.batches = c.batches
        /\ d.operations = c.operations
        /\ SameUnpins(c, d)
        /\ StateSaved(c, d, m.batch, m.sp, state)
    <3>1. c \in DBType
      BY <2>3
    <3> HIDE DEF state
    <3> QED
      BY <2>4, <3>1, <1>SaveDealsRows, ZenonT(60)
  <2> HIDE DEF d, state
  <2>6. /\ d.requests = db.requests
        /\ d.batches = db.batches
        /\ d.operations = db.operations \union {m.op}
        /\ SameUnpins(db, d)
    BY <2>3, <2>5 DEF SameUnpins
  <2>7. db'.deals = d.deals /\ db'.operations = d.operations => Saved(m, state)
    BY <2>2, <2>3, <2>5, <2>6, SMT DEF Saved, StateSaved
  <2>8. CASE m.outcome = "confirmed"
    <3> DEFINE confirmed == {r \in GetDeals(d, m.batch) : r.state = "confirmed"}
    <3>1. state = "confirmed"
      BY <2>8 DEF state
    <3>2. FinishTx(DealConfirmed(d, m.batch))
      BY <2>2, <2>8
    <3>3. db'.deals = d.deals => confirmed = ConfirmedRows(db', m.batch)
      BY DEF ConfirmedRows, GetDeals
    <3>4. DealConfirmed(d, m.batch) = IF Cardinality(confirmed) = ba.rep
                                      THEN Tx(BatchSuccess(d, m.batch), {}, {}, {})
                                      ELSE Tx(d, {}, {}, {})
      BY <2>6 DEF DealConfirmed
    <3> HIDE DEF confirmed
    <3>5. CASE Cardinality(confirmed) = ba.rep
      <4> DEFINE e == BatchSuccess(d, m.batch)
      <4>1. db' = e /\ Publish({}, {}, {})
        <5> HIDE DEF e
        <5> QED
          BY <2>1, <3>2, <3>4, <3>5, <1>Commits, SMT DEF Tx, e
      <4>2. /\ Moved(d, e, m.batch, "success", "success")
            /\ e.unpinData = IF d.batches[m.batch].disallow THEN d.unpinData
                             ELSE d.unpinData \union GetStorageRequestIDs(d, m.batch)
            /\ e.unpinBatch = IF d.batches[m.batch].disallow THEN d.unpinBatch
                              ELSE d.unpinBatch \union {m.batch}
        BY <2>1, <2>5, <1>BatchSuccessRows
      <4> HIDE DEF e
      <4>3. db'.deals = d.deals /\ db'.operations = d.operations
        BY <4>1, <4>2 DEF Moved
      <4>4. RequestsMove(m.batch, "success")
        BY <2>6, <4>1, <4>2, SMT DEF Moved, RequestsMove
      <4>5. GetStorageRequestIDs(d, m.batch) = GetStorageRequestIDs(db, m.batch)
        BY <2>6 DEF GetStorageRequestIDs
      <4>6. Completed(m)
        BY <2>6, <2>7, <2>8, <3>1, <3>3, <3>5, <4>1, <4>2, <4>3, <4>4, <4>5
           DEF Completed, Moved, SameUnpins
      <4> QED
        BY <2>2, <4>6
    <3>6. CASE Cardinality(confirmed) # ba.rep
      <4>1. db' = d /\ Publish({}, {}, {})
        BY <2>1, <3>2, <3>4, <3>6, <1>Commits, SMT DEF Tx
      <4>2. Progressed(m)
        BY <2>6, <2>7, <2>8, <3>1, <3>3, <3>6, <4>1 DEF Progressed, SameRequests
      <4> QED
        BY <2>2, <4>2
    <3> QED
      BY <3>5, <3>6
  <2>9. CASE m.outcome # "confirmed"
    <3> DEFINE excluded == GetExcludedStorageProviders(d, ba.piece)
               e == BatchError(d, m.batch, FALSE)
               tx == DealFailed(d, m)
    <3>1. state = "failed"
      BY <2>9 DEF state
    <3>2. FinishTx(tx)
      BY <2>2, <2>9
    <3>3. \/ /\ m.batch \in late \/ ba.providers # {}
             /\ tx.db = e
             /\ tx.batching = {} /\ tx.auctions = {} /\ tx.creates = {}
          \/ /\ tx.db = d
             /\ tx.batching = {} /\ tx.creates = {}
             /\ tx.auctions = {AuctionMsg(m.batch, 1, excluded)}
      <4>1. CASE m.outcome # "rejected" /\ m.batch \in late
        <5>1. tx = Tx(e, {}, {}, {})
          BY <4>1 DEF DealFailed
        <5> HIDE DEF e, tx
        <5> QED
          BY <4>1, <5>1 DEF Tx
      <4>2. CASE ~(m.outcome # "rejected" /\ m.batch \in late)
        <5>1. tx = StartAuction(d, m.batch, ba.piece, 1, FALSE)
          BY <4>2, <2>6 DEF DealFailed
        <5>2. d.batches[m.batch].providers = ba.providers
          BY <2>6
        <5>3. \/ ba.providers # {} /\ tx = Tx(e, {}, {}, {})
              \/ tx = Tx(d, {}, {AuctionMsg(m.batch, 1, excluded)}, {})
          BY <5>1, <5>2 DEF StartAuction, AuctionMsg
        <5> HIDE DEF tx, e
        <5> QED
          BY <5>3, SMT DEF Tx
      <4> QED
        BY <4>1, <4>2
    <3>4. Publish(tx.batching, tx.auctions, tx.creates) /\ db' = tx.db
      BY <2>1, <3>2, <1>Commits
    <3> HIDE DEF tx
    <3>5. CASE /\ m.batch \in late \/ ba.providers # {}
               /\ tx.db = e
               /\ tx.batching = {} /\ tx.auctions = {} /\ tx.creates = {}
      <4>1. ba.disallow
        BY <2>1, <3>5 DEF Inv, DBInv, PreparedRows
      <4>2. IF Live(d, m.batch)
            THEN /\ Moved(d, e, m.batch, "error", IF FALSE THEN "batching" ELSE "error")
                 /\ e.unpinData = d.unpinData
                 /\ e.unpinBatch = IF d.batches[m.batch].disallow THEN d.unpinBatch
                                   ELSE d.unpinBatch \union {m.batch}
            ELSE e = d
        BY <2>1, <2>5, <1>BatchErrorRows
      <4>3. db' = e /\ Publish({}, {}, {})
        BY <3>4, <3>5
      <4> HIDE DEF e
      <4>4. Saved(m, "failed")
        BY <2>7, <3>1, <4>2, <4>3 DEF Moved
      <4>5. SameUnpins(db, db')
        BY <2>6, <4>1, <4>2, <4>3 DEF SameUnpins
      <4>6. IF Live(db, m.batch)
            THEN /\ db'.batches = [db.batches EXCEPT ![m.batch].status = "error"]
                 /\ RequestsMove(m.batch, "error")
            ELSE db'.batches = db.batches /\ SameRequests
        <5>1. Live(d, m.batch) <=> Live(db, m.batch)
          BY <2>6 DEF Live
        <5>2. CASE Live(db, m.batch)
          BY <2>6, <4>2, <4>3, <5>1, <5>2, SMT DEF Moved, RequestsMove
        <5>3. CASE ~Live(db, m.batch)
          BY <2>6, <4>2, <4>3, <5>1, <5>3 DEF SameRequests
        <5> QED
          BY <5>2, <5>3
      <4>7. GivenUp(m)
        BY <2>9, <4>1, <4>3, <4>4, <4>5, <4>6 DEF GivenUp
      <4> QED
        BY <2>2, <4>7
    <3>6. CASE /\ tx.db = d
               /\ tx.batching = {} /\ tx.creates = {}
               /\ tx.auctions = {AuctionMsg(m.batch, 1, excluded)}
      <4>1. db' = d /\ Publish({}, {AuctionMsg(m.batch, 1, excluded)}, {})
        BY <3>4, <3>6
      <4>2. Replaced(m)
        BY <2>6, <2>7, <2>9, <3>1, <4>1 DEF Replaced, SameRequests
      <4> QED
        BY <2>2, <4>2
    <3> QED
      BY <3>3, <3>5, <3>6
  <2> QED
    BY <2>8, <2>9

\* What Create saves and publishes.
<1>CreateStep.
    ASSUME Inv, NEW s \in StorageRequests, Create(s), faults' = faults
    PROVE  Made(s)
  <2> USE <1>CreateStep
  <2>1. db \in DBType /\ faults \in Nat /\ "batching" \in RequestStatus
    BY StatusNames DEF Inv, BrokerTypeOK
  <2>2. /\ db.requests[s].status = "none"
        /\ db' = CreateStorageRequest(db, s, "batching")
        /\ Publish({[op |-> nextID, srs |-> {s}]}, {}, {})
    BY <2>1, SMT DEF Create
  <2> QED
    BY <2>1, <2>2, <1>CreateStorageRequestRows, SMT DEF Made

\* What CreatePrepared commits: the first auction of a batch is always
\* published, targeted providers or not.
<1>CreatePreparedStep.
    ASSUME Inv, NEW s \in StorageRequests, NEW b \in Batches,
           NEW in \in PreparedInputs, CreatePrepared(s, b, in), faults' = faults
    PROVE  OpenedPrepared(s, b, in)
  <2> USE <1>CreatePreparedStep
  <2> DEFINE row == [status    |-> "auctioning",
                     rep       |-> IF in.rep = 0 THEN DealReplication ELSE in.rep,
                     piece     |-> in.piece,
                     disallow  |-> TRUE,
                     providers |-> in.providers,
                     carURL    |-> in.carURL]
             d1 == CreateStorageRequest(db, s, "auctioning")
             d2 == CreateBatch(d1, b, row, {s})
             ignore == row.providers # {}
             tx == StartAuction(d2, b, row.piece, row.rep, ignore)
             excluded == IF ignore THEN {} ELSE GetExcludedStorageProviders(d2, row.piece)
             msg == [id |-> nextID, batch |-> b, rep |-> row.rep,
                     excluded |-> excluded, providers |-> row.providers]
  <2>1. /\ in.rep \in Nat
        /\ in.providers \in SUBSET Providers
        /\ in.piece \in Pieces
        /\ in.carURL \in BOOLEAN
        /\ DealReplication \in Nat \ {0}
    BY BrokerAssumption
  <2>2. /\ row \in BatchRow
        /\ row.status = "auctioning" /\ row.disallow
        /\ row.carURL = in.carURL
        /\ row.providers = in.providers
        /\ row.rep = IF in.rep = 0 THEN DealReplication ELSE in.rep
        /\ row.rep # 0
    BY <2>1, StatusNames DEF BatchRow
  <2>3. FinishTx(tx) /\ UnusedBatch(b) /\ db.requests[s].status = "none"
    BY DEF CreatePrepared
  <2> HIDE DEF row
  <2>4. db \in DBType /\ faults \in Nat /\ "auctioning" \in RequestStatus
    BY StatusNames DEF Inv, BrokerTypeOK
  <2>5. /\ d1 \in DBType
        /\ d1.batches = db.batches
        /\ d1.deals = db.deals
        /\ d1.operations = db.operations
        /\ SameUnpins(db, d1)
        /\ \A x \in StorageRequests : x # s => d1.requests[x] = db.requests[x]
    BY <2>4, <1>CreateStorageRequestRows, SMT
  <2> HIDE DEF d1
  <2>6. /\ d2.batches = [d1.batches EXCEPT ![b] = row]
        /\ d2.deals = d1.deals
        /\ d2.operations = d1.operations
        /\ SameUnpins(d1, d2)
        /\ \A x \in StorageRequests :
              IF x \in {s}
              THEN d2.requests[x].status = row.status /\ d2.requests[x].batch = b
              ELSE d2.requests[x] = d1.requests[x]
    <3>1. {s} \in SUBSET StorageRequests
      OBVIOUS
    <3> QED
      BY <2>2, <2>5, <3>1, <1>CreateBatchRows, SMT
  <2> HIDE DEF d2
  <2>7. d2.batches[b] = row
    BY <2>4, <2>5, <2>6 DEF DBType
  <2>8. tx = Tx(d2, {}, {msg}, {})
    <3>1. ~(row.providers # {} /\ row.providers \subseteq excluded)
      OBVIOUS
    <3> QED
      BY <2>7, <3>1 DEF StartAuction
  <2> HIDE DEF tx, msg, excluded
  <2>9. Publish({}, {msg}, {}) /\ db' = d2
    BY <2>3, <2>4, <2>8, <1>Commits, SMT DEF Tx
  <2>10. db.batches[b].status = "none"
    BY <2>3 DEF UnusedBatch
  <2>11. SameUnpins(db, db')
    BY <2>5, <2>6, <2>9 DEF SameUnpins
  <2>12. \A x \in StorageRequests :
           IF x \in {s}
           THEN db'.requests[x].status = row.status /\ db'.requests[x].batch = b
           ELSE db'.requests[x] = db.requests[x]
    BY <2>5, <2>6, <2>9
  <2>13. Opened(b, row, {s})
    BY <2>2, <2>5, <2>6, <2>9, <2>10, <2>11, <2>12 DEF Opened
  <2> QED
    BY <2>2, <2>3, <2>9, <2>13 DEF OpenedPrepared, msg

\* What CreateNewBatch commits.
<1>CreateNewBatchStep.
    ASSUME Inv, NEW m \in newBatchCreated, CreateNewBatch(m), faults' = faults
    PROVE  OpenedPacked(m)
  <2> USE <1>CreateNewBatchStep
  <2> DEFINE srs == {e[2] : e \in m.entries}
             row == [NoBatchRow EXCEPT !.status = "preparing",
                                       !.rep = DealReplication,
                                       !.carURL = TRUE]
             d == CreateBatch(db, m.batch, row, srs)
  <2>1. m.batch \in Batches /\ m.entries \subseteq Nat \X StorageRequests
    BY DEF Inv, BrokerTypeOK, NewBatchCreatedMsg
  <2>2. srs \in SUBSET StorageRequests
    BY <2>1
  <2>3. /\ row \in BatchRow
        /\ row.status = "preparing" /\ ~row.disallow
        /\ row.carURL
        /\ row.providers = {}
        /\ row.rep = DealReplication
    BY BrokerAssumption DEF NoBatchRow, BatchRow, BatchStatus
  <2>4. /\ FinishTx(Tx(d, {}, {}, {}))
        /\ db.batches[m.batch].status = "none"
    BY DEF CreateNewBatch
  <2> HIDE DEF row
  <2>5. row.rep # 0
    BY <2>3, BrokerAssumption
  <2>6. db \in DBType /\ faults \in Nat
    BY DEF Inv, BrokerTypeOK
  <2>7. db' = d /\ Publish({}, {}, {})
    <3> HIDE DEF d
    <3> QED
      BY <2>4, <2>6, <1>Commits, SMT DEF Tx
  <2>8. Opened(m.batch, row, srs)
    <3>1. /\ d.batches = [db.batches EXCEPT ![m.batch] = row]
          /\ d.deals = db.deals
          /\ d.operations = db.operations
          /\ SameUnpins(db, d)
          /\ \A s \in StorageRequests :
                IF s \in srs
                THEN d.requests[s].status = row.status /\ d.requests[s].batch = m.batch
                ELSE d.requests[s] = db.requests[s]
      <4> HIDE DEF srs
      <4> QED
        BY <2>1, <2>2, <2>3, <2>6, <1>CreateBatchRows, SMT
    <3> HIDE DEF d, srs
    <3> QED
      BY <2>3, <2>4, <2>5, <2>7, <3>1 DEF Opened
  <2> QED
    BY <2>3, <2>7, <2>8 DEF OpenedPacked

\* What NewBatchPrepared commits: a batch of packerd has no targeted providers,
\* so the auction is always published.
<1>NewBatchPreparedStep.
    ASSUME Inv, NEW m \in newBatchPrepared, NewBatchPrepared(m), faults' = faults
    PROVE  Auctioned(m)
  <2> USE <1>NewBatchPreparedStep
  <2> DEFINE d == BatchToAuctioning(db, m.batch, m.piece)
             ba == db.batches[m.batch]
             tx == StartAuction(d, m.batch, NoPiece, ba.rep, FALSE)
             excluded == GetExcludedStorageProviders(d, NoPiece)
  <2>1. m.batch \in Batches /\ m.piece \in Pieces
    BY DEF Inv, BrokerTypeOK, NewBatchPreparedMsg
  <2>2. FinishTx(tx)
    BY DEF NewBatchPrepared
  <2>3. ba.status = "preparing"
    BY DEF NewBatchPrepared, PreparedVerdict
  <2>4. ba.providers = {}
    BY <2>1, <2>3 DEF Inv, DBInv, PreparedRows
  <2>5. db \in DBType /\ faults \in Nat
    BY DEF Inv, BrokerTypeOK
  <2>6. /\ d.batches = [db.batches EXCEPT
                           ![m.batch] = [@ EXCEPT !.status = "auctioning",
                                                  !.piece = m.piece]]
        /\ \A s \in StorageRequests :
              /\ d.requests[s].batch = db.requests[s].batch
              /\ d.requests[s].status = IF db.requests[s].batch = m.batch
                                        THEN "auctioning"
                                        ELSE db.requests[s].status
        /\ d.deals = db.deals
        /\ d.operations = db.operations
        /\ SameUnpins(db, d)
    BY <2>1, <2>5, <1>BatchToAuctioningRows
  <2> HIDE DEF d
  <2>7. d.batches[m.batch].providers = ba.providers
    BY <2>1, <2>5, <2>6, SMT DEF DBType, BatchRow
  <2>8. tx = Tx(d, {}, {AuctionMsg(m.batch, ba.rep, excluded)}, {})
    BY <2>4, <2>7 DEF StartAuction, AuctionMsg
  <2> HIDE DEF tx
  <2>9. Publish({}, {AuctionMsg(m.batch, ba.rep, excluded)}, {}) /\ db' = d
    BY <2>2, <2>5, <2>8, <1>Commits, SMT DEF Tx
  <2>10. RequestsMove(m.batch, "auctioning")
    BY <2>6, <2>9 DEF RequestsMove
  <2>11. \E ex : Publish({}, {AuctionMsg(m.batch, ba.rep, ex)}, {})
    BY <2>9
  <2> QED
    BY <2>3, <2>6, <2>9, <2>10, <2>11 DEF Auctioned

\* A handler that publishes and then fails.
<1>FaultyTx.
    ASSUME NEW tx, FinishTx(tx), faults' # faults, UNCHANGED others
    PROVE  Faulty
  BY <1>FaultyTx DEF FinishTx, Publish, Faulty

\* Only the steps of brokerd can meet a fault, and a fault changes no row of a
\* batch or a deal.
<1>FaultyStep.
    ASSUME Inv, Next, faults' # faults
    PROVE  Faulty
  <2> USE <1>FaultyStep
  <2>1. CASE \E s \in StorageRequests : Create(s)
    <3>1. PICK s \in StorageRequests : Create(s)
      BY <2>1
    <3>2. db \in DBType /\ "batching" \in RequestStatus
      BY StatusNames DEF Inv, BrokerTypeOK
    <3>3. db' = CreateStorageRequest(db, s, "batching")
      BY <3>1 DEF Create
    <3>4. /\ UNCHANGED others
          /\ readyToCreateDeals \subseteq readyToCreateDeals'
          /\ faults' = faults + 1
      BY <3>1 DEF Create, Publish, others
    <3> QED
      BY <3>2, <3>3, <3>4, <1>CreateStorageRequestRows, SMT DEF Faulty
  <2>2. CASE \E s \in StorageRequests, b \in Batches, in \in PreparedInputs :
                CreatePrepared(s, b, in)
    BY <2>2, <1>FaultyTx, SMT DEF CreatePrepared, others
  <2>3. CASE Brokerd
    <3>1. CASE \E m \in newBatchCreated : CreateNewBatch(m)
      BY <3>1, <1>FaultyTx DEF CreateNewBatch, others
    <3>2. CASE \E m \in newBatchPrepared : NewBatchPrepared(m)
      BY <3>2, <1>FaultyTx DEF NewBatchPrepared, others
    <3>3. CASE \E m \in auctionClosed : BatchAuctioned(m)
      BY <3>3, <1>FaultyTx DEF BatchAuctioned, others
    <3>4. CASE \E m \in finalizedDeal : BatchFinalizedDeal(m)
      BY <3>4, <1>FaultyTx DEF BatchFinalizedDeal, others
    <3> QED
      BY <2>3, <3>1, <3>2, <3>3, <3>4 DEF Brokerd
  <2>4. ASSUME Peers \/ \E b \in Batches : DeadlinePasses(b) PROVE FALSE
    BY <2>4 DEF Peers, PackBatch, PrepareBatch, CloseAuction, FinalizeDeal,
                DeadlinePasses, brokerVars
  <2> QED
    BY <2>1, <2>2, <2>3, <2>4 DEF Next, Clients

<1> SUFFICES ASSUME Inv, [Next]_vars
             PROVE  \/ Faulty
                    \/ Committed /\ faults' = faults
                    \/ Peers
                    \/ UNCHANGED <<brokerVars, newBatchCreated, newBatchPrepared,
                                   auctionClosed, finalizedDeal>>
  OBVIOUS
<1>1. CASE Next /\ faults' # faults
  BY <1>1, <1>FaultyStep
<1>2. CASE Clients /\ faults' = faults
  <2>1. UNCHANGED others
    BY <1>2 DEF Clients, Create, CreatePrepared, others
  <2>2. \/ \E s \in StorageRequests : Made(s)
        \/ \E s \in StorageRequests, b \in Batches, in \in PreparedInputs :
              OpenedPrepared(s, b, in)
    BY <1>2, <1>CreateStep, <1>CreatePreparedStep DEF Clients
  <2> QED
    BY <1>2, <2>1, <2>2 DEF Committed
<1>3. CASE Brokerd /\ faults' = faults
  <2>1. UNCHANGED others
    BY <1>3 DEF Brokerd, CreateNewBatch, NewBatchPrepared, BatchAuctioned,
                BatchFinalizedDeal, others
  <2>2. CASE \E m \in newBatchCreated : CreateNewBatch(m)
    BY <1>3, <2>1, <2>2, <1>CreateNewBatchStep DEF Committed
  <2>3. CASE \E m \in newBatchPrepared : NewBatchPrepared(m)
    BY <1>3, <2>1, <2>3, <1>NewBatchPreparedStep DEF Committed
  <2>4. CASE \E m \in auctionClosed : BatchAuctioned(m)
    BY <1>3, <2>1, <2>4, <1>BatchAuctionedStep DEF Committed
  <2>5. CASE \E m \in finalizedDeal : BatchFinalizedDeal(m)
    BY <1>3, <2>1, <2>5, <1>BatchFinalizedDealStep DEF Committed
  <2> QED
    BY <1>3, <2>2, <2>3, <2>4, <2>5 DEF Brokerd
<1>4. CASE \E b \in Batches : DeadlinePasses(b)
  BY <1>4 DEF DeadlinePasses
<1>5. CASE UNCHANGED vars
  BY <1>5 DEF vars
<1> QED
  BY <1>1, <1>2, <1>3, <1>4, <1>5 DEF Next

--------------------------------------------------------------------------------
(* Deals that are announced, whatever fails. *)

CarRows == \A b \in Batches : db.batches[b].status # "none" => db.batches[b].carURL

\* No step of brokerd changes whether the rows a batch has are downloadable.
LEMMA BatchRowsMove ==
    ASSUME Inv, NEW b \in Batches, NEW st,
           db'.batches = [db.batches EXCEPT ![b].status = st]
    PROVE  /\ db'.batches[b].status = st
           /\ \A x \in Batches :
                /\ x # b => db'.batches[x] = db.batches[x]
                /\ db'.batches[x].rep = db.batches[x].rep
                /\ db'.batches[x].piece = db.batches[x].piece
                /\ db'.batches[x].disallow = db.batches[x].disallow
                /\ db'.batches[x].providers = db.batches[x].providers
                /\ db'.batches[x].carURL = db.batches[x].carURL
<1>1. db.batches \in [Batches -> BatchRow]
  BY DEF Inv, BrokerTypeOK, DBType
<1>2. db'.batches[b] = [db.batches[b] EXCEPT !.status = st]
      /\ \A x \in Batches : x # b => db'.batches[x] = db.batches[x]
  BY <1>1
<1>3. db.batches[b] \in BatchRow
  BY <1>1
<1> QED
  BY <1>2, <1>3, SMT DEF BatchRow

\* A batch of packerd keeps everything but its status and piece when it is
\* auctioned.
LEMMA AuctionedRows ==
    ASSUME Inv, NEW m \in newBatchPrepared, Auctioned(m)
    PROVE  /\ m.batch \in Batches
           /\ db'.batches[m.batch].status = "auctioning"
           /\ db'.batches[m.batch].rep = db.batches[m.batch].rep
           /\ db'.batches[m.batch].disallow = db.batches[m.batch].disallow
           /\ db'.batches[m.batch].providers = db.batches[m.batch].providers
           /\ db'.batches[m.batch].carURL = db.batches[m.batch].carURL
           /\ \A x \in Batches : x # m.batch => db'.batches[x] = db.batches[x]
<1>1. m.batch \in Batches /\ db.batches \in [Batches -> BatchRow]
  BY DEF Inv, BrokerTypeOK, NewBatchPreparedMsg, DBType
<1>2. \A r \in BatchRow : \A st, x :
         LET u == [r EXCEPT !.status = st, !.piece = x]
         IN  /\ u.status = st
             /\ u.rep = r.rep
             /\ u.disallow = r.disallow
             /\ u.providers = r.providers
             /\ u.carURL = r.carURL
  BY DEF BatchRow
<1>3. /\ db'.batches[m.batch] = [db.batches[m.batch] EXCEPT
                                    !.status = "auctioning", !.piece = m.piece]
      /\ \A x \in Batches : x # m.batch => db'.batches[x] = db.batches[x]
  BY <1>1 DEF Auctioned
<1>4. db.batches[m.batch] \in BatchRow
  BY <1>1
<1> QED
  BY <1>1, <1>2, <1>3, <1>4, SMT

\* How the row of one batch can change: it is opened, or it keeps all but its
\* status and its piece.
OpenedRow(b) ==
    /\ db.batches[b].status = "none"
    /\ db'.batches[b].status \in {"preparing", "auctioning"}
    /\ db'.batches[b].rep # 0
    /\ db'.batches[b].providers # {} =>
          \E in \in PreparedInputs :
              /\ db'.batches[b].providers = in.providers
              /\ db'.batches[b].rep = IF in.rep = 0 THEN DealReplication ELSE in.rep

FixedRow(b) ==
    /\ db'.batches[b].rep = db.batches[b].rep
    /\ db'.batches[b].disallow = db.batches[b].disallow
    /\ db'.batches[b].providers = db.batches[b].providers
    /\ db'.batches[b].carURL = db.batches[b].carURL

\* Opening a batch leaves the other batches alone.
LEMMA OpenedRows ==
    ASSUME Inv, NEW b \in Batches, NEW row, NEW srs, Opened(b, row, srs)
    PROVE  /\ db.batches[b].status = "none"
           /\ db'.batches[b] = row
           /\ \A x \in Batches : x # b => db'.batches[x] = db.batches[x]
<1>1. db.batches \in [Batches -> BatchRow]
  BY DEF Inv, BrokerTypeOK, DBType
<1> QED
  BY <1>1 DEF Opened

\* Every step without a fault.
LEMMA CommittedRows ==
    ASSUME Inv, Committed
    PROVE  \A b \in Batches : OpenedRow(b) \/ FixedRow(b)
<1>1. CASE \E s \in StorageRequests : Made(s)
  BY <1>1 DEF Made, FixedRow
<1>2. CASE \E s \in StorageRequests, b \in Batches, in \in PreparedInputs :
              OpenedPrepared(s, b, in)
  <2>1. PICK s \in StorageRequests, b \in Batches, in \in PreparedInputs :
              OpenedPrepared(s, b, in)
    BY <1>2
  <2>2. PICK row : /\ row.status = "auctioning"
                   /\ row.providers = in.providers
                   /\ row.rep = IF in.rep = 0 THEN DealReplication ELSE in.rep
                   /\ Opened(b, row, {s})
    BY <2>1 DEF OpenedPrepared
  <2>3. row.rep # 0
    BY <2>2 DEF Opened
  <2>4. /\ db.batches[b].status = "none"
        /\ db'.batches[b] = row
        /\ \A x \in Batches : x # b => db'.batches[x] = db.batches[x]
    BY <2>2, OpenedRows
  <2>5. OpenedRow(b)
    BY <2>2, <2>3, <2>4 DEF OpenedRow
  <2> QED
    BY <2>4, <2>5 DEF FixedRow
<1>3. CASE \E m \in newBatchCreated : OpenedPacked(m)
  <2>1. PICK m \in newBatchCreated : OpenedPacked(m)
    BY <1>3
  <2>2. m.batch \in Batches
    BY DEF Inv, BrokerTypeOK, NewBatchCreatedMsg
  <2>3. PICK row : /\ row.status = "preparing"
                   /\ row.providers = {}
                   /\ Opened(m.batch, row, {e[2] : e \in m.entries})
    BY <2>1 DEF OpenedPacked
  <2>4. row.rep # 0
    BY <2>3 DEF Opened
  <2>5. /\ db.batches[m.batch].status = "none"
        /\ db'.batches[m.batch] = row
        /\ \A x \in Batches : x # m.batch => db'.batches[x] = db.batches[x]
    BY <2>2, <2>3, OpenedRows
  <2>6. OpenedRow(m.batch)
    BY <2>3, <2>4, <2>5 DEF OpenedRow
  <2> QED
    BY <2>5, <2>6 DEF FixedRow
<1>4. CASE \E m \in newBatchPrepared : Auctioned(m)
  BY <1>4, AuctionedRows DEF FixedRow
<1>5. CASE \E m \in auctionClosed : Noted(m) \/ Won(m) \/ Lost(m)
  <2>1. PICK m \in auctionClosed : Noted(m) \/ Won(m) \/ Lost(m)
    BY <1>5
  <2>2. m.batch \in Batches
    BY DEF Inv, BrokerTypeOK, AuctionClosedMsg
  <2>3. \/ db'.batches = db.batches
        \/ db'.batches = [db.batches EXCEPT ![m.batch].status = "deal_making"]
        \/ db'.batches = [db.batches EXCEPT ![m.batch].status = "error"]
    BY <2>1 DEF Noted, Won, Lost
  <2>4. CASE db'.batches = db.batches
    BY <2>4 DEF FixedRow
  <2>5. CASE db'.batches = [db.batches EXCEPT ![m.batch].status = "deal_making"]
    BY <2>2, <2>5, BatchRowsMove DEF FixedRow
  <2>6. CASE db'.batches = [db.batches EXCEPT ![m.batch].status = "error"]
    BY <2>2, <2>6, BatchRowsMove, ZenonT(60) DEF FixedRow
  <2> QED
    BY <2>3, <2>4, <2>5, <2>6
<1>6. CASE \E m \in finalizedDeal :
              Completed(m) \/ Progressed(m) \/ Replaced(m) \/ GivenUp(m)
  <2>1. PICK m \in finalizedDeal :
              Completed(m) \/ Progressed(m) \/ Replaced(m) \/ GivenUp(m)
    BY <1>6
  <2>2. m.batch \in Batches
    BY DEF Inv, BrokerTypeOK, FinalizedDealMsg
  <2>3. \/ db'.batches = db.batches
        \/ db'.batches = [db.batches EXCEPT ![m.batch].status = "success"]
        \/ db'.batches = [db.batches EXCEPT ![m.batch].status = "error"]
    BY <2>1 DEF Completed, Progressed, Replaced, GivenUp
  <2>4. CASE db'.batches = db.batches
    BY <2>4 DEF FixedRow
  <2>5. CASE db'.batches = [db.batches EXCEPT ![m.batch].status = "success"]
    BY <2>2, <2>5, BatchRowsMove DEF FixedRow
  <2>6. CASE db'.batches = [db.batches EXCEPT ![m.batch].status = "error"]
    BY SMTT(30), <2>2, <2>6, BatchRowsMove DEF FixedRow
  <2> QED
    BY <2>3, <2>4, <2>5, <2>6
<1> QED
  BY <1>1, <1>2, <1>3, <1>4, <1>5, <1>6 DEF Committed

\* What the announcement of deals rests on: every batch has a CAR URL.
AnnouncedInv == CarRows /\ PendingDealsAnnounced

\* A step that adds no row and no batch.
LEMMA AnnouncedKept ==
    ASSUME AnnouncedInv,
           readyToCreateDeals \subseteq readyToCreateDeals',
           \A b \in Batches : db'.batches[b].status # "none" => db'.batches[b].carURL,
           \A q \in db'.deals : q.state = "pending" =>
              \E r \in db.deals : /\ r.state = "pending"
                                  /\ r.bid = q.bid /\ r.batch = q.batch /\ r.sp = q.sp
    PROVE  AnnouncedInv'
BY SMT DEF AnnouncedInv, CarRows, PendingDealsAnnounced

\* Rows that got an outcome are not pending any more; the others are as before.
LEMMA SavedNotPending ==
    ASSUME Inv, NEW m, NEW state \in {"confirmed", "failed"}, Saved(m, state),
           NEW q \in db'.deals, q.state = "pending"
    PROVE  q \in db.deals
<1>1. \A r \in db.deals : r \in DealRow
  BY DEF Inv, BrokerTypeOK, DBType
<1>2. \A r \in DealRow : [r EXCEPT !.state = state].state = state
  BY DEF DealRow
<1>3. state # "pending"
  OBVIOUS
<1> QED
  BY <1>1, <1>2, <1>3, ZenonT(60) DEF Saved, StateSaved

\* Publishing only adds messages.
LEMMA PublishGrows ==
    ASSUME NEW batching, NEW auctions, NEW creates, Publish(batching, auctions, creates)
    PROVE  /\ readyToBatch' = readyToBatch \union batching
           /\ readyToAuction' = readyToAuction \union auctions
           /\ readyToCreateDeals' = readyToCreateDeals \union creates
BY DEF Publish

\* The announcement of the winners of an auction and their rows are committed
\* together.
LEMMA WonAnnounced ==
    ASSUME Inv, AnnouncedInv, NEW m \in auctionClosed, Won(m)
    PROVE  AnnouncedInv'
<1> DEFINE accepted == AcceptedWinners(db, m.batch, m.winners)
           create == [id |-> nextID, auction |-> m.op[1], batch |-> m.batch,
                      sps |-> accepted]
<1>1. m.batch \in Batches
  BY DEF Inv, BrokerTypeOK, AuctionClosedMsg
<1>2. /\ Live(db, m.batch)
      /\ db'.batches = [db.batches EXCEPT ![m.batch].status = "deal_making"]
      /\ db'.deals = db.deals \union NewRows(m.batch, m.op, accepted)
  BY DEF Won
<1>3. db.batches[m.batch].carURL
  BY <1>1, <1>2 DEF AnnouncedInv, CarRows, Live
<1>4. accepted # {} => readyToCreateDeals' = readyToCreateDeals \union {create}
  BY <1>3 DEF Won, Publish
<1>5. readyToCreateDeals \subseteq readyToCreateDeals'
  BY DEF Won, Publish
<1>6. CarRows'
  BY SMTT(30), <1>1, <1>2, <1>3, BatchRowsMove DEF AnnouncedInv, CarRows
<1> HIDE DEF accepted
<1>7. PendingDealsAnnounced'
  <2> SUFFICES ASSUME NEW r \in db'.deals, r.state = "pending"
               PROVE  \E x \in readyToCreateDeals' : /\ x.auction = r.bid[1]
                                                     /\ x.batch = r.batch
                                                     /\ r.sp \in x.sps
    BY DEF PendingDealsAnnounced
  <2>1. CASE r \in db.deals
    BY <1>5, <2>1 DEF AnnouncedInv, PendingDealsAnnounced
  <2>2. CASE r \in NewRows(m.batch, m.op, accepted)
    <3>1. r.bid = m.op /\ r.batch = m.batch /\ r.sp \in accepted
      BY <2>2, SMT DEF NewRows
    <3>2. create \in readyToCreateDeals'
      BY <1>4, <3>1
    <3> QED
      BY <3>1, <3>2
  <2> QED
    BY <1>2, <2>1, <2>2
<1> QED
  BY <1>6, <1>7 DEF AnnouncedInv

\* Opening a batch: its CAR is downloadable.
LEMMA OpenedAnnounced ==
    ASSUME Inv, AnnouncedInv, NEW b \in Batches, NEW row, NEW srs, row.carURL,
           Opened(b, row, srs), readyToCreateDeals \subseteq readyToCreateDeals'
    PROVE  AnnouncedInv'
<1>1. db.batches \in [Batches -> BatchRow]
  BY DEF Inv, BrokerTypeOK, DBType
<1>2. /\ db'.batches[b] = row
      /\ \A x \in Batches : x # b => db'.batches[x] = db.batches[x]
      /\ db'.deals = db.deals
  BY <1>1, ZenonT(60) DEF Opened
<1>3. \A x \in Batches : db'.batches[x].status # "none" => db'.batches[x].carURL
  BY <1>2 DEF AnnouncedInv, CarRows
<1> QED
  BY <1>2, <1>3, AnnouncedKept

\* Every step of the system, faults included, keeps pending deals announced, as
\* long as clients give a CAR URL.
LEMMA AnnouncedNext ==
    ASSUME \A in \in PreparedInputs : in.carURL,
           Inv, AnnouncedInv, [Next]_vars
    PROVE  AnnouncedInv'
<1>1. CASE Faulty
  BY <1>1, AnnouncedKept DEF Faulty, AnnouncedInv, CarRows
<1>2. CASE Committed
  <2>1. CASE \E s \in StorageRequests : Made(s)
    BY <2>1, AnnouncedKept DEF Made, Publish, AnnouncedInv, CarRows
  <2>2. CASE \E s \in StorageRequests, b \in Batches, in \in PreparedInputs :
                OpenedPrepared(s, b, in)
    <3>1. PICK s \in StorageRequests, b \in Batches, in \in PreparedInputs :
                OpenedPrepared(s, b, in)
      BY <2>2
    <3>2. PICK row : /\ row.carURL
                     /\ Opened(b, row, {s})
                     /\ readyToCreateDeals \subseteq readyToCreateDeals'
      BY <3>1, PublishGrows DEF OpenedPrepared
    <3> QED
      BY <3>2, OpenedAnnounced
  <2>3. CASE \E m \in newBatchCreated : OpenedPacked(m)
    <3>1. PICK m \in newBatchCreated : OpenedPacked(m)
      BY <2>3
    <3>2. m.batch \in Batches
      BY DEF Inv, BrokerTypeOK, NewBatchCreatedMsg
    <3>3. PICK row : /\ row.carURL
                     /\ Opened(m.batch, row, {e[2] : e \in m.entries})
                     /\ readyToCreateDeals \subseteq readyToCreateDeals'
      BY <3>1, PublishGrows, ZenonT(60) DEF OpenedPacked
    <3> QED
      BY <3>2, <3>3, OpenedAnnounced
  <2>4. CASE \E m \in newBatchPrepared : Auctioned(m)
    <3>1. PICK m \in newBatchPrepared : Auctioned(m)
      BY <2>4
    <3>2. readyToCreateDeals \subseteq readyToCreateDeals'
      BY <3>1, PublishGrows DEF Auctioned
    <3>3. db.batches[m.batch].status = "preparing" /\ db'.deals = db.deals
      BY <3>1 DEF Auctioned
    <3>4. \A x \in Batches : db'.batches[x].status # "none" => db'.batches[x].carURL
      BY <3>1, <3>3, AuctionedRows DEF AnnouncedInv, CarRows
    <3> QED
      BY <3>2, <3>3, <3>4, AnnouncedKept
  <2>5. CASE \E m \in auctionClosed : Noted(m) \/ Won(m) \/ Lost(m)
    <3>1. PICK m \in auctionClosed : Noted(m) \/ Won(m) \/ Lost(m)
      BY <2>5
    <3>2. m.batch \in Batches
      BY DEF Inv, BrokerTypeOK, AuctionClosedMsg
    <3>3. CASE Noted(m)
      BY <3>3, AnnouncedKept DEF Noted, Publish, AnnouncedInv, CarRows
    <3>4. CASE Lost(m)
      <4>1. /\ db'.batches = [db.batches EXCEPT ![m.batch].status = "error"]
            /\ db'.deals = db.deals
            /\ Live(db, m.batch)
        BY <3>4 DEF Lost
      <4>2. readyToCreateDeals \subseteq readyToCreateDeals'
        BY <3>4, PublishGrows DEF Lost
      <4>3. \A x \in Batches : db'.batches[x].status # "none" => db'.batches[x].carURL
        BY <3>2, <4>1, BatchRowsMove, SMT DEF AnnouncedInv, CarRows, Live
      <4> QED
        BY <4>1, <4>2, <4>3, AnnouncedKept
    <3> QED
      BY <3>1, <3>3, <3>4, WonAnnounced
  <2>6. CASE \E m \in finalizedDeal :
                Completed(m) \/ Progressed(m) \/ Replaced(m) \/ GivenUp(m)
    <3>1. PICK m \in finalizedDeal :
                Completed(m) \/ Progressed(m) \/ Replaced(m) \/ GivenUp(m)
      BY <2>6
    <3>2. m.batch \in Batches
      BY DEF Inv, BrokerTypeOK, FinalizedDealMsg
    <3>3. PICK state \in {"confirmed", "failed"} : Saved(m, state)
      BY <3>1 DEF Completed, Progressed, Replaced, GivenUp
    <3>4. readyToCreateDeals \subseteq readyToCreateDeals'
      BY <3>1, PublishGrows DEF Completed, Progressed, Replaced, GivenUp
    <3>5. \/ db'.batches = db.batches
          \/ \E st : db'.batches = [db.batches EXCEPT ![m.batch].status = st]
      BY <3>1 DEF Completed, Progressed, Replaced, GivenUp
    <3>6. db.batches[m.batch].status # "none"
      BY <3>3 DEF Saved, Inv, DBInv, DealsAfterPiece
    <3>7. \A x \in Batches : db'.batches[x].status # "none" => db'.batches[x].carURL
      <4>1. \A x \in Batches :
               /\ x # m.batch => db'.batches[x] = db.batches[x]
               /\ db'.batches[x].carURL = db.batches[x].carURL
        <5>1. CASE db'.batches = db.batches
          BY <5>1
        <5>2. CASE \E st : db'.batches = [db.batches EXCEPT ![m.batch].status = st]
          <6>1. PICK st : db'.batches = [db.batches EXCEPT ![m.batch].status = st]
            BY <5>2
          <6> QED
            BY <3>2, <6>1, BatchRowsMove, SMT
        <5> QED
          BY <3>5, <5>1, <5>2
      <4> QED
        BY <3>6, <4>1 DEF AnnouncedInv, CarRows
    <3>8. \A q \in db'.deals : q.state = "pending" => q \in db.deals
      BY <3>3, SavedNotPending
    <3> QED
      BY <3>4, <3>7, <3>8, AnnouncedKept
  <2> QED
    BY <1>2, <2>1, <2>2, <2>3, <2>4, <2>5, <2>6 DEF Committed
<1>3. CASE Peers
  BY <1>3 DEF Peers, PackBatch, PrepareBatch, CloseAuction, FinalizeDeal, brokerVars,
              AnnouncedInv, CarRows, PendingDealsAnnounced
<1>4. CASE UNCHANGED brokerVars
  BY <1>4 DEF brokerVars, AnnouncedInv, CarRows, PendingDealsAnnounced
<1> QED
  BY <1>1, <1>2, <1>3, <1>4, StepCases

\* There are no deals to announce at first.
LEMMA AnnouncedInit == Init => AnnouncedInv
BY SMT DEF Init, BrokerInit, EmptyDB, NoBatchRow, AnnouncedInv, CarRows,
           PendingDealsAnnounced

\* As long as clients give the URL of the CAR they prepared, every deal row that
\* waits for an outcome was announced to dealerd: no fault, no redelivery and no
\* discarded winner leaves a row behind that nobody works on.
THEOREM PendingAlwaysAnnounced ==
    ASSUME \A in \in PreparedInputs : in.carURL
    PROVE  Spec => []PendingDealsAnnounced
<1>1. Inv /\ AnnouncedInv /\ [Next]_vars => AnnouncedInv'
  BY AnnouncedNext
<1>2. AnnouncedInv => PendingDealsAnnounced
  BY DEF AnnouncedInv
<1> QED
  BY <1>1, <1>2, AnnouncedInit, Invariance, PTL DEF Spec

--------------------------------------------------------------------------------
(* Success and active deals, whatever fails. *)

TargetedOnce == \A b \in Batches : db.batches[b].providers # {} => db.batches[b].rep = 1

ConfirmedReported ==
    \A r \in db.deals : r.state = "confirmed" =>
        \E f \in finalizedDeal : /\ f.batch = r.batch
                                 /\ f.sp = r.sp
                                 /\ f.outcome = "confirmed"

\* What success rests on: a confirmed row was reported active.
SuccessInv == TargetedOnce /\ ConfirmedReported /\ SuccessMeetsRepFactor

\* The active deals are finite in number.
LEMMA ActiveFinite ==
    ASSUME Inv, NEW b
    PROVE  IsFiniteSet(ActiveDeals(b))
<1> DEFINE F == {x \in finalizedDeal : x.batch = b /\ x.outcome = "confirmed"}
           g == [f \in F |-> <<f.op[1], f.sp>>]
<1>1. IsFiniteSet(F)
  BY FS_Subset DEF Inv
<1>2. ActiveDeals(b) = {g[f] : f \in F}
  BY DEF ActiveDeals
<1>3. g \in Surjection(F, ActiveDeals(b))
  BY <1>2 DEF Surjection
<1> HIDE DEF F, g
<1> QED
  BY <1>1, <1>3, FS_Surjection

\* A row of a batch with untargeted providers is the provider's only one in the
\* batch.
LEMMA RowsByProvider ==
    ASSUME NEW d, DBInv(d), NEW b \in Batches, d.batches[b].providers = {},
           NEW q \in GetDeals(d, b), NEW r \in GetDeals(d, b), q.sp = r.sp
    PROVE  q = r
BY DEF GetDeals, DBInv, DistinctProviders

\* A batch has no more confirmed rows than active deals.
LEMMA ConfirmedAreActive ==
    ASSUME Inv, ConfirmedReported, NEW b \in Batches, db.batches[b].providers = {}
    PROVE  Cardinality(ConfirmedRows(db, b)) <= Cardinality(ActiveDeals(b))
<1> DEFINE S == ConfirmedRows(db, b)
           T == ActiveDeals(b)
           g == [r \in S |-> CHOOSE a \in T : a[2] = r.sp]
<1>1. \A r \in S : \E a \in T : a[2] = r.sp
  <2> SUFFICES ASSUME NEW r \in S PROVE \E a \in T : a[2] = r.sp
    OBVIOUS
  <2>1. r \in db.deals /\ r.batch = b /\ r.state = "confirmed"
    BY DEF ConfirmedRows, GetDeals
  <2>2. PICK f \in finalizedDeal : f.batch = b /\ f.sp = r.sp /\ f.outcome = "confirmed"
    BY <2>1 DEF ConfirmedReported
  <2>3. <<f.op[1], f.sp>> \in T
    BY <2>2 DEF ActiveDeals
  <2>4. <<f.op[1], f.sp>>[2] = r.sp
    BY <2>2
  <2> QED
    BY <2>3, <2>4
<1>2. \A r \in S : g[r] \in T /\ g[r][2] = r.sp
  BY <1>1
<1>3. \A q, r \in S : q.sp = r.sp => q = r
  BY RowsByProvider DEF Inv, ConfirmedRows
<1> HIDE DEF S, T
<1>4. g \in [S -> T]
  BY <1>2
<1>5. \A q, r \in S : g[q] = g[r] => q = r
  BY <1>2, <1>3, SMT
<1> HIDE DEF g
<1>6. g \in Injection(S, T)
  BY <1>4, <1>5 DEF Injection, IsInjective
<1>7. IsFiniteSet(T)
  BY ActiveFinite DEF T
<1> QED
  BY <1>6, <1>7, FS_Injection DEF S, T

\* Reports only add active deals.
LEMMA ActiveGrow ==
    ASSUME Inv', finalizedDeal \subseteq finalizedDeal', NEW b
    PROVE  Cardinality(ActiveDeals(b)) <= Cardinality(ActiveDeals(b)')
<1>1. ActiveDeals(b) \subseteq ActiveDeals(b)'
  BY DEF ActiveDeals
<1>2. IsFiniteSet(ActiveDeals(b)')
  <2>1. IsFiniteSet(ActiveDeals(b))'
    BY ActiveFinite, PTL
  <2> QED
    BY <2>1
<1> QED
  BY <1>1, <1>2, FS_Subset

\* A step that confirms no deal and completes no batch.
LEMMA SuccessKept ==
    ASSUME Inv', SuccessInv, finalizedDeal \subseteq finalizedDeal',
           TargetedOnce',
           \A q \in db'.deals : q.state = "confirmed" =>
              \E r \in db.deals : /\ r.state = "confirmed"
                                  /\ r.batch = q.batch /\ r.sp = q.sp,
           \A b \in Batches : db'.batches[b].status = "success" =>
              /\ db.batches[b].status = "success"
              /\ db'.batches[b].rep = db.batches[b].rep
    PROVE  SuccessInv'
<1>1. ConfirmedReported'
  BY SMT DEF SuccessInv, ConfirmedReported
<1>2. SuccessMeetsRepFactor'
  <2> SUFFICES ASSUME NEW b \in Batches, db'.batches[b].status = "success"
               PROVE  Cardinality(ActiveDeals(b)') >= db'.batches[b].rep
    BY DEF SuccessMeetsRepFactor
  <2>1. Cardinality(ActiveDeals(b)) <= Cardinality(ActiveDeals(b)')
    BY ActiveGrow
  <2>2. Cardinality(ActiveDeals(b)) >= db'.batches[b].rep
    BY DEF SuccessInv, SuccessMeetsRepFactor
  <2>3. IsFiniteSet(ActiveDeals(b)')
    <3>1. IsFiniteSet(ActiveDeals(b))'
      BY ActiveFinite, PTL
    <3> QED
      BY <3>1
  <2>4. IsFiniteSet(ActiveDeals(b))
    <3>1. ActiveDeals(b) \subseteq ActiveDeals(b)'
      BY DEF ActiveDeals
    <3> QED
      BY <2>3, <3>1, FS_Subset
  <2>5. /\ Cardinality(ActiveDeals(b)) \in Nat
        /\ Cardinality(ActiveDeals(b)') \in Nat
        /\ db'.batches[b].rep \in Nat
    BY <2>3, <2>4, FS_CardinalityType DEF Inv, BrokerTypeOK, DBType, BatchRow
  <2> QED
    BY <2>1, <2>2, <2>5, SMT
<1> QED
  BY <1>1, <1>2 DEF SuccessInv

\* The batch that succeeds: its confirmed rows are of different providers, and
\* each was reported.  A batch with targeted providers needs one deal, and the
\* report just handled is of one.
LEMMA CompletedSuccess ==
    ASSUME Inv, Inv', SuccessInv, TargetedOnce', NEW m \in finalizedDeal, Completed(m),
           finalizedDeal' = finalizedDeal
    PROVE  SuccessInv'
<1>1. m.batch \in Batches
  BY DEF Inv, BrokerTypeOK, FinalizedDealMsg
<1>2. /\ m.outcome = "confirmed"
      /\ Saved(m, "confirmed")
      /\ Cardinality(ConfirmedRows(db', m.batch)) = db.batches[m.batch].rep
      /\ db'.batches = [db.batches EXCEPT ![m.batch].status = "success"]
  BY DEF Completed
<1>3. \A x \in Batches : /\ x # m.batch => db'.batches[x] = db.batches[x]
                         /\ db'.batches[x].rep = db.batches[x].rep
  BY <1>1, <1>2, BatchRowsMove, SMT
<1>4. ConfirmedReported'
  <2> SUFFICES ASSUME NEW q \in db'.deals, q.state = "confirmed"
               PROVE  \E f \in finalizedDeal : /\ f.batch = q.batch
                                               /\ f.sp = q.sp
                                               /\ f.outcome = "confirmed"
    BY DEF ConfirmedReported
  <2>1. CASE q \in db.deals
    BY <2>1 DEF SuccessInv, ConfirmedReported
  <2>2. CASE \E r \in db.deals : /\ r.batch = m.batch /\ r.sp = m.sp
                                 /\ q = [r EXCEPT !.state = "confirmed"]
    <3>1. \A r \in DealRow : LET u == [r EXCEPT !.state = "confirmed"]
                             IN  u.batch = r.batch /\ u.sp = r.sp
      BY DEF DealRow
    <3>2. q.batch = m.batch /\ q.sp = m.sp
      BY <2>2, <3>1, ZenonT(60) DEF Inv, BrokerTypeOK, DBType
    <3> QED
      BY <1>2, <3>2
  <2> QED
    BY <1>2, <2>1, <2>2 DEF Saved, StateSaved
<1>5. ActiveDeals(m.batch)' = ActiveDeals(m.batch)
  BY DEF ActiveDeals
<1>6. IsFiniteSet(ActiveDeals(m.batch))
  BY ActiveFinite
<1>7. Cardinality(ActiveDeals(m.batch)) >= db'.batches[m.batch].rep
  <2>1. CASE db'.batches[m.batch].providers = {}
    <3>1. PICK b \in Batches : b = m.batch
      BY <1>1
    <3>2. (Cardinality(ConfirmedRows(db, b)) <= Cardinality(ActiveDeals(b)))'
      <4>1. (db.batches[b].providers = {})'
        BY <2>1, <3>1
      <4>2. ConfirmedReported'
        BY <1>4
      <4> QED
        BY <4>1, <4>2, ConfirmedAreActive, PTL
    <3>3. Cardinality(ConfirmedRows(db', b)) <= Cardinality(ActiveDeals(b))
      BY <1>5, <3>1, <3>2
    <3>4. db.batches[m.batch].rep \in Nat /\ Cardinality(ActiveDeals(m.batch)) \in Nat
      BY <1>1, <1>6, FS_CardinalityType DEF Inv, BrokerTypeOK, DBType, BatchRow
    <3> QED
      BY <1>1, <1>2, <1>3, <3>1, <3>3, <3>4
  <2>2. CASE db'.batches[m.batch].providers # {}
    <3>1. db'.batches[m.batch].rep = 1
      BY <1>1, <2>2 DEF TargetedOnce
    <3>2. <<m.op[1], m.sp>> \in ActiveDeals(m.batch)
      BY <1>2 DEF ActiveDeals
    <3>3. Cardinality(ActiveDeals(m.batch)) # 0
      BY <1>6, <3>2, FS_EmptySet
    <3>4. Cardinality(ActiveDeals(m.batch)) \in Nat
      BY <1>6, FS_CardinalityType
    <3> QED
      BY <3>1, <3>3, <3>4, SMT
  <2> QED
    BY <2>1, <2>2
<1>8. SuccessMeetsRepFactor'
  <2> SUFFICES ASSUME NEW b \in Batches, db'.batches[b].status = "success"
               PROVE  Cardinality(ActiveDeals(b)') >= db'.batches[b].rep
    BY DEF SuccessMeetsRepFactor
  <2>1. ActiveDeals(b)' = ActiveDeals(b)
    BY DEF ActiveDeals
  <2>2. CASE b = m.batch
    BY <1>5, <1>7, <2>2
  <2>3. CASE b # m.batch
    BY <1>3, <2>1, <2>3 DEF SuccessInv, SuccessMeetsRepFactor
  <2> QED
    BY <2>2, <2>3
<1> QED
  BY <1>4, <1>8 DEF SuccessInv

\* Every step keeps the rep factor of targeted batches at one, if clients ask for
\* one copy when they choose providers.
LEMMA TargetedNext ==
    ASSUME \A in \in PreparedInputs : in.providers # {} => in.rep = 1,
           Inv, TargetedOnce, [Next]_vars
    PROVE  TargetedOnce'
<1>1. CASE Faulty
  BY <1>1 DEF Faulty, TargetedOnce
<1>2. CASE Committed
  <2> SUFFICES ASSUME NEW b \in Batches, db'.batches[b].providers # {}
               PROVE  db'.batches[b].rep = 1
    BY DEF TargetedOnce
  <2>1. OpenedRow(b) \/ FixedRow(b)
    BY <1>2, CommittedRows
  <2> QED
    BY <2>1, SMT DEF OpenedRow, FixedRow, TargetedOnce
<1>3. CASE Peers
  BY <1>3 DEF Peers, PackBatch, PrepareBatch, CloseAuction, FinalizeDeal, brokerVars,
              TargetedOnce
<1>4. CASE UNCHANGED brokerVars
  BY <1>4 DEF brokerVars, TargetedOnce
<1> QED
  BY <1>1, <1>2, <1>3, <1>4, StepCases

\* Every step of the system, faults and repeated reports included.
LEMMA SuccessNext ==
    ASSUME Inv, Inv', SuccessInv, TargetedOnce', [Next]_vars
    PROVE  SuccessInv'
<1>1. CASE Faulty
  BY <1>1, SuccessKept DEF Faulty, others
<1>2. CASE Committed
  <2>1. UNCHANGED finalizedDeal
    BY <1>2 DEF Committed, others
  <2>2. CASE \E s \in StorageRequests : Made(s)
    BY <2>1, <2>2, SuccessKept DEF Made
  <2>3. CASE \E s \in StorageRequests, b \in Batches, in \in PreparedInputs :
                OpenedPrepared(s, b, in)
    <3>0. PICK s \in StorageRequests, b \in Batches, in \in PreparedInputs :
                OpenedPrepared(s, b, in)
      BY <2>3
    <3>1. PICK row : row.status = "auctioning" /\ Opened(b, row, {s})
      BY <3>0 DEF OpenedPrepared
    <3>2. /\ db'.batches[b] = row
          /\ \A x \in Batches : x # b => db'.batches[x] = db.batches[x]
          /\ db'.deals = db.deals
      <4>1. db'.deals = db.deals
        BY <3>1 DEF Opened
      <4> QED
        BY <3>1, <4>1, OpenedRows
    <3>3. \A x \in Batches : db'.batches[x].status = "success" =>
             db'.batches[x] = db.batches[x]
      BY <3>1, <3>2
    <3> QED
      BY <2>1, <3>2, <3>3, SuccessKept
  <2>4. CASE \E m \in newBatchCreated : OpenedPacked(m)
    <3>0. PICK m \in newBatchCreated : OpenedPacked(m)
      BY <2>4
    <3>1. PICK row : /\ row.status = "preparing"
                     /\ Opened(m.batch, row, {e[2] : e \in m.entries})
      BY <3>0 DEF OpenedPacked
    <3>2. m.batch \in Batches
      BY DEF Inv, BrokerTypeOK, NewBatchCreatedMsg
    <3>3. /\ db'.batches[m.batch] = row
          /\ \A x \in Batches : x # m.batch => db'.batches[x] = db.batches[x]
          /\ db'.deals = db.deals
      <4>1. db'.deals = db.deals
        BY <3>1 DEF Opened
      <4> QED
        BY <3>1, <3>2, <4>1, OpenedRows, ZenonT(60)
    <3>4. \A x \in Batches : db'.batches[x].status = "success" =>
             db'.batches[x] = db.batches[x]
      BY <3>1, <3>3
    <3> QED
      BY <2>1, <3>3, <3>4, SuccessKept
  <2>5. CASE \E m \in newBatchPrepared : Auctioned(m)
    <3>1. PICK m \in newBatchPrepared : Auctioned(m)
      BY <2>5
    <3>2. db'.deals = db.deals
      BY <3>1 DEF Auctioned
    <3> QED
      BY <2>1, <3>1, <3>2, AuctionedRows, SuccessKept
  <2>6. CASE \E m \in auctionClosed : Noted(m) \/ Won(m) \/ Lost(m)
    <3>1. PICK m \in auctionClosed : Noted(m) \/ Won(m) \/ Lost(m)
      BY <2>6
    <3>2. m.batch \in Batches
      BY DEF Inv, BrokerTypeOK, AuctionClosedMsg
    <3>3. CASE Noted(m)
      BY <2>1, <3>3, SuccessKept DEF Noted
    <3>4. CASE Won(m)
      <4>1. /\ db'.batches = [db.batches EXCEPT ![m.batch].status = "deal_making"]
            /\ db'.deals = db.deals \union
                  NewRows(m.batch, m.op, AcceptedWinners(db, m.batch, m.winners))
        BY <3>4 DEF Won
      <4>2. \A q \in db'.deals : q.state = "confirmed" => q \in db.deals
        BY <4>1, SMT DEF NewRows
      <4>3. /\ db'.batches[m.batch].status = "deal_making"
            /\ \A x \in Batches : x # m.batch => db'.batches[x] = db.batches[x]
        BY <3>2, <4>1, BatchRowsMove, SMT
      <4> QED
        BY <2>1, <4>2, <4>3, SuccessKept
    <3>5. CASE Lost(m)
      <4>1. /\ db'.batches = [db.batches EXCEPT ![m.batch].status = "error"]
            /\ db'.deals = db.deals
        BY <3>5 DEF Lost
      <4>2. /\ db'.batches[m.batch].status = "error"
            /\ \A x \in Batches : x # m.batch => db'.batches[x] = db.batches[x]
        BY <3>2, <4>1, BatchRowsMove, SMT
      <4> QED
        BY <2>1, <4>1, <4>2, SuccessKept
    <3> QED
      BY <3>1, <3>3, <3>4, <3>5
  <2>7. CASE \E m \in finalizedDeal : Completed(m)
    BY <2>1, <2>7, CompletedSuccess
  <2>8. CASE \E m \in finalizedDeal : Progressed(m)
    <3>1. PICK m \in finalizedDeal : Progressed(m)
      BY <2>8
    <3>2. m.outcome = "confirmed" /\ Saved(m, "confirmed") /\ db'.batches = db.batches
      BY <3>1 DEF Progressed
    <3>3. \A r \in DealRow : LET u == [r EXCEPT !.state = "confirmed"]
                             IN  u.batch = r.batch /\ u.sp = r.sp
      BY DEF DealRow
    <3>4. \A r \in db.deals : r \in DealRow
      BY DEF Inv, BrokerTypeOK, DBType
    <3>5. ConfirmedReported'
      <4> SUFFICES ASSUME NEW q \in db'.deals, q.state = "confirmed"
                   PROVE  \E f \in finalizedDeal : /\ f.batch = q.batch
                                                   /\ f.sp = q.sp
                                                   /\ f.outcome = "confirmed"
        BY <2>1 DEF ConfirmedReported
      <4>1. CASE q \in db.deals
        BY <4>1 DEF SuccessInv, ConfirmedReported
      <4>2. CASE \E r \in db.deals : /\ r.batch = m.batch /\ r.sp = m.sp
                                     /\ q = [r EXCEPT !.state = "confirmed"]
        BY <3>2, <3>3, <3>4, <4>2, ZenonT(60)
      <4> QED
        BY <3>2, <4>1, <4>2 DEF Saved, StateSaved
    <3>6. SuccessMeetsRepFactor'
      BY <2>1, <3>2 DEF SuccessInv, SuccessMeetsRepFactor, ActiveDeals
    <3> QED
      BY <3>5, <3>6 DEF SuccessInv
  <2>9. CASE \E m \in finalizedDeal : Replaced(m) \/ GivenUp(m)
    <3>1. PICK m \in finalizedDeal : Replaced(m) \/ GivenUp(m)
      BY <2>9
    <3>2. m.batch \in Batches
      BY DEF Inv, BrokerTypeOK, FinalizedDealMsg
    <3>3. Saved(m, "failed")
      BY <3>1 DEF Replaced, GivenUp
    <3>4. \/ db'.batches = db.batches
          \/ db'.batches = [db.batches EXCEPT ![m.batch].status = "error"]
      BY <3>1 DEF Replaced, GivenUp
    <3>5. \A b \in Batches : db'.batches[b].status = "success" =>
             db'.batches[b] = db.batches[b]
      <4>1. CASE db'.batches = db.batches
        BY <4>1
      <4>2. CASE db'.batches = [db.batches EXCEPT ![m.batch].status = "error"]
        BY <3>2, <4>2, BatchRowsMove, SMT
      <4> QED
        BY <3>4, <4>1, <4>2
    <3>6. \A q \in db'.deals : q.state = "confirmed" => q \in db.deals
      <4>1. \A r \in db.deals : r \in DealRow
        BY DEF Inv, BrokerTypeOK, DBType
      <4>2. \A r \in DealRow : [r EXCEPT !.state = "failed"].state = "failed"
        BY DEF DealRow
      <4> QED
        BY <3>3, <4>1, <4>2 DEF Saved, StateSaved
    <3> QED
      BY <2>1, <3>5, <3>6, SuccessKept
  <2> QED
    BY <1>2, <2>2, <2>3, <2>4, <2>5, <2>6, <2>7, <2>8, <2>9 DEF Committed
<1>3. CASE Peers
  <2>1. UNCHANGED db
    BY <1>3 DEF Peers, PackBatch, PrepareBatch, CloseAuction, FinalizeDeal, brokerVars
  <2>2. finalizedDeal \subseteq finalizedDeal'
    BY <1>3 DEF Peers, PackBatch, PrepareBatch, CloseAuction, FinalizeDeal
  <2> QED
    BY <2>1, <2>2, SuccessKept
<1>4. CASE UNCHANGED <<brokerVars, finalizedDeal>>
  BY <1>4, SuccessKept DEF brokerVars
<1> QED
  BY <1>1, <1>2, <1>3, <1>4, StepCases

\* No batch has succeeded at first.
LEMMA SuccessInit == Init => SuccessInv
BY SMT DEF Init, BrokerInit, EmptyDB, NoBatchRow, SuccessInv, TargetedOnce,
           ConfirmedReported, SuccessMeetsRepFactor

\* What success rests on, as an invariant of the system.
LEMMA SuccessInvariant ==
    ASSUME \A in \in PreparedInputs : in.providers # {} => in.rep = 1
    PROVE  Spec => []SuccessInv
<1>1. Inv /\ Inv' /\ SuccessInv /\ [Next]_vars => SuccessInv'
  <2> SUFFICES ASSUME Inv, Inv', SuccessInv, [Next]_vars
               PROVE  SuccessInv'
    OBVIOUS
  <2>1. TargetedOnce'
    BY TargetedNext DEF SuccessInv
  <2> QED
    BY <2>1, SuccessNext
<1> QED
  BY <1>1, SuccessInit, Invariance, PTL DEF Spec

\* A batch that succeeded has as many deals reported active as its rep factor asks
\* for, whatever fails and however often results are reported, provided that
\* clients who choose the providers ask for one copy.  (With more copies, one
\* provider may win two auctions of the batch, and its one active deal confirms
\* both rows.)
THEOREM SuccessAlwaysMeetsRepFactor ==
    ASSUME \A in \in PreparedInputs : in.providers # {} => in.rep = 1
    PROVE  Spec => []SuccessMeetsRepFactor
<1>1. SuccessInv => SuccessMeetsRepFactor
  BY DEF SuccessInv
<1> QED
  BY <1>1, SuccessInvariant, PTL

================================================================================
