--------------------------------- MODULE Broker ---------------------------------
(***************************************************************************)
(* brokerd: the handlers of cmd/brokerd/broker and cmd/brokerd/service.    *)
(*                                                                         *)
(* A topic of the message broker is the set of the messages ever published *)
(* on it: Google Pub/Sub delivers at least once and in no order, so a      *)
(* handler may take any message of its topic, any number of times.  A      *)
(* handler that returns an error leaves no trace (the transaction rolls    *)
(* back, the message is nacked) and is therefore no step.                  *)
(*                                                                         *)
(* Messages are published from inside the transaction, before its commit.  *)
(* A fault is a publish or a commit that fails after the handler has       *)
(* published something: the messages are out, the database is unchanged.   *)
(***************************************************************************)
EXTENDS BrokerStore

CONSTANTS
    DealReplication,   \* conf.dealReplication
    PreparedInputs,    \* the requests for prepared CARs clients may make
    MaxID,             \* bound: auctions, deal sets and ready-to-batch messages
    MaxFaults          \* bound: failed publishes and commits

ASSUME BrokerAssumption ==
    /\ DealReplication \in Nat \ {0}
    /\ PreparedInputs \subseteq [rep : Nat, providers : SUBSET Providers,
                                 piece : Pieces, carURL : BOOLEAN]
    /\ MaxID \in Nat
    /\ MaxFaults \in Nat

VARIABLES
    db,                  \* the store
    nextID,              \* newID() and uuid.New(): the next unused id
    faults,              \* faults so far
    late,                \* batches that can't be re-auctioned before their deadline
    readyToBatch, newBatchCreated, newBatchPrepared, readyToAuction,
    auctionClosed, readyToCreateDeals, finalizedDeal      \* the topics

brokerVars == <<db, nextID, faults, readyToBatch, readyToAuction,
                readyToCreateDeals>>

\* Messages.  A new-batch-created message carries the (operation, request)
\* pairs packerd put in the batch; the list of ids brokerd gets has one entry
\* per pair.
ReadyToBatchMsg == [op : Nat, srs : SUBSET StorageRequests]
NewBatchCreatedMsg == [batch : Batches, entries : SUBSET (Nat \X StorageRequests)]
NewBatchPreparedMsg == [batch : Batches, piece : Pieces]
ReadyToAuctionMsg == [id : Nat, batch : Batches, rep : Nat,
                      excluded : SUBSET Providers, providers : SUBSET Providers]
AuctionClosedMsg == [op : AuctionOp, batch : Batches, ok : BOOLEAN,
                     winners : SUBSET Providers]
ReadyToCreateDealsMsg == [id : Nat, auction : Nat, batch : Batches,
                          sps : SUBSET Providers]
FinalizedDealMsg == [op : DealOp, batch : Batches, sp : Providers,
                     outcome : {"confirmed", "failed", "rejected"}]

BrokerTypeOK ==
    /\ db \in DBType
    /\ nextID \in Nat
    /\ faults \in Nat
    /\ late \subseteq Batches
    /\ readyToBatch \subseteq ReadyToBatchMsg
    /\ newBatchCreated \subseteq NewBatchCreatedMsg
    /\ newBatchPrepared \subseteq NewBatchPreparedMsg
    /\ readyToAuction \subseteq ReadyToAuctionMsg
    /\ auctionClosed \subseteq AuctionClosedMsg
    /\ readyToCreateDeals \subseteq ReadyToCreateDealsMsg
    /\ finalizedDeal \subseteq FinalizedDealMsg

BrokerInit ==
    /\ db = EmptyDB
    /\ nextID = 1
    /\ faults = 0
    /\ late = {}
    /\ readyToBatch = {} /\ newBatchCreated = {} /\ newBatchPrepared = {}
    /\ readyToAuction = {} /\ auctionClosed = {} /\ readyToCreateDeals = {}
    /\ finalizedDeal = {}

--------------------------------------------------------------------------------
(* Transactions. *)

\* What a handler leaves to be committed, and what it published on the way.
Tx(d, batching, auctions, creates) ==
    [db |-> d, batching |-> batching, auctions |-> auctions, creates |-> creates]

Publish(batching, auctions, creates) ==
    /\ readyToBatch' = readyToBatch \union batching
    /\ readyToAuction' = readyToAuction \union auctions
    /\ readyToCreateDeals' = readyToCreateDeals \union creates
    /\ IF batching \union auctions \union creates = {}
       THEN nextID' = nextID
       ELSE nextID < MaxID /\ nextID' = nextID + 1

\* Mutant: the transaction is committed first.
FinishTxCommitFirst(tx) ==
    \/ /\ Publish(tx.batching, tx.auctions, tx.creates)
       /\ db' = tx.db
       /\ faults' = faults
    \/ /\ faults < MaxFaults
       /\ db' = tx.db
       /\ faults' = faults + 1
       /\ UNCHANGED <<nextID, readyToBatch, readyToAuction, readyToCreateDeals>>

\* FinishTxForCtx.  When it fails, an auction may be out without its deal set:
\* that is the order in which BatchAuctioned publishes them.
FinishTx(tx) ==
    \/ /\ Publish(tx.batching, tx.auctions, tx.creates)
       /\ db' = tx.db
       /\ faults' = faults
    \/ /\ faults < MaxFaults
       /\ tx.batching \union tx.auctions \union tx.creates # {}
       /\ \E creates \in {{}, tx.creates} :
            Publish(tx.batching, tx.auctions, creates)
       /\ db' = db
       /\ faults' = faults + 1

\* startAuction: a re-auction that has no targeted provider left to offer the
\* batch to moves the batch to error instead of publishing.
StartAuction(d, b, piece, rep, ignorePreviousAuctions) ==
    LET excluded == IF ignorePreviousAuctions THEN {}
                    ELSE GetExcludedStorageProviders(d, piece)
        targeted == d.batches[b].providers
    IN  IF targeted # {} /\ targeted \subseteq excluded
        THEN Tx(BatchError(d, b, FALSE), {}, {}, {})
        ELSE Tx(d, {}, {[id |-> nextID, batch |-> b, rep |-> rep,
                         excluded |-> excluded, providers |-> targeted]}, {})

\* newID() never returns an id that was handed out before.
UnusedBatch(b) ==
    /\ db.batches[b].status = "none"
    /\ \A m \in newBatchCreated \union readyToAuction : m.batch # b

--------------------------------------------------------------------------------
(* gRPC calls. *)

\* Create is not a transaction: the request is saved, then published, and a
\* failed publish leaves the saved request behind.
Create(s) ==
    /\ db.requests[s].status = "none"
    /\ db' = CreateStorageRequest(db, s, "batching")
    /\ \/ /\ Publish({[op |-> nextID, srs |-> {s}]}, {}, {})
          /\ faults' = faults
       \/ /\ faults < MaxFaults
          /\ faults' = faults + 1
          /\ Publish({}, {}, {})
    /\ UNCHANGED <<late, newBatchCreated, newBatchPrepared, auctionClosed,
                   finalizedDeal>>

CreatePrepared(s, b, in) ==
    /\ db.requests[s].status = "none"
    /\ UnusedBatch(b)
    /\ LET row == [status    |-> "auctioning",
                   rep       |-> IF in.rep = 0 THEN DealReplication ELSE in.rep,
                   piece     |-> in.piece,
                   disallow  |-> TRUE,
                   providers |-> in.providers,
                   carURL    |-> in.carURL]
           d1 == CreateStorageRequest(db, s, "auctioning")
           d2 == CreateBatch(d1, b, row, {s})
       IN  FinishTx(StartAuction(d2, b, row.piece, row.rep, row.providers # {}))
    /\ UNCHANGED <<late, newBatchCreated, newBatchPrepared, auctionClosed,
                   finalizedDeal>>

--------------------------------------------------------------------------------
(* Topic handlers. *)

\* Mutant: a batch that exists is created again.
CreateNewBatchAgain(m) ==
    LET srs == {e[2] : e \in m.entries}
        row == [NoBatchRow EXCEPT !.status = "preparing",
                                  !.rep = DealReplication,
                                  !.carURL = TRUE]
    IN  /\ Cardinality({s \in srs : db.requests[s].status # "none"})
             = Cardinality(m.entries)
        /\ FinishTx(Tx(CreateBatch(db, m.batch, row, srs), {}, {}, {}))
        /\ UNCHANGED <<late, newBatchCreated, newBatchPrepared, auctionClosed,
                       finalizedDeal>>

\* OnNewBatchCreated: a batch that exists is acked and changes nothing; fewer
\* rows updated than ids listed is an error.
CreateNewBatch(m) ==
    LET srs == {e[2] : e \in m.entries}
        row == [NoBatchRow EXCEPT !.status = "preparing",
                                  !.rep = DealReplication,
                                  !.carURL = TRUE]
    IN  /\ db.batches[m.batch].status = "none"
        /\ Cardinality({s \in srs : db.requests[s].status # "none"})
             = Cardinality(m.entries)
        /\ FinishTx(Tx(CreateBatch(db, m.batch, row, srs), {}, {}, {}))
        /\ UNCHANGED <<late, newBatchCreated, newBatchPrepared, auctionClosed,
                       finalizedDeal>>

\* What NewBatchPrepared does with a message: start the auction, ignore the
\* message, or return an error (and see it again).
PreparedVerdict(m) ==
    LET ba == db.batches[m.batch]
    IN  CASE ba.status = "preparing" /\ ba.piece = NoPiece -> "apply"
          [] ba.status = "auctioning" /\ ba.piece = m.piece -> "ack"
          [] OTHER -> "nack"

\* The batch was read before BatchToAuctioning: startAuction looks up the
\* exclusion history of an undefined piece.
NewBatchPrepared(m) ==
    /\ PreparedVerdict(m) = "apply"
    /\ FinishTx(StartAuction(BatchToAuctioning(db, m.batch, m.piece), m.batch,
                             NoPiece, db.batches[m.batch].rep, FALSE))
    /\ UNCHANGED <<late, newBatchCreated, newBatchPrepared, auctionClosed,
                   finalizedDeal>>

\* An auction that failed: the batch moves to error, and the requests of a
\* batch that packerd made are published to be batched again.
AuctionFailed(d, b) ==
    IF d.batches[b].disallow
    THEN Tx(BatchError(d, b, FALSE), {}, {}, {})
    ELSE Tx(BatchError(d, b, TRUE),
            {[op |-> nextID, srs |-> GetStorageRequestIDs(d, b)]}, {}, {})

\* Mutant: the gap is computed the wrong way round.
FillGapSwapped(d, b, missing) ==
    IF missing = 0 THEN Tx(d, {}, {}, {})
    ELSE StartAuction(d, b, d.batches[b].piece, 0 - missing, FALSE)

\* "If not all auction winners were accepted, then we should fire an auction to
\* fill the gap."
FillGap(d, b, missing) ==
    IF missing = 0 THEN Tx(d, {}, {}, {})
    ELSE StartAuction(d, b, d.batches[b].piece, missing, FALSE)

\* An auction that succeeded: the accepted winners get deals, the others are
\* replaced by a new auction.  Building the deal set dereferences the CAR URL:
\* without one the handler panics, and its deferred FinishTxForCtx commits.
AuctionWon(d, m) ==
    LET accepted == AcceptedWinners(d, m.batch, m.winners)
        tx == FillGap(AddDeals(d, m.batch, m.op, m.winners), m.batch,
                      Cardinality(m.winners \ accepted))
    IN  IF accepted = {} \/ ~d.batches[m.batch].carURL THEN tx
        ELSE [tx EXCEPT !.creates = {[id |-> nextID, auction |-> m.op[1],
                                      batch |-> m.batch, sps |-> accepted]}]

\* A batch without requests can't be rebatched: the ready-to-batch message would
\* be empty, which is an error, so the handler changes nothing.
BatchAuctioned(m) ==
    /\ ~OperationExists(db, m.op)
    /\ LET d == CreateOperation(db, m.op)
           ba == db.batches[m.batch]
           inProgress == ba.status \in {"auctioning", "deal_making"}
       IN  \/ ba.status \in {"error", "success"} /\ FinishTx(Tx(d, {}, {}, {}))
           \/ inProgress /\ m.ok /\ FinishTx(AuctionWon(d, m))
           \/ /\ inProgress /\ ~m.ok
              /\ ba.disallow \/ GetStorageRequestIDs(d, m.batch) # {}
              /\ FinishTx(AuctionFailed(d, m.batch))
    /\ UNCHANGED <<late, newBatchCreated, newBatchPrepared, auctionClosed,
                   finalizedDeal>>

\* Mutants: the deal isn't replaced unless it was rejected; the whole batch is
\* auctioned again.
DealFailedReplacesRejected(d, m) ==
    IF m.outcome # "rejected" THEN Tx(d, {}, {}, {})
    ELSE StartAuction(d, m.batch, d.batches[m.batch].piece, 1, FALSE)
DealFailedAuctionAll(d, m) ==
    IF m.outcome # "rejected" /\ m.batch \in late
    THEN Tx(BatchError(d, m.batch, FALSE), {}, {}, {})
    ELSE StartAuction(d, m.batch, d.batches[m.batch].piece,
                      d.batches[m.batch].rep, FALSE)

\* A deal that failed.  "rejected" is an error cause with "deal rejected" in it.
DealFailed(d, m) ==
    IF m.outcome # "rejected" /\ m.batch \in late
    THEN Tx(BatchError(d, m.batch, FALSE), {}, {}, {})
    ELSE StartAuction(d, m.batch, d.batches[m.batch].piece, 1, FALSE)

\* Mutant: deals still being made count as confirmed.
DealConfirmedEarly(d, b) ==
    LET confirmed == {r \in GetDeals(d, b) : r.state # "failed"}
    IN  IF Cardinality(confirmed) = d.batches[b].rep
        THEN Tx(BatchSuccess(d, b), {}, {}, {})
        ELSE Tx(d, {}, {}, {})

DealConfirmed(d, b) ==
    LET confirmed == {r \in GetDeals(d, b) : r.state = "confirmed"}
    IN  IF Cardinality(confirmed) = d.batches[b].rep
        THEN Tx(BatchSuccess(d, b), {}, {}, {})
        ELSE Tx(d, {}, {}, {})

BatchFinalizedDeal(m) ==
    /\ ~OperationExists(db, m.op)
    /\ \E r \in db.deals : r.batch = m.batch /\ r.sp = m.sp
    /\ LET ok == m.outcome = "confirmed"
           d == SaveDeals(CreateOperation(db, m.op), m.batch, m.sp,
                          IF ok THEN "confirmed" ELSE "failed")
       IN  FinishTx(IF ok THEN DealConfirmed(d, m.batch) ELSE DealFailed(d, m))
    /\ UNCHANGED <<late, newBatchCreated, newBatchPrepared, auctionClosed,
                   finalizedDeal>>

\* The clock: now + ProposalStartOffset moves past the deadline of a batch.
\* Only prepared batches have one.
DeadlinePasses(b) ==
    /\ db.batches[b].disallow
    /\ late' = late \union {b}
    /\ late' # late
    /\ UNCHANGED <<brokerVars, newBatchCreated, newBatchPrepared, auctionClosed,
                   finalizedDeal>>

================================================================================
