-------------------------------- MODULE Pipeline --------------------------------
(***************************************************************************)
(* brokerd and the daemons around it, each reduced to what brokerd sees of *)
(* it: packerd answers ready-to-batch with new-batch-created, piecerd that *)
(* with new-batch-prepared, auctioneerd answers ready-to-auction with      *)
(* auction-closed, dealerd answers ready-to-create-deals with              *)
(* finalized-deal.                                                         *)
(*                                                                         *)
(* auctioneerd and dealerd publish a result and then save that they did,   *)
(* and every publish draws a new operation id.  MaxReports is how often    *)
(* the result of one auction or one deal may be published; 1 is a system   *)
(* in which neither daemon stops between the two steps.                    *)
(***************************************************************************)
EXTENDS Broker

CONSTANTS
    PieceOf,      \* the piece of the batch packerd makes under each id
    MaxReports    \* bound: publishes of one result

ASSUME PipelineAssumption ==
    /\ PieceOf \in [Batches -> Pieces]
    /\ MaxReports \in Nat \ {0}

vars == <<brokerVars, late, newBatchCreated, newBatchPrepared, auctionClosed,
          finalizedDeal>>

--------------------------------------------------------------------------------
(* packerd and piecerd. *)

Entries == UNION {{m.op} \X m.srs : m \in readyToBatch}

PackedEntries == UNION {m.entries : m \in newBatchCreated}

\* packerd puts each (operation, request) pair into one batch.
PackBatch(b, entries) ==
    /\ UnusedBatch(b)
    /\ entries # {}
    /\ newBatchCreated' =
          newBatchCreated \union {[batch |-> b, entries |-> entries]}
    /\ UNCHANGED <<brokerVars, late, newBatchPrepared, auctionClosed,
                   finalizedDeal>>

PrepareBatch(m) ==
    /\ newBatchPrepared' = newBatchPrepared \union
          {[batch |-> m.batch, piece |-> PieceOf[m.batch]]}
    /\ newBatchPrepared' # newBatchPrepared
    /\ UNCHANGED <<brokerVars, late, newBatchCreated, auctionClosed,
                   finalizedDeal>>

--------------------------------------------------------------------------------
(* auctioneerd. *)

Closings(id) == {c \in auctionClosed : c.op[1] = id}

\* The sets of winners an auction can close with: as many as the replication
\* asked for, none excluded, and only targeted ones if there are any.
PossibleWinners(m) ==
    LET bidders == (IF m.providers = {} THEN Providers ELSE m.providers)
                      \ m.excluded
    IN  {W \in SUBSET bidders : Cardinality(W) = m.rep}

CloseAuction(m, ok, winners) ==
    /\ Cardinality(Closings(m.id)) < MaxReports
    /\ winners \in (IF ok THEN PossibleWinners(m) ELSE {{}})
    /\ auctionClosed' = auctionClosed \union
          {[op |-> <<m.id, Cardinality(Closings(m.id)) + 1>>,
            batch |-> m.batch, ok |-> ok, winners |-> winners]}
    /\ UNCHANGED <<brokerVars, late, newBatchCreated, newBatchPrepared,
                   finalizedDeal>>

--------------------------------------------------------------------------------
(* dealerd. *)

Reports(id, sp) == {f \in finalizedDeal : f.op[1] = id /\ f.op[2] = sp}

\* A deal has one outcome, however often it is reported.
FinalizeDeal(m, sp, outcome) ==
    /\ Cardinality(Reports(m.id, sp)) < MaxReports
    /\ \A f \in Reports(m.id, sp) : f.outcome = outcome
    /\ finalizedDeal' = finalizedDeal \union
          {[op |-> <<m.id, sp, Cardinality(Reports(m.id, sp)) + 1>>,
            batch |-> m.batch, sp |-> sp, outcome |-> outcome]}
    /\ UNCHANGED <<brokerVars, late, newBatchCreated, newBatchPrepared,
                   auctionClosed>>

--------------------------------------------------------------------------------
Init == BrokerInit

Clients ==
    \/ \E s \in StorageRequests : Create(s)
    \/ \E s \in StorageRequests, b \in Batches, in \in PreparedInputs :
          CreatePrepared(s, b, in)

Brokerd ==
    \/ \E m \in newBatchCreated : CreateNewBatch(m)
    \/ \E m \in newBatchPrepared : NewBatchPrepared(m)
    \/ \E m \in auctionClosed : BatchAuctioned(m)
    \/ \E m \in finalizedDeal : BatchFinalizedDeal(m)

Peers ==
    \/ \E b \in Batches, entries \in SUBSET (Entries \ PackedEntries) :
          PackBatch(b, entries)
    \/ \E m \in newBatchCreated : PrepareBatch(m)
    \/ \E m \in readyToAuction, ok \in BOOLEAN, winners \in SUBSET Providers :
          CloseAuction(m, ok, winners)
    \/ \E m \in readyToCreateDeals,
          outcome \in {"confirmed", "failed", "rejected"} :
          \E sp \in m.sps : FinalizeDeal(m, sp, outcome)

Next == Clients \/ Brokerd \/ Peers \/ \E b \in Batches : DeadlinePasses(b)

Spec == Init /\ [][Next]_vars

\* Pub/Sub redelivers a message until it is acked, and the peers answer every
\* message they get: packerd seals a batch after a while, auctions and deals
\* have time limits.  No client has to make a request.
Fairness ==
    /\ WF_vars(\E m \in newBatchCreated : CreateNewBatch(m))
    /\ WF_vars(\E m \in newBatchPrepared : NewBatchPrepared(m))
    /\ WF_vars(\E m \in auctionClosed : BatchAuctioned(m))
    /\ WF_vars(\E m \in finalizedDeal : BatchFinalizedDeal(m))
    /\ WF_vars(\E m \in newBatchCreated : PrepareBatch(m))
    /\ WF_vars(\E m \in readyToAuction, ok \in BOOLEAN,
                  winners \in SUBSET Providers : CloseAuction(m, ok, winners))
    /\ WF_vars(\E m \in readyToCreateDeals,
                  outcome \in {"confirmed", "failed", "rejected"} :
                  \E sp \in m.sps : FinalizeDeal(m, sp, outcome))

FairSpec == Spec /\ Fairness

--------------------------------------------------------------------------------
(* Properties. *)

\* Rows and messages have the types the code gives them.
TypeOK == BrokerTypeOK

\* "StorageRequests status should mirror the Batch status" (store.CreateBatch):
\* a request in a batch has the status of the batch, except that the requests
\* of an errored batch that packerd made wait to be batched again.
StatusMirrored ==
    \A s \in StorageRequests :
        LET sr == db.requests[s]
            ba == db.batches[sr.batch]
        IN  sr.batch # NoBatch =>
                sr.status = IF ba.status = "error" /\ ~ba.disallow
                            THEN "batching" ELSE ba.status

\* The replication slots of batch b that are out for auction: the copies asked
\* for by the auctions whose result brokerd has not handled.
OpenSlots(b) ==
    UNION {{m.id} \X (1..m.rep) :
              m \in {x \in readyToAuction :
                        x.batch = b /\ <<x.id, 1>> \notin db.operations}}

\* The deals of batch b that are being made or are confirmed.
LiveDeals(b) == {r \in GetDeals(db, b) : r.state # "failed"}

\* Replication slots are conserved: the slots out for auction, the deals being
\* made and the confirmed deals of a live batch add up to its rep factor, so
\* every re-auction replaces what was lost, and once.  (Without faults.)
SlotsConserved ==
    faults = 0 => \A b \in Batches :
        db.batches[b].status \in {"auctioning", "deal_making"} =>
            Cardinality(OpenSlots(b)) + Cardinality(LiveDeals(b)) = db.batches[b].rep

\* The deals of b that dealerd has reported active on chain.
ActiveDeals(b) ==
    {<<f.op[1], f.sp>> : f \in {x \in finalizedDeal :
                                  x.batch = b /\ x.outcome = "confirmed"}}

\* A batch that succeeded has as many active deals as its rep factor asks for
\* (the test at the end of BatchFinalizedDeal).
SuccessMeetsRepFactor ==
    \A b \in Batches : db.batches[b].status = "success" =>
        Cardinality(ActiveDeals(b)) >= db.batches[b].rep

\* Auctions of one piece run concurrently, and AddDeals still gives a provider
\* at most one deal for the piece, over all its batches, unless the client
\* chose the providers.
OneDealPerProvider ==
    \A q, r \in db.deals :
        /\ q # r
        /\ q.sp = r.sp
        /\ db.batches[q.batch].piece = db.batches[r.batch].piece
        => \/ db.batches[q.batch].providers # {}
           \/ db.batches[r.batch].providers # {}

\* A request changes batch only while it waits for one: a batch in progress
\* never loses a request to another batch (CreateBatch does not look at the
\* status of the requests it takes).  (Without faults.)
RequestsNotStolen ==
    [][faults' = 0 => \A s \in StorageRequests :
          db'.requests[s].batch # db.requests[s].batch =>
              db.requests[s].status \in {"none", "batching"}]_vars

\* Success and error are final: no late auction result or deal report revives
\* a batch (BatchSuccess has no condition on the status).  (Without faults.)
FinalStatus ==
    [][faults' = 0 => \A b \in Batches : db.batches[b].status \in {"success", "error"} =>
          db'.batches[b].status = db.batches[b].status]_vars

\* Every deal row waiting for an outcome was announced to dealerd, so an
\* outcome will come.
PendingDealsAnnounced ==
    \A r \in db.deals : r.state = "pending" =>
        \E m \in readyToCreateDeals : /\ m.auction = r.bid[1]
                                      /\ m.batch = r.batch
                                      /\ r.sp \in m.sps

\* Every batch ends up stored or errored: the chain of auctions, discarded
\* winners, deals, failures and re-auctions of BatchAuctioned and
\* BatchFinalizedDeal never stalls.
BatchSettles ==
    \A b \in Batches :
        db.batches[b].status # "none"
            ~> db.batches[b].status \in {"success", "error"}

================================================================================
