------------------------------- MODULE Settlement -------------------------------
(***************************************************************************)
(* The pipeline and the unpinner: what brokerd does with a batch, from its *)
(* creation to the removal of its data from IPFS; and the query of a       *)
(* client that looks at a request meanwhile (GET /storagerequest/{id}).    *)
(*                                                                         *)
(* The data of a request is pinned when the request is made, the DAG of a  *)
(* batch when packerd announces the batch; a prepared CAR is never pinned. *)
(* The transaction that moves a batch to success or error creates the jobs *)
(* that unpin it.                                                          *)
(***************************************************************************)
EXTENDS Pipeline, Unpinner, Cast

VARIABLE
    query      \* the query in progress: the row of the request as it was read

NoQuery == [status |-> "none", batch |-> NoBatch]

settleVars == <<vars, unpinVars, query>>

DataJob(s) == <<"data", s>>

BatchJob(b) == <<"batch", b>>

ASSUME SettlementAssumption ==
    UnpinJobs = {DataJob(s) : s \in StorageRequests} \union {BatchJob(b) : b \in Batches}

\* The requests that Create made, and the batches that packerd pinned.
PinnedNow ==
    LET made == {s \in StorageRequests : db.requests[s].status = "none"
                                         /\ db'.requests[s].status = "batching"}
        packed == {m.batch : m \in newBatchCreated' \ newBatchCreated}
    IN  {CidOf[DataJob(s)] : s \in made} \union {CidOf[BatchJob(b)] : b \in packed}

JobsNow ==
    {DataJob(s) : s \in db'.unpinData \ db.unpinData}
        \union {BatchJob(b) : b \in db'.unpinBatch \ db.unpinBatch}

--------------------------------------------------------------------------------
(* GetStorageRequestInfo reads the request, and then the deals of its batch. *)

GetStorageRequest(s) ==
    /\ query = NoQuery
    /\ db.requests[s].status # "none"
    /\ query' = [status |-> db.requests[s].status, batch |-> db.requests[s].batch]
    /\ UNCHANGED <<vars, unpinVars>>

\* The id of a deal on chain is another one for every row.
Deal(r) == [sp |-> r.sp, dealID |-> <<r.batch, r.bid, r.sp>>]

\* Mutant: the deals that failed are shown too.
ShownDealsAll ==
    IF query.batch = NoBatch THEN {} ELSE {Deal(r) : r \in GetDeals(db, query.batch)}

\* The deals with an id: a deal that failed, or has no outcome yet, has none.
ShownDeals ==
    IF query.batch = NoBatch THEN {}
    ELSE {Deal(r) : r \in {x \in GetDeals(db, query.batch) : x.state = "confirmed"}}

\* The answer of the service if the deals are read now (the id and the cid are
\* those of the row), and what the client in storaged makes of it.
ServeStorageRequestInfo ==
    StorageRequestInfoToProto(
        [request |-> [id |-> "id", dataCid |-> "cid", status |-> query.status],
         deals |-> ShownDeals])

ClientStorageRequestInfo == FromProtoStorageRequestInfo(ServeStorageRequestInfo)

\* GetRequestInfo of storaged.
RequestInfo ==
    [request |-> ToRequest(ClientStorageRequestInfo.request),
     deals |-> ClientStorageRequestInfo.deals]

AnswerQuery ==
    /\ query # NoQuery
    /\ query' = NoQuery
    /\ UNCHANGED <<vars, unpinVars>>

--------------------------------------------------------------------------------
SettleInit == Init /\ UnpinInit /\ pins = {} /\ query = NoQuery

SettleNext ==
    \/ /\ Next
       /\ CreateUnpinJob(JobsNow)
       /\ pins' = pins \union PinnedNow
       /\ UNCHANGED <<stuckJobs, unpinner, unpinFaults, query>>
    \/ UnpinNext /\ UNCHANGED <<vars, query>>
    \/ \E s \in StorageRequests : GetStorageRequest(s)
    \/ AnswerQuery

SettleSpec ==
    /\ SettleInit
    /\ [][SettleNext]_settleVars
    /\ Fairness
    /\ UnpinFairness

--------------------------------------------------------------------------------
(* Properties. *)

\* Data stays pinned while it is needed: the data of a request that packerd
\* batches until the request is stored, the DAG of a batch until the batch is
\* final, however often auctions fail and jobs are repeated.  (Without faults of
\* the handlers.)
NeededIsPinned ==
    faults = 0 =>
        /\ \A s \in StorageRequests :
              /\ db.requests[s].status \notin {"none", "success"}
              /\ db.requests[s].batch = NoBatch
                    \/ ~db.batches[db.requests[s].batch].disallow
              => CidOf[DataJob(s)] \in pins
        /\ \A b \in Batches :
              /\ db.batches[b].status \in {"preparing", "auctioning", "deal_making"}
              /\ ~db.batches[b].disallow
              => CidOf[BatchJob(b)] \in pins

\* A request is never shown as stored with fewer deals than its rep factor, and
\* only deals that are on chain are shown, although the status and the deals are read
\* one after the other while the batch moves on.  (Without faults of the handlers.)
ShownIsTrue ==
    faults = 0 /\ query # NoQuery =>
        /\ RequestInfo.request.status = "Success" =>
              Cardinality(RequestInfo.deals) >= db.batches[query.batch].rep
        /\ \A d \in RequestInfo.deals : <<query.batch, d.sp>> \in
              {<<f.batch, f.sp>> : f \in {m \in finalizedDeal :
                                            m.outcome = "confirmed"}}

\* A job is deleted only when its cid is unpinned, and every job gets there: no
\* failed call or write, restart or lost claim makes brokerd forget a pin.
UnpinJobsDone ==
    \A j \in UnpinJobs :
        jobs[j] # "none" ~> jobs[j] = "deleted" /\ CidOf[j] \notin pins

================================================================================
