------------------------------ MODULE AuctionStore ------------------------------
(***************************************************************************)
(* The database of auctioneerd: the tables auctions, bids,                 *)
(* storage_providers and bid_events, the queries on them                   *)
(* (queue/internal/db), and what package queue stores in them and reads    *)
(* from them.                                                              *)
(*                                                                         *)
(* A table is a function from keys to rows.  db stands for all tables; an  *)
(* operator returns the tables after the query.  A bidder makes one bid in *)
(* an auction, <<auction, bidder>>, and is its own storage provider.       *)
(***************************************************************************)
EXTENDS Integers, FiniteSets, FiniteSetsExt, Convert

NoTables == [auctions |-> <<>>, bids |-> <<>>, providers |-> <<>>, events |-> {}]

Insert(table, key, row) ==
    [k \in DOMAIN table \union {key} |-> IF k = key THEN row ELSE table[k]]

--------------------------------------------------------------------------------
(* Auctions. *)

CreateAuction(db, a, params) ==
    [db EXCEPT !.auctions = Insert(db.auctions, a, params)]

\* old: the row was updated more than stuckSeconds ago.
UpdateAuctionStatusAndError(db, a, status, error) ==
    IF a \in DOMAIN db.auctions
    THEN [db EXCEPT !.auctions[a] =
             [@ EXCEPT !.status = status, !.error = error, !.old = FALSE]]
    ELSE db

\* The auctions that wait, or have been started for too long, with the earliest
\* deadline (no deadline is 0).
GetNextReadyToExecute(db) ==
    LET ready == {a \in DOMAIN db.auctions :
                     \/ db.auctions[a].status = "queued"
                     \/ db.auctions[a].status = "started" /\ db.auctions[a].old}
    IN  {a \in ready : \A o \in ready :
                          db.auctions[a].deadline <= db.auctions[o].deadline}

--------------------------------------------------------------------------------
(* Bids. *)

\* A bid refers to the row of its auction.
MayCreateBid(db, bid) == bid[1] \in DOMAIN db.auctions

CreateBid(db, bid, params) == [db EXCEPT !.bids = Insert(db.bids, bid, params)]

GetAuctionBids(db, a) == {bid \in DOMAIN db.bids : bid[1] = a}

\* For each of some bids; one that has no row is left out.
UpdateWinningBid(db, bids) ==
    [db EXCEPT !.bids = [bid \in DOMAIN db.bids |->
        IF bid \in bids THEN [db.bids[bid] EXCEPT !.won = TRUE] ELSE db.bids[bid]]]

UpdateProposalCid(db, bid, proposal) ==
    IF bid \in DOMAIN db.bids
    THEN [db EXCEPT !.bids[bid].proposal = Present(proposal),
                    !.bids[bid].delivered = TRUE]
    ELSE db

UpdateProposalCidDeliveryError(db, bid, error) ==
    IF bid \in DOMAIN db.bids
    THEN [db EXCEPT !.bids[bid].deliveryError = Present(error)] ELSE db

\* deal_confirmed_at: how long after the bid the deal was confirmed.
UpdateDealConfirmedAt(db, bid, seconds) ==
    IF bid \in DOMAIN db.bids
    THEN [db EXCEPT !.bids[bid].confirmed = Present(seconds)] ELSE db

UpdateDealFailedAt(db, bid) ==
    IF bid \in DOMAIN db.bids THEN [db EXCEPT !.bids[bid].failed = TRUE] ELSE db

--------------------------------------------------------------------------------
(* How providers did in the last week.  All bids are of that week, and older     *)
(* than ten minutes; their freshness counts as 1.                                *)

\* Of the bids of each provider, how many in a million are counted.
RateOf(bids, counted) ==
    LET providers == {bid[2] : bid \in bids}
        of(p) == {bid \in bids : bid[2] = p}
    IN  [p \in providers |->
            (Cardinality(of(p) \intersect counted) * 1000000)
                \div Cardinality(of(p))]

\* Mutant: deals that are still being made count as failed.
GetRecentWeekFailureRateAll(db) ==
    RateOf({bid \in DOMAIN db.bids : db.bids[bid].won},
           {bid \in DOMAIN db.bids : db.bids[bid].confirmed = Absent})

\* Only deals with an outcome count, as failed unless they were confirmed.
GetRecentWeekFailureRate(db) ==
    RateOf({bid \in DOMAIN db.bids :
               /\ db.bids[bid].won
               /\ db.bids[bid].failed \/ db.bids[bid].confirmed # Absent},
           {bid \in DOMAIN db.bids : db.bids[bid].confirmed = Absent})

GetRecentWeekWinningRate(db) ==
    RateOf(DOMAIN db.bids, {bid \in DOMAIN db.bids : db.bids[bid].won})

GetRecentWeekMaxOnChainSeconds(db) ==
    LET confirmed == {bid \in DOMAIN db.bids : db.bids[bid].confirmed # Absent}
    IN  [p \in {bid[2] : bid \in confirmed} |->
            Max({db.bids[bid].confirmed[1] : bid \in {b \in confirmed : b[2] = p}})]

GetProviderFailureRates(db) == GetRecentWeekFailureRate(db)

GetProviderWinningRates(db) == GetRecentWeekWinningRate(db)

GetProviderOnChainEpoches(db) ==
    LET rows == GetRecentWeekMaxOnChainSeconds(db)
    IN  [p \in DOMAIN rows |-> rows[p] \div 30]

--------------------------------------------------------------------------------
(* Storage providers, and what happens to the data of a bid.                     *)

CreateOrUpdateStorageProvider(db, p, version) ==
    [db EXCEPT !.providers =
       Insert(@, p, [version |-> version,
                     unhealthy |-> p \in DOMAIN @ /\ @[p].unhealthy])]

SetStorageProviderUnhealthy(db, p) ==
    IF p \in DOMAIN db.providers THEN [db EXCEPT !.providers[p].unhealthy = TRUE]
    ELSE db

\* An event refers to the row of its bid.
CreateBidEvent(db, event) ==
    IF event.bid \in DOMAIN db.bids THEN [db EXCEPT !.events = @ \union {event}]
    ELSE db

\* No attempts and no error are NULL.
SaveBidEvent(db, type, bid, attempts, error) ==
    CreateBidEvent(db,
        [type |-> type, bid |-> bid,
         attempts |-> IF attempts = 0 THEN Absent ELSE Present(attempts),
         error |-> IF error = "" THEN Absent ELSE Present(error)])

--------------------------------------------------------------------------------
(* An auction and its row. *)

\* The fields of an auction.  A source is a pointer, multiaddresses are a list.
IsAuction(v) ==
    LET url == v.sources.carURL
        ipfs == v.sources.carIPFS
    IN  /\ v = [rep |-> v.rep, deadline |-> v.deadline, verified |-> v.verified,
                dealSize |-> v.dealSize, duration |-> v.duration,
                excluded |-> v.excluded, providers |-> v.providers,
                payloadCid |-> v.payloadCid,
                sources |-> [carURL |-> url, carIPFS |-> ipfs]]
        /\ url # Absent => url = Present(url[1])
        /\ ipfs # Absent =>
              /\ ipfs = Present([cid |-> ipfs[1].cid, maddrs |-> ipfs[1].maddrs])
              /\ ipfs[1].maddrs = [i \in DOMAIN ipfs[1].maddrs |-> ipfs[1].maddrs[i]]

\* Sources.Validate of the bidbot library: there is a source.
SourcesValid(s) == s.carURL # Absent \/ s.carIPFS # Absent

\* validate.
Validate(v) ==
    /\ v.payloadCid # Absent
    /\ v.dealSize # 0 /\ v.duration # 0 /\ v.rep # 0
    /\ SourcesValid(v.sources)

\* CreateAuctionParams.
AuctionColumns(v) ==
    [rep |-> v.rep, deadline |-> v.deadline, verified |-> v.verified,
     dealSize |-> v.dealSize, duration |-> v.duration,
     excluded |-> v.excluded, providers |-> v.providers,
     payloadCid |-> Text(v.payloadCid),
     carURL |-> IF v.sources.carURL = Absent THEN Absent ELSE Text(v.sources.carURL[1]),
     carIPFSCid |-> IF v.sources.carIPFS = Absent THEN Absent
                    ELSE Text(v.sources.carIPFS[1].cid),
     carIPFSAddrs |-> IF v.sources.carIPFS = Absent THEN <<>>
                      ELSE TextAll(v.sources.carIPFS[1].maddrs),
     status |-> "queued", error |-> "", old |-> FALSE]

\* auctionFromDb; an error of it is AuctionReadable.
AuctionFromDb(row) ==
    [rep |-> row.rep, deadline |-> row.deadline, verified |-> row.verified,
     dealSize |-> row.dealSize, duration |-> row.duration,
     excluded |-> row.excluded, providers |-> row.providers,
     payloadCid |-> Parse(row.payloadCid),
     sources |-> [carURL |-> IF row.carURL = Absent THEN Absent
                             ELSE Present(Parse(row.carURL)),
                  carIPFS |-> IF row.carIPFSCid = Absent THEN Absent
                              ELSE Present([cid |-> Parse(row.carIPFSCid),
                                            maddrs |-> ParseAll(row.carIPFSAddrs)])]]

AuctionReadable(row) ==
    /\ Parses(row.payloadCid) /\ Parses(row.carURL) /\ Parses(row.carIPFSCid)
    /\ ParsesAll(row.carIPFSAddrs)
    /\ SourcesValid(AuctionFromDb(row).sources)

--------------------------------------------------------------------------------
(* A bid and its row.  A proposal is named by a cid, or by a uuid (Boost).       *)

\* The row that addBid writes.
BidColumns(bid) ==
    [bidder |-> Text(bid[2]), won |-> FALSE, proposal |-> Absent, delivered |-> FALSE,
     deliveryError |-> Absent, confirmed |-> Absent, failed |-> FALSE]

\* uuid.Parse succeeds.
IsUUID(text) == Parse(text)[1] = "uuid"

BidFromDb(row) ==
    LET p == row.proposal
    IN  [bidder      |-> Parse(row.bidder),
         won         |-> row.won,
         dealUID     |-> IF p # Absent /\ IsUUID(p[1]) THEN p[1] ELSE Absent,
         proposalCid |-> IF p # Absent /\ ~IsUUID(p[1]) THEN Present(Parse(p[1]))
                        ELSE Absent,
         delivered   |-> row.delivered,
         deliveryError |-> row.deliveryError]

\* Queue.GetAuction.
GetAuction(db, a) ==
    LET bids == GetAuctionBids(db, a)
    IN  [auction |-> AuctionFromDb(db.auctions[a]),
         status  |-> db.auctions[a].status,
         error   |-> db.auctions[a].error,
         bids    |-> [bid \in bids |-> BidFromDb(db.bids[bid])]]

\* GetFinalizedAuctionBid: Absent is an error.
GetFinalizedAuctionBid(db, bid) ==
    IF bid[1] \notin DOMAIN db.auctions THEN Absent
    ELSE LET a == GetAuction(db, bid[1])
         IN  IF a.status = "finalized" /\ a.error = "" /\ bid \in DOMAIN a.bids
             THEN Present(a.bids[bid])
             ELSE Absent

================================================================================
