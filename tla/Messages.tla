-------------------------------- MODULE Messages --------------------------------
(***************************************************************************)
(* The messages of the broker's topics (msgbroker): what the publishing    *)
(* function of a topic makes of the content it is given, and what the      *)
(* handler that RegisterHandlers installs passes on to the listener.  Both *)
(* check the fields; Absent is the error of either.                        *)
(*                                                                         *)
(* A field holds a value; the empty string is "".  op is the operation id, *)
(* a fresh uuid.                                                           *)
(***************************************************************************)
EXTENDS Integers, Convert

IfValid(valid, result) == IF valid THEN Present(result) ELSE Absent

AllNonEmpty(values) == \A v \in values : v # ""

Elements(s) == {s[i] : i \in DOMAIN s}

BytesOf(c) == IF c = Absent THEN Absent ELSE Bytes(c)

\* cid.Cast: no bytes are no cid.
Casts(bytes) == bytes # Absent

--------------------------------------------------------------------------------
(* new-batch-created, from packerd to brokerd and piecerd. *)

PublishMsgNewBatchCreated(v, op) ==
    IfValid(/\ AllNonEmpty({v.id, v.origin, v.manifest} \union Elements(v.requests))
            /\ v.batchCid # Absent
            /\ v.size > 0
            /\ Parses(v.carURL),
            [v EXCEPT !.batchCid = BytesOf(v.batchCid)])

OnNewBatchCreatedTopic(m) ==
    IfValid(/\ AllNonEmpty({m.id, m.origin, m.manifest} \union Elements(m.requests))
            /\ Casts(m.batchCid)
            /\ m.requests # <<>>
            /\ m.size > 0
            /\ Parses(m.carURL),
            [m EXCEPT !.batchCid = Parse(m.batchCid), !.carURL = Parse(m.carURL)])

--------------------------------------------------------------------------------
(* new-batch-prepared, from piecerd to brokerd. *)

PublishMsgNewBatchPrepared(v, op) ==
    IfValid(v.id # "" /\ v.pieceCid # Absent /\ v.pieceSize # 0,
            [v EXCEPT !.pieceCid = BytesOf(v.pieceCid)])

OnNewBatchPreparedTopic(m) ==
    IfValid(m.id # "" /\ Casts(m.pieceCid) /\ m.pieceSize # 0,
            [m EXCEPT !.pieceCid = Parse(m.pieceCid)])

--------------------------------------------------------------------------------
(* ready-to-batch, from brokerd to packerd. *)

PublishMsgReadyToBatch(v, op) ==
    IfValid(/\ v.dataCids # <<>>
            /\ \A d \in Elements(v.dataCids) : d.id # "" /\ d.cid # Absent /\ d.origin # "",
            [op       |-> op,
             dataCids |-> [i \in DOMAIN v.dataCids |->
                              [v.dataCids[i] EXCEPT !.cid = BytesOf(@)]]])

OnReadyToBatchTopic(m) ==
    IfValid(/\ m.op # ""
            /\ m.dataCids # <<>>
            /\ \A d \in Elements(m.dataCids) : d.id # "" /\ Casts(d.cid) /\ d.origin # "",
            [dataCids |-> [i \in DOMAIN m.dataCids |->
                              [m.dataCids[i] EXCEPT !.cid = Parse(@)]]])

--------------------------------------------------------------------------------
(* ready-to-create-deals, from brokerd to dealerd. *)

ProposalValid(t) == AllNonEmpty({t.sp, t.auction, t.bid}) /\ t.startEpoch # 0

PublishMsgReadyToCreateDeals(v, op) ==
    IfValid(/\ \A t \in Elements(v.proposals) : ProposalValid(t)
            /\ v.wallet # Absent =>
                  AllNonEmpty({v.wallet[1].peer, v.wallet[1].token, v.wallet[1].addr}),
            [v EXCEPT !.payloadCid = BytesOf(v.payloadCid),
                      !.pieceCid   = BytesOf(v.pieceCid),
                      !.carURL     = Text(v.carURL),
                      !.wallet     =
                         IF v.wallet = Absent THEN Absent
                         ELSE LET w == v.wallet[1]
                              IN  Present([peer |-> Text(w.peer), token |-> w.token,
                                           addr |-> Text(w.addr),
                                           maddrs |-> TextAll(w.maddrs)])])

OnReadyToCreateDealsTopic(m) ==
    IfValid(/\ AllNonEmpty({m.id, m.batch})
            /\ Casts(m.payloadCid) /\ Casts(m.pieceCid)
            /\ m.duration # 0
            /\ m.proposals # <<>>
            /\ \A t \in Elements(m.proposals) : ProposalValid(t) /\ t.price >= 0
            /\ m.wallet # Absent => /\ Parses(m.wallet[1].peer) /\ Parse(m.wallet[1].peer) # ""
                                    /\ m.wallet[1].token # ""
                                    /\ Parses(m.wallet[1].addr) /\ Parse(m.wallet[1].addr) # ""
                                    /\ ParsesAll(m.wallet[1].maddrs),
            [m EXCEPT !.payloadCid = Parse(m.payloadCid),
                      !.pieceCid   = Parse(m.pieceCid),
                      !.carURL     = Parse(m.carURL),
                      !.wallet     =
                         IF m.wallet = Absent THEN Absent
                         ELSE LET w == m.wallet[1]
                              IN  Present([peer |-> Parse(w.peer), token |-> w.token,
                                           addr |-> Parse(w.addr),
                                           maddrs |-> ParseAll(w.maddrs)])])

--------------------------------------------------------------------------------
(* finalized-deal, from dealerd to brokerd and auctioneerd. *)

PublishMsgFinalizedDeal(v, op) == Present([op |-> op, deal |-> v])

\* Mutant: a failed deal must have a deal id too.
OnFinalizedDealTopicStrict(m) ==
    LET fd == m.deal
    IN  IfValid(/\ AllNonEmpty({m.op, fd.batch, fd.sp, fd.auction, fd.bid})
                /\ fd.dealID > 0 /\ fd.expiration > 0,
                fd)

OnFinalizedDealTopic(m) ==
    LET fd == m.deal
    IN  IfValid(/\ AllNonEmpty({m.op, fd.batch, fd.sp, fd.auction, fd.bid})
                /\ fd.error = "" => fd.dealID > 0 /\ fd.expiration > 0,
                fd)

--------------------------------------------------------------------------------
(* deal-proposal-accepted and its counterpart for Boost, from dealerd to         *)
(* auctioneerd.  The listener gets neither the batch nor the provider.           *)

PublishMsgDealProposalAccepted(v, op) ==
    Present([v EXCEPT !.proposalCid = BytesOf(v.proposalCid)])

OnDealProposalAcceptedTopic(m) ==
    IfValid(AllNonEmpty({m.batch, m.sp, m.auction, m.bid}) /\ Casts(m.proposalCid),
            [auction |-> m.auction, bid |-> m.bid, proposalCid |-> Parse(m.proposalCid)])

PublishMsgBoostDealProposalAccepted(v, op) == Present(v)

OnBoostDealProposalAcceptedTopic(m) ==
    IfValid(AllNonEmpty({m.batch, m.sp, m.auction, m.bid}) /\ Parses(m.dealUID),
            [auction |-> m.auction, bid |-> m.bid, dealUID |-> m.dealUID])

--------------------------------------------------------------------------------
(* ready-to-auction, from brokerd to auctioneerd. *)

\* Mutant: only the CAR's URL is sent.
SourcesToPbURL(s) ==
    [carURL  |-> IF s.carURL = Absent THEN Absent ELSE Present(Text(s.carURL[1])),
     carIPFS |-> Absent]

SourcesToPb(s) ==
    [carURL  |-> IF s.carURL = Absent THEN Absent ELSE Present(Text(s.carURL[1])),
     carIPFS |-> IF s.carIPFS = Absent THEN Absent
                 ELSE Present([cid    |-> Text(s.carIPFS[1].cid),
                               maddrs |-> TextAll(s.carIPFS[1].maddrs)])]

SourcesFromPb(s) ==
    [carURL  |-> IF s.carURL = Absent THEN Absent ELSE Present(Parse(s.carURL[1])),
     carIPFS |-> IF s.carIPFS = Absent THEN Absent
                 ELSE Present([cid    |-> Parse(s.carIPFS[1].cid),
                               maddrs |-> ParseAll(s.carIPFS[1].maddrs)])]

PublishMsgReadyToAuction(v, op) ==
    Present([v EXCEPT !.payloadCid = BytesOf(v.payloadCid),
                      !.sources    = SourcesToPb(v.sources),
                      !.providers  = TextAll(v.providers)])

\* The listener gets the providers as strings.
OnReadyToAuctionTopic(m) ==
    IfValid(/\ AllNonEmpty({m.id, m.batch})
            /\ Casts(m.payloadCid)
            /\ m.dealSize # 0 /\ m.replication # 0,
            [m EXCEPT !.payloadCid = Parse(m.payloadCid),
                      !.sources    = SourcesFromPb(m.sources)])

--------------------------------------------------------------------------------
(* auction-closed, from auctioneerd to brokerd and apid. *)

AuctionStatuses == <<"unspecified", "queued", "started", "finalized">>

AuctionStatusToPb(status) == CHOOSE n \in DOMAIN AuctionStatuses : AuctionStatuses[n] = status

AuctionStatusFromPb(n) == AuctionStatuses[n]

AuctionWinningBidsToPb(bids) ==
    IfValid(\A b \in DOMAIN bids : bids[b].sp # "" /\ bids[b].startEpoch # 0, bids)

AuctionWinningBidsFromPb(bids) ==
    IfValid(\A b \in DOMAIN bids : /\ bids[b].sp # "" /\ bids[b].startEpoch # 0
                                   /\ bids[b].price >= 0,
            bids)

ClosedAuctionToPb(v, op) ==
    LET bids == AuctionWinningBidsToPb(v.bids)
    IN  IfValid(bids # Absent,
                [v EXCEPT !.bids = bids[1], !.status = AuctionStatusToPb(v.status)])

ClosedAuctionFromPb(m) ==
    LET bids == AuctionWinningBidsFromPb(m.bids)
    IN  IfValid(/\ bids # Absent
                /\ AllNonEmpty({m.id, m.batch})
                /\ m.duration # 0 /\ m.replication # 0,
                [m EXCEPT !.bids = bids[1], !.status = AuctionStatusFromPb(m.status)])

PublishMsgAuctionClosed(v, op) ==
    LET pba == ClosedAuctionToPb(v, op)
    IN  IfValid(pba # Absent, [op |-> op, auction |-> pba[1]])

OnAuctionClosedTopic(m) == IF m.op = "" THEN Absent ELSE ClosedAuctionFromPb(m.auction)

--------------------------------------------------------------------------------
(* The events of an auction, from auctioneerd to apid. *)

AuctionToPbSummary(a) == [a EXCEPT !.status = Text(a.status)]

\* The id of the bid is not sent.
BidToPb(b) ==
    [sp |-> b.sp, bidder |-> Text(b.bidder), price |-> b.price,
     startEpoch |-> b.startEpoch, fast |-> b.fast]

BidFromPb(b) == [b EXCEPT !.bidder = Parse(b.bidder)]

PublishMsgAuctionStarted(v, op) == Present([auction |-> AuctionToPbSummary(v.auction)])

OnAuctionStartedTopic(m) == Present(m)

\* PublishMsgAuctionBidReceived, ..WinnerSelected and ..WinnerAcked.
PublishMsgAuctionBid(v, op) ==
    Present([auction |-> AuctionToPbSummary(v.auction), bid |-> BidToPb(v.bid)])

OnAuctionBidTopic(m) ==
    IfValid(Parses(m.bid.bidder), [m EXCEPT !.bid = BidFromPb(m.bid)])

PublishMsgAuctionProposalCidDelivered(v, op) ==
    Present([v EXCEPT !.bidder      = Text(v.bidder),
                      !.proposalCid = BytesOf(v.proposalCid)])

OnAuctionProposalCidDeliveredTopic(m) ==
    IfValid(Casts(m.proposalCid), [m EXCEPT !.proposalCid = Text(Parse(m.proposalCid))])

--------------------------------------------------------------------------------
(* All topics. *)

\* A struct, and a slice.
HasFields(v, fields) == v = [f \in fields |-> v[f]]

IsList(s) == s = [i \in DOMAIN s |-> s[i]]

\* The summary of an auction, and a bid.
IsSummary(a) ==
    HasFields(a, {"id", "batch", "verified", "excluded", "status", "startedAt", "updatedAt",
                  "duration"})

IsBid(b) == HasFields(b, {"id", "sp", "bidder", "price", "startEpoch", "fast"})

\* What the publishing function of topic t takes: its parameters, by their types.
IsContent(t, v) ==
    CASE t = "new-batch-created" ->
            HasFields(v, {"id", "batchCid", "size", "requests", "origin", "manifest",
                          "carURL"})
      [] t = "new-batch-prepared" -> HasFields(v, {"id", "pieceCid", "pieceSize"})
      [] t = "ready-to-batch" ->
            /\ HasFields(v, {"dataCids"}) /\ IsList(v.dataCids)
            /\ \A d \in Elements(v.dataCids) : HasFields(d, {"id", "cid", "origin"})
      [] t = "ready-to-create-deals" ->
            /\ HasFields(v, {"id", "batch", "payloadCid", "pieceCid", "pieceSize",
                             "duration", "carURL", "wallet", "proposals"})
            /\ v.wallet # Absent =>
                  /\ v.wallet = Present(v.wallet[1])
                  /\ HasFields(v.wallet[1], {"peer", "token", "addr", "maddrs"})
                  /\ IsList(v.wallet[1].maddrs)
      [] t = "finalized-deal" ->
            HasFields(v, {"batch", "dealID", "expiration", "sp", "error", "auction", "bid"})
      [] t = "deal-proposal-accepted" ->
            HasFields(v, {"batch", "auction", "bid", "sp", "proposalCid"})
      [] t = "boost-deal-proposal-accepted" ->
            HasFields(v, {"batch", "auction", "bid", "sp", "dealUID"})
      [] t = "ready-to-auction" ->
            /\ HasFields(v, {"id", "batch", "payloadCid", "dealSize", "duration",
                             "replication", "verified", "excluded", "deadline", "sources",
                             "client", "providers"})
            /\ HasFields(v.sources, {"carURL", "carIPFS"})
            /\ v.sources.carURL # Absent => v.sources.carURL = Present(v.sources.carURL[1])
            /\ v.sources.carIPFS # Absent =>
                  /\ v.sources.carIPFS = Present(v.sources.carIPFS[1])
                  /\ HasFields(v.sources.carIPFS[1], {"cid", "maddrs"})
                  /\ IsList(v.sources.carIPFS[1].maddrs)
      [] t = "auction-closed" ->
            /\ HasFields(v, {"id", "batch", "duration", "replication", "verified",
                             "status", "error", "bids"})
            /\ v.status \in Elements(AuctionStatuses)
      [] t = "auction-started" -> HasFields(v, {"auction"}) /\ IsSummary(v.auction)
      [] t = "auction-proposal-cid-delivered" ->
            HasFields(v, {"auction", "bidder", "bid", "proposalCid", "error"})
      [] OTHER ->
            HasFields(v, {"auction", "bid"}) /\ IsSummary(v.auction) /\ IsBid(v.bid)

\* The publishing function of topic t.
ToMessage(t, v, op) ==
    CASE t = "new-batch-created"            -> PublishMsgNewBatchCreated(v, op)
      [] t = "new-batch-prepared"           -> PublishMsgNewBatchPrepared(v, op)
      [] t = "ready-to-batch"               -> PublishMsgReadyToBatch(v, op)
      [] t = "ready-to-create-deals"        -> PublishMsgReadyToCreateDeals(v, op)
      [] t = "finalized-deal"               -> PublishMsgFinalizedDeal(v, op)
      [] t = "deal-proposal-accepted"       -> PublishMsgDealProposalAccepted(v, op)
      [] t = "boost-deal-proposal-accepted" -> PublishMsgBoostDealProposalAccepted(v, op)
      [] t = "ready-to-auction"             -> PublishMsgReadyToAuction(v, op)
      [] t = "auction-closed"               -> PublishMsgAuctionClosed(v, op)
      [] t = "auction-started"              -> PublishMsgAuctionStarted(v, op)
      [] t = "auction-proposal-cid-delivered" -> PublishMsgAuctionProposalCidDelivered(v, op)
      [] OTHER                              -> PublishMsgAuctionBid(v, op)

\* What the handler of topic t passes to the listener.
ToListener(t, m) ==
    CASE t = "new-batch-created"            -> OnNewBatchCreatedTopic(m)
      [] t = "new-batch-prepared"           -> OnNewBatchPreparedTopic(m)
      [] t = "ready-to-batch"               -> OnReadyToBatchTopic(m)
      [] t = "ready-to-create-deals"        -> OnReadyToCreateDealsTopic(m)
      [] t = "finalized-deal"               -> OnFinalizedDealTopic(m)
      [] t = "deal-proposal-accepted"       -> OnDealProposalAcceptedTopic(m)
      [] t = "boost-deal-proposal-accepted" -> OnBoostDealProposalAcceptedTopic(m)
      [] t = "ready-to-auction"             -> OnReadyToAuctionTopic(m)
      [] t = "auction-closed"               -> OnAuctionClosedTopic(m)
      [] t = "auction-started"              -> OnAuctionStartedTopic(m)
      [] t = "auction-proposal-cid-delivered" -> OnAuctionProposalCidDeliveredTopic(m)
      [] OTHER                              -> OnAuctionBidTopic(m)

================================================================================
