---------------------------------- MODULE Apid ----------------------------------
(***************************************************************************)
(* apid (cmd/apid): the tables its API shows, filled from the events that  *)
(* auctioneerd publishes.  Events are delivered in any order and possibly  *)
(* several times; a listener for events returns no error, so an event is   *)
(* acked also when a query failed, and what it tells is lost.              *)
(***************************************************************************)
EXTENDS Naturals, Sequences, Convert

CONSTANTS MaxApiFaults    \* bound: queries that fail

ASSUME ApidAssumption == MaxApiFaults \in Nat

VARIABLES
    api,        \* the tables auctions and bids of apid
    told,       \* the events that were handled without an error
    apiFaults

apiVars == <<api, told, apiFaults>>

ApiInit ==
    /\ api = [auctions |-> <<>>, bids |-> <<>>]
    /\ told = {}
    /\ apiFaults = 0

Upsert(table, key, row) ==
    [k \in DOMAIN table \union {key} |-> IF k = key THEN row ELSE table[k]]

--------------------------------------------------------------------------------
(* The queries.  A query on auctions and bids has the tables as its first        *)
(* parameter and returns them.                                                   *)

\* An auction that exists keeps only closed_at.
CreateOrUpdateAuctionRow(t, id, status) ==
    [t EXCEPT !.auctions =
       Upsert(@, id, [status |-> status, error |-> "",
                      closed |-> id \in DOMAIN @ /\ @[id].closed])]

CloseAuctionRow(t, id, status, error) ==
    IF id \in DOMAIN t.auctions
    THEN [t EXCEPT !.auctions[id] = [status |-> status, error |-> error, closed |-> TRUE]]
    ELSE t

\* Mutant: the row of a bid is replaced.
CreateOrUpdateBidRowAnew(t, key, sp) ==
    [t EXCEPT !.bids = Upsert(@, key, [sp |-> sp, won |-> FALSE, acked |-> FALSE,
                                       proposal |-> Absent])]

\* A bid that exists keeps what happened to it.
CreateOrUpdateBidRow(t, key, sp) ==
    [t EXCEPT !.bids =
       Upsert(@, key, IF key \in DOMAIN @ THEN [@[key] EXCEPT !.sp = sp]
                      ELSE [sp |-> sp, won |-> FALSE, acked |-> FALSE,
                            proposal |-> Absent])]

WonBidRow(t, key) ==
    IF key \in DOMAIN t.bids THEN [t EXCEPT !.bids[key].won = TRUE] ELSE t

AcknowledgedBidRow(t, key) ==
    IF key \in DOMAIN t.bids THEN [t EXCEPT !.bids[key].acked = TRUE] ELSE t

ProposalDeliveredRow(t, key, proposal) ==
    IF key \in DOMAIN t.bids
    THEN [t EXCEPT !.bids[key].proposal = Present(proposal)] ELSE t

--------------------------------------------------------------------------------
(* The store: from a message to the parameters of a query.                       *)

CreateOrUpdateAuction(t, summary) ==
    CreateOrUpdateAuctionRow(t, summary.id, Parse(summary.status))

CreateOrUpdateBid(t, id, b) == CreateOrUpdateBidRow(t, <<id, Text(b.bidder)>>, b.sp)

WonBid(t, id, b) == WonBidRow(t, <<id, Text(b.bidder)>>)

AckedBid(t, id, b) == AcknowledgedBidRow(t, <<id, Text(b.bidder)>>)

\* The error of a delivery that failed is not stored.
ProposalDelivered(t, id, bidder, proposal, error) ==
    ProposalDeliveredRow(t, <<id, bidder>>, proposal)

AuctionClosed(t, ca) == CloseAuctionRow(t, ca.id, ca.status, ca.error)

--------------------------------------------------------------------------------
(* The listeners: the tables before, and after each of their queries.            *)

OnAuctionStarted(m) == <<api, CreateOrUpdateAuction(api, m.auction)>>

OnAuctionBidReceived(m) ==
    LET t1 == CreateOrUpdateAuction(api, m.auction)
        t2 == CreateOrUpdateBid(t1, m.auction.id, m.bid)
    IN  <<api, t1, t2>>

OnAuctionWinnerSelected(m) ==
    LET t1 == CreateOrUpdateAuction(api, m.auction)
        t2 == CreateOrUpdateBid(t1, m.auction.id, m.bid)
        t3 == WonBid(t2, m.auction.id, m.bid)
    IN  <<api, t1, t2, t3>>

OnAuctionWinnerAcked(m) ==
    LET t1 == CreateOrUpdateAuction(api, m.auction)
        t2 == CreateOrUpdateBid(t1, m.auction.id, m.bid)
        t3 == AckedBid(t2, m.auction.id, m.bid)
    IN  <<api, t1, t2, t3>>

OnAuctionProposalCidDelivered(m) ==
    <<api, ProposalDelivered(api, m.auction, m.bidder, m.proposalCid, m.error)>>

OnAuctionClosed(m) == <<api, AuctionClosed(api, m)>>

Listener(topic, m) ==
    CASE topic = "auction-started"         -> OnAuctionStarted(m)
      [] topic = "auction-bid-received"    -> OnAuctionBidReceived(m)
      [] topic = "auction-winner-selected" -> OnAuctionWinnerSelected(m)
      [] topic = "auction-winner-acked"    -> OnAuctionWinnerAcked(m)
      [] topic = "auction-proposal-cid-delivered" -> OnAuctionProposalCidDelivered(m)
      [] topic = "auction-closed"          -> OnAuctionClosed(m)

\* A listener does all its queries, or stops at one that fails.
Tell(event, m) ==
    LET stages == Listener(event.topic, m)
    IN  \/ /\ api' = stages[Len(stages)]
           /\ told' = told \union {event}
           /\ apiFaults' = apiFaults
        \/ /\ apiFaults < MaxApiFaults /\ apiFaults' = apiFaults + 1
           /\ \E n \in 1..(Len(stages) - 1) : api' = stages[n]
           /\ told' = told

================================================================================
