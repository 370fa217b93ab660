-------------------------------- MODULE Delivery --------------------------------
(***************************************************************************)
(* auctioneerd and apid after an auction closed.  auctioneerd passes the   *)
(* proposals that dealerd made on to the bidders (DeliverProposal,         *)
(* DeliverBoostProposal over Libp2pPubsub), records the outcome of the     *)
(* deals, what bidbots tell of themselves, and how reliable each provider  *)
(* is; apid shows what the events of the auction say (Apid).               *)
(*                                                                         *)
(* dealerd and the bidders are external.  A message is handled until it is *)
(* acked, and may be delivered again later; several handlers of one        *)
(* process run at the same time.  The two daemons share nothing but the    *)
(* events, which come in any order, so a behaviour follows one of them.    *)
(***************************************************************************)
EXTENDS AuctionStore, Apid, Messages

CONSTANTS
    AuctionIds, Bidders,
    AuctionAsked,     \* auction -> what was asked for
    ProposalOf,       \* bid -> the cid or uuid of the proposal made of it
    OnChainSeconds,   \* bidder -> how long its deals take
    BidbotEvents,     \* what bidbots publish on their topic
    Handlers,
    MaxRepeats,       \* bound: deliveries of a message that was acked
    MaxFaults         \* bound: errors of bidders, lost answers and failed writes

Bids == AuctionIds \X Bidders

ASSUME DeliveryAssumption ==
    /\ DOMAIN ProposalOf = Bids
    /\ IsFiniteSet(Bidders)
    /\ {MaxRepeats, MaxFaults} \subseteq Nat

VARIABLES
    followed,   \* the daemon that is followed
    db,         \* the tables of auctioneerd
    accepted,   \* the messages of (boost-)deal-proposal-accepted: bids
    outcomes,   \* the messages of finalized-deal
    acked,      \* the messages of both kinds that were acked
    repeats,
    handler,    \* the deliveries in progress
    received,   \* the bids whose bidder received the proposal
    lost,       \* the bids whose bidder did not answer in time
    rates,      \* the rates that refreshProviderRates keeps
    events,     \* the events published for apid
    faults

auctioneerVars == <<followed, db, accepted, outcomes, acked, repeats, handler, received, lost,
                    rates, events, faults>>

vars == <<auctioneerVars, apiVars>>

Idle == [step |-> "idle"]

Fault == faults < MaxFaults /\ faults' = faults + 1

NoFault == faults' = faults

--------------------------------------------------------------------------------
(* Where it starts: an auction that closed, with or without enough winners.      *)

Summary(a) == [id |-> a, status |-> "started"]

BidContent(bid) ==
    [auction |-> Summary(bid[1]),
     bid |-> [sp |-> bid[2], bidder |-> bid[2], price |-> 0, startEpoch |-> 1, fast |-> FALSE]]

\* toClosedAuction.
ToClosedAuction(a, winners, error) ==
    [id |-> a, batch |-> "batch", duration |-> AuctionAsked[a].duration,
     replication |-> AuctionAsked[a].rep, status |-> "finalized", error |-> error,
     bids |-> [b \in {bid[2] : bid \in winners} |-> [sp |-> b, startEpoch |-> 1, price |-> 0]]]

ProposalEvent(bid, error) ==
    [topic |-> "auction-proposal-cid-delivered",
     content |-> [auction |-> bid[1], bidder |-> bid[2],
                  proposalCid |-> ProposalOf[bid], error |-> error]]

\* What processAuction, finalizeAuction and DeliverProposal publish.  A publish that
\* failed is an event that is never delivered.
Published(a, saved, asked, agreed, closing) ==
    {[topic |-> "auction-started", content |-> [auction |-> Summary(a)]],
     [topic |-> "auction-closed", content |-> closing]}
    \union {[topic |-> "auction-bid-received", content |-> BidContent(bid)] : bid \in saved}
    \union {[topic |-> "auction-winner-selected", content |-> BidContent(bid)] : bid \in asked}
    \union {[topic |-> "auction-winner-acked", content |-> BidContent(bid)] : bid \in agreed}
    \union {ProposalEvent(p[1], p[2]) : p \in agreed \X {"", "bidder returned error"}}

\* The tables after an auction in which the bidders of saved bid and winners won.
Closed(a, saved, winners, error) ==
    [auctions |-> [x \in {a} |-> [AuctionColumns(AuctionAsked[a]) EXCEPT
                                     !.status = "finalized", !.error = error]],
     bids |-> [bid \in saved |-> [BidColumns(bid) EXCEPT !.won = bid \in winners]],
     providers |-> <<>>, events |-> {}]

NoRates == [failure |-> <<>>, onChain |-> <<>>, winning |-> <<>>]

\* The bidders in agreed accepted to win.  If these are too few every bidder was
\* asked, the auction failed and there are no winners.
DeliveryInit ==
    /\ followed \in {"auctioneerd", "apid"}
    /\ \E a \in AuctionIds :
         LET saved == {bid \in Bids : bid[1] = a}
         IN  \E agreed \in SUBSET saved :
                LET enough == Cardinality(agreed) = AuctionAsked[a].rep
                    error == IF enough THEN "" ELSE "insufficient bids"
                    winners == IF enough THEN agreed ELSE {}
                    asked == IF enough THEN agreed ELSE saved
                IN  /\ Cardinality(agreed) <= AuctionAsked[a].rep
                    /\ db = Closed(a, saved, winners, error)
                    /\ events = IF followed = "auctioneerd" THEN {}
                                ELSE Published(a, saved, asked, agreed,
                                               ToClosedAuction(a, winners, error))
    /\ accepted = {} /\ outcomes = {} /\ acked = {} /\ repeats = 0
    /\ handler = [h \in Handlers |-> Idle]
    /\ received = {} /\ lost = {}
    /\ rates = NoRates
    /\ faults = 0
    /\ ApiInit

--------------------------------------------------------------------------------
(* dealerd: a provider accepts a proposal, and later the deal is confirmed or    *)
(* fails; a deal may also fail at once.                                          *)

DealProposalAccepted(bid) ==
    /\ bid \in DOMAIN db.bids /\ db.bids[bid].won
    /\ bid \notin accepted
    /\ \A o \in outcomes : o.bid # bid
    /\ accepted' = accepted \union {bid}
    /\ UNCHANGED <<db, outcomes, acked, repeats, handler, received, lost, rates, events,
                   faults, apiVars>>

DealFinalized(bid, error) ==
    /\ bid \in DOMAIN db.bids /\ db.bids[bid].won
    /\ error = "" => bid \in accepted
    /\ \A o \in outcomes : o.bid # bid
    /\ outcomes' = outcomes \union {[bid |-> bid, error |-> error]}
    /\ UNCHANGED <<db, accepted, acked, repeats, handler, received, lost, rates, events,
                   faults, apiVars>>

\* A message is delivered until it is acked, and sometimes once more.
Redelivered(message) ==
    IF message \in acked THEN repeats < MaxRepeats /\ repeats' = repeats + 1
    ELSE repeats' = repeats

--------------------------------------------------------------------------------
(* Proposals. *)

\* The identifier is already stored: ProposalCid.Defined() in DeliverProposal,
\* DealUID != "" in DeliverBoostProposal.
AlreadyDelivered(proposal, b) ==
    IF proposal[1] = "uuid" THEN b.dealUID # Absent ELSE b.proposalCid # Absent

\* DeliverProposal and DeliverBoostProposal up to PublishProposal.
StartDelivery(h, bid) ==
    /\ handler[h] = Idle
    /\ bid \in accepted /\ Redelivered(bid)
    /\ LET b == GetFinalizedAuctionBid(db, bid)
       IN  /\ b # Absent
           /\ IF AlreadyDelivered(ProposalOf[bid], b[1])
              THEN acked' = acked \union {bid} /\ handler' = handler
              ELSE /\ handler' = [handler EXCEPT ![h] = [step |-> "publishing", bid |-> bid]]
                   /\ acked' = acked
    /\ UNCHANGED <<db, accepted, outcomes, received, lost, rates, events, faults, apiVars>>

\* Mutant: an answer that says the bidder failed is an answer.
PublishProposalLenient(h) ==
    /\ handler[h].step = "publishing"
    /\ LET bid == handler[h].bid
       IN  /\ handler' = [handler EXCEPT ![h] = [step |-> "saving", bid |-> bid, error |-> ""]]
           /\ \/ received' = received \union {bid} /\ NoFault
              \/ received' = received /\ Fault
    /\ UNCHANGED <<db, accepted, outcomes, acked, repeats, lost, rates, events, apiVars>>

\* PublishProposal: the bidder answers; answers with an error, or the publish fails;
\* or does not answer in NotifyTimeout, which is reported as the err of the publish,
\* nil.
PublishProposal(h) ==
    /\ handler[h].step = "publishing"
    /\ LET bid == handler[h].bid
           ends(error) == handler' = [handler EXCEPT ![h] =
                             [step |-> "saving", bid |-> bid, error |-> error]]
       IN  \/ /\ received' = received \union {bid} /\ lost' = lost
              /\ ends("") /\ NoFault
           \/ /\ UNCHANGED <<received, lost>>
              /\ ends("bidder returned error") /\ Fault
           \/ /\ received' \in {received, received \union {bid}}
              /\ lost' = lost \union {bid}
              /\ ends("") /\ Fault
    /\ UNCHANGED <<db, accepted, outcomes, acked, repeats, rates, events, apiVars>>

SetProposalCidDelivered(bid) == UpdateProposalCid(db, bid, Text(ProposalOf[bid]))

SetProposalCidDeliveryError(bid, error) == UpdateProposalCidDeliveryError(db, bid, error)

\* The end of DeliverProposal and DeliverBoostProposal.  A write that fails is
\* logged; only the former publishes an event.
EndDelivery(h) ==
    /\ handler[h].step = "saving"
    /\ LET bid == handler[h].bid
           error == handler[h].error
       IN  /\ \/ /\ db' = IF error = "" THEN SetProposalCidDelivered(bid)
                          ELSE SetProposalCidDeliveryError(bid, error)
                 /\ NoFault
              \/ db' = db /\ Fault
           /\ events' = IF ProposalOf[bid][1] = "cid" THEN events \union {ProposalEvent(bid, error)}
                       ELSE events
           /\ acked' = IF error = "" THEN acked \union {bid} ELSE acked
    /\ handler' = [handler EXCEPT ![h] = Idle]
    /\ UNCHANGED <<accepted, outcomes, repeats, received, lost, rates, apiVars>>

\* The process stops.
Crash ==
    /\ \E h \in Handlers : handler[h] # Idle
    /\ Fault
    /\ handler' = [h \in Handlers |-> Idle]
    /\ rates' = NoRates
    /\ UNCHANGED <<db, accepted, outcomes, acked, repeats, received, lost, events, apiVars>>

--------------------------------------------------------------------------------
(* Outcomes, bidbots and rates. *)

MarkDealAsFailed(bid) == UpdateDealFailedAt(db, bid)

MarkDealAsConfirmed(bid) == UpdateDealConfirmedAt(db, bid, OnChainSeconds[bid[2]])

\* OnFinalizedDeal.
MarkFinalizedDeal(o) ==
    /\ o \in outcomes /\ Redelivered(<<o.bid, "finalized">>)
    /\ db' = IF o.error # "" THEN MarkDealAsFailed(o.bid) ELSE MarkDealAsConfirmed(o.bid)
    /\ acked' = acked \union {<<o.bid, "finalized">>}
    /\ UNCHANGED <<accepted, outcomes, handler, received, lost, rates, events, faults,
                   apiVars>>

HandleBidbotEvents(e) ==
    /\ db' = CASE e.type = "startup"   -> CreateOrUpdateStorageProvider(db, e.sp, e.version)
               [] e.type = "unhealthy" -> SetStorageProviderUnhealthy(db, e.sp)
               [] OTHER                -> SaveBidEvent(db, e.type, e.bid, e.attempts, e.error)
    /\ UNCHANGED <<accepted, outcomes, acked, repeats, handler, received, lost, rates,
                   events, faults, apiVars>>

\* A query that fails leaves the rates it would have replaced.
RefreshProviderRates ==
    /\ LET read == [failure |-> GetProviderFailureRates(db),
                    onChain |-> GetProviderOnChainEpoches(db),
                    winning |-> GetProviderWinningRates(db)]
       IN  \/ rates' = read /\ NoFault
           \/ /\ \E kept \in DOMAIN rates : rates' = [read EXCEPT ![kept] = rates[kept]]
              /\ Fault
    /\ UNCHANGED <<db, accepted, outcomes, acked, repeats, handler, received, lost, events,
                   apiVars>>

--------------------------------------------------------------------------------
\* The bytes of an event's message, and what apid's listener is given.
TellApid(event) ==
    LET m == ToMessage(event.topic, event.content, "op")[1]
    IN  \E heard \in {ToListener(event.topic, m)} :
           /\ Tell(event, heard[1])
           /\ UNCHANGED auctioneerVars

Auctioneerd ==
    \/ \E bid \in Bids : \/ DealProposalAccepted(bid)
                         \/ \E error \in {"", "failed"} : DealFinalized(bid, error)
    \/ \E h \in Handlers : \/ \E bid \in Bids : StartDelivery(h, bid)
                            \/ PublishProposal(h) \/ EndDelivery(h)
    \/ Crash
    \/ \E o \in outcomes : MarkFinalizedDeal(o)
    \/ \E e \in BidbotEvents : HandleBidbotEvents(e)
    \/ RefreshProviderRates

DeliveryNext ==
    \/ followed = "auctioneerd" /\ followed' = followed /\ Auctioneerd
    \/ followed = "apid" /\ \E event \in events : TellApid(event)

\* Pub/Sub delivers a message until it is acked, and handlers go on.
DeliveryFairness ==
    /\ \A bid \in Bids :
          WF_vars(/\ bid \notin acked /\ followed' = followed
                  /\ \E h \in Handlers : StartDelivery(h, bid))
    /\ \A h \in Handlers : WF_vars(followed' = followed /\ (PublishProposal(h) \/ EndDelivery(h)))

DeliverySpec == DeliveryInit /\ [][DeliveryNext]_vars /\ DeliveryFairness

--------------------------------------------------------------------------------
(* Properties. *)

\* What apid shows of an auction does not depend on the order, the repetition or
\* the loss of other events: once an event was handled, the auction or the bid is
\* there, won or acked if the event said so (OnAuctionWinnerSelected, ..).
ToldIsShown ==
    \A e \in told :
        LET c == e.content
            bidRow == <<c.auction.id, Text(c.bid.bidder)>>
        IN  CASE e.topic = "auction-started" -> c.auction.id \in DOMAIN api.auctions
              [] e.topic = "auction-bid-received" -> bidRow \in DOMAIN api.bids
              [] e.topic = "auction-winner-selected" ->
                    bidRow \in DOMAIN api.bids /\ api.bids[bidRow].won
              [] e.topic = "auction-winner-acked" ->
                    bidRow \in DOMAIN api.bids /\ api.bids[bidRow].acked
              [] OTHER -> TRUE

\* A storage provider is held to be unreliable (refreshProviderRates) only for a
\* deal that dealerd reported as failed, whenever the rates were read.
NotBlamed ==
    \A p \in DOMAIN rates.failure :
        rates.failure[p] > 0 => \E o \in outcomes : o.bid[2] = p /\ o.error # ""

\* Every proposal that a provider accepted reaches the bidder, errors of the bidder,
\* of the database and restarts included, unless an answer did not come in time.
ProposalReceived ==
    \A bid \in Bids : bid \in accepted ~> bid \in received \/ bid \in lost

\* "This may be called multiple times by the broker in the event delivery fails."
\* (DeliverProposal): a proposal is recorded as delivered only if it was.
DeliveredIsReceived ==
    \A bid \in DOMAIN db.bids : db.bids[bid].delivered => bid \in received

================================================================================
