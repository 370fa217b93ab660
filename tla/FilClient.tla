------------------------------- MODULE FilClient -------------------------------
(***************************************************************************)
(* The Filecoin client of dealerd (cmd/dealerd/dealer/filclient): the      *)
(* proposal it makes of an auction deal, what becomes of the provider's    *)
(* answer, and how it finds the deal on chain.                             *)
(*                                                                         *)
(* Storage providers and the chain are external: a provider supports some  *)
(* of the two deal protocols and accepts a proposal, rejects it or does    *)
(* not answer; a publish message has deals of several clients.             *)
(***************************************************************************)
EXTENDS Naturals, FiniteSetsExt, Convert

CONSTANTS
    PubKey,                  \* address of the broker's own wallet
    AllowUnverifiedDeals,
    MaxVerifiedPrice,        \* prices per epoch
    MaxUnverifiedPrice

ASSUME FilClientAssumption ==
    /\ AllowUnverifiedDeals \in BOOLEAN
    /\ {MaxVerifiedPrice, MaxUnverifiedPrice} \subseteq Nat

--------------------------------------------------------------------------------
(* The network. *)

\* What the network lets a call do: whether the Filecoin API, the remote wallet and
\* the provider can be reached, the protocols the provider supports, whether the
\* CAR file's server tells its size, and the provider's answer.
Networks ==
    [api : BOOLEAN, wallet : BOOLEAN, provider : BOOLEAN,
     supports : SUBSET {"v110", "v120"}, sized : BOOLEAN,
     answer : {"none", "rejected", "accepted"}]

ConnectToRemoteWallet(rw, net) == Parses(rw.peer) /\ net.wallet

\* The API tells the provider's peer.
ConnectToStorageProvider(net) == net.api /\ net.provider

StreamToStorageProvider(net, protocol) ==
    ConnectToStorageProvider(net) /\ protocol \in net.supports

\* v1.2.0 is preferred; "none" is an error.
DealProtocolForStorageProvider(net) ==
    IF ~ConnectToStorageProvider(net) \/ net.supports = {} THEN "none"
    ELSE IF "v120" \in net.supports THEN "v120" ELSE "v110"

--------------------------------------------------------------------------------
(* Proposals. *)

GiB == 2^30

ValidateProposal(p) ==
    IF p.verified THEN p.price <= MaxVerifiedPrice
    ELSE AllowUnverifiedDeals /\ p.price <= MaxUnverifiedPrice

\* The client is the wallet that signs.
DealProposal(ad, aud, rw) ==
    [pieceCid |-> ad.pieceCid, pieceSize |-> ad.pieceSize, verified |-> aud.verified,
     client |-> IF rw = Absent THEN PubKey ELSE Parse(rw[1].addr),
     provider |-> Parse(aud.sp), root |-> ad.payloadCid,
     start |-> aud.start, end |-> aud.start + ad.duration,
     price |-> (ad.pieceSize * aud.price) \div GiB, fast |-> aud.fast]

\* Absent is an error: without collateral bounds, for a price out of limits, or
\* without a signature.
CreateDealProposalV110(ad, aud, rw, net) ==
    IF /\ net.api /\ Parses(aud.sp)
       /\ rw # Absent => Parses(rw[1].addr) /\ ConnectToRemoteWallet(rw[1], net)
       /\ ValidateProposal(DealProposal(ad, aud, rw))
    THEN Present(DealProposal(ad, aud, rw))
    ELSE Absent

\* The provider's answer; "none" is an error.
SendProposalV110(net) ==
    IF StreamToStorageProvider(net, "v110") THEN net.answer ELSE "none"

SendProposalV120(net) ==
    IF StreamToStorageProvider(net, "v120") THEN net.answer ELSE "none"

CreateAndSendProposalV120(net) == IF net.sized THEN SendProposalV120(net) ELSE "none"

ProposalSent(net) ==
    LET protocol == DealProtocolForStorageProvider(net)
    IN  StreamToStorageProvider(net, protocol) /\ (protocol = "v120" => net.sized)

ExecFailed(retriable, err) == [id |-> Absent, retriable |-> retriable, err |-> err]

\* ExecuteAuctionDeal, given the proposal p it creates for deal d.  An error with v1.2.0 comes with retriable,
\* an error with v1.1.0 is retriable and not returned.
ExecuteProposal(p, d, net) ==
    LET protocol == DealProtocolForStorageProvider(net)
        answer == IF protocol = "v120" THEN CreateAndSendProposalV120(net)
                  ELSE SendProposalV110(net)
    IN  IF p = Absent THEN ExecFailed(TRUE, FALSE)
        ELSE IF protocol = "none" THEN ExecFailed(TRUE, TRUE)
        ELSE IF answer = "none" THEN ExecFailed(TRUE, protocol = "v120")
        ELSE IF answer = "rejected" THEN ExecFailed(FALSE, TRUE)
        ELSE [id |-> Text(<<IF protocol = "v120" THEN "uuid" ELSE "cid", d>>),
              retriable |-> FALSE, err |-> FALSE]

--------------------------------------------------------------------------------
(* The state of a deal. *)

SignDealStatusRequest(rw, net) == rw # Absent => ConnectToRemoteWallet(rw[1], net)

CheckDealStatusV110(rw, net, published) ==
    IF SignDealStatusRequest(rw, net) /\ StreamToStorageProvider(net, "v110")
    THEN published ELSE Absent

\* The answer may also be an error.
CheckDealStatusV120(rw, net, published) ==
    IF /\ SignDealStatusRequest(rw, net) /\ StreamToStorageProvider(net, "v120")
       /\ net.answer # "rejected"
    THEN published ELSE Absent

\* The publish message, when the provider has published the deal and says so, by
\* the protocol the deal was made with.
CheckDealStatusWithStorageProvider(id, rw, net, published) ==
    IF Parse(id)[1] = "cid" THEN CheckDealStatusV110(rw, net, published)
    ELSE CheckDealStatusV120(rw, net, published)

\* Mutant: any deal with the provider is taken.
ResolveDealIDOfProvider(msg, sp, pieceCid, startEpoch) ==
    msg.ids[Min({i \in DOMAIN msg.deals : msg.deals[i].provider = Parse(sp)})]

\* 0 is an error.
ResolveDealIDFromMessage(msg, sp, pieceCid, startEpoch) ==
    LET same == {i \in DOMAIN msg.deals : /\ msg.deals[i].provider = Parse(sp)
                                          /\ msg.deals[i].pieceCid = pieceCid
                                          /\ msg.deals[i].start = startEpoch}
    IN  IF same = {} \/ msg.exitCode # 0 \/ Len(msg.ids) # Len(msg.deals) THEN 0
        ELSE msg.ids[Min(same)]

\* CheckChainDeal, given the state and the end epoch of the deal on chain.
ChainDeal(state, end) ==
    [active |-> state = "active",
     expiration |-> IF state = "active" THEN end ELSE 0,
     err |-> state = "slashed"]

================================================================================
