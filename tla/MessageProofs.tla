----------------------------- MODULE MessageProofs -----------------------------
(***************************************************************************)
(* The message broker (PubSub), for any daemons, contents and number of    *)
(* messages: no message is lost, and a listener is called with what the    *)
(* publisher was given.  The latter is proved in two parts: what comes of  *)
(* a content on the way to a message and back, topic by topic (EveryTrip), *)
(* and that the message a handler runs on is one that was made of the      *)
(* content that was published under its id (SentInv).                      *)
(*                                                                         *)
(* What two daemons make of messages (Delivery), for any auctions, bidders *)
(* and events: apid shows what it was told (ShownInv), and auctioneerd     *)
(* holds only failed deals against a provider (BlameInv).                  *)
(***************************************************************************)
EXTENDS PubSub, Delivery, FiniteSetTheorems, TLAPS

\* published is a sequence, of whatever elements.
PublishedOK == published \in Seq({published[i] : i \in IDs})

Inv == PublishedOK /\ NothingLost

--------------------------------------------------------------------------------
\* Most steps neither publish nor touch what has been published and heard.
LEMMA Undisturbed ==
    ASSUME Inv, UNCHANGED published, backlog \subseteq backlog', heard \subseteq heard'
    PROVE  Inv'
<1>1. IDs' = IDs
  BY DEF IDs
<1>2. PublishedOK'
  BY <1>1 DEF Inv, PublishedOK
<1>3. ASSUME NEW id \in IDs, NEW s \in published[id].subs
      PROVE  \/ [sub |-> s, id |-> id] \in backlog'
             \/ \E h \in heard' : h.sub = s /\ h.id = id
  <2>1. CASE [sub |-> s, id |-> id] \in backlog
    BY <2>1
  <2>2. CASE \E h \in heard : h.sub = s /\ h.id = id
    BY <2>2
  <2> QED
    BY <2>1, <2>2 DEF Inv, NothingLost
<1> QED
  BY <1>1, <1>2, <1>3 DEF Inv, NothingLost

\* A message enters the backlog of every subscription there is.
LEMMA PublishKeeps ==
    ASSUME Inv, Publish
    PROVE  Inv'
<1> DEFINE n == Len(published)
           m == [content |-> asked[1], subs |-> subs,
                 bytes |-> ToMessage(topic, asked[1], "op")[1]]
           S == {published[i] : i \in IDs} \union {m}
<1>1. /\ published' = Append(published, m)
      /\ backlog' = backlog \union [sub : subs, id : {n + 1}]
      /\ heard' = heard
  BY DEF Publish
<1>2. published \in Seq(S) /\ m \in S
  <2>1. {published[i] : i \in IDs} \subseteq S
    OBVIOUS
  <2> QED
    BY <2>1 DEF Inv, PublishedOK
<1>3. m.subs = subs
  OBVIOUS
<1> HIDE DEF m, S
<1>4. /\ n \in Nat
      /\ published' \in Seq(S)
      /\ Len(published') = n + 1
      /\ published'[n + 1] = m
      /\ \A i \in 1..n : published'[i] = published[i]
  BY <1>1, <1>2
<1>5. IDs' = IDs \union {n + 1}
  BY <1>4 DEF IDs
<1>6. PublishedOK'
  BY <1>4 DEF PublishedOK, IDs
<1>7. ASSUME NEW id \in IDs', NEW s \in published'[id].subs
      PROVE  \/ [sub |-> s, id |-> id] \in backlog'
             \/ \E h \in heard' : h.sub = s /\ h.id = id
  <2>1. CASE id = n + 1
    BY <1>1, <1>3, <1>4, <2>1
  <2>2. CASE id \in IDs
    <3>1. published'[id] = published[id]
      BY <1>4, <2>2 DEF IDs
    <3> QED
      BY <1>1, <2>2, <3>1 DEF Inv, NothingLost
  <2> QED
    BY <1>5, <2>1, <2>2
<1> QED
  BY <1>6, <1>7 DEF Inv, NothingLost

\* What leaves the backlog has been heard.
LEMMA AckKeeps ==
    ASSUME Inv, NEW l \in leases, Ack(l)
    PROVE  Inv'
<1> DEFINE h0 == [sub |-> l.daemon[1], id |-> l.id, content |-> Received(l)[1]]
<1>1. /\ published' = published
      /\ heard' = heard \union {h0}
      /\ backlog \ {[sub |-> l.daemon[1], id |-> l.id]} \subseteq backlog'
  BY DEF Ack, Acked
<1>2. h0.sub = l.daemon[1] /\ h0.id = l.id
  OBVIOUS
<1> HIDE DEF h0
<1>3. IDs' = IDs /\ PublishedOK'
  BY <1>1 DEF IDs, Inv, PublishedOK
<1>4. ASSUME NEW id \in IDs, NEW s \in published[id].subs
      PROVE  \/ [sub |-> s, id |-> id] \in backlog'
             \/ \E h \in heard' : h.sub = s /\ h.id = id
  <2>1. CASE s = l.daemon[1] /\ id = l.id
    BY <1>1, <1>2, <2>1
  <2>2. CASE ~(s = l.daemon[1] /\ id = l.id)
    <3>1. [sub |-> s, id |-> id] # [sub |-> l.daemon[1], id |-> l.id]
      BY <2>2
    <3> QED
      BY <1>1, <3>1 DEF Inv, NothingLost
  <2> QED
    BY <2>1, <2>2
<1> QED
  BY <1>1, <1>3, <1>4 DEF Inv, NothingLost

--------------------------------------------------------------------------------
\* A subscription never gives a message up before a listener of it returned no error
\* (the handler of RegisterTopicHandler acks only then), for every set of daemons and
\* every number of messages, stops and late acks.
THEOREM NothingEverLost == PubSubSpec => []NothingLost
<1>1. PubSubInit => Inv
  <2> SUFFICES ASSUME PubSubInit PROVE Inv
    OBVIOUS
  <2>1. published = <<>> /\ IDs = {}
    BY DEF PubSubInit, IDs
  <2> QED
    BY <2>1 DEF Inv, PublishedOK, NothingLost
<1>2. Inv /\ [PubSubNext]_pubsubVars => Inv'
  <2> SUFFICES ASSUME Inv, [PubSubNext]_pubsubVars PROVE Inv'
    OBVIOUS
  <2>1. CASE UNCHANGED pubsubVars
    BY <2>1, Undisturbed DEF pubsubVars
  <2>2. ASSUME NEW d \in Daemons \union {Publisher}, DaemonStep(d)
        PROVE  Inv'
    BY <2>2, Undisturbed
       DEF DaemonStep, TopicExists, CreateTopic, Start, LookForSubscription,
           CreateSubscription
  <2>3. ASSUME NEW content \in Contents[topic], PublishMsg(content)
        PROVE  Inv'
    BY <2>3, Undisturbed DEF PublishMsg
  <2>4. CASE Publish
    BY <2>4, PublishKeeps
  <2>5. CASE PublishFails
    BY <2>5, Undisturbed DEF PublishFails
  <2>6. ASSUME NEW d \in Listeners, NEW id \in IDs, Deliver(d, id)
        PROVE  Inv'
    BY <2>6, Undisturbed DEF Deliver
  <2>7. ASSUME NEW l \in leases, DeadlinePasses(l) \/ Nack(l) \/ Ack(l)
        PROVE  Inv'
    <3>1. CASE DeadlinePasses(l)
      BY <3>1, Undisturbed DEF DeadlinePasses
    <3>2. CASE Nack(l)
      BY <3>2, Undisturbed DEF Nack
    <3>3. CASE Ack(l)
      BY <3>3, AckKeeps
    <3> QED
      BY <2>7, <3>1, <3>2, <3>3
  <2>8. ASSUME NEW d \in Listeners, Stop(d)
        PROVE  Inv'
    BY <2>8, Undisturbed DEF Stop
  <2> QED
    BY <2>1, <2>2, <2>3, <2>4, <2>5, <2>6, <2>7, <2>8 DEF PubSubNext
<1>3. Inv => NothingLost
  BY DEF Inv
<1> QED
  BY <1>1, <1>2, <1>3, PTL DEF PubSubSpec

--------------------------------------------------------------------------------
(* What a listener is called with, topic by topic: m is the message that is made of  *)
(* content v, r what the handler makes of m.                                         *)

\* A cid is the same after its bytes.
LEMMA CidTrip ==
  ASSUME NEW c, BytesOf(c) # Absent
  PROVE  Parse(BytesOf(c)) = c
BY DEF BytesOf, Bytes, Parse

\* So is a value after its text, and a list of them.
LEMMA TextTrip ==
  ASSUME NEW x
  PROVE  Parse(Text(x)) = x
BY DEF Text, Parse

\* The same of a list of texts.
LEMMA ListTrip ==
  ASSUME NEW s, IsList(s)
  PROVE  ParseAll(TextAll(s)) = s
<1>1. TextAll(s) = [i \in DOMAIN s |-> Text(s[i])]
  BY Zenon DEF TextAll
<1>2. ParseAll(TextAll(s)) = [i \in DOMAIN s |-> Parse(Text(s[i]))]
  BY Zenon, <1>1 DEF ParseAll
<1>3. \A x : Parse(Text(x)) = x
  BY TextTrip
<1> QED
  BY Zenon, <1>2, <1>3 DEF IsList

\* What is there.
LEMMA PresentIs ==
  ASSUME NEW x
  PROVE  /\ Present(x) # Absent
         /\ \A y : Present(x) = Present(y) => x = y
BY DEF Present, Absent

\* Of a field that is written twice, only the last counts.
LEMMA WrittenAgain ==
  ASSUME NEW fields, NEW v, HasFields(v, fields), NEW a \in fields, NEW x, NEW z, NEW m,
         m = [v EXCEPT ![a] = x]
  PROVE  [m EXCEPT ![a] = z] = [v EXCEPT ![a] = z]
<1>1. PICK w, r : w = [v EXCEPT ![a] = z] /\ r = [m EXCEPT ![a] = z]
  BY Zenon
<1>2. w = [f \in fields |-> w[f]]
  BY <1>1 DEF HasFields
<1>3. r = [f \in fields |-> r[f]]
  BY <1>1 DEF HasFields
<1>4. ASSUME NEW f \in fields PROVE r[f] = w[f]
  <2>1. CASE f = a
    BY <1>1, <2>1 DEF HasFields
  <2>2. CASE f # a
    BY <1>1, <2>2 DEF HasFields
  <2> QED
    BY Zenon, <2>1, <2>2
<1> QED
  BY Zenon, <1>1, <1>2, <1>3, <1>4

\* Writing a field adds none.
LEMMA StillFields ==
  ASSUME NEW fields, NEW v, HasFields(v, fields), NEW a \in fields, NEW x
  PROVE  HasFields([v EXCEPT ![a] = x], fields)
BY Zenon DEF HasFields

\* packerd to brokerd and piecerd: the url of the CAR file is parsed.
LEMMA NewBatchCreatedTrip ==
  ASSUME NEW v, IsContent("new-batch-created", v), NEW m, NEW r,
         PublishMsgNewBatchCreated(v, "op") = Present(m), OnNewBatchCreatedTopic(m) = Present(r)
  PROVE  r = [v EXCEPT !.carURL = Parse(v.carURL)]
<1>1. v = [f \in {"id", "batchCid", "size", "requests", "origin", "manifest", "carURL"} |->
              v[f]]
  BY DEF IsContent, HasFields
<1>2. m = [v EXCEPT !.batchCid = BytesOf(v.batchCid)]
  BY DEF PublishMsgNewBatchCreated, IfValid, Present, Absent
<1>3. r = [m EXCEPT !.batchCid = Parse(m.batchCid), !.carURL = Parse(m.carURL)]
        /\ m.batchCid # Absent
  BY DEF OnNewBatchCreatedTopic, IfValid, Present, Absent, Casts
<1>4. m.batchCid = BytesOf(v.batchCid) /\ m.carURL = v.carURL
  BY <1>1, <1>2
<1>5. Parse(m.batchCid) = v.batchCid
  BY Zenon, <1>3, <1>4, CidTrip
<1>6. PICK fields : HasFields(v, fields) /\ "batchCid" \in fields
  BY <1>1 DEF HasFields
<1>7. PICK k, y : k = [m EXCEPT !["batchCid"] = y] /\ y = v["batchCid"]
  BY Zenon
<1>8. m = [v EXCEPT !["batchCid"] = BytesOf(v.batchCid)]
  BY Zenon, <1>2
<1>9. [m EXCEPT !["batchCid"] = y] = [v EXCEPT !["batchCid"] = y]
  BY Zenon, <1>6, <1>8, WrittenAgain
<1>10. [v EXCEPT !["batchCid"] = y] = v
  BY <1>6, <1>7 DEF HasFields
<1>11. r = [k EXCEPT !.carURL = Parse(v.carURL)]
  BY Zenon, <1>3, <1>4, <1>5, <1>7
<1> QED
  BY Zenon, <1>7, <1>9, <1>10, <1>11

\* piecerd to brokerd.
LEMMA NewBatchPreparedTrip ==
  ASSUME NEW v, IsContent("new-batch-prepared", v), NEW m, NEW r,
         PublishMsgNewBatchPrepared(v, "op") = Present(m),
         OnNewBatchPreparedTopic(m) = Present(r)
  PROVE  r = v
<1>1. v = [f \in {"id", "pieceCid", "pieceSize"} |-> v[f]]
  BY DEF IsContent, HasFields
<1>2. m = [v EXCEPT !.pieceCid = BytesOf(v.pieceCid)]
  BY Zenon, PresentIs DEF PublishMsgNewBatchPrepared, IfValid
<1>3. r = [m EXCEPT !.pieceCid = Parse(m.pieceCid)] /\ m.pieceCid # Absent
  BY Zenon, PresentIs DEF OnNewBatchPreparedTopic, IfValid, Casts
<1>4. m.pieceCid = BytesOf(v.pieceCid)
  BY <1>1, <1>2
<1>5. Parse(m.pieceCid) = v.pieceCid
  BY Zenon, <1>3, <1>4, CidTrip
<1>6. PICK fields : HasFields(v, fields) /\ "pieceCid" \in fields
  BY <1>1 DEF HasFields
<1>7. PICK y : r = [m EXCEPT !["pieceCid"] = y] /\ y = v["pieceCid"]
  BY Zenon, <1>3, <1>5
<1>8. m = [v EXCEPT !["pieceCid"] = BytesOf(v.pieceCid)]
  BY Zenon, <1>2
<1>9. [m EXCEPT !["pieceCid"] = y] = [v EXCEPT !["pieceCid"] = y]
  BY Zenon, <1>6, <1>8, WrittenAgain
<1>10. [v EXCEPT !["pieceCid"] = y] = v
  BY <1>6, <1>7 DEF HasFields
<1> QED
  BY Zenon, <1>7, <1>9, <1>10

\* dealerd to brokerd and auctioneerd.
LEMMA FinalizedDealTrip ==
  ASSUME NEW v, NEW m, NEW r,
         PublishMsgFinalizedDeal(v, "op") = Present(m), OnFinalizedDealTopic(m) = Present(r)
  PROVE  r = v
<1>1. m = [op |-> "op", deal |-> v]
  BY DEF PublishMsgFinalizedDeal, Present
<1>2. m.deal = v
  BY <1>1
<1>3. r = m.deal
  BY Zenon, PresentIs DEF OnFinalizedDealTopic, IfValid
<1> QED
  BY <1>2, <1>3

\* dealerd to auctioneerd, which is not told the batch and the provider.
LEMMA DealProposalAcceptedTrip ==
  ASSUME NEW v, IsContent("deal-proposal-accepted", v), NEW m, NEW r,
         PublishMsgDealProposalAccepted(v, "op") = Present(m),
         OnDealProposalAcceptedTopic(m) = Present(r)
  PROVE  r = [auction |-> v.auction, bid |-> v.bid, proposalCid |-> v.proposalCid]
<1>1. v = [f \in {"batch", "auction", "bid", "sp", "proposalCid"} |-> v[f]]
  BY DEF IsContent, HasFields
<1>2. m = [v EXCEPT !.proposalCid = BytesOf(v.proposalCid)]
  BY DEF PublishMsgDealProposalAccepted, Present
<1>3. /\ r = [auction |-> m.auction, bid |-> m.bid, proposalCid |-> Parse(m.proposalCid)]
      /\ m.proposalCid # Absent
  BY DEF OnDealProposalAcceptedTopic, IfValid, Present, Absent, Casts
<1>4. m.proposalCid = BytesOf(v.proposalCid) /\ m.auction = v.auction /\ m.bid = v.bid
  BY <1>1, <1>2
<1>5. Parse(m.proposalCid) = v.proposalCid
  BY Zenon, <1>3, <1>4, CidTrip
<1> QED
  BY Zenon, <1>3, <1>4, <1>5

\* The same of a proposal made through Boost.
LEMMA BoostDealProposalAcceptedTrip ==
  ASSUME NEW v, NEW m, NEW r,
         PublishMsgBoostDealProposalAccepted(v, "op") = Present(m),
         OnBoostDealProposalAcceptedTopic(m) = Present(r)
  PROVE  r = [auction |-> v.auction, bid |-> v.bid, dealUID |-> v.dealUID]
<1>1. m = v
  BY DEF PublishMsgBoostDealProposalAccepted, Present
<1>2. r = [auction |-> m.auction, bid |-> m.bid, dealUID |-> m.dealUID]
  BY DEF OnBoostDealProposalAcceptedTopic, IfValid, Present, Absent
<1> QED
  BY <1>1, <1>2

\* auctioneerd to apid, which keeps the texts of the bidder and the cid.
LEMMA ProposalCidDeliveredTrip ==
  ASSUME NEW v, IsContent("auction-proposal-cid-delivered", v), NEW m, NEW r,
         PublishMsgAuctionProposalCidDelivered(v, "op") = Present(m),
         OnAuctionProposalCidDeliveredTopic(m) = Present(r)
  PROVE  r = [v EXCEPT !.bidder = Text(v.bidder), !.proposalCid = Text(v.proposalCid)]
<1>1. v = [f \in {"auction", "bidder", "bid", "proposalCid", "error"} |-> v[f]]
  BY DEF IsContent, HasFields
<1>2. m = [v EXCEPT !.bidder = Text(v.bidder), !.proposalCid = BytesOf(v.proposalCid)]
  BY DEF PublishMsgAuctionProposalCidDelivered, Present
<1>3. r = [m EXCEPT !.proposalCid = Text(Parse(m.proposalCid))] /\ m.proposalCid # Absent
  BY DEF OnAuctionProposalCidDeliveredTopic, IfValid, Present, Absent, Casts
<1>4. m.proposalCid = BytesOf(v.proposalCid)
  BY <1>1, <1>2
<1>5. Parse(m.proposalCid) = v.proposalCid
  BY Zenon, <1>3, <1>4, CidTrip
<1>6. PICK fields : HasFields(v, fields) /\ "bidder" \in fields /\ "proposalCid" \in fields
  BY <1>1 DEF HasFields
<1>7. PICK k : k = [v EXCEPT !["bidder"] = Text(v.bidder)]
  BY Zenon
<1>8. HasFields(k, fields)
  BY Zenon, <1>6, <1>7, StillFields
<1>9. m = [k EXCEPT !["proposalCid"] = BytesOf(v.proposalCid)]
  BY Zenon, <1>2, <1>7
<1>10. [m EXCEPT !["proposalCid"] = Text(v.proposalCid)]
          = [k EXCEPT !["proposalCid"] = Text(v.proposalCid)]
  BY Zenon, <1>6, <1>8, <1>9, WrittenAgain
<1>11. r = [m EXCEPT !["proposalCid"] = Text(v.proposalCid)]
  BY Zenon, <1>3, <1>5
<1> QED
  BY Zenon, <1>7, <1>10, <1>11

\* brokerd to packerd, element by element.
LEMMA ReadyToBatchTrip ==
  ASSUME NEW v, IsContent("ready-to-batch", v), NEW m, NEW r,
         PublishMsgReadyToBatch(v, "op") = Present(m), OnReadyToBatchTopic(m) = Present(r)
  PROVE  r = v
<1>1. /\ v = [f \in {"dataCids"} |-> v[f]]
      /\ IsList(v.dataCids)
      /\ \A d \in Elements(v.dataCids) : HasFields(d, {"id", "cid", "origin"})
  BY DEF IsContent, HasFields
<1>2. PICK s : s = v.dataCids
  BY Zenon
<1>3. PICK q : q = [i \in DOMAIN s |-> [s[i] EXCEPT !["cid"] = BytesOf(s[i].cid)]]
  BY Zenon
<1>4. m = [op |-> "op", dataCids |-> q]
  BY Zenon, <1>2, <1>3, PresentIs DEF PublishMsgReadyToBatch, IfValid
<1>5. m.dataCids = q
  BY <1>4
<1>6. /\ r = [dataCids |-> [i \in DOMAIN m.dataCids |->
                              [m.dataCids[i] EXCEPT !["cid"] = Parse(m.dataCids[i].cid)]]]
      /\ \A d \in Elements(m.dataCids) : Casts(d.cid)
  BY Zenon, PresentIs DEF OnReadyToBatchTopic, IfValid
<1>7. ASSUME NEW i \in DOMAIN s
      PROVE  [q[i] EXCEPT !["cid"] = Parse(q[i].cid)] = s[i]
  <2>1. HasFields(s[i], {"id", "cid", "origin"}) /\ "cid" \in {"id", "cid", "origin"}
    BY <1>1, <1>2 DEF Elements
  <2>2. q[i] = [s[i] EXCEPT !["cid"] = BytesOf(s[i].cid)]
    BY Zenon, <1>3
  <2>3. q[i].cid = BytesOf(s[i].cid)
    BY <2>1, <2>2 DEF HasFields
  <2>4. q[i].cid # Absent
    BY Zenon, <1>3, <1>5, <1>6 DEF Elements, Casts
  <2>5. PICK y : y = s[i]["cid"]
    BY Zenon
  <2>6. Parse(q[i].cid) = y
    BY Zenon, <2>3, <2>4, <2>5, CidTrip
  <2>7. [q[i] EXCEPT !["cid"] = y] = [s[i] EXCEPT !["cid"] = y]
    BY Zenon, <2>1, <2>2, WrittenAgain
  <2>8. [s[i] EXCEPT !["cid"] = y] = s[i]
    BY <2>1, <2>5 DEF HasFields
  <2> QED
    BY Zenon, <2>6, <2>7, <2>8
<1>8. DOMAIN q = DOMAIN s
  BY Zenon, <1>3
<1>9. [i \in DOMAIN q |-> [q[i] EXCEPT !["cid"] = Parse(q[i].cid)]] = s
  BY Zenon, <1>1, <1>2, <1>7, <1>8 DEF IsList
<1>10. r = [dataCids |-> s]
  BY Zenon, <1>5, <1>6, <1>9
<1>11. v = [dataCids |-> v.dataCids]
  BY <1>1
<1> QED
  BY Zenon, <1>2, <1>10, <1>11

\* The wallet of ready-to-create-deals.
WalletSent(w) == Present([peer |-> Text(w.peer), token |-> w.token, addr |-> Text(w.addr),
                          maddrs |-> TextAll(w.maddrs)])

WalletGot(n) == Present([peer |-> Parse(n.peer), token |-> n.token, addr |-> Parse(n.addr),
                         maddrs |-> ParseAll(n.maddrs)])

\* A remote wallet, if there is one.
LEMMA WalletTrip ==
  ASSUME NEW w, HasFields(w, {"peer", "token", "addr", "maddrs"}), IsList(w.maddrs)
  PROVE  WalletGot(WalletSent(w)[1]) = Present(w)
<1>1. PICK p, ms, a : p = Text(w.peer) /\ ms = TextAll(w.maddrs) /\ a = Text(w.addr)
  BY Zenon
<1>2. PICK n : n = [peer |-> p, token |-> w.token, addr |-> a, maddrs |-> ms]
  BY Zenon
<1>3. WalletSent(w) = <<n>>
  BY Zenon, <1>1, <1>2 DEF WalletSent, Present
<1>4. <<n>>[1] = n
  OBVIOUS
<1>5. n.peer = p /\ n.token = w.token /\ n.addr = a /\ n.maddrs = ms
  BY <1>2
<1>6. Parse(p) = w.peer /\ Parse(a) = w.addr
  BY Zenon, <1>1, TextTrip
<1>7. ParseAll(ms) = w.maddrs
  BY Zenon, <1>1, ListTrip
<1>8. w = [peer |-> w.peer, token |-> w.token, addr |-> w.addr, maddrs |-> w.maddrs]
  BY DEF HasFields
<1>9. WalletGot(n) = Present(w)
  BY Zenon, <1>5, <1>6, <1>7, <1>8 DEF WalletGot
<1> QED
  BY Zenon, <1>3, <1>4, <1>9

\* The sources of an auction.
LEMMA SourcesTrip ==
  ASSUME NEW s, HasFields(s, {"carURL", "carIPFS"}),
         s.carURL # Absent => s.carURL = Present(s.carURL[1]),
         s.carIPFS # Absent =>
            /\ s.carIPFS = Present(s.carIPFS[1])
            /\ HasFields(s.carIPFS[1], {"cid", "maddrs"})
            /\ IsList(s.carIPFS[1].maddrs)
  PROVE  SourcesFromPb(SourcesToPb(s)) = s
<1>1. PICK p : p = SourcesToPb(s)
  BY Zenon
<1> DEFINE url == IF s.carURL = Absent THEN Absent ELSE Present(Text(s.carURL[1]))
           ipfs == IF s.carIPFS = Absent THEN Absent
                   ELSE Present([cid    |-> Text(s.carIPFS[1].cid),
                                 maddrs |-> TextAll(s.carIPFS[1].maddrs)])
<1>2. p = [carURL |-> url, carIPFS |-> ipfs]
  BY Zenon, <1>1 DEF SourcesToPb
<1>3. p.carURL = url /\ p.carIPFS = ipfs
  <2> HIDE DEF url, ipfs
  <2> QED
    BY <1>2
<1>4. (IF p.carURL = Absent THEN Absent ELSE Present(Parse(p.carURL[1]))) = s.carURL
  <2>1. CASE s.carURL = Absent
    BY Zenon, <1>3, <2>1
  <2>2. CASE s.carURL # Absent
    <3>1. p.carURL = Present(Text(s.carURL[1])) /\ p.carURL # Absent
      BY Zenon, <1>3, <2>2, PresentIs
    <3>2. PICK t : t = Text(s.carURL[1])
      BY Zenon
    <3>3. Present(t)[1] = t
      BY DEF Present
    <3>4. Parse(t) = s.carURL[1]
      BY Zenon, <3>2, TextTrip
    <3> QED
      BY Zenon, <2>2, <3>1, <3>2, <3>3, <3>4
  <2> QED
    BY Zenon, <2>1, <2>2
<1>5. (IF p.carIPFS = Absent THEN Absent
       ELSE Present([cid    |-> Parse(p.carIPFS[1].cid),
                     maddrs |-> ParseAll(p.carIPFS[1].maddrs)])) = s.carIPFS
  <2>1. CASE s.carIPFS = Absent
    BY Zenon, <1>3, <2>1
  <2>2. CASE s.carIPFS # Absent
    <3>1. PICK w : w = s.carIPFS[1]
      BY Zenon
    <3>2. PICK t, ms : t = Text(w.cid) /\ ms = TextAll(w.maddrs)
      BY Zenon
    <3>3. PICK k : k = [cid |-> t, maddrs |-> ms]
      BY Zenon
    <3>4. p.carIPFS = Present(k) /\ p.carIPFS # Absent
      BY Zenon, <1>3, <2>2, <3>1, <3>2, <3>3, PresentIs
    <3>5. Present(k)[1] = k
      BY DEF Present
    <3>6. k.cid = t /\ k.maddrs = ms
      BY <3>3
    <3>7. Parse(t) = w.cid
      BY Zenon, <3>2, TextTrip
    <3>8. ParseAll(ms) = w.maddrs
      BY Zenon, <2>2, <3>1, <3>2, ListTrip
    <3>9. HasFields(w, {"cid", "maddrs"})
      BY Zenon, <2>2, <3>1
    <3>10. w = [cid |-> w.cid, maddrs |-> w.maddrs]
      BY <3>9 DEF HasFields
    <3> QED
      BY Zenon, <2>2, <3>1, <3>4, <3>5, <3>6, <3>7, <3>8, <3>10
  <2> QED
    BY Zenon, <2>1, <2>2
<1>6. s = [carURL |-> s.carURL, carIPFS |-> s.carIPFS]
  BY DEF HasFields
<1>7. SourcesFromPb(p) = [carURL |-> s.carURL, carIPFS |-> s.carIPFS]
  BY Zenon, <1>4, <1>5 DEF SourcesFromPb
<1> QED
  BY Zenon, <1>1, <1>6, <1>7

\* brokerd to auctioneerd, which keeps the texts of the providers.
LEMMA ReadyToAuctionTrip ==
  ASSUME NEW v, IsContent("ready-to-auction", v), NEW m, NEW r,
         PublishMsgReadyToAuction(v, "op") = Present(m), OnReadyToAuctionTopic(m) = Present(r)
  PROVE  r = [v EXCEPT !.providers = TextAll(v.providers)]
<1>1. HasFields(v, {"id", "batch", "payloadCid", "dealSize", "duration", "replication",
                    "verified", "excluded", "deadline", "sources", "client", "providers"})
  BY DEF IsContent
<1>2. SourcesFromPb(SourcesToPb(v.sources)) = v.sources
  <2>1. PICK s : s = v.sources
    BY Zenon
  <2>2. /\ HasFields(s, {"carURL", "carIPFS"})
        /\ s.carURL # Absent => s.carURL = Present(s.carURL[1])
        /\ s.carIPFS # Absent => /\ s.carIPFS = Present(s.carIPFS[1])
                                 /\ HasFields(s.carIPFS[1], {"cid", "maddrs"})
                                 /\ IsList(s.carIPFS[1].maddrs)
    BY <2>1 DEF IsContent
  <2> QED
    BY Zenon, <2>1, <2>2, SourcesTrip
<1>3. PICK p, x, t : p = BytesOf(v.payloadCid) /\ x = SourcesToPb(v.sources)
                     /\ t = TextAll(v.providers)
  BY Zenon
<1>4. m = [v EXCEPT !.payloadCid = p, !.sources = x, !.providers = t]
  BY Zenon, <1>3, PresentIs DEF PublishMsgReadyToAuction
<1>5. /\ r = [m EXCEPT !.payloadCid = Parse(m.payloadCid),
                       !.sources = SourcesFromPb(m.sources)]
      /\ m.payloadCid # Absent
  BY Zenon, PresentIs DEF OnReadyToAuctionTopic, IfValid, Casts
<1>6. m.payloadCid = p /\ m.sources = x
  BY <1>1, <1>4 DEF HasFields
<1>7. Parse(p) = v.payloadCid
  BY Zenon, <1>3, <1>5, <1>6, CidTrip
<1>8. r = [m EXCEPT !.payloadCid = v.payloadCid, !.sources = v.sources]
  BY Zenon, <1>2, <1>3, <1>5, <1>6, <1>7
<1>9. PICK fields : /\ HasFields(v, fields) /\ "payloadCid" \in fields
                    /\ "sources" \in fields /\ "providers" \in fields
  BY <1>1
<1>10. PICK w : w = [v EXCEPT !.providers = t]
  BY Zenon
<1>11. w = [f \in fields |-> w[f]] /\ r = [f \in fields |-> r[f]]
  BY Zenon, <1>4, <1>8, <1>9, <1>10 DEF HasFields
<1>12. ASSUME NEW f \in fields PROVE r[f] = w[f]
  <2>1. CASE f = "payloadCid"
    BY <1>4, <1>8, <1>9, <1>10, <2>1 DEF HasFields
  <2>2. CASE f = "sources"
    BY <1>4, <1>8, <1>9, <1>10, <2>2 DEF HasFields
  <2>3. CASE f = "providers"
    BY <1>4, <1>8, <1>9, <1>10, <2>3 DEF HasFields
  <2>4. CASE f \notin {"payloadCid", "sources", "providers"}
    <3>1. m[f] = v[f] /\ DOMAIN m = fields
      BY Zenon, <1>4, <1>9, <2>4 DEF HasFields
    <3>2. r[f] = m[f]
      BY Zenon, <1>8, <1>9, <2>4, <3>1
    <3>3. w[f] = v[f]
      BY <1>9, <1>10, <2>4 DEF HasFields
    <3> QED
      BY Zenon, <3>1, <3>2, <3>3
  <2> QED
    BY <2>1, <2>2, <2>3, <2>4
<1> QED
  BY Zenon, <1>3, <1>10, <1>11, <1>12

\* brokerd to dealerd.
LEMMA ReadyToCreateDealsTrip ==
  ASSUME NEW v, IsContent("ready-to-create-deals", v), NEW m, NEW r,
         PublishMsgReadyToCreateDeals(v, "op") = Present(m),
         OnReadyToCreateDealsTopic(m) = Present(r)
  PROVE  r = v
<1>1. HasFields(v, {"id", "batch", "payloadCid", "pieceCid", "pieceSize", "duration",
                    "carURL", "wallet", "proposals"})
  BY DEF IsContent
<1> DEFINE sent == IF v.wallet = Absent THEN Absent ELSE WalletSent(v.wallet[1])
           got == IF m.wallet = Absent THEN Absent ELSE WalletGot(m.wallet[1])
<1>2. PICK p, q, u, x : /\ p = BytesOf(v.payloadCid) /\ q = BytesOf(v.pieceCid)
                        /\ u = Text(v.carURL) /\ x = sent
  BY Zenon
<1>3. m = [v EXCEPT !.payloadCid = p, !.pieceCid = q, !.carURL = u, !.wallet = x]
  BY Zenon, <1>2, PresentIs DEF PublishMsgReadyToCreateDeals, IfValid, WalletSent
<1>4. /\ r = [m EXCEPT !.payloadCid = Parse(m.payloadCid), !.pieceCid = Parse(m.pieceCid),
                       !.carURL = Parse(m.carURL), !.wallet = got]
      /\ m.payloadCid # Absent /\ m.pieceCid # Absent
  BY Zenon, PresentIs DEF OnReadyToCreateDealsTopic, IfValid, Casts, WalletGot
<1>5. m.payloadCid = p /\ m.pieceCid = q /\ m.carURL = u /\ m.wallet = x
  <2> HIDE DEF sent, got
  <2> QED
    BY <1>1, <1>3 DEF HasFields
<1>6. Parse(p) = v.payloadCid /\ Parse(q) = v.pieceCid
  BY Zenon, <1>2, <1>4, <1>5, CidTrip
<1>7. Parse(u) = v.carURL
  BY Zenon, <1>2, TextTrip
<1>8. got = v.wallet
  <2>1. CASE v.wallet = Absent
    BY Zenon, <1>2, <1>5, <2>1
  <2>2. CASE v.wallet # Absent
    <3>1. PICK w : w = v.wallet[1]
      BY Zenon
    <3>2. /\ v.wallet = Present(w) /\ HasFields(w, {"peer", "token", "addr", "maddrs"})
          /\ IsList(w.maddrs)
      <4> HIDE DEF sent, got
      <4> QED
        BY <2>2, <3>1 DEF IsContent
    <3>3. x = WalletSent(w)
      BY Zenon, <1>2, <2>2, <3>1
    <3>4. x # Absent
      BY Zenon, <3>3, PresentIs DEF WalletSent
    <3>5. got = WalletGot(x[1])
      BY Zenon, <1>5, <3>4
    <3> HIDE DEF got
    <3> QED
      BY Zenon, <3>2, <3>3, <3>5, WalletTrip
  <2> QED
    BY Zenon, <2>1, <2>2
<1> HIDE DEF sent, got
<1>9. r = [m EXCEPT !.payloadCid = v.payloadCid, !.pieceCid = v.pieceCid,
                    !.carURL = v.carURL, !.wallet = v.wallet]
  BY Zenon, <1>4, <1>5, <1>6, <1>7, <1>8
<1>10. PICK fields : /\ HasFields(v, fields) /\ "payloadCid" \in fields
                     /\ "pieceCid" \in fields /\ "carURL" \in fields /\ "wallet" \in fields
  BY <1>1
<1>11. r = [f \in fields |-> r[f]]
  BY Zenon, <1>3, <1>9, <1>10 DEF HasFields
<1>12. ASSUME NEW f \in fields PROVE r[f] = v[f]
  <2>1. CASE f = "payloadCid"
    BY <1>3, <1>9, <1>10, <2>1 DEF HasFields
  <2>2. CASE f = "pieceCid"
    BY <1>3, <1>9, <1>10, <2>2 DEF HasFields
  <2>3. CASE f = "carURL"
    BY <1>3, <1>9, <1>10, <2>3 DEF HasFields
  <2>4. CASE f = "wallet"
    BY <1>3, <1>9, <1>10, <2>4 DEF HasFields
  <2>5. CASE f \notin {"payloadCid", "pieceCid", "carURL", "wallet"}
    <3>1. m[f] = v[f] /\ DOMAIN m = fields
      BY Zenon, <1>3, <1>10, <2>5 DEF HasFields
    <3>2. r[f] = m[f]
      BY Zenon, <1>9, <1>10, <2>5, <3>1
    <3> QED
      BY Zenon, <3>1, <3>2
  <2> QED
    BY <2>1, <2>2, <2>3, <2>4, <2>5
<1> QED
  BY Zenon, <1>10, <1>11, <1>12 DEF HasFields

\* The status of an auction is the same after the enumeration of the message.
LEMMA StatusTrip ==
  ASSUME NEW status \in Elements(AuctionStatuses)
  PROVE  AuctionStatusFromPb(AuctionStatusToPb(status)) = status
BY Zenon DEF AuctionStatusFromPb, AuctionStatusToPb, Elements

\* auctioneerd to brokerd and apid: the winners, bid by bid.
LEMMA AuctionClosedTrip ==
  ASSUME NEW v, IsContent("auction-closed", v), NEW m, NEW r,
         PublishMsgAuctionClosed(v, "op") = Present(m), OnAuctionClosedTopic(m) = Present(r)
  PROVE  r = v
<1>1. /\ HasFields(v, {"id", "batch", "duration", "replication", "verified", "status",
                       "error", "bids"})
      /\ v.status \in Elements(AuctionStatuses)
  BY DEF IsContent
<1>2. PICK pba : pba = ClosedAuctionToPb(v, "op")
  BY Zenon
<1>3. pba # Absent /\ m = [op |-> "op", auction |-> pba[1]]
  BY Zenon, <1>2, PresentIs DEF PublishMsgAuctionClosed, IfValid
<1>4. PICK n : n = AuctionStatusToPb(v.status)
  BY Zenon
<1>5. PICK a : a = [v EXCEPT !.bids = v.bids, !.status = n]
  BY Zenon
<1>6. \A x : Present(x)[1] = x
  BY DEF Present
<1>7. pba = Present(a)
  <2>1. PICK bids : bids = AuctionWinningBidsToPb(v.bids)
    BY Zenon
  <2>2. bids # Absent
    BY Zenon, <1>2, <1>3, <2>1 DEF ClosedAuctionToPb, IfValid
  <2>3. bids = Present(v.bids)
    BY Zenon, <2>1, <2>2 DEF AuctionWinningBidsToPb, IfValid
  <2>4. bids[1] = v.bids
    BY Zenon, <1>6, <2>3
  <2>5. pba = Present([v EXCEPT !.bids = bids[1], !.status = n])
    BY Zenon, <1>2, <1>4, <2>1, <2>2 DEF ClosedAuctionToPb, IfValid
  <2> QED
    BY Zenon, <1>5, <2>4, <2>5
<1>8. m.auction = a
  <2>1. pba[1] = a
    BY Zenon, <1>6, <1>7
  <2> QED
    BY <1>3, <2>1
<1>9. ClosedAuctionFromPb(a) = Present(r)
  BY Zenon, <1>8, PresentIs DEF OnAuctionClosedTopic
<1>10. r = [a EXCEPT !.bids = a.bids, !.status = AuctionStatusFromPb(a.status)]
  <2>1. PICK bids : bids = AuctionWinningBidsFromPb(a.bids)
    BY Zenon
  <2>2. bids # Absent
    BY Zenon, <1>9, <2>1, PresentIs DEF ClosedAuctionFromPb, IfValid
  <2>3. bids = Present(a.bids)
    BY Zenon, <2>1, <2>2 DEF AuctionWinningBidsFromPb, IfValid
  <2>4. bids[1] = a.bids
    BY Zenon, <1>6, <2>3
  <2>5. r = [a EXCEPT !.bids = bids[1], !.status = AuctionStatusFromPb(a.status)]
    BY Zenon, <1>9, <2>1, PresentIs DEF ClosedAuctionFromPb, IfValid
  <2> QED
    BY Zenon, <2>4, <2>5
<1>11. a.bids = v.bids /\ a.status = n
  BY <1>1, <1>5 DEF HasFields
<1>12. AuctionStatusFromPb(n) = v.status
  BY Zenon, <1>1, <1>4, StatusTrip
<1>13. r = [a EXCEPT !.bids = v.bids, !.status = v.status]
  BY Zenon, <1>10, <1>11, <1>12
<1>14. PICK fields : HasFields(v, fields) /\ "bids" \in fields /\ "status" \in fields
  BY <1>1
<1>15. r = [f \in fields |-> r[f]]
  BY Zenon, <1>5, <1>13, <1>14 DEF HasFields
<1>16. ASSUME NEW f \in fields PROVE r[f] = v[f]
  <2>1. CASE f = "bids"
    BY <1>5, <1>13, <1>14, <2>1 DEF HasFields
  <2>2. CASE f = "status"
    BY <1>5, <1>13, <1>14, <2>2 DEF HasFields
  <2>3. CASE f \notin {"bids", "status"}
    <3>1. a[f] = v[f] /\ DOMAIN a = fields
      BY Zenon, <1>5, <1>14, <2>3 DEF HasFields
    <3>2. r[f] = a[f]
      BY Zenon, <1>13, <1>14, <2>3, <3>1
    <3> QED
      BY Zenon, <3>1, <3>2
  <2> QED
    BY <2>1, <2>2, <2>3
<1> QED
  BY Zenon, <1>14, <1>15, <1>16 DEF HasFields

\* auctioneerd to apid, which keeps the text of the status.
LEMMA AuctionStartedTrip ==
  ASSUME NEW v, IsContent("auction-started", v), NEW m, NEW r,
         PublishMsgAuctionStarted(v, "op") = Present(m), OnAuctionStartedTopic(m) = Present(r)
  PROVE  r = [v EXCEPT !.auction.status = Text(v.auction.status)]
<1>1. v = [auction |-> v.auction]
  BY DEF IsContent, HasFields
<1>2. PICK s : s = [v.auction EXCEPT !.status = Text(v.auction.status)]
  BY Zenon
<1>3. m = [auction |-> s]
  BY Zenon, <1>2, PresentIs DEF PublishMsgAuctionStarted, AuctionToPbSummary
<1>4. r = m
  BY Zenon, PresentIs DEF OnAuctionStartedTopic
<1>5. [v EXCEPT !.auction.status = Text(v.auction.status)] = [v EXCEPT !.auction = s]
  BY Zenon, <1>2
<1>6. [v EXCEPT !.auction = s] = [auction |-> s]
  BY <1>1
<1> QED
  BY Zenon, <1>3, <1>4, <1>5, <1>6

\* The three events about a bid, whose id apid has from its key.
LEMMA AuctionBidTrip ==
  ASSUME NEW v, HasFields(v, {"auction", "bid"}), IsBid(v.bid), NEW m, NEW r,
         PublishMsgAuctionBid(v, "op") = Present(m), OnAuctionBidTopic(m) = Present(r)
  PROVE  r = [auction |-> [v.auction EXCEPT !.status = Text(@)],
              bid |-> [f \in DOMAIN v.bid \ {"id"} |-> v.bid[f]]]
<1>1. PICK s : s = [v.auction EXCEPT !.status = Text(v.auction.status)]
  BY Zenon
<1>2. PICK b : b = v.bid
  BY Zenon
<1>3. m = [auction |-> s, bid |-> BidToPb(b)]
  BY Zenon, <1>1, <1>2, PresentIs DEF PublishMsgAuctionBid, AuctionToPbSummary
<1>4. PICK t : t = Text(b.bidder)
  BY Zenon
<1>5. PICK p : p = BidToPb(b)
  BY Zenon
<1>6. p = [sp |-> b.sp, bidder |-> t, price |-> b.price, startEpoch |-> b.startEpoch,
           fast |-> b.fast]
  BY Zenon, <1>4, <1>5 DEF BidToPb
<1>7. r = [m EXCEPT !.bid = BidFromPb(m.bid)]
  BY Zenon, PresentIs DEF OnAuctionBidTopic, IfValid
<1>8. m.bid = p
  BY <1>3, <1>5
<1>9. PICK q : q = BidFromPb(p)
  BY Zenon
<1>10. q = [p EXCEPT !.bidder = b.bidder]
  <2>1. p.bidder = t
    BY <1>6
  <2>2. Parse(t) = b.bidder
    BY Zenon, <1>4, TextTrip
  <2> QED
    BY Zenon, <1>9, <2>1, <2>2 DEF BidFromPb
<1>11. q = [sp |-> b.sp, bidder |-> b.bidder, price |-> b.price,
            startEpoch |-> b.startEpoch, fast |-> b.fast]
  BY <1>6, <1>10
<1>12. r = [auction |-> s, bid |-> q]
  BY <1>3, <1>7, <1>8, <1>9
<1>13. [f \in DOMAIN b \ {"id"} |-> b[f]] = q
  <2>1. DOMAIN b = {"id", "sp", "bidder", "price", "startEpoch", "fast"}
    BY <1>2 DEF IsBid, HasFields
  <2>2. DOMAIN b \ {"id"} = {"sp", "bidder", "price", "startEpoch", "fast"}
    BY <2>1
  <2> QED
    BY <1>11, <2>2
<1> QED
  BY Zenon, <1>1, <1>2, <1>12, <1>13

--------------------------------------------------------------------------------
(* All topics. *)

\* The topics, one by one.
LEMMA EveryTopic ==
  ASSUME NEW t \in Topics
  PROVE  t \in {"new-batch-created", "new-batch-prepared", "finalized-deal",
                "auction-closed", "ready-to-batch", "ready-to-create-deals",
                "ready-to-auction", "deal-proposal-accepted",
                "boost-deal-proposal-accepted"} \union Events
<1>1. PICK d \in DOMAIN Listens : t \in Listens[d]
  BY Zenon DEF Topics
<1> QED
  BY <1>1 DEF Listens

\* What is called with a message, and what it may pass on.
Trip(t, v) ==
    \A m, r : ToMessage(t, v, "op") = Present(m) /\ ToListener(t, m) = Present(r)
                 => r = Meant(t, v)

\* The topics that brokerd listens to.
LEMMA TripToBroker ==
  ASSUME NEW v,
         NEW t \in {"new-batch-created", "new-batch-prepared", "finalized-deal",
                    "auction-closed"},
         IsContent(t, v)
  PROVE  Trip(t, v)
<1> SUFFICES ASSUME NEW m, NEW r, ToMessage(t, v, "op") = Present(m),
                    ToListener(t, m) = Present(r)
             PROVE  r = Meant(t, v)
  BY Zenon DEF Trip
<1>1. CASE t = "new-batch-created"
  <2>1. /\ PublishMsgNewBatchCreated(v, "op") = Present(m)
        /\ OnNewBatchCreatedTopic(m) = Present(r)
    BY <1>1 DEF ToMessage, ToListener
  <2>2. Meant(t, v) = [v EXCEPT !.carURL = Parse(v.carURL)]
    BY <1>1 DEF Meant
  <2> QED
    BY Zenon, <1>1, <2>1, <2>2, NewBatchCreatedTrip
<1>2. CASE t = "new-batch-prepared"
  <2>1. /\ PublishMsgNewBatchPrepared(v, "op") = Present(m)
        /\ OnNewBatchPreparedTopic(m) = Present(r)
    BY <1>2 DEF ToMessage, ToListener
  <2>2. Meant(t, v) = v
    BY <1>2 DEF Meant
  <2> QED
    BY Zenon, <1>2, <2>1, <2>2, NewBatchPreparedTrip
<1>3. CASE t = "finalized-deal"
  <2>1. /\ PublishMsgFinalizedDeal(v, "op") = Present(m)
        /\ OnFinalizedDealTopic(m) = Present(r)
    BY <1>3 DEF ToMessage, ToListener
  <2>2. Meant(t, v) = v
    BY <1>3 DEF Meant
  <2> QED
    BY Zenon, <2>1, <2>2, FinalizedDealTrip
<1>4. CASE t = "auction-closed"
  <2>1. /\ PublishMsgAuctionClosed(v, "op") = Present(m)
        /\ OnAuctionClosedTopic(m) = Present(r)
    BY <1>4 DEF ToMessage, ToListener
  <2>2. Meant(t, v) = v
    BY <1>4 DEF Meant
  <2> QED
    BY Zenon, <1>4, <2>1, <2>2, AuctionClosedTrip
<1> QED
  BY Zenon, <1>1, <1>2, <1>3, <1>4

\* The topics of packerd, dealerd and auctioneerd.
LEMMA TripFromBroker ==
  ASSUME NEW v,
         NEW t \in {"ready-to-batch", "ready-to-create-deals", "ready-to-auction",
                    "deal-proposal-accepted", "boost-deal-proposal-accepted"},
         IsContent(t, v)
  PROVE  Trip(t, v)
<1> SUFFICES ASSUME NEW m, NEW r, ToMessage(t, v, "op") = Present(m),
                    ToListener(t, m) = Present(r)
             PROVE  r = Meant(t, v)
  BY Zenon DEF Trip
<1>1. CASE t = "ready-to-batch"
  <2>1. /\ PublishMsgReadyToBatch(v, "op") = Present(m)
        /\ OnReadyToBatchTopic(m) = Present(r)
    BY <1>1 DEF ToMessage, ToListener
  <2>2. Meant(t, v) = v
    BY <1>1 DEF Meant
  <2> QED
    BY Zenon, <1>1, <2>1, <2>2, ReadyToBatchTrip
<1>2. CASE t = "ready-to-create-deals"
  <2>1. /\ PublishMsgReadyToCreateDeals(v, "op") = Present(m)
        /\ OnReadyToCreateDealsTopic(m) = Present(r)
    BY <1>2 DEF ToMessage, ToListener
  <2>2. Meant(t, v) = v
    BY <1>2 DEF Meant
  <2> QED
    BY Zenon, <1>2, <2>1, <2>2, ReadyToCreateDealsTrip
<1>3. CASE t = "ready-to-auction"
  <2>1. /\ PublishMsgReadyToAuction(v, "op") = Present(m)
        /\ OnReadyToAuctionTopic(m) = Present(r)
    BY <1>3 DEF ToMessage, ToListener
  <2>2. Meant(t, v) = [v EXCEPT !.providers = TextAll(v.providers)]
    BY <1>3 DEF Meant
  <2> QED
    BY Zenon, <1>3, <2>1, <2>2, ReadyToAuctionTrip
<1>4. CASE t = "deal-proposal-accepted"
  <2>1. /\ PublishMsgDealProposalAccepted(v, "op") = Present(m)
        /\ OnDealProposalAcceptedTopic(m) = Present(r)
    BY <1>4 DEF ToMessage, ToListener
  <2>2. Meant(t, v) = [auction |-> v.auction, bid |-> v.bid, proposalCid |-> v.proposalCid]
    BY <1>4 DEF Meant
  <2> QED
    BY Zenon, <1>4, <2>1, <2>2, DealProposalAcceptedTrip
<1>5. CASE t = "boost-deal-proposal-accepted"
  <2>1. /\ PublishMsgBoostDealProposalAccepted(v, "op") = Present(m)
        /\ OnBoostDealProposalAcceptedTopic(m) = Present(r)
    BY <1>5 DEF ToMessage, ToListener
  <2>2. Meant(t, v) = [auction |-> v.auction, bid |-> v.bid, dealUID |-> v.dealUID]
    BY <1>5 DEF Meant
  <2> QED
    BY Zenon, <2>1, <2>2, BoostDealProposalAcceptedTrip
<1> QED
  BY Zenon, <1>1, <1>2, <1>3, <1>4, <1>5

\* The events of an auction, for apid.
LEMMA TripOfEvents ==
  ASSUME NEW v, NEW t \in Events, IsContent(t, v)
  PROVE  Trip(t, v)
<1> SUFFICES ASSUME NEW m, NEW r, ToMessage(t, v, "op") = Present(m),
                    ToListener(t, m) = Present(r)
             PROVE  r = Meant(t, v)
  BY Zenon DEF Trip
<1>1. CASE t = "auction-started"
  <2>1. /\ PublishMsgAuctionStarted(v, "op") = Present(m)
        /\ OnAuctionStartedTopic(m) = Present(r)
    BY <1>1 DEF ToMessage, ToListener
  <2>2. Meant(t, v) = [v EXCEPT !.auction.status = Text(v.auction.status)]
    BY <1>1 DEF Meant
  <2> QED
    BY Zenon, <1>1, <2>1, <2>2, AuctionStartedTrip
<1>2. CASE t = "auction-proposal-cid-delivered"
  <2>1. /\ PublishMsgAuctionProposalCidDelivered(v, "op") = Present(m)
        /\ OnAuctionProposalCidDeliveredTopic(m) = Present(r)
    BY <1>2 DEF ToMessage, ToListener
  <2>2. Meant(t, v) = [v EXCEPT !.bidder = Text(v.bidder),
                                !.proposalCid = Text(v.proposalCid)]
    BY <1>2 DEF Meant
  <2> QED
    BY Zenon, <1>2, <2>1, <2>2, ProposalCidDeliveredTrip
<1>3. CASE t \notin {"auction-started", "auction-proposal-cid-delivered"}
  <2>0. t \in {"auction-bid-received", "auction-winner-selected", "auction-winner-acked"}
    BY <1>3 DEF Events
  <2>1. PublishMsgAuctionBid(v, "op") = Present(m) /\ OnAuctionBidTopic(m) = Present(r)
    BY <2>0 DEF ToMessage, ToListener
  <2>2. Meant(t, v) = [auction |-> [v.auction EXCEPT !.status = Text(@)],
                       bid |-> [f \in DOMAIN v.bid \ {"id"} |-> v.bid[f]]]
    BY <2>0 DEF Meant
  <2>3. HasFields(v, {"auction", "bid"}) /\ IsBid(v.bid)
    BY <2>0 DEF IsContent
  <2> QED
    BY Zenon, <2>1, <2>2, <2>3, AuctionBidTrip
<1> QED
  BY Zenon, <1>1, <1>2, <1>3

\* On every topic, what a listener is called with is what the publisher was given.
LEMMA EveryTrip ==
  ASSUME NEW t \in Topics, NEW v, IsContent(t, v)
  PROVE  Trip(t, v)
BY EveryTopic, TripToBroker, TripFromBroker, TripOfEvents

--------------------------------------------------------------------------------
(* What is heard is what was published. *)

\* A conversion fails or yields something.
MayFail(x) == x = Absent \/ \E y : x = Present(y)

\* The forms that a conversion has.
LEMMA IfValidMayFail ==
  ASSUME NEW valid, NEW x
  PROVE  MayFail(IfValid(valid, x)) /\ MayFail(Present(x)) /\ MayFail(Absent)
BY Zenon DEF MayFail, IfValid

\* A publishing function accepts a content or does not.
LEMMA PublishMayFail ==
  ASSUME NEW t \in Topics, NEW v
  PROVE  MayFail(ToMessage(t, v, "op"))
<1>1. /\ MayFail(PublishMsgNewBatchCreated(v, "op"))
      /\ MayFail(PublishMsgNewBatchPrepared(v, "op"))
      /\ MayFail(PublishMsgReadyToBatch(v, "op"))
      /\ MayFail(PublishMsgReadyToCreateDeals(v, "op"))
  BY Zenon, IfValidMayFail
     DEF PublishMsgNewBatchCreated, PublishMsgNewBatchPrepared, PublishMsgReadyToBatch,
         PublishMsgReadyToCreateDeals
<1>2. /\ MayFail(PublishMsgFinalizedDeal(v, "op"))
      /\ MayFail(PublishMsgDealProposalAccepted(v, "op"))
      /\ MayFail(PublishMsgBoostDealProposalAccepted(v, "op"))
      /\ MayFail(PublishMsgReadyToAuction(v, "op"))
  BY Zenon, IfValidMayFail
     DEF PublishMsgFinalizedDeal, PublishMsgDealProposalAccepted,
         PublishMsgBoostDealProposalAccepted, PublishMsgReadyToAuction
<1>3. /\ MayFail(PublishMsgAuctionClosed(v, "op"))
      /\ MayFail(PublishMsgAuctionStarted(v, "op"))
      /\ MayFail(PublishMsgAuctionBid(v, "op"))
      /\ MayFail(PublishMsgAuctionProposalCidDelivered(v, "op"))
  BY Zenon, IfValidMayFail
     DEF PublishMsgAuctionClosed, PublishMsgAuctionStarted, PublishMsgAuctionBid,
         PublishMsgAuctionProposalCidDelivered
<1> QED
  BY <1>1, <1>2, <1>3 DEF ToMessage

\* A handler accepts a message or does not.
LEMMA ListenMayFail ==
  ASSUME NEW t \in Topics, NEW m
  PROVE  MayFail(ToListener(t, m))
<1>1. /\ MayFail(OnNewBatchCreatedTopic(m)) /\ MayFail(OnNewBatchPreparedTopic(m))
      /\ MayFail(OnReadyToBatchTopic(m)) /\ MayFail(OnReadyToCreateDealsTopic(m))
  BY Zenon, IfValidMayFail
     DEF OnNewBatchCreatedTopic, OnNewBatchPreparedTopic, OnReadyToBatchTopic,
         OnReadyToCreateDealsTopic
<1>2. /\ MayFail(OnFinalizedDealTopic(m)) /\ MayFail(OnDealProposalAcceptedTopic(m))
      /\ MayFail(OnBoostDealProposalAcceptedTopic(m)) /\ MayFail(OnReadyToAuctionTopic(m))
  BY Zenon, IfValidMayFail
     DEF OnFinalizedDealTopic, OnDealProposalAcceptedTopic,
         OnBoostDealProposalAcceptedTopic, OnReadyToAuctionTopic
<1>3. /\ MayFail(OnAuctionClosedTopic(m)) /\ MayFail(OnAuctionStartedTopic(m))
      /\ MayFail(OnAuctionBidTopic(m)) /\ MayFail(OnAuctionProposalCidDeliveredTopic(m))
  BY Zenon, IfValidMayFail
     DEF OnAuctionClosedTopic, ClosedAuctionFromPb, OnAuctionStartedTopic,
         OnAuctionBidTopic, OnAuctionProposalCidDeliveredTopic
<1> QED
  BY <1>1, <1>2, <1>3 DEF ToListener

\* bytes is the message that is made of a content which the publisher may be given.
MadeOf(content, bytes) ==
    content \in Contents[topic] /\ ToMessage(topic, content, "op") = Present(bytes)

\* The publisher never is where only a listening daemon is, and has a content that the
\* publishing function accepted from the call of PublishMsg to the end of it.
PublisherInv ==
    /\ pc = [d \in Daemons \union {Publisher} |-> pc[d]]
    /\ pc[Publisher] \in {"up", "exists", "create", "publish"}
    /\ pc[Publisher] # "up" =>
          \E content, bytes : asked = Present(content) /\ MadeOf(content, bytes)

\* Leases on published messages.
Leases(s) ==
    \A l \in s : l.id \in IDs /\ l = [daemon |-> l.daemon, id |-> l.id, late |-> l.late]

\* Handlers run on, and listeners heard, messages that were published.
HeardInv ==
    /\ topic \in Topics
    /\ \A i \in IDs : MadeOf(published[i].content, published[i].bytes)
    /\ Leases(leases)
    /\ \A h \in heard : h.id \in IDs

SentInv == PublishedOK /\ PublisherInv /\ HeardInv /\ HeardAsSent

\* A step that publishes nothing and in which no listener returns.
LEMMA NothingHeard ==
  ASSUME SentInv, UNCHANGED <<topic, published, heard>>, PublisherInv', Leases(leases')
  PROVE  SentInv'
<1>1. IDs' = IDs
  BY DEF IDs
<1>2. PublishedOK'
  BY Zenon, <1>1 DEF SentInv, PublishedOK
<1>3. HeardInv'
  BY Zenon, <1>1 DEF SentInv, HeardInv, Leases, MadeOf
<1>4. HeardAsSent'
  BY Zenon DEF SentInv, HeardAsSent
<1> QED
  BY Zenon, <1>2, <1>3, <1>4 DEF SentInv

\* No daemon that listens is the publisher.
LEMMA PublisherListensNot ==
  ASSUME NEW d \in Listeners
  PROVE  d # Publisher /\ d \in Daemons
<1>1. d \in Daemons /\ d[1] \in DOMAIN Listens
  BY Zenon DEF Listeners
<1>2. "publisher" \notin DOMAIN Listens
  BY DEF Listens
<1> QED
  BY <1>1, <1>2 DEF Publisher

\* Where another process is does not matter to the publisher.
LEMMA OthersMove ==
  ASSUME SentInv, NEW d \in Daemons \union {Publisher}, d # Publisher,
         UNCHANGED <<topic, asked>>, NEW there, At(d, there)
  PROVE  PublisherInv'
<1>1. pc' = [p \in Daemons \union {Publisher} |-> pc'[p]]
  BY Zenon DEF SentInv, PublisherInv, At
<1>2. pc'[Publisher] = pc[Publisher]
  BY Zenon DEF SentInv, PublisherInv, At
<1> QED
  BY Zenon, <1>1, <1>2 DEF SentInv, PublisherInv, MadeOf

\* Nor do steps that move nobody.
LEMMA NobodyMoves ==
  ASSUME SentInv, UNCHANGED <<topic, asked, pc>>
  PROVE  PublisherInv'
BY Zenon DEF SentInv, PublisherInv, MadeOf

\* The publisher goes on, or is done.
LEMMA PublisherMoves ==
  ASSUME SentInv, UNCHANGED topic, NEW there, At(Publisher, there),
         there \in {"up", "exists", "create", "publish"},
         \/ there = "up"
         \/ pc[Publisher] # "up" /\ UNCHANGED asked
  PROVE  PublisherInv'
<1>1. pc' = [p \in Daemons \union {Publisher} |-> pc'[p]]
  BY Zenon DEF SentInv, PublisherInv, At
<1>2. pc'[Publisher] = there
  BY Zenon DEF SentInv, PublisherInv, At
<1> QED
  BY Zenon, <1>1, <1>2 DEF SentInv, PublisherInv, MadeOf

\* Processes that look for the topic and their subscription publish and hear nothing.
LEMMA DaemonStepKeeps ==
  ASSUME SentInv, NEW d \in Daemons \union {Publisher}, DaemonStep(d)
  PROVE  SentInv'
<1>1. UNCHANGED <<topic, published, heard, leases>>
  BY Zenon
     DEF DaemonStep, TopicExists, CreateTopic, Start, LookForSubscription,
         CreateSubscription
<1>2. Leases(leases')
  BY Zenon, <1>1 DEF SentInv, HeardInv
<1>3. PublisherInv'
  <2>1. CASE d # Publisher
    <3>1. UNCHANGED asked
      BY Zenon, <2>1
         DEF DaemonStep, TopicExists, CreateTopic, Asked, Start, LookForSubscription,
             CreateSubscription
    <3>2. \E there : At(d, there)
      BY Zenon
         DEF DaemonStep, TopicExists, CreateTopic, Start, LookForSubscription,
             CreateSubscription
    <3> QED
      BY Zenon, <1>1, <2>1, <3>1, <3>2, OthersMove
  <2>2. CASE d = Publisher
    <3>1. CASE TopicExists(Publisher)
      <4>1. At(Publisher, "publish") \/ At(Publisher, "create")
        BY Zenon, <3>1 DEF TopicExists, NextOf
      <4>2. pc[Publisher] # "up" /\ UNCHANGED <<topic, asked>>
        BY <3>1 DEF TopicExists
      <4> QED
        BY Zenon, <4>1, <4>2, PublisherMoves
    <3>2. CASE CreateTopic(Publisher)
      <4>1. At(Publisher, "up") \/ (At(Publisher, "publish") /\ UNCHANGED asked)
        BY Zenon, <3>2 DEF CreateTopic, NextOf, FailedOf
      <4>2. pc[Publisher] # "up" /\ UNCHANGED topic
        BY <3>2 DEF CreateTopic
      <4> QED
        BY Zenon, <4>1, <4>2, PublisherMoves
    <3>3. ~Start(Publisher)
      BY Zenon, PublisherListensNot DEF Start
    <3>4. pc[Publisher] # "look" /\ pc[Publisher] # "createSub"
      BY DEF SentInv, PublisherInv
    <3> QED
      BY Zenon, <2>2, <3>1, <3>2, <3>3, <3>4
         DEF DaemonStep, LookForSubscription, CreateSubscription
  <2> QED
    BY Zenon, <2>1, <2>2
<1> QED
  BY Zenon, <1>1, <1>2, <1>3, NothingHeard

\* A content that the publishing function accepts is on its way.
LEMMA PublishMsgKeeps ==
  ASSUME SentInv, NEW content \in Contents[topic], PublishMsg(content)
  PROVE  SentInv'
<1>1. /\ UNCHANGED <<topic, published, heard, leases>>
      /\ asked' = Present(content) /\ At(Publisher, "exists")
      /\ ToMessage(topic, content, "op") # Absent
  BY Zenon DEF PublishMsg
<1>2. \E bytes : ToMessage(topic, content, "op") = Present(bytes)
  BY Zenon, <1>1, PublishMayFail DEF SentInv, HeardInv, MayFail
<1>3. \E c, bytes : asked' = Present(c) /\ MadeOf(c, bytes)'
  BY Zenon, <1>1, <1>2 DEF MadeOf
<1>4. pc' = [d \in Daemons \union {Publisher} |-> pc'[d]] /\ pc'[Publisher] = "exists"
  BY Zenon, <1>1 DEF SentInv, PublisherInv, At
<1>5. PublisherInv'
  BY Zenon, <1>3, <1>4 DEF PublisherInv
<1>6. Leases(leases')
  BY Zenon, <1>1 DEF SentInv, HeardInv
<1> QED
  BY Zenon, <1>1, <1>5, <1>6, NothingHeard

\* What Pub/Sub takes is what was made of the content.
LEMMA PublishSends ==
  ASSUME SentInv, Publish
  PROVE  SentInv'
<1>1. PICK m : /\ m = [content |-> asked[1], subs |-> subs,
                       bytes |-> ToMessage(topic, asked[1], "op")[1]]
               /\ published' = Append(published, m)
  BY Zenon DEF Publish
<1>2. UNCHANGED <<topic, heard, leases>> /\ pc[Publisher] = "publish"
      /\ At(Publisher, "up")
  BY Zenon DEF Publish
<1>3. PICK content, bytes : asked = Present(content) /\ MadeOf(content, bytes)
  BY <1>2 DEF SentInv, PublisherInv
<1>4. asked[1] = content
  BY <1>3 DEF Present
<1>5. ToMessage(topic, asked[1], "op")[1] = bytes
  <2>1. ToMessage(topic, asked[1], "op") = Present(bytes)
    BY Zenon, <1>3, <1>4 DEF MadeOf
  <2>2. Present(bytes)[1] = bytes
    BY DEF Present
  <2> QED
    BY Zenon, <2>1, <2>2
<1>6. m.content = content /\ m.bytes = bytes
  BY Zenon, <1>1, <1>4, <1>5
<1>7. PICK S : published \in Seq(S) /\ m \in S
  <2> DEFINE S == {published[i] : i \in IDs} \union {m}
  <2>1. published \in Seq(S) /\ m \in S
    BY DEF SentInv, PublishedOK
  <2> QED
    BY <2>1
<1>8. PICK n : n = Len(published)
  BY Zenon
<1>9. /\ n \in Nat
      /\ published' \in Seq(S)
      /\ Len(published') = n + 1
      /\ published'[n + 1] = m
      /\ \A i \in 1..n : published'[i] = published[i]
  BY <1>1, <1>7, <1>8
<1>10. IDs' = IDs \union {n + 1}
  BY <1>8, <1>9 DEF IDs
<1>11. \A i \in IDs : published'[i] = published[i]
  BY <1>8, <1>9 DEF IDs
<1>12. PublishedOK'
  BY <1>9 DEF PublishedOK, IDs
<1>13. PublisherInv'
  BY Zenon, <1>2, PublisherMoves
<1>14. HeardInv'
  <2>1. \A i \in IDs' : MadeOf(published[i].content, published[i].bytes)'
    <3>1. MadeOf(content, bytes)' /\ published'[n + 1].content = content
          /\ published'[n + 1].bytes = bytes
      BY Zenon, <1>2, <1>3, <1>6, <1>9 DEF MadeOf
    <3>2. \A i \in IDs : MadeOf(published[i].content, published[i].bytes)'
      BY Zenon, <1>2, <1>11 DEF SentInv, HeardInv, MadeOf
    <3> QED
      BY Zenon, <1>10, <3>1, <3>2
  <2> QED
    BY Zenon, <1>2, <1>10, <2>1 DEF SentInv, HeardInv, Leases
<1>15. HeardAsSent'
  BY Zenon, <1>2, <1>11 DEF SentInv, HeardInv, HeardAsSent
<1> QED
  BY Zenon, <1>12, <1>13, <1>14, <1>15 DEF SentInv

\* What a listener is called with is what was published.
LEMMA AckHears ==
  ASSUME SentInv, NEW l \in leases, Ack(l)
  PROVE  SentInv'
<1>1. PICK h : /\ h = [sub |-> l.daemon[1], id |-> l.id, content |-> Received(l)[1]]
               /\ heard' = heard \union {h}
  BY Zenon DEF Ack
<1>2. /\ UNCHANGED <<topic, published, pc, asked>> /\ leases' = leases \ {l}
      /\ Received(l) # Absent
  BY Zenon DEF Ack
<1>3. l.id \in IDs
  BY Zenon DEF SentInv, HeardInv, Leases
<1>4. PICK p : p = published[l.id]
  BY Zenon
<1>5. MadeOf(p.content, p.bytes)
  BY Zenon, <1>3, <1>4 DEF SentInv, HeardInv
<1>6. PICK r : ToListener(topic, p.bytes) = Present(r)
  BY Zenon, <1>2, <1>4, ListenMayFail DEF SentInv, HeardInv, MayFail, Received
<1>7. h.id = l.id /\ h.content = r
  <2>1. Received(l) = Present(r)
    BY Zenon, <1>4, <1>6 DEF Received
  <2>2. Present(r)[1] = r
    BY DEF Present
  <2> QED
    BY Zenon, <1>1, <2>1, <2>2
<1>8. Trip(topic, p.content)
  BY Zenon, <1>5, EveryTrip, ContentsAssumption DEF SentInv, HeardInv, MadeOf
<1>9. r = Meant(topic, p.content)
  BY Zenon, <1>5, <1>6, <1>8 DEF Trip, MadeOf
<1>10. IDs' = IDs
  BY <1>2 DEF IDs
<1>11. PublishedOK'
  BY Zenon, <1>2, <1>10 DEF SentInv, PublishedOK
<1>12. PublisherInv'
  BY Zenon, <1>2, NobodyMoves
<1>13. HeardInv'
  BY Zenon, <1>1, <1>2, <1>3, <1>7, <1>10 DEF SentInv, HeardInv, Leases, MadeOf
<1>14. HeardAsSent'
  BY Zenon, <1>1, <1>2, <1>4, <1>7, <1>9 DEF SentInv, HeardAsSent
<1> QED
  BY Zenon, <1>11, <1>12, <1>13, <1>14 DEF SentInv

\* A message is handed out, is late, or is given back.
LEMMA ReceiveKeeps ==
  ASSUME SentInv, UNCHANGED <<topic, published, heard, pc, asked>>,
         \/ \E d \in Listeners, id \in IDs : Deliver(d, id)
         \/ \E l \in leases : DeadlinePasses(l) \/ Nack(l)
  PROVE  SentInv'
<1>1. Leases(leases)
  BY Zenon DEF SentInv, HeardInv
<1>2. ASSUME NEW d, NEW id \in IDs, Deliver(d, id)
      PROVE  Leases(leases')
  <2>1. leases' = leases \union {Lease(d, id)}
    BY Zenon, <1>2 DEF Deliver
  <2>2. PICK l : l = Lease(d, id)
    BY Zenon
  <2>3. l.id = id /\ l = [daemon |-> l.daemon, id |-> l.id, late |-> l.late]
    BY <2>2 DEF Lease
  <2> QED
    BY Zenon, <1>1, <2>1, <2>2, <2>3 DEF Leases
<1>3. ASSUME NEW l \in leases, DeadlinePasses(l)
      PROVE  Leases(leases')
  <2>1. PICK k, y : k = [l EXCEPT !.late = y] /\ leases' = (leases \ {l}) \union {k}
    BY Zenon, <1>3 DEF DeadlinePasses
  <2>2. l.id \in IDs /\ l = [daemon |-> l.daemon, id |-> l.id, late |-> l.late]
    BY Zenon, <1>1 DEF Leases
  <2>3. k.id = l.id /\ k = [daemon |-> k.daemon, id |-> k.id, late |-> k.late]
    <3>1. PICK a, i, t : l = [daemon |-> a, id |-> i, late |-> t]
      BY Zenon, <2>2
    <3>2. k = [daemon |-> a, id |-> i, late |-> y]
      BY <2>1, <3>1
    <3> QED
      BY <3>1, <3>2
  <2> QED
    BY Zenon, <1>1, <2>1, <2>2, <2>3 DEF Leases
<1>4. ASSUME NEW l \in leases, Nack(l)
      PROVE  Leases(leases')
  BY Zenon, <1>1, <1>4 DEF Nack, Leases
<1>5. Leases(leases')
  BY Zenon, <1>2, <1>3, <1>4
<1>6. PublisherInv'
  BY Zenon, NobodyMoves
<1> QED
  BY Zenon, <1>5, <1>6, NothingHeard

\* A daemon that stops takes its leases with it.
LEMMA StopKeeps ==
  ASSUME SentInv, NEW d \in Listeners, Stop(d)
  PROVE  SentInv'
<1>1. UNCHANGED <<topic, published, heard, asked>> /\ At(d, "down")
      /\ leases' \subseteq leases
  BY Zenon DEF Stop
<1>2. PublisherInv'
  BY Zenon, <1>1, PublisherListensNot, OthersMove
<1>3. Leases(leases')
  BY Zenon, <1>1 DEF SentInv, HeardInv, Leases
<1> QED
  BY Zenon, <1>1, <1>2, <1>3, NothingHeard

\* Every listener is called with what the publisher was given, on every topic: nothing
\* is lost, changed or mixed up on the way from PublishMsg... to On..., for every set of
\* daemons and all contents a publisher may be given.
THEOREM AlwaysHeardAsSent == PubSubSpec => []HeardAsSent
<1>1. PubSubInit => SentInv
  <2> SUFFICES ASSUME PubSubInit PROVE SentInv
    OBVIOUS
  <2>1. IDs = {} /\ PublishedOK
    BY DEF PubSubInit, IDs, PublishedOK
  <2>2. pc = [d \in Daemons \union {Publisher} |-> pc[d]] /\ pc[Publisher] = "up"
    BY Zenon DEF PubSubInit
  <2>3. PublisherInv
    BY Zenon, <2>2 DEF PublisherInv
  <2>4. HeardInv /\ HeardAsSent
    BY Zenon, <2>1 DEF PubSubInit, HeardInv, Leases, HeardAsSent
  <2> QED
    BY Zenon, <2>1, <2>3, <2>4 DEF SentInv
<1>2. SentInv /\ [PubSubNext]_pubsubVars => SentInv'
  <2> SUFFICES ASSUME SentInv, [PubSubNext]_pubsubVars PROVE SentInv'
    OBVIOUS
  <2>1. CASE UNCHANGED pubsubVars
    <3>1. UNCHANGED <<topic, published, heard, asked, pc, leases>>
      BY <2>1 DEF pubsubVars
    <3>2. PublisherInv' /\ Leases(leases')
      BY Zenon, <3>1, NobodyMoves DEF SentInv, HeardInv
    <3> QED
      BY Zenon, <3>1, <3>2, NothingHeard
  <2>2. CASE PublishFails
    <3>1. /\ UNCHANGED <<topic, published, heard, leases>> /\ At(Publisher, "up")
      BY Zenon, <2>2 DEF PublishFails
    <3>2. PublisherInv'
      BY Zenon, <3>1, PublisherMoves
    <3>3. Leases(leases')
      BY Zenon, <3>1 DEF SentInv, HeardInv
    <3> QED
      BY Zenon, <3>1, <3>2, <3>3, NothingHeard
  <2>3. ASSUME NEW d \in Listeners, NEW id \in IDs, Deliver(d, id)
        PROVE  SentInv'
    BY Zenon, <2>3, ReceiveKeeps DEF Deliver
  <2>4. ASSUME NEW l \in leases, DeadlinePasses(l) \/ Nack(l) \/ Ack(l)
        PROVE  SentInv'
    <3>1. CASE DeadlinePasses(l)
      BY Zenon, <3>1, ReceiveKeeps DEF DeadlinePasses
    <3>2. CASE Nack(l)
      BY Zenon, <3>2, ReceiveKeeps DEF Nack
    <3> QED
      BY Zenon, <2>4, <3>1, <3>2, AckHears
  <2> QED
    BY Zenon, <2>1, <2>2, <2>3, <2>4, DaemonStepKeeps, PublishMsgKeeps, PublishSends,
       StopKeeps
       DEF PubSubNext
<1>3. SentInv => HeardAsSent
  BY DEF SentInv
<1> QED
  BY <1>1, <1>2, <1>3, PTL DEF PubSubSpec

--------------------------------------------------------------------------------
(* What apid shows.  t are its tables before, u after. *)

\* The topics about a bid.
BidTopics == {"auction-bid-received", "auction-winner-selected", "auction-winner-acked"}

\* A table is a function; one of bids has rows with these columns.
IsTable(f) == f = [k \in DOMAIN f |-> f[k]]

IsBidRow(row) == HasFields(row, {"sp", "won", "acked", "proposal"})

AreBids(f) == \A k \in DOMAIN f : IsBidRow(f[k])

IsApi(t) ==
    /\ t = [auctions |-> t.auctions, bids |-> t.bids]
    /\ IsTable(t.auctions) /\ IsTable(t.bids) /\ AreBids(t.bids)

\* A row says at least as much.
Keeps(row, next) == (row.won => next.won) /\ (row.acked => next.acked)

AllKept(f, g) == \A k \in DOMAIN f : Keeps(f[k], g[k])

\* Nothing that is shown disappears.
Shows(t, u) ==
    /\ DOMAIN t.auctions \subseteq DOMAIN u.auctions
    /\ DOMAIN t.bids \subseteq DOMAIN u.bids
    /\ AllKept(t.bids, u.bids)

\* Queries one after another.
LEMMA ShowsOn ==
  ASSUME NEW t, NEW u, NEW w, Shows(t, u), Shows(u, w)
  PROVE  Shows(t, w)
BY Zenon DEF Shows, AllKept, Keeps

\* A query on auctions.
LEMMA AuctionsWritten ==
  ASSUME NEW t, IsApi(t), NEW f, IsTable(f),
         DOMAIN t.auctions \subseteq DOMAIN f, NEW u, u = [t EXCEPT !.auctions = f]
  PROVE  IsApi(u) /\ Shows(t, u) /\ u.auctions = f /\ u.bids = t.bids
<1>1. u.auctions = f /\ u.bids = t.bids /\ u = [auctions |-> u.auctions, bids |-> u.bids]
  BY DEF IsApi
<1>2. IsApi(u)
  BY Zenon, <1>1 DEF IsApi
<1>3. Shows(t, u)
  BY Zenon, <1>1 DEF Shows, AllKept, Keeps
<1> QED
  BY Zenon, <1>1, <1>2, <1>3

\* A query on bids.
LEMMA BidsWritten ==
  ASSUME NEW t, IsApi(t), NEW f, IsTable(f),
         DOMAIN t.bids \subseteq DOMAIN f, AreBids(f), AllKept(t.bids, f),
         NEW u, u = [t EXCEPT !.bids = f]
  PROVE  IsApi(u) /\ Shows(t, u) /\ u.auctions = t.auctions /\ u.bids = f
<1>1. u.auctions = t.auctions /\ u.bids = f /\ u = [auctions |-> u.auctions, bids |-> u.bids]
  BY DEF IsApi
<1>2. IsApi(u)
  BY Zenon, <1>1 DEF IsApi
<1>3. Shows(t, u)
  BY Zenon, <1>1 DEF Shows
<1> QED
  BY Zenon, <1>1, <1>2, <1>3

\* A query on the row of one bid that is there.
LEMMA OneBidWritten ==
  ASSUME NEW t, IsApi(t), NEW key \in DOMAIN t.bids, NEW row, IsBidRow(row),
         Keeps(t.bids[key], row), NEW u, u = [t EXCEPT !.bids = [t.bids EXCEPT ![key] = row]]
  PROVE  IsApi(u) /\ Shows(t, u) /\ key \in DOMAIN u.bids /\ u.bids[key] = row
<1>1. PICK f : f = [t.bids EXCEPT ![key] = row]
  BY Zenon
<1>2. DOMAIN f = DOMAIN t.bids /\ IsTable(f) /\ f[key] = row
  BY Zenon, <1>1 DEF IsApi, IsTable
<1>3. \A k \in DOMAIN t.bids : k # key => f[k] = t.bids[k]
  BY Zenon, <1>1 DEF IsApi, IsTable
<1>4. AreBids(f)
  BY Zenon, <1>2, <1>3 DEF IsApi, AreBids
<1>5. AllKept(t.bids, f)
  BY Zenon, <1>2, <1>3 DEF AllKept, Keeps
<1>6. u = [t EXCEPT !.bids = f]
  BY Zenon, <1>1
<1>7. DOMAIN t.bids \subseteq DOMAIN f /\ IsTable(f)
  BY Zenon, <1>2
<1>8. IsApi(u) /\ Shows(t, u)
  BY Zenon, <1>4, <1>5, <1>6, <1>7, BidsWritten
<1>9. u.bids = f
  BY <1>6 DEF IsApi
<1> QED
  BY Zenon, <1>2, <1>8, <1>9

\* CreateOrUpdateAuction: the auction is there.
LEMMA AuctionShown ==
  ASSUME NEW t, IsApi(t), NEW id, NEW status, NEW u, u = CreateOrUpdateAuctionRow(t, id, status)
  PROVE  IsApi(u) /\ Shows(t, u) /\ id \in DOMAIN u.auctions
<1>1. PICK row : row = [status |-> status, error |-> "",
                        closed |-> id \in DOMAIN t.auctions /\ t.auctions[id].closed]
  BY Zenon
<1>2. PICK f : f = Upsert(t.auctions, id, row)
  BY Zenon
<1>3. /\ DOMAIN f = DOMAIN t.auctions \union {id} /\ IsTable(f)
  BY Zenon, <1>2 DEF Upsert, IsTable
<1>4. u = [t EXCEPT !.auctions = f]
  BY Zenon, <1>1, <1>2 DEF CreateOrUpdateAuctionRow
<1>5. DOMAIN t.auctions \subseteq DOMAIN f /\ IsTable(f)
  BY Zenon, <1>3
<1>6. IsApi(u) /\ Shows(t, u)
  BY Zenon, <1>4, <1>5, AuctionsWritten
<1>7. u.auctions = f
  BY <1>4 DEF IsApi
<1> QED
  BY Zenon, <1>3, <1>6, <1>7

\* AuctionClosed: an auction that is there stays there.
LEMMA ClosedShown ==
  ASSUME NEW t, IsApi(t), NEW ca, NEW u, u = AuctionClosed(t, ca)
  PROVE  IsApi(u) /\ Shows(t, u)
<1>1. CASE ca.id \in DOMAIN t.auctions
  <2>1. PICK row : u = [t EXCEPT !.auctions = [t.auctions EXCEPT ![ca.id] = row]]
    BY Zenon, <1>1 DEF AuctionClosed, CloseAuctionRow
  <2>2. PICK f : f = [t.auctions EXCEPT ![ca.id] = row]
    BY Zenon
  <2>3. DOMAIN f = DOMAIN t.auctions /\ IsTable(f)
    BY Zenon, <2>2 DEF IsApi, IsTable
  <2> QED
    BY Zenon, <2>1, <2>2, <2>3, AuctionsWritten
<1>2. CASE ca.id \notin DOMAIN t.auctions
  <2>1. u = t
    BY Zenon, <1>2 DEF AuctionClosed, CloseAuctionRow
  <2> QED
    BY Zenon, <2>1 DEF Shows, AllKept, Keeps
<1> QED
  BY Zenon, <1>1, <1>2

\* CreateOrUpdateBid: the bid is there, and if it was there nothing it said is lost.
LEMMA BidShown ==
  ASSUME NEW t, IsApi(t), NEW key, NEW sp, NEW u, u = CreateOrUpdateBidRow(t, key, sp)
  PROVE  IsApi(u) /\ Shows(t, u) /\ key \in DOMAIN u.bids
<1>1. PICK row : row = IF key \in DOMAIN t.bids THEN [t.bids[key] EXCEPT !.sp = sp]
                       ELSE [sp |-> sp, won |-> FALSE, acked |-> FALSE, proposal |-> Absent]
  BY Zenon
<1>2. PICK f : f = Upsert(t.bids, key, row)
  BY Zenon
<1>3. /\ DOMAIN f = DOMAIN t.bids \union {key} /\ IsTable(f)
      /\ f[key] = row /\ \A k \in DOMAIN t.bids : k # key => f[k] = t.bids[k]
  BY Zenon, <1>2 DEF Upsert, IsTable
<1>4. u = [t EXCEPT !.bids = f]
  BY Zenon, <1>1, <1>2 DEF CreateOrUpdateBidRow
<1>5. IsBidRow(row)
  <2>1. CASE key \in DOMAIN t.bids
    BY Zenon, <1>1, <2>1 DEF IsApi, AreBids, IsBidRow, HasFields
  <2>2. CASE key \notin DOMAIN t.bids
    <3>1. PICK n, p : row = [sp |-> sp, won |-> n, acked |-> n, proposal |-> p]
      BY Zenon, <1>1, <2>2
    <3> QED
      BY <3>1 DEF IsBidRow, HasFields
  <2> QED
    BY Zenon, <2>1, <2>2
<1>6. AreBids(f)
  BY Zenon, <1>3, <1>5 DEF IsApi, AreBids
<1>7. ASSUME NEW k \in DOMAIN t.bids PROVE Keeps(t.bids[k], f[k])
  <2>1. CASE k = key
    <3>1. row.won = t.bids[k].won /\ row.acked = t.bids[k].acked
      BY Zenon, <1>1, <2>1 DEF IsApi, AreBids, IsBidRow, HasFields
    <3> QED
      BY Zenon, <1>3, <2>1, <3>1 DEF Keeps
  <2>2. CASE k # key
    BY Zenon, <1>3, <2>2 DEF Keeps
  <2> QED
    BY Zenon, <2>1, <2>2
<1>8. AllKept(t.bids, f)
  BY Zenon, <1>7 DEF AllKept
<1>9. DOMAIN t.bids \subseteq DOMAIN f /\ IsTable(f)
  BY Zenon, <1>3
<1>10. IsApi(u) /\ Shows(t, u)
  BY Zenon, <1>4, <1>6, <1>8, <1>9, BidsWritten
<1>11. u.bids = f
  BY <1>4 DEF IsApi
<1> QED
  BY Zenon, <1>3, <1>10, <1>11

\* WonBid: a bid that is there has won.
LEMMA WonShown ==
  ASSUME NEW t, IsApi(t), NEW key, NEW u, u = WonBidRow(t, key)
  PROVE  /\ IsApi(u) /\ Shows(t, u)
         /\ key \in DOMAIN t.bids => key \in DOMAIN u.bids /\ u.bids[key].won
<1>1. CASE key \in DOMAIN t.bids
  <2>1. PICK row : row = [t.bids[key] EXCEPT !.won = TRUE]
    BY Zenon
  <2>2. IsBidRow(row) /\ Keeps(t.bids[key], row)
    BY Zenon, <1>1, <2>1 DEF IsApi, AreBids, IsBidRow, HasFields, Keeps
  <2>3. row.won
    BY Zenon, <1>1, <2>1 DEF IsApi, AreBids, IsBidRow, HasFields
  <2>4. u = [t EXCEPT !.bids = [t.bids EXCEPT ![key] = row]]
    BY Zenon, <1>1, <2>1 DEF WonBidRow
  <2>5. IsApi(u) /\ Shows(t, u)
    BY Zenon, <1>1, <2>2, <2>4, OneBidWritten
  <2>6. u.bids = [t.bids EXCEPT ![key] = row]
    BY <2>4 DEF IsApi
  <2> QED
    BY Zenon, <1>1, <2>3, <2>5, <2>6 DEF IsApi, IsTable
<1>2. CASE key \notin DOMAIN t.bids
  <2>1. u = t
    BY Zenon, <1>2 DEF WonBidRow
  <2> QED
    BY Zenon, <1>2, <2>1 DEF Shows, AllKept, Keeps
<1> QED
  BY Zenon, <1>1, <1>2

\* AcknowledgedBid: a bid that is there is acked.
LEMMA AckedShown ==
  ASSUME NEW t, IsApi(t), NEW key, NEW u, u = AcknowledgedBidRow(t, key)
  PROVE  /\ IsApi(u) /\ Shows(t, u)
         /\ key \in DOMAIN t.bids => key \in DOMAIN u.bids /\ u.bids[key].acked
<1>1. CASE key \in DOMAIN t.bids
  <2>1. PICK row : row = [t.bids[key] EXCEPT !.acked = TRUE]
    BY Zenon
  <2>2. IsBidRow(row) /\ Keeps(t.bids[key], row)
    BY Zenon, <1>1, <2>1 DEF IsApi, AreBids, IsBidRow, HasFields, Keeps
  <2>3. row.acked
    BY Zenon, <1>1, <2>1 DEF IsApi, AreBids, IsBidRow, HasFields
  <2>4. u = [t EXCEPT !.bids = [t.bids EXCEPT ![key] = row]]
    BY Zenon, <1>1, <2>1 DEF AcknowledgedBidRow
  <2>5. IsApi(u) /\ Shows(t, u)
    BY Zenon, <1>1, <2>2, <2>4, OneBidWritten
  <2>6. u.bids = [t.bids EXCEPT ![key] = row]
    BY <2>4 DEF IsApi
  <2> QED
    BY Zenon, <1>1, <2>3, <2>5, <2>6 DEF IsApi, IsTable
<1>2. CASE key \notin DOMAIN t.bids
  <2>1. u = t
    BY Zenon, <1>2 DEF AcknowledgedBidRow
  <2> QED
    BY Zenon, <1>2, <2>1 DEF Shows, AllKept, Keeps
<1> QED
  BY Zenon, <1>1, <1>2

\* ProposalDelivered: nothing disappears.
LEMMA ProposalShown ==
  ASSUME NEW t, IsApi(t), NEW key, NEW proposal, NEW u, u = ProposalDeliveredRow(t, key, proposal)
  PROVE  IsApi(u) /\ Shows(t, u)
<1>1. CASE key \in DOMAIN t.bids
  <2>1. PICK row : row = [t.bids[key] EXCEPT !.proposal = Present(proposal)]
    BY Zenon
  <2>2. IsBidRow(row) /\ Keeps(t.bids[key], row)
    BY Zenon, <1>1, <2>1 DEF IsApi, AreBids, IsBidRow, HasFields, Keeps
  <2>3. u = [t EXCEPT !.bids = [t.bids EXCEPT ![key] = row]]
    BY Zenon, <1>1, <2>1 DEF ProposalDeliveredRow
  <2> QED
    BY Zenon, <1>1, <2>2, <2>3, OneBidWritten
<1>2. CASE key \notin DOMAIN t.bids
  <2>1. u = t
    BY Zenon, <1>2 DEF ProposalDeliveredRow
  <2> QED
    BY Zenon, <2>1 DEF Shows, AllKept, Keeps
<1> QED
  BY Zenon, <1>1, <1>2

--------------------------------------------------------------------------------
(* The events. *)

\* What auctioneerd says in an event about an auction or a bid.
EventOK(e) ==
    /\ e.topic \in BidTopics \union {"auction-started", "auction-closed",
                                     "auction-proposal-cid-delivered"}
    /\ e.topic = "auction-started" => \E a : e.content = [auction |-> Summary(a)]
    /\ e.topic \in BidTopics => \E bid : e.content = BidContent(bid)

\* The row of the bid an event is about.
BidKey(e) == <<e.content.auction.id, Text(e.content.bid.bidder)>>

\* Tables t show event e.
Shown(e, t) ==
    /\ e.topic = "auction-started" => e.content.auction.id \in DOMAIN t.auctions
    /\ e.topic \in BidTopics => BidKey(e) \in DOMAIN t.bids
    /\ e.topic = "auction-winner-selected" => t.bids[BidKey(e)].won
    /\ e.topic = "auction-winner-acked" => t.bids[BidKey(e)].acked

\* Everything apid was told is shown.
ShownInv ==
    /\ IsApi(api)
    /\ followed = "apid" => \A e \in events : EventOK(e)
    /\ \A e \in told : Shown(e, api)

\* What is shown stays shown.
LEMMA StillShown ==
  ASSUME NEW e, NEW t, NEW u, Shown(e, t), Shows(t, u)
  PROVE  Shown(e, u)
<1>1. e.topic = "auction-winner-selected" => e.topic \in BidTopics
  BY DEF BidTopics
<1>2. e.topic = "auction-winner-acked" => e.topic \in BidTopics
  BY DEF BidTopics
<1> QED
  BY Zenon, <1>1, <1>2 DEF Shown, Shows, AllKept, Keeps

\* The listener is told which auction it is,
LEMMA StartedHeard ==
  ASSUME NEW e, EventOK(e), e.topic = "auction-started", NEW m, NEW heardOf,
         m = ToMessage(e.topic, e.content, "op")[1], heardOf = ToListener(e.topic, m)
  PROVE  heardOf[1].auction.id = e.content.auction.id
<1>1. PICK a, c : c = e.content /\ c = [auction |-> Summary(a)]
  BY Zenon DEF EventOK
<1>2. PICK s : s = AuctionToPbSummary(c.auction)
  BY Zenon
<1>3. s.id = a /\ c.auction.id = a
  BY <1>1, <1>2 DEF AuctionToPbSummary, Summary
<1>4. ToMessage(e.topic, c, "op") = PublishMsgAuctionStarted(c, "op")
  BY DEF ToMessage
<1>5. heardOf = OnAuctionStartedTopic(m)
  BY DEF ToListener
<1>6. m = [auction |-> s]
  <2>1. ToMessage(e.topic, c, "op") = Present([auction |-> s])
    BY Zenon, <1>2, <1>4 DEF PublishMsgAuctionStarted
  <2>2. \A x : Present(x)[1] = x
    BY DEF Present
  <2> QED
    BY Zenon, <1>1, <2>1, <2>2
<1>7. heardOf[1] = m
  BY <1>5 DEF OnAuctionStartedTopic, Present
<1> QED
  BY <1>1, <1>3, <1>6, <1>7

\* and whose bid.
LEMMA BidHeard ==
  ASSUME NEW e, EventOK(e), e.topic \in BidTopics, NEW m, NEW heardOf,
         m = ToMessage(e.topic, e.content, "op")[1], heardOf = ToListener(e.topic, m)
  PROVE  /\ heardOf[1].auction.id = e.content.auction.id
         /\ heardOf[1].bid.bidder = e.content.bid.bidder
<1>1. PICK bid, c : c = e.content /\ c = BidContent(bid)
  BY Zenon DEF EventOK
<1>2. PICK s : s = AuctionToPbSummary(c.auction)
  BY Zenon
<1>3. s.id = bid[1] /\ c.auction.id = bid[1]
  BY <1>1, <1>2 DEF AuctionToPbSummary, Summary, BidContent
<1>4. PICK b : b = BidToPb(c.bid)
  BY Zenon
<1>5. b = [sp |-> b.sp, bidder |-> b.bidder, price |-> b.price, startEpoch |-> b.startEpoch,
           fast |-> b.fast]
      /\ b.bidder = Text(c.bid.bidder)
  BY Zenon, <1>4 DEF BidToPb
<1>6. ToMessage(e.topic, c, "op") = PublishMsgAuctionBid(c, "op")
  BY DEF ToMessage, BidTopics
<1>7. heardOf = OnAuctionBidTopic(m)
  BY DEF ToListener, BidTopics
<1>8. m = [auction |-> s, bid |-> b]
  <2>1. ToMessage(e.topic, c, "op") = Present([auction |-> s, bid |-> b])
    BY Zenon, <1>2, <1>4, <1>6 DEF PublishMsgAuctionBid
  <2>2. \A x : Present(x)[1] = x
    BY DEF Present
  <2> QED
    BY Zenon, <1>1, <2>1, <2>2
<1>9. m.auction = s /\ m.bid = b
  BY <1>8
<1>10. Parses(m.bid.bidder)
  <2>1. Text(c.bid.bidder) # Garbled
    BY DEF Text, Garbled
  <2> QED
    BY Zenon, <1>5, <1>9, <2>1 DEF Parses
<1>11. PICK q : q = BidFromPb(b)
  BY Zenon
<1>12. q.bidder = c.bid.bidder
  <2>1. q = [b EXCEPT !.bidder = Parse(b.bidder)]
    BY Zenon, <1>11 DEF BidFromPb
  <2>2. q.bidder = Parse(b.bidder)
    BY Zenon, <1>5, <2>1
  <2> QED
    BY Zenon, <1>5, <2>2, TextTrip
<1>13. heardOf[1] = [m EXCEPT !.bid = q]
  <2>1. heardOf = Present([m EXCEPT !.bid = q])
    BY Zenon, <1>7, <1>9, <1>10, <1>11 DEF OnAuctionBidTopic, IfValid
  <2>2. \A x : Present(x)[1] = x
    BY DEF Present
  <2> QED
    BY Zenon, <2>1, <2>2
<1>14. [m EXCEPT !.bid = q].auction = s /\ [m EXCEPT !.bid = q].bid = q
  BY <1>8
<1> QED
  BY Zenon, <1>1, <1>3, <1>12, <1>13, <1>14

\* The last stage of a listener.
LastIs(s, v) == s[Len(s)] = v

\* The last of two, three or four stages, and what a stage is.
LEMMA TwoStages ==
  ASSUME NEW a, NEW u, NEW s, s = <<a, u>>
  PROVE  /\ Len(s) \in Nat \ {0}
         /\ LastIs(s, u)
         /\ \A i \in 1..Len(s) : s[i] \in {a, u}
  <1>1. Len(s) = 2 /\ s[1] = a /\ s[2] = u
    OBVIOUS
  <1>2. Len(s) \in Nat \ {0} /\ LastIs(s, u)
    BY ONLY <1>1 DEF LastIs
  <1>3. ASSUME NEW i \in 1..Len(s)
        PROVE  s[i] \in {a, u}
    <2>1. i \in 1..2
      BY <1>1
    <2>2. i = 1 \/ i = 2
      BY ONLY <2>1
    <2> QED
      BY Zenon, <1>1, <2>2
  <1> QED
    BY Zenon, <1>2, <1>3

\* Of three.
LEMMA ThreeStages ==
  ASSUME NEW a, NEW t, NEW u, NEW s, s = <<a, t, u>>
  PROVE  /\ Len(s) \in Nat \ {0}
         /\ LastIs(s, u)
         /\ \A i \in 1..Len(s) : s[i] \in {a, t, u}
  <1>1. Len(s) = 3 /\ s[1] = a /\ s[2] = t /\ s[3] = u
    OBVIOUS
  <1>2. Len(s) \in Nat \ {0} /\ LastIs(s, u)
    BY ONLY <1>1 DEF LastIs
  <1>3. ASSUME NEW i \in 1..Len(s)
        PROVE  s[i] \in {a, t, u}
    <2>1. i \in 1..3
      BY <1>1
    <2>2. i = 1 \/ i = 2 \/ i = 3
      BY ONLY <2>1
    <2> QED
      BY Zenon, <1>1, <2>2
  <1> QED
    BY Zenon, <1>2, <1>3

\* Of four.
LEMMA FourStages ==
  ASSUME NEW a, NEW t, NEW u, NEW w, NEW s, s = <<a, t, u, w>>
  PROVE  /\ Len(s) \in Nat \ {0}
         /\ LastIs(s, w)
         /\ \A i \in 1..Len(s) : s[i] \in {a, t, u, w}
  <1>1. Len(s) = 4 /\ s[1] = a /\ s[2] = t /\ s[3] = u /\ s[4] = w
    OBVIOUS
  <1>2. Len(s) \in Nat \ {0} /\ LastIs(s, w)
    BY ONLY <1>1 DEF LastIs
  <1>3. ASSUME NEW i \in 1..Len(s)
        PROVE  s[i] \in {a, t, u, w}
    <2>1. i \in 1..4
      BY <1>1
    <2>2. i = 1 \/ i = 2 \/ i = 3 \/ i = 4
      BY ONLY <2>1
    <2> QED
      BY Zenon, <1>1, <2>2
  <1> QED
    BY Zenon, <1>2, <1>3

\* A listener's queries, up to the last or to one that fails: everything that was shown is
\* still shown, and after the last the event is.
LEMMA StagesShow ==
  ASSUME NEW e, EventOK(e), IsApi(api), NEW m, NEW heardOf,
         m = ToMessage(e.topic, e.content, "op")[1], heardOf = ToListener(e.topic, m),
         NEW stages, stages = Listener(e.topic, heardOf[1])
  PROVE  /\ Len(stages) \in Nat \ {0}
         /\ \A i \in 1..Len(stages) : IsApi(stages[i]) /\ Shows(api, stages[i])
         /\ Shown(e, stages[Len(stages)])
<1>0. PICK h, id : h = heardOf[1] /\ id = h.auction.id
  BY Zenon
<1>1. Shows(api, api)
  BY Zenon DEF Shows, AllKept, Keeps
<1>2. CASE e.topic = "auction-started"
  <2>1. PICK u : u = CreateOrUpdateAuction(api, h.auction)
    BY Zenon
  <2>2. IsApi(u) /\ Shows(api, u) /\ id \in DOMAIN u.auctions
    BY Zenon, <1>0, <2>1, AuctionShown DEF CreateOrUpdateAuction
  <2>3. stages = <<api, u>>
    <3>1. stages = OnAuctionStarted(h)
      BY <1>0, <1>2 DEF Listener
    <3> QED
      BY Zenon, <2>1, <3>1 DEF OnAuctionStarted
  <2>4. id = e.content.auction.id
    BY Zenon, <1>0, <1>2, StartedHeard
  <2>5. Shown(e, u)
    <3>1. e.topic \notin BidTopics /\ e.topic # "auction-winner-selected"
          /\ e.topic # "auction-winner-acked"
      BY <1>2 DEF BidTopics
    <3> QED
      BY Zenon, <2>2, <2>4, <3>1 DEF Shown
  <2>7. IsApi(u) /\ Shows(api, u)
    BY Zenon, <2>2
  <2>8. ASSUME NEW i \in 1..Len(stages)
        PROVE  IsApi(stages[i]) /\ Shows(api, stages[i])
    <3>1. stages[i] \in {api, u}
      BY Zenon, <2>3, TwoStages
    <3> QED
      BY Zenon, <1>1, <2>7, <3>1
  <2>9. Len(stages) \in Nat \ {0} /\ stages[Len(stages)] = u
    <3>1. Len(stages) \in Nat \ {0}
      BY Zenon, <2>3, TwoStages
    <3>2. LastIs(stages, u)
      BY Zenon, <2>3, TwoStages
    <3> QED
      BY Zenon, <3>1, <3>2 DEF LastIs
  <2> QED
    BY Zenon, <2>5, <2>8, <2>9
<1>3. CASE e.topic \in BidTopics
  <2>1. PICK t, u, key : /\ t = CreateOrUpdateAuction(api, h.auction)
                         /\ u = CreateOrUpdateBid(t, id, h.bid)
                         /\ key = <<id, Text(h.bid.bidder)>>
    BY Zenon
  <2>2. IsApi(t) /\ Shows(api, t)
    BY Zenon, <1>0, <2>1, AuctionShown DEF CreateOrUpdateAuction
  <2>3. IsApi(u) /\ Shows(t, u) /\ key \in DOMAIN u.bids
    <3>1. PICK sp : u = CreateOrUpdateBidRow(t, key, sp)
      BY Zenon, <2>1 DEF CreateOrUpdateBid
    <3> QED
      BY Zenon, <2>2, <3>1, BidShown
  <2>4. Shows(api, u)
    BY Zenon, <2>2, <2>3, ShowsOn
  <2>5. key = BidKey(e)
    <3>1. id = e.content.auction.id /\ h.bid.bidder = e.content.bid.bidder
      BY Zenon, <1>0, <1>3, BidHeard
    <3> QED
      BY Zenon, <2>1, <3>1 DEF BidKey
  <2>6. CASE e.topic = "auction-bid-received"
    <3>1. stages = <<api, t, u>>
      <4>1. stages = OnAuctionBidReceived(h)
        BY <1>0, <2>6 DEF Listener
      <4> QED
        BY Zenon, <1>0, <2>1, <4>1 DEF OnAuctionBidReceived
    <3>2. Shown(e, u)
      <4>1. e.topic # "auction-started" /\ e.topic # "auction-winner-selected"
            /\ e.topic # "auction-winner-acked"
        BY <2>6
      <4> QED
        BY Zenon, <2>3, <2>5, <4>1 DEF Shown
    <3>4. IsApi(t) /\ Shows(api, t) /\ IsApi(u)
      BY Zenon, <2>2, <2>3
    <3>5. ASSUME NEW i \in 1..Len(stages)
          PROVE  IsApi(stages[i]) /\ Shows(api, stages[i])
      <4>1. stages[i] \in {api, t, u}
        BY Zenon, <3>1, ThreeStages
      <4> QED
        BY Zenon, <1>1, <2>4, <3>4, <4>1
    <3>6. Len(stages) \in Nat \ {0} /\ stages[Len(stages)] = u
      <4>1. Len(stages) \in Nat \ {0}
        BY Zenon, <3>1, ThreeStages
      <4>2. LastIs(stages, u)
        BY Zenon, <3>1, ThreeStages
      <4> QED
        BY Zenon, <4>1, <4>2 DEF LastIs
    <3> QED
      BY Zenon, <3>2, <3>5, <3>6
  <2>7. CASE e.topic = "auction-winner-selected"
    <3>0. PICK w : w = WonBid(u, id, h.bid)
      BY Zenon
    <3>1. w = WonBidRow(u, key)
      BY Zenon, <2>1, <3>0 DEF WonBid
    <3>2. IsApi(w) /\ Shows(u, w) /\ w.bids[key].won /\ key \in DOMAIN w.bids
      BY Zenon, <2>3, <3>1, WonShown
    <3>3. Shows(api, w)
      BY Zenon, <2>4, <3>2, ShowsOn
    <3>4. stages = <<api, t, u, w>>
      <4>1. stages = OnAuctionWinnerSelected(h)
        BY <1>0, <2>7 DEF Listener
      <4> QED
        BY Zenon, <1>0, <2>1, <3>0, <4>1 DEF OnAuctionWinnerSelected
    <3>5. Shown(e, w)
      <4>1. e.topic # "auction-started" /\ e.topic # "auction-winner-acked"
        BY <2>7
      <4> QED
        BY Zenon, <2>5, <3>2, <4>1 DEF Shown
    <3>7. IsApi(w)
      BY Zenon, <3>2
    <3>8. IsApi(t) /\ Shows(api, t) /\ IsApi(u)
      BY Zenon, <2>2, <2>3
    <3>9. ASSUME NEW i \in 1..Len(stages)
          PROVE  IsApi(stages[i]) /\ Shows(api, stages[i])
      <4>1. stages[i] \in {api, t, u, w}
        BY Zenon, <3>4, FourStages
      <4> QED
        BY Zenon, <1>1, <2>4, <3>3, <3>7, <3>8, <4>1
    <3>10. Len(stages) \in Nat \ {0} /\ stages[Len(stages)] = w
      <4>1. Len(stages) \in Nat \ {0}
        BY Zenon, <3>4, FourStages
      <4>2. LastIs(stages, w)
        BY Zenon, <3>4, FourStages
      <4> QED
        BY Zenon, <4>1, <4>2 DEF LastIs
    <3> QED
      BY Zenon, <3>5, <3>9, <3>10
  <2>8. CASE e.topic = "auction-winner-acked"
    <3>0. PICK w : w = AckedBid(u, id, h.bid)
      BY Zenon
    <3>1. w = AcknowledgedBidRow(u, key)
      BY Zenon, <2>1, <3>0 DEF AckedBid
    <3>2. IsApi(w) /\ Shows(u, w) /\ w.bids[key].acked /\ key \in DOMAIN w.bids
      BY Zenon, <2>3, <3>1, AckedShown
    <3>3. Shows(api, w)
      BY Zenon, <2>4, <3>2, ShowsOn
    <3>4. stages = <<api, t, u, w>>
      <4>1. stages = OnAuctionWinnerAcked(h)
        BY <1>0, <2>8 DEF Listener
      <4> QED
        BY Zenon, <1>0, <2>1, <3>0, <4>1 DEF OnAuctionWinnerAcked
    <3>5. Shown(e, w)
      <4>1. e.topic # "auction-started" /\ e.topic # "auction-winner-selected"
        BY <2>8
      <4> QED
        BY Zenon, <2>5, <3>2, <4>1 DEF Shown
    <3>7. IsApi(w)
      BY Zenon, <3>2
    <3>8. IsApi(t) /\ Shows(api, t) /\ IsApi(u)
      BY Zenon, <2>2, <2>3
    <3>9. ASSUME NEW i \in 1..Len(stages)
          PROVE  IsApi(stages[i]) /\ Shows(api, stages[i])
      <4>1. stages[i] \in {api, t, u, w}
        BY Zenon, <3>4, FourStages
      <4> QED
        BY Zenon, <1>1, <2>4, <3>3, <3>7, <3>8, <4>1
    <3>10. Len(stages) \in Nat \ {0} /\ stages[Len(stages)] = w
      <4>1. Len(stages) \in Nat \ {0}
        BY Zenon, <3>4, FourStages
      <4>2. LastIs(stages, w)
        BY Zenon, <3>4, FourStages
      <4> QED
        BY Zenon, <4>1, <4>2 DEF LastIs
    <3> QED
      BY Zenon, <3>5, <3>9, <3>10
  <2> QED
    BY Zenon, <1>3, <2>6, <2>7, <2>8 DEF BidTopics
<1>4. CASE e.topic \in {"auction-closed", "auction-proposal-cid-delivered"}
  <2>1. PICK u : stages = <<api, u>> /\ IsApi(u) /\ Shows(api, u)
    <3>1. CASE e.topic = "auction-closed"
      <4>1. stages = OnAuctionClosed(h)
        BY <1>0, <3>1 DEF Listener
      <4>2. PICK u : u = AuctionClosed(api, h) /\ stages = <<api, u>>
        BY Zenon, <4>1 DEF OnAuctionClosed
      <4> QED
        BY Zenon, <4>2, ClosedShown
    <3>2. CASE e.topic = "auction-proposal-cid-delivered"
      <4>1. stages = OnAuctionProposalCidDelivered(h)
        BY <1>0, <3>2 DEF Listener
      <4>2. PICK u, key : /\ u = ProposalDeliveredRow(api, key, h.proposalCid)
                          /\ stages = <<api, u>>
        BY Zenon, <4>1 DEF OnAuctionProposalCidDelivered, ProposalDelivered
      <4> QED
        BY Zenon, <4>2, ProposalShown
    <3> QED
      BY Zenon, <1>4, <3>1, <3>2
  <2>2. Shown(e, u)
    <3>1. e.topic # "auction-started" /\ e.topic \notin BidTopics
          /\ e.topic # "auction-winner-selected" /\ e.topic # "auction-winner-acked"
      BY <1>4 DEF BidTopics
    <3> QED
      BY Zenon, <3>1 DEF Shown
  <2>4. IsApi(u) /\ Shows(api, u)
    BY Zenon, <2>1
  <2>5. ASSUME NEW i \in 1..Len(stages)
        PROVE  IsApi(stages[i]) /\ Shows(api, stages[i])
    <3>1. stages[i] \in {api, u}
      BY Zenon, <2>1, TwoStages
    <3> QED
      BY Zenon, <1>1, <2>4, <3>1
  <2>6. Len(stages) \in Nat \ {0} /\ stages[Len(stages)] = u
    <3>1. Len(stages) \in Nat \ {0}
      BY Zenon, <2>1, TwoStages
    <3>2. LastIs(stages, u)
      BY Zenon, <2>1, TwoStages
    <3> QED
      BY Zenon, <3>1, <3>2 DEF LastIs
  <2> QED
    BY Zenon, <2>2, <2>5, <2>6
<1> QED
  BY Zenon, <1>2, <1>3, <1>4 DEF EventOK

\* auctioneerd leaves the tables of apid alone.
LEMMA ApidAlone ==
  ASSUME Auctioneerd
  PROVE  UNCHANGED apiVars
BY Zenon
   DEF Auctioneerd, DealProposalAccepted, DealFinalized, StartDelivery, PublishProposal,
       EndDelivery, Crash, MarkFinalizedDeal, HandleBidbotEvents, RefreshProviderRates

\* An event is handled, or a query of its listener fails.
LEMMA TellShows ==
  ASSUME ShownInv, NEW e \in events, followed = "apid", TellApid(e)
  PROVE  ShownInv'
<1>1. PICK m, heardOf, stages :
         /\ m = ToMessage(e.topic, e.content, "op")[1] /\ heardOf = ToListener(e.topic, m)
         /\ stages = Listener(e.topic, heardOf[1])
         /\ Tell(e, heardOf[1]) /\ UNCHANGED auctioneerVars
  BY Zenon DEF TellApid
<1>2. EventOK(e) /\ IsApi(api)
  BY Zenon DEF ShownInv
<1>3. /\ Len(stages) \in Nat \ {0}
      /\ \A i \in 1..Len(stages) : IsApi(stages[i]) /\ Shows(api, stages[i])
      /\ Shown(e, stages[Len(stages)])
  BY Zenon, <1>1, <1>2, StagesShow
<1>4. events' = events /\ followed' = followed
  BY <1>1 DEF auctioneerVars
<1>5. \/ api' = stages[Len(stages)] /\ told' = told \union {e}
      \/ (\E n \in 1..(Len(stages) - 1) : api' = stages[n]) /\ told' = told
  BY Zenon, <1>1 DEF Tell
<1>6. CASE api' = stages[Len(stages)] /\ told' = told \union {e}
  <2>1. Len(stages) \in 1..Len(stages)
    BY <1>3
  <2>2. IsApi(api') /\ Shows(api, api')
    BY Zenon, <1>3, <1>6, <2>1
  <2>3. Shown(e, api')
    BY Zenon, <1>3, <1>6
  <2>4. \A x \in told' : Shown(x, api')
    BY Zenon, <1>6, <2>2, <2>3, StillShown DEF ShownInv
  <2> QED
    BY Zenon, <1>4, <2>2, <2>4 DEF ShownInv
<1>7. CASE (\E n \in 1..(Len(stages) - 1) : api' = stages[n]) /\ told' = told
  <2>1. PICK n \in 1..(Len(stages) - 1) : api' = stages[n]
    BY Zenon, <1>7
  <2>2. n \in 1..Len(stages)
    BY <1>3
  <2>3. IsApi(api') /\ Shows(api, api')
    BY Zenon, <1>3, <2>1, <2>2
  <2>4. \A x \in told' : Shown(x, api')
    BY Zenon, <1>7, <2>3, StillShown DEF ShownInv
  <2> QED
    BY Zenon, <1>4, <2>3, <2>4 DEF ShownInv
<1> QED
  BY Zenon, <1>5, <1>6, <1>7

\* The events of an auction are of the kinds apid is told.
LEMMA PublishedOKEvents ==
  ASSUME NEW a, NEW saved, NEW asked0, NEW agreed, NEW closing,
         NEW e \in Published(a, saved, asked0, agreed, closing)
  PROVE  EventOK(e)
<1>1. CASE e = [topic |-> "auction-started", content |-> [auction |-> Summary(a)]]
  <2>1. PICK c : c = [auction |-> Summary(a)] /\ e = [topic |-> "auction-started", content |-> c]
    BY Zenon, <1>1
  <2>2. e.topic = "auction-started" /\ e.content = c /\ "auction-started" \notin BidTopics
    BY <2>1 DEF BidTopics
  <2> QED
    BY Zenon, <2>1, <2>2 DEF EventOK
<1>2. CASE e = [topic |-> "auction-closed", content |-> closing]
  <2>1. e.topic = "auction-closed" /\ "auction-closed" \notin BidTopics
    BY <1>2 DEF BidTopics
  <2> QED
    BY <2>1 DEF EventOK
<1>3. ASSUME NEW bid, NEW t \in BidTopics, e = [topic |-> t, content |-> BidContent(bid)]
      PROVE  EventOK(e)
  <2>1. PICK c : c = BidContent(bid) /\ e = [topic |-> t, content |-> c]
    BY Zenon, <1>3
  <2>2. e.topic \in BidTopics /\ e.content = c /\ e.topic # "auction-started"
    BY <2>1 DEF BidTopics
  <2> QED
    BY Zenon, <2>1, <2>2 DEF EventOK
<1>4. ASSUME NEW bid, NEW error, e = ProposalEvent(bid, error)
      PROVE  EventOK(e)
  <2>1. PICK c : e = [topic |-> "auction-proposal-cid-delivered", content |-> c]
    BY Zenon, <1>4 DEF ProposalEvent
  <2>2. e.topic = "auction-proposal-cid-delivered"
        /\ "auction-proposal-cid-delivered" \notin BidTopics
    BY <2>1 DEF BidTopics
  <2> QED
    BY <2>2 DEF EventOK
<1>5. \A t \in {"auction-bid-received", "auction-winner-selected", "auction-winner-acked"} :
         t \in BidTopics
  BY DEF BidTopics
<1>6. \/ e = [topic |-> "auction-started", content |-> [auction |-> Summary(a)]]
      \/ e = [topic |-> "auction-closed", content |-> closing]
      \/ \E bid \in saved : e = [topic |-> "auction-bid-received", content |-> BidContent(bid)]
      \/ \E bid \in asked0 :
            e = [topic |-> "auction-winner-selected", content |-> BidContent(bid)]
      \/ \E bid \in agreed : e = [topic |-> "auction-winner-acked", content |-> BidContent(bid)]
      \/ \E p \in agreed \X {"", "bidder returned error"} : e = ProposalEvent(p[1], p[2])
  BY Zenon DEF Published
<1> QED
  BY Zenon, <1>1, <1>2, <1>3, <1>4, <1>5, <1>6

\* ToldIsShown, for any auctions, bidders and events: apid shows every auction and bid it
\* was told of, won or acked if it was told so, whatever the order and the repetition of
\* events and whichever queries fail.
THEOREM ToldIsAlwaysShown == DeliverySpec => []ToldIsShown
<1>1. DeliveryInit => ShownInv
  <2> SUFFICES ASSUME DeliveryInit PROVE ShownInv
    OBVIOUS
  <2>1. api = [auctions |-> <<>>, bids |-> <<>>] /\ told = {}
    BY Zenon DEF DeliveryInit, ApiInit
  <2>2. /\ api.auctions = <<>> /\ api.bids = <<>>
        /\ api = [auctions |-> api.auctions, bids |-> api.bids]
    BY <2>1
  <2>3. IsTable(<<>>) /\ AreBids(<<>>)
    BY DEF IsTable, AreBids
  <2>4. IsApi(api)
    BY Zenon, <2>2, <2>3 DEF IsApi
  <2>5. followed = "apid" => \A e \in events : EventOK(e)
    <3>1. CASE followed = "apid"
      <4>0. followed # "auctioneerd"
        BY <3>1
      <4>1. \E a, saved, asked0, agreed, closing :
               events = Published(a, saved, asked0, agreed, closing)
        BY Zenon, <4>0 DEF DeliveryInit
      <4> QED
        BY Zenon, <4>1, PublishedOKEvents
    <3> QED
      BY Zenon, <3>1
  <2> QED
    BY Zenon, <2>1, <2>4, <2>5 DEF ShownInv
<1>2. ShownInv /\ [DeliveryNext]_vars => ShownInv'
  <2> SUFFICES ASSUME ShownInv, [DeliveryNext]_vars PROVE ShownInv'
    OBVIOUS
  <2>1. CASE UNCHANGED vars
    <3>1. UNCHANGED <<api, told, events, followed>>
      BY <2>1 DEF vars, auctioneerVars, apiVars
    <3> QED
      BY Zenon, <3>1 DEF ShownInv
  <2>2. CASE followed = "auctioneerd" /\ followed' = followed /\ Auctioneerd
    <3>1. UNCHANGED <<api, told>>
      BY Zenon, <2>2, ApidAlone DEF apiVars
    <3>2. followed' # "apid"
      BY <2>2
    <3> QED
      BY Zenon, <3>1, <3>2 DEF ShownInv
  <2>3. CASE followed = "apid" /\ \E event \in events : TellApid(event)
    BY Zenon, <2>3, TellShows
  <2> QED
    BY Zenon, <2>1, <2>2, <2>3 DEF DeliveryNext
<1>3. ShownInv => ToldIsShown
  <2> SUFFICES ASSUME ShownInv, NEW e \in told
               PROVE  CASE e.topic = "auction-started" ->
                               e.content.auction.id \in DOMAIN api.auctions
                        [] e.topic = "auction-bid-received" -> BidKey(e) \in DOMAIN api.bids
                        [] e.topic = "auction-winner-selected" ->
                              BidKey(e) \in DOMAIN api.bids /\ api.bids[BidKey(e)].won
                        [] e.topic = "auction-winner-acked" ->
                              BidKey(e) \in DOMAIN api.bids /\ api.bids[BidKey(e)].acked
                        [] OTHER -> TRUE
    BY Zenon DEF ToldIsShown, BidKey
  <2>1. Shown(e, api)
    BY Zenon DEF ShownInv
  <2> QED
    BY Zenon, <2>1 DEF Shown, BidTopics
<1> QED
  BY <1>1, <1>2, <1>3, PTL DEF DeliverySpec

--------------------------------------------------------------------------------
(* What auctioneerd holds against a provider.  d are its tables, out the         *)
(* outcomes that dealerd reported.                                               *)

IsOffer(row) == HasFields(row, {"bidder", "won", "proposal", "delivered", "deliveryError",
                                "confirmed", "failed"})

AreOffers(f) == \A bid \in DOMAIN f : IsOffer(f[bid])

IsStore(d) ==
    /\ HasFields(d, {"auctions", "bids", "providers", "events"})
    /\ IsTable(d.bids) /\ IsFiniteSet(DOMAIN d.bids) /\ AreOffers(d.bids)

Reported(bid, out) == \E o \in out : o.bid = bid /\ o.error # ""

\* Only deals that were reported as failed are marked so.
FailedReported(f, out) == \A bid \in DOMAIN f : f[bid].failed => Reported(bid, out)

\* Only providers of such deals have a failure rate.
RatesReported(failure, out) ==
    \A p \in DOMAIN failure : failure[p] > 0 => \E o \in out : o.bid[2] = p /\ o.error # ""

BlameInv ==
    /\ IsStore(db) /\ FailedReported(db.bids, outcomes)
    /\ HasFields(rates, {"failure", "onChain", "winning"})
    /\ RatesReported(rates.failure, outcomes)

\* A query that leaves the bids alone.
LEMMA BidsAlone ==
  ASSUME NEW d, IsStore(d), NEW u, HasFields(u, {"auctions", "bids", "providers", "events"}),
         u.bids = d.bids, NEW out, FailedReported(d.bids, out)
  PROVE  IsStore(u) /\ FailedReported(u.bids, out)
BY Zenon DEF IsStore

\* A query that writes the row of one bid, which is marked as failed only if it was or
\* was reported.
LEMMA OfferWritten ==
  ASSUME NEW d, IsStore(d), NEW bid \in DOMAIN d.bids, NEW row, IsOffer(row),
         NEW out, FailedReported(d.bids, out), row.failed => Reported(bid, out),
         NEW u, u = [d EXCEPT !.bids = [d.bids EXCEPT ![bid] = row]]
  PROVE  IsStore(u) /\ FailedReported(u.bids, out)
<1>1. PICK f : f = [d.bids EXCEPT ![bid] = row]
  BY Zenon
<1>2. DOMAIN f = DOMAIN d.bids /\ IsTable(f) /\ f[bid] = row
  BY Zenon, <1>1 DEF IsStore, IsTable
<1>3. \A b \in DOMAIN d.bids : b # bid => f[b] = d.bids[b]
  BY Zenon, <1>1 DEF IsStore, IsTable
<1>4. AreOffers(f)
  BY Zenon, <1>2, <1>3 DEF IsStore, AreOffers
<1>5. ASSUME NEW b \in DOMAIN f, f[b].failed PROVE Reported(b, out)
  <2>1. CASE b = bid
    BY Zenon, <1>2, <1>5, <2>1
  <2>2. CASE b # bid
    BY Zenon, <1>2, <1>3, <1>5, <2>2 DEF FailedReported
  <2> QED
    BY Zenon, <2>1, <2>2
<1>6. u = [d EXCEPT !.bids = f]
  BY Zenon, <1>1
<1>7. u.bids = f /\ HasFields(u, {"auctions", "bids", "providers", "events"})
  BY <1>6 DEF IsStore, HasFields
<1>8. IsFiniteSet(DOMAIN f)
  BY Zenon, <1>2 DEF IsStore
<1>9. FailedReported(f, out)
  BY Zenon, <1>5 DEF FailedReported
<1> QED
  BY Zenon, <1>2, <1>4, <1>7, <1>8, <1>9 DEF IsStore

\* A column other than failed.
LEMMA ColumnWritten ==
  ASSUME NEW d, IsStore(d), NEW bid \in DOMAIN d.bids, NEW out, FailedReported(d.bids, out),
         NEW column, column # "failed", NEW value, NEW u,
         u = [d EXCEPT !.bids = [d.bids EXCEPT ![bid] = [d.bids[bid] EXCEPT ![column] = value]]]
  PROVE  IsStore(u) /\ FailedReported(u.bids, out)
<1>1. PICK row : row = [d.bids[bid] EXCEPT ![column] = value]
  BY Zenon
<1>2. IsOffer(d.bids[bid])
  BY Zenon DEF IsStore, AreOffers
<1>3. "failed" \in DOMAIN d.bids[bid]
  <2>1. "failed" \in {"bidder", "won", "proposal", "delivered", "deliveryError", "confirmed",
                      "failed"}
    OBVIOUS
  <2> QED
    BY Zenon, <1>2, <2>1 DEF IsOffer, HasFields
<1>4. row.failed => Reported(bid, out)
  <2>1. row.failed = d.bids[bid].failed
    BY Zenon, <1>1, <1>3
  <2> QED
    BY Zenon, <2>1 DEF FailedReported
<1>5. IsOffer(row)
  BY Zenon, <1>1, <1>2 DEF IsOffer, HasFields
<1>6. u = [d EXCEPT !.bids = [d.bids EXCEPT ![bid] = row]]
  BY Zenon, <1>1
<1> QED
  BY Zenon, <1>4, <1>5, <1>6, OfferWritten

\* SetProposalCidDelivered, SetProposalCidDeliveryError and MarkDealAsConfirmed.
LEMMA DeliverySaved ==
  ASSUME NEW d, IsStore(d), NEW out, FailedReported(d.bids, out), NEW bid, NEW value, NEW u,
         \/ u = UpdateProposalCid(d, bid, value)
         \/ u = UpdateProposalCidDeliveryError(d, bid, value)
         \/ u = UpdateDealConfirmedAt(d, bid, value)
  PROVE  IsStore(u) /\ FailedReported(u.bids, out)
<1>1. CASE bid \notin DOMAIN d.bids
  BY Zenon, <1>1 DEF UpdateProposalCid, UpdateProposalCidDeliveryError, UpdateDealConfirmedAt
<1>2. CASE bid \in DOMAIN d.bids /\ u = UpdateProposalCid(d, bid, value)
  <2>1. PICK p, y : p = Present(value) /\ y = TRUE
    BY Zenon
  <2>2. PICK w : w = [d EXCEPT !.bids = [d.bids EXCEPT ![bid] =
                          [d.bids[bid] EXCEPT !.proposal = p]]]
    BY Zenon
  <2>3. IsStore(w) /\ FailedReported(w.bids, out)
    <3>1. "proposal" # "failed"
      OBVIOUS
    <3> QED
      BY Zenon, <1>2, <2>2, <3>1, ColumnWritten
  <2>4. DOMAIN w.bids = DOMAIN d.bids
    BY <1>2, <2>2 DEF IsStore, IsTable, HasFields
  <2>5. u = [w EXCEPT !.bids = [w.bids EXCEPT ![bid] =
                [w.bids[bid] EXCEPT !.delivered = y]]]
    <3>1. u = [d EXCEPT !.bids[bid].proposal = p, !.bids[bid].delivered = y]
      BY Zenon, <1>2, <2>1 DEF UpdateProposalCid
    <3> QED
      BY <1>2, <2>2, <3>1 DEF IsStore, IsTable, HasFields
  <2> QED
    <3>1. "delivered" # "failed"
      OBVIOUS
    <3>2. bid \in DOMAIN w.bids
      BY Zenon, <1>2, <2>4
    <3> QED
      BY Zenon, <2>3, <2>5, <3>1, <3>2, ColumnWritten
<1>3. CASE bid \in DOMAIN d.bids /\ u = UpdateProposalCidDeliveryError(d, bid, value)
  <2>1. "deliveryError" # "failed"
    OBVIOUS
  <2>2. u = [d EXCEPT !.bids = [d.bids EXCEPT ![bid] =
                [d.bids[bid] EXCEPT !.deliveryError = Present(value)]]]
    BY Zenon, <1>3 DEF UpdateProposalCidDeliveryError
  <2> QED
    BY Zenon, <1>3, <2>1, <2>2, ColumnWritten
<1>4. CASE bid \in DOMAIN d.bids /\ u = UpdateDealConfirmedAt(d, bid, value)
  <2>1. "confirmed" # "failed"
    OBVIOUS
  <2>2. u = [d EXCEPT !.bids = [d.bids EXCEPT ![bid] =
                [d.bids[bid] EXCEPT !.confirmed = Present(value)]]]
    BY Zenon, <1>4 DEF UpdateDealConfirmedAt
  <2> QED
    BY Zenon, <1>4, <2>1, <2>2, ColumnWritten
<1> QED
  BY Zenon, <1>1, <1>2, <1>3, <1>4

\* MarkDealAsFailed: the deal was reported as failed.
LEMMA FailureSaved ==
  ASSUME NEW d, IsStore(d), NEW out, FailedReported(d.bids, out), NEW bid, Reported(bid, out),
         NEW u, u = UpdateDealFailedAt(d, bid)
  PROVE  IsStore(u) /\ FailedReported(u.bids, out)
<1>1. CASE bid \notin DOMAIN d.bids
  BY Zenon, <1>1 DEF UpdateDealFailedAt
<1>2. CASE bid \in DOMAIN d.bids
  <2>1. PICK row : row = [d.bids[bid] EXCEPT !.failed = TRUE]
    BY Zenon
  <2>2. IsOffer(row)
    BY Zenon, <1>2, <2>1 DEF IsStore, AreOffers, IsOffer, HasFields
  <2>3. u = [d EXCEPT !.bids = [d.bids EXCEPT ![bid] = row]]
    BY Zenon, <1>2, <2>1 DEF UpdateDealFailedAt
  <2> QED
    BY Zenon, <1>2, <2>2, <2>3, OfferWritten
<1> QED
  BY Zenon, <1>1, <1>2

\* What bidbots tell changes no bid.
LEMMA BidbotsSaved ==
  ASSUME NEW d, IsStore(d), NEW out, FailedReported(d.bids, out), NEW u,
         \/ \E p, version : u = CreateOrUpdateStorageProvider(d, p, version)
         \/ \E p : u = SetStorageProviderUnhealthy(d, p)
         \/ \E type, bid, attempts, error : u = SaveBidEvent(d, type, bid, attempts, error)
  PROVE  IsStore(u) /\ FailedReported(u.bids, out)
<1>1. \/ u = d
      \/ \E f : u = [d EXCEPT !.providers = f]
      \/ \E f : u = [d EXCEPT !.events = f]
  BY Zenon DEF CreateOrUpdateStorageProvider, SetStorageProviderUnhealthy, SaveBidEvent,
               CreateBidEvent
<1>2. u.bids = d.bids /\ HasFields(u, {"auctions", "bids", "providers", "events"})
  BY <1>1 DEF IsStore, HasFields
<1> QED
  BY Zenon, <1>2, BidsAlone

\* GetRecentWeekFailureRate: a rate above 0 is of a provider with a failed deal.
LEMMA RateIsOfFailed ==
  ASSUME NEW d, IsStore(d), NEW p \in DOMAIN GetProviderFailureRates(d),
         GetProviderFailureRates(d)[p] > 0
  PROVE  \E bid \in DOMAIN d.bids : bid[2] = p /\ d.bids[bid].failed
<1>1. PICK bids, counted :
         /\ bids = {bid \in DOMAIN d.bids :
                      /\ d.bids[bid].won
                      /\ d.bids[bid].failed \/ d.bids[bid].confirmed # Absent}
         /\ counted = {bid \in DOMAIN d.bids : d.bids[bid].confirmed = Absent}
  BY Zenon
<1>2. PICK of, both : of = {bid \in bids : bid[2] = p} /\ both = of \intersect counted
  BY Zenon
<1>3. GetProviderFailureRates(d) = RateOf(bids, counted)
  BY Zenon, <1>1 DEF GetProviderFailureRates, GetRecentWeekFailureRate
<1>4. /\ p \in {bid[2] : bid \in bids}
      /\ GetProviderFailureRates(d)[p] = (Cardinality(both) * 1000000) \div Cardinality(of)
  BY <1>2, <1>3 DEF RateOf
<1>5. of # {} /\ of \in SUBSET (DOMAIN d.bids)
  <2>1. p \in {bid[2] : bid \in bids}
    BY <1>4
  <2> QED
    BY Zenon, <1>1, <1>2, <2>1
<1>6. IsFiniteSet(of)
  BY Zenon, <1>5, FS_Subset DEF IsStore
<1>7. Cardinality(of) \in Nat \ {0}
  <2>1. Cardinality(of) \in Nat
    BY Zenon, <1>6, FS_CardinalityType
  <2>2. Cardinality(of) # 0
    BY Zenon, <1>5, <1>6, FS_EmptySet
  <2> QED
    BY <2>1, <2>2
<1>8. both # {}
  <2>1. CASE both = {}
    <3>1. Cardinality(both) = 0
      BY Zenon, <2>1, FS_EmptySet
    <3>2. GetProviderFailureRates(d)[p] = 0
      BY <1>4, <1>7, <3>1
    <3> QED
      BY <3>2
  <2> QED
    BY Zenon, <2>1
<1>9. PICK bid : bid \in both
  BY Zenon, <1>8
<1> QED
  BY Zenon, <1>1, <1>2, <1>9

\* The step of an action that changes neither the tables, the outcomes nor the rates.
LEMMA BlameAlone ==
  ASSUME BlameInv, UNCHANGED <<db, outcomes, rates>>
  PROVE  BlameInv'
<1>1. db' = db /\ outcomes' = outcomes /\ rates' = rates
  OBVIOUS
<1> QED
  BY Zenon, <1>1 DEF BlameInv

\* More outcomes are reported.
LEMMA MoreReported ==
  ASSUME NEW f, NEW rate, NEW out, NEW more, out \subseteq more,
         FailedReported(f, out), RatesReported(rate, out)
  PROVE  FailedReported(f, more) /\ RatesReported(rate, more)
BY Zenon DEF FailedReported, RatesReported, Reported

\* refreshProviderRates, of the queries that succeed.
LEMMA RatesRead ==
  ASSUME BlameInv, RefreshProviderRates
  PROVE  BlameInv'
<1>1. PICK read : read = [failure |-> GetProviderFailureRates(db),
                          onChain |-> GetProviderOnChainEpoches(db),
                          winning |-> GetProviderWinningRates(db)]
  BY Zenon
<1>2. rates' = read \/ \E kept \in DOMAIN rates : rates' = [read EXCEPT ![kept] = rates[kept]]
  BY Zenon, <1>1 DEF RefreshProviderRates
<1>3. db' = db /\ outcomes' = outcomes
  BY DEF RefreshProviderRates
<1>4. HasFields(read, {"failure", "onChain", "winning"})
      /\ read.failure = GetProviderFailureRates(db)
  BY <1>1 DEF HasFields
<1>5. HasFields(rates', {"failure", "onChain", "winning"})
  BY Zenon, <1>2, <1>4 DEF HasFields
<1>6. rates'.failure \in {read.failure, rates.failure}
  <2>1. "failure" \in {"failure", "onChain", "winning"}
    OBVIOUS
  <2>2. "failure" \in DOMAIN read
    BY Zenon, <1>4, <2>1 DEF HasFields
  <2> QED
    BY Zenon, <1>2, <2>2
<1>7. RatesReported(read.failure, outcomes)
  <2>1. ASSUME NEW p \in DOMAIN read.failure, read.failure[p] > 0
        PROVE  \E o \in outcomes : o.bid[2] = p /\ o.error # ""
    <3>1. PICK bid \in DOMAIN db.bids : bid[2] = p /\ db.bids[bid].failed
      BY Zenon, <1>4, <2>1, RateIsOfFailed DEF BlameInv
    <3> QED
      BY Zenon, <3>1 DEF BlameInv, FailedReported, Reported
  <2> QED
    BY Zenon, <2>1 DEF RatesReported
<1> QED
  BY Zenon, <1>3, <1>5, <1>6, <1>7 DEF BlameInv

\* NotBlamed, for any auctions and bidders, whenever the rates are read, messages are
\* repeated, queries fail and the process stops (refreshProviderRates).
THEOREM NeverBlamed == DeliverySpec => []NotBlamed
<1>1. DeliveryInit => BlameInv
  <2> SUFFICES ASSUME DeliveryInit PROVE BlameInv
    OBVIOUS
  <2>1. PICK a, saved, winners, error :
           saved = {bid \in Bids : bid[1] = a} /\ db = Closed(a, saved, winners, error)
    BY Zenon DEF DeliveryInit
  <2>2. PICK f, x, none, no :
           /\ f = [bid \in saved |-> [BidColumns(bid) EXCEPT !.won = bid \in winners]]
           /\ db = [auctions |-> x, bids |-> f, providers |-> none, events |-> no]
    BY Zenon, <2>1 DEF Closed
  <2>3. db.bids = f /\ HasFields(db, {"auctions", "bids", "providers", "events"})
    <3>1. db = [auctions |-> x, bids |-> f, providers |-> none, events |-> no]
      BY Zenon, <2>2
    <3> QED
      BY <3>1 DEF HasFields
  <2>4. DOMAIN f = saved /\ IsTable(f)
    BY Zenon, <2>2 DEF IsTable
  <2>5. IsFiniteSet(saved)
    <3>1. saved \in SUBSET ({a} \X Bidders)
      BY <2>1 DEF Bids
    <3>2. IsFiniteSet({a} \X Bidders)
      BY Zenon, FS_Product, FS_Singleton, DeliveryAssumption
    <3> QED
      BY Zenon, <3>1, <3>2, FS_Subset
  <2>6. ASSUME NEW bid \in saved PROVE IsOffer(f[bid])
    <3>1. PICK n, w, b, nil : /\ f[bid] = [BidColumns(bid) EXCEPT !.won = w]
                              /\ BidColumns(bid) = [bidder |-> b, won |-> n, proposal |-> nil,
                                                    delivered |-> n, deliveryError |-> nil,
                                                    confirmed |-> nil, failed |-> n]
      BY Zenon, <2>2 DEF BidColumns
    <3> QED
      BY <3>1 DEF IsOffer, HasFields
  <2>7. ASSUME NEW bid \in saved PROVE ~f[bid].failed
    BY Zenon, <2>2 DEF BidColumns
  <2>8. HasFields(rates, {"failure", "onChain", "winning"}) /\ rates.failure = <<>>
    <3>1. rates = NoRates
      BY Zenon DEF DeliveryInit
    <3> QED
      BY <3>1 DEF NoRates, HasFields
  <2>9. RatesReported(rates.failure, outcomes)
    <3>1. DOMAIN rates.failure = {}
      BY <2>8
    <3> QED
      BY Zenon, <3>1 DEF RatesReported
  <2>10. AreOffers(f) /\ FailedReported(f, outcomes)
    BY Zenon, <2>4, <2>6, <2>7 DEF AreOffers, FailedReported
  <2>11. IsFiniteSet(DOMAIN f)
    BY Zenon, <2>4, <2>5
  <2> QED
    BY Zenon, <2>3, <2>4, <2>8, <2>9, <2>10, <2>11 DEF BlameInv, IsStore
<1>2. BlameInv /\ [DeliveryNext]_vars => BlameInv'
  <2> SUFFICES ASSUME BlameInv, [DeliveryNext]_vars PROVE BlameInv'
    OBVIOUS
  <2>1. CASE UNCHANGED auctioneerVars
    BY Zenon, <2>1, BlameAlone DEF auctioneerVars
  <2>2. ASSUME NEW bid, DealProposalAccepted(bid) PROVE BlameInv'
    BY Zenon, <2>2, BlameAlone DEF DealProposalAccepted
  <2>3. ASSUME NEW bid, NEW error, DealFinalized(bid, error) PROVE BlameInv'
    <3>1. db' = db /\ rates' = rates /\ outcomes \subseteq outcomes'
      BY Zenon, <2>3 DEF DealFinalized
    <3> QED
      BY Zenon, <3>1, MoreReported DEF BlameInv
  <2>4. ASSUME NEW h, NEW bid, StartDelivery(h, bid) PROVE BlameInv'
    BY Zenon, <2>4, BlameAlone DEF StartDelivery
  <2>5. ASSUME NEW h, PublishProposal(h) PROVE BlameInv'
    BY Zenon, <2>5, BlameAlone DEF PublishProposal
  <2>6. ASSUME NEW h, EndDelivery(h) PROVE BlameInv'
    <3>1. outcomes' = outcomes /\ rates' = rates
      BY Zenon, <2>6 DEF EndDelivery
    <3>2. \/ db' = db
          \/ \E bid, value : \/ db' = UpdateProposalCid(db, bid, value)
                             \/ db' = UpdateProposalCidDeliveryError(db, bid, value)
      BY Zenon, <2>6 DEF EndDelivery, SetProposalCidDelivered, SetProposalCidDeliveryError
    <3>3. IsStore(db') /\ FailedReported(db'.bids, outcomes)
      BY Zenon, <3>2, DeliverySaved DEF BlameInv
    <3> QED
      BY Zenon, <3>1, <3>3 DEF BlameInv
  <2>7. ASSUME Crash PROVE BlameInv'
    <3>1. db' = db /\ outcomes' = outcomes /\ rates' = NoRates
      BY <2>7 DEF Crash
    <3>2. HasFields(rates', {"failure", "onChain", "winning"}) /\ rates'.failure = <<>>
      BY <3>1 DEF NoRates, HasFields
    <3>3. RatesReported(rates'.failure, outcomes')
      <4>1. DOMAIN rates'.failure = {}
        BY <3>2
      <4> QED
        BY Zenon, <4>1 DEF RatesReported
    <3> QED
      BY Zenon, <3>1, <3>2, <3>3 DEF BlameInv
  <2>8. ASSUME NEW o \in outcomes, MarkFinalizedDeal(o) PROVE BlameInv'
    <3>1. outcomes' = outcomes /\ rates' = rates
      BY Zenon, <2>8 DEF MarkFinalizedDeal
    <3>2. CASE o.error # ""
      <4>1. db' = UpdateDealFailedAt(db, o.bid)
        BY Zenon, <2>8, <3>2 DEF MarkFinalizedDeal, MarkDealAsFailed
      <4>2. Reported(o.bid, outcomes)
        BY Zenon, <3>2 DEF Reported
      <4>3. IsStore(db') /\ FailedReported(db'.bids, outcomes)
        BY Zenon, <4>1, <4>2, FailureSaved DEF BlameInv
      <4> QED
        BY Zenon, <3>1, <4>3 DEF BlameInv
    <3>3. CASE o.error = ""
      <4>1. \E value : db' = UpdateDealConfirmedAt(db, o.bid, value)
        BY Zenon, <2>8, <3>3 DEF MarkFinalizedDeal, MarkDealAsConfirmed
      <4>2. IsStore(db') /\ FailedReported(db'.bids, outcomes)
        BY Zenon, <4>1, DeliverySaved DEF BlameInv
      <4> QED
        BY Zenon, <3>1, <4>2 DEF BlameInv
    <3> QED
      BY Zenon, <3>2, <3>3
  <2>9. ASSUME NEW e, HandleBidbotEvents(e) PROVE BlameInv'
    <3>1. outcomes' = outcomes /\ rates' = rates
      BY Zenon, <2>9 DEF HandleBidbotEvents
    <3>2. \/ db' = CreateOrUpdateStorageProvider(db, e.sp, e.version)
          \/ db' = SetStorageProviderUnhealthy(db, e.sp)
          \/ db' = SaveBidEvent(db, e.type, e.bid, e.attempts, e.error)
      BY <2>9 DEF HandleBidbotEvents
    <3>3. IsStore(db') /\ FailedReported(db'.bids, outcomes)
      BY Zenon, <3>2, BidbotsSaved DEF BlameInv
    <3> QED
      BY Zenon, <3>1, <3>3 DEF BlameInv
  <2>10. CASE UNCHANGED vars
    BY Zenon, <2>1, <2>10 DEF vars
  <2>11. CASE Auctioneerd
    BY Zenon, <2>2, <2>3, <2>4, <2>5, <2>6, <2>7, <2>8, <2>9, <2>11, RatesRead
       DEF Auctioneerd
  <2>12. ASSUME NEW event, TellApid(event) PROVE BlameInv'
    BY Zenon, <2>1, <2>12 DEF TellApid
  <2> QED
    BY Zenon, <2>10, <2>11, <2>12 DEF DeliveryNext
<1>3. BlameInv => NotBlamed
  BY Zenon DEF BlameInv, RatesReported, NotBlamed
<1> QED
  BY <1>1, <1>2, <1>3, PTL DEF DeliverySpec

================================================================================
