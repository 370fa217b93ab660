-------------------------------- MODULE MCPubSub --------------------------------
(* Contents for every topic, and one or two replicas of the daemons. *)
EXTENDS PubSub

CONSTANTS c1, c2, u1, m1, p1, w1

MCDaemons ==
    {"brokerd", "packerd", "piecerd", "dealerd", "auctioneerd", "apid"} \X {1}
        \union {"packerd", "dealerd"} \X {2}

ipfs == Present([cid |-> c2, maddrs |-> <<m1>>])

proposal == [sp |-> "f01", price |-> 0, startEpoch |-> 5, verified |-> TRUE,
             fast |-> FALSE, auction |-> "a1", bid |-> "b1"]

deals == [id |-> "d1", batch |-> "ba1", payloadCid |-> c1, pieceCid |-> c2, pieceSize |-> 4,
          duration |-> 7, carURL |-> u1, wallet |-> Absent,
          proposals |-> <<proposal, [proposal EXCEPT !.sp = "f02", !.fast = TRUE, !.bid = "b2"]>>]

finalized == [batch |-> "ba1", dealID |-> 3, expiration |-> 9, sp |-> "f01", error |-> "",
              auction |-> "a1", bid |-> "b1"]

auction == [id |-> "a1", batch |-> "ba1", payloadCid |-> c1, dealSize |-> 4, duration |-> 7,
            replication |-> 2, verified |-> TRUE, excluded |-> <<"f09">>, deadline |-> 8,
            sources |-> [carURL |-> Present(u1), carIPFS |-> ipfs], client |-> "f3",
            providers |-> <<>>]

closed == [id |-> "a1", batch |-> "ba1", duration |-> 7, replication |-> 2, verified |-> TRUE,
           status |-> "finalized", error |-> "",
           bids |-> [b \in {"b1", "b2"} |->
                        [sp |-> IF b = "b1" THEN "f01" ELSE "f02", price |-> 0,
                         startEpoch |-> 5, fast |-> b = "b1"]]]

noBids == [b \in {} |-> 0]

summary == [id |-> "a1", batch |-> "ba1", verified |-> TRUE, excluded |-> <<>>,
            status |-> "started", startedAt |-> 1, updatedAt |-> 2, duration |-> 7]

bidEvent == [auction |-> summary,
             bid |-> [id |-> "b1", sp |-> "f01", bidder |-> p1, price |-> 0,
                      startEpoch |-> 5, fast |-> TRUE]]

delivered == [auction |-> "a1", bidder |-> p1, bid |-> "b1", proposalCid |-> c1, error |-> ""]

\* What the callers in the daemons pass on.
MCContents ==
    [t \in Topics |->
        CASE t = "new-batch-created" ->
                {[id |-> "ba1", batchCid |-> c1, size |-> 4, requests |-> <<"r1", "r2">>,
                  origin |-> "o1", manifest |-> "m", carURL |-> Text(u1)]}
          [] t = "new-batch-prepared" -> {[id |-> "ba1", pieceCid |-> c1, pieceSize |-> 4]}
          [] t = "ready-to-batch" ->
                {[dataCids |-> <<[id |-> "r1", cid |-> c1, origin |-> "o1"],
                                 [id |-> "r2", cid |-> c2, origin |-> "o1"]>>],
                 [dataCids |-> <<>>]}
          [] t = "ready-to-create-deals" ->
                {deals,
                 [deals EXCEPT !.wallet = Present([peer |-> p1, token |-> "t", addr |-> w1,
                                                   maddrs |-> <<m1>>])]}
          [] t = "finalized-deal" ->
                {finalized, [finalized EXCEPT !.dealID = 0, !.expiration = 0, !.error = "e"]}
          [] t = "deal-proposal-accepted" ->
                {[batch |-> "ba1", auction |-> "a1", bid |-> "b1", sp |-> "f01",
                  proposalCid |-> c1]}
          [] t = "boost-deal-proposal-accepted" ->
                {[batch |-> "ba1", auction |-> "a1", bid |-> "b1", sp |-> "f01",
                  dealUID |-> Text(u1)]}
          [] t = "ready-to-auction" ->
                {auction, [auction EXCEPT !.sources.carIPFS = Absent, !.providers = <<w1>>]}
          [] t = "auction-closed" ->
                {closed, [closed EXCEPT !.error = "e", !.bids = noBids]}
          [] t = "auction-started" -> {[auction |-> summary]}
          [] t = "auction-proposal-cid-delivered" ->
                {delivered, [delivered EXCEPT !.error = "e"]}
          [] OTHER -> {bidEvent}]

================================================================================
