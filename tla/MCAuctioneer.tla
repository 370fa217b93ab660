------------------------------ MODULE MCAuctioneer ------------------------------
(* An instance of Auctioneer for TLC. *)
EXTENDS Auctioneer

CONSTANTS a1, a2, a3, b1, b2, b3, w1

Asked(rep, deadline, verified, excluded, providers, sources) ==
    [rep |-> rep, deadline |-> deadline, verified |-> verified, dealSize |-> 1,
     duration |-> 1, excluded |-> excluded, providers |-> providers,
     payloadCid |-> <<"payload">>, sources |-> sources]

URL == [carURL |-> Present("url"), carIPFS |-> Absent]

IPFS == [carURL |-> Absent, carIPFS |-> Present([cid |-> "cid", maddrs |-> <<"m">>])]

\* One copy with a targeted bidder, two copies with anyone, and one copy for which
\* only the bidder that has been too slow for the deadline may bid.
MCAuctionOf == [a \in Auctions |->
    CASE a = a1 -> Asked(1, 6, TRUE, {}, {b1}, URL)
      [] a = a2 -> Asked(2, 0, FALSE, {}, {}, IPFS)
      [] a = a3 -> Asked(1, 6, FALSE, {b1}, {}, URL)]

\* The bids of the third bidder are not valid.
MCBidOf == [b \in Bidders |->
    [askPrice |-> 0, verifiedAskPrice |-> IF b = b1 THEN 0 ELSE 1,
     startEpoch |-> IF b = b1 THEN 5 ELSE 6, signed |-> b # b3]]

\* The first bidder has not failed lately.
MCRatesOf == [failure |-> [b \in {b2} |-> 5], winning |-> [b \in {b1} |-> 3],
              onChain |-> [b \in {b1, b2} |-> IF b = b1 THEN 1 ELSE 5]]
================================================================================
