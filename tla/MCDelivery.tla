------------------------------- MODULE MCDelivery -------------------------------
(* An instance of Delivery for TLC. *)
EXTENDS Delivery

CONSTANTS a1, a2, b1, b2, h1, h2

MCAuctionAsked == [a \in AuctionIds |->
    [rep |-> 1, deadline |-> 0, verified |-> FALSE, dealSize |-> 1, duration |-> 1,
     excluded |-> {}, providers |-> {}, payloadCid |-> <<"payload">>,
     sources |-> [carURL |-> Present("url"), carIPFS |-> Absent]]]

\* The winner of the second auction uses Boost.
MCProposalOf == [bid \in Bids |-> IF bid[1] = a1 THEN <<"cid", bid>> ELSE <<"uuid", bid>>]

MCOnChainSeconds == [b \in Bidders |-> 60]

MCBidbotEvents ==
    {[type |-> "startup", sp |-> b1, version |-> 1],
     [type |-> "unhealthy", sp |-> b1],
     [type |-> "error_fetching", bid |-> <<a1, b1>>, attempts |-> 1, error |-> "e"]}
================================================================================
