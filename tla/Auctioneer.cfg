SPECIFICATION FairSpec
CONSTANTS
    a1 = a1
    a2 = a2
    a3 = a3
    b1 = b1
    b2 = b2
    b3 = b3
    w1 = w1
    Auctions = {a1, a2, a3}
    Bidders = {b1, b2, b3}
    AuctionOf <- MCAuctionOf
    BidOf <- MCBidOf
    RatesOf <- MCRatesOf
    CurrentEpoch = 1
    Workers = {w1}
    MinTopN = 1
    MaxAuctions = 2
    MaxFaults = 1
INVARIANTS QueuedIsServed ClosedAsPromised WinnersDeliverable
PROPERTIES EveryCandidateAsked AskedAreTop AuctionCloses
CHECK_DEADLOCK FALSE
