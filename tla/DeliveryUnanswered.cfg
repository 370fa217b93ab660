SPECIFICATION DeliverySpec
CONSTANTS
    a1 = a1
    a2 = a2
    b1 = b1
    b2 = b2
    h1 = h1
    h2 = h2
    AuctionIds = {a1, a2}
    Bidders = {b1, b2}
    AuctionAsked <- MCAuctionAsked
    ProposalOf <- MCProposalOf
    OnChainSeconds <- MCOnChainSeconds
    BidbotEvents <- MCBidbotEvents
    Handlers = {h1, h2}
    MaxRepeats = 1
    MaxFaults = 1
    MaxApiFaults = 1
INVARIANT DeliveredIsReceived
CHECK_DEADLOCK FALSE
