SPECIFICATION Spec
CONSTANTS
    m1 = m1
    w1 = w1
    w2 = w2
    reporter = reporter
    AuctionDeals <- MCAuctionDeals
    DealIDOf <- MCDealIDOf
    OtherDeal <- MCOtherDeal
    OtherID = 2
    PubKey = "broker"
    AllowUnverifiedDeals = FALSE
    MaxVerifiedPrice = 0
    MaxUnverifiedPrice = 0
    Makers = {m1}
    Monitors = {w1, w2}
    Reporter = reporter
    MaxRetries = 1
    MaxHeight = 2
    MaxReports = 2
    MaxSlashed = 0
    MaxFaults = 0
SYMMETRY MCSymmetry
PROPERTIES
    FinalizedIsFinal
CHECK_DEADLOCK FALSE
