SPECIFICATION Spec
CONSTANTS
    s1 = s1
    s2 = s2
    b1 = b1
    b2 = b2
    p1 = p1
    p2 = p2
    p3 = p3
    x1 = x1
    StorageRequests = {s1, s2}
    Batches = {b1, b2}
    Providers = {p1, p2, p3}
    Pieces = {x1}
    NoBatch = NoBatch
    NoPiece = NoPiece
    DealReplication = 2
    PreparedInputs <- MCInputs
    MaxID = 5
    MaxFaults = 1
    PieceOf <- MCPieceOf
    MaxReports = 1
SYMMETRY MCSymmetry
INVARIANTS TypeOK StatusMirrored  SuccessMeetsRepFactor
    OneDealPerProvider PendingDealsAnnounced
PROPERTIES RequestsNotStolen 
CHECK_DEADLOCK FALSE
