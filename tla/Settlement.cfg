SPECIFICATION SettleSpec
CONSTANTS
    s1 = s1
    s2 = s2
    b1 = b1
    b2 = b2
    p1 = p1
    p2 = p2
    p3 = p3
    x1 = x1
    u1 = u1
    u2 = u2
    StorageRequests = {s1}
    Batches = {b1}
    Providers = {p1, p2}
    Pieces = {x1}
    NoBatch = NoBatch
    NoPiece = NoPiece
    DealReplication = 2
    PreparedInputs <- MCInputs
    MaxID = 15
    MaxFaults = 0
    PieceOf <- MCPieceOf
    MaxReports = 1
    UnpinJobs <- MCUnpinJobs
    CidOf <- MCCidOf
    Unpinners = {u1, u2}
    MaxUnpinFaults = 2
INVARIANTS NeededIsPinned ShownIsTrue
PROPERTIES BatchSettles 
CHECK_DEADLOCK FALSE
