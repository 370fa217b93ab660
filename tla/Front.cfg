SPECIFICATION FrontSpec
CONSTANTS
    c1 = c1
    s1 = s1
    b1 = b1
    x1 = x1
    a1 = a1
    NoBatch = NoBatch
    NoPiece = NoPiece
    StorageRequests = {s1}
    Batches = {b1}
    Providers = {1, 2}
    Pieces = {x1}
    DealReplication = 1
    PreparedInputs = {}
    MaxID = 5
    MaxFaults = 1
    NearChains = {"near1"}
    EthChains = {"eth1"}
    PolyChains = {}
    Accounts = {a1}
    KeysOf <- MCKeysOf
    SessionDivisor = 1
    MaxValue = 1
    MaxTime = 2
    MaxRPCFaults = 1
    AuthTokens <- MCAuthTokens
    PieceCids = {x1}
    MaxPieceSize = 8
    Calls = {c1}
    InputsOf <- MCInputsOf
    Defaults <- MCDefaults
INVARIANTS
    
    
    FundedDuringCall
PROPERTIES
    CallsAnswered
    
CHECK_DEADLOCK FALSE
