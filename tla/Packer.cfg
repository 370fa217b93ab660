SPECIFICATION FairSpec
CONSTANTS
    d1 = d1
    d2 = d2
    Messages <- MCMessages
    BatchMaxSize = 4
    BatchMinSize = 3
    MinTimedSize = 2
    Daemons = {d1, d2}
    MaxBatches = 4
    MaxFaults = 1
INVARIANTS BatchFits DoneIsAnnounced
PROPERTIES ClosedIsFrozen AnnouncesOnce LargeBatchPacked
CHECK_DEADLOCK FALSE
