SPECIFICATION FairSpec
CONSTANTS
    b1 = b1
    b2 = b2
    p1 = p1
    p2 = p2
    Batches = {b1, b2}
    Processes = {p1, p2}
    MaxFaults = 2
INVARIANTS DoneIsPrepared
PROPERTIES BatchPrepared
CHECK_DEADLOCK FALSE
