SPECIFICATION PubSubSpec
CONSTANTS
    c1 = c1
    c2 = c2
    u1 = u1
    m1 = m1
    p1 = p1
    w1 = w1
    Daemons <- MCDaemons
    Contents <- MCContents
    MaxPublished = 1
    MaxCrashes = 2
INVARIANTS HeardAsSent NothingLost
 
CHECK_DEADLOCK FALSE
