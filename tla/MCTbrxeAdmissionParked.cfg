SPECIFICATION FairSpec
CONSTANTS
    q1 = q1
    q2 = q2
    Qps = {q1, q2}
    Windows = {2}
    ReplayReserve = 1
    ReserveFrom = 3
    ReserveShare = 3
    MaxUnacked = 2
    MaxPosts = 3
    MaxFaults = 1
CHECK_DEADLOCK FALSE
PROPERTY SendsComplete
