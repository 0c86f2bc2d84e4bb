SPECIFICATION Spec
CONSTANTS
    q1 = q1
    q2 = q2
    Qps = {q1, q2}
    Windows = {2, 3}
    ReplayReserve = 1
    ReserveFrom = 3
    ReserveShare = 3
    MaxUnacked = 2
    MaxPosts = 3
    MaxFaults = 1
SYMMETRY QpSymmetry
CHECK_DEADLOCK FALSE
INVARIANTS
    TypeOK
    ChargesExact
    WithinWindow
    InFlightCharged
    GoneUncharged
    
