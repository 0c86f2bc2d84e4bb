SPECIFICATION OrderSpec
CONSTANTS
    f1 = f1
    f2 = f2
    f3 = f3
    f4 = f4
    Frames = {f1, f2, f3, f4}
    NoFrame = NoFrame
    CtrlReserve = 2
    Budget = 2
    RemoteEntries = {3, 4}
    MaxWakers = 1
SYMMETRY FrameSymmetry
INVARIANTS
    TypeOK
    Accounting
    ControlNeverStarved
    BacklogBehindBudget
    NoLostWakeup
    DownLeavesNothingInFlight
    RingOutlivesPublishers
    FreedPoolIsWhole
    DataInOrder
