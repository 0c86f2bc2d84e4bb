SPECIFICATION FairSpec
CONSTANTS
    f1 = f1
    f2 = f2
    Frames = {f1, f2}
    NoFrame = NoFrame
    CtrlReserve = 1
    Budget = 1
    RemoteEntries = {2}
    MaxWakers = 1
PROPERTIES WakeupArrives DestroyReturns
