SPECIFICATION Spec
CONSTANTS
    l1 = l1
    l2 = l2
    Links <- MCOneLink
    Hotplug <- MCDestroy
    Stops <- MCStops
    MaxClients = 2
    MaxBounces = 2
    MaxDead = 1
CHECK_DEADLOCK FALSE
INVARIANTS
    TypeOK
    ClosedAtReturn
    FreedQuiet
    NoOrphan
    RecordTracks
    Watched
