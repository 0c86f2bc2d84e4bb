SPECIFICATION Spec
CONSTANTS
    l1 = l1
    l2 = l2
    Links <- MCTwoLinks
    Hotplug <- MCDestroy
    Stops = {}
    MaxClients = 1
    MaxBounces = 0
    MaxDead = 0
CHECK_DEADLOCK FALSE
INVARIANT ClosedAtReturn
