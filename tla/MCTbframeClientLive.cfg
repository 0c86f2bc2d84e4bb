SPECIFICATION FairSpec
CONSTANTS
    l1 = l1
    l2 = l2
    Links <- MCOneLink
    Hotplug <- MCBoth
    Stops <- MCStops
    MaxClients = 1
    MaxBounces = 1
    MaxDead = 0
CHECK_DEADLOCK FALSE
PROPERTIES
    CloseReturns
    Announced
