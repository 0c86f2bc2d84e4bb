CONSTANTS
    A = A
    B = B
    Cookies <- MCCookies
    Reorder = TRUE
    Kinds = {"restart"}
    Faulty = {A}
    MaxFaults = 1
    MaxFrames = 1
    MaxByes = 2
SPECIFICATION FairSpec
PROPERTIES Converges
