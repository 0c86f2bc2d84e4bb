CONSTANTS
    A = A
    B = B
    Cookies <- MCCookies
    Reorder = TRUE
    Kinds = {"loss", "late", "silence", "hardware", "restart"}
    Faulty = {A}
    MaxFaults = 1
    MaxFrames = 1
    MaxByes = 2
SPECIFICATION Spec
INVARIANTS TypeOK UpIsLive ReadyOfPeer UpAgree
