SPECIFICATION FairSpec
CONSTANTS
    r1 = r1
    r2 = r2
    r3 = r3
    Receivers = {r1, r2, r3}
    MaxIterations = 1
    MaxPackets = 4
INVARIANTS
    TypeOK
    DirectCallAlone
    BooksBalance
    References
    NoStrandedPacket
    
PROPERTY
    VerbsEnd
