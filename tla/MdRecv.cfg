SPECIFICATION RecvSpec
CONSTANTS
    NumMsg = 10
    PerPacket = 3
    Fits <- MCFits
    Undecodable = {5}
    Copies = 1
    Ref = {1, 2, 3, 4, 5}
    Price = {10, 11}
    MaxShares = 2
    MaxSlots = 3
    QtyMod = 16
    Script <- MCScript
CHECK_DEADLOCK FALSE
INVARIANTS
    GapsExact
    BookConsistent
    NoGapMeansSameBook
