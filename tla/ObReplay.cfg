SPECIFICATION Spec
CONSTANTS
    Gens = {"itch", "multi", "book"}
    N <- MCN
    Symbols = 2
    C = 1
    MidFloor = 2
    Mid0 = 2
    SeedBid = 2
    SeedAsk = 3
    Depth = 2
    SeedAdds = 2
    MinLive = 2
    Lots = {2}
    Clips = {1, 2}
    TsSteps = {1}
    Interval = 2
    QtyMod = 1000
    FileRecords <- MCFileRecords
    FileLen = 2
    LocateMod = 4
    Numbers = {2, 4, 5}
CHECK_DEADLOCK FALSE
INVARIANTS
    DecodeSound
    ReplaysAgree
    GeneratorTracksBook
    LiveUncrossed
    NeverCrossed
    BarsSound
    FocusSound
    MicroPriceLeans
