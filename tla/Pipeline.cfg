SPECIFICATION PipelineSpec
CONSTANTS
    Thread <- MCThread
    Location <- PipelineLocation
    Item <- MCItem
    a = a
    b = b
    Input <- MCInput
    Cap = 2
    SizeMod = 4
    MaxPush = 5
    NoItem = NoItem
INVARIANTS
    DrainedAtJoin
PROPERTIES
    ImplementsReplay
