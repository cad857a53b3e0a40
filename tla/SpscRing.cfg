SPECIFICATION Spec
CONSTANTS
    Thread <- MCThreads
    Location <- RingLocation
    Item = {1, 2, 3, 4, 5}
    Cap = 2
    SizeMod = 4
    MaxPush = 5
    NoItem = NoItem
CONSTRAINT Numbered
INVARIANTS
    RingInv
    NoDataRace
    Fifo
    SizeNeverUnderflows
    ConsumerNotEmptyIsDefinite
    ProducerEmptyIsDefinite
PROPERTIES
    ImplementsFifo
