SPECIFICATION Spec
CONSTANTS
    QtyMod = 3
    KWindow = 4
    Prices = {0, 1, 2, 3, 4, 5, 6, 7}
    MaxQty = 2
INVARIANTS SameLevels SameBest SameTop WindowSound
