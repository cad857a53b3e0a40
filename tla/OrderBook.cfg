SPECIFICATION Spec
CONSTANTS
    Ref = {r1, r2, r3}
    Price = {10, 11}
    MaxShares = 2
    MaxSlots = 3
    QtyMod = 5
SYMMETRY Symmetry
INVARIANTS
    NoAliasing
    NoLeak
    invariant_ok
PROPERTIES
    ImplementsReference
