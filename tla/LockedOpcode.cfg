SPECIFICATION ObservedSpec
CONSTANTS
    NumLines = 3
    PcMod = 5
    Vector <- MCVector
    SpMod = 5
    IfAddr = 1
    IeAddr = 4
INVARIANTS
    LockedHangs
