SPECIFICATION Spec
CONSTANTS
    Signals = {s1, s2, s3, s4}
    Symbols = {x1, x2}
    SymbolOf <- TwoEach
    Workers = {w1, w2}
    MaxOpen = 2
    MaxDaily = 1
    MaxDeliveries = 2
    Faults = {"crash", "query", "lost"}
    MaxFaults = 2
CHECK_DEADLOCK FALSE
SYMMETRY Alike
INVARIANTS LateEntriesBounded WithinLimits
