SPECIFICATION FairSpec
CONSTANTS
    Signals = {s1, s2}
    Symbols = {s1, s2}
    SymbolOf <- OwnPair
    Workers = {w1, w2}
    MaxOpen = 2
    MaxDaily = 2
    MaxDeliveries = 2
    Faults <- FaultKinds
    MaxFaults = 2
CHECK_DEADLOCK FALSE
INVARIANTS RepeatsAreExplained EntryIsDecided OpenedHasPosition
PROPERTY Concluded
