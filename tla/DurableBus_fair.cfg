SPECIFICATION FairSpec
CONSTANTS
    Messages = {m1, m2}
    Poison = {m2}
    Consumers = {c1, c2}
    BatchSize = 2
    MaxAttempts = 2
    MaxEntries = 5
    MaxStarts = 4
    Faults <- FaultKinds
    MaxFaults = 1
CHECK_DEADLOCK FALSE
INVARIANTS NothingLost DeadLetterIsExhausted
PROPERTIES KeepsDeliveryContract Delivered
