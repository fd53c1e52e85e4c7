SPECIFICATION FairSpec
CONSTANTS
    NumPositions = 2
    TimeoutWorkers = {}
    Operators = {o1}
    HaltWorkers = {h1}
    MaxHaltAttempts = 2
    MaxDeliveries = 2
    Representable <- MigratedStatuses
    Faults <- FaultKinds
    MaxFaults = 2
CHECK_DEADLOCK FALSE
PROPERTY HaltEnds
