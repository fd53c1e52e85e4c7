SPECIFICATION FairSpec
CONSTANTS
    NumPositions = 1
    TimeoutWorkers = {t1}
    Operators = {}
    HaltWorkers = {}
    MaxHaltAttempts = 2
    MaxDeliveries = 3
    Representable <- MigratedStatuses
    Faults = {}
    MaxFaults = 0
CHECK_DEADLOCK FALSE
PROPERTY TimedOutPositionIsOrdered
