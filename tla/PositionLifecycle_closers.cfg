SPECIFICATION Spec
CONSTANTS
    NumPositions = 1
    TimeoutWorkers = {t1}
    Operators = {o1}
    HaltWorkers = {h1}
    MaxHaltAttempts = 2
    MaxDeliveries = 2
    Representable <- WidenedStatuses
    Faults <- FaultKinds
    MaxFaults = 3
CHECK_DEADLOCK FALSE
INVARIANTS SingleSubmitter ClosedWasReduced TimeoutIsPending
PROPERTY KeepsCloseContract
