SPECIFICATION FairSpec
CONSTANTS
    DrawdownRuns = {d1}
    ProfitRuns = {p1}
    Requests = {r1}
    Equities = {0, 100}
    Profits = {20}
    MaxDrawdown = 5
    ProfitCap = 15
    Scopes = {"account"}
    DayLength = 1
    LastTick = 1
    Faults = {"query", "crash"}
    MaxFaults = 1
CHECK_DEADLOCK FALSE
INVARIANTS EmergencyLockStands EmergencyOutranksProfit
PROPERTY DrawdownHalts
