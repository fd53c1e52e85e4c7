SPECIFICATION Spec
CONSTANTS
    Venues = {"BINANCE", "BYBIT"}
    Prices = {8, 10, 11, 13, 14, 16}
    Equities = {0, 100, 400}
    NetShare = 2
    Leverage = 2
    Step = 3
    MinQty = 2
    MaxQty = 6
    MinNotional = 40
    Tick = 3
    Faults = {"reject", "reply", "query", "crash"}
    MaxFaults = 2
INVARIANTS TypeOK RiskIsHeld PlacedIsProtected NakedIsExplained
CHECK_DEADLOCK FALSE
