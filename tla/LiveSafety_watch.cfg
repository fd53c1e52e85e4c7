SPECIFICATION FairSpec
CONSTANTS
    Venues = {"BINANCE", "BYBIT"}
    Keys = {k1, k2}
    Streams = {o1, o2}
    StaleAfter = 1
    MaxWrites = 1
    Volume = 2
    Monitors = {m1, m2}
    Groups = {{"stream", m1}, {"supervisor", "reconciliation"}, {"reconciliation", m1, m2}}
    Events = {"drop", "refuse", "query", "crash", "rotate", "switch", "move", "operator"}
    MaxEvents = 2
INVARIANT HealthyIsHeard
PROPERTIES GateReopens AlarmsAreRaised UnprotectedIsReported
CHECK_DEADLOCK FALSE
