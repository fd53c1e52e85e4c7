SPECIFICATION FairSpec
CONSTANTS
    e1 = e1  e2 = e2  e3 = e3  ann = ann  bob = bob  d1 = d1  d2 = d2  c1 = c1  c2 = c2
    Everyone = Everyone
    Events = {e1, e2, e3}
    Outboxed = {e1, e2}
    Durable = {e1}
    Users = {ann, bob}
    Publishers = {p1}
    Dispatchers = {d1, d2}
    Clients = {c1}
    MaxAttempts = 2
    Faults = {"redis", "reply", "query", "crash", "drop", "lapse"}
    Bounds <- MCBounds
    Owner <- MCOwner
    HomeOf <- MCHomeOf
INVARIANTS TypeOK PublishedIsInStream ShownIsListed
PROPERTY Settles
CHECK_DEADLOCK FALSE
