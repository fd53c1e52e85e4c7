SPECIFICATION Spec
CONSTANTS
    t1 = t1
    t2 = t2
    Tabs = {t1, t2}
    Admin = TRUE
    Steps = {k1, k2}
    Plans <- MCPlans
INVARIANT LockedOutIsExplained
INVARIANT ToldIsTrue
INVARIANT CertifiedIsEarned
INVARIANT AuditIsLinear
INVARIANT RetriesFitTheLimit
PROPERTY ConsoleCatchesUp
CHECK_DEADLOCK FALSE
