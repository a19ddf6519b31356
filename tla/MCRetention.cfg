SPECIFICATION Spec
CONSTANTS
    leg1 = leg1
    dial1 = dial1
    t1 = t1
    t2 = t2
    t3 = t3
    Entity = {leg1, dial1}
    Async = {leg1}
    Ticket = {t1, t2, t3}
    None = None
    MaxGen = 6
INVARIANT
    RetentionSafe
PROPERTY
    ImplementsOwnership
CHECK_DEADLOCK FALSE
