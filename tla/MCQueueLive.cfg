SPECIFICATION Spec
CONSTANTS
    l1 = l1
    l2 = l2
    q1 = q1
    q2 = q2
    d1 = d1
    d2 = d2
    None = None
    Leg = {l1, l2}
    Callback = {l1}
    Entry = {q1, q2}
    DialId = {d1, d2}
    Extensions = 1
    Fixed = {}
    RetryAttempts = 1
    Sequential = {q1}
PROPERTY
    CallersAreServed
CHECK_DEADLOCK FALSE
