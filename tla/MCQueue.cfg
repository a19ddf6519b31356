SPECIFICATION Spec
CONSTANTS
    l1 = l1
    l2 = l2
    q1 = q1
    q2 = q2
    d1 = d1
    d2 = d2
    None = None
    Leg = {l1, l2}
    Callback = {l1}
    Entry = {q1, q2}
    DialId = {d1, d2}
    Extensions = 2
    Fixed = {1}
    RetryAttempts = 1
    Sequential = {q1}
SYMMETRY Symmetry
INVARIANT
    QueueSafe
PROPERTY
    DialKeepsItsEntry
CHECK_DEADLOCK FALSE
