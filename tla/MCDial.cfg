\* A dial comes to its end, phones and callers come to rest.
CHECK_DEADLOCK FALSE
SPECIFICATION MCSpec
CONSTANTS
    MaxTargets = 3
    MaxWaits = 1
    Phones = {1, 2}
    Mobile = {1}
    LegIds = {1, 2}
    DialIds = {1, 2}
    d1 = d1
    d2 = d2
    Dials = {d1, d2}
    Waiters = {w1, w2, w3}
    MaxNews <- MCNews
INVARIANT
    DialSafe
    DirectorySafe
    DialWaitsSafe
PROPERTY
    DialEnds
