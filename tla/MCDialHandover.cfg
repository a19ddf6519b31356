\* A dial comes to its end, phones and callers come to rest.
CHECK_DEADLOCK FALSE
SPECIFICATION MCSpec
CONSTANTS
    MaxTargets = 2
    MaxWaits = 1
    Phones = {1}
    Mobile = {}
    LegIds = {1}
    DialIds = {1}
    d1 = d1
    d2 = d2
    Dials = {d1, d2}
    Waiters = {w1}
    MaxNews <- MCNews
PROPERTY
    WinnerIsHandedOver
