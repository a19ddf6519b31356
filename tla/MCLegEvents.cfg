SPECIFICATION EvSpec
CONSTANTS
    a = a
    b = b
    Leg = {a, b}
    Main = {a}
    Orders <- MCOrders
    Waits = 2
    MaxDtmf = 2
    MaxInterrupts = 1
    QueueLimit = 3
    Digits <- MCDigits
    CallOptions <- MCCallOptions
    MediaOptions <- MCMediaOptions
    Rules <- MCRules
    Terminator <- MCTerminator
    Nobody = Nobody
INVARIANT
    EventsSafe
PROPERTY
    EndedLegFreesWaits
CHECK_DEADLOCK FALSE
