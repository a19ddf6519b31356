SPECIFICATION Spec
CONSTANTS
    Recordings = 2
    Worker = {w1, w2}
    None = None
PROPERTIES
    StopReturns
CHECK_DEADLOCK FALSE
