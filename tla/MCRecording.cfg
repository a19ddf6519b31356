SPECIFICATION Spec
CONSTANTS
    Recordings = 2
    Worker = {w1, w2}
    None = None
INVARIANT
    RecordingSafe
PROPERTY
    EndsUnlessStuck
CHECK_DEADLOCK FALSE
