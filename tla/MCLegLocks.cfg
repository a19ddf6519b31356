SPECIFICATION Spec
CONSTANTS
    NumLegs = 3
    Task = {t1, t2, t3}
    None = None
INVARIANT LocksSafe
PROPERTIES ImplementsSections NobodyStarves
