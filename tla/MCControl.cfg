\* A daemon, a runtime or a phone may come to rest.
CHECK_DEADLOCK FALSE
CONSTANTS
    Procs = {p1, p2}
    MaxDaemons = 2
    Acts <- MCActs
    MaxFaults = 2
    Phones = {p, q}
    MaxSent = 2
    Reqs = {r1, r2}
    MaxStreams = 2
    MaxChunks = 3
SPECIFICATION Spec
INVARIANT DaemonSafe StreamsSafe BindingsSafe RequestsSafe MediaWorkerSafe
PROPERTY IdleStops StreamReturns AskerHears EveryCommandIsAnswered
