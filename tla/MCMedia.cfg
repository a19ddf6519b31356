\* Legs, bridges and streams come to rest.
CHECK_DEADLOCK FALSE
CONSTANTS
    Bufs = {1, 2, 3, 4}
    MaxIn = 2
    MaxOut = 1
    MaxOrders = 2
    Plays = {1, 2}
    MaxBridged = 2
    Legs = {l1, l2}
    Workers = {1, 2, 3}
    MaxWorkers = 2
    MaxFaults = 1
    Parties = {"a", "b", "c"}
    Pairs <- MCPairs
    Jobs = {1, 2}
    MaxJobs = 2
    MaxEvents = 2
    MaxPackets = 3
    MaxPending = 2
    MaxSent = 2
    Modulus = 2
    Urls = {1, 2}
    Senders = {s1, s2}
    MaxSockets = 3
    Chunks = {1, 3}
    Frame = 2
    Batch = 2
    MaxSpoken = 5
    Digits = {1, 2}
    MaxPresses = 2
    MinTone = 2
    MinPause = 2
    Window = 12
    Suppress = 25
SPECIFICATION Spec
INVARIANT FramesSafe PlaybackSafe PoolSafe BridgingSafe RtpSafe VoiceAgentSafe DigitsSafe
