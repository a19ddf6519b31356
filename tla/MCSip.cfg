\* An attempt, a call or the trunks of an endpoint may come to rest.
CHECK_DEADLOCK FALSE
CONSTANTS
    Hosts = {1, 2}
    MaxProvisional = 2
    MaxCopies = 2
SPECIFICATION Spec
INVARIANT OutboundSafe InboundSafe TrunksSafe AdmissionSafe RelaySafe
PROPERTY SessionEnds CallerHears UnregisterEnds
