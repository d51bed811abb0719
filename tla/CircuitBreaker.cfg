SPECIFICATION Spec
CONSTANTS
    c1 = c1
    c2 = c2
    c3 = c3
    Callers <- MCCallers
    PolicyOf <- MCPolicyOf
    MaxClock = 5
    MaxSamples = 4
INVARIANT ProbeHasOwner
PROPERTY RecordsKeepWindow
CHECK_DEADLOCK FALSE
