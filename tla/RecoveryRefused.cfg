SPECIFICATION Spec
CONSTANTS
    a = a
    b = b
    c = c
    None = None
    Workstreams <- MCPair
    DependsOn <- MCPairDependsOn
    MaxFaults = 2
    MaxCancels = 0
INVARIANT RecoveryIsIdempotent
