SPECIFICATION FairSpec
CONSTANTS
    a = a
    b = b
    c = c
    None = None
    Workstreams <- MCWorkstreams
    DependsOn <- MCDependsOn
    MaxFaults = 2
    MaxCancels = 1
INVARIANTS
    MergedNeverReruns
    VerdictIsFinal
    RunningIsLeased
    DependenciesDelivered
PROPERTY ImplementsGraph
PROPERTY NoneSilentlyPlanned
