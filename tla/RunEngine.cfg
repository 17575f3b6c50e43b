SPECIFICATION FairSpec
CONSTANTS
    h1 = h1
    h2 = h2
    c1 = c1
    Handlers <- MCHandlers
    Callers <- MCNoCallers
    None = None
    TargetSha = commit
    Placeholder = zeros
    MaxVersion = 6
    MaxChanges = 2
    MaxFaults = 1
PROPERTIES
    TerminalImmutable
    VerifyingDoesNotStarve
CHECK_DEADLOCK FALSE
