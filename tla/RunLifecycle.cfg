SPECIFICATION Spec
CONSTANTS
    h1 = h1
    h2 = h2
    c1 = c1
    Handlers <- MCHandlers
    Callers <- MCCallers
    None = None
    TargetSha = commit
    Placeholder = zeros
    MaxVersion = 5
    MaxChanges = 2
    MaxFaults = 1
SYMMETRY MCSymmetry
INVARIANTS
    CompletedHasReview
    PassedMeansSatisfied
PROPERTY VerdictStable
CHECK_DEADLOCK FALSE
