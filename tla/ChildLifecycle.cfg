CONSTANTS
    c1 = c1
    c2 = c2
    p1 = p1
    a1 = a1
    Children = {c1, c2}
    Agents = {a1}
    AgentOf <- OneAgent
    Cancellers = {p1}
    Deletable = {c1}
    MaxCrashes = 1
    None = None
SPECIFICATION FairSpec
INVARIANTS TypeOK RestartRestores AssignmentFollowsChild
PROPERTIES EndIsFinal ReplacedAfterStop CancelReturns
CHECK_DEADLOCK FALSE
