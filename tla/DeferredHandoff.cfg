CONSTANTS
    d1 = d1
    d2 = d2
    MaxGoals = 2
    MaxTurns = 4
    MaxStarts = 2
    Drains = {d1, d2}
    None = None
SPECIFICATION Spec
SYMMETRY DrainSymmetry
INVARIANTS OnePromptAtATime AttemptsBounded ResumedWasPrompted
PROPERTIES NewestGoalOnly OutcomeIsFinal
