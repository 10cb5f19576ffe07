SPECIFICATION Spec
CONSTANTS
    Listing = {l1}
    Requirement = {q1, q2}
    Run = {r1}
    Worker = {w1}
    Limit = 2
    MaxAttempts = 1
    MaxCards = 3
    MaxEdits = 1
    MaxInvalid = 0
CHECK_DEADLOCK FALSE
PROPERTY ScopeChangeSupersedes
