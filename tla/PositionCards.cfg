\* Two runs, of one side or of both, over one listing and two requirements; two
\* claims of a run that is alone.
SPECIFICATION Spec
CONSTANTS
    Listing = {l1}
    Requirement = {q1, q2}
    Run = {r1, r2}
    Worker = {w1, w2}
    Limit = 2
    MaxAttempts = 2
    MaxCards = 3
    MaxEdits = 1
    MaxInvalid = 1
CONSTRAINT RetriesOrRaces
SYMMETRY CardSymmetry
CHECK_DEADLOCK FALSE
INVARIANTS
    OneActiveCardPerInput
    JudgmentCoversSelection
    KeptAnswersAreReused
PROPERTIES
    AnchorCardIsCurrent
    JudgedTogether
