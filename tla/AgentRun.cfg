\* Two workers, one of which may stop for good, race for one run; the anchor is
\* saved once more; two claims. No symmetry under fairness.
SPECIFICATION FairSpec
CONSTANTS
    Worker = {w1, w2}
    NoWorker = NoWorker
    Anchor = {a1}
    MaxRuns = 1
    MaxVersion = 2
    MaxAttempts = 2
\* Once its run has ended and no version is left to file for, nothing moves.
CHECK_DEADLOCK FALSE
INVARIANTS
    SaveStopsAtAnchorCard
    AnsweredRunIsPursued
    NoRunStranded
PROPERTIES
    RestingRunUntouched
    LeaseNeverRevived
    OnlyTheHolderMoves
    ImplementsLifecycle
    LifecycleSettles
