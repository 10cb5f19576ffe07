SPECIFICATION Spec
CONSTANTS
    Worker = {w1}
    NoWorker = NoWorker
    Anchor = {a1}
    MaxRuns = 1
    MaxVersion = 1
    MaxAttempts = 2
CHECK_DEADLOCK FALSE
PROPERTY ResumeSparesWorkerLease
