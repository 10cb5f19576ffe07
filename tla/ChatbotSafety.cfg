\* One conversation, two instances, two questions under two keys.
SPECIFICATION Spec
CONSTANTS
    Conversation = {c1}
    Instance = {i1, i2}
    NoInstance = NoInstance
    Key = {k1, k2}
    Capacity = 1
    MaxRequests = 2
    MaxVersion = 3
    MaxRevision = 3
SYMMETRY ChatSymmetry
\* A deleted conversation and instances that are down leave nothing to do.
CHECK_DEADLOCK FALSE
INVARIANTS
    OneActiveRequest
    SubmittedOnce
    TranscriptInTurns
PROPERTY ImplementsConversation
