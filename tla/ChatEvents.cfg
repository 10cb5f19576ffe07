\* One request, two instances, one of which stays; no symmetry under fairness.
SPECIFICATION EventsSpec
CONSTANTS
    Conversation = {c1}
    Instance = {i1, i2}
    NoInstance = NoInstance
    Key = {k1}
    Capacity = 1
    MaxRequests = 1
    MaxVersion = 2
    MaxRevision = 3
CHECK_DEADLOCK FALSE
INVARIANT StreamTellsTheEnd
PROPERTY EverythingEnds
