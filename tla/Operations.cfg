\* One component at a time, each in an instance of its own.
SPECIFICATION OperationsSpec
CONSTANTS
\* A release, two images, two Pods, one rotation of the keys.
    PublishedRelease = {r1}
    DevRelease = {r1}
    Image = {i1, i2}
    MaxPods = 2
    MaxKeys = 2
\* Two publishers of one release id, two starts of the container.
    Publisher = {pub1, pub2}
    BaseModel = {base1}
    Adapter = {a1, a2}
    Dataset = {d1}
    MaxBoots = 2
    NoFile = NoFile
\* One request beside the supervisor.
    Request = {q1}
\* Two people, one rotation of the runtime password.
    User = {u1, u2}
    Profile = {pr1}
    MaxPasswords = 2
\* Two records, two invocations; two clean polls, a call that hangs, the function out of time.
    Alarms <- MCAlarms
    Deliveries <- MCDeliveries
    RecordLimit = 2
    RetryLimit = 1
    WaitTicks = 2
    PollTicks = 1
    CallTicks = 1
    LambdaTicks = 6
    ContentLimit = 20
    NameLimit = 5
    ReasonLimit = 8
    HeadLength = 4
    LinkLength = 2
    LinksPrefix = 1
    ReasonPrefix = 2
    DetailPrefix = 3
    DetailLengths = {1, 30}
    None = None
SYMMETRY ImageSymmetry
\* A component that has done what its bounds allow stops.
CHECK_DEADLOCK FALSE
INVARIANTS
    ReleaseIsReviewed
    OneLoadOneStatus
    RuntimePasswordIsHeld
    SearchLeavesTime
PROPERTY
    CreateReportsTheTruth
