\* One component at a time, each in an instance of its own.
SPECIFICATION BackendSpec
CONSTANTS
\* Two brokers, one row besides its listing, saved twice.
    Complex = {c1}
    Unit = {u1}
    Listing = {l1}
    Requirement = {q1}
    Event = {e1}
    Broker = {br1, br2}
    Value = {v1, v2}
    Part = {pt1, pt2}
    MaxRowVersion = 3
    MaxRows = 1
\* Two requests of one session, past both of its terms.
    Call = {call1, call2}
    IdleTimeout = 4
    AbsoluteTimeout = 7
    UpdateEvery = 1
    MaxDelay = 1
    MaxClock = 8
\* An agenda of two pages, changed once and one midnight while it is read.
    AgendaUnit = {1}
    AgendaListing = {1, 2}
    AgendaRequirement = {1}
    AgendaEvent = {1, 2}
    FirstAgendas <- MCAgendas
    FirstDay = 5
    WithinDays = 2
    OverdueDays = 1
    RevalidationDays = 2
    PerCategoryLimit = 2
    PageLimit = 2
    MaxChanges = 1
    MaxMidnights = 1
\* Two uploads.
    Memo = {memo1, memo2}
    Nothing = Nothing
    Field = {"memo", "price", "budget"}
    Columns <- MCColumns
    Forms <- MCForms
    Analyses <- MCAnalyses
\* One worker, two rows, two versions of the anchor.
    Worker = {worker1}
    NoWorker = NoWorker
    Anchor = {anchor1}
    MaxRuns = 2
    MaxVersion = 2
    MaxAttempts = 2
SYMMETRY LedgerSymmetry
\* A component that has done what its bounds allow stops.
CHECK_DEADLOCK FALSE
INVARIANTS
    PagesShowEachOnce
    VoiceMemoIsSafe
    OneActiveRunPerInput
PROPERTIES
    NothingIsOverwrittenUnseen
    ImplementsOptimisticLedger
    SessionKeepsItsTerm
