\* One component at a time, each in an instance of its own.
SPECIFICATION BrokerageSpec
CONSTANTS
    card = card
    chatbot = chatbot
    m1 = m1
    h1 = h1
    o1 = o1
    w1 = w1
    p1 = p1
    p2 = p2
    b1 = b1
    b2 = b2
\* Two operators, one office, a run and a chatbot request.
    Office = {office}
    Capability = {chatbot, card}
    ChatOnly = {chatbot}
    AiModel = {m1, m2}
    FirstModels = {m1}
    Operator = {op1, op2}
    RunWork = {work1}
    ChatWork = {work2}
\* An anchor and two candidates, one stream at a time.
    AnchorCard = 1
    CandidateCards = {2, 3}
    Said <- MCSaid
    OpenPrices <- MCOpenPrices
    DeadlineSignal <- MCDeadline
    CardAnswers <- MCCardAnswers
    JudgmentAnswers <- MCJudgmentAnswers
    AdapterKinds = {"VLLM", "OPENAI", "BEDROCK", "LLAMA_CPP"}
    StreamSlots = 1
    StreamBudget = 2
    RepairAttempts = 2
    Judging = Judging
    NotSet = NotSet
\* Buyers and one event, over a midnight and a deletion.
    Question <- MCQuestion
    Intent <- MCIntent
    LedgerRow <- MCLedgerRow
    AmountPhrase <- MCAmountPhrase
    AreaPhrase <- MCNone
    DatePhrase <- MCDatePhrase
    StatusWord = {}
    ComplexNamed <- MCNone
    WeekLength = 2
    MonthLength = 4
    LastDay = 1
    DeletionLimit = 1
    InterpretAttempts = 2
    None = None
\* Three logs, one tie that changes.
    Home = {h1}
    Offer = {o1}
    Wish = {w1}
    Person = {p1, p2}
    Nil = Nil
    Hanging <- MCHanging
    Hours = {1, 2}
    LogLimit = 3
    TieLimit = 1
\* One buyer, two listings, two changes of the ledger.
    Seeker = {1}
    Stock = {11, 12}
    Block = {b1, b2}
    Unknown = Unknown
    SeekerRows <- MCSeekerRows
    StockRows <- MCStockRows
    Estimates = {Unknown, 95}
    SearchDay = 10
    SearchEdits = 2
\* Two candidates, of which two may get a card.
    Answer = {r1, r2}
    AnswerCard = {k1, k2}
    Selected = 2
    ResultLimit = 2
    NotThere = NotThere
\* A component that has done what its bounds allow stops.
CHECK_DEADLOCK FALSE
INVARIANTS
    StoredIsGrounded
    ConditionsWereSaid
    BudgetsOverlapTheQuestion
    SameSourceSameLogs
    SelectionKeepsToItsVersion
    PagesAreWhole
PROPERTY
    ModelsChangeAtRest
