------------------------------- MODULE ChatQuery -------------------------------
(***************************************************************************)
(* What a chatbot question is taken to mean (brokerage_ai.chatbot.workflow, *)
(* domain.chatbot: query, normalization), over the turns of a conversation. *)
(* A model proposes an intent; the workflow lets through the conditions     *)
(* that the user said, the backend merges them with the search they refine, *)
(* turns phrases into bounds and looks the rows up.                         *)
(*                                                                         *)
(* A question is the set of phrases in its text and the values that its     *)
(* words name for each enumerated field.  The order of results is left out: *)
(* an ordinal is any row that was shown.                                    *)
(***************************************************************************)
EXTENDS Integers, FiniteSets, Sequences

CONSTANTS
    Question,     \* [text, names, negated, topic]
    Intent,       \* answers of a model: [tool, mode, filters, ordinal, code]
    LedgerRow,    \* name of a row -> the row
    AmountPhrase, \* phrases that _money reads -> [form, n, m]
    AreaPhrase,   \* phrases that _area reads -> [form, n, m]
    DatePhrase,   \* phrases that parse_dates reads -> [form, n, m]
    StatusWord,   \* words for "in progress"
    ComplexNamed, \* name -> [exact, partial], the complexes of the office it matches
    WeekLength, MonthLength, LastDay, \* the calendar: days 0 .. LastDay
    DeletionLimit,                    \* bound: rows deleted during the conversation
    InterpretAttempts,                \* MAX_ATTEMPTS
    None

ASSUME ChatQueryAssumption ==
    /\ WeekLength \in Nat \ {0} /\ MonthLength \in Nat \ {0} /\ LastDay \in Nat
    /\ InterpretAttempts \in Nat \ {0} /\ DeletionLimit \in Nat
    /\ None \notin Int
    /\ \A p \in DOMAIN AmountPhrase :
          \/ AmountPhrase[p] \in [form : {"exactly", "atMost", "below", "atLeast", "above"},
                                  n : Nat, m : {None}]
          \/ AmountPhrase[p] \in [form : {"range", "fromBelow", "aboveTo", "aboveBelow"},
                                  n : Nat, m : Nat]
    /\ \A id \in DOMAIN LedgerRow : LedgerRow[id].ledger = "buyers" =>
          LedgerRow[id].low \in Nat \cup {None} /\ LedgerRow[id].high \in Nat \cup {None}

VARIABLES
    activeSearch, \* conversation.active_filters: [tool, conditions], tool None if empty
    turns,        \* the last completed turns: kind, what was shown, what was asked back
    asked,        \* the request being answered
    saidSince,    \* history: the questions of the search that is active
    gone,         \* rows deleted since
    today

chatQueryVars == <<activeSearch, turns, asked, saidSince, gone, today>>

SearchTools == {"properties", "buyers", "agenda"}
EnumFields == {"transaction_type", "area_basis", "sort", "categories"}
LedgerFields ==
    {"complex_name", "transaction_type", "status", "price_expression", "deposit_expression",
     "rent_expression", "area_expression", "area_basis", "sort"}
ToolFields == [properties |-> LedgerFields, buyers |-> LedgerFields,
               agenda |-> {"date_expression", "categories", "sort"}]
RetiredCategories == {"LISTING_RECONTACT", "CLIENT_RECONTACT"}

NoCondition == [f \in {} |-> None]
NoQuestion == [pc |-> "none"]
Interpreting(q, referred, day, attempt) ==
    [pc |-> "interpreting", question |-> q, referred |-> referred, day |-> day,
     attempt |-> attempt]
Searching(q, day, intent, conditions) ==
    [pc |-> "searching", question |-> q, day |-> day, tool |-> intent.tool,
     mode |-> intent.mode, conditions |-> conditions]

------------------------------------------------------------------------------
(* _validate_intent                                                          *)

ValuesOf(f, v) == IF f = "categories" THEN v ELSE {v}
Given(i) == DOMAIN i.filters

(* The question, and the one that was answered by a question in return.      *)
LastTurn == turns[Len(turns)]
Sources == {asked.question} \cup
    (IF turns # <<>> /\ LastTurn.kind = "clarification" THEN {LastTurn.question} ELSE {})
SaidText == UNION {q.text : q \in Sources}
NamedNow(f) == asked.question.names[f]
Named(f) == IF NamedNow(f) # {} THEN NamedNow(f) ELSE UNION {q.names[f] : q \in Sources}

Refines(i) == i.mode = "refine" /\ activeSearch.tool = i.tool

ActiveHas(i, f) ==
    f \in DOMAIN activeSearch.conditions /\ activeSearch.conditions[f] = i.filters[f]

\* Faulty: keeps old conditions in a new search too.
InheritedAnyMode(i, f) == activeSearch.tool = i.tool /\ ActiveHas(i, f)

Inherited(i, f) == Refines(i) /\ ActiveHas(i, f)

(* What the question names is not left at its old value.                     *)
Effective(i, f) ==
    IF f \in Given(i) THEN ValuesOf(f, i.filters[f])
    ELSE IF f \in DOMAIN activeSearch.conditions THEN ValuesOf(f, activeSearch.conditions[f])
    ELSE {}
ChangeRespected(i) ==
    Refines(i) => \A f \in EnumFields : NamedNow(f) # {} => Effective(i, f) \subseteq NamedNow(f)

Authorised(i, f) ==
    /\ f \in ToolFields[i.tool]
    /\ f = "sort" => (i.tool = "agenda") = (i.filters[f] = "date_asc")
    /\ IF f \in EnumFields
       THEN ValuesOf(f, i.filters[f]) \subseteq Named(f) \/ (Inherited(i, f) /\ Named(f) = {})
       ELSE Inherited(i, f) \/ i.filters[f] \in SaidText

IntentValid(i) ==
    /\ (i.tool = "clarification") = (i.code # None)
    /\ (i.tool = "open_result") = (i.ordinal # None)
    /\ i.tool \notin SearchTools => i.tool = "clarification" \/ Given(i) = {}
    /\ i.tool \in SearchTools =>
          /\ \A q \in Sources : ~q.negated
          /\ ChangeRespected(i)
          /\ \A f \in Given(i) : Authorised(i, f)

------------------------------------------------------------------------------
(* parse_bounds, parse_dates                                                 *)

Bound(minimum, maximum, minInclusive, maxInclusive) ==
    [min |-> minimum, max |-> maximum, minIn |-> minInclusive, maxIn |-> maxInclusive]

BoundsOf(p) ==
    CASE p.form = "exactly" -> Bound(p.n, p.n, TRUE, TRUE)
      [] p.form = "atMost" -> Bound(None, p.n, TRUE, TRUE)
      [] p.form = "below" -> Bound(None, p.n, TRUE, FALSE)
      [] p.form = "atLeast" -> Bound(p.n, None, TRUE, TRUE)
      [] p.form = "above" -> Bound(p.n, None, FALSE, TRUE)
      [] p.form = "range" -> Bound(p.n, p.m, TRUE, TRUE)
      [] p.form = "fromBelow" -> Bound(p.n, p.m, TRUE, FALSE)
      [] p.form = "aboveTo" -> Bound(p.n, p.m, FALSE, TRUE)
      [] p.form = "aboveBelow" -> Bound(p.n, p.m, FALSE, FALSE)

Readable(phrases, p) ==
    p \in DOMAIN phrases /\ (phrases[p].m # None => phrases[p].n <= phrases[p].m)

(* Without an expression, this month.                                        *)
Period(first, length) == [from |-> first, to |-> first + length - 1]
WeekStart(day) == day - (day % WeekLength)
MonthStart(day) == day - (day % MonthLength)
PeriodOf(expression, day) ==
    LET p == DatePhrase[expression] IN
    CASE expression = None \/ p.form = "thisMonth" -> Period(MonthStart(day), MonthLength)
      [] p.form = "nextMonth" -> Period(MonthStart(day) + MonthLength, MonthLength)
      [] p.form = "today" -> Period(day, 1)
      [] p.form = "tomorrow" -> Period(day + 1, 1)
      [] p.form = "thisWeek" -> Period(WeekStart(day), WeekLength)
      [] p.form = "nextWeek" -> Period(WeekStart(day) + WeekLength, WeekLength)
      [] p.form = "rolling" -> Period(day, p.n)
      [] p.form = "dates" -> Period(p.n, p.m - p.n + 1)

------------------------------------------------------------------------------
(* normalize                                                                 *)

OpenStatus(tool) == IF tool = "properties" THEN "RECEIVED" ELSE "ACTIVE"
Merged(i) ==
    LET old == IF i.mode = "refine" THEN activeSearch.conditions ELSE NoCondition
        value(f) == IF f \in Given(i) THEN i.filters[f] ELSE old[f]
    IN [f \in Given(i) \cup DOMAIN old |->
            IF f = "status" /\ value(f) \in StatusWord THEN OpenStatus(i.tool) ELSE value(f)]

Has(c, f) == f \in DOMAIN c
Is(c, f, v) == Has(c, f) /\ c[f] = v

AmountClear(tool, c, f) ==
    /\ tool = "buyers" => f = "price_expression"
    /\ tool = "properties" => Has(c, "transaction_type")
    /\ f = "rent_expression" => Is(c, "transaction_type", "RENT")
    /\ f = "deposit_expression" => ~Is(c, "transaction_type", "SALE")
    /\ f = "price_expression" /\ tool = "properties" => ~Is(c, "transaction_type", "RENT")
    /\ Readable(AmountPhrase, c[f])

NormalizesTo(i, c) ==
    /\ i.mode = "refine" => Refines(i)
    /\ Has(c, "categories") => c["categories"] \cap RetiredCategories = {}
    /\ Has(c, "status") => c["status"] = OpenStatus(i.tool)
    /\ Has(c, "date_expression") => Readable(DatePhrase, c["date_expression"])
    /\ Has(c, "area_expression") =>
          Has(c, "area_basis") /\ i.tool # "buyers" /\ Readable(AreaPhrase, c["area_expression"])
    /\ \A f \in {"price_expression", "deposit_expression", "rent_expression"} :
          Has(c, f) => AmountClear(i.tool, c, f)
    /\ Has(c, "sort") /\ c["sort"] \in {"price_asc", "price_desc"} /\ i.tool = "properties" =>
          Has(c, "transaction_type")

------------------------------------------------------------------------------
(* ChatLookup.search                                                         *)

(* One match by the whole name, else by a part of it; no match finds nothing.*)
Matching(name) ==
    IF name \notin DOMAIN ComplexNamed THEN {}
    ELSE IF ComplexNamed[name].exact # {} THEN ComplexNamed[name].exact
    ELSE ComplexNamed[name].partial

ScalarMeets(x, b) ==
    /\ x # None
    /\ b.min # None => IF b.minIn THEN x >= b.min ELSE x > b.min
    /\ b.max # None => IF b.maxIn THEN x <= b.max ELSE x < b.max

Coalesce(x, y) == IF x # None THEN x ELSE y

\* Faulty: asks both ends of a span to be within the bounds.
SpanMeetsEndpoints(low, high, b) ==
    /\ low # None \/ high # None
    /\ b.min # None => ScalarMeets(low, Bound(b.min, None, b.minIn, TRUE))
    /\ b.max # None => ScalarMeets(high, Bound(None, b.max, TRUE, b.maxIn))

SpanMeets(low, high, b) ==
    /\ low # None \/ high # None
    /\ b.min # None =>
          IF b.minIn THEN Coalesce(high, low) >= b.min ELSE Coalesce(high, low) > b.min
    /\ b.max # None =>
          IF b.maxIn THEN Coalesce(low, high) <= b.max ELSE Coalesce(low, high) < b.max

Deal(c) == IF Has(c, "transaction_type") THEN c["transaction_type"] ELSE "SALE"
ColumnOf(c, f) ==
    CASE f = "price_expression" -> Deal(c)
      [] f = "deposit_expression" -> IF Is(c, "transaction_type", "RENT") THEN "DEPOSIT" ELSE "JEONSE"
      [] f = "rent_expression" -> "RENT"
      [] f = "area_expression" -> c["area_basis"]
PhraseBounds(c, f) ==
    BoundsOf(IF f = "area_expression" THEN AreaPhrase[c[f]] ELSE AmountPhrase[c[f]])
BoundFields(c) ==
    DOMAIN c \cap {"price_expression", "deposit_expression", "rent_expression", "area_expression"}

UnitMatches(r, c) ==
    /\ Has(c, "complex_name") => r.complexes \cap Matching(c["complex_name"]) # {}
    /\ Has(c, "status") => r.status = c["status"]
    /\ Has(c, "transaction_type") => c["transaction_type"] \in r.deals
    /\ \A f \in BoundFields(c) : ScalarMeets(r.amount[ColumnOf(c, f)], PhraseBounds(c, f))

BuyerFound(r, c) ==
    /\ Has(c, "complex_name") => r.complexes \cap Matching(c["complex_name"]) # {}
    /\ Has(c, "status") => r.status = c["status"]
    /\ Has(c, "transaction_type") => c["transaction_type"] \in r.deals
    /\ \A f \in BoundFields(c) : SpanMeets(r.low, r.high, PhraseBounds(c, f))

(* The words of a date count from the day of the question, not of the read.  *)
AgendaPeriod(c) ==
    PeriodOf(IF Has(c, "date_expression") THEN c["date_expression"] ELSE None, asked.day)
AgendaFound(r, c) ==
    /\ r.due \in AgendaPeriod(c).from .. AgendaPeriod(c).to
    /\ Has(c, "categories") =>
          r.category \in c["categories"] \/ (r.calendar /\ "CALENDAR" \in c["categories"])

RowsFound(tool, c) ==
    {id \in DOMAIN LedgerRow \ gone : LET r == LedgerRow[id] IN
        /\ r.ledger = tool /\ r.ours
        /\ CASE tool = "properties" -> UnitMatches(r, c)
             [] tool = "buyers" -> BuyerFound(r, c)
             [] tool = "agenda" -> AgendaFound(r, c)}

NameAmbiguous(c) == Has(c, "complex_name") /\ Cardinality(Matching(c["complex_name"])) > 1

------------------------------------------------------------------------------
ChatQueryInit ==
    /\ activeSearch = [tool |-> None, conditions |-> NoCondition]
    /\ turns = <<>>
    /\ asked = NoQuestion
    /\ saidSince = {} /\ gone = {} /\ today = 0

LedgerMoves ==
    /\ \/ /\ Cardinality(gone) < DeletionLimit
          /\ \E id \in DOMAIN LedgerRow \ gone : gone' = gone \cup {id} /\ UNCHANGED today
       \/ today < LastDay /\ today' = today + 1 /\ UNCHANGED gone
    /\ UNCHANGED <<activeSearch, turns, asked, saidSince>>

(* A reference names one of the last two completed searches; as_of is the    *)
(* day on which the question is accepted.                                    *)
Ask(q, referred) ==
    /\ asked = NoQuestion
    /\ referred # None => turns[referred].kind \in SearchTools
    /\ asked' = Interpreting(q, IF referred = None THEN {} ELSE turns[referred].shown, today, 1)
    /\ UNCHANGED <<activeSearch, turns, saidSince, gone, today>>

Completed(q, kind, shown) ==
    /\ asked' = NoQuestion
    /\ turns' = LET turn == [kind |-> kind, shown |-> shown,
                             question |-> IF kind = "clarification" THEN q ELSE None]
                IN IF Len(turns) < 2 THEN Append(turns, turn) ELSE <<LastTurn, turn>>
    /\ UNCHANGED <<gone, today>>
CompletedWithoutSearch(kind) ==
    Completed(asked.question, kind, {}) /\ UNCHANGED <<activeSearch, saidSince>>

AnswerAtOnce ==
    /\ asked.pc = "interpreting" /\ asked.attempt = 1
    /\ asked.question.topic # "search"
    /\ CompletedWithoutSearch(CASE asked.question.topic = "blank" -> "clarification"
                                [] asked.question.topic = "open_f2" -> "action"
                                [] OTHER -> asked.question.topic)

MayInterpret == asked.pc = "interpreting" /\ asked.question.topic = "search"

(* Any repairable answer: three attempts in all.                             *)
AnswerRefused ==
    /\ MayInterpret
    /\ \E i \in Intent : ~IntentValid(i)
    /\ asked' = IF asked.attempt = InterpretAttempts THEN NoQuestion
                ELSE [asked EXCEPT !.attempt = @ + 1]
    /\ UNCHANGED <<activeSearch, turns, saidSince, gone, today>>

(* Provider errors, the timeout of a request, cancellation: nothing is kept. *)
AskEnds ==
    /\ asked # NoQuestion
    /\ asked' = NoQuestion
    /\ UNCHANGED <<activeSearch, turns, saidSince, gone, today>>

(* The checks of run before anything is read.                                *)
NoContext(i) ==
    \/ i.mode = "refine" /\ activeSearch.tool = None
    \/ i.tool = "open_result" /\ i.ordinal > Cardinality(asked.referred)
BasisMissing(i) ==
    "area_expression" \in Given(i) /\ "area_basis" \notin Given(i)
    /\ ~(i.mode = "refine" /\ Has(activeSearch.conditions, "area_basis"))

ModelAnswersWithoutSearch(i) ==
    /\ MayInterpret /\ IntentValid(i)
    /\ \/ /\ i.tool \notin SearchTools \cup {"open_result"}
          /\ CompletedWithoutSearch(IF i.tool = "open_f2" THEN "action" ELSE i.tool)
       \/ /\ i.tool \in SearchTools \cup {"open_result"}
          /\ NoContext(i) \/ BasisMissing(i)
             \/ (i.tool \in SearchTools /\ ~NormalizesTo(i, Merged(i)))
          /\ CompletedWithoutSearch("clarification")

(* on_search: the conditions are stored with the request.                    *)
SearchBegin(i) ==
    /\ MayInterpret /\ IntentValid(i)
    /\ i.tool \in SearchTools /\ ~NoContext(i) /\ ~BasisMissing(i)
    /\ NormalizesTo(i, Merged(i))
    /\ asked' = Searching(asked.question, asked.day, i, Merged(i))
    /\ UNCHANGED <<activeSearch, turns, saidSince, gone, today>>

SearchEnd ==
    /\ asked.pc = "searching"
    /\ IF NameAmbiguous(asked.conditions) THEN CompletedWithoutSearch("clarification")
       ELSE /\ Completed(asked.question, asked.tool, RowsFound(asked.tool, asked.conditions))
            /\ activeSearch' = [tool |-> asked.tool, conditions |-> asked.conditions]
            /\ saidSince' = Sources \cup (IF asked.mode = "refine" THEN saidSince ELSE {})

(* A row of the referred result that is still there is opened.               *)
OpenResult(i) ==
    /\ MayInterpret /\ IntentValid(i) /\ i.tool = "open_result" /\ ~NoContext(i)
    /\ \E id \in asked.referred :
          CompletedWithoutSearch(IF id \in gone THEN "clarification" ELSE "action")

ChatQueryNext ==
    \/ LedgerMoves
    \/ \E q \in Question, referred \in {None} \cup DOMAIN turns : Ask(q, referred)
    \/ AnswerAtOnce \/ AnswerRefused \/ AskEnds \/ SearchEnd
    \/ \E i \in Intent : ModelAnswersWithoutSearch(i) \/ SearchBegin(i) \/ OpenResult(i)

ChatQuerySpec == ChatQueryInit /\ [][ChatQueryNext]_chatQueryVars
------------------------------------------------------------------------------
(* Whatever the model answers, and over any number of refinements, the active
   search holds only conditions that the user said in a question that belongs to
   it: the one that began it, those that refined it and the ones they answered.
   A question that names another kind of deal, basis or order is never answered
   with the old one, and not with both.  (_validate_intent, normalize)        *)
ConditionsWereSaid ==
    /\ \A f \in DOMAIN activeSearch.conditions : LET v == activeSearch.conditions[f] IN
          IF f \in EnumFields
          THEN ValuesOf(f, v) \subseteq UNION {q.names[f] : q \in saidSince}
          ELSE \E q \in saidSince :
                  v \in q.text \/ (f = "status" /\ q.text \cap StatusWord # {})
    /\ asked.pc = "searching" =>
          \A f \in EnumFields \cap DOMAIN asked.conditions :
              asked.question.names[f] # {} =>
                  ValuesOf(f, asked.conditions[f]) \subseteq asked.question.names[f]

(* An amount, in half units, is one that a phrase stands for.                *)
Means(p, x) ==
    CASE p.form = "exactly" -> x = 2 * p.n
      [] p.form = "atMost" -> x <= 2 * p.n
      [] p.form = "below" -> x < 2 * p.n
      [] p.form = "atLeast" -> x >= 2 * p.n
      [] p.form = "above" -> x > 2 * p.n
      [] p.form = "range" -> x >= 2 * p.n /\ x <= 2 * p.m
      [] p.form = "fromBelow" -> x >= 2 * p.n /\ x < 2 * p.m
      [] p.form = "aboveTo" -> x > 2 * p.n /\ x <= 2 * p.m
      [] p.form = "aboveBelow" -> x > 2 * p.n /\ x < 2 * p.m

(* A phrase that stands for any amount stands for one next to its first end.  *)
MeansSome(p) == \E x \in 2 * p.n - 1 .. 2 * p.n + 1 : Means(p, x)

(* The budget that is known of a buyer: a range, or its one known end.  Nothing
   in the ledger forbids a range whose ends are the wrong way round.         *)
Budget(r) == IF r.low = None /\ r.high = None THEN {}
             ELSE 2 * Coalesce(r.low, r.high) .. 2 * Coalesce(r.high, r.low)
InOrder(r) == r.low # None /\ r.high # None => r.low <= r.high

(* A buyer is shown exactly when an amount that the phrase stands for lies in the
   budget that is known of him.  A phrase that stands for no amount is left out:
   the code accepts "above 3 and below 3" and compares the ends.
   (parse_bounds, _overlap_conditions)                                        *)
BudgetsOverlapTheQuestion ==
    asked.pc = "searching" /\ asked.tool = "buyers" /\ Has(asked.conditions, "price_expression") =>
        LET p == AmountPhrase[asked.conditions["price_expression"]]
            others == [f \in DOMAIN asked.conditions \ {"price_expression"} |-> asked.conditions[f]]
        IN MeansSome(p) =>
            \A id \in DOMAIN LedgerRow \ gone :
                LET r == LedgerRow[id] IN r.ledger = "buyers" /\ InOrder(r) =>
                    (id \in RowsFound("buyers", asked.conditions)) =
                        ((\E x \in Budget(r) : Means(p, x)) /\ id \in RowsFound("buyers", others))

=============================================================================
