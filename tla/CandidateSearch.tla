-------------------------- MODULE CandidateSearch --------------------------
(***************************************************************************)
(* The stage of an F3 run that looks for candidates on the other side of   *)
(* the ledger (domain/agent_execution/candidates.py): it turns the card of *)
(* the anchor into criteria, reads the rows that meet them, orders them by *)
(* a score and stores the whole list.                                      *)
(*                                                                         *)
(* The stage is one transaction under READ COMMITTED, so every statement   *)
(* of it sees what has been committed by then: the ledger may change       *)
(* between two of them.  Who holds the lease of the run is the subject of  *)
(* AgentRun; here a stage may be cut short and run again.                  *)
(***************************************************************************)
EXTENDS Integers, Sequences, SequencesExt

CONSTANTS
    Seeker,       \* rows of property_requirement
    Stock,        \* rows of property_listing, each with its unit
    Block,        \* rows of property_complex
    Unknown,      \* NULL
    SeekerRows,   \* bound: what a requirement may say
    StockRows,    \* bound: what a listing and its unit may say
    Estimates,    \* bound: what the model may have put on the card
    SearchDay,    \* as_of
    SearchEdits   \* bound: changes of the ledger

ASSUME SearchAssumption ==
    /\ Seeker \cap Stock = {}
    /\ Unknown \in Estimates
    /\ SearchEdits \in Nat /\ SearchDay \in Nat

VARIABLES
    seekers,    \* requirements
    stock,      \* listings
    blocks,     \* complexes that are not deleted
    rowVersion, \* row_version of each
    edits,
    search      \* the run: its stage, what it has read, what it has stored

searchVars == <<seekers, stock, blocks, rowVersion, edits, search>>

Kinds == <<"SALE", "JEONSE", "MONTHLY_RENT">>

\* DEMAND_TYPE_TO_PRICE_KIND and its inverse: nobody answers a seller.
KindWanted(demand) ==
    [BUY |-> "SALE", JEONSE |-> "JEONSE", RENT |-> "MONTHLY_RENT", SELL |-> Unknown][demand]

-----------------------------------------------------------------------------
(* Scores, in millionths.                                                    *)

One == 1000000

\* quantize: the nearest integer of n / d, ties to the even one.
Quantized(n, d) ==
    LET q == n \div d
        r == 2 * (n % d)
    IN IF r > d \/ (r = d /\ q % 2 = 1) THEN q + 1 ELSE q

Distance(a, b) == IF a < b THEN b - a ELSE a - b

PriceProximity(anchor, candidate) ==
    IF anchor \in {Unknown, 0} \/ candidate = Unknown \/ Distance(anchor, candidate) > anchor
    THEN 0
    ELSE Quantized((anchor - Distance(anchor, candidate)) * One, anchor)

AreaMatch(one, many) ==
    IF one # Unknown /\ \E p \in many : Distance(p, one) <= 1 THEN One ELSE 0

Recency(received) ==
    IF received = Unknown THEN 0
    ELSE Quantized(30 * One, 30 + (IF SearchDay > received THEN SearchDay - received ELSE 0))

Score(price, area, recency) == Quantized(5 * price + 3 * area + 2 * recency, 10)

Day(received) == IF received = Unknown THEN 0 ELSE received + 1

\* _order: the best score first, then the latest received, then the least id.
Precedes(a, b) ==
    \/ a.total > b.total
    \/ a.total = b.total /\ Day(a.received) > Day(b.received)
    \/ a.total = b.total /\ Day(a.received) = Day(b.received) /\ a.id < b.id

Ordered(scores) == SetToSortSeq(scores, Precedes)

-----------------------------------------------------------------------------
(* What the anchor asks for.                                                 *)

\* _anchor_price: the estimate before what the ledger states.
AnchorAmount(card) == IF card.estimated # Unknown THEN card.estimated ELSE card.stated

\* The first kind of trade the card of a listing has a price for.
FirstKind(row) ==
    IF DOMAIN row.prices = {} THEN Unknown
    ELSE Kinds[CHOOSE i \in 1..3 : /\ Kinds[i] \in DOMAIN row.prices
                                   /\ \A j \in 1..(i - 1) : Kinds[j] \notin DOMAIN row.prices]

Card(anchor, estimated) ==
    IF anchor \in Stock
    THEN LET kind == FirstKind(stock[anchor])
         IN [kind |-> kind, estimated |-> IF kind = Unknown THEN Unknown ELSE estimated,
             stated |-> IF kind = Unknown THEN Unknown ELSE stock[anchor].prices[kind]]
    ELSE [kind |-> "BUDGET", estimated |-> estimated, stated |-> seekers[anchor].budget]

\* PRICE_TOLERANCE_RATIO; int() of a positive amount rounds down.
Floor(amount) == (amount * 9) \div 10
Ceiling(amount) == (amount * 11) \div 10

\* list_requirement_candidates: who names no complex takes any.
SeekersFor(c) ==
    {s \in Seeker :
        LET row == seekers[s] IN
        /\ row.active
        /\ c.kind # Unknown /\ KindWanted(row.demand) = c.kind
        /\ c.amount = Unknown \/ row.budget = Unknown \/ row.budget >= Floor(c.amount)
        /\ c.block = Unknown \/ row.blocks = {} \/ c.block \in row.blocks}

\* list_listing_candidates: the flag of the trade, its own price, and the
\* complexes that are left of those the requirement names.
StockFor(c) ==
    {l \in Stock :
        LET row == stock[l] IN
        /\ row.active
        /\ KindWanted(c.demand) \in DOMAIN row.prices
        /\ LET price == row.prices[KindWanted(c.demand)]
           IN c.amount = Unknown \/ price = Unknown \/ price <= Ceiling(c.amount)
        /\ c.blocks = {} \/ row.block \in c.blocks}

SeekerScore(s, c) ==
    LET row == seekers[s]
    IN [id |-> s, block |-> Unknown, received |-> row.received,
        total |-> Score(PriceProximity(c.amount, row.budget),
                        AreaMatch(c.pyeong, row.pyeongs), Recency(row.received))]

StockScore(l, c) ==
    LET row == stock[l]
    IN [id |-> l, block |-> row.block, received |-> row.received,
        total |-> Score(PriceProximity(c.amount, row.prices[KindWanted(c.demand)]),
                        AreaMatch(row.pyeong, c.pyeongs), Recency(row.received))]

-----------------------------------------------------------------------------
(* The ledger.                                                               *)

IsActive(a) == IF a \in Stock THEN stock[a].active ELSE seekers[a].active

SearchInit ==
    /\ seekers \in [Seeker -> SeekerRows]
    /\ stock \in [Stock -> StockRows]
    /\ blocks = Block
    /\ rowVersion = [a \in Seeker \cup Stock |-> 1]
    /\ edits = 0
    /\ \E a \in {b \in Seeker \cup Stock : IsActive(b)}, e \in Estimates :
          search = [status |-> "ANCHOR_READY", at |-> "start", anchor |-> a,
                    card |-> Card(a, e), version |-> 1,
                    filed |-> IF a \in Seeker THEN seekers[a] ELSE stock[a],
                    criteria |-> <<>>, scores |-> {}, candidates |-> <<>>]

Edit == edits < SearchEdits /\ edits' = edits + 1 /\ UNCHANGED search

EditSeeker(s, row) ==
    /\ row # seekers[s] /\ row.blocks \subseteq blocks \cup seekers[s].blocks
    /\ Edit
    /\ seekers' = [seekers EXCEPT ![s] = row]
    /\ rowVersion' = [rowVersion EXCEPT ![s] = @ + 1]
    /\ UNCHANGED <<stock, blocks>>

\* A save of the listing moves its version; one of its unit, the version of
\* the unit only.
EditStock(l, row) ==
    /\ row # stock[l] /\ row.block \in blocks
    /\ Edit
    /\ stock' = [stock EXCEPT ![l] = row]
    /\ LET ofUnit == [stock[l] EXCEPT !.block = row.block, !.pyeong = row.pyeong] = row
       IN rowVersion' = [rowVersion EXCEPT ![l] = IF ofUnit THEN @ ELSE @ + 1]
    /\ UNCHANGED <<seekers, blocks>>

\* A complex goes when no unit is left in it, whoever names it.
DeleteBlock(b) ==
    /\ b \in blocks /\ \A l \in Stock : stock[l].block # b
    /\ Edit
    /\ blocks' = blocks \ {b}
    /\ UNCHANGED <<seekers, stock, rowVersion>>

-----------------------------------------------------------------------------
(* The stage.                                                                *)

Stage(place) == search.status = "ANCHOR_READY" /\ search.at = place
Reads(new) == search' = new /\ UNCHANGED <<seekers, stock, blocks, rowVersion, edits>>

\* current_anchor_version raises for an anchor that is deleted; a row that is
\* only no longer active is a version of its own.
VersionKept == rowVersion[search.anchor] = search.version

\* Faulty: what was checked at the start is not asked again.
StillCurrentAtStart == TRUE

StillCurrent == VersionKept

Supersede == Reads([search EXCEPT !.status = "SUPERSEDED"])

StartSearch ==
    /\ Stage("start")
    /\ IF VersionKept THEN Reads([search EXCEPT !.at = "criteria"]) ELSE Supersede

\* find_unit_specification for a listing, find_requirement_specification for a
\* requirement.
ReadCriteria ==
    /\ Stage("criteria")
    /\ LET a == search.anchor
           amount == AnchorAmount(search.card)
       IN IF a \in Stock
          THEN Reads([search EXCEPT !.at = "rows", !.criteria =
                  [kind |-> search.card.kind, amount |-> amount,
                   block |-> stock[a].block, pyeong |-> stock[a].pyeong]])
          ELSE Reads([search EXCEPT !.at = "complexes", !.criteria =
                  [demand |-> seekers[a].demand, amount |-> amount,
                   pyeongs |-> seekers[a].pyeongs, blocks |-> {}]])

\* list_requirement_complex_ids
ReadComplexes ==
    /\ Stage("complexes")
    /\ Reads([search EXCEPT !.at = "rows",
                            !.criteria.blocks = seekers[search.anchor].blocks \cap blocks])

ReadCandidates ==
    /\ Stage("rows")
    /\ LET c == search.criteria
       IN Reads([search EXCEPT !.at = "store", !.scores =
             IF search.anchor \in Stock THEN {SeekerScore(s, c) : s \in SeekersFor(c)}
             ELSE {StockScore(l, c) : l \in StockFor(c)}])

StoreCandidates ==
    /\ Stage("store")
    /\ IF StillCurrent
       THEN Reads([search EXCEPT !.status = "CANDIDATES_READY", !.at = "stored",
                                 !.scores = {}, !.candidates = Ordered(search.scores)])
       ELSE Supersede

\* The worker dies or loses its lease; the next one begins again.
CutShort ==
    /\ search.status = "ANCHOR_READY" /\ search.at # "start"
    /\ Reads([search EXCEPT !.at = "start", !.criteria = <<>>, !.scores = {}])

SearchNext ==
    \/ \E s \in Seeker, row \in SeekerRows : EditSeeker(s, row)
    \/ \E l \in Stock, row \in StockRows : EditStock(l, row)
    \/ \E b \in Block : DeleteBlock(b)
    \/ StartSearch \/ ReadCriteria \/ ReadComplexes \/ ReadCandidates
    \/ StoreCandidates \/ CutShort

SearchSpec == SearchInit /\ [][SearchNext]_searchVars

-----------------------------------------------------------------------------

Stored == search.status = "CANDIDATES_READY"
OfSeeker == search.anchor \in Seeker

\* A stored list answers the requirement the run was filed for, however often
\* it was saved while the four statements of the stage ran: its demand, its
\* sizes, and the complexes it names except those that have been deleted
\* (store_candidate_selection checks the version before and after).
SelectionKeepsToItsVersion ==
    (Stored /\ OfSeeker) =>
        /\ search.criteria.demand = search.filed.demand
        /\ search.criteria.pyeongs = search.filed.pyeongs
        /\ search.filed.blocks \cap blocks \subseteq search.criteria.blocks
        /\ search.criteria.blocks \subseteq search.filed.blocks

=============================================================================
