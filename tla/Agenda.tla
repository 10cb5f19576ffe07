-------------------------------- MODULE Agenda --------------------------------
(***************************************************************************)
(* The agenda of an office (domain/time_keeper): a screen that reads it    *)
(* page by page while brokers change the ledger and the calendar.          *)
(*                                                                         *)
(* Six sources of dates are one UNION ALL; each kind of entry is cut to    *)
(* its earliest few, and the rest is read in pages.  A request counts,     *)
(* counts per kind, reads its page and then the units and requirements of  *)
(* the page, each in a statement of its own.  The window of a request is   *)
(* around the day it began on; the next one may come after midnight.       *)
(***************************************************************************)
EXTENDS Integers, FiniteSets, Sequences, SequencesExt

CONSTANTS
    AgendaUnit, AgendaListing, AgendaRequirement, AgendaEvent,  \* ids, naturals
    FirstAgendas,       \* the ledgers and calendars to begin with
    FirstDay,           \* today in the business time zone, to begin with
    WithinDays, OverdueDays, RevalidationDays, PerCategoryLimit,
    PageLimit,
    MaxChanges,         \* bound: changes of the ledger while it is read
    MaxMidnights        \* bound: midnights while it is read

(* The rows that have dates, of one office.                                  *)
AgendaLedgers ==
    [unit : [AgendaUnit -> [live : BOOLEAN, expiry : Int]],
     listing : [AgendaListing -> [open : BOOLEAN, unit : AgendaUnit, received : Int]],
     requirement : [AgendaRequirement ->
                      [live : BOOLEAN, active : BOOLEAN, CLIENT_TENANCY_EXPIRY : Int,
                       REQUEST_EXPIRY : Int, MOVE_IN : Int]],
     event : [AgendaEvent -> [live : BOOLEAN, date : Int, category : Int]]]

ASSUME AgendaAssumption ==
    /\ AgendaUnit \cup AgendaListing \cup AgendaRequirement \cup AgendaEvent \subseteq Nat \ {0}
    /\ IsFiniteSet(AgendaUnit) /\ IsFiniteSet(AgendaListing)
    /\ IsFiniteSet(AgendaRequirement) /\ IsFiniteSet(AgendaEvent)
    /\ FirstAgendas \subseteq AgendaLedgers
    /\ FirstDay \in Int /\ MaxMidnights \in Nat
    /\ WithinDays \in Nat \ {0} /\ OverdueDays \in Nat /\ RevalidationDays \in Nat \ {0}
    /\ PerCategoryLimit \in Nat \ {0} /\ PageLimit \in Nat \ {0} /\ MaxChanges \in Nat

VARIABLES
    agendaLedger,  \* the dates in the ledger and the calendar
    agendaScreen,  \* the screen that pages through the agenda
    agendaChanges, \* how often the ledger has changed
    agendaToday    \* today_in_business_timezone

agendaVars == <<agendaLedger, agendaScreen, agendaChanges, agendaToday>>

Null == 0
NoDate == -1
System == [CLIENT_TENANCY_EXPIRY |-> 1, LISTING_REVALIDATION |-> 2, MOVE_IN |-> 3,
           REQUEST_EXPIRY |-> 4, TENANCY_EXPIRY |-> 5]

------------------------------------------------------------------------------
(* The entries (agenda_union)                                                *)

Earliest(asOf) == asOf - OverdueDays
Latest(asOf) == asOf + WithinDays
InWindow(d, asOf) == d # NoDate /\ d \in Earliest(asOf) .. Latest(asOf)

Entry(category, due, unit, listing, requirement, event) ==
    [category |-> category, due |-> due, unit |-> unit, listing |-> listing,
     requirement |-> requirement, event |-> event]

UnitMembers(g, asOf) ==
    {Entry(System.TENANCY_EXPIRY, g.unit[u].expiry, u, Null, Null, Null) :
        u \in {x \in AgendaUnit : g.unit[x].live /\ InWindow(g.unit[x].expiry, asOf)}}

(* A listing falls due a while after it was received; one left alone for long
   stays due, there is no lower bound.                                       *)
ListingMembers(g, asOf) ==
    {Entry(System.LISTING_REVALIDATION, g.listing[l].received + RevalidationDays,
           g.listing[l].unit, l, Null, Null) :
        l \in {x \in AgendaListing :
                 /\ g.listing[x].open /\ g.unit[g.listing[x].unit].live
                 /\ g.listing[x].received # NoDate
                 /\ g.listing[x].received <= Latest(asOf) - RevalidationDays}}

RequirementMembers(g, asOf) ==
    UNION {{Entry(System[k], g.requirement[q][k], Null, Null, q, Null) :
               k \in {x \in {"CLIENT_TENANCY_EXPIRY", "REQUEST_EXPIRY", "MOVE_IN"} :
                         InWindow(g.requirement[q][x], asOf)}} :
             q \in {x \in AgendaRequirement : g.requirement[x].live /\ g.requirement[x].active}}

(* The kind of an event is free text, a system kind included.                *)
EventMembers(g, asOf) ==
    {Entry(g.event[e].category, g.event[e].date, Null, Null, Null, e) :
        e \in {x \in AgendaEvent : g.event[x].live /\ InWindow(g.event[x].date, asOf)}}

Members(g, asOf) ==
    UNION {UnitMembers(g, asOf), ListingMembers(g, asOf), RequirementMembers(g, asOf),
           EventMembers(g, asOf)}

(* ORDER BY due, kind and ids, NULLS LAST; rows that compare equal come in any
   order, another one in every statement.                                    *)
NullsLast(id) == IF id = Null THEN 1 ELSE 0

\* Faulty: orders by date and kind only.
OrderKeyByDate(x) == <<x.due, x.category>>

OrderKey(x) ==
    <<x.due, x.category, NullsLast(x.unit), x.unit, NullsLast(x.listing), x.listing,
      NullsLast(x.requirement), x.requirement, NullsLast(x.event), x.event>>

Before(x, y) ==
    \E i \in DOMAIN OrderKey(x) :
        /\ OrderKey(x)[i] < OrderKey(y)[i]
        /\ \A j \in 1 .. i - 1 : OrderKey(x)[j] = OrderKey(y)[j]
Orderings(S) == {s \in SetToSeqs(S) : \A i, j \in DOMAIN s : i < j => ~Before(s[j], s[i])}

OfKind(S, k) == {x \in S : x.category = k}

(* ROW_NUMBER within the kind, then the page of what is left.                *)
Kept(s) ==
    {s[i] : i \in {j \in DOMAIN s :
        Cardinality({h \in 1 .. j : s[h].category = s[j].category}) <= PerCategoryLimit}}
PageOf(s, offset) == SubSeq(s, offset + 1, IF offset + PageLimit < Len(s)
                                           THEN offset + PageLimit ELSE Len(s))

------------------------------------------------------------------------------
AgendaInit ==
    /\ agendaLedger \in FirstAgendas
    /\ agendaToday = FirstDay
    /\ agendaScreen = [pc |-> "count", asOf |-> FirstDay, offset |-> 0, total |-> 0, totals |-> <<>>,
                       page |-> <<>>, read |-> <<>>, skipped |-> {}, quiet |-> TRUE, oneDay |-> TRUE]
    /\ agendaChanges = 0

Step(screen) == agendaScreen' = screen /\ UNCHANGED <<agendaLedger, agendaChanges, agendaToday>>
Listed == Members(agendaLedger, agendaScreen.asOf)

(* Every request resolves today anew; its answer says for which day it was.  *)
CountAgenda ==
    /\ agendaScreen.pc = "count"
    /\ Step([agendaScreen EXCEPT !.pc = "categories", !.asOf = agendaToday,
                !.oneDay = @ /\ (agendaScreen.offset = 0 \/ agendaScreen.asOf = agendaToday),
                !.total = Cardinality(Members(agendaLedger, agendaToday))])

CountCategories ==
    /\ agendaScreen.pc = "categories"
    /\ Step([agendaScreen EXCEPT !.pc = "rows",
                !.totals = [k \in {x.category : x \in Listed} |-> Cardinality(OfKind(Listed, k))]])

ListAgenda ==
    /\ agendaScreen.pc = "rows"
    /\ \E ranked \in Orderings(Listed) : \E rows \in Orderings(Kept(ranked)) :
          Step([agendaScreen EXCEPT !.pc = "details",
                                    !.page = PageOf(rows, agendaScreen.offset)])

(* An entry whose unit or requirement is deleted by now is left out.         *)
UnitFound(x) == x.unit # Null => agendaLedger.unit[x.unit].live
RequirementFound(x) == x.requirement # Null => agendaLedger.requirement[x.requirement].live
TargetFound(x) == x.event # Null \/ (UnitFound(x) /\ RequirementFound(x))

(* A page shows the rows it has read but the skipped ones.  The screen asks for
   the next page as long as the last one was full.                           *)
LoadDetails ==
    /\ agendaScreen.pc = "details"
    /\ LET page == agendaScreen.page IN
       Step([agendaScreen EXCEPT !.pc = IF Len(page) = PageLimit THEN "count" ELSE "done",
                !.offset = @ + PageLimit,
                !.read = @ \o page,
                !.skipped = @ \cup {x \in ToSet(page) : ~TargetFound(x)},
                !.page = <<>>])

(* Brokers                                                                   *)
Change(g) ==
    /\ agendaChanges < MaxChanges
    /\ agendaChanges' = agendaChanges + 1
    /\ agendaLedger' = g
    /\ agendaScreen' = [agendaScreen EXCEPT !.quiet = FALSE]
    /\ UNCHANGED agendaToday
DeleteUnitOf(u) ==
    agendaLedger.unit[u].live /\ Change([agendaLedger EXCEPT !.unit[u].live = FALSE])
CloseListing(l) ==
    agendaLedger.listing[l].open /\ Change([agendaLedger EXCEPT !.listing[l].open = FALSE])
DeleteRequirementOf(q) ==
    agendaLedger.requirement[q].live /\ Change([agendaLedger EXCEPT !.requirement[q].live = FALSE])
MoveEvent(e, d) ==
    agendaLedger.event[e].date # d /\ Change([agendaLedger EXCEPT !.event[e].date = d])

MidnightPasses ==
    /\ agendaToday < FirstDay + MaxMidnights
    /\ agendaToday' = agendaToday + 1
    /\ UNCHANGED <<agendaLedger, agendaScreen, agendaChanges>>

AgendaNext ==
    \/ CountAgenda \/ CountCategories \/ ListAgenda \/ LoadDetails
    \/ \E u \in AgendaUnit : DeleteUnitOf(u)
    \/ \E l \in AgendaListing : CloseListing(l)
    \/ \E q \in AgendaRequirement : DeleteRequirementOf(q)
    \/ \E e \in AgendaEvent, d \in {Earliest(agendaToday), Latest(agendaToday) + 1} : MoveEvent(e, d)
    \/ MidnightPasses

AgendaSpec == AgendaInit /\ [][AgendaNext]_agendaVars
------------------------------------------------------------------------------
(* While nobody changes the ledger and the answers are for one day, the pages
   together show every kind that has entries: each entry once, of each kind the
   earliest ones up to the limit.  The counts are exact for the day of the last
   answer, at whatever step of it midnight passes.  An entry is left out of its
   page only when its target was deleted in between.  Pages of two days are cut
   from two windows, and may well repeat an entry or pass one over.
   (list_agenda, load_agenda)                                                *)
PagesShowEachOnce ==
    LET s == agendaScreen
        shown == ToSet(s.read) \ s.skipped IN
    /\ s.skipped \cap Listed = {}
    /\ s.pc = "done" /\ s.quiet =>
        /\ s.total = Cardinality(Listed)
        /\ \A k \in DOMAIN s.totals : s.totals[k] = Cardinality(OfKind(Listed, k))
        /\ {x.category : x \in Listed} = DOMAIN s.totals
    /\ s.pc = "done" /\ s.quiet /\ s.oneDay =>
        /\ Cardinality(shown) = Len(s.read)
        /\ \A k \in DOMAIN s.totals :
              /\ Cardinality(OfKind(shown, k)) =
                    IF s.totals[k] < PerCategoryLimit THEN s.totals[k] ELSE PerCategoryLimit
              /\ \A x \in OfKind(shown, k), y \in OfKind(Listed \ shown, k) :
                    x.due <= y.due

=============================================================================
