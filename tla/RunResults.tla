----------------------------- MODULE RunResults -----------------------------
(***************************************************************************)
(* What a broker sees of an F3 run (domain/agent_execution/results.py) and *)
(* the feedback that goes back (feedback.py).                              *)
(*                                                                         *)
(* The screen polls while a worker moves the run from stage to stage.  A   *)
(* result is put together from several statements under READ COMMITTED,    *)
(* each of which sees what has been committed by then: the run, its        *)
(* judgment header, the card of the anchor, the judgments of one page.     *)
(* Evidence is stored with its judgment or card, never changes, and is     *)
(* read with it here.                                                      *)
(***************************************************************************)
EXTENDS Integers, Sequences, FiniteSetsExt, SequencesExt

CONSTANTS
    Answer,      \* rows on the other side of the ledger
    AnswerCard,  \* position cards a candidate may get
    Selected,    \* CANDIDATE_CARD_LIMIT
    ResultLimit,   \* limit of the page the screen asks for
    NotThere       \* what is not there

ASSUME ResultsAssumption ==
    /\ Selected \in Nat \ {0} /\ ResultLimit \in Nat \ {0}
    /\ NotThere \notin Answer \cup AnswerCard
    /\ NotThere \notin [card : AnswerCard, rank : Nat]

VARIABLES
    judgedRun,  \* the run with its header
    judgments,  \* match_candidate_evaluation
    anchorCard, \* whether the card of the anchor is still active
    poll,       \* the request that is being answered
    screen,     \* the last result the screen got
    feedback    \* ai_decision_feedback

resultVars == <<judgedRun, judgments, anchorCard, poll, screen, feedback>>

InStage == {"RUNNING", "ANCHOR_READY", "CANDIDATES_READY", "CANDIDATE_CARDS_READY", "JUDGING"}

NoHeader == [entries |-> <<>>, cards |-> <<>>, stored |-> FALSE]
Fresh == [status |-> "QUEUED", synthetic |-> FALSE, anchor |-> FALSE, header |-> NoHeader]
Asleep == [at |-> "asleep"]

First(n, s) == SubSeq(s, 1, Min({n, Len(s)}))

\* A new run, or one finished before results were marked as synthetic.
ResultsInit ==
    /\ \/ judgedRun = Fresh
       \/ judgedRun = [Fresh EXCEPT !.status = "COMPLETED", !.anchor = TRUE]
    /\ judgments = {}
    /\ anchorCard = "none"
    /\ poll = Asleep
    /\ screen = Asleep
    /\ feedback = {}

-----------------------------------------------------------------------------
(* The worker.                                                               *)

Advance(from, run) ==
    /\ judgedRun.status = from
    /\ judgedRun' = run
    /\ UNCHANGED <<poll, screen, feedback>>

StartRun ==
    /\ Advance("QUEUED", [judgedRun EXCEPT !.status = "RUNNING"])
    /\ UNCHANGED <<judgments, anchorCard>>

\* mark_run_anchor_ready writes the mark together with the card's id.
StoreAnchorCard ==
    /\ Advance("RUNNING", [judgedRun EXCEPT !.status = "ANCHOR_READY", !.synthetic = TRUE,
                                            !.anchor = TRUE])
    /\ anchorCard' = "active"
    /\ UNCHANGED judgments

StoreSelection(entries) ==
    /\ Advance("ANCHOR_READY",
          [judgedRun EXCEPT !.status = "CANDIDATES_READY",
                            !.header = [entries |-> entries, cards |-> <<>>, stored |-> TRUE]])
    /\ UNCHANGED <<judgments, anchorCard>>

\* record_candidate_cards: a card for each selected candidate, or nothing.
StoreCards(cards) ==
    /\ DOMAIN cards = Range(First(Selected, judgedRun.header.entries))
    /\ IsInjective(cards)
    /\ Advance("CANDIDATES_READY",
          [judgedRun EXCEPT !.status = "CANDIDATE_CARDS_READY", !.header.cards = cards])
    /\ UNCHANGED <<judgments, anchorCard>>

StartJudging ==
    /\ Advance("CANDIDATE_CARDS_READY", [judgedRun EXCEPT !.status = "JUDGING"])
    /\ UNCHANGED <<judgments, anchorCard>>

\* Faulty: stores whatever part the model has answered.
JudgedSome(cards) == SUBSET Range(cards)

\* validate_judgment_result: a judgment for every card and no other.
Judged(cards) == {Range(cards)}

\* The ranks are 1, 2, ... in the order the model puts them.
StoreJudgments(order) ==
    /\ Range(order) \in Judged(judgedRun.header.cards)
    /\ Advance("JUDGING", [judgedRun EXCEPT !.status = "COMPLETED"])
    /\ judgments' = {[card |-> order[i], rank |-> i] : i \in DOMAIN order}
    /\ UNCHANGED anchorCard

EndEarly(status) ==
    /\ judgedRun.status \in InStage
    /\ Advance(judgedRun.status, [judgedRun EXCEPT !.status = status])
    /\ UNCHANGED <<judgments, anchorCard>>

\* By hand: the code reads invalidated_at and never writes it.
InvalidateAnchor ==
    /\ anchorCard = "active"
    /\ anchorCard' = "invalid"
    /\ UNCHANGED <<judgedRun, judgments, poll, screen, feedback>>

-----------------------------------------------------------------------------
(* The screen.                                                               *)

Reading(place, new) ==
    /\ poll.at = place
    /\ poll' = new
    /\ UNCHANGED <<judgedRun, judgments, anchorCard, screen, feedback>>

Shows(result) ==
    /\ screen' = result
    /\ poll' = Asleep
    /\ UNCHANGED <<judgedRun, judgments, anchorCard, feedback>>

StatusRead == poll.status

NothingShown == [at |-> "shown", status |-> StatusRead, card |-> FALSE, total |-> 0, items |-> <<>>]

\* require_cross_judgment_run finds no run of another office, and nothing more
\* of an unmarked run is read than its state.
ReadRun(offset) ==
    Reading("asleep", [at |-> IF judgedRun.synthetic THEN "header" ELSE "empty",
                       status |-> judgedRun.status, offset |-> offset])

\* find_match_evaluation_for_run
ReadHeader ==
    Reading("header", [at |-> "card", status |-> poll.status, offset |-> poll.offset,
                       header |-> judgedRun.header])

\* find_anchor_card_from_context
ReadAnchor ==
    Reading("card", [poll EXCEPT !.at = IF anchorCard # "active" THEN "empty"
                                        ELSE IF poll.header.stored THEN "judgments"
                                        ELSE "card only"])

ShowEmpty == poll.at = "empty" /\ Shows(NothingShown)
ShowCard == poll.at = "card only" /\ Shows([NothingShown EXCEPT !.card = TRUE])

JudgmentOf(c) ==
    IF c \in DOMAIN poll.header.cards
       /\ \E j \in judgments : j.card = poll.header.cards[c]
    THEN CHOOSE j \in judgments : j.card = poll.header.cards[c]
    ELSE NotThere

\* A candidate has the rank of its judgment, or that of the search before it
\* is judged.
Item(i) ==
    LET c == poll.header.entries[i]
    IN [candidate |-> c, judgment |-> JudgmentOf(c), selected |-> i <= Selected,
        rank |-> IF JudgmentOf(c) = NotThere THEN i ELSE JudgmentOf(c).rank]

\* list_candidate_judgments, for the cards of the page, in one statement.
ShowCandidates ==
    /\ poll.at = "judgments"
    /\ LET total == Len(poll.header.entries)
           page == [i \in 1..Max({0, Min({ResultLimit, total - poll.offset})}) |-> Item(poll.offset + i)]
       IN Shows([NothingShown EXCEPT !.card = TRUE, !.total = total, !.items = page])

\* The broker is not interested in the anchor's card or in a judgment it saw;
\* its office has a row of that id, or the request is refused.
GiveFeedback(target) ==
    /\ target \in {"anchor"} \cup {j.card : j \in judgments}
    /\ target = "anchor" => judgedRun.anchor /\ anchorCard # "none"
    /\ feedback' = feedback \cup {target}
    /\ UNCHANGED <<judgedRun, judgments, anchorCard, poll, screen>>

-----------------------------------------------------------------------------

Lists == UNION {{s \in [1..n -> Answer] : IsInjective(s)} : n \in 0..Cardinality(Answer)}
CardLists == UNION {{s \in [1..n -> AnswerCard] : IsInjective(s)} : n \in 0..Selected}

ResultsNext ==
    \/ StartRun \/ StoreAnchorCard \/ StartJudging \/ InvalidateAnchor
    \/ \E entries \in Lists : StoreSelection(entries)
    \/ \E some \in SUBSET Answer : \E cards \in [some -> AnswerCard] : StoreCards(cards)
    \/ \E order \in CardLists : StoreJudgments(order)
    \/ \E status \in {"FAILED_TERMINAL", "SUPERSEDED"} : EndEarly(status)
    \/ \E offset \in 0..Cardinality(Answer) : ReadRun(offset)
    \/ ReadHeader \/ ReadAnchor \/ ShowEmpty \/ ShowCard \/ ShowCandidates
    \/ \E target \in {"anchor"} \cup AnswerCard : GiveFeedback(target)

ResultsSpec == ResultsInit /\ [][ResultsNext]_resultVars

-----------------------------------------------------------------------------

\* The screen stops polling at a status that ends the run.  A result that says
\* COMPLETED is then whole: each selected candidate on it carries its judgment,
\* whatever was committed between the statements that read it.  The ranks on any
\* page are of two kinds, the search's and the judgment's, and no two candidates
\* on it share one (load_run_result, match_rank and rank).
PagesAreWhole ==
    screen # Asleep =>
        /\ screen.status = "COMPLETED" =>
              \A i \in DOMAIN screen.items :
                  screen.items[i].selected => screen.items[i].judgment # NotThere
        /\ \A i, j \in DOMAIN screen.items :
              screen.items[i].rank = screen.items[j].rank => i = j

=============================================================================
