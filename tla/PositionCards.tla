---------------------------- MODULE PositionCards ----------------------------
(***************************************************************************)
(* The data an F3 run works on: the position cards it finds in the cache   *)
(* or has the model write, the candidates it selects, the cards of those   *)
(* candidates, and the judgment over them, while the ledger changes and    *)
(* other runs, of either side, fill the same cache.                        *)
(*                                                                         *)
(* Who may drive a run is the subject of AgentRun.  Here a claim is its    *)
(* attempt number: a lease may expire at any time, the next claim counts   *)
(* one more, and a worker whose number is old moves no run.  What a step   *)
(* raises is written with the step that raises it.                         *)
(*                                                                         *)
(* The transactions that store a card or a judgment run under READ         *)
(* COMMITTED and lock no row of the ledger: what they compare before they  *)
(* write (Verify...) is one step, what they write (Store...) another, and  *)
(* saves may come between the two.                                         *)
(*                                                                         *)
(* A definition under a comment that begins with "Faulty" is a plausible   *)
(* mistake in the definition after it, which the properties must catch;    *)
(* no action uses it.                                                      *)
(***************************************************************************)
EXTENDS Integers, Sequences, FiniteSetsExt

CONSTANTS
    Listing,      \* rows of property_listing
    Requirement,  \* rows of client_requirement
    Run,          \* rows of agent_run
    Worker,
    Limit,        \* CANDIDATE_CARD_LIMIT
    MaxAttempts,  \* MAX_CLAIM_ATTEMPTS
    MaxCards,     \* bound: rows of negotiation_position_analysis
    MaxEdits,     \* bound: changes of the ledger
    MaxInvalid    \* bound: cards invalidated from outside

ASSUME CardConstants ==
    /\ Listing \cap Requirement = {}
    /\ Limit \in Nat \ {0} /\ MaxAttempts \in Nat \ {0}
    /\ MaxCards \in Nat /\ MaxEdits \in Nat /\ MaxInvalid \in Nat

VARIABLES
    ledger,  \* what a card of each target would be written from now
    cards,   \* position cards in the order of their ids
    run,     \* agent_run with its match_evaluation and judgment rows
    job,     \* per worker: where it is in the stage it works on
    kept     \* history: the inputs whose answers the failed attempts of a run kept

vars == <<ledger, cards, run, job, kept>>

Target == Listing \cup Requirement

\* row_version, and the edition of everything else the model is shown: the
\* consultations in scope, the unit and complex, the roles of the parties.
Input == [version: Nat, source: Nat]

Opposite(t) == IF t \in Listing THEN Requirement ELSE Listing

Card == [target: Target, input: Input, active: BOOLEAN]
CardId == 1..Len(cards)

-----------------------------------------------------------------------------
(* Rows and jobs. *)

Stages == {"RUNNING", "ANCHOR_READY", "CANDIDATES_READY",
           "CANDIDATE_CARDS_READY", "JUDGING"}
Active == Stages \cup {"QUEUED"}

NoRun == [status |-> "ABSENT"]
Filed(t) ==
    [status |-> "QUEUED", anchor |-> t, version |-> ledger[t].version,
     attempt |-> 0, anchorCard |-> 0, selected |-> <<>>, picked |-> <<>>,
     judged |-> <<>>]

\* prepared: PreparedGeneration per card of the stage; produced: the indexes
\* the model answered; stored: the card id per index, 0 until it has one; seen:
\* the database as the open transaction has read it.
Idle == [at |-> "idle"]
Nothing == [ledger |-> <<>>, cards |-> <<>>]
Job(r, attempt, place) ==
    [at |-> place, run |-> r, attempt |-> attempt, prepared |-> <<>>,
     produced |-> {}, stored |-> <<>>, seen |-> Nothing]

Database == [ledger |-> ledger, cards |-> cards]

Row(w) == run[job[w].run]

\* The fence of every statement: the claim is the last one and the run goes on.
Fenced(w, statuses) ==
    /\ Row(w).status \in statuses
    /\ Row(w).attempt = job[w].attempt

AnchorCurrent(w) == ledger[Row(w).anchor].version = Row(w).version

\* The active card of an input, or 0: the cache key names the target and the
\* whole input.  (At most one: OneActiveCardPerInput.)
ActiveCards(t, input) ==
    {c \in CardId : cards[c].target = t /\ cards[c].input = input
                       /\ cards[c].active}
ActiveCard(t, input) ==
    IF ActiveCards(t, input) = {} THEN 0
    ELSE CHOOSE c \in ActiveCards(t, input) : TRUE

\* find_position_card_for_target: the recorded card is still of its target and
\* not invalidated.
Usable(c, t) == c \in CardId /\ cards[c].target = t /\ cards[c].active

Init ==
    /\ ledger = [t \in Target |-> [version |-> 1, source |-> 1]]
    /\ cards = <<>>
    /\ run = [r \in Run |-> NoRun]
    /\ job = [w \in Worker |-> Idle]
    /\ kept = [r \in Run |-> {}]

-----------------------------------------------------------------------------
(* The world around the workers. *)

Edits == MapThenSumSet(LAMBDA t : ledger[t].version + ledger[t].source - 2, Target)

\* A save of the row itself, or of something its card is written from.
EditVersion(t) ==
    /\ Edits < MaxEdits
    /\ ledger' = [ledger EXCEPT ![t].version = @ + 1]
    /\ UNCHANGED <<cards, run, job>>

EditSource(t) ==
    /\ Edits < MaxEdits
    /\ ledger' = [ledger EXCEPT ![t].source = @ + 1]
    /\ UNCHANGED <<cards, run, job>>

\* invalidated_at is set by hand: the code reads it everywhere and writes it
\* nowhere.
Invalidate(c) ==
    /\ cards[c].active
    /\ Cardinality({d \in CardId : ~cards[d].active}) < MaxInvalid
    /\ cards' = [cards EXCEPT ![c].active = FALSE]
    /\ UNCHANGED <<ledger, run, job>>

File(r, t) ==
    /\ run[r] = NoRun
    /\ \A q \in Run : run[q].status \in Active =>
          ~(run[q].anchor = t /\ run[q].version = ledger[t].version)
    /\ run' = [run EXCEPT ![r] = Filed(t)]
    /\ UNCHANGED <<ledger, cards, job>>

Claimable(r) == run[r].status \in Active /\ run[r].attempt < MaxAttempts

Claim(w, r) ==
    /\ job[w].at = "idle"
    /\ Claimable(r)
    /\ run' = [run EXCEPT ![r].attempt = @ + 1,
                          ![r].status = IF @ = "QUEUED" THEN "RUNNING" ELSE @]
    /\ job' = [job EXCEPT ![w] = Job(r, run[r].attempt + 1, "step")]
    /\ UNCHANGED <<ledger, cards>>

\* The clean-up of runs whose last attempt has lost its lease.
ExhaustAttempts(r) ==
    /\ run[r].status \in Stages
    /\ run[r].attempt >= MaxAttempts
    /\ run' = [run EXCEPT ![r].status = "FAILED_TERMINAL"]
    /\ UNCHANGED <<ledger, cards, job>>

\* The worker dies, loses its lease, or records a retryable failure.
GiveUp(w) ==
    /\ job[w].at # "idle"
    /\ job' = [job EXCEPT ![w] = Idle]
    /\ UNCHANGED <<ledger, cards, run>>

\* A failure for good: a broken contract, a binding that differs, a refusal.
FailForGood(w) ==
    /\ job[w].at # "idle"
    /\ Fenced(w, Stages)
    /\ run' = [run EXCEPT ![job[w].run].status = "FAILED_TERMINAL"]
    /\ job' = [job EXCEPT ![w] = Idle]
    /\ UNCHANGED <<ledger, cards>>

-----------------------------------------------------------------------------
(* Cards. *)

\* prepare_generation: the input as it is now, and the card it has, if any.
Prepared(t) ==
    [target |-> t, input |-> ledger[t], hit |-> ActiveCard(t, ledger[t])]

Misses(w) == {i \in 1..Len(job[w].prepared) : job[w].prepared[i].hit = 0}

\* Faulty: takes the row version for the whole input.
VerifiedVersion(p) == ledger[p.target].version = p.input.version

\* _verify_and_insert_card compares the version, the scope, the consultations
\* and the fingerprint of the request with the prepared ones; it rebuilds the
\* request for the day it was prepared for, so a midnight changes nothing.
Verified(p) == ledger[p.target] = p.input

\* Faulty: inserts without asking for a conflict.
WinnerIgnored(p) == 0

\* The card another run has inserted for the same key since.
Winner(p) == ActiveCard(p.target, p.input)

\* A card that was found must still be the one; one the model has written is
\* inserted, or loses to the card another run has put in first.
StoresCard(p, id) ==
    IF p.hit # 0
    THEN id = p.hit /\ ActiveCard(p.target, p.input) = p.hit /\ UNCHANGED cards
    ELSE IF Winner(p) # 0
    THEN id = Winner(p) /\ UNCHANGED cards
    ELSE /\ Len(cards) < MaxCards
         /\ id = Len(cards) + 1
         /\ cards' = Append(cards, [target |-> p.target, input |-> p.input,
                                    active |-> TRUE])

NewCardId == 1..(Len(cards) + 1)

-----------------------------------------------------------------------------
(* The anchor's card and the selection. *)

PrepareAnchor(w) ==
    /\ job[w].at = "step"
    /\ Fenced(w, {"RUNNING"})
    /\ AnchorCurrent(w)
    /\ job' = [job EXCEPT ![w].at = "generate",
                          ![w].prepared = <<Prepared(Row(w).anchor)>>]
    /\ UNCHANGED <<ledger, cards, run>>

\* The model calls of a stage, in parallel and without a transaction: any of
\* them may fail.
Generate(w) ==
    /\ job[w].at = "generate"
    /\ \E produced \in SUBSET Misses(w) :
        job' = [job EXCEPT ![w].at = "store", ![w].produced = produced,
                           ![w].stored = [i \in DOMAIN job[w].prepared |-> 0]]
    /\ UNCHANGED <<ledger, cards, run>>

\* store_generated_card: the comparisons, then the card and ANCHOR_READY.  The
\* card is locked or inserted by the transaction that moves the run.
VerifyAnchor(w) ==
    /\ job[w].at = "store"
    /\ Fenced(w, {"RUNNING"})
    /\ job[w].produced = Misses(w)
    /\ Verified(job[w].prepared[1])
    /\ job' = [job EXCEPT ![w].at = "keep anchor", ![w].seen = Database]
    /\ UNCHANGED <<ledger, cards, run>>

StoreAnchor(w) ==
    /\ job[w].at = "keep anchor"
    /\ Fenced(w, {"RUNNING"})
    /\ \E id \in NewCardId :
        /\ StoresCard(job[w].prepared[1], id)
        /\ run' = [run EXCEPT ![job[w].run].status = "ANCHOR_READY",
                              ![job[w].run].anchorCard = id]
    /\ job' = [job EXCEPT ![w] = Job(@.run, @.attempt, "step")]
    /\ UNCHANGED ledger

\* The candidates in the order of their score, no more than get a card.
Selections(t) ==
    UNION {{s \in [1..n -> Opposite(t)] : \A i, j \in 1..n : s[i] = s[j] => i = j}
              : n \in 0..Limit}

SelectCandidates(w) ==
    /\ job[w].at = "step"
    /\ Fenced(w, {"ANCHOR_READY"})
    /\ AnchorCurrent(w)
    /\ Usable(Row(w).anchorCard, Row(w).anchor)
    /\ \E s \in Selections(Row(w).anchor) :
        run' = [run EXCEPT ![job[w].run].status = "CANDIDATES_READY",
                           ![job[w].run].selected = s]
    /\ UNCHANGED <<ledger, cards, job>>

-----------------------------------------------------------------------------
(* The candidates' cards. *)

PlanCards(w) ==
    /\ job[w].at = "step"
    /\ Fenced(w, {"CANDIDATES_READY"})
    /\ AnchorCurrent(w)
    /\ job' = [job EXCEPT ![w].at = "prepare"]
    /\ UNCHANGED <<ledger, cards, run>>

\* One candidate after the other, each in its own transaction.
PrepareCandidate(w) ==
    LET next == Len(job[w].prepared) + 1 IN
    /\ job[w].at = "prepare"
    /\ Fenced(w, {"CANDIDATES_READY"})
    /\ next <= Len(Row(w).selected)
    /\ job' = [job EXCEPT ![w].prepared =
                  Append(@, Prepared(Row(w).selected[next]))]
    /\ UNCHANGED <<ledger, cards, run>>

AllPrepared(w) ==
    /\ job[w].at = "prepare"
    /\ Len(job[w].prepared) = Len(Row(w).selected)
    /\ job' = [job EXCEPT ![w].at = "generate"]
    /\ UNCHANGED <<ledger, cards, run>>

\* Faulty: stops at the first candidate the model gave no answer for.
ToStoreUntilFailure(w) ==
    {i \in DOMAIN job[w].stored :
        /\ job[w].stored[i] = 0
        /\ \A j \in 1..i : j \notin Misses(w) \ job[w].produced}

\* What is left to store: the hits and what the model answered.
ToStore(w) ==
    {i \in DOMAIN job[w].stored :
        job[w].stored[i] = 0 /\ i \notin Misses(w) \ job[w].produced}

\* In the order of the selection.
NextToStore(w, i) == i \in ToStore(w) /\ \A j \in ToStore(w) : i <= j

\* store_position_card: one candidate's card in a transaction of its own.  It
\* writes no run, and asks for the claim at its beginning only.
VerifyCandidate(w) ==
    /\ job[w].at = "store"
    /\ Fenced(w, {"CANDIDATES_READY"})
    /\ \E i \in ToStore(w) : NextToStore(w, i) /\ Verified(job[w].prepared[i])
    /\ job' = [job EXCEPT ![w].at = "keep candidate"]
    /\ UNCHANGED <<ledger, cards, run>>

StoreCandidate(w) ==
    /\ job[w].at = "keep candidate"
    /\ \E i \in ToStore(w), id \in NewCardId :
        /\ NextToStore(w, i)
        /\ StoresCard(job[w].prepared[i], id)
        /\ job' = [job EXCEPT ![w].at = "store", ![w].stored[i] = id]
    /\ UNCHANGED <<ledger, run>>

\* The stage raises; the holder of the run has kept what it was answered for.
Fails(w, answered) ==
    /\ job' = [job EXCEPT ![w].at = "failed"]
    /\ kept' = [kept EXCEPT ![job[w].run] = @ \cup
          {<<job[w].prepared[i].target, job[w].prepared[i].input>> :
              i \in {j \in answered : Row(w).attempt = job[w].attempt}}]
    /\ UNCHANGED <<ledger, cards, run>>

\* Every success is stored: the first failure of the model is raised.
RaiseFailure(w) ==
    /\ job[w].at = "store"
    /\ ToStore(w) = {}
    /\ job[w].produced # Misses(w)
    /\ Fails(w, job[w].produced)

\* A failure of the store itself is raised at once: this answer and all that
\* would have been stored after it are lost.
StoreFails(w) ==
    /\ job[w].at \in {"store", "keep anchor", "keep candidate"}
    /\ ToStore(w) # {}
    /\ Fails(w, job[w].produced \ ToStore(w))

\* Faulty: goes on with the candidates that got a card.
RecordCardsPartly(w) ==
    /\ job[w].at = "store"
    /\ Fenced(w, {"CANDIDATES_READY"})
    /\ ToStore(w) = {}
    /\ AnchorCurrent(w)
    /\ run' = [run EXCEPT ![job[w].run].status = "CANDIDATE_CARDS_READY",
                          ![job[w].run].picked =
                              SelectSeq(job[w].stored, LAMBDA c : c # 0)]
    /\ job' = [job EXCEPT ![w] = Job(@.run, @.attempt, "step")]
    /\ UNCHANGED <<ledger, cards>>

\* _record_cards: the whole selection has cards, and they are usable.
RecordCards(w) ==
    /\ job[w].at = "store"
    /\ Fenced(w, {"CANDIDATES_READY"})
    /\ ToStore(w) = {}
    /\ job[w].produced = Misses(w)
    /\ AnchorCurrent(w)
    /\ \A i \in DOMAIN job[w].stored :
          Usable(job[w].stored[i], Row(w).selected[i])
    /\ run' = [run EXCEPT ![job[w].run].status = "CANDIDATE_CARDS_READY",
                          ![job[w].run].picked = job[w].stored]
    /\ job' = [job EXCEPT ![w] = Job(@.run, @.attempt, "step")]
    /\ UNCHANGED <<ledger, cards>>

-----------------------------------------------------------------------------
(* The judgment. *)

CardsOf(r) ==
    {run[r].anchorCard} \cup {run[r].picked[i] : i \in DOMAIN run[r].picked}

\* Faulty: looks at the anchor's row only.
AllCurrentAnchor(r) ==
    ledger[run[r].anchor].version = cards[run[r].anchorCard].input.version

\* _load_cards: the rows the cards were written for have not been saved since.
AllCurrent(r) ==
    \A c \in CardsOf(r) :
        ledger[cards[c].target].version = cards[c].input.version

AllActive(r) == \A c \in CardsOf(r) : cards[c].active

\* prepare_judgment: without candidates there is nothing to ask.
PrepareJudgment(w) ==
    LET r == job[w].run IN
    /\ job[w].at = "step"
    /\ Fenced(w, {"CANDIDATE_CARDS_READY", "JUDGING"})
    /\ AnchorCurrent(w)
    /\ run[r].picked # <<>> => AllActive(r) /\ AllCurrent(r)
    /\ run' = IF run[r].picked = <<>> THEN run
              ELSE [run EXCEPT ![r].status = "JUDGING"]
    /\ job' = [job EXCEPT ![w].at = "judge", ![w].stored = run[r].picked]
    /\ UNCHANGED <<ledger, cards>>

\* store_judgment: the comparisons, then all rows of the judgment and COMPLETED.
JudgedStage(w) ==
    IF job[w].stored = <<>> THEN "CANDIDATE_CARDS_READY" ELSE "JUDGING"

VerifyJudgment(w) ==
    LET r == job[w].run IN
    /\ job[w].at = "judge"
    /\ Fenced(w, {JudgedStage(w)})
    /\ AnchorCurrent(w)
    /\ run[r].picked = job[w].stored
    /\ run[r].picked # <<>> => AllActive(r) /\ AllCurrent(r)
    /\ job' = [job EXCEPT ![w].at = "conclude", ![w].seen = Database]
    /\ UNCHANGED <<ledger, cards, run>>

StoreJudgment(w) ==
    LET r == job[w].run IN
    /\ job[w].at = "conclude"
    /\ Fenced(w, {JudgedStage(w)})
    /\ run' = [run EXCEPT ![r].status = "COMPLETED", ![r].judged = job[w].stored]
    /\ job' = [job EXCEPT ![w] = Idle]
    /\ UNCHANGED <<ledger, cards>>

\* What a step finds changed supersedes the run: the anchor's row, the input
\* of the card it stores next, or the row of any card of the judgment.
InputChanged(w) ==
    \/ job[w].at \in {"step", "judge"} /\ ~AnchorCurrent(w)
    \/ /\ job[w].at = "store"
       /\ \E i \in ToStore(w) : NextToStore(w, i) /\ ~Verified(job[w].prepared[i])
    \/ /\ job[w].at = "store"
       /\ ToStore(w) = {} /\ job[w].produced = Misses(w)
       /\ ~AnchorCurrent(w)
    \/ /\ job[w].at \in {"step", "judge"}
       /\ Row(w).status \in {"CANDIDATE_CARDS_READY", "JUDGING"}
       /\ Row(w).picked # <<>>
       /\ AllActive(job[w].run)
       /\ ~AllCurrent(job[w].run)

Supersede(w) ==
    /\ job[w].at # "idle"
    /\ Fenced(w, Stages)
    /\ InputChanged(w)
    /\ run' = [run EXCEPT ![job[w].run].status = "SUPERSEDED"]
    /\ job' = [job EXCEPT ![w] = Idle]
    /\ UNCHANGED <<ledger, cards>>

-----------------------------------------------------------------------------
Step(w) ==
    \/ PrepareAnchor(w) \/ Generate(w) \/ VerifyAnchor(w) \/ StoreAnchor(w)
    \/ SelectCandidates(w)
    \/ PlanCards(w) \/ PrepareCandidate(w) \/ AllPrepared(w)
    \/ VerifyCandidate(w) \/ StoreCandidate(w) \/ RecordCards(w)
    \/ PrepareJudgment(w) \/ VerifyJudgment(w) \/ StoreJudgment(w)
    \/ Supersede(w) \/ FailForGood(w) \/ GiveUp(w)

Quiet ==
    \/ \E t \in Target :
        EditVersion(t) \/ EditSource(t) \/ \E r \in Run : File(r, t)
    \/ \E c \in CardId : Invalidate(c)
    \/ \E r \in Run : ExhaustAttempts(r) \/ \E w \in Worker : Claim(w, r)
    \/ \E w \in Worker : Step(w)

Next ==
    \/ Quiet /\ UNCHANGED kept
    \/ \E w \in Worker : RaiseFailure(w) \/ StoreFails(w)

Spec == Init /\ [][Next]_vars

-----------------------------------------------------------------------------
(* Properties. *)

TypeOK ==
    /\ ledger \in [Target -> Input]
    /\ cards \in Seq(Card)
    /\ \A r \in Run : run[r] # NoRun =>
          /\ run[r].status \in
                Active \cup {"COMPLETED", "SUPERSEDED", "FAILED_TERMINAL"}
          /\ run[r].anchor \in Target
          /\ run[r].version \in Nat
          /\ run[r].attempt \in 0..MaxAttempts
          /\ run[r].anchorCard \in CardId \cup {0}
          /\ run[r].selected \in Seq(Opposite(run[r].anchor))
          /\ run[r].picked \in Seq(CardId) /\ run[r].judged \in Seq(CardId)
    /\ \A w \in Worker :
          job[w].at \in {"idle", "step", "prepare", "generate", "store",
                         "keep anchor", "keep candidate", "failed", "judge",
                         "conclude"}

\* Two runs that meet on one input, from either side, share one card: the
\* cache never holds two active ones (uq_position_analysis_active_cache_key).
OneActiveCardPerInput ==
    \A c, d \in CardId :
        /\ cards[c].active /\ cards[d].active
        /\ cards[c].target = cards[d].target
        /\ cards[c].input = cards[d].input
        => c = d

\* A run is judged over its whole selection and nothing else: from the moment
\* the cards are recorded there is one per selected candidate, of that
\* candidate, in that order; the anchor's is of the version the run was filed
\* for; and what is stored as the judgment speaks of exactly those cards.
JudgmentCoversSelection ==
    \A r \in Run :
        /\ run[r].status \in Stages \ {"RUNNING"} =>
              /\ cards[run[r].anchorCard].target = run[r].anchor
              /\ cards[run[r].anchorCard].input.version = run[r].version
        /\ run[r].status \in {"CANDIDATE_CARDS_READY", "JUDGING", "COMPLETED"} =>
              /\ Len(run[r].picked) = Len(run[r].selected)
              /\ \A i \in DOMAIN run[r].picked :
                    cards[run[r].picked[i]].target = run[r].selected[i]
        /\ run[r].status = "COMPLETED" => run[r].judged = run[r].picked

\* A retry does not pay for an answer again: of an input that an earlier, failed
\* attempt of the run was answered for, before the store failed if it did, the
\* model is asked once more only if the card that was kept has been invalidated,
\* whatever was edited, written by other runs or prepared by a stale worker in
\* between.  (generate_and_store_candidate_cards: "the next attempt skips it")
KeptAnswersAreReused ==
    \A w \in Worker :
        /\ job[w].at \in {"prepare", "generate", "store", "keep anchor", "keep candidate"}
        /\ Row(w).attempt = job[w].attempt
        => \A i \in Misses(w) :
              LET p == job[w].prepared[i] IN
              <<p.target, p.input>> \in kept[job[w].run] =>
                  \E c \in CardId :
                      cards[c].target = p.target /\ cards[c].input = p.input /\ ~cards[c].active

\* The worker that has run r and whose transaction has verified for a place.
Verifies(w, r, place) ==
    /\ job[w].at = place
    /\ job[w].run = r /\ job[w].attempt = run[r].attempt

\* A run gets its anchor card only for the anchor as the storing transaction
\* read it after the model call, and only an active one: whether it was found
\* before the call, written by it, or put in by another run meanwhile.
AnchorCardIsCurrent ==
    [][\A r \in Run :
         run[r].status = "RUNNING" /\ run'[r].status = "ANCHOR_READY" =>
            /\ cards'[run'[r].anchorCard].active
            /\ \E w \in Worker :
                /\ Verifies(w, r, "keep anchor")
                /\ cards'[run'[r].anchorCard].input =
                       job[w].seen.ledger[run[r].anchor]]_vars

\* A judgment compares rows that stood together after the model had answered:
\* of the cards it is stored for, the storing transaction read none as
\* invalidated and no row of theirs as saved since it was written.  (A save
\* that commits after that read is not seen: the result shows as outdated.)
JudgedTogether ==
    [][\A r \in Run :
         run[r].status = "JUDGING" /\ run'[r].status = "COMPLETED" =>
            \E w \in Worker :
                /\ Verifies(w, r, "conclude")
                /\ LET seen == job[w].seen IN
                   \A c \in CardsOf(r) :
                      /\ seen.cards[c].active
                      /\ seen.ledger[cards[c].target].version =
                             cards[c].input.version]_vars

\* What AgentRun promises of the statuses of a run without its data, its data
\* keeps too: every claim resumes at the stored stage, and nothing that a stage
\* finds changed, missing or stored by somebody else takes a run back.  Every
\* run is one a user has asked for.
Lifecycle == INSTANCE RunLifecycle WITH
    stage <- [r \in Run |-> run[r].status],
    wanted <- [r \in Run |-> run[r].status # "ABSENT"]

CardsFollowLifecycle == Lifecycle!Spec

=============================================================================
