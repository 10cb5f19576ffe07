------------------------------ MODULE Generation ------------------------------
(***************************************************************************)
(* The structured generation of F3 (brokerage_ai: providers, f3): position *)
(* cards are generated side by side, then one brokerage judgment over the  *)
(* cards.  A call waits for a stream slot of its endpoint, gets a reply,   *)
(* and an answer that breaks the contract is sent back to the model.       *)
(*                                                                         *)
(* Text is abstract: a log is the set of the quotations it contains.       *)
(***************************************************************************)
EXTENDS Naturals, FiniteSets, Sequences, SequencesExt

CONSTANTS
    AnchorCard, CandidateCards, \* position cards, naturals; each has its own log
    Said,                       \* card -> the texts that its consultation logs contain
    OpenPrices,                 \* card -> the kinds of price open in its ledger row
    DeadlineSignal,             \* card -> hard_deadline_candidate, or NotSet
    CardAnswers,                \* answers of a model to a card request
    JudgmentAnswers,            \* answers of a model to a judgment request
    AdapterKinds,               \* adapters, a subset of the four
    StreamSlots,                \* general_vllm_max_in_flight
    StreamBudget,               \* stream_timeout_seconds, in ticks
    RepairAttempts,             \* REPAIR_MAX_ATTEMPTS
    Judging,                    \* the call for the judgment
    NotSet

ASSUME GenerationAssumption ==
    /\ CandidateCards \subseteq Nat /\ AnchorCard \in Nat \ CandidateCards
    /\ Judging \notin CandidateCards \cup {AnchorCard}
    /\ AdapterKinds \subseteq {"VLLM", "OPENAI", "BEDROCK", "LLAMA_CPP"}
    /\ \A a \in JudgmentAnswers : a \in Seq(ToSet(a))
    /\ StreamSlots \in Nat \ {0} /\ StreamBudget \in Nat \ {0} /\ RepairAttempts \in Nat \ {0}

VARIABLES
    route,       \* the route of the run and what is configured for it
    generation,  \* the calls, one for each card and one for the judgment
    streaming,   \* the calls that hold a stream slot
    analysisOf,  \* accepted position cards
    verdict,     \* the accepted judgment
    stored       \* its rows with their evidence, or {NotSet}: refused

generationVars == <<route, generation, streaming, analysisOf, verdict, stored>>

Cards == {AnchorCard} \cup CandidateCards
Calls == Cards \cup {Judging}

NotStarted == [pc |-> "idle"]
Queued(attempt, complaint) ==
    [pc |-> "queued", attempt |-> attempt, complaint |-> complaint, left |-> StreamBudget]
EndedCall(pc) == [pc |-> pc]

------------------------------------------------------------------------------
(* Adapters: how a reply of the provider becomes an error                    *)

ErrorReplies ==
    {"timeout", "transport", "rateLimited", "requestTimeout", "conflict", "denied", "badRequest",
     "serverError", "refusal", "incomplete", "failed", "empty", "malformed"}

(* translate_openai_error                                                    *)
SdkError == [timeout |-> "Timeout", transport |-> "Unavailable", rateLimited |-> "RateLimit",
             requestTimeout |-> "Unavailable", conflict |-> "Unavailable",
             serverError |-> "Unavailable", denied |-> "Refusal", badRequest |-> "Refusal"]

VllmReply(r) ==
    CASE r \in {"timeout", "requestTimeout"} -> IF r = "timeout" THEN "Timeout" ELSE SdkError[r]
      [] r \in {"transport", "rateLimited", "conflict", "denied", "badRequest", "serverError"} ->
            SdkError[r]
      [] r = "refusal" -> "Refusal"
      [] r \in {"incomplete", "empty", "malformed"} -> "OutputInvalid"
      [] r = "failed" -> "Response"

OpenAIReply(r) ==
    CASE r \in DOMAIN SdkError -> SdkError[r]
      [] r = "refusal" -> "Refusal"
      [] r \in {"incomplete", "failed", "empty", "malformed"} -> "OutputInvalid"

BedrockReply(r) ==
    CASE r \in {"timeout", "requestTimeout"} -> "Timeout"
      [] r = "rateLimited" -> "RateLimit"
      [] r \in {"transport", "conflict", "serverError"} -> "Unavailable"
      [] r = "denied" -> "Configuration"
      [] r \in {"badRequest", "failed"} -> "Response"
      [] r = "refusal" -> "Refusal"
      [] r \in {"incomplete", "empty", "malformed"} -> "OutputInvalid"

LlamaCppReply(r) ==
    CASE r \in DOMAIN SdkError -> SdkError[r]
      [] r = "refusal" -> "Refusal"
      [] r = "failed" -> "Response"
      [] r \in {"incomplete", "empty", "malformed"} -> "OutputInvalid"

ErrorOf(r) ==
    CASE route.kind = "VLLM" -> VllmReply(r)
      [] route.kind = "OPENAI" -> OpenAIReply(r)
      [] route.kind = "BEDROCK" -> BedrockReply(r)
      [] route.kind = "LLAMA_CPP" -> LlamaCppReply(r)

------------------------------------------------------------------------------
(* Position cards                                                            *)

(* An answer: evidence, estimates for kinds of price, a deadline.            *)
IsQuote(e) == e.kind = "QUOTE"

(* The answer alone: a deadline needs a constraint.                          *)
CardAnswerParses(a) == a.deadline # NotSet => a.constrained

(* assemble_analysis: the kinds that the ledger has open, and no other.      *)
Analysis(c, a) ==
    [evidence |-> a.evidence, deadline |-> a.deadline,
     price |-> [k \in OpenPrices[c] |->
                   IF k \in DOMAIN a.opinion THEN a.opinion[k] ELSE [differs |-> FALSE, basis |-> <<>>]]]

AnalysisHolds(x) == \A k \in DOMAIN x.price : x.price[k].differs => x.price[k].basis # <<>>

EvidenceIn(x) == ToSet(x.evidence) \cup UNION {ToSet(x.price[k].basis) : k \in DOMAIN x.price}

(* validate_generation_result                                                *)
QuoteInLog(c, e) == e.log = c /\ e.text \in Said[c]
CardMatches(c, x) ==
    /\ x.deadline \in {NotSet, DeadlineSignal[c]}
    /\ \A e \in EvidenceIn(x) : IsQuote(e) => QuoteInLog(c, e)

------------------------------------------------------------------------------
(* The judgment                                                              *)

(* Every evidence of every card once.  The short number of an entry is left out:
   a reference is the entry it stands for, or what no entry is.              *)
EvidenceCatalog ==
    UNION {{[card |-> c, source |-> e] : e \in EvidenceIn(analysisOf[c])} : c \in Cards}

JudgmentAnswerParses(a) == \A i, j \in DOMAIN a : a[i].card = a[j].card => i = j

\* Faulty: lets a candidate be judged by the evidence of another.
ForeignRefNever(entry, j) == FALSE

(* A reference to evidence of another candidate is refused.                  *)
ForeignRef(entry, j) == entry.card \notin {AnchorCard, j.card}

RefsResolve(j) ==
    \A r \in j.refs : r \in EvidenceCatalog /\ ~ForeignRef(r, j)

(* assemble_candidates                                                       *)
Candidate(j) == [card |-> j.card, grade |-> j.grade, rank |-> j.rank, reason |-> j.reason,
                 evidence |-> j.refs]
JudgedCandidates(a) == {Candidate(a[i]) : i \in DOMAIN a}
RejectionExplained(x) == (x.grade = "REJECTED") = x.reason

(* validate_judgment_result                                                  *)
CandidateSetExact(a) == {x.card : x \in JudgedCandidates(a)} = CandidateCards
RanksExact(a) ==
    {x.rank : x \in JudgedCandidates(a)} = 1 .. Len(a)
QuotedByCards(x) ==
    \A e \in x.evidence : IsQuote(e.source) =>
        \E c \in {AnchorCard, x.card} : e.source \in EvidenceIn(analysisOf[c])
JudgmentMatches(a) ==
    /\ \A i \in DOMAIN a : RefsResolve(a[i]) /\ RejectionExplained(Candidate(a[i]))
    /\ CandidateSetExact(a) /\ RanksExact(a)
    /\ \A x \in JudgedCandidates(a) : QuotedByCards(x)

------------------------------------------------------------------------------
GenerationInit ==
    /\ route \in [kind : AdapterKinds, registered : BOOLEAN, optedIn : BOOLEAN]
    /\ generation = [g \in Calls |-> NotStarted]
    /\ streaming = {}
    /\ analysisOf = [c \in Cards |-> NotSet]
    /\ verdict = NotSet
    /\ stored = {}

(* ProviderRegistry.get_llm, the privacy mode of the input.                  *)
Usable == route.registered /\ route.optedIn
Ready(g) == g = Judging => \A c \in Cards : analysisOf[c] # NotSet

GenerateBegin(g) ==
    /\ generation[g] = NotStarted
    /\ Ready(g)
    /\ generation' = [generation EXCEPT ![g] =
          IF Usable THEN Queued(1, NotSet) ELSE EndedCall("failed")]
    /\ UNCHANGED <<route, streaming, analysisOf, verdict, stored>>

(* Only the streaming endpoint queues for a slot.                            *)
TakeSlot(g) ==
    /\ generation[g].pc = "queued"
    /\ route.kind = "VLLM" => Cardinality(streaming) < StreamSlots
    /\ streaming' = streaming \cup {g}
    /\ generation' = [generation EXCEPT ![g].pc = "streaming"]
    /\ UNCHANGED <<route, analysisOf, verdict, stored>>

(* asyncio.timeout counts the wait for the slot, and no token renews it.     *)
BudgetPasses ==
    /\ route.kind = "VLLM"
    /\ \E g \in Calls : generation[g].pc \in {"queued", "streaming"}
    /\ \A g \in Calls : generation[g].pc \in {"queued", "streaming"} => generation[g].left > 0
    /\ generation' = [g \in Calls |->
          IF generation[g].pc \in {"queued", "streaming"}
          THEN [generation[g] EXCEPT !.left = @ - 1] ELSE generation[g]]
    /\ UNCHANGED <<route, streaming, analysisOf, verdict, stored>>

AnswersTo(g) == IF g = Judging THEN JudgmentAnswers ELSE CardAnswers

(* The answer passes its schema, is assembled and is compared with the request.*)
Passes(g, a) ==
    IF g = Judging THEN JudgmentAnswerParses(a) /\ JudgmentMatches(a)
    ELSE CardAnswerParses(a) /\ AnalysisHolds(Analysis(g, a)) /\ CardMatches(g, Analysis(g, a))

(* generate_with_repair: what breaks the contract is asked again with the
   complaint, at most REPAIR_MAX_ATTEMPTS times in all; the rest is raised.   *)
Repairable(r) == r = "answer" \/ ErrorOf(r) = "OutputInvalid"

AfterError(g, r) ==
    /\ generation' = [generation EXCEPT ![g] =
          IF Repairable(r) /\ @.attempt < RepairAttempts THEN Queued(@.attempt + 1, r)
          ELSE EndedCall("failed")]
    /\ streaming' = streaming \ {g}
    /\ UNCHANGED <<route, analysisOf, verdict, stored>>

BudgetEnds(g) ==
    /\ generation[g].pc \in {"queued", "streaming"}
    /\ generation[g].left = 0
    /\ AfterError(g, "timeout")

ReplyError(g, r) == generation[g].pc = "streaming" /\ AfterError(g, r)

ReplyRejected(g) ==
    /\ generation[g].pc = "streaming"
    /\ \E a \in AnswersTo(g) : ~Passes(g, a)
    /\ AfterError(g, "answer")

ReplyAccepted(g, a) ==
    /\ generation[g].pc = "streaming"
    /\ Passes(g, a)
    /\ generation' = [generation EXCEPT ![g] = EndedCall("done")]
    /\ streaming' = streaming \ {g}
    /\ IF g = Judging
       THEN verdict' = JudgedCandidates(a) /\ UNCHANGED analysisOf
       ELSE analysisOf' = [analysisOf EXCEPT ![g] = Analysis(g, a)] /\ UNCHANGED verdict
    /\ UNCHANGED <<route, stored>>

(* _evidence_rows of a card: each quotation with its place in the log.       *)
QuoteRows(c) == {[log |-> e.log, text |-> e.text] : e \in {x \in EvidenceIn(analysisOf[c]) : IsQuote(x)}}

(* _quote_offsets knows the side of a card, not the card.                    *)
QuotesOfSide(c) ==
    IF c = AnchorCard THEN QuoteRows(c) ELSE UNION {QuoteRows(d) : d \in CandidateCards}

(* The judgment is stored with all its evidence, or raises.                  *)
StoreVerdict ==
    /\ verdict # NotSet /\ stored = {}
    /\ stored' = IF \A x \in verdict : \A e \in x.evidence : IsQuote(e.source) =>
                        [log |-> e.source.log, text |-> e.source.text] \in QuotesOfSide(e.card)
                 THEN verdict ELSE {NotSet}
    /\ UNCHANGED <<route, generation, streaming, analysisOf, verdict>>

GenerationNext ==
    \/ BudgetPasses \/ StoreVerdict
    \/ \E g \in Calls :
          \/ GenerateBegin(g) \/ TakeSlot(g) \/ BudgetEnds(g)
          \/ \E r \in ErrorReplies : ReplyError(g, r)
          \/ ReplyRejected(g)
          \/ \E a \in AnswersTo(g) : ReplyAccepted(g, a)

GenerationSpec == GenerationInit /\ [][GenerationNext]_generationVars
------------------------------------------------------------------------------
(* What is stored is grounded.  A card quotes only its own logs, and a deadline
   is the one that the ledger knows; a judgment that is accepted is stored,
   grades every candidate of the request exactly once, ranks them without gaps,
   says why it rejects one, and every quotation in it is, through the card it
   was taken from, in a log of the anchor or of that candidate.
   (validate_generation_result, assemble_candidates, validate_judgment_result,
   _evidence_rows)                                                           *)
StoredIsGrounded ==
    /\ \A c \in Cards : analysisOf[c] # NotSet =>
          /\ analysisOf[c].deadline \in {NotSet, DeadlineSignal[c]}
          /\ \A e \in EvidenceIn(analysisOf[c]) : IsQuote(e) => e.log = c /\ e.text \in Said[c]
    /\ stored # {} =>
          /\ stored = verdict
          /\ \A c \in CandidateCards : Cardinality({x \in stored : x.card = c}) = 1
          /\ \E f \in [stored -> 1 .. Cardinality(CandidateCards)] :
                \A x, y \in stored : f[x] = x.rank /\ (x # y => f[x] # f[y])
          /\ \A x \in stored :
                /\ x.card \in CandidateCards /\ (x.grade = "REJECTED") = x.reason
                /\ \A e \in x.evidence : e.card \in {AnchorCard, x.card}
                      /\ (IsQuote(e.source) => e.source.text \in Said[e.card])

=============================================================================
