---------------------------- MODULE MCBrokerage -----------------------------
(***************************************************************************)
(* What is configured, read and computed for a broker, for TLC: models,    *)
(* generated cards and judgments, the chatbot's queries, consultation logs, *)
(* candidates and results.  The components share no state: a behaviour is  *)
(* one of the component it began with, and the others stay as they were.   *)
(***************************************************************************)
EXTENDS ModelSelection, Generation, ChatQuery, InteractionScope, CandidateSearch, RunResults, TLC

CONSTANTS card, chatbot, m1, h1, o1, w1, p1, p2, b1, b2  \* model values

VARIABLE focus  \* the component that moves

Component == {"models", "generation", "query", "scope", "candidates", "results"}

-----------------------------------------------------------------------------
\* Generation: the log of a card is quoted rightly, wrongly, or not at all.
MCSaid == (1 :> {"t1"}) @@ (2 :> {"t2"}) @@ (3 :> {"t2"})
MCOpenPrices == (1 :> {"SALE"}) @@ (2 :> {"BUDGET"}) @@ (3 :> {"BUDGET"})
MCDeadline == (1 :> "d1") @@ (2 :> NotSet) @@ (3 :> NotSet)

Quote(log, text) == [kind |-> "QUOTE", log |-> log, text |-> text]
Inference == [kind |-> "INFERENCE"]
NoOpinion == [k \in {} |-> 0]
CardAnswer(evidence, opinion, deadline, constrained) ==
    [evidence |-> evidence, opinion |-> opinion, deadline |-> deadline,
     constrained |-> constrained]
MCCardAnswers ==
    {CardAnswer(<<Quote(1, "t1")>>, NoOpinion, "d1", TRUE),
     CardAnswer(<<Quote(2, "t2"), Inference>>,
                "BUDGET" :> [differs |-> TRUE, basis |-> <<Inference>>], NotSet, FALSE),
     CardAnswer(<<Quote(3, "t2")>>, NoOpinion, NotSet, FALSE),
     CardAnswer(<<Quote(1, "t2")>>, "SALE" :> [differs |-> TRUE, basis |-> <<>>], "d1", FALSE)}

\* References are shown, of the other candidate, or invented; cards too.
Verdict(c, rank, refs, grade, reason) ==
    [card |-> c, rank |-> rank, refs |-> refs, grade |-> grade, reason |-> reason]
Shown(c, evidence) == [card |-> c, source |-> evidence]
OfAnchor == Shown(1, Quote(1, "t1"))
Verdicts ==
    {Verdict(c, rank, refs, "STRONG", FALSE) :
        c \in {2, 3}, rank \in {1, 2},
        refs \in {{OfAnchor}, {Shown(2, Inference)}, {Shown(3, Quote(3, "t2"))},
                  {Shown(3, Quote(1, "t1"))}}}
    \cup {Verdict(3, 2, {OfAnchor}, "REJECTED", reason) : reason \in BOOLEAN}
    \cup {Verdict(7, 2, {OfAnchor}, "STRONG", FALSE)}
MCJudgmentAnswers == {<<x, y>> : x, y \in Verdicts} \cup {<<x>> : x \in Verdicts}

-----------------------------------------------------------------------------
\* ChatQuery: phrases from 3 to 4, below 3 and above 3 but below 3.
Asked(text, deal, categories, topic) ==
    [text |-> text, negated |-> FALSE, topic |-> topic,
     names |-> [transaction_type |-> deal, categories |-> categories, area_basis |-> {},
                sort |-> {}]]
MCQuestion ==
    {Asked({"from3to4"}, {"SALE"}, {}, "search"), Asked({"below3"}, {"JEONSE"}, {}, "search"),
     Asked({"from3below3", "tomorrow"}, {}, {"MOVE_IN"}, "search"),
     Asked({}, {}, {}, "unsupported")}

Understood(tool, mode, filters) ==
    [tool |-> tool, mode |-> mode, filters |-> filters, ordinal |-> None, code |-> None]
MCFilters ==
    {[f \in {} |-> None], [price_expression |-> "below3"], [price_expression |-> "from3below3"],
     [transaction_type |-> "SALE", price_expression |-> "from3to4"]}
MCIntent ==
    {Understood("buyers", mode, filters) : mode \in {"replace", "refine"}, filters \in MCFilters}
    \cup {Understood("agenda", "replace",
                  [date_expression |-> "tomorrow", categories |-> {"MOVE_IN"}]),
          [Understood("clarification", "replace", NoCondition) EXCEPT !.code = "ambiguous_condition"],
          [Understood("open_result", "replace", NoCondition) EXCEPT !.ordinal = 1]}

Buyer(low, high) ==
    [ledger |-> "buyers", ours |-> TRUE, complexes |-> {}, status |-> "ACTIVE",
     deals |-> {"SALE"}, low |-> low, high |-> high]
MCLedgerRow ==
    [buyer1 |-> Buyer(2, 3), buyer2 |-> Buyer(None, 4),
     event1 |-> [ledger |-> "agenda", ours |-> TRUE, due |-> 1, category |-> "MOVE_IN",
                 calendar |-> FALSE]]
Phrase(form, n, m) == [form |-> form, n |-> n, m |-> m]
MCAmountPhrase == [from3to4 |-> Phrase("range", 3, 4), below3 |-> Phrase("below", 3, None),
                   from3below3 |-> Phrase("aboveBelow", 3, 3)]
MCDatePhrase == [tomorrow |-> Phrase("tomorrow", None, None)]
MCNone == [p \in {} |-> None]

-----------------------------------------------------------------------------
\* InteractionScope: what a log may hang on.
On(home, offer, wish, person) ==
    [home |-> home, offer |-> offer, wish |-> wish, person |-> person]
MCHanging == {On(h1, Nil, Nil, p1), On(h1, Nil, Nil, p2), On(Nil, o1, Nil, Nil),
              On(h1, o1, w1, p1), On(Nil, Nil, w1, p1), On(Nil, Nil, Nil, Nil)}

-----------------------------------------------------------------------------
\* CandidateSearch: budgets and prices inside, at and outside the tolerance.
Seeks(demand, budget, complexes, pyeongs, active) ==
    [demand |-> demand, budget |-> budget, blocks |-> complexes, pyeongs |-> pyeongs,
     received |-> 7, active |-> active]
MCSeekerRows ==
    {Seeks("BUY", 100, {b1}, {30}, TRUE), Seeks("BUY", 90, {}, {}, TRUE),
     Seeks("JEONSE", 60, {b1, b2}, {30}, TRUE), Seeks("RENT", Unknown, {}, {20}, TRUE),
     Seeks("SELL", 100, {}, {30}, TRUE), Seeks("BUY", 100, {b1}, {30}, FALSE)}
Offers(prices, complex, pyeong, received, active) ==
    [prices |-> prices, block |-> complex, pyeong |-> pyeong, received |-> received,
     active |-> active]
Both == [SALE |-> 100, JEONSE |-> 60]
MCStockRows ==
    {Offers(Both, b1, 30, 1, TRUE), Offers(Both, b2, 30, 1, TRUE),
     Offers([SALE |-> 108], b2, 25, Unknown, TRUE),
     Offers([MONTHLY_RENT |-> Unknown], b2, Unknown, 10, TRUE), Offers(Both, b1, 30, 1, FALSE)}

-----------------------------------------------------------------------------
\* The component that moves begins anywhere, each of the others in one state.
BrokerageInit ==
    /\ focus \in Component
    /\ ChatQueryInit
    /\ SelectionInit
    /\ focus # "models" => activeConfig = [t \in Target |-> {}]
    /\ ScopeInit
    /\ focus # "scope" => wanted = [w \in Wish |-> [party |-> p1, coBroker |-> Nil]]
    /\ GenerationInit
    /\ focus # "generation" => route = [kind |-> "VLLM", registered |-> TRUE, optedIn |-> TRUE]
    /\ ResultsInit
    /\ focus # "results" => judgedRun = Fresh
    /\ SearchInit
    /\ focus # "candidates" =>
          /\ seekers = [s \in Seeker |-> Seeks("BUY", 90, {}, {}, TRUE)]
          /\ stock = [l \in Stock |-> Offers(Both, b1, 30, 1, TRUE)]
          /\ search.anchor \in Seeker /\ search.card.estimated = Unknown

\* Everything but the component that moves.
Only(component) ==
    /\ focus = component
    /\ UNCHANGED focus
    /\ component # "models" => UNCHANGED selectionVars
    /\ component # "generation" => UNCHANGED generationVars
    /\ component # "query" => UNCHANGED chatQueryVars
    /\ component # "scope" => UNCHANGED scopeVars
    /\ component # "candidates" => UNCHANGED searchVars
    /\ component # "results" => UNCHANGED resultVars

BrokerageNext ==
    \/ Only("models") /\ SelectionNext
    \/ Only("generation") /\ GenerationNext
    \/ Only("query") /\ ChatQueryNext
    \/ Only("scope") /\ ScopeNext
    \/ Only("candidates") /\ SearchNext
    \/ Only("results") /\ ResultsNext

BrokerageSpec ==
    /\ BrokerageInit
    /\ [][BrokerageNext]_<<focus, selectionVars, generationVars, chatQueryVars, scopeVars,
                           searchVars, resultVars>>

=============================================================================
