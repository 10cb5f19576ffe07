------------------------- MODULE PositionCards_proofs -------------------------
(***************************************************************************)
(* Proofs of the safety of PositionCards for every set of listings,        *)
(* requirements, runs and workers and every bound.  A run's row alone does *)
(* not say that its next card is of its own input: the worker that holds   *)
(* the row carries that knowledge in its local variables over the model    *)
(* call (HolderKnows), and it is one worker alone (HoldersDiffer).  A      *)
(* second invariant (KInv) speaks of what failed attempts have left in the *)
(* cache for the next.                                                     *)
(***************************************************************************)
EXTENDS PositionCards, SequenceTheorems, TLAPS

-----------------------------------------------------------------------------
(* The inductive invariant. *)

Ended == {"COMPLETED", "SUPERSEDED", "FAILED_TERMINAL"}

RunRow ==
    [status: Active \cup Ended, anchor: Target, version: Nat,
     attempt: 0..MaxAttempts, anchorCard: Nat, selected: Seq(Target),
     picked: Seq(Nat), judged: Seq(Nat)]

PreparedCard == [target: Target, input: Input, hit: Nat]

Seen == [ledger: {<<>>} \cup [Target -> Input], cards: Seq(Card)]

JobRow ==
    [at: {"step", "prepare", "generate", "store", "keep anchor",
          "keep candidate", "failed", "judge", "conclude"},
     run: Run, attempt: Nat, prepared: Seq(PreparedCard),
     produced: SUBSET Nat, stored: Seq(Nat), seen: Seen]

Typed ==
    /\ ledger \in [Target -> Input]
    /\ cards \in Seq(Card)
    /\ run \in [Run -> RunRow \cup {NoRun}]
    /\ job \in [Worker -> JobRow \cup {Idle}]

IsCard(c, t, input) ==
    c \in CardId /\ cards[c].target = t /\ cards[c].input = input

\* The card ids of a row are of cards that exist, the recorded ones those of the
\* anchor and of the selection.
RefersToCards(r) ==
    run[r] # NoRun =>
        /\ run[r].anchorCard \in CardId \cup {0}
        /\ \A i \in 1..Len(run[r].selected) :
              run[r].selected[i] \in Opposite(run[r].anchor)
        /\ \A i \in 1..Len(run[r].picked) : run[r].picked[i] \in CardId
        /\ \A i \in 1..Len(run[r].judged) : run[r].judged[i] \in CardId

AnchorCardKnown(r) ==
    run[r].status \in (Stages \ {"RUNNING"}) \cup {"COMPLETED"} =>
        /\ run[r].anchorCard \in CardId
        /\ cards[run[r].anchorCard].target = run[r].anchor
        /\ cards[run[r].anchorCard].input.version = run[r].version

PickedCovers(r) ==
    run[r].status \in {"CANDIDATE_CARDS_READY", "JUDGING", "COMPLETED"} =>
        /\ Len(run[r].picked) = Len(run[r].selected)
        /\ \A i \in 1..Len(run[r].picked) :
              cards[run[r].picked[i]].target = run[r].selected[i]

JudgedAsPicked(r) ==
    run[r].status = "COMPLETED" => run[r].judged = run[r].picked

RunInv(r) ==
    RefersToCards(r) /\ AnchorCardKnown(r) /\ PickedCovers(r) /\ JudgedAsPicked(r)

Holds(w) == Row(w).attempt = job[w].attempt

ClaimOfARun(w) ==
    job[w] # Idle => Row(w) # NoRun /\ job[w].attempt <= Row(w).attempt

\* From the model calls of a stage to the end of its last store.
Stores == {"store", "keep anchor", "keep candidate"}

\* What the holder of a row prepared is what the row's stage is about.
HolderKnows(w) ==
    job[w] # Idle /\ Holds(w) =>
        /\ job[w].at = "prepare" => Row(w).status # "RUNNING"
        /\ job[w].at \in {"generate"} \cup Stores /\ Row(w).status = "RUNNING" =>
              /\ Len(job[w].prepared) = 1
              /\ job[w].prepared[1].target = Row(w).anchor
              /\ job[w].prepared[1].input.version = Row(w).version
        /\ job[w].at \in {"generate"} \cup Stores
              /\ Row(w).status = "CANDIDATES_READY" =>
              Len(job[w].prepared) = Len(Row(w).selected)

\* What a stage has stored are cards of what it has prepared.
StoredAsPrepared(w) ==
    job[w].at \in {"failed"} \cup Stores =>
        /\ job[w].produced \subseteq 1..Len(job[w].prepared)
        /\ Len(job[w].stored) = Len(job[w].prepared)
        /\ \A i \in 1..Len(job[w].prepared) :
              job[w].stored[i] # 0 =>
                  IsCard(job[w].stored[i], job[w].prepared[i].target,
                         job[w].prepared[i].input)

\* What an open transaction has verified it has read so.
AnchorSeen(w) ==
    job[w].at = "keep anchor" =>
        job[w].seen.ledger[job[w].prepared[1].target] = job[w].prepared[1].input

SeenTogether(w) ==
    \A c \in CardsOf(job[w].run) :
        /\ c \in CardId
        /\ job[w].seen.cards[c].active
        /\ job[w].seen.ledger[cards[c].target].version = cards[c].input.version

\* The row of a judgment cannot have moved since: its worker holds it.
JudgmentSeen(w) ==
    job[w].at = "conclude" /\ Holds(w) /\ Row(w).status = JudgedStage(w) =>
        /\ Row(w).picked = job[w].stored
        /\ job[w].stored # <<>> => SeenTogether(w)

SeenRight(w) == AnchorSeen(w) /\ JudgmentSeen(w)

JobInv(w) ==
    ClaimOfARun(w) /\ HolderKnows(w) /\ StoredAsPrepared(w) /\ SeenRight(w)

HoldersDiffer ==
    \A v, w \in Worker :
        /\ job[v] # Idle /\ job[w] # Idle
        /\ job[v].run = job[w].run /\ job[v].attempt = job[w].attempt
        => v = w

IInv ==
    /\ Typed
    /\ OneActiveCardPerInput
    /\ \A r \in Run : RunInv(r)
    /\ \A w \in Worker : JobInv(w)
    /\ HoldersDiffer

-----------------------------------------------------------------------------
(* Lemmas about the operators. *)

\* A sequence is one of any set its elements are in.
LEMMA SeqOf ==
    ASSUME NEW S, NEW T, NEW s \in Seq(T), \A i \in 1..Len(s) : s[i] \in S
    PROVE  s \in Seq(S)
    OBVIOUS

\* No card is taken away and none changes its target or its input.
CardsKept ==
    /\ Len(cards) <= Len(cards')
    /\ \A c \in CardId :
          /\ cards'[c].target = cards[c].target
          /\ cards'[c].input = cards[c].input

\* The active card of an input is one of that input, or 0 if there is none.
LEMMA ActiveCardFound ==
    ASSUME Typed, NEW t \in Target, NEW input \in Input
    PROVE  /\ ActiveCard(t, input) \in CardId \cup {0}
           /\ ActiveCard(t, input) # 0 =>
                 /\ IsCard(ActiveCard(t, input), t, input)
                 /\ cards[ActiveCard(t, input)].active
           /\ ActiveCard(t, input) = 0 => ActiveCards(t, input) = {}
<1>1. Len(cards) \in Nat
    BY DEF Typed
<1>2. CASE ActiveCards(t, input) = {}
    BY <1>2 DEF ActiveCard
<1>3. CASE ActiveCards(t, input) # {}
  <2>1. PICK c : c = ActiveCard(t, input)
    OBVIOUS
  <2>2. c \in ActiveCards(t, input)
    BY <1>3, <2>1 DEF ActiveCard
  <2> QED
    BY <1>1, <1>3, <2>1, <2>2 DEF ActiveCards, CardId, IsCard
<1> QED
    BY <1>2, <1>3

\* What is prepared is the row as it is.
LEMMA PreparedTyped ==
    ASSUME Typed, NEW t \in Target
    PROVE  /\ Prepared(t) \in PreparedCard
           /\ Prepared(t).target = t
           /\ Prepared(t).input = ledger[t]
<1>1. ledger[t] \in Input
    BY DEF Typed
<1>2. Len(cards) \in Nat
    BY DEF Typed
<1>3. ActiveCard(t, ledger[t]) \in Nat
    BY <1>1, <1>2, ActiveCardFound DEF CardId
<1> QED
    BY <1>1, <1>3 DEF Prepared, PreparedCard

\* Storing a card, found or written, gives its id a card of the prepared input
\* that is active, and leaves one active card per input.
LEMMA StoresCardStep ==
    ASSUME Typed, OneActiveCardPerInput,
           NEW p \in PreparedCard, NEW id \in NewCardId, StoresCard(p, id)
    PROVE  /\ cards' \in Seq(Card)
           /\ CardsKept
           /\ OneActiveCardPerInput'
           /\ IsCard(id, p.target, p.input)'
           /\ cards'[id].active
<1>1. p.target \in Target /\ p.input \in Input /\ p.hit \in Nat
    BY DEF PreparedCard
<1>2. Len(cards) \in Nat
    BY DEF Typed
<1>3. ASSUME UNCHANGED cards, id = ActiveCard(p.target, p.input), id # 0
      PROVE  /\ cards' \in Seq(Card)
             /\ CardsKept
             /\ OneActiveCardPerInput'
             /\ IsCard(id, p.target, p.input)'
             /\ cards'[id].active
  <2>1. IsCard(id, p.target, p.input) /\ cards[id].active
    BY <1>1, <1>3, ActiveCardFound
  <2> QED
    BY <1>2, <1>3, <2>1 DEF Typed, CardsKept, OneActiveCardPerInput, IsCard, CardId
<1>4. ASSUME UNCHANGED cards, StoresCard(p, id), p.hit # 0 \/ Winner(p) # 0
      PROVE  id = ActiveCard(p.target, p.input) /\ id # 0
    BY <1>4 DEF StoresCard, Winner
<1>5. CASE p.hit # 0 \/ Winner(p) # 0
    BY <1>3, <1>4, <1>5 DEF StoresCard
<1>6. CASE p.hit = 0 /\ Winner(p) = 0
  <2> DEFINE new == [target |-> p.target, input |-> p.input, active |-> TRUE]
  <2>1. id = Len(cards) + 1 /\ cards' = Append(cards, new)
    BY <1>6 DEF StoresCard
  <2>2. new \in Card /\ new.target = p.target /\ new.input = p.input /\ new.active
    BY <1>1 DEF Card
  <2> HIDE DEF new
  <2>3. /\ cards' \in Seq(Card)
        /\ Len(cards') = Len(cards) + 1
        /\ \A c \in CardId : cards'[c] = cards[c]
        /\ cards'[id] = new
    BY <1>2, <2>1, <2>2 DEF Typed, CardId
  <2>4. CardId' = CardId \cup {id}
    BY <1>2, <2>1, <2>3 DEF CardId
  <2>5. ActiveCards(p.target, p.input) = {}
    BY <1>1, <1>6, ActiveCardFound DEF Winner
  <2>6. \A c \in CardId :
           ~(cards[c].target = p.target /\ cards[c].input = p.input
                /\ cards[c].active)
    BY <2>5 DEF ActiveCards
  <2>7. OneActiveCardPerInput'
    BY <2>2, <2>3, <2>4, <2>6 DEF OneActiveCardPerInput
  <2>8. CardsKept
    BY <1>2, <2>3 DEF CardsKept
  <2> QED
    BY <2>2, <2>3, <2>4, <2>7, <2>8 DEF IsCard
<1> QED
    BY <1>5, <1>6

\* A card that is of an input stays so.
LEMMA CardStays ==
    ASSUME Typed, cards' \in Seq(Card), CardsKept
    PROVE  /\ CardId \subseteq CardId'
           /\ \A c, t, input : IsCard(c, t, input) => IsCard(c, t, input)'
<1>1. Len(cards) \in Nat /\ Len(cards') \in Nat
    BY DEF Typed
<1> QED
    BY <1>1 DEF CardsKept, CardId, IsCard

-----------------------------------------------------------------------------
(* What a step keeps of the rows and the jobs it does not touch. *)

\* A row that is not written keeps its cards.
LEMMA RunKept ==
    ASSUME Typed, cards' \in Seq(Card), CardsKept,
           NEW r \in Run, run'[r] = run[r], RunInv(r)
    PROVE  RunInv(r)'
<1>1. Len(cards) \in Nat /\ Len(cards') \in Nat
    BY DEF Typed
<1>2. CardId \subseteq CardId' /\ 0 \notin CardId
    BY CardStays DEF CardId
<1>3. \A c \in CardId :
        cards'[c].target = cards[c].target /\ cards'[c].input = cards[c].input
    BY DEF CardsKept
<1>4. RefersToCards(r)'
    BY <1>2 DEF RunInv, RefersToCards
<1>5. AnchorCardKnown(r)'
    BY <1>2, <1>3 DEF RunInv, AnchorCardKnown
<1>6. PickedCovers(r)'
  <2> SUFFICES ASSUME run[r].status \in
                        {"CANDIDATE_CARDS_READY", "JUDGING", "COMPLETED"}
               PROVE  PickedCovers(r)'
    BY DEF PickedCovers
  <2>1. run[r] # NoRun
    BY DEF NoRun
  <2>2. \A i \in 1..Len(run[r].picked) : run[r].picked[i] \in CardId
    BY <2>1 DEF RunInv, RefersToCards
  <2> QED
    BY <1>3, <2>2 DEF RunInv, PickedCovers
<1>7. JudgedAsPicked(r)'
    BY DEF RunInv, JudgedAsPicked
<1> QED
    BY <1>4, <1>5, <1>6, <1>7 DEF RunInv

\* A job that does not move keeps what it knows, if its row is still a row and
\* either has been taken over, or is held on as it was, or has ended.
LEMMA JobKept ==
    ASSUME Typed, Typed', CardsKept, NEW w \in Worker,
           job'[w] = job[w], JobInv(w),
           job[w] # Idle =>
               /\ Row(w)' # NoRun
               /\ Row(w).attempt <= Row(w)'.attempt
               /\ Holds(w)' =>
                      \/ Row(w)' = Row(w)
                      \/ Holds(w) /\ Row(w)'.status \in Ended
    PROVE  JobInv(w)'
<1>1. CASE job[w] = Idle
    BY <1>1 DEF JobInv, ClaimOfARun, HolderKnows, StoredAsPrepared, SeenRight,
                AnchorSeen, JudgmentSeen, Stores, Idle
<1>2. CASE job[w] # Idle
  <2>1. job[w] \in JobRow /\ job[w].run \in Run
    BY <1>2 DEF Typed, JobRow
  <2>2. Row(w) \in RunRow /\ Row(w)' \in RunRow
    BY <1>2, <2>1 DEF Typed, Row, JobInv, ClaimOfARun
  <2>3. ClaimOfARun(w)'
    <3>1. /\ job[w].attempt \in Nat
          /\ Row(w).attempt \in Nat /\ Row(w)'.attempt \in Nat
      <4>1. job[w].attempt \in Nat
        BY <2>1 DEF JobRow
      <4>2. \A x \in RunRow : x.attempt \in Nat
        BY CardConstants DEF RunRow
      <4> QED
        BY <2>2, <4>1, <4>2
    <3>2. job[w].attempt <= Row(w).attempt
      BY <1>2 DEF JobInv, ClaimOfARun
    <3>3. job[w].attempt <= Row(w)'.attempt
      BY <1>2, <3>1, <3>2
    <3> QED
      BY <1>2, <3>3 DEF ClaimOfARun
  <2>4. HolderKnows(w)'
    BY <1>2, <2>1, <2>2 DEF JobInv, HolderKnows, Holds, Ended
  <2>5. StoredAsPrepared(w)'
    BY CardStays, <2>1 DEF JobInv, StoredAsPrepared, Typed
  <2>6. AnchorSeen(w)'
    BY DEF JobInv, SeenRight, AnchorSeen
  <2>7. JudgmentSeen(w)'
    <3> SUFFICES ASSUME job[w].at = "conclude", Holds(w)',
                        Row(w)'.status = JudgedStage(w)'
                 PROVE  /\ Row(w)'.picked = job[w].stored
                        /\ job[w].stored # <<>> => SeenTogether(w)'
      BY DEF JudgmentSeen
    <3>1. JudgedStage(w)' = JudgedStage(w) /\ JudgedStage(w) \notin Ended
      BY DEF JudgedStage, Ended
    <3>2. Row(w)' = Row(w) /\ Holds(w)
      BY <1>2, <3>1 DEF Holds
    <3>3. /\ Row(w).picked = job[w].stored
          /\ job[w].stored # <<>> => SeenTogether(w)
      BY <3>1, <3>2 DEF JobInv, SeenRight, JudgmentSeen
    <3>4. CardsOf(job[w].run)' = CardsOf(job[w].run)
      BY <3>2 DEF CardsOf, Row
    <3>5. SeenTogether(w) => SeenTogether(w)'
      BY <3>4, CardStays DEF SeenTogether, CardsKept, Typed
    <3> QED
      BY <3>2, <3>3, <3>5
  <2> QED
    BY <2>3, <2>4, <2>5, <2>6, <2>7 DEF JobInv, SeenRight
<1> QED
    BY <1>1, <1>2

\* A change of the ledger or of cards alone.
LEMMA WorldStep ==
    ASSUME IInv, UNCHANGED <<run, job>>,
           ledger' \in [Target -> Input], cards' \in Seq(Card),
           CardsKept, OneActiveCardPerInput'
    PROVE  IInv'
<1>1. Typed'
    BY DEF IInv, Typed
<1>2. \A r \in Run : RunInv(r)'
    BY RunKept DEF IInv
<1>3. \A w \in Worker : JobInv(w)'
  <2> TAKE w \in Worker
  <2>1. JobInv(w) /\ Row(w)' = Row(w)
    BY DEF IInv, Row
  <2>2. job[w] # Idle => Row(w) \in RunRow
    BY <2>1 DEF IInv, Typed, JobInv, ClaimOfARun, Row, JobRow
  <2> QED
    BY <1>1, <2>1, <2>2, JobKept, CardConstants
       DEF IInv, JobInv, ClaimOfARun, RunRow
<1>4. HoldersDiffer'
    BY DEF IInv, HoldersDiffer
<1> QED
    BY <1>1, <1>2, <1>3, <1>4 DEF IInv

\* A step of one worker that leaves every row alone.
LEMMA LocalStep ==
    ASSUME IInv, UNCHANGED <<ledger, run>>,
           cards' \in Seq(Card), CardsKept, OneActiveCardPerInput',
           NEW w \in Worker, NEW j \in JobRow \cup {Idle},
           job' = [job EXCEPT ![w] = j], JobInv(w)',
           j # Idle => /\ job[w] # Idle
                       /\ j.run = job[w].run /\ j.attempt = job[w].attempt
    PROVE  IInv'
<1>1. Typed'
    BY DEF IInv, Typed
<1>2. \A r \in Run : RunInv(r)'
    BY RunKept DEF IInv
<1>3. \A v \in Worker : JobInv(v)'
  <2> SUFFICES ASSUME NEW v \in Worker, v # w PROVE JobInv(v)'
    OBVIOUS
  <2>1. JobInv(v) /\ job'[v] = job[v]
    BY DEF IInv, Typed
  <2>2. Row(v)' = Row(v)
    BY <2>1 DEF Row
  <2>3. job[v] # Idle => Row(v) \in RunRow
    BY <2>1 DEF IInv, Typed, JobInv, ClaimOfARun, Row, JobRow
  <2> QED
    BY <1>1, <2>1, <2>2, <2>3, JobKept, CardConstants
       DEF IInv, JobInv, ClaimOfARun, RunRow
<1>4. HoldersDiffer'
  <2>1. \A v \in Worker : job'[v] # Idle =>
           /\ job[v] # Idle
           /\ job'[v].run = job[v].run /\ job'[v].attempt = job[v].attempt
    BY DEF IInv, Typed
  <2> QED
    BY <2>1 DEF IInv, HoldersDiffer
<1> QED
    BY <1>1, <1>2, <1>3, <1>4 DEF IInv

\* The holder of a row writes it and moves on: nobody else knows anything of a
\* row that somebody holds.
LEMMA HolderStep ==
    ASSUME IInv, UNCHANGED ledger,
           cards' \in Seq(Card), CardsKept, OneActiveCardPerInput',
           NEW w \in Worker, job[w] # Idle, Holds(w),
           NEW q \in Run, q = job[w].run,
           NEW x \in RunRow, run' = [run EXCEPT ![q] = x],
           x.attempt = run[q].attempt, RunInv(q)',
           NEW j \in JobRow \cup {Idle}, job' = [job EXCEPT ![w] = j],
           JobInv(w)',
           j # Idle => j.run = job[w].run /\ j.attempt = job[w].attempt
    PROVE  IInv'
<1>1. Typed'
    BY DEF IInv, Typed
<1>2. \A r \in Run : RunInv(r)'
  <2> TAKE r \in Run
  <2>1. CASE r = q
    BY <2>1
  <2>2. CASE r # q
    BY <2>2, RunKept DEF IInv, Typed
  <2> QED
    BY <2>1, <2>2
<1>3. \A v \in Worker : JobInv(v)'
  <2> SUFFICES ASSUME NEW v \in Worker, v # w PROVE JobInv(v)'
    OBVIOUS
  <2>1. JobInv(v) /\ job'[v] = job[v]
    BY DEF IInv, Typed
  <2>2. CASE job[v] # Idle
    <3>1. Row(v) \in RunRow /\ job[v].run \in Run
      BY <2>1, <2>2 DEF IInv, Typed, JobInv, ClaimOfARun, Row, JobRow
    <3>2. CASE job[v].run = q
      <4>1. job[v].attempt # job[w].attempt
        BY <2>2, <3>2 DEF IInv, HoldersDiffer
      <4>2. Row(v)' = x /\ Row(v) = run[q] /\ ~Holds(v)'
        BY <2>1, <3>1, <3>2, <4>1 DEF IInv, Typed, Row, Holds
      <4>3. x # NoRun
        BY DEF RunRow, NoRun, Active, Stages, Ended
      <4>4. x.attempt \in Nat /\ Row(v).attempt = x.attempt
        BY <4>2, CardConstants DEF RunRow
      <4>5. Row(v).attempt <= Row(v)'.attempt
        BY <4>2, <4>4
      <4> QED
        BY <1>1, <2>1, <4>2, <4>3, <4>5, JobKept DEF IInv
    <3>3. CASE job[v].run # q
      <4>1. Row(v)' = Row(v)
        BY <2>1, <3>1, <3>3 DEF IInv, Typed, Row
      <4>2. Row(v) # NoRun /\ Row(v).attempt <= Row(v).attempt
        BY <2>1, <2>2, <3>1, CardConstants DEF JobInv, ClaimOfARun, RunRow
      <4> QED
        BY <1>1, <2>1, <4>1, <4>2, JobKept DEF IInv
    <3> QED
      BY <3>2, <3>3
  <2>3. CASE job[v] = Idle
    BY <1>1, <2>1, <2>3, JobKept DEF IInv
  <2> QED
    BY <2>2, <2>3
<1>4. HoldersDiffer'
  <2>1. \A v \in Worker : job'[v] # Idle =>
           /\ job[v] # Idle
           /\ job'[v].run = job[v].run /\ job'[v].attempt = job[v].attempt
    BY DEF IInv, Typed
  <2> QED
    BY <2>1 DEF IInv, HoldersDiffer
<1> QED
    BY <1>1, <1>2, <1>3, <1>4 DEF IInv

-----------------------------------------------------------------------------
(* The initial states and the steps outside the stages. *)

\* Nothing is filed, no card is written, every worker is idle.
LEMMA InitIInv == Init => IInv
<1> SUFFICES ASSUME Init PROVE IInv
    OBVIOUS
<1> USE DEF Init
<1>1. Typed
    BY DEF Typed, Input, Card
<1>2. OneActiveCardPerInput
    BY DEF OneActiveCardPerInput, CardId
<1>3. \A r \in Run : RunInv(r)
    BY DEF RunInv, RefersToCards, AnchorCardKnown, PickedCovers, JudgedAsPicked,
           NoRun, Stages
<1>4. \A w \in Worker : JobInv(w)
    BY DEF JobInv, ClaimOfARun, HolderKnows, StoredAsPrepared, SeenRight,
           AnchorSeen, JudgmentSeen, Stores, Idle
<1>5. HoldersDiffer
    BY DEF HoldersDiffer
<1> QED
    BY <1>1, <1>2, <1>3, <1>4, <1>5 DEF IInv

\* If cards stay as they are, nothing is lost of them.
LEMMA SameCards ==
    ASSUME IInv, UNCHANGED cards
    PROVE  cards' \in Seq(Card) /\ CardsKept /\ OneActiveCardPerInput'
<1>1. Len(cards) \in Nat
    BY DEF IInv, Typed
<1> QED
    BY <1>1 DEF IInv, Typed, CardsKept, OneActiveCardPerInput, CardId

\* An edit of the ledger touches neither rows nor cards.
LEMMA EditStep ==
    ASSUME IInv, NEW t \in Target, EditVersion(t) \/ EditSource(t)
    PROVE  IInv'
<1>1. UNCHANGED <<cards, run, job>>
    BY DEF EditVersion, EditSource
<1>2. \A u \in Target : ledger[u] \in Input
    BY DEF IInv, Typed
<1>3. ledger' \in [Target -> Input]
  <2>1. ASSUME NEW e \in Input, ledger' = [ledger EXCEPT ![t] = e]
        PROVE  ledger' \in [Target -> Input]
    BY <2>1 DEF IInv, Typed
  <2>2. CASE EditVersion(t)
    <3>1. [ledger[t] EXCEPT !.version = @ + 1] \in Input
      BY <1>2 DEF Input
    <3> QED
      BY <2>1, <2>2, <3>1 DEF EditVersion
  <2>3. CASE EditSource(t)
    <3>1. [ledger[t] EXCEPT !.source = @ + 1] \in Input
      BY <1>2 DEF Input
    <3> QED
      BY <2>1, <2>3, <3>1 DEF EditSource
  <2> QED
    BY <2>2, <2>3
<1> QED
    BY <1>1, <1>3, SameCards, WorldStep

\* A card that is invalidated is still of its target and its input.
LEMMA InvalidateStep ==
    ASSUME IInv, NEW c \in CardId, Invalidate(c)
    PROVE  IInv'
<1>1. Len(cards) \in Nat /\ cards[c] \in Card
    BY DEF IInv, Typed, CardId
<1> DEFINE gone == [cards[c] EXCEPT !.active = FALSE]
<1>2. /\ gone \in Card /\ ~gone.active
      /\ gone.target = cards[c].target /\ gone.input = cards[c].input
    BY <1>1 DEF Card
<1>3. cards' = [cards EXCEPT ![c] = gone]
    BY DEF Invalidate
<1> HIDE DEF gone
<1>4. /\ cards' \in Seq(Card) /\ Len(cards') = Len(cards)
      /\ cards'[c] = gone
      /\ \A d \in CardId : d # c => cards'[d] = cards[d]
    BY <1>1, <1>2, <1>3 DEF IInv, Typed, CardId
<1>5. CardsKept
    BY <1>1, <1>2, <1>4 DEF CardsKept
<1>6. OneActiveCardPerInput'
    BY <1>2, <1>4 DEF IInv, OneActiveCardPerInput, CardId
<1> QED
    BY <1>4, <1>5, <1>6, WorldStep DEF Invalidate, IInv, Typed

\* A row that is written by nobody who holds it: filed, claimed, or ended with
\* its attempts used up.
LEMMA RowStep ==
    ASSUME IInv, UNCHANGED <<ledger, cards>>,
           NEW r \in Run, NEW x \in RunRow, run' = [run EXCEPT ![r] = x],
           RunInv(r)', job' \in [Worker -> JobRow \cup {Idle}],
           \A w \in Worker :
               \/ JobInv(w)'
               \/ job'[w] = job[w] /\ (job[w] # Idle => job[w].run # r),
           HoldersDiffer'
    PROVE  IInv'
<1>1. Typed'
    BY DEF IInv, Typed
<1>2. cards' \in Seq(Card) /\ CardsKept /\ OneActiveCardPerInput'
    BY SameCards
<1>3. \A q \in Run : RunInv(q)'
    BY <1>2, RunKept DEF IInv, Typed
<1>4. \A w \in Worker : JobInv(w)'
  <2> SUFFICES ASSUME NEW w \in Worker, job'[w] = job[w],
                      job[w] # Idle => job[w].run # r
               PROVE  JobInv(w)'
    OBVIOUS
  <2>1. JobInv(w)
    BY DEF IInv
  <2>2. job[w] # Idle =>
            Row(w)' = Row(w) /\ Row(w) \in RunRow /\ Row(w) # NoRun
    BY <2>1 DEF IInv, Typed, Row, JobRow, JobInv, ClaimOfARun
  <2> QED
    BY <1>1, <1>2, <2>1, <2>2, JobKept, CardConstants DEF IInv, RunRow
<1> QED
    BY <1>1, <1>2, <1>3, <1>4 DEF IInv

\* A filed row has no cards to be wrong about.
LEMMA FileStep ==
    ASSUME IInv, NEW r \in Run, NEW t \in Target, File(r, t)
    PROVE  IInv'
<1> DEFINE x == Filed(t)
<1>1. /\ x \in RunRow /\ x.status = "QUEUED" /\ x.anchorCard = 0
      /\ x.selected = <<>> /\ x.picked = <<>> /\ x.judged = <<>>
  <2>1. ledger[t].version \in Nat
    BY DEF IInv, Typed, Input
  <2> QED
    BY <2>1, CardConstants DEF Filed, RunRow, Active
<1>2. run' = [run EXCEPT ![r] = x]
    BY DEF File
<1> HIDE DEF x
<1>3. run'[r] = x
    BY <1>2 DEF IInv, Typed
<1>4. RunInv(r)'
    BY <1>1, <1>3 DEF RunInv, RefersToCards, AnchorCardKnown, PickedCovers,
                      JudgedAsPicked, Stages
<1>5. UNCHANGED <<ledger, cards, job>> /\ run[r] = NoRun
    BY DEF File
<1>6. \A w \in Worker : job[w] # Idle => job[w].run # r
    BY <1>5 DEF IInv, JobInv, ClaimOfARun, Row
<1>7. HoldersDiffer' /\ job' \in [Worker -> JobRow \cup {Idle}]
    BY <1>5 DEF IInv, Typed, HoldersDiffer
<1> QED
    BY <1>1, <1>2, <1>4, <1>5, <1>6, <1>7, RowStep

\* A row whose status alone changes to an ending without a judgment.
LEMMA EndedRow ==
    ASSUME IInv, UNCHANGED cards, NEW r \in Run, run[r].status \in Stages,
           NEW ending \in {"SUPERSEDED", "FAILED_TERMINAL"},
           run' = [run EXCEPT ![r].status = ending]
    PROVE  \E x \in RunRow :
              /\ run' = [run EXCEPT ![r] = x]
              /\ run'[r] = x
              /\ x.attempt = run[r].attempt /\ x.status = ending
              /\ RunInv(r)'
<1>1. run[r] \in RunRow /\ run[r] # NoRun
    BY DEF IInv, Typed, NoRun, Stages
<1> DEFINE x == [run[r] EXCEPT !.status = ending]
<1>2. /\ x \in RunRow /\ x.status = ending
      /\ x.attempt = run[r].attempt /\ x.anchor = run[r].anchor
      /\ x.anchorCard = run[r].anchorCard /\ x.selected = run[r].selected
      /\ x.picked = run[r].picked /\ x.judged = run[r].judged
    BY <1>1 DEF RunRow, Ended
<1>3. run' = [run EXCEPT ![r] = x]
    OBVIOUS
<1> HIDE DEF x
<1>4. run'[r] = x
    BY <1>3 DEF IInv, Typed
<1>5. RefersToCards(r)
    BY DEF IInv, RunInv
<1>6. RefersToCards(r)'
    BY <1>1, <1>2, <1>4, <1>5 DEF RefersToCards, CardId
<1>7. RunInv(r)'
    BY <1>2, <1>4, <1>6 DEF RunInv, AnchorCardKnown, PickedCovers,
                            JudgedAsPicked, Stages
<1> QED
    BY <1>2, <1>3, <1>4, <1>7

\* The clean-up of a row that somebody may still hold: he knows nothing of an
\* ended row.
LEMMA ExhaustStep ==
    ASSUME IInv, NEW r \in Run, ExhaustAttempts(r)
    PROVE  IInv'
<1>1. PICK x \in RunRow :
        /\ run' = [run EXCEPT ![r] = x] /\ run'[r] = x
        /\ x.attempt = run[r].attempt /\ x.status = "FAILED_TERMINAL"
        /\ RunInv(r)'
    BY EndedRow DEF ExhaustAttempts
<1>2. UNCHANGED <<ledger, cards, job>>
    BY DEF ExhaustAttempts
<1>3. Typed'
    BY <1>1, <1>2 DEF IInv, Typed
<1>4. ASSUME NEW w \in Worker PROVE JobInv(w)' \/ (job[w] # Idle => job[w].run # r)
  <2> SUFFICES ASSUME job[w] # Idle, job[w].run = r PROVE JobInv(w)'
    BY <1>2
  <2>1. JobInv(w)
    BY DEF IInv
  <2>2. Row(w) \in RunRow
    BY <2>1 DEF IInv, Typed, Row, JobInv, ClaimOfARun
  <2>3. Row(w)' = x /\ x.attempt = Row(w).attempt
    BY <1>1, <1>2 DEF Row
  <2>4. x # NoRun /\ x.attempt \in Nat
    <3>1. x # NoRun
      BY <1>1 DEF NoRun
    <3>2. x.attempt \in 0..MaxAttempts
      BY DEF RunRow
    <3> QED
      BY <3>1, <3>2, CardConstants
  <2>5. Row(w).attempt <= x.attempt
    BY <2>3, <2>4
  <2>6. Holds(w)' => Holds(w)
    BY <1>2, <2>3 DEF Holds
  <2> QED
    BY <1>1, <1>2, <1>3, <2>1, <2>3, <2>4, <2>5, <2>6, SameCards, JobKept
    DEF IInv, Ended
<1>5. HoldersDiffer' /\ job' \in [Worker -> JobRow \cup {Idle}]
    BY <1>2 DEF IInv, Typed, HoldersDiffer
<1> QED
    BY <1>1, <1>2, <1>4, <1>5, RowStep

\* Between two stages, and before the judgment, a worker knows nothing yet.
LEMMA KnowsNothing ==
    ASSUME NEW w \in Worker,
           job'[w] = Idle \/ /\ job'[w].at \in {"step", "judge"}
                             /\ Row(w)' # NoRun
                             /\ job'[w].attempt <= Row(w)'.attempt
    PROVE  JobInv(w)'
<1>1. job'[w].at \in {"idle", "step", "judge"}
    BY DEF Idle
<1>2. HolderKnows(w)' /\ StoredAsPrepared(w)'
    BY <1>1 DEF HolderKnows, StoredAsPrepared, Stores
<1>3. SeenRight(w)'
    BY <1>1 DEF SeenRight, AnchorSeen, JudgmentSeen
<1>4. ClaimOfARun(w)'
    BY DEF ClaimOfARun
<1> QED
    BY <1>2, <1>3, <1>4 DEF JobInv

\* A claim has an attempt of its own, so nobody else holds the row.
LEMMA ClaimStep ==
    ASSUME IInv, NEW w \in Worker, NEW r \in Run, Claim(w, r)
    PROVE  IInv'
<1>1. run[r] \in RunRow /\ run[r] # NoRun
    BY DEF Claim, Claimable, IInv, Typed, NoRun, Active, Stages
<1> DEFINE status == IF run[r].status = "QUEUED" THEN "RUNNING" ELSE run[r].status
           x == [run[r] EXCEPT !.attempt = run[r].attempt + 1, !.status = status]
           j == Job(r, run[r].attempt + 1, "step")
<1>2. status \in Active \cup Ended
    BY <1>1 DEF RunRow, Active, Stages
<1>3. run[r].attempt \in 0..MaxAttempts /\ run[r].attempt + 1 \in 0..MaxAttempts
    BY SMTT(20), <1>1, CardConstants DEF RunRow, Claim, Claimable
<1>4. /\ x \in RunRow /\ x.status = status /\ x.attempt = run[r].attempt + 1
      /\ x.anchor = run[r].anchor /\ x.version = run[r].version
      /\ x.anchorCard = run[r].anchorCard /\ x.selected = run[r].selected
      /\ x.picked = run[r].picked /\ x.judged = run[r].judged
  <2> HIDE DEF status
  <2> QED
    BY <1>1, <1>2, <1>3 DEF RunRow
<1>5. run' = [run EXCEPT ![r] = x]
    BY DEF Claim
<1>6. /\ j \in JobRow /\ j # Idle /\ j.at = "step"
      /\ j.run = r /\ j.attempt = run[r].attempt + 1
    BY <1>3, CardConstants DEF Job, JobRow, Idle, Nothing, Seen
<1>7. job' = [job EXCEPT ![w] = j]
    BY DEF Claim
<1>8. \/ status = run[r].status
      \/ status = "RUNNING" /\ run[r].status = "QUEUED"
    OBVIOUS
<1> HIDE DEF x, j, status
<1>9. run'[r] = x /\ job'[w] = j /\ UNCHANGED <<ledger, cards>>
    BY <1>5, <1>7 DEF IInv, Typed, Claim
<1>10. RunInv(r)'
  <2>1. RunInv(r)
    BY DEF IInv
  <2> QED
    BY <1>1, <1>4, <1>8, <1>9, <2>1
       DEF RunInv, RefersToCards, AnchorCardKnown, PickedCovers, JudgedAsPicked,
           Stages, CardId
<1>11. x # NoRun
    BY <1>4, <1>2 DEF NoRun, Active, Stages, Ended
<1>12. JobInv(w)'
  <2>1. Row(w)' = x
    BY <1>6, <1>9 DEF Row
  <2>2. job'[w].at = "step" /\ job'[w].attempt <= x.attempt
    BY <1>3, <1>4, <1>6, <1>9, CardConstants
  <2> QED
    BY <1>11, <2>1, <2>2, KnowsNothing
<1>13. Typed'
    BY <1>4, <1>5, <1>6, <1>7, <1>9 DEF IInv, Typed
<1>14. ASSUME NEW v \in Worker, v # w
       PROVE  /\ job'[v] = job[v]
              /\ JobInv(v)' \/ (job[v] # Idle => job[v].run # r)
              /\ job[v] # Idle /\ job[v].run = r => job[v].attempt <= run[r].attempt
  <2>1. job'[v] = job[v]
    BY <1>7, <1>14 DEF IInv, Typed
  <2>2. CASE job[v] # Idle /\ job[v].run = r
    <3>1. JobInv(v)
      BY DEF IInv
    <3>2. job[v].attempt <= run[r].attempt /\ job[v].attempt \in Nat
      BY <2>2, <3>1 DEF JobInv, ClaimOfARun, Row, IInv, Typed, JobRow
    <3>3. Row(v)' = x /\ Row(v) = run[r] /\ ~Holds(v)'
      BY <1>3, <1>4, <1>9, <2>1, <2>2, <3>2, CardConstants DEF Row, Holds
    <3>4. Row(v).attempt <= Row(v)'.attempt
      BY <1>3, <1>4, <3>3, CardConstants
    <3>5. JobInv(v)'
      BY <1>9, <1>11, <1>13, <2>1, <3>1, <3>3, <3>4, SameCards, JobKept DEF IInv
    <3> QED
      BY <2>1, <3>2, <3>5
  <2> QED
    BY <2>1, <2>2
<1>15. HoldersDiffer'
    BY <1>3, <1>6, <1>9, <1>14, CardConstants DEF IInv, HoldersDiffer
<1>16. job' \in [Worker -> JobRow \cup {Idle}]
    BY <1>13 DEF Typed
<1> QED
    BY <1>4, <1>5, <1>9, <1>10, <1>12, <1>14, <1>15, <1>16, RowStep

-----------------------------------------------------------------------------
(* The steps of a worker. *)

\* A worker that is somewhere has a row.
LEMMA Busy ==
    ASSUME IInv, NEW w \in Worker, job[w].at # "idle"
    PROVE  /\ job[w] \in JobRow /\ job[w] # Idle
           /\ job[w].run \in Run
           /\ Row(w) \in RunRow /\ Row(w) # NoRun
           /\ job[w].attempt <= Row(w).attempt
<1>1. job[w] \in JobRow /\ job[w] # Idle
    BY DEF IInv, Typed, Idle
<1>2. job[w].run \in Run
    BY <1>1 DEF JobRow
<1> QED
    BY <1>1, <1>2 DEF IInv, Typed, JobInv, ClaimOfARun, Row

\* Dying, losing the lease, or giving up for now.
LEMMA GiveUpStep ==
    ASSUME IInv, NEW w \in Worker, GiveUp(w)
    PROVE  IInv'
<1>1. job' = [job EXCEPT ![w] = Idle] /\ UNCHANGED <<ledger, cards, run>>
    BY DEF GiveUp
<1>2. job'[w] = Idle
    BY <1>1 DEF IInv, Typed
<1>3. JobInv(w)'
    BY <1>2, KnowsNothing
<1> QED
    BY <1>1, <1>3, SameCards, LocalStep

\* Ending a run without a judgment.
LEMMA EndsStep ==
    ASSUME IInv, NEW w \in Worker, FailForGood(w) \/ Supersede(w)
    PROVE  IInv'
<1> DEFINE q == job[w].run
<1>1. /\ job[w].at # "idle" /\ run[q].status \in Stages /\ Holds(w)
      /\ UNCHANGED <<ledger, cards>> /\ job' = [job EXCEPT ![w] = Idle]
    BY DEF FailForGood, Supersede, Fenced, Row, Holds
<1>2. \/ run' = [run EXCEPT ![q].status = "FAILED_TERMINAL"]
      \/ run' = [run EXCEPT ![q].status = "SUPERSEDED"]
    BY DEF FailForGood, Supersede
<1>3. job[w] # Idle /\ q \in Run
    BY <1>1, Busy
<1>4. job'[w] = Idle
    BY <1>1 DEF IInv, Typed
<1>5. JobInv(w)'
    BY <1>4, KnowsNothing
<1> HIDE DEF q
<1>6. PICK r \in Run : r = q
    BY <1>3
<1>7. PICK x \in RunRow :
        run' = [run EXCEPT ![r] = x] /\ x.attempt = run[r].attempt /\ RunInv(r)'
    BY <1>1, <1>2, <1>6, EndedRow
<1>8. r = job[w].run
    BY <1>6 DEF q
<1> QED
    BY <1>1, <1>3, <1>5, <1>7, <1>8, SameCards, HolderStep

\* The anchor is prepared as it is, and it is of the version filed for.
LEMMA PrepareAnchorStep ==
    ASSUME IInv, NEW w \in Worker, PrepareAnchor(w)
    PROVE  IInv'
<1> DEFINE p == Prepared(Row(w).anchor)
           j == [job[w] EXCEPT !.at = "generate", !.prepared = <<p>>]
<1>1. /\ job[w].at = "step" /\ Holds(w)
      /\ ledger[Row(w).anchor].version = Row(w).version
      /\ Row(w).status = "RUNNING" /\ UNCHANGED <<ledger, cards, run>>
    BY DEF PrepareAnchor, Fenced, Holds, AnchorCurrent
<1>2. /\ job[w] \in JobRow /\ job[w] # Idle /\ Row(w) \in RunRow
      /\ Row(w) # NoRun /\ job[w].attempt <= Row(w).attempt
    BY <1>1, Busy
<1>3. /\ p \in PreparedCard /\ p.target = Row(w).anchor
      /\ p.input.version = Row(w).version
    BY <1>1, <1>2, PreparedTyped DEF IInv, RunRow
<1>4. job' = [job EXCEPT ![w] = j]
    BY DEF PrepareAnchor
<1> DEFINE one == <<p>>
<1> HIDE DEF p
<1>9. one \in Seq(PreparedCard) /\ Len(one) = 1 /\ one[1] = p
    BY <1>3
<1>5. /\ j \in JobRow /\ j.at = "generate" /\ j.prepared = one
      /\ j.run = job[w].run /\ j.attempt = job[w].attempt
  <2> HIDE DEF one
  <2>1. j = [job[w] EXCEPT !.at = "generate", !.prepared = one]
    BY DEF one
  <2> HIDE DEF j
  <2> QED
    BY <1>2, <1>9, <2>1 DEF JobRow
<1> HIDE DEF j, one
<1>6. job'[w] = j
    BY <1>4 DEF IInv, Typed
<1>7. Row(w)' = Row(w)
    BY <1>1, <1>5, <1>6 DEF Row
<1>8. JobInv(w)'
    BY <1>1, <1>2, <1>3, <1>5, <1>6, <1>7, <1>9
       DEF JobInv, ClaimOfARun, HolderKnows, StoredAsPrepared, SeenRight,
           AnchorSeen, JudgmentSeen, Stores
<1> QED
    BY <1>1, <1>2, <1>4, <1>5, <1>8, SameCards, LocalStep

\* The model's answers are for what was prepared.
LEMMA GenerateStep ==
    ASSUME IInv, NEW w \in Worker, Generate(w)
    PROVE  IInv'
<1>1. PICK produced \in SUBSET Misses(w) :
        job' = [job EXCEPT ![w].at = "store", ![w].produced = produced,
                           ![w].stored = [i \in DOMAIN job[w].prepared |-> 0]]
    BY DEF Generate
<1> DEFINE none == [i \in DOMAIN job[w].prepared |-> 0]
           j == [job[w] EXCEPT !.at = "store", !.produced = produced, !.stored = none]
<1>2. job[w].at = "generate" /\ UNCHANGED <<ledger, cards, run>>
    BY DEF Generate
<1>3. /\ job[w] \in JobRow /\ job[w] # Idle /\ Row(w) # NoRun
      /\ job[w].attempt <= Row(w).attempt
    BY <1>2, Busy
<1>4. job[w].prepared \in Seq(PreparedCard)
    BY <1>3 DEF JobRow
<1>5. /\ none \in Seq(Nat) /\ Len(none) = Len(job[w].prepared)
      /\ \A i \in 1..Len(job[w].prepared) : none[i] = 0
    BY <1>4
<1>6. produced \in SUBSET Nat /\ produced \subseteq 1..Len(job[w].prepared)
    BY <1>4 DEF Misses
<1>7. job' = [job EXCEPT ![w] = j]
    BY <1>1
<1> HIDE DEF none
<1>8. /\ j \in JobRow /\ j.at = "store" /\ j.produced = produced /\ j.stored = none
      /\ j.prepared = job[w].prepared
      /\ j.run = job[w].run /\ j.attempt = job[w].attempt
    BY <1>3, <1>5, <1>6 DEF JobRow
<1> HIDE DEF j
<1>9. job'[w] = j
    BY <1>7 DEF IInv, Typed
<1>10. Row(w)' = Row(w)
    BY <1>2, <1>8, <1>9 DEF Row
<1>11. JobInv(w)'
  <2>1. HolderKnows(w)
    BY DEF IInv, JobInv
  <2>2. HolderKnows(w)'
    BY <1>2, <1>3, <1>8, <1>9, <1>10, <2>1 DEF HolderKnows, Holds, Stores
  <2>3. StoredAsPrepared(w)'
    BY <1>5, <1>6, <1>8, <1>9 DEF StoredAsPrepared
  <2>4. SeenRight(w)'
    BY <1>8, <1>9 DEF SeenRight, AnchorSeen, JudgmentSeen
  <2> QED
    BY <1>3, <1>8, <1>9, <1>10, <2>2, <2>3, <2>4 DEF JobInv, ClaimOfARun
<1> QED
    BY <1>2, <1>3, <1>7, <1>8, <1>11, SameCards, LocalStep

\* While no card changes, each is of the input it was of.
LEMMA SameInputs ==
    ASSUME UNCHANGED cards
    PROVE  \A c, t, input : IsCard(c, t, input)' <=> IsCard(c, t, input)
    BY DEF IsCard, CardId

\* Moving on within a stage.
LEMMA PlaceStep ==
    ASSUME IInv, NEW w \in Worker, job[w].at # "idle",
           NEW place \in {"prepare", "generate", "failed"},
           job' = [job EXCEPT ![w].at = place], UNCHANGED <<ledger, cards, run>>,
           place \in {"prepare", "generate"} /\ Holds(w) =>
               Row(w).status # "RUNNING",
           place = "generate" => Len(job[w].prepared) = Len(Row(w).selected),
           place = "failed" => job[w].at \in Stores
    PROVE  IInv'
<1> DEFINE j == [job[w] EXCEPT !.at = place]
<1>1. /\ job[w] \in JobRow /\ job[w] # Idle /\ Row(w) # NoRun
      /\ job[w].attempt <= Row(w).attempt
    BY Busy
<1>2. /\ j \in JobRow /\ j.at = place /\ j.produced = job[w].produced
      /\ j.stored = job[w].stored /\ j.prepared = job[w].prepared
      /\ j.run = job[w].run /\ j.attempt = job[w].attempt
    BY <1>1 DEF JobRow
<1>3. job' = [job EXCEPT ![w] = j]
    OBVIOUS
<1> HIDE DEF j
<1>4. job'[w] = j
    BY <1>3 DEF IInv, Typed
<1>5. Row(w)' = Row(w)
    BY <1>2, <1>4 DEF Row
<1>6. HolderKnows(w)'
    BY <1>1, <1>2, <1>4, <1>5 DEF HolderKnows, Holds, Stores
<1>7. StoredAsPrepared(w)
    BY DEF IInv, JobInv
<1>8. StoredAsPrepared(w)'
  <2>1. StoredAsPrepared(w)' <=> (place = "failed" => StoredAsPrepared(w)')
    BY <1>2, <1>4 DEF StoredAsPrepared, Stores
  <2>2. ASSUME place = "failed" PROVE StoredAsPrepared(w)'
    <3>1. /\ job[w].produced \subseteq 1..Len(job[w].prepared)
          /\ Len(job[w].stored) = Len(job[w].prepared)
          /\ \A i \in 1..Len(job[w].prepared) :
                job[w].stored[i] # 0 =>
                    IsCard(job[w].stored[i], job[w].prepared[i].target,
                           job[w].prepared[i].input)
      BY <1>7, <2>2 DEF StoredAsPrepared, Stores
    <3> QED
      BY <1>2, <1>4, <2>2, <3>1, SameInputs DEF StoredAsPrepared
  <2> QED
    BY <2>1, <2>2
<1>9. SeenRight(w)'
    BY <1>2, <1>4 DEF SeenRight, AnchorSeen, JudgmentSeen
<1>10. JobInv(w)'
    BY <1>1, <1>2, <1>4, <1>5, <1>6, <1>8, <1>9 DEF JobInv, ClaimOfARun
<1> QED
    BY <1>1, <1>2, <1>3, <1>10, SameCards, LocalStep

\* The selection is planned in a stage that is not the anchor's.
LEMMA PlanCardsStep ==
    ASSUME IInv, NEW w \in Worker, PlanCards(w)
    PROVE  IInv'
    BY PlaceStep DEF PlanCards, Fenced

\* Every selected candidate has been prepared.
LEMMA AllPreparedStep ==
    ASSUME IInv, NEW w \in Worker, AllPrepared(w)
    PROVE  IInv'
<1>1. job[w].at = "prepare" /\ job[w] # Idle
    BY Busy DEF AllPrepared
<1>2. Holds(w) => Row(w).status # "RUNNING"
    BY <1>1 DEF IInv, JobInv, HolderKnows
<1> QED
    BY <1>1, <1>2, PlaceStep DEF AllPrepared

\* A failure, of the model or of the store, writes no row.
LEMMA FailureStep ==
    ASSUME IInv, NEW w \in Worker, RaiseFailure(w) \/ StoreFails(w)
    PROVE  IInv'
<1>1. /\ job[w].at \in Stores /\ job[w].at # "idle"
      /\ job' = [job EXCEPT ![w].at = "failed"]
      /\ UNCHANGED <<ledger, cards, run>>
    BY DEF RaiseFailure, StoreFails, Fails, Stores
<1> QED
    BY <1>1, PlaceStep

\* Preparing one more candidate.
LEMMA PrepareCandidateStep ==
    ASSUME IInv, NEW w \in Worker, PrepareCandidate(w)
    PROVE  IInv'
<1> DEFINE next == Len(job[w].prepared) + 1
           p == Prepared(Row(w).selected[next])
           more == Append(job[w].prepared, p)
           j == [job[w] EXCEPT !.prepared = more]
<1>1. /\ job[w].at = "prepare" /\ Holds(w) /\ Row(w).status = "CANDIDATES_READY"
      /\ next <= Len(Row(w).selected) /\ UNCHANGED <<ledger, cards, run>>
    BY DEF PrepareCandidate, Fenced, Holds
<1>2. /\ job[w] \in JobRow /\ job[w] # Idle /\ Row(w) \in RunRow
      /\ Row(w) # NoRun /\ job[w].attempt <= Row(w).attempt
    BY <1>1, Busy
<1>3. job[w].prepared \in Seq(PreparedCard) /\ Row(w).selected \in Seq(Target)
    BY <1>2 DEF JobRow, RunRow
<1>4. Row(w).selected[next] \in Target
    BY <1>1, <1>3
<1>5. p \in PreparedCard
    BY <1>4, PreparedTyped DEF IInv
<1>6. job' = [job EXCEPT ![w] = j]
    BY DEF PrepareCandidate
<1> HIDE DEF p, next
<1>7. more \in Seq(PreparedCard)
    BY <1>3, <1>5
<1> HIDE DEF more
<1>8. /\ j \in JobRow /\ j.at = "prepare"
      /\ j.run = job[w].run /\ j.attempt = job[w].attempt
    BY <1>1, <1>2, <1>7 DEF JobRow
<1> HIDE DEF j
<1>9. job'[w] = j
    BY <1>6 DEF IInv, Typed
<1>10. Row(w)' = Row(w)
    BY <1>1, <1>8, <1>9 DEF Row
<1>11. JobInv(w)'
    BY <1>1, <1>2, <1>8, <1>9, <1>10
       DEF JobInv, ClaimOfARun, HolderKnows, StoredAsPrepared, SeenRight,
           AnchorSeen, JudgmentSeen, Stores
<1> QED
    BY <1>1, <1>2, <1>6, <1>8, <1>11, SameCards, LocalStep

\* A transaction that has compared what it had to, and writes next.
LEMMA VerifyStep ==
    ASSUME IInv, NEW w \in Worker, job[w].at # "idle",
           UNCHANGED <<ledger, cards, run>>,
           NEW j \in JobRow, job' = [job EXCEPT ![w] = j],
           j.at \in {"keep anchor", "keep candidate", "conclude"},
           j.run = job[w].run, j.attempt = job[w].attempt,
           j.prepared = job[w].prepared, j.produced = job[w].produced,
           j.stored = job[w].stored,
           j.at # "conclude" => job[w].at = "store",
           SeenRight(w)'
    PROVE  IInv'
<1>1. /\ job[w] \in JobRow /\ job[w] # Idle /\ Row(w) # NoRun
      /\ job[w].attempt <= Row(w).attempt
    BY Busy
<1>2. job'[w] = j
    BY DEF IInv, Typed
<1>3. Row(w)' = Row(w)
    BY <1>2 DEF Row
<1>4. HolderKnows(w) /\ StoredAsPrepared(w)
    BY DEF IInv, JobInv
<1>5. HolderKnows(w)'
    BY <1>1, <1>2, <1>3, <1>4 DEF HolderKnows, Holds, Stores
<1>6. StoredAsPrepared(w)'
  <2>1. StoredAsPrepared(w)' <=> (job[w].at = "store" => StoredAsPrepared(w)')
    BY <1>2 DEF StoredAsPrepared, Stores
  <2>2. ASSUME job[w].at = "store" PROVE StoredAsPrepared(w)'
    <3>1. /\ job[w].produced \subseteq 1..Len(job[w].prepared)
          /\ Len(job[w].stored) = Len(job[w].prepared)
          /\ \A i \in 1..Len(job[w].prepared) :
                job[w].stored[i] # 0 =>
                    IsCard(job[w].stored[i], job[w].prepared[i].target,
                           job[w].prepared[i].input)
      BY <1>4, <2>2 DEF StoredAsPrepared, Stores
    <3>2. job'[w].at # "failed"
      BY <1>2
    <3>3. /\ job'[w].produced = job[w].produced /\ job'[w].stored = job[w].stored
          /\ job'[w].prepared = job[w].prepared
      BY ONLY <1>2, j.produced = job[w].produced, j.stored = job[w].stored,
         j.prepared = job[w].prepared
    <3>4. \A i \in 1..Len(job[w].prepared) :
             job[w].stored[i] # 0 =>
                 IsCard(job[w].stored[i], job[w].prepared[i].target,
                        job[w].prepared[i].input)'
      BY <3>1, <3>3, SameInputs
    <3> QED
      BY ONLY <3>1, <3>2, <3>3, <3>4 DEF StoredAsPrepared
  <2> QED
    BY <2>1, <2>2
<1>7. JobInv(w)'
    BY <1>1, <1>2, <1>3, <1>5, <1>6 DEF JobInv, ClaimOfARun
<1> QED
    BY <1>1, <1>7, SameCards, LocalStep

\* The database is as it is.
LEMMA DatabaseTyped ==
    ASSUME Typed
    PROVE  /\ Database \in Seen
           /\ Database.ledger = ledger /\ Database.cards = cards
    BY DEF Typed, Seen, Database

\* The anchor's input is as prepared.
LEMMA VerifyAnchorStep ==
    ASSUME IInv, NEW w \in Worker, VerifyAnchor(w)
    PROVE  IInv'
<1> DEFINE j == [job[w] EXCEPT !.at = "keep anchor", !.seen = Database]
<1>1. /\ job[w].at = "store" /\ UNCHANGED <<ledger, cards, run>>
      /\ ledger[job[w].prepared[1].target] = job[w].prepared[1].input
      /\ job' = [job EXCEPT ![w] = j]
    BY DEF VerifyAnchor, Verified
<1>2. job[w] \in JobRow
    BY <1>1, Busy
<1>3. /\ j \in JobRow /\ j.at = "keep anchor"
      /\ j.run = job[w].run /\ j.attempt = job[w].attempt
      /\ j.prepared = job[w].prepared /\ j.produced = job[w].produced
      /\ j.stored = job[w].stored /\ j.seen = Database
    BY <1>2, DatabaseTyped DEF JobRow, IInv
<1> HIDE DEF j
<1>4. job'[w] = j
    BY <1>1 DEF IInv, Typed
<1>5. SeenRight(w)'
    BY <1>1, <1>3, <1>4, DatabaseTyped
       DEF SeenRight, AnchorSeen, JudgmentSeen, IInv
<1> QED
    BY <1>1, <1>3, <1>5, VerifyStep

\* The next candidate's input is as prepared.
LEMMA VerifyCandidateStep ==
    ASSUME IInv, NEW w \in Worker, VerifyCandidate(w)
    PROVE  IInv'
<1> DEFINE j == [job[w] EXCEPT !.at = "keep candidate"]
<1>1. /\ job[w].at = "store" /\ UNCHANGED <<ledger, cards, run>>
      /\ job' = [job EXCEPT ![w] = j]
    BY DEF VerifyCandidate
<1>2. job[w] \in JobRow
    BY <1>1, Busy
<1>3. /\ j \in JobRow /\ j.at = "keep candidate"
      /\ j.run = job[w].run /\ j.attempt = job[w].attempt
      /\ j.prepared = job[w].prepared /\ j.produced = job[w].produced
      /\ j.stored = job[w].stored
    BY <1>2 DEF JobRow
<1> HIDE DEF j
<1>4. job'[w] = j
    BY <1>1 DEF IInv, Typed
<1>5. SeenRight(w)'
    BY <1>3, <1>4 DEF SeenRight, AnchorSeen, JudgmentSeen
<1> QED
    BY <1>1, <1>3, <1>5, VerifyStep

\* The cards of the judgment are active and current, and they are those the
\* model was asked about.
LEMMA VerifyJudgmentStep ==
    ASSUME IInv, NEW w \in Worker, VerifyJudgment(w)
    PROVE  IInv'
<1> DEFINE j == [job[w] EXCEPT !.at = "conclude", !.seen = Database]
<1>1. PICK q : q = job[w].run
    OBVIOUS
<1>2. /\ job[w].at = "judge" /\ UNCHANGED <<ledger, cards, run>>
      /\ Row(w).picked = job[w].stored
      /\ run[q].picked # <<>> => AllActive(q) /\ AllCurrent(q)
      /\ run[q].status = JudgedStage(w)
      /\ job' = [job EXCEPT ![w] = j]
    BY <1>1 DEF VerifyJudgment, Fenced, Row
<1>3. job[w] \in JobRow /\ q \in Run /\ Row(w) = run[q] /\ run[q] # NoRun
    BY <1>1, <1>2, Busy DEF Row
<1>4. /\ j \in JobRow /\ j.at = "conclude"
      /\ j.run = q /\ j.attempt = job[w].attempt
      /\ j.prepared = job[w].prepared /\ j.produced = job[w].produced
      /\ j.stored = job[w].stored /\ j.seen = Database
    BY <1>1, <1>3, DatabaseTyped DEF JobRow, IInv
<1> HIDE DEF j
<1>5. job'[w] = j
    BY <1>2 DEF IInv, Typed
<1>6. \A c \in CardsOf(q) : c \in CardId
  <2>1. run[q] \in RunRow /\ RefersToCards(q) /\ AnchorCardKnown(q)
    BY <1>3 DEF IInv, RunInv, Typed
  <2>2. run[q].anchorCard \in CardId
    BY <1>2, <2>1 DEF AnchorCardKnown, JudgedStage, Stages
  <2>3. \A i \in DOMAIN run[q].picked : run[q].picked[i] \in CardId
    <3>1. run[q].picked \in Seq(Nat)
      BY ONLY <2>1 DEF RunRow
    <3>2. DOMAIN run[q].picked = 1..Len(run[q].picked)
      BY ONLY <3>1
    <3>3. \A i \in 1..Len(run[q].picked) : run[q].picked[i] \in CardId
      BY ONLY <1>3, <2>1 DEF RefersToCards
    <3> QED
      BY ONLY <3>2, <3>3
  <2> QED
    BY <2>2, <2>3 DEF CardsOf
<1>7. job[w].stored # <<>> => SeenTogether(w)'
  <2>1. Database.ledger = ledger /\ Database.cards = cards
    BY DatabaseTyped DEF IInv
  <2>2. CardsOf(q)' = CardsOf(q) /\ CardId' = CardId
    BY <1>2 DEF CardsOf, CardId
  <2>3. job[w].stored # <<>> => AllActive(q) /\ AllCurrent(q)
    BY <1>2, <1>3
  <2> QED
    BY <1>2, <1>4, <1>5, <1>6, <2>1, <2>2, <2>3
       DEF SeenTogether, AllActive, AllCurrent
<1>8. SeenRight(w)'
  <2>1. Row(w)' = Row(w)
    BY <1>1, <1>2, <1>4, <1>5 DEF Row
  <2> QED
    BY <1>2, <1>4, <1>5, <1>7, <2>1 DEF SeenRight, AnchorSeen, JudgmentSeen
<1> QED
    BY <1>1, <1>2, <1>4, <1>8, VerifyStep

\* A candidate's card is stored: the other stored cards stay what they are.
LEMMA StoreCandidateStep ==
    ASSUME IInv, NEW w \in Worker, StoreCandidate(w)
    PROVE  IInv'
<1>1. PICK i \in ToStore(w), id \in NewCardId :
        /\ StoresCard(job[w].prepared[i], id)
        /\ job' = [job EXCEPT ![w].at = "store", ![w].stored[i] = id]
    BY DEF StoreCandidate
<1>2. job[w].at = "keep candidate" /\ UNCHANGED <<ledger, run>>
    BY DEF StoreCandidate
<1>3. PICK mine : mine = job[w]
    OBVIOUS
<1>4. /\ mine \in JobRow /\ job[w] # Idle /\ Row(w) # NoRun
      /\ mine.attempt <= Row(w).attempt /\ mine.at = "keep candidate"
    BY <1>2, <1>3, Busy
<1>5. /\ mine.prepared \in Seq(PreparedCard) /\ mine.stored \in Seq(Nat)
      /\ Len(mine.stored) = Len(mine.prepared)
      /\ mine.produced \subseteq 1..Len(mine.prepared)
      /\ \A k \in 1..Len(mine.prepared) : mine.stored[k] # 0 =>
            IsCard(mine.stored[k], mine.prepared[k].target, mine.prepared[k].input)
    BY <1>2, <1>3, <1>4 DEF JobRow, IInv, JobInv, StoredAsPrepared, Stores
<1>6. i \in 1..Len(mine.prepared)
    BY <1>3, <1>5 DEF ToStore
<1> DEFINE p == mine.prepared[i]
           stored == [mine.stored EXCEPT ![i] = id]
           j == [mine EXCEPT !.at = "store", !.stored = stored]
<1>7. p \in PreparedCard
    BY <1>5, <1>6
<1>8. /\ cards' \in Seq(Card) /\ CardsKept /\ OneActiveCardPerInput'
      /\ IsCard(id, p.target, p.input)'
    BY <1>1, <1>3, <1>7, StoresCardStep DEF IInv
<1>9. id \in Nat
    BY DEF NewCardId
<1>10. /\ stored \in Seq(Nat) /\ Len(stored) = Len(mine.stored) /\ stored[i] = id
       /\ \A k \in 1..Len(stored) : k # i => stored[k] = mine.stored[k]
    BY <1>5, <1>6, <1>9
<1>11. job' = [job EXCEPT ![w] = j]
    BY <1>1, <1>3
<1> HIDE DEF stored
<1>12. /\ j \in JobRow /\ j.at = "store" /\ j.produced = mine.produced
       /\ j.stored = stored /\ j.prepared = mine.prepared
       /\ j.run = mine.run /\ j.attempt = mine.attempt
    BY <1>4, <1>10 DEF JobRow
<1> HIDE DEF j
<1>13. job'[w] = j
    BY <1>11 DEF IInv, Typed
<1>14. Row(w)' = Row(w)
    BY <1>2, <1>3, <1>12, <1>13 DEF Row
<1>15. HolderKnows(w)
    BY DEF IInv, JobInv
<1>16. HolderKnows(w)'
    BY <1>2, <1>3, <1>4, <1>12, <1>13, <1>14, <1>15
       DEF HolderKnows, Holds, Stores
<1>17. \A k \in 1..Len(mine.prepared) : stored[k] # 0 =>
          IsCard(stored[k], mine.prepared[k].target, mine.prepared[k].input)'
  <2> SUFFICES ASSUME NEW k \in 1..Len(mine.prepared), stored[k] # 0
               PROVE  IsCard(stored[k], mine.prepared[k].target,
                             mine.prepared[k].input)'
    OBVIOUS
  <2>1. CASE k = i
    BY <1>8, <1>10, <2>1
  <2>2. CASE k # i
    <3>1. stored[k] = mine.stored[k]
      BY <1>5, <1>10, <2>2
    <3>2. IsCard(stored[k], mine.prepared[k].target, mine.prepared[k].input)
      BY <1>5, <3>1
    <3> QED
      BY <1>8, <3>2, CardStays DEF IInv
  <2> QED
    BY <2>1, <2>2
<1>18. StoredAsPrepared(w)'
    BY <1>5, <1>10, <1>12, <1>13, <1>17 DEF StoredAsPrepared
<1>19. SeenRight(w)'
    BY <1>12, <1>13 DEF SeenRight, AnchorSeen, JudgmentSeen
<1>20. JobInv(w)'
    BY <1>4, <1>12, <1>13, <1>14, <1>16, <1>18, <1>19 DEF JobInv, ClaimOfARun
<1> QED
    BY <1>2, <1>3, <1>4, <1>8, <1>11, <1>12, <1>20, LocalStep

-----------------------------------------------------------------------------
(* The steps that write the row. *)

\* The holder of a row writes it and is between two stages, about to judge, or
\* done.
LEMMA WritesRow ==
    ASSUME IInv, UNCHANGED ledger,
           cards' \in Seq(Card), CardsKept, OneActiveCardPerInput',
           NEW w \in Worker, job[w].at # "idle", Holds(w),
           NEW q \in Run, q = job[w].run,
           NEW x \in RunRow, run' = [run EXCEPT ![q] = x],
           x.attempt = run[q].attempt, RunInv(q)',
           NEW j \in JobRow \cup {Idle}, job' = [job EXCEPT ![w] = j],
           j # Idle => /\ j.at \in {"step", "judge"}
                       /\ j.run = q /\ j.attempt = job[w].attempt
    PROVE  IInv'
<1>1. /\ job[w] # Idle /\ Row(w) = run[q] /\ job[w].attempt <= run[q].attempt
    BY Busy DEF Row
<1>2. run'[q] = x /\ job'[w] = j
    BY DEF IInv, Typed
<1>3. x # NoRun
    BY DEF RunRow, NoRun, Active, Stages, Ended
<1>4. j # Idle => Row(w)' = x
    BY <1>2 DEF Row
<1>5. JobInv(w)'
    BY <1>1, <1>2, <1>3, <1>4, KnowsNothing
<1> QED
    BY <1>1, <1>5, HolderStep

\* The job of the next stage.
LEMMA NextJob ==
    ASSUME IInv, NEW w \in Worker, job[w].at # "idle",
           NEW j, j = Job(job[w].run, job[w].attempt, "step")
    PROVE  /\ j \in JobRow /\ j.at = "step"
           /\ j.run = job[w].run /\ j.attempt = job[w].attempt
<1>1. job[w].run \in Run /\ job[w].attempt \in Nat
    BY Busy DEF JobRow
<1> QED
    BY <1>1 DEF Job, JobRow, Nothing, Seen

\* The anchor's card: found, written, or put in by another run.
LEMMA StoreAnchorStep ==
    ASSUME IInv, NEW w \in Worker, StoreAnchor(w)
    PROVE  IInv'
<1>1. PICK id \in NewCardId :
        /\ StoresCard(job[w].prepared[1], id)
        /\ run' = [run EXCEPT ![job[w].run].status = "ANCHOR_READY",
                              ![job[w].run].anchorCard = id]
    BY DEF StoreAnchor
<1>2. /\ job[w].at = "keep anchor" /\ Holds(w) /\ Row(w).status = "RUNNING"
      /\ UNCHANGED ledger
    BY DEF StoreAnchor, Fenced, Holds
<1>3. /\ job[w] \in JobRow /\ job[w] # Idle /\ job[w].run \in Run
      /\ Row(w) \in RunRow /\ Row(w) # NoRun
    BY <1>2, Busy
<1>4. PICK q, p, j :
        /\ q \in Run /\ q = job[w].run /\ p = job[w].prepared[1]
        /\ j = Job(job[w].run, job[w].attempt, "step")
    BY <1>3
<1>5. /\ p \in PreparedCard /\ p.target = run[q].anchor
      /\ p.input.version = run[q].version
  <2>1. HolderKnows(w) /\ job[w].prepared \in Seq(PreparedCard)
    BY <1>3 DEF IInv, JobInv, JobRow
  <2>2. Len(job[w].prepared) = 1 /\ p.target = Row(w).anchor
        /\ p.input.version = Row(w).version
    BY <1>2, <1>3, <1>4, <2>1 DEF HolderKnows, Stores
  <2> QED
    BY <1>4, <2>1, <2>2 DEF Row
<1>6. /\ cards' \in Seq(Card) /\ CardsKept /\ OneActiveCardPerInput'
      /\ IsCard(id, p.target, p.input)'
    BY <1>1, <1>4, <1>5, StoresCardStep DEF IInv
<1> DEFINE x == [run[q] EXCEPT !.status = "ANCHOR_READY", !.anchorCard = id]
<1>7. run[q] \in RunRow /\ run[q] # NoRun /\ id \in Nat
    BY <1>3, <1>4 DEF Row, NewCardId
<1>8. /\ x \in RunRow /\ x.status = "ANCHOR_READY" /\ x.anchorCard = id
      /\ x.attempt = run[q].attempt /\ x.anchor = run[q].anchor
      /\ x.version = run[q].version /\ x.selected = run[q].selected
      /\ x.picked = run[q].picked /\ x.judged = run[q].judged
    BY <1>7 DEF RunRow, Active, Stages
<1>9. run' = [run EXCEPT ![q] = x]
    BY <1>1, <1>4
<1> HIDE DEF x
<1>10. run'[q] = x
    BY <1>4, <1>9 DEF IInv, Typed
<1>11. RunInv(q)'
  <2>1. RefersToCards(q) /\ CardId \subseteq CardId'
    BY <1>4, <1>6, CardStays DEF IInv, RunInv
  <2>2. RefersToCards(q)'
    BY <1>6, <1>7, <1>8, <1>10, <2>1 DEF RefersToCards, IsCard
  <2>3. AnchorCardKnown(q)'
    BY <1>5, <1>6, <1>8, <1>10 DEF AnchorCardKnown, IsCard
  <2> QED
    BY <1>8, <1>10, <2>2, <2>3 DEF RunInv, PickedCovers, JudgedAsPicked
<1>12. job' = [job EXCEPT ![w] = j]
    BY <1>4 DEF StoreAnchor
<1>13. /\ j \in JobRow /\ j.at = "step"
       /\ j.run = q /\ j.attempt = job[w].attempt
    BY <1>2, <1>4, NextJob
<1> QED
    BY <1>2, <1>4, <1>6, <1>8, <1>9, <1>11, <1>12, <1>13, WritesRow

\* The selection is of the opposite side.
LEMMA SelectCandidatesStep ==
    ASSUME IInv, NEW w \in Worker, SelectCandidates(w)
    PROVE  IInv'
<1>1. PICK s \in Selections(Row(w).anchor) :
        run' = [run EXCEPT ![job[w].run].status = "CANDIDATES_READY",
                           ![job[w].run].selected = s]
    BY DEF SelectCandidates
<1>2. /\ job[w].at = "step" /\ Holds(w) /\ Row(w).status = "ANCHOR_READY"
      /\ UNCHANGED <<ledger, cards, job>>
    BY DEF SelectCandidates, Fenced, Holds
<1>3. /\ job[w] \in JobRow /\ job[w] # Idle /\ job[w].run \in Run
      /\ Row(w) \in RunRow /\ Row(w) # NoRun
    BY <1>2, Busy
<1>4. PICK q \in Run : q = job[w].run
    BY <1>3
<1>5. run[q] \in RunRow /\ run[q] # NoRun /\ run[q].status = "ANCHOR_READY"
    BY <1>2, <1>3, <1>4 DEF Row
<1>6. /\ s \in Seq(Target)
      /\ \A i \in 1..Len(s) : s[i] \in Opposite(run[q].anchor)
  <2>1. PICK n \in 0..Limit : s \in [1..n -> Opposite(run[q].anchor)]
    BY <1>1, <1>4 DEF Selections, Row
  <2>2. n \in Nat
    BY CardConstants
  <2>3. Opposite(run[q].anchor) \subseteq Target
    BY DEF Opposite, Target
  <2> HIDE DEF Opposite
  <2> QED
    BY <2>1, <2>2, <2>3
<1> DEFINE x == [run[q] EXCEPT !.status = "CANDIDATES_READY", !.selected = s]
<1>7. /\ x \in RunRow /\ x.status = "CANDIDATES_READY" /\ x.selected = s
      /\ x.attempt = run[q].attempt /\ x.anchor = run[q].anchor
      /\ x.version = run[q].version /\ x.anchorCard = run[q].anchorCard
      /\ x.picked = run[q].picked /\ x.judged = run[q].judged
    BY <1>5, <1>6 DEF RunRow, Active, Stages
<1>8. run' = [run EXCEPT ![q] = x]
    BY <1>1, <1>4
<1> HIDE DEF x
<1>9. run'[q] = x
    BY <1>8 DEF IInv, Typed
<1>10. RunInv(q)'
  <2>1. RefersToCards(q) /\ AnchorCardKnown(q)
    BY <1>4 DEF IInv, RunInv
  <2>2. UNCHANGED CardId
    BY <1>2 DEF CardId
  <2>3. RefersToCards(q)'
    BY <1>5, <1>6, <1>7, <1>9, <2>1, <2>2 DEF RefersToCards
  <2>4. AnchorCardKnown(q)'
    BY <1>2, <1>5, <1>7, <1>9, <2>1, <2>2 DEF AnchorCardKnown, Stages
  <2> QED
    BY <1>7, <1>9, <2>3, <2>4 DEF RunInv, PickedCovers, JudgedAsPicked
<1>11. job' = [job EXCEPT ![w] = job[w]]
    BY <1>2 DEF IInv, Typed
<1> QED
    BY <1>2, <1>3, <1>4, <1>7, <1>8, <1>10, <1>11, SameCards, WritesRow

\* The recorded cards are those of the whole selection.
LEMMA RecordCardsStep ==
    ASSUME IInv, NEW w \in Worker, RecordCards(w)
    PROVE  IInv'
<1>1. run' = [run EXCEPT ![job[w].run].status = "CANDIDATE_CARDS_READY",
                         ![job[w].run].picked = job[w].stored]
    BY DEF RecordCards
<1>2. /\ job[w].at = "store" /\ Holds(w) /\ Row(w).status = "CANDIDATES_READY"
      /\ UNCHANGED <<ledger, cards>>
    BY DEF RecordCards, Fenced, Holds
<1>3. /\ job[w] \in JobRow /\ job[w] # Idle /\ job[w].run \in Run
      /\ Row(w) \in RunRow /\ Row(w) # NoRun
    BY <1>2, Busy
<1>4. PICK q, stored, j :
        /\ q \in Run /\ q = job[w].run /\ stored = job[w].stored
        /\ j = Job(job[w].run, job[w].attempt, "step")
    BY <1>3
<1>5. run[q] \in RunRow /\ run[q] # NoRun /\ run[q].status = "CANDIDATES_READY"
    BY <1>2, <1>3, <1>4 DEF Row
<1>6. stored \in Seq(Nat) /\ Len(stored) = Len(run[q].selected)
  <2>1. Len(job[w].prepared) = Len(Row(w).selected)
    BY <1>2, <1>3 DEF IInv, JobInv, HolderKnows, Stores
  <2>2. Len(job[w].stored) = Len(job[w].prepared)
    BY <1>2 DEF IInv, JobInv, StoredAsPrepared, Stores
  <2> QED
    BY <1>3, <1>4, <2>1, <2>2 DEF JobRow, Row
<1>7. \A i \in 1..Len(stored) :
         stored[i] \in CardId /\ cards[stored[i]].target = run[q].selected[i]
    BY SMTT(20), <1>4, <1>6 DEF RecordCards, Usable, Row
<1> DEFINE x == [run[q] EXCEPT !.status = "CANDIDATE_CARDS_READY", !.picked = stored]
<1>8. /\ x \in RunRow /\ x.status = "CANDIDATE_CARDS_READY" /\ x.picked = stored
      /\ x.attempt = run[q].attempt /\ x.anchor = run[q].anchor
      /\ x.version = run[q].version /\ x.anchorCard = run[q].anchorCard
      /\ x.selected = run[q].selected /\ x.judged = run[q].judged
    BY <1>5, <1>6 DEF RunRow, Active, Stages
<1>9. run' = [run EXCEPT ![q] = x]
    BY <1>1, <1>4
<1> HIDE DEF x
<1>10. run'[q] = x
    BY <1>4, <1>9 DEF IInv, Typed
<1>11. RunInv(q)'
  <2>1. RefersToCards(q) /\ AnchorCardKnown(q)
    BY <1>4 DEF IInv, RunInv
  <2>2. UNCHANGED CardId
    BY <1>2 DEF CardId
  <2>3. RefersToCards(q)'
    BY <1>5, <1>7, <1>8, <1>10, <2>1, <2>2 DEF RefersToCards
  <2>4. AnchorCardKnown(q)'
    BY <1>2, <1>5, <1>8, <1>10, <2>1, <2>2 DEF AnchorCardKnown, Stages
  <2>5. PickedCovers(q)'
    BY <1>2, <1>6, <1>7, <1>8, <1>10 DEF PickedCovers
  <2> QED
    BY <1>8, <1>10, <2>3, <2>4, <2>5 DEF RunInv, JudgedAsPicked
<1>12. job' = [job EXCEPT ![w] = j]
    BY <1>4 DEF RecordCards
<1>13. /\ j \in JobRow /\ j.at = "step"
       /\ j.run = q /\ j.attempt = job[w].attempt
    BY <1>2, <1>4, NextJob
<1> QED
    BY <1>2, <1>4, <1>8, <1>9, <1>11, <1>12, <1>13, SameCards, WritesRow

\* Preparing the judgment changes no card of the row.
LEMMA PrepareJudgmentStep ==
    ASSUME IInv, NEW w \in Worker, PrepareJudgment(w)
    PROVE  IInv'
<1>1. PICK q, picked : q \in Run /\ q = job[w].run /\ picked = run[q].picked
    BY Busy DEF PrepareJudgment
<1>2. /\ job[w].at = "step" /\ Holds(w) /\ UNCHANGED <<ledger, cards>>
      /\ run[q].status \in {"CANDIDATE_CARDS_READY", "JUDGING"}
    BY <1>1 DEF PrepareJudgment, Fenced, Holds, Row
<1>3. job[w] \in JobRow /\ run[q] \in RunRow /\ run[q] # NoRun
    BY <1>1, <1>2, Busy DEF Row
<1> DEFINE x == IF picked = <<>> THEN run[q] ELSE [run[q] EXCEPT !.status = "JUDGING"]
           j == [job[w] EXCEPT !.at = "judge", !.stored = picked]
<1>4. /\ x \in RunRow /\ x.status \in {"CANDIDATE_CARDS_READY", "JUDGING"}
      /\ x.attempt = run[q].attempt /\ x.anchor = run[q].anchor
      /\ x.version = run[q].version /\ x.anchorCard = run[q].anchorCard
      /\ x.selected = run[q].selected /\ x.picked = run[q].picked
      /\ x.judged = run[q].judged
    BY <1>2, <1>3 DEF RunRow, Active, Stages
<1>5. run' = [run EXCEPT ![q] = x]
  <2>1. CASE picked = <<>>
    BY <1>1, <2>1 DEF PrepareJudgment, IInv, Typed
  <2>2. CASE picked # <<>>
    BY <1>1, <2>2 DEF PrepareJudgment
  <2> QED
    BY <2>1, <2>2
<1>6. picked \in Seq(Nat)
    BY <1>1, <1>3 DEF RunRow
<1>7. /\ j \in JobRow /\ j.at = "judge"
      /\ j.run = q /\ j.attempt = job[w].attempt
    BY <1>1, <1>3, <1>6 DEF JobRow
<1>8. job' = [job EXCEPT ![w] = j]
    BY <1>1 DEF PrepareJudgment
<1> HIDE DEF x, j
<1>9. run'[q] = x
    BY <1>1, <1>5 DEF IInv, Typed
<1>10. RunInv(q)'
  <2>1. RefersToCards(q) /\ AnchorCardKnown(q) /\ PickedCovers(q)
    BY <1>1 DEF IInv, RunInv
  <2>2. UNCHANGED CardId
    BY <1>2 DEF CardId
  <2>3. RefersToCards(q)'
    BY <1>3, <1>4, <1>9, <2>1, <2>2 DEF RefersToCards
  <2>4. AnchorCardKnown(q)'
    BY <1>2, <1>4, <1>9, <2>1, <2>2 DEF AnchorCardKnown, Stages
  <2>5. PickedCovers(q)'
    BY <1>2, <1>4, <1>9, <2>1 DEF PickedCovers
  <2> QED
    BY <1>4, <1>9, <2>3, <2>4, <2>5 DEF RunInv, JudgedAsPicked
<1> QED
    BY <1>1, <1>2, <1>4, <1>5, <1>7, <1>8, <1>10, SameCards, WritesRow

\* The judgment speaks of the recorded cards.
LEMMA StoreJudgmentStep ==
    ASSUME IInv, NEW w \in Worker, StoreJudgment(w)
    PROVE  IInv'
<1>1. PICK q, stored : q \in Run /\ q = job[w].run /\ stored = job[w].stored
    BY Busy DEF StoreJudgment
<1>2. /\ job[w].at = "conclude" /\ Holds(w) /\ UNCHANGED <<ledger, cards>>
      /\ run[q].status \in {"CANDIDATE_CARDS_READY", "JUDGING"}
      /\ run[q].picked = stored
      /\ run' = [run EXCEPT ![q].status = "COMPLETED", ![q].judged = stored]
      /\ job' = [job EXCEPT ![w] = Idle]
  <2>1. /\ job[w].at = "conclude" /\ Holds(w) /\ UNCHANGED <<ledger, cards>>
        /\ Row(w) = run[q] /\ run[q].status = JudgedStage(w)
        /\ run' = [run EXCEPT ![q].status = "COMPLETED", ![q].judged = stored]
        /\ job' = [job EXCEPT ![w] = Idle]
    BY <1>1 DEF StoreJudgment, Fenced, Holds, Row
  <2>2. JudgmentSeen(w)
    BY DEF IInv, JobInv, SeenRight
  <2> QED
    BY <1>1, <2>1, <2>2 DEF JudgmentSeen, JudgedStage
<1>3. job[w] \in JobRow /\ run[q] \in RunRow /\ run[q] # NoRun
    BY <1>1, <1>2, Busy DEF Row
<1> DEFINE x == [run[q] EXCEPT !.status = "COMPLETED", !.judged = stored]
<1>4. stored \in Seq(Nat)
    BY <1>2, <1>3 DEF RunRow
<1>5. /\ x \in RunRow /\ x.status = "COMPLETED" /\ x.judged = stored
      /\ x.attempt = run[q].attempt /\ x.anchor = run[q].anchor
      /\ x.version = run[q].version /\ x.anchorCard = run[q].anchorCard
      /\ x.selected = run[q].selected /\ x.picked = run[q].picked
    BY <1>3, <1>4 DEF RunRow, Ended
<1>6. run' = [run EXCEPT ![q] = x]
    BY <1>2
<1> HIDE DEF x
<1>7. run'[q] = x
    BY <1>1, <1>6 DEF IInv, Typed
<1>8. RunInv(q)'
  <2>1. RefersToCards(q) /\ AnchorCardKnown(q) /\ PickedCovers(q)
    BY <1>1 DEF IInv, RunInv
  <2>2. UNCHANGED CardId
    BY <1>2 DEF CardId
  <2>3. RefersToCards(q)'
    <3>1. x.judged = run[q].picked
      BY <1>2, <1>5
    <3> QED
      BY <1>3, <1>5, <1>7, <2>1, <2>2, <3>1 DEF RefersToCards
  <2>4. AnchorCardKnown(q)'
    BY <1>2, <1>5, <1>7, <2>1, <2>2 DEF AnchorCardKnown, Stages
  <2>5. PickedCovers(q)'
    BY <1>2, <1>5, <1>7, <2>1 DEF PickedCovers
  <2>6. JudgedAsPicked(q)'
    BY <1>2, <1>5, <1>7 DEF JudgedAsPicked
  <2> QED
    BY <2>3, <2>4, <2>5, <2>6 DEF RunInv
<1> QED
    BY <1>1, <1>2, <1>5, <1>6, <1>8, SameCards, WritesRow

-----------------------------------------------------------------------------
(* The theorems. *)

\* Every step of a worker keeps the invariant.
LEMMA StepIInv ==
    ASSUME IInv, NEW w \in Worker, Step(w)
    PROVE  IInv'
<1>1. CASE PrepareAnchor(w) BY <1>1, PrepareAnchorStep
<1>2. CASE Generate(w) BY <1>2, GenerateStep
<1>3. CASE VerifyAnchor(w) \/ StoreAnchor(w)
    BY <1>3, VerifyAnchorStep, StoreAnchorStep
<1>4. CASE SelectCandidates(w) BY <1>4, SelectCandidatesStep
<1>5. CASE PlanCards(w) BY <1>5, PlanCardsStep
<1>6. CASE PrepareCandidate(w) BY <1>6, PrepareCandidateStep
<1>7. CASE AllPrepared(w) BY <1>7, AllPreparedStep
<1>8. CASE VerifyCandidate(w) \/ StoreCandidate(w)
    BY <1>8, VerifyCandidateStep, StoreCandidateStep
<1>10. CASE RecordCards(w) BY <1>10, RecordCardsStep
<1>11. CASE PrepareJudgment(w) BY <1>11, PrepareJudgmentStep
<1>12. CASE VerifyJudgment(w) \/ StoreJudgment(w)
    BY <1>12, VerifyJudgmentStep, StoreJudgmentStep
<1>13. CASE Supersede(w) \/ FailForGood(w) BY <1>13, EndsStep
<1>14. CASE GiveUp(w) BY <1>14, GiveUpStep
<1> QED
    BY <1>1, <1>2, <1>3, <1>4, <1>5, <1>6, <1>7, <1>8, <1>10, <1>11,
       <1>12, <1>13, <1>14 DEF Step

\* The invariant holds whatever the ledger, other runs and failures do.
THEOREM Invariance == Spec => []IInv
<1>1. IInv /\ [Next]_vars => IInv'
  <2> SUFFICES ASSUME IInv, [Next]_vars PROVE IInv'
    OBVIOUS
  <2>1. ASSUME NEW t \in Target, EditVersion(t) \/ EditSource(t) PROVE IInv'
    BY <2>1, EditStep
  <2>2. ASSUME NEW r \in Run, NEW t \in Target, File(r, t) PROVE IInv'
    BY <2>2, FileStep
  <2>3. ASSUME NEW c \in CardId, Invalidate(c) PROVE IInv'
    BY <2>3, InvalidateStep
  <2>4. ASSUME NEW r \in Run, ExhaustAttempts(r) PROVE IInv'
    BY <2>4, ExhaustStep
  <2>5. ASSUME NEW w \in Worker, NEW r \in Run, Claim(w, r) PROVE IInv'
    BY <2>5, ClaimStep
  <2>6. ASSUME NEW w \in Worker, Step(w) PROVE IInv'
    BY <2>6, StepIInv
  <2>7. ASSUME NEW w \in Worker, RaiseFailure(w) \/ StoreFails(w) PROVE IInv'
    BY <2>7, FailureStep
  <2>8. CASE UNCHANGED vars
    BY <2>8, SameCards, WorldStep DEF vars, IInv, Typed
  <2> QED
    BY <2>1, <2>2, <2>3, <2>4, <2>5, <2>6, <2>7, <2>8 DEF Next, Quiet
<1> QED
    BY <1>1, InitIInv, PTL DEF Spec

\* Every variable keeps its type.
THEOREM TypeCorrect == Spec => []TypeOK
<1>1. IInv => TypeOK
  <2> SUFFICES ASSUME IInv PROVE TypeOK
    OBVIOUS
  <2>1. ASSUME NEW r \in Run, run[r] # NoRun
        PROVE  /\ run[r].status \in
                    Active \cup {"COMPLETED", "SUPERSEDED", "FAILED_TERMINAL"}
               /\ run[r].anchor \in Target
               /\ run[r].version \in Nat
               /\ run[r].attempt \in 0..MaxAttempts
               /\ run[r].anchorCard \in CardId \cup {0}
               /\ run[r].selected \in Seq(Opposite(run[r].anchor))
               /\ run[r].picked \in Seq(CardId) /\ run[r].judged \in Seq(CardId)
    <3>1. run[r] \in RunRow
      BY <2>1 DEF IInv, Typed
    <3>2. /\ run[r].selected \in Seq(Target)
          /\ run[r].picked \in Seq(Nat) /\ run[r].judged \in Seq(Nat)
      BY <3>1 DEF RunRow
    <3>3. RefersToCards(r)
      BY DEF IInv, RunInv
    <3>4. run[r].selected \in Seq(Opposite(run[r].anchor))
      BY <2>1, <3>2, <3>3, SeqOf DEF RefersToCards
    <3>5. run[r].picked \in Seq(CardId) /\ run[r].judged \in Seq(CardId)
      BY <2>1, <3>2, <3>3, SeqOf DEF RefersToCards
    <3> QED
      BY <2>1, <3>1, <3>3, <3>4, <3>5 DEF RunRow, Ended, RefersToCards
  <2>2. \A w \in Worker :
          job[w].at \in {"idle", "step", "prepare", "generate", "store",
                         "keep anchor", "keep candidate", "failed", "judge",
                         "conclude"}
    <3> TAKE w \in Worker
    <3>1. job[w] \in JobRow \/ job[w].at = "idle"
      BY DEF IInv, Typed, Idle
    <3> QED
      BY <3>1 DEF JobRow
  <2> QED
    BY <2>1, <2>2 DEF TypeOK, IInv, Typed
<1> QED
    BY <1>1, Invariance, PTL

\* The cache never holds two active cards of one input, whoever writes them.
THEOREM OneCard == Spec => []OneActiveCardPerInput
    BY Invariance, PTL DEF IInv

\* A run is judged over its whole selection and nothing else.
THEOREM Covers == Spec => []JudgmentCoversSelection
<1>1. IInv => JudgmentCoversSelection
  <2> SUFFICES ASSUME IInv, NEW r \in Run
               PROVE  JudgmentCoversSelection!(r)
    BY DEF JudgmentCoversSelection
  <2>1. AnchorCardKnown(r) /\ PickedCovers(r) /\ JudgedAsPicked(r)
    BY DEF IInv, RunInv
  <2>2. run[r].status \in {"CANDIDATE_CARDS_READY", "JUDGING", "COMPLETED"} =>
            run[r].picked \in Seq(Nat)
    BY DEF IInv, Typed, NoRun, RunRow
  <2>3. run[r].status \in {"CANDIDATE_CARDS_READY", "JUDGING", "COMPLETED"} =>
            DOMAIN run[r].picked = 1..Len(run[r].picked)
    BY <2>2
  <2> QED
    BY <2>1, <2>3 DEF AnchorCardKnown, PickedCovers, JudgedAsPicked
<1> QED
    BY <1>1, Invariance, PTL

\* The moves of a row that write neither its anchor's card nor its judgment.
PlainMoves ==
    {<<"ABSENT", "QUEUED">>, <<"QUEUED", "RUNNING">>,
     <<"ANCHOR_READY", "CANDIDATES_READY">>,
     <<"CANDIDATES_READY", "CANDIDATE_CARDS_READY">>,
     <<"CANDIDATE_CARDS_READY", "JUDGING">>}
        \cup (Stages \X {"FAILED_TERMINAL", "SUPERSEDED"})

\* A row stays, makes a plain move, or becomes ANCHOR_READY or COMPLETED when
\* a worker stores its anchor's card or its judgment.
LEMMA StatusMoves ==
    ASSUME IInv, Next, NEW r \in Run
    PROVE  \/ run'[r].status = run[r].status
           \/ <<run[r].status, run'[r].status>> \in PlainMoves
           \/ /\ run[r].status = "RUNNING" /\ run'[r].status = "ANCHOR_READY"
              /\ \E w \in Worker : StoreAnchor(w) /\ job[w].run = r
           \/ /\ run[r].status \in {"CANDIDATE_CARDS_READY", "JUDGING"}
              /\ run'[r].status = "COMPLETED"
              /\ \E w \in Worker : StoreJudgment(w) /\ job[w].run = r
<1> DEFINE Goal ==
           \/ run'[r].status = run[r].status
           \/ <<run[r].status, run'[r].status>> \in PlainMoves
           \/ /\ run[r].status = "RUNNING" /\ run'[r].status = "ANCHOR_READY"
              /\ \E w \in Worker : StoreAnchor(w) /\ job[w].run = r
           \/ /\ run[r].status \in {"CANDIDATE_CARDS_READY", "JUDGING"}
              /\ run'[r].status = "COMPLETED"
              /\ \E w \in Worker : StoreJudgment(w) /\ job[w].run = r
<1>1. run \in [Run -> RunRow \cup {NoRun}]
    BY DEF IInv, Typed
<1>2. \A w \in Worker : job[w].at # "idle" => job[w].run \in Run
    BY Busy
<1>3. ASSUME UNCHANGED run PROVE Goal
    BY <1>3
<1>4. ASSUME NEW q \in Run, NEW x, run' = [run EXCEPT ![q] = x],
             \/ <<run[q].status, x.status>> \in PlainMoves
             \/ x.status = run[q].status
      PROVE  Goal
  <2>1. run'[r] = IF r = q THEN x ELSE run[r]
    BY <1>1, <1>4
  <2> QED
    BY <1>4, <2>1
<1>5. ASSUME NEW t \in Target, EditVersion(t) \/ EditSource(t) PROVE Goal
    BY <1>3, <1>5 DEF EditVersion, EditSource
<1>6. ASSUME NEW c \in CardId, Invalidate(c) PROVE Goal
    BY <1>3, <1>6 DEF Invalidate
<1>7. ASSUME NEW q \in Run, NEW t \in Target, File(q, t) PROVE Goal
  <2>1. run[q].status = "ABSENT" /\ Filed(t).status = "QUEUED"
    BY <1>7 DEF File, NoRun, Filed
  <2>2. <<run[q].status, Filed(t).status>> \in PlainMoves
    BY <2>1 DEF PlainMoves
  <2> QED
    BY <1>4, <1>7, <2>2 DEF File
<1>8. ASSUME NEW q \in Run, NEW s, <<run[q].status, s>> \in PlainMoves,
             run[q] \in RunRow, run' = [run EXCEPT ![q].status = s]
      PROVE  Goal
  <2>1. [run[q] EXCEPT !.status = s].status = s
    BY <1>8 DEF RunRow
  <2> QED
    BY <1>4, <1>8, <2>1
<1>9. ASSUME NEW q \in Run, ExhaustAttempts(q) PROVE Goal
  <2>1. run[q] \in RunRow
    BY <1>1, <1>9 DEF ExhaustAttempts, NoRun, Stages
  <2>2. <<run[q].status, "FAILED_TERMINAL">> \in PlainMoves
    BY <1>9 DEF ExhaustAttempts, PlainMoves
  <2> QED
    BY <1>8, <1>9, <2>1, <2>2 DEF ExhaustAttempts
<1>10. ASSUME NEW q \in Run, NEW w \in Worker, Claim(w, q) PROVE Goal
  <2>1. run[q] \in RunRow
    BY <1>1, <1>10 DEF Claim, Claimable, NoRun, Active, Stages
  <2> DEFINE s == IF run[q].status = "QUEUED" THEN "RUNNING" ELSE run[q].status
             x == [run[q] EXCEPT !.attempt = @ + 1, !.status = s]
  <2>2. x.status = s
    BY <2>1 DEF RunRow
  <2>3. run' = [run EXCEPT ![q] = x]
    BY <1>10 DEF Claim
  <2>4. <<run[q].status, s>> \in PlainMoves \/ s = run[q].status
    BY DEF PlainMoves
  <2> HIDE DEF x, s
  <2> QED
    BY <1>4, <2>2, <2>3, <2>4
<1>11. ASSUME NEW w \in Worker, Step(w) PROVE Goal
  <2>1. CASE StoreAnchor(w) \/ StoreJudgment(w)
    <3>1. PICK q \in Run : q = job[w].run /\ run[q] \in RunRow
      BY <2>1, Busy DEF StoreAnchor, StoreJudgment, Row
    <3>2. CASE r = q /\ StoreAnchor(w)
      <4>1. run[r].status = "RUNNING"
        BY <3>1, <3>2 DEF StoreAnchor, Fenced, Row
      <4>2. PICK id \in NewCardId :
              run' = [run EXCEPT ![q].status = "ANCHOR_READY", ![q].anchorCard = id]
        BY <3>1, <3>2 DEF StoreAnchor
      <4>3. run'[r].status = "ANCHOR_READY"
        BY <3>1, <3>2, <4>2, <1>1 DEF RunRow
      <4> QED
        BY <3>1, <3>2, <4>1, <4>3
    <3>3. CASE r = q /\ StoreJudgment(w)
      <4>1. run[r].status = JudgedStage(w) /\ run'[r].status = "COMPLETED"
        BY <3>1, <3>3, <1>1 DEF StoreJudgment, RunRow, Fenced, Row
      <4>2. JudgedStage(w) \in {"CANDIDATE_CARDS_READY", "JUDGING"}
        BY DEF JudgedStage
      <4> QED
        BY <3>1, <3>3, <4>1, <4>2
    <3>4. CASE r # q
      <4>1. run'[r] = run[r]
        BY <1>1, <2>1, <3>1, <3>4 DEF StoreAnchor, StoreJudgment
      <4> QED
        BY <4>1
    <3> QED
      BY <2>1, <3>2, <3>3, <3>4
  <2>2. CASE \/ PrepareAnchor(w) \/ Generate(w) \/ PlanCards(w)
             \/ PrepareCandidate(w) \/ AllPrepared(w) \/ StoreCandidate(w)
             \/ GiveUp(w)
             \/ VerifyAnchor(w) \/ VerifyCandidate(w) \/ VerifyJudgment(w)
    BY <1>3, <2>2 DEF PrepareAnchor, Generate, PlanCards, PrepareCandidate,
                      AllPrepared, StoreCandidate, GiveUp,
                      VerifyAnchor, VerifyCandidate, VerifyJudgment
  <2>3. CASE Supersede(w) \/ FailForGood(w)
    <3>1. PICK q \in Run : q = job[w].run /\ run[q] \in RunRow
      BY <2>3, Busy DEF Supersede, FailForGood, Row
    <3>2. /\ <<run[q].status, "FAILED_TERMINAL">> \in PlainMoves
          /\ <<run[q].status, "SUPERSEDED">> \in PlainMoves
      BY <2>3, <3>1 DEF Supersede, FailForGood, Fenced, Row, PlainMoves
    <3> QED
      BY <1>8, <2>3, <3>1, <3>2 DEF Supersede, FailForGood
  <2>4. CASE SelectCandidates(w)
    <3>1. PICK q \in Run : q = job[w].run /\ run[q] \in RunRow
      BY <2>4, Busy DEF SelectCandidates, Row
    <3>2. PICK s : run' = [run EXCEPT ![q].status = "CANDIDATES_READY",
                                      ![q].selected = s]
      BY <2>4, <3>1 DEF SelectCandidates
    <3> DEFINE x == [run[q] EXCEPT !.status = "CANDIDATES_READY", !.selected = s]
    <3>3. x.status = "CANDIDATES_READY" /\ run[q].status = "ANCHOR_READY"
      BY <2>4, <3>1 DEF RunRow, SelectCandidates, Fenced, Row
    <3>4. run' = [run EXCEPT ![q] = x]
      BY <3>2
    <3> HIDE DEF x
    <3>5. <<run[q].status, x.status>> \in PlainMoves
      BY <3>3 DEF PlainMoves
    <3> QED
      BY <1>4, <3>4, <3>5
  <2>5. CASE RecordCards(w)
    <3>1. PICK q \in Run : q = job[w].run /\ run[q] \in RunRow
      BY <2>5, Busy DEF RecordCards, Row
    <3>2. PICK s : run' = [run EXCEPT ![q].status = "CANDIDATE_CARDS_READY",
                                      ![q].picked = s]
      BY <2>5, <3>1 DEF RecordCards
    <3> DEFINE x == [run[q] EXCEPT !.status = "CANDIDATE_CARDS_READY", !.picked = s]
    <3>3. x.status = "CANDIDATE_CARDS_READY" /\ run[q].status = "CANDIDATES_READY"
      BY <2>5, <3>1 DEF RunRow, RecordCards, Fenced, Row
    <3>4. run' = [run EXCEPT ![q] = x]
      BY <3>2
    <3> HIDE DEF x
    <3>5. <<run[q].status, x.status>> \in PlainMoves
      BY <3>3 DEF PlainMoves
    <3> QED
      BY <1>4, <3>4, <3>5
  <2>6. CASE PrepareJudgment(w)
    <3>1. PICK q \in Run : q = job[w].run /\ run[q] \in RunRow
      BY <2>6, Busy DEF PrepareJudgment, Row
    <3>2. /\ UNCHANGED run \/ run' = [run EXCEPT ![q].status = "JUDGING"]
          /\ run[q].status \in {"CANDIDATE_CARDS_READY", "JUDGING"}
      BY <2>6, <3>1 DEF PrepareJudgment, Fenced, Row
    <3>3. CASE UNCHANGED run
      BY <1>3, <3>3
    <3>4. CASE run' = [run EXCEPT ![q].status = "JUDGING"]
      <4>1. CASE run[q].status = "CANDIDATE_CARDS_READY"
        <5>1. <<run[q].status, "JUDGING">> \in PlainMoves
          BY <4>1 DEF PlainMoves
        <5> QED
          BY <1>8, <3>1, <3>4, <5>1
      <4>2. CASE run[q].status = "JUDGING"
        <5> DEFINE x == [run[q] EXCEPT !.status = "JUDGING"]
        <5>1. x.status = run[q].status
          BY <3>1, <4>2 DEF RunRow
        <5>2. run' = [run EXCEPT ![q] = x]
          BY <3>4
        <5> HIDE DEF x
        <5> QED
          BY <1>4, <5>1, <5>2
      <4> QED
        BY <3>2, <4>1, <4>2
    <3> QED
      BY <3>2, <3>3, <3>4
  <2> QED
    BY <1>11, <2>1, <2>2, <2>3, <2>4, <2>5, <2>6 DEF Step
<1>12. ASSUME NEW w \in Worker, RaiseFailure(w) \/ StoreFails(w) PROVE Goal
    BY <1>3, <1>12 DEF RaiseFailure, StoreFails, Fails
<1> QED
    BY <1>5, <1>6, <1>7, <1>9, <1>10, <1>11, <1>12 DEF Next, Quiet

\* A run gets its anchor card only for the anchor as the storing transaction
\* read it after the model call.
THEOREM AnchorCurrentThen == Spec => AnchorCardIsCurrent
<1> DEFINE Current(r) ==
           /\ cards'[run'[r].anchorCard].active
           /\ \E w \in Worker :
                /\ Verifies(w, r, "keep anchor")
                /\ cards'[run'[r].anchorCard].input =
                       job[w].seen.ledger[run[r].anchor]
           A == \A r \in Run :
                  run[r].status = "RUNNING" /\ run'[r].status = "ANCHOR_READY"
                      => Current(r)
<1>1. IInv /\ [Next]_vars => A
  <2> SUFFICES ASSUME IInv, [Next]_vars, NEW r \in Run,
                      run[r].status = "RUNNING", run'[r].status = "ANCHOR_READY"
               PROVE  Current(r)
    OBVIOUS
  <2>1. Next
    BY DEF vars
  <2>2. PICK w \in Worker : StoreAnchor(w) /\ job[w].run = r
    BY <2>1, StatusMoves DEF PlainMoves, Stages
  <2>3. PICK id \in NewCardId :
          /\ StoresCard(job[w].prepared[1], id)
          /\ run' = [run EXCEPT ![r].status = "ANCHOR_READY",
                                ![r].anchorCard = id]
    BY <2>2 DEF StoreAnchor
  <2>4. PICK p : p = job[w].prepared[1]
    OBVIOUS
  <2>5. /\ job[w].at = "keep anchor" /\ Holds(w) /\ Row(w) = run[r]
        /\ Verifies(w, r, "keep anchor")
    BY <2>2 DEF StoreAnchor, Fenced, Holds, Row, Verifies
  <2>6. job[w] \in JobRow /\ job[w] # Idle /\ run[r] \in RunRow
    BY <2>5, Busy
  <2>7. p \in PreparedCard /\ p.target = run[r].anchor
    <3>1. HolderKnows(w) /\ job[w].prepared \in Seq(PreparedCard)
      BY <2>6 DEF IInv, JobInv, JobRow
    <3>2. Len(job[w].prepared) = 1 /\ job[w].prepared[1].target = run[r].anchor
      BY <2>5, <2>6, <3>1 DEF HolderKnows, Stores
    <3> QED
      BY <2>4, <3>1, <3>2
  <2>8. cards'[id].input = p.input /\ cards'[id].active
    BY <2>3, <2>4, <2>7, StoresCardStep DEF IInv, IsCard
  <2>9. run'[r].anchorCard = id
    BY <2>3, <2>6 DEF IInv, Typed, RunRow
  <2>10. job[w].seen.ledger[run[r].anchor] = p.input
    BY <2>4, <2>5, <2>7 DEF IInv, JobInv, SeenRight, AnchorSeen
  <2> QED
    BY <2>5, <2>8, <2>9, <2>10
<1> QED
    BY <1>1, Invariance, PTL DEF Spec, AnchorCardIsCurrent

\* A judgment is stored only over cards that stood together after the model
\* had answered.
THEOREM TogetherThen == Spec => JudgedTogether
<1> DEFINE Together(r) ==
           \E w \in Worker :
                /\ Verifies(w, r, "conclude")
                /\ LET seen == job[w].seen IN
                   \A c \in CardsOf(r) :
                      /\ seen.cards[c].active
                      /\ seen.ledger[cards[c].target].version =
                             cards[c].input.version
           A == \A r \in Run :
                  run[r].status = "JUDGING" /\ run'[r].status = "COMPLETED"
                      => Together(r)
<1>1. IInv /\ [Next]_vars => A
  <2> SUFFICES ASSUME IInv, [Next]_vars, NEW r \in Run,
                      run[r].status = "JUDGING", run'[r].status = "COMPLETED"
               PROVE  Together(r)
    OBVIOUS
  <2>1. Next
    BY DEF vars
  <2>2. PICK w \in Worker : StoreJudgment(w) /\ job[w].run = r
    BY <2>1, StatusMoves DEF PlainMoves, Stages
  <2>3. /\ job[w].at = "conclude" /\ Holds(w) /\ Verifies(w, r, "conclude")
        /\ Row(w).status = JudgedStage(w) /\ JudgedStage(w) = "JUDGING"
    BY <2>2 DEF StoreJudgment, Fenced, Row, Holds, Verifies
  <2>4. job[w].stored # <<>>
    BY <2>3 DEF JudgedStage
  <2>5. SeenTogether(w)
    BY <2>3, <2>4 DEF IInv, JobInv, SeenRight, JudgmentSeen
  <2> QED
    BY <2>2, <2>3, <2>5 DEF SeenTogether
<1> QED
    BY <1>1, Invariance, PTL DEF Spec, JudgedTogether

\* The data of a run follow the line of its statuses: retries, races for a card
\* and changed inputs never take a run back, and an ending is final.
THEOREM CardsLifecycle == Spec => CardsFollowLifecycle
<1>1. Init => Lifecycle!Init
  <2> SUFFICES ASSUME Init PROVE Lifecycle!Init
      OBVIOUS
  <2>1. \A r \in Run : /\ run[r].status = "ABSENT"
                      /\ (run[r].status # "ABSENT") = FALSE
    BY DEF Init, NoRun
  <2> QED
    BY <2>1, Zenon DEF Lifecycle!Init
<1>2. ASSUME IInv, IInv', [Next]_vars
      PROVE  [Lifecycle!Next]_(Lifecycle!vars)
  <2>1. CASE UNCHANGED vars
    BY <2>1 DEF vars, Lifecycle!vars
  <2>2. CASE Next
    <3> DEFINE stage == [r \in Run |-> run[r].status]
               wanted == [r \in Run |-> run[r].status # "ABSENT"]
    <3>1. stage' \in [Run -> Lifecycle!Stage]
      BY <1>2 DEF IInv, Typed, RunRow, NoRun, Active, Stages, Ended,
                  Lifecycle!Stage, Lifecycle!Begun, Lifecycle!Terminal
    <3>2. wanted' \in [Run -> BOOLEAN]
      OBVIOUS
    <3>3. ASSUME NEW r \in Run
          PROVE  \/ Lifecycle!File(r) \/ Lifecycle!Want(r) \/ Lifecycle!Advance(r)
                 \/ Lifecycle!EndEarly(r) \/ Lifecycle!Stays(r)
      <4> DEFINE s == run[r].status
                 t == run'[r].status
      <4>1. CASE s = t
        BY <4>1 DEF Lifecycle!Stays
      <4>2. CASE <<s, t>> = <<"ABSENT", "QUEUED">>
        BY <4>2 DEF Lifecycle!File
      <4>3. CASE <<s, t>> \in Stages \X {"FAILED_TERMINAL", "SUPERSEDED"}
        BY <4>3 DEF Stages, Lifecycle!EndEarly, Lifecycle!Begun, Lifecycle!Rests
      <4>4. CASE <<s, t>> \in Lifecycle!Unasked \cup Lifecycle!OnRequest
        BY <4>4 DEF Lifecycle!Advance, Lifecycle!Unasked, Lifecycle!OnRequest
      <4>5. \/ s = t \/ <<s, t>> = <<"ABSENT", "QUEUED">>
            \/ <<s, t>> \in Stages \X {"FAILED_TERMINAL", "SUPERSEDED"}
            \/ <<s, t>> \in Lifecycle!Unasked \cup Lifecycle!OnRequest
        BY <1>2, <2>2, StatusMoves
           DEF PlainMoves, Lifecycle!Unasked, Lifecycle!OnRequest
      <4> QED
        BY <4>1, <4>2, <4>3, <4>4, <4>5
    <3> QED
      BY <3>1, <3>2, <3>3 DEF Lifecycle!Next
  <2> QED
    BY <1>2, <2>1, <2>2
<1>3. IInv /\ IInv' /\ [Next]_vars => [Lifecycle!Next]_(Lifecycle!vars)
    BY <1>2
<1> QED
    BY <1>1, <1>3, Invariance, PTL DEF Spec, CardsFollowLifecycle, Lifecycle!Spec

-----------------------------------------------------------------------------
(* What the failed attempts of a run have kept.  A second invariant, over  *)
(* the first: a card once written stays, and an input without an active    *)
(* card has none but invalidated ones.                                     *)

\* The key of a prepared card in kept.
Asked(p) == <<p.target, p.input>>

HasCard(k) == \E c \in CardId : IsCard(c, k[1], k[2])

HasDeadCard(k) == \E c \in CardId : IsCard(c, k[1], k[2]) /\ ~cards[c].active

\* A prepared card that was no hit, of an input answered before, was there and
\* has been invalidated.
MissExplained(r, p) == p.hit = 0 /\ Asked(p) \in kept[r] => HasDeadCard(Asked(p))

MissesExplained(w) ==
    job[w] # Idle /\ job[w].at # "failed" /\ Holds(w) =>
        \A i \in 1..Len(job[w].prepared) :
            MissExplained(job[w].run, job[w].prepared[i])

KInv ==
    /\ kept \in [Run -> SUBSET (Target \X Input)]
    /\ \A r \in Run : \A k \in kept[r] : HasCard(k)
    /\ \A w \in Worker : MissesExplained(w)

\* No card is taken away, changes what it is of, or becomes active again.
CardsOnlyDie ==
    CardsKept /\ \A c \in CardId : ~cards[c].active => ~cards'[c].active

\* What has a card, or a card that died, keeps it.
LEMMA KeysStay ==
    ASSUME Typed, Typed', CardsOnlyDie
    PROVE  \A k : (HasCard(k) => HasCard(k)') /\ (HasDeadCard(k) => HasDeadCard(k)')
<1>1. /\ CardId \subseteq CardId'
      /\ \A c, t, input : IsCard(c, t, input) => IsCard(c, t, input)'
    BY CardStays DEF Typed, CardsOnlyDie
<1> QED
    BY <1>1 DEF HasCard, HasDeadCard, CardsOnlyDie, IsCard

\* Storing a card adds one at most.
LEMMA StoresCardKeeps ==
    ASSUME IInv, NEW p \in PreparedCard, NEW id \in NewCardId, StoresCard(p, id)
    PROVE  CardsOnlyDie
<1>1. CardsKept
    BY StoresCardStep DEF IInv
<1>2. CASE UNCHANGED cards
    BY <1>1, <1>2 DEF CardsOnlyDie
<1>3. CASE cards' = Append(cards, [target |-> p.target, input |-> p.input,
                                   active |-> TRUE])
  <2>1. \A c \in CardId : cards'[c] = cards[c]
    BY <1>3 DEF IInv, Typed, CardId
  <2> QED
    BY <1>1, <2>1 DEF CardsOnlyDie
<1> QED
    BY <1>2, <1>3 DEF StoresCard

\* No step brings a card back.
LEMMA NextKeepsCards ==
    ASSUME IInv, Next
    PROVE  CardsOnlyDie
<1>1. ASSUME UNCHANGED cards PROVE CardsOnlyDie
    BY <1>1, SameCards DEF CardsOnlyDie, IInv
<1>2. ASSUME NEW c \in CardId, Invalidate(c) PROVE CardsOnlyDie
  <2>1. cards' = [cards EXCEPT ![c].active = FALSE] /\ cards \in Seq(Card)
    BY <1>2 DEF Invalidate, IInv, Typed
  <2> DEFINE dead == [cards[c] EXCEPT !.active = FALSE]
  <2>2. cards[c] \in Card
    BY <2>1 DEF CardId
  <2>3. dead.target = cards[c].target /\ dead.input = cards[c].input /\ ~dead.active
    BY <2>2 DEF Card
  <2>4. cards' = [cards EXCEPT ![c] = dead]
    BY <2>1
  <2> HIDE DEF dead
  <2>5. /\ Len(cards') = Len(cards) /\ Len(cards) \in Nat
        /\ \A d \in CardId : cards'[d] = IF d = c THEN dead ELSE cards[d]
    <3>1. cards \in [1..Len(cards) -> Card] /\ Len(cards) \in Nat
      BY <2>1
    <3>2. cards' = [d \in 1..Len(cards) |-> IF d = c THEN dead ELSE cards[d]]
      BY <2>4, <3>1
    <3>3. Len(cards') = Len(cards)
      BY <3>1, <3>2
    <3> QED
      BY <3>1, <3>2, <3>3 DEF CardId
  <2>6. \A d \in CardId :
          /\ cards'[d].target = cards[d].target /\ cards'[d].input = cards[d].input
          /\ ~cards[d].active => ~cards'[d].active
    BY <2>3, <2>5
  <2>7. Len(cards) <= Len(cards')
    BY <2>5
  <2> QED
    BY <2>6, <2>7 DEF CardsOnlyDie, CardsKept
<1>3. ASSUME NEW w \in Worker, Step(w) PROVE CardsOnlyDie
  <2>1. CASE StoreAnchor(w)
    <3>1. PICK id \in NewCardId : StoresCard(job[w].prepared[1], id)
      BY <2>1 DEF StoreAnchor
    <3>2. job[w] \in JobRow /\ job[w] # Idle
      BY <2>1, Busy DEF StoreAnchor
    <3>3. job[w].prepared[1] \in PreparedCard
      <4>1. HolderKnows(w) /\ job[w].at = "keep anchor" /\ Holds(w)
            /\ Row(w).status = "RUNNING"
        BY <2>1 DEF IInv, JobInv, StoreAnchor, Fenced, Holds
      <4>2. Len(job[w].prepared) = 1
        BY <3>2, <4>1 DEF HolderKnows, Stores
      <4>3. job[w].prepared \in Seq(PreparedCard)
        BY <3>2 DEF JobRow
      <4> QED
        BY <4>2, <4>3
    <3> QED
      BY <3>1, <3>3, StoresCardKeeps
  <2>2. CASE StoreCandidate(w)
    <3>1. PICK i \in ToStore(w), id \in NewCardId : StoresCard(job[w].prepared[i], id)
      BY <2>2 DEF StoreCandidate
    <3>2. job[w] \in JobRow /\ job[w].at = "keep candidate"
      BY <2>2, Busy DEF StoreCandidate
    <3>3. job[w].prepared[i] \in PreparedCard
      <4>1. Len(job[w].stored) = Len(job[w].prepared)
        BY <3>2 DEF IInv, JobInv, StoredAsPrepared, Stores
      <4>2. job[w].stored \in Seq(Nat) /\ job[w].prepared \in Seq(PreparedCard)
        BY <3>2 DEF JobRow
      <4>3. i \in 1..Len(job[w].prepared)
        BY <4>1, <4>2 DEF ToStore
      <4> QED
        BY <4>2, <4>3
    <3> QED
      BY <3>1, <3>3, StoresCardKeeps
  <2>3. CASE ~StoreAnchor(w) /\ ~StoreCandidate(w)
    <3>1. UNCHANGED cards
      BY <1>3, <2>3
         DEF Step, PrepareAnchor, Generate, VerifyAnchor, SelectCandidates,
             PlanCards, PrepareCandidate, AllPrepared, VerifyCandidate,
             RecordCards, PrepareJudgment, VerifyJudgment, StoreJudgment,
             Supersede, FailForGood, GiveUp
    <3> QED
      BY <1>1, <3>1
  <2> QED
    BY <2>1, <2>2, <2>3
<1>4. CASE \E w \in Worker : RaiseFailure(w) \/ StoreFails(w)
    BY <1>1, <1>4 DEF RaiseFailure, StoreFails, Fails
<1>5. CASE \E t \in Target :
              EditVersion(t) \/ EditSource(t) \/ \E r \in Run : File(r, t)
    BY <1>1, <1>5 DEF EditVersion, EditSource, File
<1>6. CASE \E r \in Run : ExhaustAttempts(r) \/ \E w \in Worker : Claim(w, r)
    BY <1>1, <1>6 DEF ExhaustAttempts, Claim
<1> QED
    BY <1>2, <1>3, <1>4, <1>5, <1>6 DEF Next, Quiet

\* The number of a run that is there never goes back.
LEMMA AttemptsGrow ==
    ASSUME IInv, Next, NEW r \in Run, run[r] # NoRun
    PROVE  run[r].attempt \in Nat /\ run'[r].attempt \in Nat
           /\ run[r].attempt <= run'[r].attempt
<1>1. run \in [Run -> RunRow \cup {NoRun}] /\ run[r] \in RunRow
    BY DEF IInv, Typed
<1>2. run[r].attempt \in Nat
    BY <1>1, CardConstants DEF RunRow
<1>3. \/ run'[r].attempt = run[r].attempt
      \/ run'[r].attempt = run[r].attempt + 1
  <2>1. ASSUME NEW q, NEW x, run' = [run EXCEPT ![q] = x],
               q = r => x.attempt = run[r].attempt
        PROVE  run'[r].attempt = run[r].attempt
    BY <1>1, <2>1
  <2>2. ASSUME NEW q, NEW s, run' = [run EXCEPT ![q].status = s]
        PROVE  run'[r].attempt = run[r].attempt
    BY <1>1, <2>2 DEF RunRow
  <2>3. ASSUME NEW t \in Target, NEW q \in Run, File(q, t)
        PROVE  run'[r].attempt = run[r].attempt
    BY <1>1, <2>3 DEF File
  <2>4. ASSUME NEW q \in Run, NEW w \in Worker, Claim(w, q)
        PROVE  \/ run'[r].attempt = run[r].attempt
               \/ run'[r].attempt = run[r].attempt + 1
    BY <1>1, <2>4 DEF Claim, RunRow
  <2>5. ASSUME NEW w \in Worker, Step(w)
        PROVE  run'[r].attempt = run[r].attempt
    <3>1. CASE UNCHANGED run
      BY <3>1
    <3>2. CASE StoreAnchor(w)
      <4>1. PICK q, id :
              run' = [run EXCEPT ![q].status = "ANCHOR_READY", ![q].anchorCard = id]
        BY <3>2 DEF StoreAnchor
      <4> QED
        BY <1>1, <4>1 DEF RunRow
    <3>3. CASE SelectCandidates(w)
      <4>1. PICK q, s :
              run' = [run EXCEPT ![q].status = "CANDIDATES_READY", ![q].selected = s]
        BY <3>3 DEF SelectCandidates
      <4> QED
        BY <1>1, <4>1 DEF RunRow
    <3>4. CASE RecordCards(w)
      <4>1. PICK q, s :
              run' = [run EXCEPT ![q].status = "CANDIDATE_CARDS_READY",
                                 ![q].picked = s]
        BY <3>4 DEF RecordCards
      <4> QED
        BY <1>1, <4>1 DEF RunRow
    <3>5. CASE StoreJudgment(w)
      <4>1. PICK q, s :
              run' = [run EXCEPT ![q].status = "COMPLETED", ![q].judged = s]
        BY <3>5 DEF StoreJudgment
      <4> QED
        BY <1>1, <4>1 DEF RunRow
    <3>6. CASE PrepareJudgment(w) \/ Supersede(w) \/ FailForGood(w)
      <4>1. UNCHANGED run \/ \E q, s : run' = [run EXCEPT ![q].status = s]
        BY <3>6 DEF PrepareJudgment, Supersede, FailForGood
      <4> QED
        BY <2>2, <3>1, <4>1
    <3> QED
      BY <2>5, <3>1, <3>2, <3>3, <3>4, <3>5, <3>6
         DEF Step, PrepareAnchor, Generate, VerifyAnchor, PlanCards,
             PrepareCandidate, AllPrepared, VerifyCandidate, StoreCandidate,
             VerifyJudgment, GiveUp
  <2>6. ASSUME NEW q \in Run, ExhaustAttempts(q)
        PROVE  run'[r].attempt = run[r].attempt
    BY <2>2, <2>6 DEF ExhaustAttempts
  <2>7. CASE UNCHANGED run
    BY <2>7
  <2> QED
    BY <2>3, <2>4, <2>5, <2>6, <2>7
       DEF Next, Quiet, EditVersion, EditSource, Invalidate, RaiseFailure,
           StoreFails, Fails
<1> QED
    BY <1>2, <1>3

\* A job that keeps its claim and what it has prepared knows it still, if nothing
\* new has been kept for its run.
LEMMA MissesStay ==
    ASSUME IInv, IInv', KInv, Next, NEW w \in Worker,
           job'[w] # Idle, job[w] # Idle,
           job'[w].run = job[w].run, job'[w].attempt = job[w].attempt,
           job'[w].prepared = job[w].prepared,
           job[w].at = "failed" => job'[w].at = "failed",
           Holds(w)' => kept'[job[w].run] = kept[job[w].run]
    PROVE  MissesExplained(w)'
<1>1. job[w] \in JobRow /\ job[w].run \in Run /\ Row(w) # NoRun
      /\ job[w].attempt <= Row(w).attempt
    BY DEF IInv, Typed, JobInv, ClaimOfARun, JobRow
<1>2. SUFFICES ASSUME job'[w].at # "failed", Holds(w)',
                      NEW i \in 1..Len(job[w].prepared)
               PROVE  MissExplained(job[w].run, job[w].prepared[i])'
    BY DEF MissesExplained
<1>3. Holds(w)
  <2>1. /\ Row(w).attempt \in Nat /\ run'[job[w].run].attempt \in Nat
        /\ Row(w).attempt <= run'[job[w].run].attempt
    BY <1>1, AttemptsGrow DEF Row
  <2>2. run'[job[w].run].attempt = job[w].attempt /\ job[w].attempt \in Nat
    BY <1>1, <1>2 DEF Holds, Row, JobRow
  <2>3. Row(w).attempt = job[w].attempt
    BY <1>1, <2>1, <2>2
  <2> QED
    BY <2>3 DEF Holds
<1>4. MissExplained(job[w].run, job[w].prepared[i])
    BY <1>2, <1>3 DEF KInv, MissesExplained
<1>5. \A k : HasDeadCard(k) => HasDeadCard(k)'
    BY KeysStay, NextKeepsCards DEF IInv
<1> QED
    BY <1>2, <1>4, <1>5 DEF MissExplained, Asked

\* What is prepared now is no hit only if no active card is of it.
LEMMA PreparedExplained ==
    ASSUME IInv, KInv, NEW r \in Run, NEW t \in Target
    PROVE  MissExplained(r, Prepared(t))
<1> DEFINE input == ledger[t]
<1>1. input \in Input
    BY DEF IInv, Typed
<1>2. PICK p : p = Prepared(t)
    OBVIOUS
<1>3. p.target = t /\ p.input = input /\ p.hit = ActiveCard(t, input)
    BY <1>2 DEF Prepared
<1> HIDE DEF input
<1>4. SUFFICES ASSUME p.hit = 0, <<t, input>> \in kept[r]
               PROVE  HasDeadCard(<<t, input>>)
    BY <1>2, <1>3 DEF MissExplained, Asked
<1>5. PICK c \in CardId : IsCard(c, t, input)
    BY <1>4 DEF KInv, HasCard
<1>6. ActiveCards(t, input) = {}
    BY <1>1, <1>3, <1>4, ActiveCardFound DEF IInv
<1>7. ~cards[c].active
    BY <1>5, <1>6 DEF ActiveCards, IsCard
<1> QED
    BY <1>5, <1>7 DEF HasDeadCard

\* A worker without work, or at the beginning of a stage, has prepared nothing.
LEMMA NothingPrepared ==
    ASSUME NEW w \in Worker, job'[w] = Idle \/ job'[w].prepared = <<>>
    PROVE  MissesExplained(w)'
    BY DEF MissesExplained

\* The steps of a worker, by what they make of what it has prepared.
LEMMA PreparedMoves ==
    ASSUME IInv, NEW w \in Worker, Step(w)
    PROVE  /\ \A v \in Worker : v # w => job'[v] = job[v]
           /\ job[w] # Idle
           /\ \/ job'[w] = Idle
              \/ job'[w].prepared = <<>>
              \/ PrepareAnchor(w) \/ PrepareCandidate(w)
              \/ /\ job'[w] # Idle
                 /\ job'[w].run = job[w].run /\ job'[w].attempt = job[w].attempt
                 /\ job'[w].prepared = job[w].prepared
                 /\ job[w].at # "failed"
<1> DEFINE Others == \A v \in Worker : v # w => job'[v] = job[v]
           Keeps == /\ job'[w] # Idle
                    /\ job'[w].run = job[w].run /\ job'[w].attempt = job[w].attempt
                    /\ job'[w].prepared = job[w].prepared
                    /\ job[w].at # "failed"
<1>1. job[w].at # "idle" /\ job \in [Worker -> JobRow \cup {Idle}]
    BY DEF IInv, Typed, Step, PrepareAnchor, Generate, VerifyAnchor, StoreAnchor,
           SelectCandidates, PlanCards, PrepareCandidate, AllPrepared,
           VerifyCandidate, StoreCandidate, RecordCards, PrepareJudgment,
           VerifyJudgment, StoreJudgment, Supersede, FailForGood, GiveUp
<1>2. job[w] \in JobRow /\ job[w] # Idle
    BY <1>1, Busy
<1>3. CASE PrepareAnchor(w) \/ PrepareCandidate(w)
    BY <1>1, <1>2, <1>3 DEF PrepareAnchor, PrepareCandidate
<1>4. CASE StoreJudgment(w) \/ Supersede(w) \/ FailForGood(w) \/ GiveUp(w)
  <2>1. job' = [job EXCEPT ![w] = Idle]
    BY <1>4 DEF StoreJudgment, Supersede, FailForGood, GiveUp
  <2> QED
    BY <1>1, <1>2, <2>1
<1>5. CASE StoreAnchor(w) \/ RecordCards(w)
  <2>1. job' = [job EXCEPT ![w] = Job(@.run, @.attempt, "step")]
    BY <1>5 DEF StoreAnchor, RecordCards
  <2>2. job'[w].prepared = <<>>
    BY <1>1, <2>1 DEF Job
  <2> QED
    BY <1>1, <1>2, <2>1, <2>2
<1>6. ASSUME NEW j, job' = [job EXCEPT ![w] = j], j.at # "idle",
             j.run = job[w].run, j.attempt = job[w].attempt,
             j.prepared = job[w].prepared, job[w].at # "failed"
      PROVE  Others /\ Keeps
    BY <1>1, <1>6 DEF Idle
<1>7. CASE Generate(w)
  <2>1. PICK produced :
          job' = [job EXCEPT ![w].at = "store", ![w].produced = produced,
                             ![w].stored = [i \in DOMAIN job[w].prepared |-> 0]]
    BY <1>7 DEF Generate
  <2> DEFINE j == [job[w] EXCEPT !.at = "store", !.produced = produced,
                                 !.stored = [i \in DOMAIN job[w].prepared |-> 0]]
  <2>2. /\ j.at = "store" /\ j.run = job[w].run /\ j.attempt = job[w].attempt
        /\ j.prepared = job[w].prepared
    BY <1>2 DEF JobRow
  <2>3. job' = [job EXCEPT ![w] = j] /\ job[w].at = "generate"
    BY <1>7, <2>1 DEF Generate
  <2> HIDE DEF j
  <2> QED
    BY <1>2, <1>6, <2>2, <2>3
<1>8. CASE StoreCandidate(w)
  <2>1. PICK i, id : job' = [job EXCEPT ![w].at = "store", ![w].stored[i] = id]
    BY <1>8 DEF StoreCandidate
  <2> DEFINE j == [job[w] EXCEPT !.at = "store", !.stored[i] = id]
  <2>2. /\ j.at = "store" /\ j.run = job[w].run /\ j.attempt = job[w].attempt
        /\ j.prepared = job[w].prepared
    BY <1>2 DEF JobRow
  <2>3. job' = [job EXCEPT ![w] = j] /\ job[w].at = "keep candidate"
    BY <1>8, <2>1 DEF StoreCandidate
  <2> HIDE DEF j
  <2> QED
    BY <1>2, <1>6, <2>2, <2>3
<1>9. CASE \/ VerifyAnchor(w) \/ VerifyCandidate(w) \/ VerifyJudgment(w)
           \/ PlanCards(w) \/ AllPrepared(w) \/ PrepareJudgment(w)
  <2> DEFINE Moved(j) ==
                /\ j.at # "idle"
                /\ j.run = job[w].run /\ j.attempt = job[w].attempt
                /\ j.prepared = job[w].prepared
  <2>2. CASE VerifyAnchor(w)
    <3>1. PICK j : j = [job[w] EXCEPT !.at = "keep anchor", !.seen = Database]
      OBVIOUS
    <3>2. job' = [job EXCEPT ![w] = j] /\ job[w].at = "store"
      BY <2>2, <3>1 DEF VerifyAnchor
    <3>3. Moved(j)
      BY <1>2, <3>1 DEF JobRow
    <3> QED
      BY <1>2, <1>6, <3>2, <3>3
  <2>3. CASE VerifyJudgment(w)
    <3>1. PICK j : j = [job[w] EXCEPT !.at = "conclude", !.seen = Database]
      OBVIOUS
    <3>2. job' = [job EXCEPT ![w] = j] /\ job[w].at = "judge"
      BY <2>3, <3>1 DEF VerifyJudgment
    <3>3. Moved(j)
      BY <1>2, <3>1 DEF JobRow
    <3> QED
      BY <1>2, <1>6, <3>2, <3>3
  <2>4. CASE VerifyCandidate(w)
    <3>1. PICK j : j = [job[w] EXCEPT !.at = "keep candidate"]
      OBVIOUS
    <3>2. job' = [job EXCEPT ![w] = j] /\ job[w].at = "store"
      BY <2>4, <3>1 DEF VerifyCandidate
    <3>3. Moved(j)
      BY <1>2, <3>1 DEF JobRow
    <3> QED
      BY <1>2, <1>6, <3>2, <3>3
  <2>5. CASE PlanCards(w)
    <3>1. PICK j : j = [job[w] EXCEPT !.at = "prepare"]
      OBVIOUS
    <3>2. job' = [job EXCEPT ![w] = j] /\ job[w].at = "step"
      BY <2>5, <3>1 DEF PlanCards
    <3>3. Moved(j)
      BY <1>2, <3>1 DEF JobRow
    <3> QED
      BY <1>2, <1>6, <3>2, <3>3
  <2>6. CASE AllPrepared(w)
    <3>1. PICK j : j = [job[w] EXCEPT !.at = "generate"]
      OBVIOUS
    <3>2. job' = [job EXCEPT ![w] = j] /\ job[w].at = "prepare"
      BY <2>6, <3>1 DEF AllPrepared
    <3>3. Moved(j)
      BY <1>2, <3>1 DEF JobRow
    <3> QED
      BY <1>2, <1>6, <3>2, <3>3
  <2>7. CASE PrepareJudgment(w)
    <3>1. PICK j : j = [job[w] EXCEPT !.at = "judge",
                                  !.stored = run[job[w].run].picked]
      OBVIOUS
    <3>2. job' = [job EXCEPT ![w] = j] /\ job[w].at = "step"
      BY <2>7, <3>1 DEF PrepareJudgment
    <3>3. Moved(j)
      BY <1>2, <3>1 DEF JobRow
    <3> QED
      BY <1>2, <1>6, <3>2, <3>3
  <2> QED
    BY <1>2, <1>9, <2>2, <2>3, <2>4, <2>5, <2>6, <2>7
<1>10. CASE SelectCandidates(w)
    BY <1>1, <1>2, <1>10 DEF SelectCandidates, Idle
<1> QED
    BY <1>3, <1>4, <1>5, <1>7, <1>8, <1>9, <1>10 DEF Step

\* Whatever happens, a worker that moves knows why it asks the model.
LEMMA QuietMisses ==
    ASSUME IInv, IInv', KInv, Next, Quiet, UNCHANGED kept, NEW w \in Worker
    PROVE  MissesExplained(w)'
<1>1. ASSUME job'[w] = job[w] PROVE MissesExplained(w)'
    BY <1>1, MissesStay, NothingPrepared
<1>2. ASSUME NEW v \in Worker, NEW r \in Run, Claim(v, r)
      PROVE  MissesExplained(w)'
  <2>1. CASE v = w
    <3>1. job'[w].prepared = <<>>
      BY <1>2, <2>1 DEF Claim, Job, IInv, Typed
    <3> QED
      BY <3>1, NothingPrepared
  <2>2. CASE v # w
    BY <1>1, <1>2, <2>2 DEF Claim, IInv, Typed
  <2> QED
    BY <2>1, <2>2
<1>3. ASSUME Step(w) PROVE MissesExplained(w)'
  <2>1. CASE job'[w] = Idle \/ job'[w].prepared = <<>>
    BY <2>1, NothingPrepared
  <2>2. CASE PrepareAnchor(w) \/ PrepareCandidate(w)
    <3>1. PICK t \in Target, before \in Seq(PreparedCard) :
            /\ job'[w].prepared = Append(before, Prepared(t))
            /\ before = <<>> \/ before = job[w].prepared
      <4>1. job[w] \in JobRow /\ Row(w) \in RunRow
        BY <2>2, Busy DEF PrepareAnchor, PrepareCandidate
      <4>2. CASE PrepareAnchor(w)
        <5>1. job'[w].prepared = <<Prepared(Row(w).anchor)>>
          BY <4>1, <4>2 DEF PrepareAnchor, IInv, Typed, JobRow
        <5>2. Row(w).anchor \in Target
          BY <4>1 DEF RunRow
        <5>3. /\ <<Prepared(Row(w).anchor)>> = Append(<<>>, Prepared(Row(w).anchor))
              /\ <<>> \in Seq(PreparedCard)
          OBVIOUS
        <5> QED
          BY <5>1, <5>2, <5>3
      <4>3. CASE PrepareCandidate(w)
        <5> DEFINE next == Len(job[w].prepared) + 1
        <5>1. /\ job'[w].prepared =
                     Append(job[w].prepared, Prepared(Row(w).selected[next]))
              /\ next <= Len(Row(w).selected)
          BY <4>1, <4>3 DEF PrepareCandidate, IInv, Typed, JobRow
        <5>2. job[w].prepared \in Seq(PreparedCard) /\ Row(w).selected \in Seq(Target)
          BY <4>1 DEF JobRow, RunRow
        <5>3. Row(w).selected[next] \in Target
          BY <5>1, <5>2
        <5> QED
          BY <5>1, <5>2, <5>3
      <4> QED
        BY <2>2, <4>2, <4>3
    <3>2. /\ UNCHANGED <<cards, run>> /\ Holds(w)
          /\ job[w] # Idle /\ job[w].at # "failed" /\ job[w].run \in Run
          /\ job'[w].run = job[w].run
      <4>1. job[w].at # "idle" /\ UNCHANGED <<cards, run>>
        BY ONLY <2>2 DEF PrepareAnchor, PrepareCandidate
      <4>2. Holds(w) /\ job[w].at # "failed"
        BY ONLY <2>2 DEF PrepareAnchor, PrepareCandidate, Fenced, Holds
      <4>3. job[w] \in JobRow /\ job[w] # Idle /\ job[w].run \in Run
        BY <4>1, Busy
      <4>4. job'[w].run = job[w].run
        BY <2>2, <4>3 DEF PrepareAnchor, PrepareCandidate, IInv, Typed, JobRow
      <4> QED
        BY <4>1, <4>2, <4>3, <4>4
    <3>3. PICK p : p = Prepared(t)
      OBVIOUS
    <3>4. p \in PreparedCard /\ MissExplained(job[w].run, p)
      BY <3>2, <3>3, PreparedExplained, PreparedTyped DEF IInv
    <3>5. \A i \in 1..Len(before) : MissExplained(job[w].run, before[i])
      BY <3>1, <3>2 DEF KInv, MissesExplained
    <3>6. \A i \in 1..Len(job'[w].prepared) :
            MissExplained(job[w].run, job'[w].prepared[i])
      <4>1. /\ Len(job'[w].prepared) = Len(before) + 1 /\ Len(before) \in Nat
            /\ job'[w].prepared[Len(before) + 1] = p
            /\ \A i \in 1..Len(before) : job'[w].prepared[i] = before[i]
        BY <3>1, <3>3, <3>4
      <4> QED
        BY <3>4, <3>5, <4>1
    <3>7. \A q : MissExplained(job[w].run, q) => MissExplained(job[w].run, q)'
      BY <3>2 DEF MissExplained, HasDeadCard, IsCard, CardId, Asked
    <3> QED
      BY <3>2, <3>6, <3>7 DEF MissesExplained
  <2>3. CASE /\ job'[w] # Idle
             /\ job'[w].run = job[w].run /\ job'[w].attempt = job[w].attempt
             /\ job'[w].prepared = job[w].prepared
             /\ job[w].at # "failed"
    BY <1>3, <2>3, PreparedMoves, MissesStay
  <2> QED
    BY <1>3, <2>1, <2>2, <2>3, PreparedMoves
<1>4. ASSUME NEW v \in Worker, Step(v), v # w PROVE MissesExplained(w)'
    BY <1>1, <1>4, PreparedMoves
<1>5. CASE UNCHANGED job
    BY <1>1, <1>5
<1> QED
    BY <1>2, <1>3, <1>4, <1>5
       DEF Quiet, EditVersion, EditSource, File, Invalidate, ExhaustAttempts

\* What a failing attempt keeps has been stored, and only the holder keeps it.
LEMMA FailureKInv ==
    ASSUME IInv, IInv', KInv, Next, NEW w \in Worker, RaiseFailure(w) \/ StoreFails(w)
    PROVE  KInv'
<1>1. PICK answered :
        /\ Fails(w, answered)
        /\ answered \subseteq job[w].produced /\ answered \cap ToStore(w) = {}
        /\ job[w].at \in Stores /\ job[w].at # "idle"
    BY DEF RaiseFailure, StoreFails, Stores
<1> DEFINE held == {j \in answered : Holds(w)}
           new == {<<job[w].prepared[i].target, job[w].prepared[i].input>> : i \in held}
           r == job[w].run
<1>2. /\ kept' = [kept EXCEPT ![r] = @ \cup new]
      /\ job' = [job EXCEPT ![w].at = "failed"] /\ UNCHANGED <<ledger, cards, run>>
    BY <1>1 DEF Fails, Holds
<1>3. job[w] \in JobRow /\ job[w] # Idle /\ r \in Run
    BY <1>1, Busy
<1>4. \A k \in new : k \in Target \X Input /\ HasCard(k)
  <2> TAKE k \in new
  <2>1. PICK i \in answered :
          k = <<job[w].prepared[i].target, job[w].prepared[i].input>>
    OBVIOUS
  <2>2. /\ Len(job[w].stored) = Len(job[w].prepared)
        /\ i \in 1..Len(job[w].prepared)
        /\ job[w].stored[i] # 0 =>
              IsCard(job[w].stored[i], job[w].prepared[i].target,
                     job[w].prepared[i].input)
    BY <1>1 DEF IInv, JobInv, StoredAsPrepared
  <2>3. job[w].stored \in Seq(Nat) /\ job[w].prepared \in Seq(PreparedCard)
    BY <1>3 DEF JobRow
  <2>4. job[w].stored[i] # 0
    BY <1>1, <2>2, <2>3 DEF ToStore
  <2>5. job[w].prepared[i] \in PreparedCard
    BY <2>2, <2>3
  <2>6. HasCard(k)
    BY <2>1, <2>2, <2>4 DEF HasCard, IsCard
  <2> QED
    BY <2>1, <2>5, <2>6 DEF PreparedCard
<1> HIDE DEF new
<1>5. kept' \in [Run -> SUBSET (Target \X Input)]
    BY <1>2, <1>3, <1>4 DEF KInv
<1>6. \A q \in Run : \A k \in kept'[q] : HasCard(k)'
  <2>1. \A k : HasCard(k) => HasCard(k)'
    BY <1>2 DEF HasCard, IsCard, CardId
  <2> QED
    BY <1>2, <1>3, <1>4, <2>1 DEF KInv
<1>7. ASSUME NEW v \in Worker PROVE MissesExplained(v)'
  <2>1. CASE v = w
    <3>1. job'[w].at = "failed"
      BY <1>2, <1>3 DEF IInv, Typed, JobRow
    <3> QED
      BY <2>1, <3>1 DEF MissesExplained
  <2>2. CASE v # w
    <3>1. job'[v] = job[v]
      BY <1>2, <2>2 DEF IInv, Typed
    <3>2. CASE job[v] = Idle
      BY <3>1, <3>2, NothingPrepared
    <3>3. CASE job[v] # Idle
      <4>1. Holds(v)' => kept'[job[v].run] = kept[job[v].run]
        <5>1. SUFFICES ASSUME Holds(v)' PROVE kept'[job[v].run] = kept[job[v].run]
          OBVIOUS
        <5>2. CASE job[v].run # r
          BY <1>2, <5>2 DEF KInv
        <5>3. CASE job[v].run = r
          <6>1. run[r].attempt = job[v].attempt
            BY <1>2, <3>1, <5>1, <5>3 DEF Holds, Row
          <6>2. job[w].attempt # job[v].attempt
            BY <1>3, <2>2, <3>3, <5>3 DEF IInv, HoldersDiffer
          <6>3. ~Holds(w)
            BY <6>1, <6>2 DEF Holds, Row
          <6>4. new = {}
            BY <6>3 DEF new
          <6> QED
            BY <1>2, <1>3, <5>3, <6>4 DEF KInv
        <5> QED
          BY <5>2, <5>3
      <4> QED
        BY <3>1, <3>3, <4>1, MissesStay
    <3> QED
      BY <3>2, <3>3
  <2> QED
    BY <2>1, <2>2
<1> QED
    BY <1>5, <1>6, <1>7 DEF KInv

\* The second invariant holds with the first.
LEMMA KeptInvariance == Spec => []KInv
<1>1. Init => KInv
    BY DEF Init, KInv, MissesExplained, Idle
<1>2. ASSUME IInv, IInv', KInv, [Next]_vars PROVE KInv'
  <2>1. CASE UNCHANGED vars
    <3>1. UNCHANGED <<cards, run, job, kept>>
      BY <2>1 DEF vars
    <3>2. \A k : (HasCard(k) => HasCard(k)') /\ (HasDeadCard(k) => HasDeadCard(k)')
      BY <3>1 DEF HasCard, HasDeadCard, IsCard, CardId
    <3>3. \A r, p : MissExplained(r, p) => MissExplained(r, p)'
      BY <3>1, <3>2 DEF MissExplained, Asked
    <3>4. \A w \in Worker : MissesExplained(w)'
      BY <1>2, <3>1, <3>3 DEF KInv, MissesExplained, Holds, Row
    <3> QED
      BY <1>2, <3>1, <3>2, <3>4 DEF KInv
  <2>2. CASE Next /\ Quiet /\ UNCHANGED kept
    <3>1. \A w \in Worker : MissesExplained(w)'
      BY <1>2, <2>2, QuietMisses
    <3>2. \A k : HasCard(k) => HasCard(k)'
      BY <1>2, <2>2, NextKeepsCards, KeysStay DEF IInv
    <3> QED
      BY <1>2, <2>2, <3>1, <3>2 DEF KInv
  <2>3. CASE Next /\ \E w \in Worker : RaiseFailure(w) \/ StoreFails(w)
    BY <1>2, <2>3, FailureKInv
  <2> QED
    BY <1>2, <2>1, <2>2, <2>3 DEF Next
<1>3. IInv /\ IInv' /\ KInv /\ [Next]_vars => KInv'
    BY <1>2
<1> QED
    BY <1>1, <1>3, Invariance, PTL DEF Spec

\* No later attempt asks the model again for an answer that a failed attempt has
\* kept and that still stands.
THEOREM KeptReused == Spec => []KeptAnswersAreReused
<1>1. IInv /\ KInv => KeptAnswersAreReused
  <2> SUFFICES ASSUME IInv, KInv, NEW w \in Worker,
                      job[w].at \in {"prepare", "generate", "store", "keep anchor",
                                     "keep candidate"},
                      Holds(w), NEW i \in Misses(w),
                      Asked(job[w].prepared[i]) \in kept[job[w].run]
               PROVE  HasDeadCard(Asked(job[w].prepared[i]))
    BY DEF KeptAnswersAreReused, HasDeadCard, IsCard, Asked, Holds
  <2>1. job[w] # Idle /\ job[w].at # "failed"
    <3>1. job[w].at # "idle"
      OBVIOUS
    <3> QED
      BY <3>1, Busy
  <2>2. i \in 1..Len(job[w].prepared) /\ job[w].prepared[i].hit = 0
    BY DEF Misses
  <2> QED
    BY <2>1, <2>2 DEF KInv, MissesExplained, MissExplained
<1> QED
    BY <1>1, Invariance, KeptInvariance, PTL

=============================================================================
