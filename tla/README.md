# A TLA+ model of 집크크

집크크 (SKN30-FINAL-3Team) helps a real-estate brokerage keep its ledger of
listings and clients, has a language model judge which client fits which
listing (the F3 "cross judgment"), turns a recorded conversation into entries
of the ledger (F2), and answers questions about the ledger in a chat. This
directory holds TLA+ modules of the parts where several processes, requests or
commands share state, TLC configurations that check them on small instances, and
TLAPS proofs, for every number of processes, rows and commands, of all the
safety properties that these runs check.

Paths are relative to the root of the repository.

## 1. What the system is made of

| Part | Source | State it keeps | Operations |
|---|---|---|---|
| Property ledger, calendar | `domain/property_ledger`, `domain/calendar` | complexes, units, listings, requirements, parties, consultations, events; a `row_version` per editable row | create, load, save (optimistic locking), soft delete, consultations |
| Time keeper | `domain/time_keeper` | none: an agenda over the ledger's dates | count, page |
| Authentication | `domain/authentication` | `user_session` | issue, authenticate and slide, expire, log out |
| F3 run queue | `domain/agent_execution/service.py`, `repository/runs.py`, `lease.py` | `agent_run`: status, trigger, owner, lease, attempts, anchor and its version | file or reuse, claim, clean up, advance, park, resume, renew, release, fail |
| F3 filing | `api/f3_runs.py`, `triggers.py`, `backfill.py` | none of its own | a user's request, a committed save, a command each file a run |
| F3 worker | `worker.py`, `f3_runtime.py`, `pipeline.py`, `execution_policy.py` | one process each; the step it is in | poll, drive a run stage by stage, heartbeat, classify failures |
| F3 cards and judgment | `anchor_card.py`, `candidates.py`, `candidate_cards.py`, `judgment.py`, `repository/cards.py` | position cards (a cache), candidate evaluations, the judgment | prepare, generate, verify and store; select; judge |
| F3 candidate search, consultation scope | `candidates.py`, `repository/candidate_search.py`, `repository/inputs.py` | none of their own | criteria, query, score; which logs an agent reads |
| F3 results, feedback | `results.py`, `feedback.py`, `repository/evaluations.py` | an opinion per finished judgment | read, page, upsert |
| Model configuration | `model_selection.py`, `general_model.py`, `chatbot_model.py`, `repository/model_configs.py` | one model per task and office | list, change, unless work is pending |
| Chatbot requests | `domain/chatbot/manager.py`, `repository.py`, `api/chatbot.py` | `chat_conversation`, `chat_request`, `chat_message`; tasks of each backend instance | create, submit, run, cancel, reset, delete, sweep, stop, stream |
| Chatbot query | `ai/src/brokerage_ai/chatbot`, `domain/chatbot/query.py`, `normalization.py` | the active search of a conversation | check an intent, merge, bound, search, open |
| AI generators | `ai/src/brokerage_ai/f3`, `providers` | stream slots | call a provider, repair its answer, check its evidence |
| F2 voice memo | `api/f2.py`, `ai/src/brokerage_ai/f2` | one analysis slot, temporary files | upload, transcribe, analyse, propose |
| Serving environment | `infra/scripts/serving_*.py`, `manage_serving.py`, `manage_dev_power.py` | SSM parameters, instances, Pods, templates, the host | start, prepare, resume, stop, select, verify |
| Shared Pod | `infra/scripts/manage_runpod.py`, `manage_runpod_control.py` | endpoint, secrets, Pods | create, delete, reconcile, register, rotate |
| SLLM release | `ai/training/f2_sLLM/package_release.py`, `manage_sllm_artifact.py`, `infra/runpod/scripts/artifact_bootstrap.py` | bundle, manifest, S3 objects | package, publish, review, install |
| Pod runtime | `infra/runpod/scripts/supervisor.py`, `auth_proxy.py` | four processes | start in turn, watch, stop, proxy |
| Database access | `infra/scripts/manage_db_access.py` | roles, passwords, seed | bootstrap, sync, rotate, verify, seed, migrate |
| Notifiers | `infra/delivery/lambda` | none | enrich and send alarms, send deliveries |
| Application, frontend, delivery tools, data | `main.py`, `frontend`, `infra`, `data` | configuration, screens, files | wiring, display, offline work |

How they interact. The API and the workers never call each other: they meet in
PostgreSQL. A save commits, then files an F3 run in a second transaction. A
worker polls `agent_run`, takes a run under a lease, and drives it through
`RUNNING → ANCHOR_READY → CANDIDATES_READY → CANDIDATE_CARDS_READY → JUDGING →
COMPLETED`. Each stage reads in one transaction, calls the model without one,
and stores in a second one that looks again at everything the first has read. A
run that a save filed stops ("parks") at `ANCHOR_READY` until a user asks for
the judgment. The browser polls the public status. The chatbot is different: a
backend instance owns the running task; the row is how other instances,
cancellation, deletion and the event stream learn of it. The operators' tools
keep no state: what they decide on is read from AWS, RunPod and the database,
and other commands change it meanwhile.

What is hard, and where:

* **two transactions around a model call** – everything read before the call may
  be old after it (`AgentRun`, `PositionCards`, `InteractionScope`);
* **several statements under READ COMMITTED** – each sees a later ledger than the
  one before (`CandidateSearch`, `RunResults`, `Agenda`, `UserSession`);
* **leases** – a worker that is slow, dead or resurrected meets its successor on
  the same row (`AgentRun`);
* **rows matched twice** – a SELECT finds a row, an UPDATE matches it again, and
  another transaction has moved it in between (`AgentRun`, `PropertyLedger`,
  `ModelSelection`);
* **rows in two tables under one version** (`PropertyLedger`);
* **a shared cache** – two runs, even of opposite sides, write one card
  (`PositionCards`);
* **parallel calls of which some fail** (`PositionCards`, `Generation`);
* **threads that outlive the task that waits for them** – a completion commits
  after its task has timed out, was cancelled or was told to stop (`Chatbot`,
  `VoiceMemo`);
* **rows and resources end at different times** – a cancelled or deleted chat
  request still holds a model slot (`Chatbot`);
* **an instance that stops, crashes or is only slow** (`AgentRun`, `Chatbot`);
* **a model that answers anything** (`Generation`, `ChatQuery`);
* **commands that are killed between two calls to different services**
  (`Serving`, `SharedPod`, `DbAccess`), and calls whose answer is lost;
* **three programs that check the same bundle** (`SllmRelease`).

What makes each part correct:

* *ledger, calendar*: one of two edits from the same version wins, over all
  tables of a row; no unit in a deleted complex;
* *agenda*: the pages of one day and a quiet ledger show each entry once;
* *sessions*: a used session does not end early, an ended one does not return;
* *run queue*: one active run per input; a row is written only by the claim that
  holds it; no run is lost between claim, clean-up, parking and hand-over; a
  save pays for one card and no more; a wanted run ends;
* *cards and judgment*: one active card per input; what was answered is kept;
  the judgment is over the whole selection and over rows that stand together;
* *candidate search, scope, results*: what is stored answers the version it was
  filed for; a stage whose source is unchanged has read the very logs in scope; a
  result that says it is complete is;
* *models*: none changes under pending work, no operator's change is undone
  unseen;
* *generation, query*: what is stored quotes what was said, what is searched was
  asked for;
* *chatbot*: one question at a time, asked once, settled once; the transcript is
  one of turns; search conditions do not change under a question; slots are
  neither exceeded nor lost; the stream tells the ending;
* *voice memo*: one analysis at a time, whoever leaves; no proposal overwrites;
* *serving, shared Pod*: nothing billed is left behind unseen, routes lead to
  what runs, what a command reports is true;
* *release, runtime, database, notifiers*: what is served was reviewed, engines
  load in turn, a password the database accepts is always held somewhere, an
  extra does not eat the time of the alarm.

## 2. Modules

```
RunLifecycle  <--refines--  AgentRun  <-- AgentRunDocs      (documents)
       ^                       ^--------- MCBackend         (filing)
       '------refines-----  PositionCards <-- PositionCardsDocs
ChatConversation <--refines-- Chatbot <-- ChatEvents        (a client's stream)
OptimisticLedger <--refines-- PropertyLedger <-- MCBackend
Serving
MCBackend    = PropertyLedger, UserSession, Agenda, VoiceMemo, AgentRun
MCBrokerage  = ModelSelection, Generation, ChatQuery, InteractionScope,
               CandidateSearch, RunResults
MCOperations = SharedPod, SllmRelease, PodRuntime, DbAccess, AlarmNotifier

Proofs (TLAPS)          of
AgentRun_proofs         AgentRun, RunLifecycle
PositionCards_proofs    PositionCards
Chatbot_proofs          Chatbot, ChatConversation, ChatEvents, ChatQuery
PropertyLedger_proofs   PropertyLedger, OptimisticLedger
Backend_proofs          UserSession, VoiceMemo, Agenda; the union MCBackend
Brokerage_proofs        CandidateSearch, ModelSelection, RunResults,
                        InteractionScope, Generation; the union MCBrokerage
Operations_proofs       DbAccess, PodRuntime, AlarmNotifier, SllmRelease, SharedPod;
                        the union MCOperations
Serving_proofs          Serving
```

`MCAgentRun`, `MCAgentRunDocs`, `MCPositionCards`, `MCChatbot` and `MCServing`
add what TLC needs: symmetry, sets of inputs, a constraint. `MCBackend`,
`MCBrokerage` and `MCOperations` put components that share no state into one
run: a variable `focus` says which of them moves, the others stay as they began.
So a behaviour of such a run is one of a single component, and no product of
components is built; that the union leaves its components as they are is proved
(section 4). In every module a definition under a comment "Faulty" is a
plausible mistake in the one that follows; it is there to show that the
properties notice it, and no action uses it.

### AgentRun – the run table, the filings and the workers

| Variable | In the code |
|---|---|
| `run[r]` | a row of `agent_run`; `lease` is `lease_expires_at` seen from the database clock: NULL, `fresh`, `aging` (due for renewal), `expired`; `candidates` says whether the selection picked any |
| `version[a]` | `row_version` of a listing or requirement |
| `intake[a]` | the filing transaction that holds the anchor's advisory lock (`lock_run_intake`) |
| `answered` | run ids returned by `POST /f3/runs` |
| `job[w]` | where a worker process is between its transactions |

`IntakeBegin`, `IntakeFind`, `IntakeInsert`, `IntakeReuse` are the statements of
`queue_cross_judgment_run`. They are separate steps because other transactions
may commit between them (READ COMMITTED), and because the run found is matched
again by the UPDATE of `resume_ledger_save_run`. `ClaimNextRun` and
`ClaimNothing` are one poll: clean-up and claim in one transaction. Which
claimable run is taken is left open (SKIP LOCKED decides). `ReadToPark`,
`ReadEnded`, `ReadLeaseLost`, `ReadStaleInput`, `PrepareRaises` and `Prepare`
are the ways a step begins; `Park`, `StoreBegin`/`StoreCommit`, `StepRaises` and
`Settle` the ways it ends. `StoreBegin` is the start of a transaction, whose
`now()` all its statements use: a lease that expires afterwards does not stop
`StoreCommit`, a row that another transaction has changed does. `RenewLease` and
`HeartbeatFails` are the two ends of `lease.protect`; `LeaseAges` is time;
`WorkerStops` is a kill at any point, SIGTERM between steps, or an exception out
of the loop.

What is abstracted:

* The place "calling" also stands for a step that finds every card in the cache
  or has no candidate to ask about: it makes no call, and stores.
* Storing at `CANDIDATES_READY` is `_record_cards`; the single cards are in
  `PositionCards`.
* `Settle` is one step: a failure is written with the `now()` of a transaction
  whose only statement is the UPDATE.
* The instant `lease_expires_at = now()` belongs to the expired side.
* A worker id is not used again: `worker.py` builds it from host, pid and a
  random part.
* A filing after a save is a transaction of its own and may never begin or abort
  (`IntakeAbort`): `queue_after_ledger_save` swallows its failure. The backfill
  files what a save files and has no action of its own.
* Model bindings need no state: a missing or different binding is one of the
  ways `PrepareRaises` ends a step.

`RunLifecycle` is what someone who polls a run may rely on: one line of
statuses, no way back, no way out of an ending, and no stage beyond the anchor
card that nobody has asked for.

`AgentRunDocs` adds the two statements of the documents that the code does not
keep (section 5).

### PositionCards – the data of a run

| Variable | In the code |
|---|---|
| `ledger[t]` | what a card of `t` would be written from now: `version` is the `row_version`, `source` the edition of all else the snapshot holds (consultations in scope, unit and complex, roles) |
| `cards` | `negotiation_position_analysis` in the order of ids |
| `run[r]` | the run with its selection (`match_candidate_evaluation`), its recorded cards and its judgment |
| `job[w]` | the stage's local variables: inputs prepared, answers received, cards stored; `seen` is what the open store transaction has read |
| `kept` | history: the inputs a failed attempt of the run was answered for and had no trouble storing |

Here a claim is its attempt number: expiry, heartbeat and parking are the
subject of `AgentRun`, and a worker whose number is old writes nothing.
`PrepareAnchor`, `PrepareCandidate` and `AllPrepared` read input and cache;
`Generate` is the parallel calls, of which any subset succeeds;
`PrepareJudgment` begins the judgment; `Supersede`, `FailForGood` and `GiveUp`
are the classes of failure.

A stage that fails in part does so in two ways. When calls of the model fail, the
code stores every answer it did get and raises the first error then
(`RaiseFailure`). When a store fails, it raises at once (`StoreFails`): that
answer and those after it in the order of the selection are lost and paid for
again, although the comment over the loop speaks of every success. What the loop
is for is that the next attempt finds in the cache what was stored, and
`KeptAnswersAreReused` says so of both ways: of an input that is in `kept` the
model is asked again only if the card has been invalidated.

The transactions that follow a model call are two steps each, because they run
under READ COMMITTED and lock no row of the ledger: `VerifyAnchor`,
`VerifyCandidate`, `VerifyJudgment` compare, `StoreAnchor`, `StoreCandidate`,
`StoreJudgment` write and commit, and a save may come between. What the code can
promise is therefore about what the transaction read after the call, and
`AnchorCardIsCurrent` and `JudgedTogether` say that. `StoreAnchor` and
`StoreJudgment` are fenced again at the write, since the UPDATE of the run is;
`StoreCandidate` is not: it writes no run, and a card of a worker that has
meanwhile lost its lease stays as a valid entry of the cache.

What is abstracted: a failure is recorded with the step that raises it (the
version only grows, so it is still a failure then; or the run is given up); the
comparisons of one verification are one read (each found its value as it was
before the call, and versions only grow, so all of them held at the first); the
transactions that commit no answer of a model, such as `SelectCandidates`,
`RecordCards` and `PrepareJudgment`, are one step at that read (a save between
it and the commit is as if just after it, and no property relates the two); the
day, a part of the key, does not pass: the code rebuilds the input it compares for
the day it was prepared for (`as_of_bucket`), so only a retry after midnight
would see another input, as after an edit; an
edit between the two reads of `prepare_generation` appears as before or after
both; a winner of the insert that is invalidated before it can be locked, which
the code marks as purely defensive, is `GiveUp`; scoring is any ordered
choice of at most `Limit` candidates; the cache key's text is the target and the
whole input. `Invalidate` is external: the code reads `invalidated_at`
everywhere and writes it nowhere. What a call makes of a model's answers, with
its repairs, is in `Generation`.

### Chatbot, ChatEvents – requests, tasks and the stream

| Variable | In the code |
|---|---|
| `conv[c]` | `chat_conversation` and its `chat_message` rows in the order of `sequence_no`; `filters` is the request whose search conditions are in force |
| `req[r]` | `chat_request`; `clock` is what a sweep finds of `heartbeat_at` and `deadline_at` |
| `inst[i]` | a `ChatbotManager`: its phase, the submission under `admission_lock`, and what the walk of `close()` has still to visit |
| `task[r]` | the request's asyncio task: the await it is at, and its instance |
| `calls[r]` | transitions handed to `asyncio.to_thread` and not yet committed |
| `stream[r]` | one client's subscription: open or closed, the revision seen, the status told |

`Transition` is `ChatStore.transition`, the one way a request moves: under the
conversation's lock, only while it is active. `Commit` is a thread that runs it.
The task may have stopped waiting: a timeout, a failure (`StepFails`) or the
walk of `close()` (`CloseTask`) moves the task on and leaves the call in
`calls`, to commit later or never. `SubmitBegin` looks at the slots,
`Accept` is the transaction, `SubmitEnds` the creation of the task, which may
come after `close()` has begun or not at all (`Crash`, `Exit`).

What is abstracted: a question, its answer and its search conditions are opaque;
an answer has search results (`FOUND`) or not (`ANSWERED`). Of
`expected_version` only this remains: a question with an old one changes
nothing, like one refused for any other reason (`Refuse`), and one with the
present one may be accepted; the same for `reset`. A question under a known key
changes nothing whether its fingerprint agrees or not. Conversation ids are not
reused, so "one conversation per user" plays no part. `InterruptStale` is one
step: candidates are read without a lock, but every condition is looked at again
under it. Marking and cancelling a task in `CloseTask` are one step. The task's
own timer may fire at any time; only the liveness properties ask that it does.

`ChatConversation` is what the broker sees: questions asked one at a time, each
settled once, conditions that change only with an answer or a reset, never
under a pending question.

`ChatEvents` composes the chatbot with the event stream of a request.

### PropertyLedger, UserSession, Agenda, VoiceMemo – rows the backend keeps

`PropertyLedger`: `complexRow`; `ledgerRow[r]`, a unit, listing, requirement or
calendar event with its `row_version`, its own columns (`value`) and its rows in
other tables (`part`: a unit's people, a requirement's desired complexes);
`ledgerLock`, the row locks of PostgreSQL; `ledgerTx[b]`, where a request is in
its transaction. Statements are actions of their own; the UPDATE of
`bump_row_version` waits for a lock and then matches the committed row again.
Wide columns, consent and list filters are one opaque value, `touch_last_contact`
(a column nobody edits) is left out, and a commit with its lock release is one
step. Which of two waiting saves PostgreSQL aborts is `Abort`. The people of a unit
are its own, as a save creates them; see section 6 for persons shared by units.
`OptimisticLedger` is what brokers may rely on, without statements or locks: a
request takes effect at once, from a screen that shows its row as it is, or is
turned away. `Screens` maps a transaction to what its broker sees, from the
second statement of the screen to the end of the request.

`UserSession`: `sessionRow` (`last_seen_at`, idle and absolute expiry,
`revoked`), `userActive`, `authClock`, and in `authCall` a request between its
read and its write. `accepted` is history: when the last accepted request began
and the longest pause so far. Cookies and token hashes are left out.

`Agenda`: `agendaLedger` (the dates of units, listings, requirements and events),
`agendaScreen` (the request between its four statements, the counts, the rows
`read` so far and those `skipped` because their target was gone), `agendaChanges`,
`agendaToday`. Each request resolves today anew (`load_agenda`), so the window of
a quiet ledger moves when midnight passes between two pages: an entry that falls
out of it at the front shifts the rest by one, and OFFSET passes one over. The API
has no parameter that holds the day fast; the answer only says for which day it
is (`as_of`). So `PagesShowEachOnce` promises each entry once over answers of one
day, and exact counts over any number of days. A midnight within a request changes
nothing, its window is made once.
Rows that compare equal under ORDER BY come in any order, another one in every
statement.

`VoiceMemo`: `slot` and `analysisTask` are the two fields on `app.state`;
`uploader`, `memoJob`, `audio` the request, its task with the speech thread, and the
temporary file; `onDone` the task's callback; `lifespan` the shutdown. What the
model says is a choice out of `Analyses`; what of it becomes a ticked proposal is
the code's.

### ModelSelection, Generation, ChatQuery – what surrounds a model

`ModelSelection`: `activeConfig[t]`, the active rows of `ai_model_config` of an
office and a capability; `workRow`, runs and chat requests with their
transaction; `tableLock` and `officeLock`, the locks the tools and the API take;
`selection[o]`, one call of a tool. Listing, the confirmed application, the
single-office application and the two older activations are its actions.

`Generation`: `route`, the adapter and the privacy mode; `generation[g]`, one
card's or the judgment's call with its attempts; `streaming`, the calls that hold
a slot of the endpoint; `analysisOf`, `verdict`, `stored`, what has been accepted
and written. A log is the set of texts that can be quoted from it; an answer is
any of the given ones, right or wrong. The catalog of a judgment's evidence is the
set of its entries, each a card with one of its sources; a reference stands for
its entry, and how `_evidence_catalog` numbers them is left out.

`ChatQuery`: `activeSearch` (the conversation's `active_filters`), `turns` (the
last completed ones that a reference may name), `asked` (the question in
progress), `saidSince` (history: the questions the active search belongs to),
`gone` and `today` (the ledger and the day that change meanwhile). The day of a
question is fixed when it is accepted (`as_of`): midnight may pass before its model
answers or its search ends, and its "this week" stays the same. A question is
the phrases in its text and the values its words name; an intent is any of the
given ones. Phrases are parsed by `_money`, `_area` and `parse_dates` into the
forms of the constants; from there on bounds, calendar spans and matches are
computed as in the code. Order, paging and wording of answers are left out.

### InteractionScope, CandidateSearch, RunResults – what a run reads and shows

`InteractionScope`: `talk`, the consultation logs; `ties`, the unit's parties;
`client` and `wanted`, whose listing and requirement it is; `tieChanges`, a
bound; `reading`, the logs a stage has read and the digest, count, latest time
and greatest id it kept. A digest is equal exactly when the scope is.

`CandidateSearch`: `seekers`, `stock`, `blocks` with `rowVersion`; `search`, the
stage between its statements, each of which reads the ledger as it then is.
Criteria, the tolerance of budgets, the score and its tie-break are computed.

`RunResults`: `judgedRun` and `judgments`, what a run writes stage by stage;
`anchorCard`; `poll` and `screen`, the request between its statements and the
last page shown; `feedback`. Evidence never changes and is read with its row.

### Serving – the development environment

`selection`, `registration`, `endpoint`, `applied` are SSM parameters; `gpu`,
`pods`, `template` what AWS and RunPod run and would deploy; `host` the
application host, its maintenance flag and the targets in its database;
`command` the start, prepare or stop that runs, with its receipts and the
failure it handles; `reviewer` an `ai-select`. `dev-verify` only reads and is not
modelled. Every call may fail, or be the last before a kill (`StepFails`,
`Killed`); a record in SSM that cannot be written stops nothing (`Record`). One power command
runs at a time, as `infra/operations/configuration.md:58` asks of the operators;
a deployment and a selection interleave with it.

### SharedPod, SllmRelease, PodRuntime, DbAccess, AlarmNotifier – operations

`SharedPod`: `podList`, `made` (RunPod); `route`, `registered` (SSM), `secret`
(Secrets Manager), `api` (what the container was started with), `console`
(Template and Secrets); `podCmd` and `podOther`, the command and the one of a
second operator. `verify_pod` compares what RunPod names; a Pod whose image its
answers leave out passes it (`named`). A call takes effect, is refused, or takes effect while its
answer is lost.

`SllmRelease`: `relInput`, `relDesk`, `relPub`, `relBucket`, `relReview`,
`relDisk`, `relBoot` follow a release from the training output over each
publisher's disk, the two S3 objects and the reviewing command to the directory
in the container. A file is its own hash, so equal checksums are equal contents.

`PodRuntime`: `supervisor`, `process`, `request`. Time is left out: a deadline
may pass whenever it is waited for.

`DbAccess`: `people`, `session`, `runtime`, `content` are in the database,
`stage` and `minted` in Secrets Manager, `group` in IAM, `tunnel` on the
operator's machine; `dbCmd` is the command, which may end at any step.

`AlarmNotifier`: `event`, `invocation` with its clock, the time its search began
and whether all its calls were prompt; `toldOf` and `failures` are history. A call
takes any time and the platform cuts it off when the function's 20 s are over
(`infra/environments/dev/observability.tf`): the function gives its calls no limit,
and boto3's own are 60 s. So an alarm whose search hangs in the first invocation
and in every repetition is lost. The code does not prevent it and its
documents promise only for a search that fails, finds nothing or passes its two
seconds; `SearchLeavesTime` therefore speaks of calls that come back within
`CallTicks`. Texts are lengths, since what matters is the limit of a message.

## 3. Runs

| Run | Instance | Question |
|---|---|---|
| `agent_run` | 2 workers (one may die for good), 1 anchor, 1 run, 2 versions, 2 claims, fair | Is every write fenced, does a save's run rest, is nothing stranded, does the table implement `RunLifecycle`, does every filed run end or rest and every wanted one end? |
| `position_cards` | 2 runs, 2 workers, 1 listing, 2 requirements, 2 claims, 1 edit, 1 invalidation | Is there one active card per input, is the judgment over the whole selection and over rows that stood together after the call, does no retry ask again for what was kept? |
| `chatbot_safety` | 2 instances, 1 conversation, 2 questions, 2 keys, 1 slot, 3 versions, 3 revisions | Is a question asked once, answered in its turn and settled for good, are slots kept, does a broker see `ChatConversation`? |
| `chatbot_events` | 2 instances (one stays), 1 question, one client, fair | Does every question end, every slot come back, every stream tell the ending? |
| `backend` | ledger: 2 brokers, one row and its listing, saved twice, 2 contents, 2 sets of people; session: 2 requests, clock to 8; agenda: 2 pages, 1 change, 1 midnight; voice: 2 uploads; filing: 1 worker, 2 rows, 2 versions | Do two edits or a registration and a deletion that meet lose anything, does the office see `OptimisticLedger`? Do sessions keep their term, pages show each entry once, uploads take turns and leave the ledger's entries alone, filings share one active run? |
| `brokerage` | models: 2 operators, 1 office, 2 pieces of work; generation: 3 cards, 1 stream slot, 2 attempts; query: a conversation over a midnight and a deletion; scope: 3 logs, 1 change of ties; search: 1 buyer, 2 listings, 2 changes; results: 2 candidates | Do models change at rest only? Is what is stored quoted, what is searched said, what a stage reads the source it is filed under, what a page shows whole? |
| `serving_power` | one AWS and one RunPod workload, 2 models, 2 attempts, 1 selection | Is nothing billed left behind, does routing lead to what runs, is what is recorded as applied served? |
| `operations` | Pod: 2 Pods, 2 keys, 2 images; release: 2 publishers, 2 starts; runtime: 1 request; database: 2 members, 1 rotation; alarms: 2 records, 2 invocations | Is what a command reports true, what is served reviewed, one model loaded at a time, the password held, the alarm sent? |
| `resume_spares_worker_lease`, `user_request_remembered`, `scope_change_supersedes`, `drain_timeout_keeps_routing` | smallest that shows it | Statements of the documents the code does not keep (section 5) |

Why the bounds are enough to be interesting.

* *Two claims* (`MAX_CLAIM_ATTEMPTS` is 3 in the code) give a first claim, a
  retry and the clean-up of a run whose attempts are used up; the comparison
  `<` against `>=` is the same at 2.
* *Two workers* give a holder and a rival; every fence is between these two. A
  third one adds no relation, and the proofs hold for any number.
* *One run* is enough for the fences, since no statement but the filing and the
  poll looks at two runs; the filing has its own case, in `backend`, with two
  rows and one worker.
* *Two versions* of an anchor: filed for, and changed since.
* *Two runs in one card cache.* Two runs with retries are beyond TLC, so
  `RetriesOrRaces` follows two filed runs through one claim each and one run
  alone through both of its claims. A retry that also races is not checked.
* *Three versions* of a conversation: an answer sets conditions and a reset
  clears them, before or under a second question. With two, a reset never has
  anything to clear. *Three revisions before the last*: accepted, running, one
  stage. *One slot* is the code's default; two questions fill it while the task
  of a cancelled first one goes on.
* *Two brokers and one row besides its listing*: every lock of the ledger is
  between two transactions over a row and the rows it hangs on, and two saves of
  it leave a broker one version behind, then two. The theorems hold for any number.
* *A session* is followed past its idle and its absolute expiry, with requests
  that arrive before either and write after it.
* *An agenda of two pages* has entries that tie, one change and one midnight, each
  between any two of its statements; midnight drops an entry and lets others in.
* *Operators' tools*: a second attempt after each failure or kill; in `serving`
  one workload of each cloud, which start, drain and stop in different ways.
* *Alarms*: two invocations are a first try and a repetition, which differ in
  nothing but what was told before; a search of two polls ends in time, at its
  limit and past it, one that begins late or whose call hangs passes the limit of
  the function.

`backend`, `brokerage` and `operations` are unions: the initial state chooses the
component that moves. They share no state in the code either, or only what one
of them models as changing by itself. Symmetry is used in runs without liveness,
and only over sets that no operator orders or chooses from.

`CHECK_DEADLOCK FALSE` is set throughout: the bounds, and the system itself,
let every run end with nothing to do – all versions used, all requests over, an
instance down, a command done.

Every property has a mutant: a small mistake in the mapped code under which TLC
finds it violated (`PROJECT.json`).

### Fairness

`AgentRun`: workers that are idle poll, and finish the steps they begin
(statements and provider calls have timeouts); the lease of a run nobody drives
runs out; a filing ends. Renewals, saves, requests and crashes owe nothing. The
bound "the last worker stays up" stands for a service that is restarted.

`ChatEvents`: an instance that is deployed comes up, and while one is up its
maintenance sweeps every few seconds; a deadline passes; a task's timer fires
(`asyncio.timeout`) and a thread returns. Nothing is asked of the model, of the
search, of heartbeats or of brokers: a model that never answers is a behaviour
of the model, and only the timer returns its slot. Calls whose task has stopped
waiting owe nothing. One instance stays up or is still to come.

The other modules state safety only and assume no fairness. The commands of the
operators may stop anywhere and nobody starts them again by himself; the requests
of the ledger, the agenda and the sessions are a few statements each.

## 4. Proofs

A run shows a property on its instance; a theorem states it for every value of the
constants that satisfies the named assumptions of the module. Nearly every
property needs an inductive invariant that says more. Each of them was checked
by TLC on the instance of its component before it was proved; the numbers below
are the distinct states of that check.

| Proof module | Invariant | States | Properties proved of it |
|---|---|---|---|
| `AgentRun_proofs` | `IInv` | 267,444 | `OneActiveRunPerInput`, `SaveStopsAtAnchorCard`, `AnsweredRunIsPursued`, `OwnerSeesItsRow`, `NoRunStranded`, `RestingRunUntouched`, `LeaseNeverRevived`, `OnlyTheHolderMoves`, `ImplementsLifecycle` |
| `PositionCards_proofs` | `IInv` | 1,365,342 | `OneActiveCardPerInput`, `JudgmentCoversSelection`, `AnchorCardIsCurrent`, `JudgedTogether`, `CardsFollowLifecycle` |
| | `KInv` | 1,365,342 | `KeptAnswersAreReused` |
| `Chatbot_proofs` | `IInv` | 758,300 | `OneActiveRequest`, `SubmittedOnce`, `TranscriptInTurns`, `SlotsBound`, `ImplementsConversation` |
| | `StreamInv` | 84,235 | `StreamTellsTheEnd` |
| | `QueryInv` | 284,508 | `ConditionsWereSaid`, `BudgetsOverlapTheQuestion` |
| `PropertyLedger_proofs` | `LedgerInv` | 5,182,697 (2 rows) | `UnitsHaveTheirComplex`, `NothingIsOverwrittenUnseen`, `ImplementsOptimisticLedger` |
| `Backend_proofs` | `SessionInv` | 3,142,700 | `SessionKeepsItsTerm` |
| | `VoiceInv` | 96,135 | `VoiceMemoIsSafe` |
| | `AgendaInv` | 10,254 | `PagesShowEachOnce` |
| `Brokerage_proofs` | `SearchInv` | 330,156 | `SelectionKeepsToItsVersion` |
| | `SelectionInv` | 481,580 | `ModelsChangeAtRest` |
| | `ResultsInv` | 1,724,329 | `PagesAreWhole` |
| | `ScopeInv` | 2,473,654 | `SameSourceSameLogs` |
| | `GenerationInv` | 28,423 | `StoredIsGrounded` |
| `Operations_proofs` | `DbInv` | 53,240 | `RuntimePasswordIsHeld` |
| | `RuntimeInv` | 381,062 | `OneLoadOneStatus` |
| | `NotifierInv` | 245,552 | `SearchLeavesTime` |
| | `ReleaseInv` | 168,692 | `ReleaseIsReviewed` |
| | `PodInv` | 2,294,432 | `CreateReportsTheTruth` |
| `Serving_proofs` | `ServingInv` | 2,991,396 | `NothingLeftRunning`, `ServingInOrder`, `AppliedMeansServed` |

### The run queue

`AgentRun_proofs` proves for every finite or infinite set of workers and
anchors, and every bound:

| Theorem | States |
|---|---|
| `Invariance` | `Spec => []IInv` |
| `TypeCorrect`, `OneActiveRun`, `SaveStops`, `AnsweredIsPursued`, `OwnerSees`, `NothingStranded` | the invariants, from `IInv` |
| `RestingUntouched`, `NeverRevived`, `HolderMoves` | the action properties, from `IInv` and the step |
| `Refinement` | `Spec => Lifecycle!Spec` |

The run `agent_run` checks them on its instance, but for `TypeOK` and
`OwnerSeesItsRow`, which the proof alone covers, and `OneActiveRunPerInput`,
which needs two rows and is checked in `backend`. The assumptions are those named
in `AgentRun` (`ConstantsAssumption`): `NoWorker` is not a worker, there is an anchor, the
bounds are positive.

None of the invariants is inductive by itself. `IInv` adds three facts.

* `RowInv`: which combinations of status, owner, lease, attempt and trigger a
  row can have. An in-progress row without an owner is at `ANCHOR_READY` – it is
  parked or handed over; `NoRunStranded` rests on this, because a claim asks for
  an expired lease and such a row has none.
* `JobInv`: as long as a worker owns its row, the attempt and the status it read
  are those of the row, and past the parking it works on an `ANCHOR_READY` run
  only if a user wants it. Hence a save's run never passes its card although
  `StoreCommit` does not look at the trigger. The pair (owner, attempt) matters:
  the same worker may own the row again under a later claim.
* `IntakeInv`: while a filing that found nothing holds its anchor's lock, no
  active run for the version it read appears. Other filings need the same lock,
  no other action files, and an ended run does not come back. `OneActiveRunPerInput`
  follows at the insert.

Refinement needs `IInv` for one step: an update that leaves `ANCHOR_READY` is an
allowed advance only because `JobInv` says that a user wants the run.

### The cards of a run

`PositionCards_proofs` assumes `CardConstants`: listings and requirements are
different rows, the limits are numbers, the ones of candidates and attempts
positive. `Invariance` is `Spec => []IInv`; from it follow `TypeCorrect`,
`OneCard`, `Covers`, `AnchorCurrentThen`, `TogetherThen` and `CardsLifecycle`, and
with `KeptInvariance`, `Spec => []KInv`, also `KeptReused`.

`OneActiveCardPerInput` is nearly inductive by itself, because every insert is
under the unique index. The others are not: they compare a row with what a worker
read two transactions earlier. `IInv` therefore adds

* `HolderKnows`: what the holder of a row has prepared is what the stage of the
  row is about – the anchor at the version filed, one input for each candidate
  selected. A worker whose attempt is old owes nothing: it will write nothing;
* `HoldersDiffer`: two workers are never at one attempt of one run, so nobody
  else moves the row while its holder works;
* `StoredAsPrepared`: a stored card is of the target and the input it was
  prepared from;
* `AnchorCardKnown`, `PickedCovers`, `JudgedAsPicked`: what each status says of
  the cards the row names;
* `SeenRight`: what a store transaction that has compared and not yet committed
  has read is what it goes on with – the anchor's input (`AnchorSeen`), or cards
  that are active and rows of the version they were written from
  (`JudgmentSeen`). It speaks of the values read, not of the ledger, so saves do
  not disturb it.

`CardsKept` (no action takes a card away or changes what it was written from) is
what lets all of these survive the steps of other runs on the same cache.

`KInv` says that every key in `kept` has a card (it was stored, by
`StoredAsPrepared`, when the failure was raised) and that a holder's misses are
explained: what it prepared without a hit, and an earlier attempt had kept, has a
card that is invalidated (`MissesExplained`). At the preparation this follows from
the cache having no active card of the input, and afterwards from `CardsOnlyDie`:
no card is taken away and none becomes active again. It is stated of the holder
alone, because a failing worker adds its own answers to `kept`, and by
`HoldersDiffer` and `AttemptsGrow` nobody else holds the run then or holds it
again under an old number.

`CardsLifecycle` is `Spec => CardsFollowLifecycle`: the statuses of the rows,
with every filed run taken as wanted, implement `RunLifecycle`, as those of
`AgentRun` do. So the two models of a run, one of its leases and one of its data,
agree on what a client sees. `StatusMoves` is the step: whatever the action, a
row stays, makes one of the `PlainMoves`, or becomes `ANCHOR_READY` or
`COMPLETED` by the worker that stores its card or its judgment. TLC has checked
the refinement once on the instance of `position_cards`; no run repeats it.

### The chatbot's requests

`Chatbot_proofs` does the same for what `chatbot_safety` checks, for every set of
conversations, instances and keys and every bound:

| Theorem | States |
|---|---|
| `Invariance` | `Spec => []IInv` |
| `TypeCorrect`, `OneActive`, `AskedOnce`, `Turns`, `Slots` | the invariants, from `IInv` |
| `Refinement` | `Spec => Conversations!Spec` |

It assumes `ChatConstants`: `NoInstance` is not an instance, the capacity and the
bounds are positive. The argument has two halves that share no variable.

* Rows and transcripts. `DataSteps` shows that any step of any task, thread,
  instance or sweep is one of five things to them: nothing, a creation or reset,
  a removal, an admission (`Admits`) or the move of an active request (`Moves`).
  That is what the one `transition` under the lock of the conversation buys, and
  all else follows from the five. `TranscriptInTurns` needs two strengthenings:
  `LogOfStored` (a transcript mentions only requests of its own conversation that
  are stored, so an admitted request is new to it) and `PendingIsLast` (the
  question in progress is the last message, so its answer lands right behind it;
  this in turn needs `OneActiveRequest`).
* Slots. `SlotsBound` alone is not inductive: the slot is looked up before the
  transaction and taken after it. `SlotsInv` adds that an instance with a
  submission in progress still has a slot; the admission lock makes submissions
  take turns and every other step only ends tasks (`KeepsTasks`).

`TypeOK` and `SlotsBound` and the parts of this `IInv` that are not properties
are in no run; the proof is their check.

### The stream of a request

A stream reads what the requests do and changes nothing of it: `StreamsOnlyWatch`
shows that a behaviour of `ChatEvents` is one of `Chatbot`, so that all of the
above holds beside it. Of the requests the stream needs one more fact, `Revised`:
no step changes a status without raising the revision, and nothing follows an
ending. With it `SeenIsTold` is inductive: a client is never ahead of the row, and
a client that is level with it was told its status. `EndIsTold`
(`StreamTellsTheEnd`) is the case of a stream that the server has closed.
`EndingToldIsFinal` covers the clients that are still there or have left: an
ending that was told is the one the request keeps. And since a behaviour with
streams is one without, `StreamsSeeConversations` carries the refinement over:
clients and all, a broker sees `ChatConversation`.

### The conditions of a search

The two properties of `ChatQuery` assume that a day's calendar and the number of
attempts are positive and that an amount phrase has been read into one of the
forms of `_money`.

`SaidByTheUser` (`ConditionsWereSaid`) speaks of the active search only. `QueryInv`
adds the search that runs (`SearchWasSaid`): each of its conditions was said in a
question that will belong to it once it is stored. Between the check of an intent
and the end of its search no other turn begins, so the questions that it was
checked against are still the ones that it is stored under. That is the one fact
about order in the argument; everything else is about `merge`.

`BudgetsOverlap` (`BudgetsOverlapTheQuestion`) compares what `query.py` does –
endpoints, a bound that is missing, strict and weak comparisons – with the
intersection of two intervals, for every amount phrase and every budget. Its
lemmas `IntervalsMeet` and `BoundsOverlap` are arithmetic; `PriceReadable` says
that a search never runs on an amount that nobody could read. A budget whose
lowest is above its highest is no interval, and the property leaves it out
(section 5).

### The property ledger

`PropertyLedger_proofs` proves for every set of brokers, complexes, units,
listings, requirements and events:

| Theorem | States |
|---|---|
| `LedgerInvariance` | `LedgerSpec => []LedgerInv` |
| `UnitsKept` | `LedgerSpec => []UnitsHaveTheirComplex` |
| `NothingOverwritten` | `LedgerSpec => NothingIsOverwrittenUnseen` |
| `LedgerIsOptimistic` | `LedgerSpec => Ledger!Spec` |

It assumes `LedgerAssumption`: a unit is not also a row of another kind. A write
is judged by what its transaction has read and locked before, so no property is
inductive and `LedgerInv` speaks of transactions in progress:

* `LocksExclude`: two brokers hold a lock together only if both share it;
* `Registers`: a registration past its shared lock finds its complex alive, and
  `Hides`: a deletion has the exclusive lock of a complex that is there, past its
  count of one without units. Neither can commit under the other, whichever counts
  or reads first;
* `Saw`: what a screen has loaded is the row as it is, or an older version of it.
  Rows and their people are loaded by two statements, so between the two it is the
  row up to its people;
* `Writes`: who is about to write has the lock of the row and still has its
  version; people are written only together with the row's version. This is what
  the second UPDATE, of a version nobody edits, is for.

`UpdateStep`, `InsertStep`, `ComplexStep` and `QuietStep` say once what a commit
over a row, a new row, a change of a complex and a step that writes nothing keep
for the other brokers; every action is one of the four.

`LedgerIsOptimistic` says what all this is for. The statements before a commit are
not seen (`RequestUnseen`, `SaveUnseen`); a transaction that ends without writing is
a broker turned away (`TurnedAway`); the second statement of a screen is where the
screen becomes right or old (`LooksStep`, from `Saw`); and each commit is one edit,
removal, registration or deletion of a complex (`EditsRow`, `RemovesRow`,
`RegistersRow`, `ComplexComesOrGoes`), whose guard the locks have kept true since it
was read. It contains the two properties above in substance; `NothingIsOverwrittenUnseen`
stays in the run because it names what a transaction writes, and of
`UnitsHaveTheirComplex` the run checks what the refinement says.

### Sessions and voice memos

`SessionKeepsItsTerm` says that a session in use does not end before its idle
time, up to a tolerance. How large that tolerance must be was found by the proof.
An earlier form of the property took it to be the update interval plus the delay
of one request; the step of `ReadSession` could not be proved, and TLC shows why
with an idle time of 8, an update interval of 1 and a delay of 3: a
request that read the row early writes an older `last_seen_at` over a newer one,
and a third request arrives in the pause. The bound that the code does keep is
`IdleTimeout - MaxDelay - Greatest(UpdateEvery, MaxDelay)`, and `TermKept` proves
it for every timeout, interval and delay. `SessionInv` says how far the row lags
behind the last accepted visit (`Lag`), for the row and for each request between
its read and its write (`CallHolds`), and that a request which is about to expire
a session found it idle for that long (`WasIdle`).

`VoiceMemoSafe`: two uploads never hold the slot together, although it passes from
the request to its task, to both, and back through the callback, and the request
may leave at any of these moments. `VoiceInv` names who has it (`HasSlot`), shows
that it is one (`HasSlot(m) /\ HasSlot(n) => m = n`), and that an audio file
belongs to a copy or to a working task. The other half of the property is that a
ticked proposal is in `heard \ filled`, for any analysis and any form. It rests on
the named assumption that a form without a ledger has no filled fields, which is
how `f2Api.ts` sends it.

### The agenda

`EachOnce` (`PagesShowEachOnce`) holds for every ledger, window, limit and page
size, and whenever midnights come. It assumes (`AgendaAssumption`) that an office
has finitely many rows, that ids are positive and that dates are days. What the
pages of one day list is the same set, so all depends on ORDER BY:

* `OrderIsTotal`: of two different entries of a ledger one comes before the other.
  A key has ten places (`Keys`), the day, the kind, and for each id whether it is
  NULL and then the id, all of them integers (`EntryKeys`); entries that agree in
  every place are the same entry.
* `OneOrdering`: a finite set has therefore one ordering. Of two different ones
  take the first place where they differ; the entry that one has there stands
  later in the other, and each would come before the other. The first place is
  the least element of a set of numbers (`LeastOfSet`, from the well-founded
  order of the natural numbers), which takes the place of an induction.
* `RowNumbers`: the entries of one kind are numbered without gaps, by counting
  the places up to each; `KeptOfKind` turns that into how many a limit keeps and
  that none of them is due after one that was cut.
* `PageOfRows`: a beginning of a sequence and the page that follows it are the
  next beginning.

`AgendaInv` then says that on a quiet ledger the counts are those of the entries of
the request's day (`CountsHold`), that over answers of one day what has been read
is the beginning of the one sequence that is listed (`PagesHold`), and that nothing that was skipped comes back (`Gone`). A key
of the day and the kind alone breaks the second step, and the property with it:
that is the mutant.

### What a run reads and shows

* `SelectionKept` (`SelectionKeepsToItsVersion`). A search reads a requirement, its
  complexes and the candidates in three statements and stores under a fourth;
  saves commit in between. `VersionTellsRow`: as long as the version is the one
  filed, the row says what it said then. `CriteriaKept`: the criteria of each
  stage are those of the filed row if the version has not moved, and for good
  once the list is stored.
* `SameLogs` (`SameSourceSameLogs`). A stage keeps a digest of the scope, a count,
  the latest time and the greatest id; if a later look finds the same four, the
  logs in scope are the ones it has shown the model. Proved for any number of
  logs that are added, voided or moved: the same digest is the same scope; up to
  the greatest id the stage has read everything that scope has (`ReadingCovers`),
  and a voided log stays voided, so what is in scope now is a part of it; a part
  with as many members is all of it. `Max` and `Cardinality` of finite sets are
  the only library facts.
* `PagesWhole` (`PagesAreWhole`). A poll reads status, header and judgments in
  turn while the run moves. `RunHolds` and `JudgmentsHold` say what is stored by
  which status, `HeaderRead` that what the poll has read is the header of now, or
  of before the cards. A poll that read `COMPLETED` first therefore shows every
  judgment, and a page shows each rank once.

### Models and their answers

* `ModelsAtRest` (`ModelsChangeAtRest`): the operators' tools lock four tables in
  one order, check and write; filings and chat submissions hold row locks and the
  row of their office. `TablesExclude` and `OfficesExclude` are the conflict
  tables of PostgreSQL, `WorkHolds` says which lock covers a row that is written
  and not committed, `CallHolds` which locks a tool has come to, `CheckedHolds`
  that what it has checked is still so when it writes. Assumed: some tasks of the
  chat are tasks, and operators, runs and chat requests have different names.
* `Grounded` (`StoredIsGrounded`): `CardsFinal` – an accepted card never changes
  and quotes its own log only; `JudgmentHolds` – the judgment starts over final
  cards only, has each candidate once (`EachOnce`, from the list of an answer to
  the set that is stored, by counting) and takes its evidence from the cards
  (`FromCards`). `QuotesFound` shows that what was accepted can be resolved, so
  that storing never refuses it.

### The operators' commands

* `PasswordHeld`: once the runtime secret exists, the database accepts a password
  that Secrets Manager holds, the current or the pending one, whatever command is
  killed at whatever step, for every group, profile and number of passwords. The
  property speaks of two services, and a command carries a password from one to
  the other. `DbInv` adds where a carried password is held: a rotation carries the
  pending one (`Rotating`), a bootstrap the current one or, where there is none
  yet, the first, which it stores only after the database has it
  (`Bootstrapping`).
* `OneLoad`: `FirstEngineLoaded` – the second engine exists only after the first
  has listed its model – and `Answers`, all that a caller can be told, in order:
  behind an answer that has begun only a 413 can come, never a 502.
* `SearchInItsTime`: `ClockHolds` bounds, while all calls were prompt, how far the
  clock may be from the time the search began at each step of it (`Used`), whatever
  the three limits are; `InvocationHolds` says that an invocation has told all
  records before the one it is at. The limit of a message is arithmetic over the lengths
  of its parts, for every limit with `HeadLength + NameLimit <= ContentLimit`.
* `ReleaseReviewed`: `DeskHolds` – a bundle nobody edited passes the inspection;
  `PublishHolds` – a publisher puts what it inspected, the manifest after its own
  bundle, so `BucketHolds` – the two objects are of one bundle, whoever of two
  publishers came first; `BootHolds` – a Pod unpacks the bundle whose checksum it
  was created with.
* `CreateIsTrue`: `PodOfCmd`, `RouteHolds` and `ApiHolds` say at every step of a
  command which Pod it works on, what it has written to the route and what the
  API was last started with. A second operator registers images and rotates keys
  meanwhile, and that changes neither.

### The development environment

`Serving_proofs` proves the three properties of `Serving` for every set of
workloads and models, any number of commands, and a failure or a kill of any call.
It assumes `ServingAssumption`: finitely many workloads, and selections that give
each of them one of the two clouds and a model. `ServingInv` has a part for every
question a step asks:

| Part | What it says | Used for |
|---|---|---|
| `ServingForm`, `SpecHolds`, `RouteHolds`, `AppliedHolds` | what the parameters, the command and the hosts look like | all |
| `OwnHolds` | what this attempt turned on was off in its inventory, and is in its receipts or about to be | the clean-up finds it |
| `CleanHolds` | a clean-up without trouble has taken the routes of the workloads it is done with, and knows all that is on | `NothingLeftRunning` |
| `StopHolds` | a stop without errors has left dark what it is done with | `NothingLeftRunning` |
| `HostHolds` | containers run only on a host that is up and has a revision; from the maintenance to its end they do not | `ServingInOrder` |
| `ServeHolds` | workloads that are done are served by the selected model; from there to the end the database names that selection | `AppliedMeansServed` |

None of the three is visible in a single step. That a failed start leaves nothing
depends on the inventory read at its beginning: a GPU that was off then and is on
now can only be its own, because one power command runs at a time – the rule of
`infra/operations/configuration.md` the model takes over. `CleanAfterwards` needs
it for a creation that was never answered as well: the adopted Pod is in
`receipts` by its attempt, not by the answer. `InOrder` is split over the groups of
`ServingCases` (planning, infrastructure, power-up, preparation, application,
failure, stop); `RoutesLead` and `ModelsWait` treat them one by one.

### The unions

A run over a union would be worth little if the union let a component do less or
more than its own module says, and a theorem about a component says nothing of a run
unless the run's behaviours are behaviours of that component. `UnionOfComponents`, in
`Backend_proofs`, `Brokerage_proofs` and `Operations_proofs`, proves the second: under
`BackendSpec`, `BrokerageSpec` and `OperationsSpec` each component follows its own
specification (`Only` lets one of them move and keeps the others). So every theorem
above holds in the runs. That each component is also free to do all that it may do
is plain from `Only`, and the runs take every action.

### Only model-checked

* *Liveness*, `EverythingEnds` and `LifecycleSettles`: fairness and `ENABLED` are
  out of the prover's reach.
* *The four statements of section 5* are refuted by a run; there is nothing to
  prove.

## 5. Where the documents and the code differ

* **`ResumeSparesWorkerLease`** – ADR-0018 says that taking over a run that has
  its anchor card leaves the lease of a working worker alone. The UPDATE clears
  it also between that worker's commit of `ANCHOR_READY` and its parking; the
  worker then ends with a lost lease and the run waits for another claim.
  Nothing is lost (`AnsweredRunIsPursued`, `NoRunStranded` hold).
* **`UserRequestRemembered`** – the comment in `service.py` says the user's
  request is remembered whatever stage the save's run is in. If the run ends
  between the lookup and the UPDATE, the user is given the ended run.
* **`ScopeChangeSupersedes`** – the API contract says a change of the
  consultation scope during a run supersedes it; after the anchor's card is
  stored only row versions are compared.
* **`DrainTimeoutKeepsRouting`** – `serving_maintenance.sh` says GPU resources
  and routing must be kept when the workloads do not drain in time; the clean-up
  of a failed start reports that timeout and removes both.

Seen while modelling, without a run of their own:

* `repair.py` and ADR-0003 bound a stage by nine provider calls; the stage of the
  candidates' cards makes up to nine for each candidate.
* A requirement whose named complexes have all been deleted is searched over any
  complex: `inputs.py` returns no name, and `candidate_search.py` reads no name
  as no wish.
* `backfill.py` applies its `limit` before it looks which anchors have a run
  already: called again it takes the first ones again.
* A comment in `vllm.py` (line 122) expects a truncated reply to arrive there as
  one without content, to be repaired; the client library raises its own error
  for it before.
* Nothing in the ledger keeps a buyer's lowest budget below the highest. A buyer
  for whom it is above is matched to a question by comparing the ends, and
  overlaps no amount; `BudgetsOverlapTheQuestion` is about the others.
* `docs/architecture/chatbot/persistence.md` says that deleting a conversation
  tells the running task to cancel. `ChatbotManager.remove` deletes the rows only;
  the task finds out at its next transition and keeps its slot until then, as the
  comment in `remove` says. `EverythingEnds` holds for that behaviour.

## 6. Not modelled, and why

* *Application wiring and configuration*: start-up code and settings, no protocol.
* *Frontend*: screens; the polling hook and the chat controller hold a little
  state of their own, which no module follows.
* *Other delivery tools* (rendering of environment files, plan guards, release
  checks) compute a document from a document and keep no state.
* *Data and evaluation scripts*: sequential programs over files.
* *The backfill* files what a save files and has no action of its own.
* *Wide columns, consent, list filters* of the ledger are one opaque value;
  prompts, schemas and the wording, order and paging of chat answers are left
  out, and so are cookies, token hashes and `touch_last_contact`.
* *A person of two units.* `_replace_unit_parties` adds a new person for a new
  place of a unit, so what is typed in the ledger is never shared. The seed
  (`property_ledger/commands.py:244`) ties one landlord to two units, and imports
  may: a new name saved with one unit then shows at the other, whose version stays.
  `NothingIsOverwrittenUnseen` and `ImplementsOptimisticLedger` speak of units
  with people of their own.
* A `LEDGER_SAVE` run whose anchor has changed since it was parked stays
  `ANCHOR_READY` for ever: no filing, claim or clean-up finds it. `RunLifecycle`
  counts it as at rest, as the code does.
* Two saves of one unit, one of its columns and people and one of its people
  alone, may wait for each other; PostgreSQL aborts one, and no property forbids
  that. The model has the wait and the abort.

## 7. Plan

1. **Proofs** – every invariant and action property of the runs is a theorem, and
   so is each refinement. What is left to TLC is liveness.
2. **Composition** – `PositionCards` over the claims of `AgentRun` instead of
   attempt numbers, shown by a refinement mapping from rows to attempts; then a
   retry that races.
3. **Frontend** – the polling hook and the chat controller beside `RunResults`
   and `ChatEvents`: late answers of an earlier poll, a stream that reconnects.
4. **Filing** – the save and its run in one module: what a broker who saves and
   never asks may rely on when the second transaction fails.
