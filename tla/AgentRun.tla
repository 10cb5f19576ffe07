------------------------------ MODULE AgentRun ------------------------------
(***************************************************************************)
(* F3 brokerage runs: the agent_run table, the API that files runs into    *)
(* it, and the worker processes that claim a run, drive it stage by stage  *)
(* under a lease, park it, retry it or end it.                             *)
(*                                                                         *)
(* The table and the ledger live in PostgreSQL and are shared; a worker's  *)
(* job is the local state of one process.  A step of this module is one    *)
(* database transaction, or the part of one up to the point where another  *)
(* transaction may slip in between two of its statements.                  *)
(*                                                                         *)
(* A definition under a comment that begins with "Faulty" is a plausible   *)
(* mistake in the definition after it, which the properties must catch;    *)
(* no action uses it.                                                      *)
(***************************************************************************)
EXTENDS Naturals

CONSTANTS
    Worker,      \* worker ids; a restarted process gets a new one
    NoWorker,    \* lease_owner IS NULL
    Anchor,      \* ledger rows (a listing or a requirement of a brokerage)
    MaxRuns,     \* bound: rows of agent_run
    MaxVersion,  \* bound: row_version an anchor may reach
    MaxAttempts  \* MAX_CLAIM_ATTEMPTS

ASSUME ConstantsAssumption ==
    /\ NoWorker \notin Worker
    /\ Anchor # {}
    /\ MaxRuns \in Nat \ {0}
    /\ MaxVersion \in Nat \ {0}
    /\ MaxAttempts \in Nat \ {0}

VARIABLES
    run,       \* agent_run: one row per run id
    version,   \* row_version of each anchor in the ledger
    intake,    \* per anchor: the filing transaction that holds its advisory lock
    answered,  \* run ids returned to users who asked for a judgment
    job        \* per worker: where its process is

vars == <<run, version, intake, answered, job>>

Run == 1..MaxRuns

-----------------------------------------------------------------------------
(* Vocabulary of the rows. *)

InProgress ==
    {"RUNNING", "ANCHOR_READY", "CANDIDATES_READY", "CANDIDATE_CARDS_READY",
     "JUDGING"}
ReusableActive == InProgress \cup {"QUEUED"}
Terminal == {"COMPLETED", "FAILED_TERMINAL", "SUPERSEDED"}
Trigger == {"LEDGER_SAVE", "USER_REQUEST"}

\* lease_expires_at seen from the database clock: NULL, well ahead of now(),
\* ahead but due for renewal, behind now().
Live == {"fresh", "aging"}
Lease == Live \cup {"none", "expired"}

Row == [status: ReusableActive \cup Terminal \cup {"ABSENT"},
        trigger: Trigger,
        owner: Worker \cup {NoWorker},
        lease: Lease,
        attempt: Nat,
        anchor: Anchor,
        version: 1..MaxVersion,
        candidates: BOOLEAN]      \* the selection picked at least one

\* Places of a worker.  The three outcomes are the failures a step ended in,
\* before they are written to the row.
Outcome == {"RETRY", "SUPERSEDED", "FAILED_TERMINAL"}
Place == {"idle", "claimed", "park", "select", "calling", "storing", "stopped"}
            \cup Outcome

Job == [at: Place, run: Run \cup {0}, attempt: Nat,
        status: InProgress \cup {"none"}]
Idle == [at |-> "idle", run |-> 0, attempt |-> 0, status |-> "none"]

\* A filing looks for a run to reuse, then files.
NoIntake == [at |-> "none", trigger |-> "none", version |-> 0, found |-> 0]
Intake == [at: {"looking", "filing"}, trigger: Trigger,
           version: 1..MaxVersion, found: Run \cup {0}]

-----------------------------------------------------------------------------
(* Conditions the statements put on a row. *)

\* Faulty: takes a run for resting only once it has no holder.
RestingWhenUnowned(r) ==
    /\ run[r].trigger = "LEDGER_SAVE" /\ run[r].status = "ANCHOR_READY"
    /\ run[r].owner = NoWorker

\* A save's run that has its anchor card and waits for a user.
Resting(r) ==
    run[r].trigger = "LEDGER_SAVE" /\ run[r].status = "ANCHOR_READY"

\* Faulty: forgets that a handed-off run has no lease.
HandedOffAnyLease(r) ==
    run[r].trigger # "LEDGER_SAVE" /\ run[r].status = "ANCHOR_READY"

\* A run a user has taken over while it rested: nobody holds it.
HandedOff(r) ==
    /\ run[r].trigger # "LEDGER_SAVE"
    /\ run[r].status = "ANCHOR_READY"
    /\ run[r].owner = NoWorker
    /\ run[r].lease = "none"

\* Faulty: claims a parked run, or no handed-off run.
ClaimableParked(r) ==
    \/ run[r].status \in {"QUEUED", "ANCHOR_READY"} /\ run[r].owner = NoWorker
    \/ /\ run[r].status \in InProgress /\ run[r].lease = "expired"
       /\ run[r].attempt < MaxAttempts
ClaimableNotHandedOff(r) ==
    /\ ~Resting(r)
    /\ \/ run[r].status = "QUEUED"
       \/ /\ run[r].status \in InProgress /\ run[r].lease = "expired"
          /\ run[r].attempt < MaxAttempts

Claimable(r) ==
    /\ ~Resting(r)
    /\ \/ run[r].status = "QUEUED"
       \/ HandedOff(r)
       \/ /\ run[r].status \in InProgress
          /\ run[r].lease = "expired"
          /\ run[r].attempt < MaxAttempts

\* Faulty: misses the last attempt, or does not wait for the lease.
OverAttemptLimitPast(r) ==
    /\ ~Resting(r) /\ run[r].status \in InProgress
    /\ run[r].lease = "expired" /\ run[r].attempt > MaxAttempts
OverAttemptLimitLive(r) ==
    /\ ~Resting(r) /\ run[r].status \in InProgress
    /\ run[r].attempt >= MaxAttempts

OverAttemptLimit(r) ==
    /\ ~Resting(r)
    /\ run[r].status \in InProgress
    /\ run[r].lease = "expired"
    /\ run[r].attempt >= MaxAttempts

\* The claim a worker's statements name: lease_owner and attempt_count.
Claimed(w) ==
    /\ job[w].run # 0
    /\ run[job[w].run].owner = w
    /\ run[job[w].run].attempt = job[w].attempt

\* The fence of every worker statement: the claim, a lease that has not
\* expired, and a status the statement expects.
Fenced(w, statuses) ==
    /\ Claimed(w)
    /\ run[job[w].run].lease \in Live
    /\ run[job[w].run].status \in statuses

\* The anchor still has the version the run was filed for.
InputCurrent(r) == version[run[r].anchor] = run[r].version

\* Faulty: does not see a queued run.
ReusableInProgress(a, v) ==
    {r \in Run : /\ run[r].status \in InProgress
                 /\ run[r].anchor = a
                 /\ run[r].version = v}

\* Active runs already filed for a version of an anchor.
ReusableRuns(a, v) ==
    {r \in Run : /\ run[r].status \in ReusableActive
                 /\ run[r].anchor = a
                 /\ run[r].version = v}

FreeIds == {r \in Run : run[r].status = "ABSENT"}

Ended(row, status) ==
    [row EXCEPT !.status = status, !.owner = NoWorker, !.lease = "none"]

-----------------------------------------------------------------------------
Init ==
    /\ run = [r \in Run |->
                [status |-> "ABSENT", trigger |-> "LEDGER_SAVE",
                 owner |-> NoWorker, lease |-> "none", attempt |-> 0,
                 anchor |-> CHOOSE a \in Anchor : TRUE, version |-> 1,
                 candidates |-> FALSE]]
    /\ version = [a \in Anchor |-> 1]
    /\ intake = [a \in Anchor |-> NoIntake]
    /\ answered = {}
    /\ job = [w \in Worker |-> Idle]

-----------------------------------------------------------------------------
(* The ledger and the filing of runs. *)

\* A save that changes the anchor bumps its row_version.
SaveLedger(a) ==
    /\ version[a] < MaxVersion
    /\ version' = [version EXCEPT ![a] = @ + 1]
    /\ UNCHANGED <<run, intake, answered, job>>

\* Filing begins: take the anchor's advisory lock, then read its version.
IntakeBegin(a, trigger) ==
    /\ intake[a] = NoIntake
    /\ intake' = [intake EXCEPT ![a] =
          [at |-> "looking", trigger |-> trigger, version |-> version[a],
           found |-> 0]]
    /\ UNCHANGED <<run, version, answered, job>>

\* Look for the newest active run of that version.  (Bound: a row is free to
\* insert into if there is none.)
IntakeFind(a) ==
    LET reusable == ReusableRuns(a, intake[a].version) IN
    /\ intake[a].at = "looking"
    /\ \/ /\ reusable = {} /\ FreeIds # {}
          /\ intake' = [intake EXCEPT ![a].at = "filing"]
       \/ \E r \in reusable :
            /\ \A q \in reusable : q <= r
            /\ intake' = [intake EXCEPT ![a].at = "filing", ![a].found = r]
    /\ UNCHANGED <<run, version, answered, job>>

\* The response of POST /f3/runs; a save's own filing answers nobody.
Answer(a, r) ==
    answered' = IF intake[a].trigger = "USER_REQUEST"
                THEN answered \cup {r} ELSE answered

\* Nothing to reuse: insert a QUEUED run for the version
\* read under the lock.
IntakeInsert(a) ==
    /\ intake[a].at = "filing"
    /\ intake[a].found = 0
    /\ \E r \in FreeIds :
        /\ \A q \in FreeIds : r <= q
        /\ run' = [run EXCEPT ![r] =
              [status |-> "QUEUED", trigger |-> intake[a].trigger,
               owner |-> NoWorker, lease |-> "none", attempt |-> 0,
               anchor |-> a, version |-> intake[a].version,
               candidates |-> FALSE]]
        /\ Answer(a, r)
    /\ intake' = [intake EXCEPT ![a] = NoIntake]
    /\ UNCHANGED <<version, job>>

\* Faulty: records the wish only in a parked run.
ResumesParkedOnly(a) ==
    /\ intake[a].trigger # "LEDGER_SAVE"
    /\ run[intake[a].found].trigger = "LEDGER_SAVE"
    /\ run[intake[a].found].status = "ANCHOR_READY"

\* A user asked for the run a save filed: resume_ledger_save_run.  The row is
\* matched again when the UPDATE runs, for a worker may have moved it since.
Resumes(a) ==
    /\ intake[a].trigger # "LEDGER_SAVE"
    /\ run[intake[a].found].trigger = "LEDGER_SAVE"
    /\ run[intake[a].found].status \in ReusableActive

Resumed(row) ==
    IF row.status = "ANCHOR_READY"
    THEN [row EXCEPT !.trigger = "USER_REQUEST", !.owner = NoWorker,
                     !.lease = "none"]
    ELSE [row EXCEPT !.trigger = "USER_REQUEST"]

\* A run to reuse: record the user's wish in it if it
\* was a save's, and return it whatever has become of it.
IntakeReuse(a) ==
    /\ intake[a].at = "filing"
    /\ intake[a].found # 0
    /\ run' = IF Resumes(a)
              THEN [run EXCEPT ![intake[a].found] = Resumed(@)]
              ELSE run
    /\ Answer(a, intake[a].found)
    /\ intake' = [intake EXCEPT ![a] = NoIntake]
    /\ UNCHANGED <<version, job>>

\* Filing fails, or its API process dies: the transaction and its lock go.
IntakeAbort(a) ==
    /\ intake[a] # NoIntake
    /\ intake' = [intake EXCEPT ![a] = NoIntake]
    /\ UNCHANGED <<run, version, answered, job>>

-----------------------------------------------------------------------------
(* Claiming. *)

\* Faulty: starts every claimed run from the beginning.
ClaimedRowRestarts(r, w) ==
    [run[r] EXCEPT !.status = "RUNNING", !.owner = w, !.lease = "fresh",
                   !.attempt = IF HandedOff(r) THEN @ ELSE @ + 1]

\* The row a claim leaves: a first claim starts the run; a handoff is planned
\* and costs no attempt.
ClaimedRow(r, w) ==
    [run[r] EXCEPT
        !.status = IF @ = "QUEUED" THEN "RUNNING" ELSE @,
        !.owner = w,
        !.lease = "fresh",
        !.attempt = IF HandedOff(r) THEN @ ELSE @ + 1]

\* fail_runs_over_attempt_limit, the first statement of every poll.
CleanedRow(r) ==
    IF OverAttemptLimit(r) THEN Ended(run[r], "FAILED_TERMINAL") ELSE run[r]

\* One poll: end the runs that used up their attempts and claim one run, or
\* none, in one transaction.  Rows locked by others are skipped, so any
\* claimable run may be the one.
ClaimNextRun(w) ==
    /\ job[w].at = "idle"
    /\ \E r \in Run :
        /\ Claimable(r)
        /\ run' = [q \in Run |->
                     IF q = r THEN ClaimedRow(r, w) ELSE CleanedRow(q)]
        /\ job' = [job EXCEPT ![w] =
              [at |-> "claimed", run |-> r, attempt |-> ClaimedRow(r, w).attempt,
               status |-> "none"]]
    /\ UNCHANGED <<version, intake, answered>>

ClaimNothing(w) ==
    /\ job[w].at = "idle"
    /\ \A r \in Run : ~Claimable(r)
    /\ \E r \in Run : OverAttemptLimit(r)
    /\ run' = [q \in Run |-> CleanedRow(q)]
    /\ UNCHANGED <<version, intake, answered, job>>

-----------------------------------------------------------------------------
(* One step of a run: read the row, prepare, call the model, store. *)

\* The places a worker moves to; a step that ends the drive frees the worker.
Goes(w, place) == job' = [job EXCEPT ![w].at = place]
Frees(w) == job' = [job EXCEPT ![w] = Idle]

\* The worker reads its run again and enters the step its status asks for.
Enters(w, place) ==
    LET r == job[w].run IN
    job' = [job EXCEPT ![w] = [at |-> place, run |-> r,
                               attempt |-> run[r].attempt,
                               status |-> run[r].status]]

\* What find_leased_run answers a step that begins with the row as it is now.
HoldsLease(w) ==
    run[job[w].run].owner = w /\ run[job[w].run].lease \in Live

\* A resting run of a save: the worker will try to park it.
ReadToPark(w) ==
    /\ job[w].at = "claimed"
    /\ Resting(job[w].run)
    /\ Enters(w, "park")
    /\ UNCHANGED <<run, version, intake, answered>>

\* A run that has ended, or moved where no step of the worker leads.
ReadEnded(w) ==
    /\ job[w].at = "claimed"
    /\ run[job[w].run].status \notin InProgress
    /\ Frees(w)
    /\ UNCHANGED <<run, version, intake, answered>>

\* The step finds its lease gone: LEASE_LOST, nothing is written.
ReadLeaseLost(w) ==
    /\ job[w].at = "claimed"
    /\ run[job[w].run].status \in InProgress
    /\ ~Resting(job[w].run)
    /\ ~HoldsLease(w)
    /\ Frees(w)
    /\ UNCHANGED <<run, version, intake, answered>>

\* The anchor changed since the run was filed.
ReadStaleInput(w) ==
    /\ job[w].at = "claimed"
    /\ run[job[w].run].status \in InProgress
    /\ ~Resting(job[w].run)
    /\ HoldsLease(w)
    /\ ~InputCurrent(job[w].run)
    /\ Enters(w, "SUPERSEDED")
    /\ UNCHANGED <<run, version, intake, answered>>

\* Assembling the bindings or the input raises: no model is configured, the
\* anchor is gone, the recorded binding differs, a statement fails.  Behind
\* the lease check, a candidate's ledger row may turn out to have changed.
PrepareRaises(w) ==
    /\ job[w].at = "claimed"
    /\ run[job[w].run].status \in InProgress
    /\ ~Resting(job[w].run)
    /\ \E outcome \in Outcome :
        /\ outcome = "SUPERSEDED" =>
              /\ HoldsLease(w)
              /\ run[job[w].run].status \in
                    {"CANDIDATES_READY", "CANDIDATE_CARDS_READY", "JUDGING"}
        /\ Enters(w, outcome)
    /\ UNCHANGED <<run, version, intake, answered>>

\* The input is current.  Selecting candidates needs no model: its store
\* transaction is already open.  The other stages close theirs and call the
\* model; a judgment with candidates records JUDGING before it does.
Prepare(w) ==
    LET r == job[w].run IN
    /\ job[w].at = "claimed"
    /\ run[r].status \in InProgress
    /\ ~Resting(r)
    /\ HoldsLease(w)
    /\ InputCurrent(r)
    /\ \/ /\ run[r].status = "ANCHOR_READY"
          /\ Enters(w, "storing")
          /\ UNCHANGED run
       \/ /\ run[r].status \in {"RUNNING", "CANDIDATES_READY", "JUDGING"}
          /\ Enters(w, "calling")
          /\ UNCHANGED run
       \/ /\ run[r].status = "CANDIDATE_CARDS_READY"
          /\ ~run[r].candidates
          /\ Enters(w, "calling")
          /\ UNCHANGED run
       \/ /\ run[r].status = "CANDIDATE_CARDS_READY"
          /\ run[r].candidates
          /\ run' = [run EXCEPT ![r].status = "JUDGING"]
          /\ job' = [job EXCEPT ![w] =
                [at |-> "calling", run |-> r, attempt |-> run[r].attempt,
                 status |-> "JUDGING"]]
    /\ UNCHANGED <<version, intake, answered>>

\* park_ledger_save_run: the conditional UPDATE, without an expiry check.
Park(w) ==
    LET r == job[w].run IN
    /\ job[w].at = "park"
    /\ \/ /\ Resting(r) /\ Claimed(w)
          /\ run' = [run EXCEPT ![r].owner = NoWorker, ![r].lease = "none"]
          /\ Frees(w)
       \/ /\ ~(Resting(r) /\ Claimed(w))
          /\ Goes(w, "select")
          /\ UNCHANGED run
    /\ UNCHANGED <<version, intake, answered>>

\* The worker opens its store transaction: the lease and the input are
\* checked against the clock and the ledger of this moment.
StoreBegin(w) ==
    /\ job[w].at \in {"calling", "select"}
    /\ \/ /\ ~Fenced(w, {job[w].status})
          /\ Frees(w)
       \/ /\ Fenced(w, {job[w].status})
          /\ ~InputCurrent(job[w].run)
          /\ Goes(w, "SUPERSEDED")
       \/ /\ Fenced(w, {job[w].status})
          /\ InputCurrent(job[w].run)
          /\ Goes(w, "storing")
    /\ UNCHANGED <<run, version, intake, answered>>

NextStatus(status) ==
    CASE status = "RUNNING"               -> "ANCHOR_READY"
      [] status = "ANCHOR_READY"          -> "CANDIDATES_READY"
      [] status = "CANDIDATES_READY"      -> "CANDIDATE_CARDS_READY"
      [] status = "CANDIDATE_CARDS_READY" -> "COMPLETED"
      [] status = "JUDGING"               -> "COMPLETED"

\* The conditional UPDATE that moves the run, and the commit.  now() is the
\* start of the transaction, where the lease was live: what may have changed
\* since is the row, so a lease that merely expired does not stop it.  A
\* heartbeat that failed meanwhile is seen first, and the worker gives the run
\* up with the stage stored (selecting candidates leaves no time for a beat).
StoreCommit(w) ==
    LET r == job[w].run
        next == NextStatus(job[w].status)
    IN
    /\ job[w].at = "storing"
    /\ \/ /\ Claimed(w)
          /\ run[r].status = job[w].status
          /\ \E some \in IF next = "CANDIDATES_READY" THEN BOOLEAN
                         ELSE {run[r].candidates} :
                run' = [run EXCEPT ![r].status = next, ![r].candidates = some]
          /\ \/ next # "COMPLETED" /\ Goes(w, "claimed")
             \/ next = "COMPLETED" /\ Frees(w)
             \/ job[w].status # "ANCHOR_READY" /\ Frees(w)
       \/ /\ ~(Claimed(w) /\ run[r].status = job[w].status)
          /\ Frees(w)
          /\ UNCHANGED run
    /\ UNCHANGED <<version, intake, answered>>

\* The step raises.  The model call fails for now or for good, a candidate's
\* row changes before its card is stored; the store transaction rolls back on
\* changed sources, unusable cards or a broken contract; before it, and when
\* parking, a statement may fail, which is retried.
StepRaises(w) ==
    /\ \E outcome \in Outcome :
        /\ \/ job[w].at = "storing"
           \/ /\ job[w].at = "calling"
              /\ outcome = "SUPERSEDED" => job[w].status = "CANDIDATES_READY"
           \/ job[w].at \in {"park", "select"} /\ outcome = "RETRY"
        /\ Goes(w, outcome)
    /\ UNCHANGED <<run, version, intake, answered>>

\* record_failure and _release: write the outcome under the fence, or find
\* the lease lost.
Settle(w) ==
    LET r == job[w].run IN
    /\ job[w].at \in Outcome
    /\ run' = IF ~Fenced(w, InProgress) THEN run
              ELSE IF job[w].at = "RETRY"
              THEN [run EXCEPT ![r].lease = "expired"]
              ELSE [run EXCEPT ![r] = Ended(@, job[w].at)]
    /\ Frees(w)
    /\ UNCHANGED <<version, intake, answered>>

-----------------------------------------------------------------------------
(* Time and failure. *)

\* The heartbeat renews a lease that has not expired.
RenewLease(w) ==
    /\ job[w].at \in {"calling", "storing"}
    /\ Fenced(w, InProgress)
    /\ run[job[w].run].lease = "aging"
    /\ run' = [run EXCEPT ![job[w].run].lease = "fresh"]
    /\ UNCHANGED <<version, intake, answered, job>>

\* A heartbeat that fails, for a lost lease or an unreachable database,
\* cancels the step and gives the run up.
HeartbeatFails(w) ==
    /\ job[w].at = "calling"
    /\ Frees(w)
    /\ UNCHANGED <<run, version, intake, answered>>

\* The database clock passes: a lease comes due, then expires.
LeaseAges(r) ==
    /\ run[r].status \in InProgress
    /\ run[r].lease \in Live
    /\ run' = [run EXCEPT ![r].lease = IF @ = "fresh" THEN "aging" ELSE "expired"]
    /\ UNCHANGED <<version, intake, answered, job>>

\* A worker process ends: killed anywhere, or by SIGTERM between two steps.
\* Its lease stays in the row.  (Bound: the last worker stays up.)
WorkerStops(w) ==
    /\ job[w].at # "stopped"
    /\ \E v \in Worker \ {w} : job[v].at # "stopped"
    /\ job' = [job EXCEPT ![w] = [Idle EXCEPT !.at = "stopped"]]
    /\ UNCHANGED <<run, version, intake, answered>>

-----------------------------------------------------------------------------
Polls(w) == ClaimNextRun(w) \/ ClaimNothing(w)

Steps(w) ==
    \/ ReadToPark(w) \/ ReadEnded(w) \/ ReadLeaseLost(w) \/ ReadStaleInput(w)
    \/ PrepareRaises(w) \/ Prepare(w) \/ Park(w) \/ StoreBegin(w)
    \/ StoreCommit(w) \/ StepRaises(w) \/ Settle(w)

IntakeProceeds(a) ==
    IntakeFind(a) \/ IntakeInsert(a) \/ IntakeReuse(a) \/ IntakeAbort(a)

Next ==
    \/ \E a \in Anchor :
        \/ SaveLedger(a)
        \/ \E trigger \in Trigger : IntakeBegin(a, trigger)
        \/ IntakeProceeds(a)
    \/ \E w \in Worker :
        \/ Polls(w) \/ Steps(w)
        \/ RenewLease(w) \/ HeartbeatFails(w) \/ WorkerStops(w)
    \/ \E r \in Run : LeaseAges(r)

Spec == Init /\ [][Next]_vars

\* A run nobody is driving: its lease is not renewed and so runs out.
Abandoned(r) == \A w \in Worker : ~(job[w].run = r /\ run[r].owner = w)

\* Workers poll while they are idle and finish the steps they begin, since
\* model calls and statements have timeouts; a lease nobody renews runs out;
\* a filing ends.  Saves, user requests, crashes and renewals owe nothing.
Fairness ==
    /\ \A w \in Worker : WF_vars(Polls(w)) /\ WF_vars(Steps(w))
    /\ \A r \in Run : WF_vars(Abandoned(r) /\ LeaseAges(r))
    /\ \A a \in Anchor : WF_vars(IntakeProceeds(a))

FairSpec == Spec /\ Fairness

-----------------------------------------------------------------------------
(* Properties. *)

TypeOK ==
    /\ run \in [Run -> Row]
    /\ version \in [Anchor -> 1..MaxVersion]
    /\ intake \in [Anchor -> Intake \cup {NoIntake}]
    /\ answered \in SUBSET Run
    /\ job \in [Worker -> Job]

\* One input is judged once: requests and saves that meet on the same anchor
\* and version share one active run, across API processes (lock_run_intake).
OneActiveRunPerInput ==
    \A p, q \in Run :
        /\ run[p].status \in ReusableActive
        /\ run[q].status \in ReusableActive
        /\ run[p].anchor = run[q].anchor
        /\ run[p].version = run[q].version
        => p = q

\* A save pays for an anchor card and no more: until a user asks, no run it
\* filed gets past ANCHOR_READY, whoever raced whom to park it (F3-CR-01..04).
SaveStopsAtAnchorCard ==
    \A r \in Run :
        run[r].trigger = "LEDGER_SAVE" =>
            run[r].status \notin {"CANDIDATES_READY", "CANDIDATE_CARDS_READY",
                                 "JUDGING", "COMPLETED"}

\* A user is never handed a run that no worker will take up again: the run
\* rests for a user only while none has asked for it.
AnsweredRunIsPursued == \A r \in answered : ~Resting(r)

\* A worker that still owns the row of its job works on the row as it is: the
\* attempt and, once it has entered a step, the status it read are current.
\* So what it computed from them may be stored (find_leased_run's fence).
OwnerSeesItsRow ==
    \A w \in Worker :
        job[w].run # 0 /\ run[job[w].run].owner = w =>
            /\ job[w].attempt = run[job[w].run].attempt
            /\ job[w].at # "claimed" => job[w].status = run[job[w].run].status

\* A run whose lease is gone is either back among the claimable runs, resting,
\* or about to be ended: none is stranded between the claim's `<`, the
\* clean-up's `>=` and the handoff's NULL lease.
NoRunStranded ==
    \A r \in Run :
        run[r].status \in ReusableActive /\ run[r].lease \notin Live =>
            Claimable(r) \/ Resting(r) \/ OverAttemptLimit(r)

\* A resting run nobody holds is left alone by claims, clean-up, heartbeats
\* and late workers, until a user's request resumes it.
RestingRunUntouched ==
    [][\A r \in Run :
         Resting(r) /\ run[r].owner = NoWorker =>
            run'[r] = run[r] \/ run'[r].trigger = "USER_REQUEST"]_vars

\* An expired lease is never revived: it is live again only under a new claim
\* with its own attempt number (renew_lease).
LeaseNeverRevived ==
    [][\A r \in Run :
         run[r].lease = "expired" /\ run'[r].lease \in Live =>
            run'[r].attempt = run[r].attempt + 1]_vars

\* A run held under a live lease is moved only by a step of the worker that
\* holds it: a worker that lost the run and answers late, a poll, a request
\* or a save never change its status (the fence of every worker statement).
OnlyTheHolderMoves ==
    [][\A r \in Run :
         run[r].lease \in Live /\ run'[r].status # run[r].status =>
            LET holder == run[r].owner IN
            job[holder].run = r /\ job'[holder] # job[holder]]_vars

-----------------------------------------------------------------------------
(* What the table promises to those who poll it. *)

Lifecycle == INSTANCE RunLifecycle WITH
    stage <- [r \in Run |-> run[r].status],
    wanted <- [r \in Run |-> run[r].trigger = "USER_REQUEST"]

\* Claims, retries, hand-offs, parkings and clean-ups never take a run's
\* public status back, out of an ending, or past the anchor card unasked.
ImplementsLifecycle == Lifecycle!Spec

\* Every filed run ends or rests, every wanted run ends.
LifecycleSettles == Lifecycle!Settles

-----------------------------------------------------------------------------
(* The inductive invariant behind the safety properties. *)

\* Only an in-progress run is held; an unowned one waits to be parked or
\* handed off at ANCHOR_READY; a run not yet claimed has no attempt.
RowInv(r) ==
    /\ run[r].status \in {"ABSENT", "QUEUED"} =>
          run[r].owner = NoWorker /\ run[r].lease = "none" /\ run[r].attempt = 0
    /\ run[r].status \in InProgress =>
          /\ (run[r].owner = NoWorker) <=> (run[r].lease = "none")
          /\ run[r].owner = NoWorker => run[r].status = "ANCHOR_READY"
    /\ run[r].attempt <= MaxAttempts
    /\ run[r].trigger = "LEDGER_SAVE" =>
          run[r].status \notin {"CANDIDATES_READY", "CANDIDATE_CARDS_READY",
                               "JUDGING", "COMPLETED"}
    /\ run[r].status = "ABSENT" => run[r].trigger = "LEDGER_SAVE"
    /\ r \in answered =>
          /\ run[r].status # "ABSENT"
          /\ run[r].trigger = "USER_REQUEST" \/ run[r].status \in Terminal

\* A worker's view of its run is current as long as it owns the row, and past
\* the parking it works on an ANCHOR_READY run only if a user wants it.
JobInv(w) ==
    /\ job[w].at \in {"idle", "stopped"} <=> job[w].run = 0
    /\ job[w].at \notin {"idle", "stopped", "claimed"} =>
          job[w].status \in InProgress
    /\ job[w].at \in {"park", "select"} => job[w].status = "ANCHOR_READY"
    /\ job[w].run # 0 =>
          LET row == run[job[w].run] IN
          /\ row.status \notin {"ABSENT", "QUEUED"}
          /\ row.owner = w =>
                /\ job[w].attempt = row.attempt
                /\ job[w].at # "claimed" => job[w].status = row.status
                /\ job[w].at \notin {"claimed", "park", "RETRY"}
                      /\ job[w].status = "ANCHOR_READY" =>
                      row.trigger = "USER_REQUEST"

\* While a filing that found nothing holds its anchor's lock, no run for the
\* version it read appears.
IntakeInv(a) ==
    intake[a] # NoIntake =>
        /\ intake[a].found # 0 =>
              intake[a].at = "filing" /\ run[intake[a].found].status # "ABSENT"
        /\ intake[a].at = "filing" /\ intake[a].found = 0 =>
              \A r \in Run :
                  run[r].status \in ReusableActive /\ run[r].anchor = a =>
                      run[r].version # intake[a].version

IInv ==
    /\ TypeOK
    /\ \A r \in Run : RowInv(r)
    /\ \A w \in Worker : JobInv(w)
    /\ \A a \in Anchor : IntakeInv(a)
    /\ OneActiveRunPerInput

=============================================================================
