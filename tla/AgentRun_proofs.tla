--------------------------- MODULE AgentRun_proofs ---------------------------
(***************************************************************************)
(* Proofs of the safety of AgentRun for every set of workers and anchors   *)
(* and every bound.  The invariant is IInv of AgentRun: no property below  *)
(* is inductive alone, since what a worker may write depends on what it    *)
(* read (JobInv) and what it read on who may have written (RowInv).        *)
(***************************************************************************)
EXTENDS AgentRun, TLAPS

\* The initial states: no run has been filed, every worker is idle.
LEMMA InitIInv == Init => IInv
<1> SUFFICES ASSUME Init PROVE IInv
    OBVIOUS
<1> USE ConstantsAssumption DEF Init
<1>1. TypeOK
    BY DEF TypeOK, Row, Lease, Live, Trigger, ReusableActive, Terminal,
           InProgress, Intake, NoIntake, Job, Place, Outcome, Idle, Run
<1>2. \A r \in Run : RowInv(r)
    BY DEF RowInv, InProgress
<1>3. \A w \in Worker : JobInv(w)
    BY DEF JobInv, Idle
<1>4. \A a \in Anchor : IntakeInv(a)
    BY DEF IntakeInv
<1>5. OneActiveRunPerInput
    BY DEF OneActiveRunPerInput, ReusableActive, InProgress
<1> QED
    BY <1>1, <1>2, <1>3, <1>4, <1>5 DEF IInv

\* Idle is a job, and the places a worker can be in are those of Place.
LEMMA IdleJob == Idle \in Job /\ [Idle EXCEPT !.at = "stopped"] \in Job
    BY DEF Idle, Job, Place, Outcome

\* A step that only moves one worker keeps the invariant if it keeps that
\* worker's own part of it.
LEMMA LocalStep ==
    ASSUME IInv, UNCHANGED <<run, version, intake, answered>>,
           NEW w \in Worker, NEW j \in Job, job' = [job EXCEPT ![w] = j],
           JobInv(w)'
    PROVE  IInv'
<1>1. TypeOK'
    BY DEF IInv, TypeOK
<1>2. (\A r \in Run : RowInv(r))'
    BY DEF IInv, RowInv
<1>3. (\A v \in Worker : JobInv(v))'
    BY DEF IInv, TypeOK, JobInv
<1>4. (\A a \in Anchor : IntakeInv(a))'
    BY DEF IInv, IntakeInv
<1>5. OneActiveRunPerInput'
    BY DEF IInv, OneActiveRunPerInput
<1> QED
    BY <1>1, <1>2, <1>3, <1>4, <1>5 DEF IInv

\* A worker that is freed or stopped keeps no claim to be wrong about.
LEMMA FreesStep ==
    ASSUME IInv, UNCHANGED <<run, version, intake, answered>>,
           NEW w \in Worker, Frees(w)
    PROVE  IInv'
<1>1. JobInv(w)'
    BY DEF Frees, JobInv, Idle, IInv, TypeOK
<1> QED
    BY <1>1, IdleJob, LocalStep DEF Frees

\* A worker that enters a step sees the row as it is.
LEMMA EntersStep ==
    ASSUME IInv, UNCHANGED <<run, version, intake, answered>>,
           NEW w \in Worker, job[w].at = "claimed",
           run[job[w].run].status \in InProgress,
           NEW place \in Place \ {"idle", "stopped", "claimed", "select"},
           place = "park" => run[job[w].run].status = "ANCHOR_READY",
           place # "park" => ~Resting(job[w].run),
           Enters(w, place)
    PROVE  IInv'
<1> DEFINE j == [at |-> place, run |-> job[w].run,
                 attempt |-> run[job[w].run].attempt,
                 status |-> run[job[w].run].status]
<1>1. job[w].run \in Run
    BY DEF IInv, TypeOK, Job, JobInv
<1>2. j \in Job
    BY <1>1 DEF IInv, TypeOK, Row, Job
<1>3. job' = [job EXCEPT ![w] = j]
    BY DEF Enters
<1>4. JobInv(w)'
  <2>1. job'[w] = j
    BY <1>3 DEF IInv, TypeOK
  <2>2. run[job[w].run].trigger \in {"LEDGER_SAVE", "USER_REQUEST"}
    BY <1>1 DEF IInv, TypeOK, Row, Trigger
  <2>3. job[w].run # 0
    BY DEF IInv, JobInv
  <2> QED
    BY <2>1, <2>2, <2>3 DEF JobInv, Resting, InProgress
<1> HIDE DEF j
<1> QED
    BY <1>2, <1>3, <1>4, LocalStep

\* Leaving a step for an outcome, or for another place of the same step.
LEMMA GoesStep ==
    ASSUME IInv, UNCHANGED <<run, version, intake, answered>>,
           NEW w \in Worker,
           job[w].at \in {"park", "select", "calling", "storing"},
           NEW place \in Outcome \cup {"select", "storing"},
           place = "select" =>
               /\ job[w].at = "park"
               /\ ~(Resting(job[w].run) /\ Claimed(w)),
           job[w].at = "park" => place \in {"select", "RETRY"},
           Goes(w, place)
    PROVE  IInv'
<1> DEFINE j == [job[w] EXCEPT !.at = place]
<1>1. /\ j \in Job
      /\ job'[w] = j
      /\ job' = [job EXCEPT ![w] = j]
    BY DEF Goes, IInv, TypeOK, Job, Place
<1>2. JobInv(w)
    BY DEF IInv
<1>3. job[w].run \in Run
    BY <1>2 DEF IInv, TypeOK, Job, JobInv
<1>4. run[job[w].run].trigger \in {"LEDGER_SAVE", "USER_REQUEST"}
    BY <1>3 DEF IInv, TypeOK, Row, Trigger
<1>5. JobInv(w)'
    BY <1>1, <1>2, <1>3, <1>4 DEF JobInv, Outcome, Resting, Claimed
<1> HIDE DEF j
<1> QED
    BY <1>1, <1>5, LocalStep

-----------------------------------------------------------------------------
(* Steps that change rows. *)

\* A step that files nothing, revives nothing and loses no row cannot make two
\* active runs of one input, nor disturb a filing.
LEMMA RowsKept ==
    ASSUME IInv, UNCHANGED <<version, intake>>,
           \A r \in Run :
               /\ run'[r].anchor = run[r].anchor
               /\ run'[r].version = run[r].version
               /\ run'[r].status \in ReusableActive => run[r].status \in ReusableActive
               /\ run'[r].status = "ABSENT" => run[r].status = "ABSENT"
    PROVE  (\A a \in Anchor : IntakeInv(a))' /\ OneActiveRunPerInput'
<1>1. ASSUME NEW a \in Anchor PROVE IntakeInv(a)'
  <2>1. IntakeInv(a) /\ intake[a] \in Intake \cup {NoIntake}
    BY DEF IInv, TypeOK
  <2> QED
    BY <2>1 DEF IntakeInv, Intake
<1>2. OneActiveRunPerInput'
    BY DEF IInv, OneActiveRunPerInput
<1> QED
    BY <1>1, <1>2

\* The statuses the store of a stage leads to.
LEMMA NextStatusKind ==
    ASSUME NEW s \in InProgress
    PROVE  /\ NextStatus(s) \in (InProgress \cup {"COMPLETED"}) \ {"RUNNING", "JUDGING"}
           /\ NextStatus(s) = "ANCHOR_READY" => s = "RUNNING"
           /\ NextStatus(s) \in {"CANDIDATES_READY"} => s = "ANCHOR_READY"
    BY DEF NextStatus, InProgress

\* The rows a clean-up leaves.
LEMMA CleanedRowKind ==
    ASSUME TypeOK, NEW r \in Run
    PROVE  /\ CleanedRow(r) \in Row
           /\ \/ CleanedRow(r) = run[r]
              \/ /\ OverAttemptLimit(r)
                 /\ CleanedRow(r).status = "FAILED_TERMINAL"
                 /\ CleanedRow(r).owner = NoWorker
                 /\ CleanedRow(r).lease = "none"
           /\ CleanedRow(r).trigger = run[r].trigger
           /\ CleanedRow(r).attempt = run[r].attempt
           /\ CleanedRow(r).anchor = run[r].anchor
           /\ CleanedRow(r).version = run[r].version
<1>1. run[r] \in Row
    BY DEF TypeOK
<1> QED
    BY <1>1 DEF CleanedRow, Ended, Row, Lease, Live, Terminal

\* The row a claim leaves.
LEMMA ClaimedRowKind ==
    ASSUME TypeOK, NEW r \in Run, NEW w \in Worker, Claimable(r), RowInv(r)
    PROVE  /\ ClaimedRow(r, w) \in Row
           /\ ClaimedRow(r, w).status \in InProgress
           /\ ClaimedRow(r, w).status =
                 IF run[r].status = "QUEUED" THEN "RUNNING" ELSE run[r].status
           /\ ClaimedRow(r, w).owner = w
           /\ ClaimedRow(r, w).lease = "fresh"
           /\ ClaimedRow(r, w).trigger = run[r].trigger
           /\ ClaimedRow(r, w).attempt <= MaxAttempts
           /\ ClaimedRow(r, w).attempt =
                 IF HandedOff(r) THEN run[r].attempt ELSE run[r].attempt + 1
           /\ ClaimedRow(r, w).anchor = run[r].anchor
           /\ ClaimedRow(r, w).version = run[r].version
           /\ run[r].status \in ReusableActive
<1>1. run[r] \in Row
    BY DEF TypeOK
<1>2. run[r].status \in ReusableActive
    BY DEF Claimable, HandedOff, ReusableActive, InProgress
<1>3. /\ run[r].attempt \in Nat /\ MaxAttempts \in Nat
      /\ run[r].attempt <= MaxAttempts
      /\ ~HandedOff(r) => run[r].attempt + 1 <= MaxAttempts
  <2>1. run[r].attempt \in Nat /\ MaxAttempts \in Nat \ {0}
    BY <1>1, ConstantsAssumption DEF Row
  <2>2. run[r].attempt <= MaxAttempts
    BY DEF RowInv
  <2>3. run[r].status = "QUEUED" => run[r].attempt = 0
    BY DEF RowInv
  <2> QED
    BY <2>1, <2>2, <2>3 DEF Claimable
<1> DEFINE row == ClaimedRow(r, w)
<1>4. row \in Row
  <2> DEFINE st == IF run[r].status = "QUEUED" THEN "RUNNING" ELSE run[r].status
             n == IF HandedOff(r) THEN run[r].attempt ELSE run[r].attempt + 1
  <2>1. st \in ReusableActive
    BY <1>2 DEF ReusableActive, InProgress
  <2>2. n \in Nat
    BY <1>3
  <2>3. row = [run[r] EXCEPT !.status = st, !.owner = w, !.lease = "fresh",
                             !.attempt = n]
    BY DEF ClaimedRow
  <2> HIDE DEF st, n
  <2> QED
    BY <1>1, <2>1, <2>2, <2>3 DEF Row, Lease, Live
<1>5. /\ row.status = IF run[r].status = "QUEUED" THEN "RUNNING" ELSE run[r].status
      /\ row.owner = w
      /\ row.lease = "fresh"
      /\ row.trigger = run[r].trigger
      /\ row.attempt = IF HandedOff(r) THEN run[r].attempt ELSE run[r].attempt + 1
      /\ row.anchor = run[r].anchor
      /\ row.version = run[r].version
    BY <1>1 DEF ClaimedRow, Row
<1> HIDE DEF row
<1>6. row.status \in InProgress
    BY <1>2, <1>5 DEF ReusableActive, InProgress
<1>7. row.attempt <= MaxAttempts
    BY <1>3, <1>5
<1> QED
    BY <1>2, <1>4, <1>5, <1>6, <1>7 DEF row

LEMMA ClaimNextRunStep ==
    ASSUME IInv, NEW w \in Worker, ClaimNextRun(w)
    PROVE  IInv'
<1>1. PICK r \in Run :
        /\ Claimable(r)
        /\ run' = [q \in Run |->
                     IF q = r THEN ClaimedRow(r, w) ELSE CleanedRow(q)]
        /\ job' = [job EXCEPT ![w] =
              [at |-> "claimed", run |-> r, attempt |-> ClaimedRow(r, w).attempt,
               status |-> "none"]]
    BY DEF ClaimNextRun
<1>2. TypeOK /\ RowInv(r)
    BY DEF IInv
<1>3. run'[r] = ClaimedRow(r, w) /\ \A q \in Run \ {r} : run'[q] = CleanedRow(q)
    BY <1>1
<1>4. TypeOK'
    BY <1>1, <1>2, ClaimedRowKind, CleanedRowKind
    DEF TypeOK, ClaimNextRun, Job, Place, Row
<1>5. ASSUME NEW q \in Run PROVE RowInv(q)'
  <2>1. RowInv(q)
    BY DEF IInv
  <2>2. CASE q = r
    BY <1>1, <1>2, <1>3, <2>1, <2>2, ClaimedRowKind, ConstantsAssumption
    DEF RowInv, ClaimNextRun, InProgress, Terminal, ReusableActive
  <2>3. CASE q # r
    BY <1>1, <1>2, <1>3, <2>1, <2>3, CleanedRowKind
    DEF RowInv, ClaimNextRun, InProgress, Terminal
  <2> QED
    BY <2>2, <2>3
<1>6. ASSUME NEW v \in Worker PROVE JobInv(v)'
  <2>1. JobInv(v) /\ job[v] \in Job /\ job[v].run \in Run \cup {0}
    BY <1>2 DEF IInv, TypeOK, Job
  <2>2. CASE v = w
    <3>1. job'[w] = [at |-> "claimed", run |-> r,
                     attempt |-> ClaimedRow(r, w).attempt, status |-> "none"]
      BY <1>1, <1>2 DEF TypeOK
    <3>2. r # 0
      BY DEF Run
    <3> QED
      BY <1>1, <1>2, <1>3, <2>2, <3>1, <3>2, ClaimedRowKind DEF JobInv, InProgress
  <2>3. CASE v # w
    <3>1. job'[v] = job[v]
      BY <1>1, <2>3
    <3>2. CASE job[v].run = r
      BY <1>1, <1>2, <1>3, <2>1, <2>3, <3>1, <3>2, ClaimedRowKind
      DEF JobInv, InProgress
    <3>3. CASE job[v].run \in Run \ {r}
      BY <1>2, <1>3, <2>1, <3>1, <3>3, CleanedRowKind, ConstantsAssumption DEF JobInv
    <3>4. CASE job[v].run = 0
      BY <2>1, <3>1, <3>4 DEF JobInv
    <3> QED
      BY <2>1, <3>2, <3>3, <3>4
  <2> QED
    BY <2>2, <2>3
<1>7. (\A a \in Anchor : IntakeInv(a))' /\ OneActiveRunPerInput'
  <2>1. \A q \in Run :
          /\ run'[q].anchor = run[q].anchor
          /\ run'[q].version = run[q].version
          /\ run'[q].status \in ReusableActive => run[q].status \in ReusableActive
          /\ run'[q].status = "ABSENT" => run[q].status = "ABSENT"
    BY <1>1, <1>2, <1>3, ClaimedRowKind, CleanedRowKind
    DEF ReusableActive, InProgress
  <2> QED
    BY <2>1, RowsKept DEF ClaimNextRun
<1> QED
    BY <1>4, <1>5, <1>6, <1>7 DEF IInv

LEMMA ClaimNothingStep ==
    ASSUME IInv, NEW w \in Worker, ClaimNothing(w)
    PROVE  IInv'
<1>1. TypeOK /\ UNCHANGED <<version, intake, answered, job>>
    BY DEF IInv, ClaimNothing
<1>2. \A q \in Run : run'[q] = CleanedRow(q)
    BY DEF ClaimNothing
<1>3. TypeOK'
    BY <1>1, CleanedRowKind DEF TypeOK, ClaimNothing
<1>4. ASSUME NEW q \in Run PROVE RowInv(q)'
  <2>1. RowInv(q)
    BY DEF IInv
  <2> QED
    BY <1>1, <1>2, <2>1, CleanedRowKind DEF RowInv, InProgress, Terminal
<1>5. ASSUME NEW v \in Worker PROVE JobInv(v)'
  <2>1. JobInv(v) /\ job[v].run \in Run \cup {0}
    BY <1>1 DEF IInv, TypeOK, Job
  <2> QED
    BY <1>1, <1>2, <2>1, CleanedRowKind, ConstantsAssumption DEF JobInv
<1>6. (\A a \in Anchor : IntakeInv(a))' /\ OneActiveRunPerInput'
  <2>1. \A q \in Run :
          /\ run'[q].anchor = run[q].anchor
          /\ run'[q].version = run[q].version
          /\ run'[q].status \in ReusableActive => run[q].status \in ReusableActive
          /\ run'[q].status = "ABSENT" => run[q].status = "ABSENT"
    BY <1>1, <1>2, CleanedRowKind DEF ReusableActive, InProgress
  <2> QED
    BY <1>1, <2>1, RowsKept
<1> QED
    BY <1>3, <1>4, <1>5, <1>6 DEF IInv

\* A step that rewrites the row of one run in progress keeps the invariant if
\* it keeps the row's part and every worker's part of it.
LEMMA RowStep ==
    ASSUME IInv, UNCHANGED <<version, intake, answered>>,
           NEW r \in Run, NEW row \in Row, run' = [run EXCEPT ![r] = row],
           row.anchor = run[r].anchor, row.version = run[r].version,
           run[r].status \in InProgress,
           row.status \in InProgress \cup Terminal,
           RowInv(r)', job' \in [Worker -> Job], \A w \in Worker : JobInv(w)'
    PROVE  IInv'
<1>1. TypeOK /\ run' \in [Run -> Row]
    BY DEF IInv, TypeOK
<1>2. TypeOK'
    BY <1>1 DEF TypeOK
<1>3. run'[r] = row /\ \A q \in Run \ {r} : run'[q] = run[q]
    BY <1>1 DEF TypeOK
<1>4. ASSUME NEW q \in Run PROVE RowInv(q)'
  <2>1. CASE q = r
    BY <2>1
  <2>2. CASE q # r
    BY <1>3, <2>2 DEF IInv, RowInv
  <2> QED
    BY <2>1, <2>2
<1>5. (\A a \in Anchor : IntakeInv(a))' /\ OneActiveRunPerInput'
  <2>1. \A q \in Run :
          /\ run'[q].anchor = run[q].anchor
          /\ run'[q].version = run[q].version
          /\ run'[q].status \in ReusableActive => run[q].status \in ReusableActive
          /\ run'[q].status = "ABSENT" => run[q].status = "ABSENT"
    BY <1>3 DEF ReusableActive, InProgress, Terminal
  <2> QED
    BY <2>1, RowsKept
<1> QED
    BY <1>2, <1>4, <1>5 DEF IInv

\* What IInv says of one row, worker and filing, in the form the steps use.
LEMMA Unfold ==
    ASSUME IInv
    PROVE  /\ TypeOK
           /\ \A r \in Run : RowInv(r) /\ run[r] \in Row
           /\ \A w \in Worker :
                 /\ JobInv(w) /\ job[w] \in Job
                 /\ job[w].run \in Run \cup {0}
                 /\ job[w].at \notin {"idle", "stopped"} => job[w].run \in Run
           /\ \A a \in Anchor : IntakeInv(a)
<1>1. \A w \in Worker : JobInv(w) /\ job[w] \in Job /\ job[w].run \in Run \cup {0}
    BY DEF IInv, TypeOK, Job
<1>2. \A w \in Worker : job[w].at \notin {"idle", "stopped"} => job[w].run \in Run
    BY <1>1 DEF JobInv
<1> QED
    BY <1>1, <1>2 DEF IInv, TypeOK

-----------------------------------------------------------------------------
(* The ledger and the filing of runs. *)

LEMMA SaveLedgerStep ==
    ASSUME IInv, NEW a \in Anchor, SaveLedger(a)
    PROVE  IInv'
<1>1. TypeOK'
    BY ConstantsAssumption DEF SaveLedger, IInv, TypeOK
<1>2. (\A r \in Run : RowInv(r))' /\ (\A w \in Worker : JobInv(w))'
    BY DEF SaveLedger, IInv, RowInv, JobInv
<1>3. (\A b \in Anchor : IntakeInv(b))' /\ OneActiveRunPerInput'
    BY DEF SaveLedger, IInv, IntakeInv, OneActiveRunPerInput
<1> QED
    BY <1>1, <1>2, <1>3 DEF IInv

LEMMA IntakeBeginStep ==
    ASSUME IInv, NEW a \in Anchor, NEW trigger \in Trigger,
           IntakeBegin(a, trigger)
    PROVE  IInv'
<1> USE DEF IntakeBegin
<1>1. TypeOK'
    BY DEF IInv, TypeOK, Intake
<1>2. (\A r \in Run : RowInv(r))' /\ (\A w \in Worker : JobInv(w))'
    BY DEF IInv, RowInv, JobInv
<1>3. ASSUME NEW b \in Anchor PROVE IntakeInv(b)'
    BY DEF IInv, TypeOK, IntakeInv
<1>4. OneActiveRunPerInput'
    BY DEF IInv, OneActiveRunPerInput
<1> QED
    BY <1>1, <1>2, <1>3, <1>4 DEF IInv

LEMMA IntakeFindStep ==
    ASSUME IInv, NEW a \in Anchor, IntakeFind(a)
    PROVE  IInv'
<1> DEFINE reusable == ReusableRuns(a, intake[a].version)
<1>1. /\ intake[a] \in Intake /\ intake[a].at = "looking"
      /\ UNCHANGED <<run, version, answered, job>>
    BY DEF IntakeFind, IInv, TypeOK, NoIntake
<1>2. PICK new \in Intake :
        /\ intake' = [intake EXCEPT ![a] = new]
        /\ new.version = intake[a].version /\ new.at = "filing"
        /\ new.found = 0 => reusable = {}
        /\ new.found # 0 => new.found \in reusable
  <2>1. CASE reusable = {}
    <3>1. intake' = [intake EXCEPT ![a] = [intake[a] EXCEPT !.at = "filing"]]
      BY <2>1 DEF IntakeFind
    <3>2. /\ [intake[a] EXCEPT !.at = "filing"] \in Intake
          /\ [intake[a] EXCEPT !.at = "filing"].version = intake[a].version
          /\ [intake[a] EXCEPT !.at = "filing"].at = "filing"
          /\ [intake[a] EXCEPT !.at = "filing"].found = 0 => reusable = {}
      BY <1>1, <2>1 DEF Intake
    <3>3. [intake[a] EXCEPT !.at = "filing"].found = 0
      BY <1>1 DEF IInv, IntakeInv, Intake, NoIntake
    <3> QED
      BY <3>1, <3>2, <3>3
  <2>2. CASE reusable # {}
    <3>1. PICK r \in reusable :
            intake' = [intake EXCEPT ![a] =
                          [intake[a] EXCEPT !.at = "filing", !.found = r]]
      BY <2>2 DEF IntakeFind
    <3>2. r \in Run /\ r # 0
      BY DEF ReusableRuns, Run
    <3> DEFINE found == [intake[a] EXCEPT !.at = "filing", !.found = r]
    <3>3. /\ found \in Intake /\ found.at = "filing"
          /\ found.version = intake[a].version /\ found.found = r
      BY <1>1, <3>2 DEF Intake
    <3> HIDE DEF found
    <3> QED
      BY <3>1, <3>2, <3>3 DEF found
  <2> QED
    BY <2>1, <2>2
<1>3. intake'[a] = new /\ \A b \in Anchor \ {a} : intake'[b] = intake[b]
    BY <1>2 DEF IInv, TypeOK
<1>4. TypeOK'
    BY <1>1, <1>2 DEF IInv, TypeOK
<1>5. (\A r \in Run : RowInv(r))' /\ (\A w \in Worker : JobInv(w))'
    BY <1>1 DEF IInv, RowInv, JobInv
<1>6. ASSUME NEW b \in Anchor PROVE IntakeInv(b)'
  <2>1. CASE b = a
    BY <1>1, <1>2, <1>3, <2>1
    DEF IntakeInv, ReusableRuns, ReusableActive, InProgress
  <2>2. CASE b # a
    BY <1>1, <1>3, <2>2 DEF IInv, IntakeInv
  <2> QED
    BY <2>1, <2>2
<1>7. OneActiveRunPerInput'
    BY <1>1 DEF IInv, OneActiveRunPerInput
<1> QED
    BY <1>4, <1>5, <1>6, <1>7 DEF IInv

LEMMA IntakeAbortStep ==
    ASSUME IInv, NEW a \in Anchor, IntakeAbort(a)
    PROVE  IInv'
<1> USE DEF IntakeAbort
<1>1. TypeOK'
    BY DEF IInv, TypeOK
<1>2. (\A r \in Run : RowInv(r))' /\ (\A w \in Worker : JobInv(w))'
    BY DEF IInv, RowInv, JobInv
<1>3. (\A b \in Anchor : IntakeInv(b))' /\ OneActiveRunPerInput'
    BY DEF IInv, TypeOK, IntakeInv, OneActiveRunPerInput
<1> QED
    BY <1>1, <1>2, <1>3 DEF IInv

LEMMA IntakeInsertStep ==
    ASSUME IInv, NEW a \in Anchor, IntakeInsert(a)
    PROVE  IInv'
<1> DEFINE new == [status |-> "QUEUED", trigger |-> intake[a].trigger,
                   owner |-> NoWorker, lease |-> "none", attempt |-> 0,
                   anchor |-> a, version |-> intake[a].version,
                   candidates |-> FALSE]
<1>1. PICK r \in FreeIds : run' = [run EXCEPT ![r] = new] /\ Answer(a, r)
    BY DEF IntakeInsert
<1>2. /\ intake[a].at = "filing" /\ intake[a].found = 0
      /\ intake' = [intake EXCEPT ![a] = NoIntake]
      /\ UNCHANGED <<version, job>>
    BY DEF IntakeInsert
<1>3. r \in Run /\ run[r].status = "ABSENT"
    BY <1>1 DEF FreeIds
<1>4. intake[a] \in Intake
    BY <1>2 DEF IInv, TypeOK, NoIntake
<1>5. new \in Row
    BY <1>4 DEF Intake, Row, Lease, ReusableActive
<1>6. /\ run'[r].status = "QUEUED" /\ run'[r].owner = NoWorker
      /\ run'[r].lease = "none" /\ run'[r].attempt = 0
      /\ run'[r].anchor = a /\ run'[r].version = intake[a].version
      /\ run'[r].trigger = intake[a].trigger
      /\ \A q \in Run \ {r} : run'[q] = run[q]
    BY <1>1, <1>3 DEF IInv, TypeOK
<1>7. answered' \in SUBSET Run /\ \A q \in Run \ {r} : q \in answered' => q \in answered
    BY <1>1, <1>3 DEF Answer, IInv, TypeOK
<1>8. r \in answered' => intake[a].trigger = "USER_REQUEST"
    BY <1>1, <1>3, Unfold DEF Answer, RowInv
<1> HIDE DEF new
<1>9. TypeOK'
    BY <1>1, <1>2, <1>5, <1>7 DEF IInv, TypeOK
<1>10. ASSUME NEW q \in Run PROVE RowInv(q)'
  <2>1. CASE q = r
    BY <1>6, <1>8, <2>1, ConstantsAssumption DEF RowInv, InProgress
  <2>2. CASE q # r
    BY <1>6, <1>7, <2>2, Unfold DEF RowInv
  <2> QED
    BY <2>1, <2>2
<1>11. ASSUME NEW w \in Worker PROVE JobInv(w)'
  <2>1. JobInv(w) /\ job' = job
    BY <1>2, Unfold
  <2>2. job[w].run # 0 => job[w].run \in Run \ {r}
    BY <1>3, Unfold DEF JobInv
  <2> QED
    BY <1>6, <2>1, <2>2 DEF JobInv
<1>12. ASSUME NEW b \in Anchor PROVE IntakeInv(b)'
  <2>1. CASE b = a
    BY <1>2, <2>1 DEF IInv, TypeOK, IntakeInv
  <2>2. CASE b # a
    <3>1. IntakeInv(b) /\ intake'[b] = intake[b] /\ intake[b] \in Intake \cup {NoIntake}
      BY <1>2, <2>2 DEF IInv, TypeOK
    <3> QED
      BY <1>6, <2>2, <3>1 DEF IntakeInv, Intake
  <2> QED
    BY <2>1, <2>2
<1>13. OneActiveRunPerInput'
  <2>1. \A q \in Run \ {r} :
          run[q].status \in ReusableActive /\ run[q].anchor = a =>
              run[q].version # intake[a].version
    BY <1>2, Unfold DEF IntakeInv, NoIntake
  <2> QED
    BY <1>6, <2>1 DEF IInv, OneActiveRunPerInput
<1> QED
    BY <1>9, <1>10, <1>11, <1>12, <1>13 DEF IInv

LEMMA IntakeReuseStep ==
    ASSUME IInv, NEW a \in Anchor, IntakeReuse(a)
    PROVE  IInv'
<1> DEFINE f == intake[a].found
<1>1. /\ intake[a].at = "filing" /\ f # 0
      /\ run' = IF Resumes(a) THEN [run EXCEPT ![f] = Resumed(run[f])] ELSE run
      /\ Answer(a, f)
      /\ intake' = [intake EXCEPT ![a] = NoIntake]
      /\ UNCHANGED <<version, job>>
    BY DEF IntakeReuse
<1>2. intake[a] \in Intake /\ f \in Run
    BY <1>1 DEF IInv, TypeOK, Intake, NoIntake
<1>3. run[f] \in Row /\ run[f].status # "ABSENT"
    BY <1>1, <1>2, Unfold DEF IntakeInv, NoIntake
<1>4. Resumes(a) => /\ intake[a].trigger = "USER_REQUEST"
                    /\ run[f].status \in ReusableActive
    BY <1>2 DEF Resumes, Intake, Trigger
<1>5. \A q \in Run :
        /\ run'[q] \in Row
        /\ \/ run'[q] = run[q]
           \/ /\ q = f /\ Resumes(a)
              /\ run'[q].status = run[q].status
              /\ run'[q].trigger = "USER_REQUEST"
              /\ run'[q].attempt = run[q].attempt
              /\ run'[q].anchor = run[q].anchor
              /\ run'[q].version = run[q].version
              /\ \/ run[q].status # "ANCHOR_READY"
                    /\ run'[q].owner = run[q].owner
                    /\ run'[q].lease = run[q].lease
                 \/ run[q].status = "ANCHOR_READY"
                    /\ run'[q].owner = NoWorker
                    /\ run'[q].lease = "none"
  <2>1. CASE ~Resumes(a)
    BY <1>1, <2>1, Unfold
  <2>2. CASE Resumes(a)
    BY ZenonT(40), <1>1, <1>2, <1>3, <2>2, Unfold DEF TypeOK, Resumed, Row, Lease, Trigger
  <2> QED
    BY <2>1, <2>2
<1>6. /\ answered' \in SUBSET Run
      /\ \A q \in Run : q \in answered' =>
            q \in answered \/ (q = f /\ intake[a].trigger = "USER_REQUEST")
    BY <1>1, <1>2 DEF Answer, IInv, TypeOK
<1>7. intake[a].trigger = "USER_REQUEST" =>
        run'[f].trigger = "USER_REQUEST" \/ run'[f].status \in Terminal
  <2>1. run[f].trigger \in Trigger
        /\ run[f].status \in ReusableActive \cup Terminal
    BY <1>3 DEF Row
  <2>2. CASE Resumes(a)
    BY <1>1, <1>2, <2>2, Unfold DEF TypeOK, Resumed, Row
  <2>3. CASE ~Resumes(a)
    BY <1>1, <2>1, <2>3 DEF Resumes, Trigger
  <2> QED
    BY <2>2, <2>3
<1> HIDE DEF f
<1>8. TypeOK'
  <2>1. run' \in [Run -> Row]
    BY <1>1, <1>5, Unfold DEF TypeOK
  <2> QED
    BY <1>1, <1>6, <2>1 DEF IInv, TypeOK
<1>9. ASSUME NEW q \in Run PROVE RowInv(q)'
  <2>1. RowInv(q)
    BY Unfold
  <2>2. q \in answered' => /\ run'[q].status # "ABSENT"
                           /\ run'[q].trigger = "USER_REQUEST"
                                 \/ run'[q].status \in Terminal
    BY <1>3, <1>4, <1>5, <1>6, <1>7, <2>1 DEF RowInv
  <2>3. CASE run'[q] = run[q]
    BY <2>1, <2>2, <2>3 DEF RowInv
  <2>4. CASE run'[q] # run[q]
    BY <1>3, <1>5, <2>1, <2>2, <2>4 DEF RowInv, InProgress
  <2> QED
    BY <2>3, <2>4
<1>10. ASSUME NEW w \in Worker PROVE JobInv(w)'
  <2>1. JobInv(w) /\ job' = job
    BY <1>1, Unfold
  <2>2. CASE job[w].run = 0
    BY <2>1, <2>2 DEF JobInv
  <2>3. CASE job[w].run \in Run
    BY <1>5, <2>1, <2>3, ConstantsAssumption DEF JobInv
  <2> QED
    BY <2>2, <2>3, Unfold
<1>11. ASSUME NEW b \in Anchor PROVE IntakeInv(b)'
  <2>1. IntakeInv(b) /\ intake[b] \in Intake \cup {NoIntake}
    BY DEF IInv, TypeOK
  <2>2. intake'[b] \in {intake[b], NoIntake}
    BY <1>1 DEF IInv, TypeOK
  <2> QED
    BY <1>5, <2>1, <2>2 DEF IntakeInv, Intake
<1>12. OneActiveRunPerInput'
    BY <1>5 DEF IInv, OneActiveRunPerInput
<1> QED
    BY <1>8, <1>9, <1>10, <1>11, <1>12 DEF IInv

-----------------------------------------------------------------------------
(* Steps of a worker. *)

LEMMA ReadStep ==
    ASSUME IInv, NEW w \in Worker,
           \/ ReadToPark(w) \/ ReadEnded(w) \/ ReadLeaseLost(w)
           \/ ReadStaleInput(w) \/ PrepareRaises(w)
    PROVE  IInv'
<1> USE DEF Place, Outcome
<1>1. CASE ReadToPark(w)
    BY <1>1, EntersStep DEF ReadToPark, Resting, InProgress
<1>2. CASE ReadEnded(w)
    BY <1>2, FreesStep DEF ReadEnded
<1>3. CASE ReadLeaseLost(w)
    BY <1>3, FreesStep DEF ReadLeaseLost
<1>4. CASE ReadStaleInput(w)
    BY <1>4, EntersStep DEF ReadStaleInput
<1>5. CASE PrepareRaises(w)
    BY <1>5, EntersStep DEF PrepareRaises
<1> QED
    BY <1>1, <1>2, <1>3, <1>4, <1>5

LEMMA PrepareStep ==
    ASSUME IInv, NEW w \in Worker, Prepare(w)
    PROVE  IInv'
<1>0. PICK r \in Run : r = job[w].run
    BY Unfold DEF Prepare
<1> USE <1>0
<1>1. /\ job[w].at = "claimed" /\ run[r].status \in InProgress
      /\ ~Resting(r) /\ HoldsLease(w)
      /\ UNCHANGED <<version, intake, answered>>
    BY DEF Prepare
<1>2. CASE run' = run
  <2>1. \/ Enters(w, "storing")
        \/ Enters(w, "calling")
    BY <1>1, <1>2, Unfold DEF Prepare, RowInv, TypeOK, Row
  <2> QED
    BY <1>1, <1>2, <2>1, EntersStep DEF Place
<1>3. CASE run' # run
  <2> DEFINE row == [run[r] EXCEPT !.status = "JUDGING"]
             j == [at |-> "calling", run |-> r, attempt |-> run[r].attempt,
                   status |-> "JUDGING"]
  <2>1. /\ run[r].status = "CANDIDATE_CARDS_READY"
        /\ run' = [run EXCEPT ![r] = row]
        /\ job' = [job EXCEPT ![w] = j]
    BY <1>3 DEF Prepare
  <2>2. r \in Run /\ run[r] \in Row /\ RowInv(r) /\ r # 0
    BY <1>1, Unfold DEF JobInv
  <2>3. row \in Row /\ j \in Job
    BY <2>2 DEF Row, ReusableActive, InProgress, Job, Place
  <2>4. /\ run'[r] = row /\ \A q \in Run \ {r} : run'[q] = run[q]
        /\ job'[w] = j /\ \A v \in Worker \ {w} : job'[v] = job[v]
        /\ job' \in [Worker -> Job]
    BY <2>1, <2>2, <2>3, Unfold DEF TypeOK
  <2>5. /\ row.status = "JUDGING" /\ row.owner = w
        /\ row.lease = run[r].lease /\ row.trigger = run[r].trigger
        /\ row.attempt = run[r].attempt /\ row.anchor = run[r].anchor
        /\ row.version = run[r].version
    BY <1>1, <2>2 DEF Row, HoldsLease
  <2> HIDE DEF row
  <2>6. RowInv(r)'
    BY <1>1, <2>1, <2>2, <2>4, <2>5 DEF RowInv, InProgress, HoldsLease, Terminal
  <2>7. ASSUME NEW v \in Worker PROVE JobInv(v)'
    <3>1. CASE v = w
      BY <2>2, <2>4, <2>5, <3>1 DEF JobInv, InProgress
    <3>2. CASE v # w
      BY <2>2, <2>4, <2>5, <3>2, Unfold DEF JobInv
    <3> QED
      BY <3>1, <3>2
  <2> HIDE DEF j
  <2> QED
    BY <1>1, <2>1, <2>2, <2>3, <2>4, <2>5, <2>6, <2>7, RowStep DEF InProgress
<1> QED
    BY <1>2, <1>3

LEMMA StoreBeginStep ==
    ASSUME IInv, NEW w \in Worker, StoreBegin(w)
    PROVE  IInv'
<1>1. \/ Frees(w) \/ Goes(w, "SUPERSEDED") \/ Goes(w, "storing")
    BY DEF StoreBegin
<1>2. /\ UNCHANGED <<run, version, intake, answered>>
      /\ job[w].at \in {"calling", "select"}
    BY DEF StoreBegin
<1> QED
    BY <1>1, <1>2, FreesStep, GoesStep DEF Outcome

LEMMA StepRaisesStep ==
    ASSUME IInv, NEW w \in Worker, StepRaises(w)
    PROVE  IInv'
<1>1. PICK outcome \in Outcome :
        /\ job[w].at \in {"park", "select", "calling", "storing"}
        /\ job[w].at = "park" => outcome = "RETRY"
        /\ Goes(w, outcome)
        /\ UNCHANGED <<run, version, intake, answered>>
    BY DEF StepRaises
<1> QED
    BY <1>1, GoesStep DEF Outcome

LEMMA HeartbeatFailsStep ==
    ASSUME IInv, NEW w \in Worker, HeartbeatFails(w)
    PROVE  IInv'
    BY FreesStep DEF HeartbeatFails

LEMMA WorkerStopsStep ==
    ASSUME IInv, NEW w \in Worker, WorkerStops(w)
    PROVE  IInv'
<1>1. JobInv(w)'
    BY Unfold DEF WorkerStops, JobInv, Idle, TypeOK
<1> QED
    BY <1>1, IdleJob, LocalStep DEF WorkerStops

\* The row of the job of a worker that is past its claim.
LEMMA ParkStep ==
    ASSUME IInv, NEW w \in Worker, Park(w)
    PROVE  IInv'
<1>0. PICK r \in Run : r = job[w].run
    BY Unfold DEF Park
<1> USE <1>0
<1>1. /\ job[w].at = "park" /\ UNCHANGED <<version, intake, answered>>
    BY DEF Park
<1>2. CASE ~(Resting(r) /\ Claimed(w))
    BY <1>1, <1>2, GoesStep DEF Park
<1>3. CASE Resting(r) /\ Claimed(w)
  <2> DEFINE row == [run[r] EXCEPT !.owner = NoWorker, !.lease = "none"]
  <2>1. run' = [run EXCEPT ![r] = row] /\ Frees(w)
    BY <1>3 DEF Park
  <2>2. r \in Run /\ run[r] \in Row /\ RowInv(r)
    BY <1>1, Unfold
  <2>3. row \in Row
    BY <2>2 DEF Row, Lease
  <2>4. /\ run'[r] = row /\ \A q \in Run \ {r} : run'[q] = run[q]
        /\ job'[w] = Idle /\ \A v \in Worker \ {w} : job'[v] = job[v]
        /\ job' \in [Worker -> Job]
    BY <2>1, <2>2, IdleJob, Unfold DEF TypeOK, Frees
  <2>5. /\ row.status = "ANCHOR_READY" /\ row.owner = NoWorker
        /\ row.lease = "none" /\ row.trigger = run[r].trigger
        /\ row.attempt = run[r].attempt /\ row.anchor = run[r].anchor
        /\ row.version = run[r].version
    BY <1>3, <2>2 DEF Row, Resting
  <2> HIDE DEF row
  <2>6. RowInv(r)'
    BY <1>1, <1>3, <2>2, <2>4, <2>5 DEF RowInv, InProgress, Resting, Terminal
  <2>7. ASSUME NEW v \in Worker PROVE JobInv(v)'
    <3>1. CASE v = w
      BY <2>4, <3>1 DEF JobInv, Idle
    <3>2. CASE v # w
      BY <2>2, <2>4, <2>5, <3>2, Unfold, ConstantsAssumption DEF JobInv
    <3> QED
      BY <3>1, <3>2
  <2>8. run[r].status \in InProgress
    BY <1>3 DEF Resting, InProgress
  <2> QED
    BY <1>1, <2>1, <2>2, <2>3, <2>4, <2>5, <2>6, <2>7, <2>8, RowStep
    DEF InProgress
<1> QED
    BY <1>2, <1>3

LEMMA StoreCommitStep ==
    ASSUME IInv, NEW w \in Worker, StoreCommit(w)
    PROVE  IInv'
<1>0. PICK r \in Run : r = job[w].run
    BY Unfold DEF StoreCommit
<1> USE <1>0
<1> DEFINE next == NextStatus(job[w].status)
<1>1. job[w].at = "storing" /\ UNCHANGED <<version, intake, answered>>
    BY DEF StoreCommit
<1>2. CASE ~(Claimed(w) /\ run[r].status = job[w].status)
    BY <1>1, <1>2, FreesStep DEF StoreCommit
<1>3. CASE Claimed(w) /\ run[r].status = job[w].status
  <2>1. r \in Run /\ run[r] \in Row /\ RowInv(r) /\ JobInv(w) /\ job[w] \in Job
    BY <1>1, Unfold
  <2>2. PICK some \in BOOLEAN :
          run' = [run EXCEPT ![r] = [run[r] EXCEPT !.status = next, !.candidates = some]]
    BY ZenonT(40), <1>3, <2>1 DEF StoreCommit, Row
  <2>3. job[w].status \in InProgress /\ run[r].status \in InProgress
    BY <1>1, <1>3, <2>1 DEF JobInv
  <2>4. /\ next \in (InProgress \cup {"COMPLETED"}) \ {"RUNNING", "JUDGING"}
        /\ next = "ANCHOR_READY" => job[w].status = "RUNNING"
        /\ next = "CANDIDATES_READY" => job[w].status = "ANCHOR_READY"
    BY <2>3, NextStatusKind
  <2>5. run[r].trigger = "LEDGER_SAVE" => next = "ANCHOR_READY"
    <3>1. run[r].trigger = "LEDGER_SAVE" =>
            job[w].status = "RUNNING"
      BY <1>1, <1>3, <2>1, <2>3 DEF RowInv, JobInv, Claimed, InProgress
    <3> QED
      BY <3>1 DEF NextStatus
  <2> DEFINE row == [run[r] EXCEPT !.status = next, !.candidates = some]
             j == IF job'[w] = Idle THEN Idle ELSE [job[w] EXCEPT !.at = "claimed"]
  <2>6. job' = [job EXCEPT ![w] = j] /\ j \in Job
    <3>1. Frees(w) \/ Goes(w, "claimed")
      BY <1>3 DEF StoreCommit
    <3>2. CASE Frees(w)
      BY <3>2, IdleJob, Unfold DEF Frees, TypeOK
    <3>3. CASE Goes(w, "claimed")
      <4>1. job'[w] = [job[w] EXCEPT !.at = "claimed"]
            /\ job' = [job EXCEPT ![w] = [job[w] EXCEPT !.at = "claimed"]]
        BY <3>3, Unfold DEF TypeOK, Goes
      <4>2. [job[w] EXCEPT !.at = "claimed"] \in Job
        BY <2>1 DEF Job, Place
      <4>3. [job[w] EXCEPT !.at = "claimed"] # Idle
        BY <2>1 DEF Job, Idle
      <4> QED
        BY <4>1, <4>2, <4>3
    <3> QED
      BY <3>1, <3>2, <3>3
  <2>7. row \in Row
    BY <2>1, <2>4 DEF Row, ReusableActive, Terminal
  <2>8. /\ row.status = next /\ row.owner = w
        /\ row.lease = run[r].lease /\ row.trigger = run[r].trigger
        /\ row.attempt = run[r].attempt /\ row.anchor = run[r].anchor
        /\ row.version = run[r].version
    BY <1>3, <2>1 DEF Row, Claimed
  <2>9. /\ run'[r] = row /\ \A q \in Run \ {r} : run'[q] = run[q]
        /\ job'[w] = j /\ \A v \in Worker \ {w} : job'[v] = job[v]
        /\ job' \in [Worker -> Job]
    BY <2>1, <2>2, <2>6, Unfold DEF TypeOK
  <2>10. run' = [run EXCEPT ![r] = row]
    BY <2>2
  <2> HIDE DEF row
  <2>11. RowInv(r)'
    <3>1. next \notin {"ABSENT", "QUEUED", "RUNNING", "JUDGING"}
      BY <2>4 DEF InProgress
    <3>2. run[r].owner = w /\ w # NoWorker /\ run[r].lease # "none"
      BY <1>3, <2>1, <2>3, ConstantsAssumption DEF Claimed, RowInv
    <3>3. r \in answered => run[r].trigger = "USER_REQUEST"
      BY <2>1, <2>3 DEF RowInv, InProgress, Terminal
    <3> QED
      BY <1>1, <2>1, <2>5, <2>8, <2>9, <3>1, <3>2, <3>3 DEF RowInv
  <2>12. ASSUME NEW v \in Worker PROVE JobInv(v)'
    <3>1. CASE v = w /\ j = Idle
      BY <2>9, <3>1 DEF JobInv, Idle
    <3>2. CASE v = w /\ j = [job[w] EXCEPT !.at = "claimed"]
      <4>1. j.at = "claimed" /\ j.run = r /\ j.attempt = job[w].attempt /\ r # 0
        BY <2>1, <3>2 DEF Job, Run
      <4>2. /\ job'[v].at = "claimed" /\ job'[v].run = r
            /\ job'[v].attempt = job[w].attempt
        BY <2>9, <3>2, <4>1
      <4>3. run'[r].attempt = job[w].attempt
        BY <1>3, <2>8, <2>9 DEF Claimed
      <4>4. run'[r].status \notin {"ABSENT", "QUEUED"}
        BY <2>4, <2>8, <2>9 DEF InProgress
      <4> QED
        BY <4>1, <4>2, <4>3, <4>4 DEF JobInv
    <3>3. CASE v # w
      BY SMTT(60), <2>1, <2>4, <2>8, <2>9, <3>3, Unfold DEF JobInv, InProgress
    <3> QED
      BY <3>1, <3>2, <3>3
  <2> HIDE DEF j, next
  <2> QED
    BY <1>1, <2>1, <2>3, <2>4, <2>7, <2>8, <2>9, <2>10, <2>11, <2>12, RowStep
    DEF Terminal
<1> QED
    BY <1>2, <1>3

LEMMA SettleStep ==
    ASSUME IInv, NEW w \in Worker, Settle(w)
    PROVE  IInv'
<1>0. PICK r \in Run : r = job[w].run
    BY Unfold DEF Settle, Outcome
<1> USE <1>0
<1>1. /\ job[w].at \in Outcome /\ Frees(w)
      /\ UNCHANGED <<version, intake, answered>>
    BY DEF Settle
<1>2. CASE ~Fenced(w, InProgress)
    BY <1>1, <1>2, FreesStep DEF Settle
<1>3. CASE Fenced(w, InProgress)
  <2>1. run[r] \in Row /\ RowInv(r) /\ run[r].status \in InProgress /\ run[r].owner = w
    BY <1>3, Unfold DEF Fenced, Claimed
  <2>2. PICK row \in Row :
          /\ run' = [run EXCEPT ![r] = row]
          /\ row.trigger = run[r].trigger /\ row.attempt = run[r].attempt
          /\ row.anchor = run[r].anchor /\ row.version = run[r].version
          /\ \/ /\ row.status = run[r].status
                /\ row.lease = "expired" /\ row.owner = w
             \/ /\ row.status \in {"SUPERSEDED", "FAILED_TERMINAL"}
                /\ row.lease = "none" /\ row.owner = NoWorker
    <3>1. CASE job[w].at = "RETRY"
      <4> DEFINE row == [run[r] EXCEPT !.lease = "expired"]
      <4>1. run' = [run EXCEPT ![r] = row]
        BY <1>3, <3>1 DEF Settle
      <4>2. row \in Row /\ row.lease = "expired" /\ row.owner = w
            /\ row.status = run[r].status
            /\ row.trigger = run[r].trigger /\ row.attempt = run[r].attempt
            /\ row.anchor = run[r].anchor /\ row.version = run[r].version
        BY <2>1 DEF Row, Lease
      <4> HIDE DEF row
      <4> QED
        BY <4>1, <4>2
    <3>2. CASE job[w].at \in {"SUPERSEDED", "FAILED_TERMINAL"}
      <4> DEFINE row == Ended(run[r], job[w].at)
      <4>1. run' = [run EXCEPT ![r] = row]
        BY <1>3, <3>2 DEF Settle
      <4>2. row \in Row /\ row.lease = "none" /\ row.owner = NoWorker
            /\ row.status = job[w].at
            /\ row.trigger = run[r].trigger /\ row.attempt = run[r].attempt
            /\ row.anchor = run[r].anchor /\ row.version = run[r].version
        BY <2>1, <3>2 DEF Ended, Row, Lease, Terminal
      <4> HIDE DEF row
      <4> QED
        BY <3>2, <4>1, <4>2
    <3> QED
      BY <1>1, <3>1, <3>2 DEF Outcome
  <2>3. /\ run'[r] = row /\ \A q \in Run \ {r} : run'[q] = run[q]
        /\ job'[w] = Idle /\ \A v \in Worker \ {w} : job'[v] = job[v]
        /\ job' \in [Worker -> Job]
    BY <1>1, <2>2, IdleJob, Unfold DEF TypeOK, Frees
  <2>4. RowInv(r)'
    BY <1>1, <2>1, <2>2, <2>3, ConstantsAssumption
    DEF RowInv, InProgress, Terminal
  <2>5. ASSUME NEW v \in Worker PROVE JobInv(v)'
    <3>1. CASE v = w
      BY <2>3, <3>1 DEF JobInv, Idle
    <3>2. CASE v # w
      BY <2>1, <2>2, <2>3, <3>2, Unfold, ConstantsAssumption DEF JobInv, InProgress
    <3> QED
      BY <3>1, <3>2
  <2> QED
    BY <1>1, <2>1, <2>2, <2>3, <2>4, <2>5, RowStep DEF InProgress, Terminal
<1> QED
    BY <1>2, <1>3

\* Renewing a lease and the passing of time touch the lease and nothing else.
LEMMA LeaseStep ==
    ASSUME IInv, NEW r \in Run, NEW lease \in Lease \ {"none"},
           run[r].status \in InProgress, run[r].lease \in Live,
           run' = [run EXCEPT ![r].lease = lease],
           UNCHANGED <<version, intake, answered, job>>
    PROVE  IInv'
<1> DEFINE row == [run[r] EXCEPT !.lease = lease]
<1>1. run[r] \in Row /\ RowInv(r) /\ job \in [Worker -> Job] /\ run \in [Run -> Row]
    BY Unfold DEF TypeOK
<1>2. /\ row \in Row /\ row.lease = lease
      /\ row.status = run[r].status /\ row.owner = run[r].owner
      /\ row.trigger = run[r].trigger /\ row.attempt = run[r].attempt
      /\ row.anchor = run[r].anchor /\ row.version = run[r].version
    BY <1>1 DEF Row
<1>3. run' = [run EXCEPT ![r] = row]
    OBVIOUS
<1>4. run'[r] = row /\ \A q \in Run \ {r} : run'[q] = run[q]
    BY <1>1, <1>3
<1> HIDE DEF row
<1>5. RowInv(r)'
    BY <1>1, <1>2, <1>4 DEF RowInv, Live, InProgress
<1>6. ASSUME NEW v \in Worker PROVE JobInv(v)'
    BY <1>2, <1>4, Unfold DEF JobInv
<1> QED
    BY <1>1, <1>2, <1>3, <1>5, <1>6, RowStep

LEMMA RenewLeaseStep ==
    ASSUME IInv, NEW w \in Worker, RenewLease(w)
    PROVE  IInv'
<1>1. PICK r \in Run : r = job[w].run
    BY Unfold DEF RenewLease
<1>2. /\ run[r].status \in InProgress /\ run[r].lease \in Live
      /\ run' = [run EXCEPT ![r].lease = "fresh"]
      /\ UNCHANGED <<version, intake, answered, job>>
    BY <1>1 DEF RenewLease, Fenced
<1>3. "fresh" \in Lease \ {"none"}
    BY DEF Lease, Live
<1> QED
    BY <1>2, <1>3, LeaseStep

LEMMA LeaseAgesStep ==
    ASSUME IInv, NEW r \in Run, LeaseAges(r)
    PROVE  IInv'
    BY LeaseStep DEF LeaseAges, Lease, Live

-----------------------------------------------------------------------------
(* The theorems. *)

LEMMA NextIInv ==
    ASSUME IInv, [Next]_vars
    PROVE  IInv'
<1>1. CASE UNCHANGED vars
  <2>1. UNCHANGED <<run, version, intake, answered, job>>
    BY <1>1 DEF vars
  <2> QED
    BY <2>1 DEF IInv, TypeOK, RowInv, JobInv, IntakeInv, OneActiveRunPerInput
<1>2. ASSUME NEW a \in Anchor, SaveLedger(a) PROVE IInv'
    BY <1>2, SaveLedgerStep
<1>3. ASSUME NEW a \in Anchor, NEW trigger \in Trigger, IntakeBegin(a, trigger)
      PROVE  IInv'
    BY <1>3, IntakeBeginStep
<1>4. ASSUME NEW a \in Anchor, IntakeProceeds(a) PROVE IInv'
    BY <1>4, IntakeFindStep, IntakeInsertStep, IntakeReuseStep, IntakeAbortStep
    DEF IntakeProceeds
<1>5. ASSUME NEW w \in Worker, Polls(w) PROVE IInv'
    BY <1>5, ClaimNextRunStep, ClaimNothingStep DEF Polls
<1>6. ASSUME NEW w \in Worker, Steps(w) PROVE IInv'
    BY <1>6, ReadStep, PrepareStep, ParkStep, StoreBeginStep, StoreCommitStep,
       StepRaisesStep, SettleStep DEF Steps
<1>7. ASSUME NEW w \in Worker,
             RenewLease(w) \/ HeartbeatFails(w) \/ WorkerStops(w)
      PROVE  IInv'
    BY <1>7, RenewLeaseStep, HeartbeatFailsStep, WorkerStopsStep
<1>8. ASSUME NEW r \in Run, LeaseAges(r) PROVE IInv'
    BY <1>8, LeaseAgesStep
<1> QED
    BY <1>1, <1>2, <1>3, <1>4, <1>5, <1>6, <1>7, <1>8 DEF Next

\* The inductive invariant holds: rows, workers' views and filings stay
\* consistent in every interleaving.
THEOREM Invariance == Spec => []IInv
<1>1. Init => IInv
    BY InitIInv
<1>2. IInv /\ [Next]_vars => IInv'
    BY NextIInv
<1> QED
    BY <1>1, <1>2, PTL DEF Spec

\* The variables keep their types.
THEOREM TypeCorrect == Spec => []TypeOK
<1>1. IInv => TypeOK
    BY DEF IInv
<1> QED
    BY <1>1, Invariance, PTL

\* However many users and saves meet, one input has one active run.
THEOREM OneActiveRun == Spec => []OneActiveRunPerInput
<1>1. IInv => OneActiveRunPerInput
    BY DEF IInv
<1> QED
    BY <1>1, Invariance, PTL

\* No run of a save is judged before a user asks.
THEOREM SaveStops == Spec => []SaveStopsAtAnchorCard
<1>1. IInv => SaveStopsAtAnchorCard
    BY DEF IInv, RowInv, SaveStopsAtAnchorCard
<1> QED
    BY <1>1, Invariance, PTL

\* A run given to a user is not left resting.
THEOREM AnsweredIsPursued == Spec => []AnsweredRunIsPursued
<1>1. IInv => AnsweredRunIsPursued
  <2> SUFFICES ASSUME IInv, NEW r \in answered PROVE ~Resting(r)
    BY DEF AnsweredRunIsPursued
  <2>1. RowInv(r)
    BY DEF IInv, TypeOK
  <2> QED
    BY <2>1 DEF RowInv, Resting, Terminal
<1> QED
    BY <1>1, Invariance, PTL

\* A worker that owns its row knows the row's attempt and status.
THEOREM OwnerSees == Spec => []OwnerSeesItsRow
<1>1. IInv => OwnerSeesItsRow
    BY DEF IInv, JobInv, OwnerSeesItsRow
<1> QED
    BY <1>1, Invariance, PTL

\* No active run without a live lease is out of reach of every statement.
THEOREM NothingStranded == Spec => []NoRunStranded
<1>1. IInv => NoRunStranded
  <2> SUFFICES ASSUME IInv, NEW r \in Run, run[r].status \in ReusableActive,
                      run[r].lease \notin Live
               PROVE  Claimable(r) \/ Resting(r) \/ OverAttemptLimit(r)
    BY DEF NoRunStranded
  <2>1. RowInv(r) /\ run[r] \in Row
    BY Unfold
  <2>2. CASE run[r].status = "QUEUED"
    BY <2>2 DEF Claimable, Resting
  <2>3. CASE run[r].status \in InProgress /\ run[r].lease = "none"
    BY <2>1, <2>3 DEF RowInv, Claimable, HandedOff, Resting
  <2>4. CASE run[r].status \in InProgress /\ run[r].lease = "expired"
    <3>1. run[r].attempt < MaxAttempts \/ run[r].attempt >= MaxAttempts
      BY <2>1, ConstantsAssumption DEF Row
    <3> QED
      BY <2>4, <3>1 DEF Claimable, Resting, OverAttemptLimit
  <2>5. run[r].lease \in {"none", "expired"}
    BY <2>1 DEF Row, Lease
  <2> QED
    BY <2>2, <2>3, <2>4, <2>5 DEF ReusableActive
<1> QED
    BY <1>1, Invariance, PTL

-----------------------------------------------------------------------------
(* How one row may move in one step; the action properties and the          *)
(* refinement are read off these cases.                                     *)

Same(r, fields) == \A f \in fields : run'[r][f] = run[r][f]

Filed(r) ==
    run[r].status = "ABSENT" /\ run'[r].status = "QUEUED" /\ run'[r].lease = "none"

WantedNow(r) ==
    /\ run[r].trigger = "LEDGER_SAVE" /\ run[r].status \in ReusableActive
    /\ run'[r].trigger = "USER_REQUEST" /\ run'[r].status = run[r].status
    /\ run'[r].lease \in {run[r].lease, "none"}

Taken(r) ==
    /\ Claimable(r)
    /\ run'[r].status = IF run[r].status = "QUEUED" THEN "RUNNING" ELSE run[r].status
    /\ run'[r].trigger = run[r].trigger
    /\ ~HandedOff(r) => run'[r].attempt = run[r].attempt + 1

GivenUp(r) ==
    /\ OverAttemptLimit(r)
    /\ run'[r].status = "FAILED_TERMINAL" /\ run'[r].lease = "none"
    /\ run'[r].trigger = run[r].trigger

Timed(r) ==
    /\ run[r].status \in InProgress /\ run[r].lease \in Live
    /\ run'[r].status = run[r].status /\ run'[r].trigger = run[r].trigger

\* A step of the worker that owns the row.
Worked(r, w) ==
    /\ run[r].owner = w /\ job[w].run = r /\ job'[w] # job[w]
    /\ run[r].status \in InProgress
    /\ run'[r].trigger = run[r].trigger
    /\ run'[r].lease \in {run[r].lease, "none", "expired"}
    /\ \/ run'[r].status = run[r].status
       \/ run'[r].status \in {"SUPERSEDED", "FAILED_TERMINAL"} /\ ~Resting(r)
       \/ /\ run[r].status # "JUDGING" \/ run'[r].status = "COMPLETED"
          /\ run'[r].status = NextStatus(run[r].status)
          /\ run[r].trigger = "LEDGER_SAVE" => run[r].status = "RUNNING"
       \/ /\ run[r].status = "CANDIDATE_CARDS_READY"
          /\ run'[r].status = "JUDGING"

LEMMA HowRowsMove ==
    ASSUME IInv, Next, NEW r \in Run
    PROVE  \/ run'[r] = run[r]
           \/ Filed(r) \/ WantedNow(r) \/ Taken(r) \/ GivenUp(r) \/ Timed(r)
           \/ \E w \in Worker : Worked(r, w)
<1>0. run \in [Run -> Row] /\ job \in [Worker -> Job] /\ RowInv(r) /\ run[r] \in Row
    BY Unfold DEF TypeOK
<1>1. ASSUME NEW a \in Anchor, IntakeInsert(a) PROVE run'[r] = run[r] \/ Filed(r)
  <2>1. PICK q \in FreeIds :
          run' = [run EXCEPT ![q] =
              [status |-> "QUEUED", trigger |-> intake[a].trigger,
               owner |-> NoWorker, lease |-> "none", attempt |-> 0,
               anchor |-> a, version |-> intake[a].version,
               candidates |-> FALSE]]
    BY <1>1 DEF IntakeInsert
  <2> QED
    BY <1>0, <2>1 DEF Filed, FreeIds
<1>2. ASSUME NEW a \in Anchor, IntakeReuse(a) PROVE run'[r] = run[r] \/ WantedNow(r)
  <2> DEFINE f == intake[a].found
  <2>1. run' = IF Resumes(a) THEN [run EXCEPT ![f] = Resumed(run[f])] ELSE run
    BY <1>2 DEF IntakeReuse
  <2>2. CASE Resumes(a) /\ r = f
    <3>1. run'[r] = Resumed(run[r])
      BY <1>0, <2>1, <2>2
    <3>2. run[r].trigger = "LEDGER_SAVE" /\ run[r].status \in ReusableActive
      BY <2>2 DEF Resumes
    <3> QED
      BY <1>0, <3>1, <3>2 DEF WantedNow, Resumed, Row
  <2>3. CASE ~(Resumes(a) /\ r = f)
    BY <1>0, <2>1, <2>3
  <2> QED
    BY <2>2, <2>3
<1>3. ASSUME NEW w \in Worker, ClaimNextRun(w)
      PROVE  run'[r] = run[r] \/ Taken(r) \/ GivenUp(r)
  <2>1. PICK q \in Run :
          /\ Claimable(q)
          /\ run' = [p \in Run |->
                       IF p = q THEN ClaimedRow(q, w) ELSE CleanedRow(p)]
    BY <1>3 DEF ClaimNextRun
  <2>2. CASE q = r
    BY <1>0, <2>1, <2>2, ClaimedRowKind, Unfold DEF Taken
  <2>3. CASE q # r
    BY <1>0, <2>1, <2>3, CleanedRowKind, Unfold DEF GivenUp
  <2> QED
    BY <2>2, <2>3
<1>4. ASSUME NEW w \in Worker, ClaimNothing(w)
      PROVE  run'[r] = run[r] \/ GivenUp(r)
    BY <1>0, <1>4, CleanedRowKind, Unfold DEF ClaimNothing, GivenUp
<1>5. ASSUME NEW w \in Worker, Prepare(w), run' # run
      PROVE  run'[r] = run[r] \/ Worked(r, w)
  <2>1. /\ job[w].run \in Run /\ run[job[w].run].owner = w /\ job[w].at = "claimed"
        /\ run[job[w].run].status = "CANDIDATE_CARDS_READY"
        /\ run' = [run EXCEPT ![job[w].run].status = "JUDGING"]
        /\ job'[w].at = "calling"
    BY <1>0, <1>5, Unfold DEF Prepare, HoldsLease
  <2> QED
    BY <1>0, <2>1 DEF Worked, Row, InProgress
<1>6. ASSUME NEW w \in Worker, Park(w)
      PROVE  run'[r] = run[r] \/ Worked(r, w)
  <2>1. CASE run' = run
    BY <2>1
  <2>2. CASE run' # run
    <3>1. /\ job[w].run \in Run /\ run[job[w].run].owner = w /\ job[w].at = "park"
          /\ run[job[w].run].status = "ANCHOR_READY"
          /\ run' = [run EXCEPT ![job[w].run].owner = NoWorker,
                                ![job[w].run].lease = "none"]
          /\ job'[w].at = "idle"
      BY <1>0, <1>6, <2>2, Unfold DEF Park, Claimed, Resting, Frees, Idle
    <3> QED
      BY <1>0, <3>1 DEF Worked, Row, InProgress
  <2> QED
    BY <2>1, <2>2
<1>7. ASSUME NEW w \in Worker, StoreCommit(w)
      PROVE  run'[r] = run[r] \/ Worked(r, w)
  <2>1. CASE run' = run
    BY <2>1
  <2>2. CASE run' # run
    <3>0. PICK q \in Run : q = job[w].run
      BY <1>7, Unfold DEF StoreCommit
    <3>a. /\ Claimed(w) /\ run[q].status = job[w].status /\ job[w].at = "storing"
          /\ Frees(w) \/ Goes(w, "claimed")
      BY <1>7, <2>2, <3>0 DEF StoreCommit
    <3>b. PICK some \in BOOLEAN :
            run' = [run EXCEPT ![q].status = NextStatus(job[w].status),
                              ![q].candidates = some]
      BY <1>7, <2>2, <3>0, Unfold DEF StoreCommit, Row
    <3>c. job'[w].at \in {"idle", "claimed"}
      BY <1>0, <3>a DEF Frees, Goes, Idle, Job
    <3>1. /\ q = job[w].run /\ run[q].owner = w /\ job[w].at = "storing"
          /\ run[q].status = job[w].status
          /\ run' = [run EXCEPT ![q].status = NextStatus(job[w].status),
                                ![q].candidates = some]
          /\ job'[w].at \in {"idle", "claimed"}
      BY <3>0, <3>a, <3>b, <3>c DEF Claimed
    <3>2. CASE q = r
      <4>1. JobInv(w) /\ job[w].status \in InProgress /\ r # 0
        BY <3>1, Unfold DEF JobInv, Run
      <4>2. run[r].trigger = "LEDGER_SAVE" => run[r].status = "RUNNING"
        BY <1>0, <3>1, <3>2, <4>1 DEF RowInv, JobInv, InProgress
      <4>3. /\ run'[r].status = NextStatus(run[r].status)
            /\ run'[r].trigger = run[r].trigger /\ run'[r].lease = run[r].lease
        BY <1>0, <3>1, <3>2 DEF Row
      <4>4. run[r].status # "JUDGING" \/ NextStatus(run[r].status) = "COMPLETED"
        BY DEF NextStatus
      <4> QED
        BY <3>1, <3>2, <4>1, <4>2, <4>3, <4>4 DEF Worked
    <3>3. CASE q # r
      BY <1>0, <3>1, <3>3
    <3> QED
      BY <3>2, <3>3
  <2> QED
    BY <2>1, <2>2
<1>8. ASSUME NEW w \in Worker, Settle(w)
      PROVE  run'[r] = run[r] \/ Worked(r, w)
  <2>0. PICK q \in Run : q = job[w].run
    BY <1>8, Unfold DEF Settle, Outcome
  <2>1. CASE ~Fenced(w, InProgress) \/ q # r
    BY <1>0, <1>8, <2>0, <2>1 DEF Settle
  <2>2. CASE Fenced(w, InProgress) /\ q = r
    <3>1. /\ run[r].owner = w /\ job[w].run = r /\ run[r].status \in InProgress
          /\ job[w].at \in Outcome /\ job'[w].at = "idle"
      BY <1>0, <1>8, <2>0, <2>2 DEF Settle, Fenced, Claimed, Frees, Idle
    <3>2. CASE job[w].at = "RETRY"
      BY <1>0, <1>8, <2>0, <2>2, <3>1, <3>2 DEF Settle, Worked, Row
    <3>3. CASE job[w].at \in {"SUPERSEDED", "FAILED_TERMINAL"}
      <4>1. ~Resting(r)
        <5>1. JobInv(w) /\ r # 0
          BY Unfold DEF Run
        <5> QED
          BY <3>1, <3>3, <5>1 DEF JobInv, Resting
      <4>2. run'[r] = Ended(run[r], job[w].at)
        BY <1>0, <1>8, <2>0, <2>2, <3>3 DEF Settle
      <4> QED
        BY <1>0, <3>1, <3>3, <4>1, <4>2 DEF Worked, Ended, Row
    <3> QED
      BY <3>1, <3>2, <3>3 DEF Outcome
  <2> QED
    BY <2>1, <2>2
<1>9. ASSUME NEW w \in Worker, RenewLease(w) PROVE run'[r] = run[r] \/ Timed(r)
  <2>1. PICK q \in Run : q = job[w].run
    BY <1>9, Unfold DEF RenewLease
  <2> QED
    BY <1>0, <1>9, <2>1 DEF RenewLease, Fenced, Timed, Row
<1>10. ASSUME NEW q \in Run, LeaseAges(q) PROVE run'[r] = run[r] \/ Timed(r)
    BY <1>0, <1>10 DEF LeaseAges, Timed, Row
<1>11. ASSUME NEW a \in Anchor,
              \/ SaveLedger(a) \/ IntakeFind(a) \/ IntakeAbort(a)
              \/ \E trigger \in Trigger : IntakeBegin(a, trigger)
       PROVE  run'[r] = run[r]
    BY <1>11 DEF SaveLedger, IntakeFind, IntakeAbort, IntakeBegin
<1>12. ASSUME NEW w \in Worker,
              \/ ReadToPark(w) \/ ReadEnded(w) \/ ReadLeaseLost(w)
              \/ ReadStaleInput(w) \/ PrepareRaises(w) \/ StoreBegin(w)
              \/ StepRaises(w) \/ HeartbeatFails(w) \/ WorkerStops(w)
              \/ (Prepare(w) /\ run' = run)
       PROVE  run'[r] = run[r]
    BY <1>12 DEF ReadToPark, ReadEnded, ReadLeaseLost, ReadStaleInput,
       PrepareRaises, StoreBegin, StepRaises, HeartbeatFails, WorkerStops
<1> QED
    BY <1>1, <1>2, <1>3, <1>4, <1>5, <1>6, <1>7, <1>8, <1>9, <1>10, <1>11, <1>12
    DEF Next, IntakeProceeds, Polls, Steps

\* A resting run nobody holds is left alone until a user wants it.
THEOREM RestingUntouched == Spec => RestingRunUntouched
<1>1. ASSUME IInv, [Next]_vars, NEW r \in Run, Resting(r), run[r].owner = NoWorker
      PROVE  run'[r] = run[r] \/ run'[r].trigger = "USER_REQUEST"
  <2>1. RowInv(r)
    BY <1>1, Unfold
  <2>2. CASE UNCHANGED vars
    BY <2>2 DEF vars
  <2>3. CASE Next
    BY <1>1, <2>1, <2>3, HowRowsMove, ConstantsAssumption
    DEF RowInv, Resting, Filed, WantedNow, Taken, Claimable, GivenUp,
        OverAttemptLimit, Timed, Live, Worked
  <2> QED
    BY <1>1, <2>2, <2>3
<1>2. IInv /\ [Next]_vars =>
        [\A r \in Run :
           Resting(r) /\ run[r].owner = NoWorker =>
              run'[r] = run[r] \/ run'[r].trigger = "USER_REQUEST"]_vars
    BY <1>1
<1> QED
    BY <1>2, Invariance, PTL DEF Spec, RestingRunUntouched

\* Only a new claim, with a new attempt number, makes an expired lease live.
THEOREM NeverRevived == Spec => LeaseNeverRevived
<1>1. ASSUME IInv, [Next]_vars, NEW r \in Run,
             run[r].lease = "expired", run'[r].lease \in Live
      PROVE  run'[r].attempt = run[r].attempt + 1
  <2>1. CASE UNCHANGED vars
    BY <1>1, <2>1 DEF vars, Live
  <2>2. CASE Next
    BY <1>1, <2>2, HowRowsMove
    DEF Filed, WantedNow, Taken, HandedOff, GivenUp, Timed, Live, Worked
  <2> QED
    BY <1>1, <2>1, <2>2
<1>2. IInv /\ [Next]_vars =>
        [\A r \in Run :
           run[r].lease = "expired" /\ run'[r].lease \in Live =>
              run'[r].attempt = run[r].attempt + 1]_vars
    BY <1>1
<1> QED
    BY <1>2, Invariance, PTL DEF Spec, LeaseNeverRevived

\* The fence: under a live lease, only the holder's own steps move the run.
THEOREM HolderMoves == Spec => OnlyTheHolderMoves
<1>1. ASSUME IInv, [Next]_vars, NEW r \in Run,
             run[r].lease \in Live, run'[r].status # run[r].status
      PROVE  job[run[r].owner].run = r /\ job'[run[r].owner] # job[run[r].owner]
  <2>1. RowInv(r)
    BY <1>1, Unfold
  <2>2. CASE UNCHANGED vars
    BY <1>1, <2>2 DEF vars
  <2>3. CASE Next
    BY <1>1, <2>1, <2>3, HowRowsMove
    DEF RowInv, Filed, WantedNow, Taken, GivenUp, OverAttemptLimit, Timed,
        Live, Worked
  <2> QED
    BY <1>1, <2>2, <2>3
<1>2. IInv /\ [Next]_vars =>
        [\A r \in Run :
           run[r].lease \in Live /\ run'[r].status # run[r].status =>
              LET holder == run[r].owner IN
              job[holder].run = r /\ job'[holder] # job[holder]]_vars
    BY <1>1
<1> QED
    BY <1>2, Invariance, PTL DEF Spec, OnlyTheHolderMoves

\* The workers, leases and retries implement the public life of a run.
THEOREM Refinement == Spec => ImplementsLifecycle
<1>1. Init => Lifecycle!Init
  <2> SUFFICES ASSUME Init PROVE Lifecycle!Init
      OBVIOUS
  <2>1. \A r \in Run : /\ run[r].status = "ABSENT"
                      /\ (run[r].trigger = "USER_REQUEST") = FALSE
    BY DEF Init
  <2> QED
    BY <2>1, Zenon DEF Lifecycle!Init
<1>2. ASSUME IInv, IInv', [Next]_vars
      PROVE  [Lifecycle!Next]_(Lifecycle!vars)
  <2>1. CASE UNCHANGED vars
    BY <2>1 DEF vars, Lifecycle!vars
  <2>2. CASE Next
    <3> DEFINE stage == [r \in Run |-> run[r].status]
               wanted == [r \in Run |-> run[r].trigger = "USER_REQUEST"]
    <3>1. /\ stage' \in [Run -> Lifecycle!Stage]
          /\ wanted' \in [Run -> BOOLEAN]
      BY <1>2, Unfold DEF IInv, TypeOK, Row, ReusableActive, InProgress,
         Terminal, Lifecycle!Stage, Lifecycle!Begun, Lifecycle!Terminal
    <3>2. ASSUME NEW r \in Run
          PROVE  \/ Lifecycle!File(r) \/ Lifecycle!Want(r) \/ Lifecycle!Advance(r)
                 \/ Lifecycle!EndEarly(r) \/ Lifecycle!Stays(r)
      <4>1. RowInv(r) /\ run[r] \in Row
        BY <1>2, Unfold
      <4>2. CASE run'[r] = run[r]
        BY <4>2 DEF Lifecycle!Stays
      <4>3. CASE Filed(r)
        BY <4>3 DEF Filed, Lifecycle!File
      <4>4. CASE WantedNow(r)
        BY <4>4 DEF WantedNow, Lifecycle!Want, Lifecycle!Begun,
           ReusableActive, InProgress
      <4>5. CASE Taken(r)
        BY <4>5 DEF Taken, Lifecycle!Advance, Lifecycle!Unasked, Lifecycle!Stays
      <4>6. CASE GivenUp(r)
        BY <4>1, <4>6 DEF GivenUp, OverAttemptLimit, Resting, Row, Trigger,
           InProgress, Lifecycle!EndEarly, Lifecycle!Begun, Lifecycle!Rests
      <4>7. CASE Timed(r)
        BY <4>7 DEF Timed, Lifecycle!Stays
      <4>8. ASSUME NEW w \in Worker, Worked(r, w)
            PROVE  Lifecycle!Advance(r) \/ Lifecycle!EndEarly(r) \/ Lifecycle!Stays(r)
        <5>1. run[r].trigger \in Trigger
          BY <4>1 DEF Row
        <5>2. CASE run'[r].status = run[r].status
          BY <4>8, <5>2 DEF Worked, Lifecycle!Stays
        <5>3. CASE run'[r].status \in {"SUPERSEDED", "FAILED_TERMINAL"} /\ ~Resting(r)
          BY <4>8, <5>1, <5>3 DEF Worked, Resting, Trigger, InProgress,
             Lifecycle!EndEarly, Lifecycle!Begun, Lifecycle!Rests
        <5>4. CASE /\ run[r].status # "JUDGING" \/ run'[r].status = "COMPLETED"
                   /\ run'[r].status = NextStatus(run[r].status)
                   /\ run[r].trigger = "LEDGER_SAVE" => run[r].status = "RUNNING"
          BY <4>8, <5>1, <5>4 DEF Worked, NextStatus, Trigger, InProgress,
             Lifecycle!Advance, Lifecycle!Unasked, Lifecycle!OnRequest
        <5>5. CASE /\ run[r].status = "CANDIDATE_CARDS_READY"
                   /\ run'[r].status = "JUDGING"
          BY <4>1, <4>8, <5>1, <5>5 DEF Worked, RowInv, Trigger,
             Lifecycle!Advance, Lifecycle!OnRequest
        <5> QED
          BY <4>8, <5>2, <5>3, <5>4, <5>5 DEF Worked
      <4> QED
        BY <1>2, <2>2, <4>2, <4>3, <4>4, <4>5, <4>6, <4>7, <4>8, HowRowsMove
    <3> QED
      BY <3>1, <3>2 DEF Lifecycle!Next
  <2> QED
    BY <1>2, <2>1, <2>2
<1>3. IInv /\ IInv' /\ [Next]_vars => [Lifecycle!Next]_(Lifecycle!vars)
    BY <1>2
<1> QED
    BY <1>1, <1>3, Invariance, PTL DEF Spec, ImplementsLifecycle, Lifecycle!Spec

=============================================================================
