------------------------------- MODULE Serving -------------------------------
(***************************************************************************)
(* The shared development serving environment and the operator's commands  *)
(* over it: dev-start and dev-prepare-app (infra/scripts/serving_lifecycle *)
(* .py over manage_serving.py, serving_plan.py, serving_templates.py,      *)
(* serving_model_targets.py, serving_app_revision.py and manage_dev_power  *)
(* .py), dev-stop and ai-select.  dev-verify changes nothing and is left   *)
(* out, but for the verification that ends a start.                        *)
(*                                                                         *)
(* The commands keep no state of their own between runs: everything they   *)
(* decide on is read from the clouds (SSM parameters, EC2, RunPod, the app *)
(* host), and any of these calls may fail, may succeed although its answer *)
(* is lost, or may be the last one before the command is killed.           *)
(* infra/operations/configuration.md:58 forbids two of start, stop and     *)
(* model changes at once, so one power command runs at a time; ai-select   *)
(* and an application deployment interleave with it.                       *)
(***************************************************************************)
EXTENDS Naturals, FiniteSets

CONSTANTS
    Workload,     \* f2 and general
    Model,        \* what a specification of a workload asks to be served
    MaxAttempts,  \* bound: dev-start / dev-prepare-app runs
    MaxSelects,   \* bound: selections saved
    FirstSpecs    \* bound: the specifications selected at first

ASSUME ServingAssumption ==
    /\ IsFiniteSet(Workload)
    /\ MaxAttempts \in Nat
    /\ MaxSelects \in Nat
    /\ FirstSpecs \subseteq [Workload -> [cloud : {"aws", "runpod"}, model : Model]]

VARIABLES
    selection,    \* SSM serving/SELECTION: its id and a specification per workload
    gpu,          \* the Terraform-managed AWS instance of each workload
    pods,         \* the managed RunPod Pods, with the attempt token in their env
    template,     \* what the RunPod Template of each workload deploys
    registration, \* what SSM says the Template deploys
    endpoint,     \* SSM endpoint of each workload: where the application is sent
    host,         \* the application host and its database
    applied,      \* SSM serving/APPLIED
    command,      \* the start, prepare or stop command that runs
    reviewer      \* an ai-select of another operator

servingVars == <<selection, gpu, pods, template, registration, endpoint, host,
                 applied, command, reviewer>>

Specification == [cloud : {"aws", "runpod"}, model : Model]
NoAttempt == 0
NoRoute == [by |-> NoAttempt, cloud |-> "none", model |-> "none"]

(* The resource behind a route or a receipt: the one AWS instance of a
   workload, or the Pod that carries an attempt's token.                    *)
Aws(w) == [w |-> w, cloud |-> "aws", by |-> NoAttempt]
Pod(w, a) == [w |-> w, cloud |-> "runpod", by |-> a]

IsOn(r) == IF r.cloud = "aws" THEN gpu[r.w].state = "running"
                              ELSE \E p \in pods : p.w = r.w /\ p.by = r.by
Behind(w) == [w |-> w, cloud |-> endpoint[w].cloud, by |-> endpoint[w].by]

Idle == [pc |-> "idle", kind |-> "none", attempt |-> NoAttempt,
         selection |-> selection, inventory |-> [w \in Workload |-> gpu[w].state],
         snapshot |-> [w \in Workload |-> {}], receipts |-> {}, candidate |-> {},
         todo |-> Workload, now |-> {}, bare |-> FALSE, revision |-> FALSE, trouble |-> FALSE, errors |-> FALSE]

(* What is left of a command that is over.                                   *)
Over == [Idle EXCEPT !.attempt = command.attempt]

NoReview == [pc |-> "idle", on |-> {}, saw |-> selection, wants |-> selection.spec]

ServingInit ==
    /\ selection \in {[id |-> 1, spec |-> s] : s \in FirstSpecs}
    /\ gpu = [w \in Workload |-> [state |-> "absent", model |-> "none"]]
    /\ pods = {}
    /\ template = [w \in Workload |-> "none"]
    /\ registration = [w \in Workload |-> "none"]
    /\ endpoint = [w \in Workload |-> NoRoute]
    /\ host = [db |-> FALSE, up |-> FALSE, flag |-> FALSE, app |-> FALSE,
               revision |-> FALSE, targets |-> 0]
    /\ applied = [status |-> "none", id |-> 0, revision |-> FALSE]
    /\ command = Idle
    /\ reviewer = NoReview

------------------------------------------------------------------------------
(* What the commands read before they change anything.                       *)

Wanted(w) == command.selection.spec[w]

(* require_app_stopped: the maintenance flag is set and no container runs.   *)
AppStopped == host.up => host.flag /\ ~host.app

PodsOf(w) == {p \in pods : p.w = w}

(* A Pod that runs what is wanted may stay; a route must lead to it.         *)
CanResume(w, want) ==
    /\ template[w] = want.model
    /\ registration[w] = want.model
    /\ \E p \in PodsOf(w) :
        /\ PodsOf(w) = {p}
        /\ p.model = want.model
        /\ endpoint[w] # NoRoute =>
              endpoint[w].cloud = "runpod" /\ endpoint[w].by = p.by
                                           /\ endpoint[w].model = want.model

(* The Template may be changed only while nothing depends on it.             *)
Reviewable(w, want) ==
    want.cloud = "runpod" =>
        (endpoint[w] = NoRoute /\ PodsOf(w) = {}) \/ CanResume(w, want)

(* What the review of a workload is bound to: the plan is stale when any of
   it has changed.                                                           *)
TemplateSnapshot(w) ==
    {[template |-> template[w], registration |-> registration[w],
      route |-> endpoint[w], pods |-> PodsOf(w)]}

(* StartPlan.build: nothing is changed, the operator reads what was found.   *)
BuildPlan(kind) ==
    /\ command.pc = "idle"
    /\ command.attempt < MaxAttempts
    /\ AppStopped
    /\ \A w \in Workload : Reviewable(w, selection.spec[w])
    /\ command' = [Idle EXCEPT !.pc = "planned", !.kind = kind,
                               !.attempt = command.attempt + 1,
                               !.snapshot = [w \in Workload |-> TemplateSnapshot(w)],
                               !.revision = applied.revision]
    /\ UNCHANGED <<selection, gpu, pods, template, registration, endpoint, host,
                   applied, reviewer>>

(* StartPlan.check.                                                          *)
PlanHolds(templates) ==
    /\ selection = command.selection
    /\ templates => \A w \in Workload :
          Wanted(w).cloud = "runpod" => command.snapshot[w] = TemplateSnapshot(w)

InventoryHolds == \A w \in Workload : gpu[w].state = command.inventory[w]

(* StartPlan.apply up to `approved`: what was reviewed still stands.         *)
AcceptPlan ==
    /\ command.pc = "planned"
    /\ PlanHolds(TRUE)
    /\ InventoryHolds
    /\ AppStopped
    /\ command' = [command EXCEPT !.pc = "terraform"]
    /\ UNCHANGED <<selection, gpu, pods, template, registration, endpoint, host,
                   applied, reviewer>>

(* The operator declines, or the plan no longer stands: nothing was started. *)
DropPlan ==
    /\ command.pc = "planned"
    /\ command' = Over
    /\ UNCHANGED <<selection, gpu, pods, template, registration, endpoint, host,
                   applied, reviewer>>

------------------------------------------------------------------------------
(* Infrastructure: Terraform creates the instances that are missing, and they
   run from then on; the Templates are patched and then registered.          *)

Stays == UNCHANGED <<selection, endpoint, applied, reviewer>>

Missing == {w \in Workload : Wanted(w).cloud = "aws" /\ gpu[w].state = "absent"}

Created(S) == [w \in Workload |->
                  IF w \in S THEN [state |-> "running", model |-> "none"] ELSE gpu[w]]

TerraformApply ==
    /\ command.pc = "terraform"
    /\ gpu' = Created(Missing)
    /\ command' = [command EXCEPT !.pc = "templates"]
    /\ UNCHANGED <<pods, template, registration, host>> /\ Stays

(* Terraform stops half way.                                                 *)
TerraformFails ==
    /\ command.pc = "terraform"
    /\ \E S \in SUBSET Missing : gpu' = Created(S)
    /\ command' = [command EXCEPT !.pc = "failing"]
    /\ UNCHANGED <<pods, template, registration, host>> /\ Stays

Reconciled(w) == Wanted(w).cloud = "runpod" =>
                    template[w] = Wanted(w).model /\ registration[w] = Wanted(w).model

PatchTemplate(w) ==
    /\ command.pc = "templates"
    /\ command.snapshot[w] = TemplateSnapshot(w)
    /\ Wanted(w).cloud = "runpod" /\ template[w] # Wanted(w).model
    /\ PodsOf(w) = {}
    /\ template' = [template EXCEPT ![w] = Wanted(w).model]
    /\ UNCHANGED <<gpu, pods, registration, host, command>> /\ Stays

RegisterTemplate(w) ==
    /\ command.pc = "templates"
    /\ Wanted(w).cloud = "runpod" /\ template[w] = Wanted(w).model
    /\ registration[w] # Wanted(w).model
    /\ PodsOf(w) = {}
    /\ registration' = [registration EXCEPT ![w] = Wanted(w).model]
    /\ UNCHANGED <<gpu, pods, template, host, command>> /\ Stays

(* Lifecycle.collect_terraform_resources: what was not there when the plan
   was reviewed belongs to this attempt.                                     *)
Collected == {Aws(w) : w \in {v \in Workload :
                 gpu[v].state # "absent" /\ command.inventory[v] = "absent"}}

(* Lifecycle.record: that SSM cannot be written is reported and stops nothing. *)
Record(status, revision) ==
    applied' \in {applied, [status |-> status, id |-> command.selection.id,
                            revision |-> revision]}

(* Lifecycle.checkpoint: the selection is compared with the one reviewed and
   the stage is recorded.                                                    *)
Checkpoint ==
    /\ selection = command.selection
    /\ Record("applying", command.revision)

InfrastructureReady ==
    /\ command.pc = "templates"
    /\ \A w \in Workload : Reconciled(w)
    /\ Checkpoint
    /\ command' = [command EXCEPT !.pc = "power", !.receipts = @ \cup Collected,
                                  !.snapshot = Idle.snapshot]
    /\ UNCHANGED <<selection, gpu, pods, template, registration, endpoint, host,
                   reviewer>>

------------------------------------------------------------------------------
(* PowerController.start: the database before the application group; a host
   that was down comes up fresh, without flag, revision or containers.       *)

Fresh == [host EXCEPT !.db = TRUE, !.up = TRUE, !.flag = FALSE, !.app = FALSE,
                      !.revision = FALSE]

StartDatabase ==
    /\ command.pc = "power" /\ ~host.db
    /\ host' = [host EXCEPT !.db = TRUE]
    /\ UNCHANGED <<gpu, pods, template, registration, command>> /\ Stays

StartHost ==
    /\ command.pc = "power" /\ host.db
    /\ host' = IF host.up THEN host ELSE Fresh
    /\ command' = [command EXCEPT !.pc = "flag"]
    /\ UNCHANGED <<gpu, pods, template, registration>> /\ Stays

EnterMaintenance ==
    /\ command.pc = "flag" /\ host.up
    /\ host' = [host EXCEPT !.flag = TRUE]
    /\ command' = [command EXCEPT !.pc = "revision"]
    /\ UNCHANGED <<gpu, pods, template, registration>> /\ Stays

(* ModelTargets.require_host: the revision must answer, with the app stopped. *)
HostSupported ==
    /\ command.pc = "revision" /\ host.up
    /\ host.revision /\ ~host.app
    /\ command' = [command EXCEPT !.pc = "quiesce"]
    /\ UNCHANGED <<gpu, pods, template, registration, host>> /\ Stays

(* serving_app_revision.restore: only a revision an earlier start attested.  *)
RestoreRevision ==
    /\ command.pc = "revision" /\ host.up
    /\ ~host.revision
    /\ command.kind = "start" /\ command.revision
    /\ host.flag
    /\ host' = [host EXCEPT !.revision = TRUE]
    /\ UNCHANGED <<gpu, pods, template, registration, command>> /\ Stays

(* dev-prepare-app on a host without a revision: the GPUs, then app-deploy.  *)
PrepareFirst ==
    /\ command.pc = "revision" /\ host.up
    /\ ~host.revision /\ command.kind = "prepare"
    /\ command' = [command EXCEPT !.pc = "next", !.bare = TRUE]
    /\ UNCHANGED <<gpu, pods, template, registration, host>> /\ Stays

(* The workloads are stopped and the targets previewed and chosen; targets
   that nobody may change keep the command from going on.                    *)
QuiesceAndPreview ==
    /\ command.pc = "quiesce" /\ host.up
    /\ Checkpoint
    /\ host' = [host EXCEPT !.app = FALSE]
    /\ command' = [command EXCEPT !.pc = "next"]
    /\ UNCHANGED <<selection, gpu, pods, template, registration, endpoint, reviewer>>

------------------------------------------------------------------------------
(* Lifecycle.endpoints, one workload after the other: the GPU is brought up,
   its model is loaded and probed, the route is registered. `candidate` is
   what this prepare() has started; it becomes a receipt of the attempt when
   prepare() returns.                                                        *)

Registered(w) == registration[w] = Wanted(w).model /\ template[w] = Wanted(w).model

BeginPrepare(w) ==
    /\ command.pc = "next" /\ w \in command.todo
    /\ Checkpoint
    /\ command' = [command EXCEPT !.pc = "prepare", !.now = {w}, !.candidate = {}]
    /\ UNCHANGED <<selection, gpu, pods, template, registration, endpoint, host,
                   reviewer>>

(* A stopped instance is started by this attempt, a running one is not.      *)
StartInstance(w) ==
    /\ command.pc = "prepare" /\ command.now = {w}
    /\ Wanted(w).cloud = "aws" /\ gpu[w].state # "absent"
    /\ gpu' = [gpu EXCEPT ![w].state = "running"]
    /\ command' = [command EXCEPT !.pc = "load",
                       !.candidate = IF gpu[w].state = "stopped" THEN {Aws(w)} ELSE {}]
    /\ UNCHANGED <<pods, template, registration, host>> /\ Stays

(* The one managed Pod there is runs what is wanted: it is used as it is.    *)
ReusePod(w) ==
    /\ command.pc = "prepare" /\ command.now = {w}
    /\ Wanted(w).cloud = "runpod" /\ Registered(w)
    /\ \E p \in pods : PodsOf(w) = {p} /\ p.model = Wanted(w).model
    /\ command' = [command EXCEPT !.pc = "load"]
    /\ UNCHANGED <<gpu, pods, template, registration, host>> /\ Stays

(* Without one a Pod is created with the token of the attempt. The POST may
   succeed remotely while its answer is lost: then there is no candidate.    *)
CreatePod(w) ==
    /\ command.pc = "prepare" /\ command.now = {w}
    /\ Wanted(w).cloud = "runpod" /\ Registered(w)
    /\ PodsOf(w) = {}
    /\ pods' = pods \cup {[w |-> w, by |-> command.attempt, model |-> Wanted(w).model]}
    /\ \/ command' = [command EXCEPT !.pc = "load", !.candidate = {Pod(w, command.attempt)}]
       \/ command' = [command EXCEPT !.pc = "failing"]
    /\ UNCHANGED <<gpu, template, registration, host>> /\ Stays

(* gpu_host.main on the instance, or the Pod's own start-up, and a synthetic
   inference: what is wanted answers.                                        *)
ModelReadyCold(w) ==
    /\ command.pc = "load" /\ command.now = {w}
    /\ gpu' = IF Aws(w) \in command.candidate
                 THEN [gpu EXCEPT ![w].model = Wanted(w).model] ELSE gpu
    /\ command' = [command EXCEPT !.pc = "register", !.receipts = @ \cup command.candidate]
    /\ UNCHANGED <<pods, template, registration, host>> /\ Stays

ModelReady(w) ==
    /\ command.pc = "load" /\ command.now = {w}
    /\ gpu' = IF Wanted(w).cloud = "aws" THEN [gpu EXCEPT ![w].model = Wanted(w).model]
                                         ELSE gpu
    /\ command' = [command EXCEPT !.pc = "register", !.receipts = @ \cup command.candidate]
    /\ UNCHANGED <<pods, template, registration, host>> /\ Stays

CheckRegister ==
    /\ command.pc = "register"
    /\ Checkpoint
    /\ command' = [command EXCEPT !.pc = "activate"]
    /\ UNCHANGED <<selection, gpu, pods, template, registration, endpoint, host,
                   reviewer>>

(* Serving.activate.                                                         *)
RouteTo(w) == [cloud |-> Wanted(w).cloud, model |-> Wanted(w).model,
               by |-> IF Wanted(w).cloud = "aws" THEN NoAttempt
                      ELSE (CHOOSE p \in PodsOf(w) : TRUE).by]

Activate(w) ==
    /\ command.pc = "activate" /\ command.now = {w}
    /\ endpoint' = [endpoint EXCEPT ![w] = RouteTo(w)]
    /\ command' = [command EXCEPT !.todo = @ \ {w}, !.now = {},
          !.pc = IF command.todo # {w} THEN "next"
                 ELSE IF command.bare THEN "prepared" ELSE "targets"]
    /\ UNCHANGED <<selection, gpu, pods, template, registration, host, applied,
                   reviewer>>

(* ModelTargets.apply and require_compatible: the database's targets take the
   model that was chosen, with the workloads stopped.                        *)
ApplyTargets ==
    /\ command.pc = "targets" /\ host.up
    /\ Checkpoint
    /\ host.revision /\ ~host.app
    /\ host' = [host EXCEPT !.targets = command.selection.id]
    /\ command' = [command EXCEPT !.pc = IF command.kind = "prepare" THEN "prepared"
                                         ELSE "go"]
    /\ UNCHANGED <<selection, gpu, pods, template, registration, endpoint, reviewer>>

(* dev-prepare-app ends here, with the GPUs running for the deployment.      *)
RecordPrepared ==
    /\ command.pc = "prepared"
    /\ Record("prepared", command.revision)
    /\ command' = Over
    /\ UNCHANGED <<selection, gpu, pods, template, registration, endpoint, host,
                   reviewer>>

LeaveMaintenance ==
    /\ command.pc = "go" /\ host.up
    /\ Checkpoint
    /\ host' = [host EXCEPT !.flag = FALSE]
    /\ command' = [command EXCEPT !.pc = "start"]
    /\ UNCHANGED <<selection, gpu, pods, template, registration, endpoint, reviewer>>

(* The containers come up; validating them may still fail.                   *)
StartApplication ==
    /\ command.pc = "start" /\ host.up
    /\ host' = [host EXCEPT !.app = TRUE]
    /\ \/ command' = [command EXCEPT !.pc = "verify"]
       \/ command' = [command EXCEPT !.pc = "failing"]
    /\ UNCHANGED <<gpu, pods, template, registration>> /\ Stays

(* The last checkpoint, then the smoke tests, the attested revision and the
   record, without comparing the selection again.                            *)
CheckVerify ==
    /\ command.pc = "verify"
    /\ Checkpoint
    /\ command' = [command EXCEPT !.pc = "smoke"]
    /\ UNCHANGED <<selection, gpu, pods, template, registration, endpoint, host,
                   reviewer>>

VerifyApplication ==
    /\ command.pc = "smoke" /\ host.up /\ host.app
    /\ Record("applied", TRUE)
    /\ command' = Over
    /\ UNCHANGED <<selection, gpu, pods, template, registration, endpoint, host,
                   reviewer>>

------------------------------------------------------------------------------
(* A step of an approved start raises, or is interrupted.                    *)

Working == {"terraform", "templates", "power", "flag", "revision", "quiesce", "next",
            "prepare", "load", "register", "activate", "targets", "prepared", "go",
            "start", "verify", "smoke"}

StepFails ==
    /\ command.pc \in Working
    /\ command' = [command EXCEPT !.pc = "failing"]
    /\ UNCHANGED <<gpu, pods, template, registration, host>> /\ Stays

Off(S) == /\ gpu' = [w \in Workload |-> IF Aws(w) \in S
                        THEN [gpu[w] EXCEPT !.state = "stopped"] ELSE gpu[w]]
          /\ pods' = {p \in pods : Pod(p.w, p.by) \notin S}

(* Serving.prepare takes its own candidate down before it raises.            *)
PrepareFails ==
    /\ command.pc = "load" /\ command.candidate # {}
    /\ Off(command.candidate)
    /\ command' = [command EXCEPT !.pc = "failing", !.candidate = {}]
    /\ UNCHANGED <<template, registration, host>> /\ Stays

(* First the application: the flag, then the workloads are drained. A failure
   of either is reported and the clean-up goes on.                           *)
QuietApplication ==
    /\ command.pc = "failing"
    /\ \/ host' = IF host.up THEN [host EXCEPT !.flag = TRUE, !.app = FALSE] ELSE host
       \/ host' = [host EXCEPT !.flag = TRUE] /\ host.up /\ host.app
       \/ host' = host /\ host.up
    /\ command' = [command EXCEPT !.pc = "adopt", !.now = {}, !.todo = Workload,
                                  !.snapshot = Idle.snapshot,
                                  !.trouble = host'.app]
    /\ UNCHANGED <<gpu, pods, template, registration>> /\ Stays

(* Lifecycle.cleanup: the candidate, the Pods that carry exactly this
   attempt's token and the instances Terraform created become receipts.      *)
Owned == {r \in {Pod(p.w, p.by) : p \in pods} : r.by = command.attempt}

AdoptKnown ==
    /\ command.pc = "adopt"
    /\ command' = [command EXCEPT !.pc = "unroute", !.candidate = {},
            !.receipts = @ \cup command.candidate \cup Collected]
    /\ UNCHANGED <<gpu, pods, template, registration, host>> /\ Stays

Adopt ==
    /\ command.pc = "adopt"
    /\ \E found \in SUBSET (Owned \cup Collected) :
        command' = [command EXCEPT !.pc = "unroute", !.candidate = {},
            !.receipts = @ \cup command.candidate \cup found,
            !.trouble = @ \/ ~(Owned \cup Collected
                                  \subseteq command.receipts \cup command.candidate \cup found)]
    /\ UNCHANGED <<gpu, pods, template, registration, host>> /\ Stays

(* Routes before resources, and each as far as it goes.                      *)
Unroute(w) ==
    /\ command.pc = "unroute" /\ w \in command.todo
    /\ \/ /\ endpoint' = [endpoint EXCEPT ![w] = NoRoute]
          /\ command' = [command EXCEPT !.todo = @ \ {w}]
       \/ /\ endpoint' = endpoint
          /\ command' = [command EXCEPT !.todo = @ \ {w}, !.trouble = TRUE]
    /\ UNCHANGED <<selection, gpu, pods, template, registration, host, applied, reviewer>>

ReleaseFirst(r) ==
    /\ command.pc = "unroute" /\ r \in command.receipts
    /\ Off({r}) /\ command' = [command EXCEPT !.receipts = @ \ {r}]
    /\ UNCHANGED <<template, registration, host>> /\ Stays

Release(r) ==
    /\ command.pc = "unroute" /\ command.todo = {} /\ r \in command.receipts
    /\ \/ Off({r}) /\ command' = [command EXCEPT !.receipts = @ \ {r}]
       \/ /\ UNCHANGED <<gpu, pods>>
          /\ command' = [command EXCEPT !.receipts = @ \ {r}, !.trouble = TRUE]
    /\ UNCHANGED <<template, registration, host>> /\ Stays

RecordFailed ==
    /\ command.pc = "unroute" /\ command.todo = {} /\ command.receipts = {}
    /\ Record("failed", command.revision)
    /\ command' = Over
    /\ UNCHANGED <<selection, gpu, pods, template, registration, endpoint, host,
                   reviewer>>

(* The command is killed: nothing of it goes on, nothing is cleaned up.      *)
Killed ==
    /\ command.pc # "idle"
    /\ command' = Over
    /\ UNCHANGED <<selection, gpu, pods, template, registration, endpoint, host,
                   applied, reviewer>>

------------------------------------------------------------------------------
(* dev-stop: the application is drained first, and only then the routes, the
   GPUs, the host and the database go; each failure is collected.            *)

BeginStop ==
    /\ command.pc = "idle"
    /\ \/ /\ host' = IF host.up THEN [host EXCEPT !.flag = TRUE, !.app = FALSE] ELSE host
          /\ command' = [Over EXCEPT !.pc = "stop-route"]
       \/ /\ host.up /\ host.app     \* the drain times out: nothing else is touched
          /\ host' = [host EXCEPT !.flag = TRUE]
          /\ command' = Over
    /\ UNCHANGED <<selection, gpu, pods, template, registration, endpoint, applied,
                   reviewer>>

StopRoute(w) ==
    /\ command.pc = "stop-route" /\ w \in command.todo
    /\ endpoint' \in {endpoint, [endpoint EXCEPT ![w] = NoRoute]}
    /\ command' = [command EXCEPT !.pc = "stop-gpu", !.now = {w},
                                  !.errors = @ \/ endpoint'[w] # NoRoute]
    /\ UNCHANGED <<selection, gpu, pods, template, registration, host, applied, reviewer>>

(* Serving.stop_resources: every instance and every managed Pod of it.       *)
Managed(w) == {Aws(w)} \cup {Pod(w, p.by) : p \in PodsOf(w)}

StopGpus(w) ==
    /\ command.pc = "stop-gpu" /\ command.now = {w}
    /\ \E S \in SUBSET Managed(w) :
        /\ Off({r \in S : IsOn(r)})
        /\ command' = [command EXCEPT !.todo = @ \ {w}, !.now = {},
              !.pc = IF command.todo = {w} THEN "stop-power" ELSE "stop-route",
              !.errors = @ \/ \E r \in Managed(w) \ S : IsOn(r)]
    /\ UNCHANGED <<template, registration, host>> /\ Stays

(* PowerController.stop: the group is emptied before the database is stopped. *)
StopPower ==
    /\ command.pc = "stop-power"
    /\ host' \in {host, [Fresh EXCEPT !.up = FALSE, !.db = host.db],
                  [Fresh EXCEPT !.up = FALSE, !.db = FALSE]}
    /\ command' = Over
    /\ UNCHANGED <<gpu, pods, template, registration>> /\ Stays

------------------------------------------------------------------------------
(* The other operator and the delivery pipeline.                             *)

(* serving_selection.require_stopped.                                        *)
EverythingStopped ==
    /\ ~host.up
    /\ pods = {}
    /\ \A w \in Workload : endpoint[w] = NoRoute /\ gpu[w].state # "running"

Reviewing(pc, on, wants) ==
    /\ reviewer' = [pc |-> pc, on |-> on, saw |-> selection, wants |-> wants]
    /\ UNCHANGED <<selection, gpu, pods, template, registration, endpoint, host,
                   applied, command>>

(* save: what is there is read while everything is stopped, asked again and
   compared after the confirmation, and then written.                        *)
SelectReview(w, spec) ==
    /\ reviewer.pc = "idle" /\ selection.id <= MaxSelects
    /\ EverythingStopped
    /\ spec # selection.spec[w]
    /\ Reviewing("selecting", {w}, [selection.spec EXCEPT ![w] = spec])

SelectCheck ==
    /\ reviewer.pc = "selecting"
    /\ EverythingStopped
    /\ selection = reviewer.saw
    /\ Reviewing("saving", reviewer.on, reviewer.wants)

SelectWrite ==
    /\ reviewer.pc = "saving"
    /\ selection' = [id |-> selection.id + 1, spec |-> reviewer.wants]
    /\ reviewer' = [pc |-> "idle", on |-> {}, saw |-> selection', wants |-> reviewer.wants]
    /\ UNCHANGED <<gpu, pods, template, registration, endpoint, host, applied, command>>

ReviewEnds ==
    /\ reviewer.pc # "idle"
    /\ reviewer' = NoReview
    /\ UNCHANGED <<selection, gpu, pods, template, registration, endpoint, host,
                   applied, command>>

(* An application deployment: application_start.sh leaves the containers
   stopped while the maintenance flag is there.                              *)
AppDeploy ==
    /\ host.up
    /\ host' = [host EXCEPT !.revision = TRUE, !.app = ~host.flag]
    /\ UNCHANGED <<gpu, pods, template, registration, command>> /\ Stays

------------------------------------------------------------------------------
StartSteps ==
    \/ AcceptPlan \/ DropPlan \/ TerraformApply \/ TerraformFails
    \/ InfrastructureReady \/ StartDatabase \/ StartHost \/ EnterMaintenance
    \/ HostSupported \/ RestoreRevision \/ PrepareFirst \/ QuiesceAndPreview
    \/ CheckRegister \/ ApplyTargets \/ RecordPrepared \/ LeaveMaintenance
    \/ StartApplication \/ CheckVerify \/ VerifyApplication
    \/ \E w \in Workload :
        \/ PatchTemplate(w) \/ RegisterTemplate(w) \/ BeginPrepare(w)
        \/ StartInstance(w) \/ ReusePod(w) \/ CreatePod(w) \/ ModelReady(w)
        \/ Activate(w)

FailureSteps ==
    \/ StepFails \/ PrepareFails \/ QuietApplication \/ Adopt \/ RecordFailed \/ Killed
    \/ \E w \in Workload : Unroute(w)
    \/ \E r \in command.receipts : Release(r)

StopSteps ==
    \/ BeginStop \/ StopPower
    \/ \E w \in Workload : StopRoute(w) \/ StopGpus(w)

ReviewSteps ==
    \/ SelectCheck \/ SelectWrite \/ ReviewEnds
    \/ \E w \in Workload, spec \in Specification : SelectReview(w, spec)

ServingNext ==
    \/ \E kind \in {"start", "prepare"} : BuildPlan(kind)
    \/ StartSteps \/ FailureSteps \/ StopSteps \/ ReviewSteps \/ AppDeploy

ServingSpec == ServingInit /\ [][ServingNext]_servingVars

------------------------------------------------------------------------------
(* Properties.                                                               *)

(* An attempt that ended as failed, and whose clean-up had no trouble, leaves
   no GPU running that it turned on (Terraform's, a stopped instance's, a
   Pod's whose creation was never answered), no route and no application.    *)
FailedStartLeavesNothing ==
    RecordFailed /\ ~command.trouble =>
        /\ \A p \in pods : p.by # command.attempt
        /\ \A w \in Workload :
            /\ gpu[w].state = "running" => command.inventory[w] = "running"
            /\ endpoint[w] = NoRoute

(* A stop that reported no error leaves nothing billed for computing, whatever
   the commands before it had left behind, killed ones included.             *)
StopLeavesNothingRunning ==
    StopPower /\ ~command.errors /\ ~host'.up /\ ~host'.db => EverythingStopped'

(* No command that reports success, or a clean failure, leaves a GPU that is
   paid for by the hour and that nobody knows of.                            *)
NothingLeftRunning ==
    [][FailedStartLeavesNothing /\ StopLeavesNothingRunning]_servingVars

(* Routes are taken away before what they lead to, and led only to what runs:
   no step of a start, a failure or a stop leaves an advertised endpoint
   without its GPU, unless the command has reported that a step failed. A
   prepare() that fails stops only what it has itself started: the route of an
   earlier command to that instance was dead when the prepare() began.       *)
Live(w) == endpoint[w] = NoRoute \/ IsOn(Behind(w))

RoutesStayLive ==
    \A w \in Workload :
        Live(w) => \/ Live(w)'
                   \/ command.trouble \/ command.errors
                   \/ command.pc = "load" /\ command.candidate = {Behind(w)}

(* Nobody is served by a model that is being exchanged: no template, no model
   on a GPU and no target of the database changes while the application runs. *)
ModelsChangeUnderMaintenance ==
    \/ template' # template \/ registration' # registration
    \/ host'.targets # host.targets
    \/ \E w \in Workload : gpu'[w].model # gpu[w].model
    => ~host.app

(* The order of the commands' steps: maintenance before a model, a route
   before its GPU on the way down and after it on the way up.                *)
ServingInOrder == [][RoutesStayLive /\ ModelsChangeUnderMaintenance]_servingVars

(* What is recorded as applied was served when it was recorded: every route
   leads to a running GPU that has loaded the model of the selection named.  *)
Serves(w, want) ==
    /\ endpoint[w].cloud = want.cloud
    /\ IsOn(Behind(w))
    /\ want.model = IF want.cloud = "aws" THEN gpu[w].model
                    ELSE (CHOOSE p \in PodsOf(w) : p.by = endpoint[w].by).model

AppliedMeansServed ==
    [][applied' # applied /\ applied'.status = "applied" =>
         /\ applied'.id = host.targets
         /\ \A w \in Workload : Serves(w, Wanted(w))]_servingVars

(* serving_maintenance.sh:21: when draining the workloads times out, "GPU
   resources and routing must remain unchanged".                             *)
DrainTimeoutKeepsRouting ==
    [][host.app /\ host.flag => UNCHANGED <<endpoint, gpu, pods>>]_servingVars
=============================================================================
