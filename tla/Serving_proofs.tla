--------------------------- MODULE Serving_proofs ---------------------------
(***************************************************************************)
(* Proofs of the properties of the serving environment, for any set of     *)
(* workloads and models and any number of attempts and selections.         *)
(*                                                                         *)
(* Every property speaks of the end of a command or of a step late in it,  *)
(* and rests on what the steps before have left: ServingInv says, place by *)
(* place, what a command that has come there may count on.                 *)
(***************************************************************************)
EXTENDS Serving, TLAPS

CommandFields == {"pc", "kind", "attempt", "selection", "inventory", "snapshot", "receipts",
                  "candidate", "todo", "now", "bare", "revision", "trouble", "errors"}
HostFields == {"db", "up", "flag", "app", "revision", "targets"}

(* The form of the variables.                                                *)
ServingForm ==
    /\ DOMAIN command = CommandFields
    /\ DOMAIN host = HostFields
    /\ gpu = [w \in Workload |-> gpu[w]]
    /\ \A w \in Workload : /\ DOMAIN gpu[w] = {"state", "model"}
                           /\ gpu[w].state \in {"absent", "stopped", "running"}
    /\ endpoint = [w \in Workload |-> endpoint[w]]
    /\ \A p \in pods : p.w \in Workload

(* What is asked for is a specification of each workload, and a route leads to the
   instance of its workload or to a Pod.                                     *)
SpecHolds ==
    /\ selection.spec \in [Workload -> Specification]
    /\ command.selection.spec \in [Workload -> Specification]
    /\ reviewer.wants \in [Workload -> Specification]

RouteHolds ==
    \A w \in Workload : \/ endpoint[w] = NoRoute
                        \/ endpoint[w].cloud = "runpod"
                        \/ endpoint[w].cloud = "aws" /\ endpoint[w].by = NoAttempt

AppliedHolds ==
    \E status, id, revision :
        applied = [status |-> status, id |-> id, revision |-> revision]

(* The containers run only on a host that is up and has a revision; a start
   keeps them from running from its approval until it leaves maintenance,
   except for the moment between a host's boot and its flag, where a
   deployment can bring a revision and the containers with it.               *)
HostHolds ==
    /\ host.app => host.up /\ host.revision
    /\ command.pc \in {"terraform", "templates", "power"} => AppStopped
    /\ command.pc = "revision" => host.flag
    /\ command.pc \in {"quiesce", "next", "prepare", "load", "register", "activate",
                       "targets", "prepared", "go"} => host.flag /\ ~host.app
    /\ command.pc \in {"go", "start"} => host.revision

(* What this attempt has turned on is what it will find again.               *)
TurnedOn(w) == gpu[w].state = "running" /\ command.inventory[w] # "running"

OwnHolds ==
    /\ \A w \in Workload : gpu[w].state = "absent" => command.inventory[w] = "absent"
    /\ command.pc \in Working \cup {"failing", "adopt"} =>
          \A w \in Workload : TurnedOn(w) =>
              \/ command.inventory[w] = "absent"
              \/ Aws(w) \in command.receipts \cup command.candidate
    /\ command.pc \in Working \ {"load"} => command.candidate \subseteq command.receipts
    /\ command.pc \in {"planned", "prepare"} => command.candidate = {}
    /\ command.pc = "load" => \A r, s \in command.candidate : r = s

(* The clean-up, as long as it has had no trouble.                           *)
CleanHolds ==
    /\ command.pc = "adopt" => command.todo = Workload
    /\ command.pc = "unroute" /\ ~command.trouble =>
          /\ \A w \in Workload \ command.todo : endpoint[w] = NoRoute
          /\ \A p \in pods : p.by = command.attempt => Pod(p.w, p.by) \in command.receipts
          /\ \A w \in Workload : TurnedOn(w) => Aws(w) \in command.receipts

(* A stop, as long as it has had no error.                                   *)
StopHolds ==
    /\ command.pc \in {"stop-route", "stop-gpu", "stop-power"} /\ ~command.errors =>
          \A w \in Workload \ command.todo :
              endpoint[w] = NoRoute /\ PodsOf(w) = {} /\ gpu[w].state # "running"
    /\ command.pc = "stop-gpu" /\ ~command.errors =>
          \A w \in Workload : command.now = {w} => endpoint[w] = NoRoute
    /\ command.pc = "stop-power" => command.todo = {}

(* The workload at hand has its GPU, the ones before it are served.          *)
TheOnePod(w) == \E p \in pods : PodsOf(w) = {p} /\ p.model = Wanted(w).model

HasGpu(w) == IF Wanted(w).cloud = "aws" THEN gpu[w].state = "running" ELSE TheOnePod(w)

Firm(w) ==
    /\ endpoint[w].cloud = Wanted(w).cloud
    /\ HasGpu(w)
    /\ IF Wanted(w).cloud = "aws" THEN gpu[w].model = Wanted(w).model
       ELSE \A p \in PodsOf(w) : endpoint[w].by = p.by

ServeHolds ==
    /\ command.pc \in {"planned", "terraform", "templates", "power", "flag", "revision",
                       "quiesce"} => command.todo = Workload
    /\ command.pc \in {"prepare", "load", "register", "activate"} =>
          \E w \in command.todo : command.now = {w}
    /\ command.pc \in {"load", "register", "activate"} =>
          \A w \in Workload : command.now = {w} => HasGpu(w)
    /\ command.pc \in {"register", "activate"} =>
          \A w \in Workload : command.now = {w} /\ Wanted(w).cloud = "aws" =>
                                 gpu[w].model = Wanted(w).model
    /\ command.pc \in {"next", "prepare", "load", "register", "activate", "targets", "go",
                       "start", "verify", "smoke"} =>
          \A w \in Workload \ command.todo : Firm(w)
    /\ command.pc \in {"targets", "go", "start", "verify", "smoke"} => command.todo = {}
    /\ command.pc \in {"go", "start", "verify", "smoke"} =>
          host.targets = command.selection.id

ServingInv ==
    /\ ServingForm /\ SpecHolds /\ RouteHolds /\ AppliedHolds
    /\ HostHolds /\ OwnHolds /\ CleanHolds /\ StopHolds /\ ServeHolds

------------------------------------------------------------------------------
(* The steps, by what they are part of.                                      *)
Planning == AcceptPlan \/ DropPlan \/ \E kind \in {"start", "prepare"} : BuildPlan(kind)

Infrastructure == \/ TerraformApply \/ TerraformFails \/ InfrastructureReady
                  \/ \E w \in Workload : PatchTemplate(w) \/ RegisterTemplate(w)

PowerUp == \/ StartDatabase \/ StartHost \/ EnterMaintenance \/ HostSupported
           \/ RestoreRevision \/ PrepareFirst \/ QuiesceAndPreview

Preparing == \/ CheckRegister
             \/ \E w \in Workload : BeginPrepare(w) \/ ReusePod(w) \/ ModelReady(w)

Application == \/ ApplyTargets \/ RecordPrepared \/ LeaveMaintenance
               \/ StartApplication \/ CheckVerify \/ VerifyApplication

Failing == StepFails \/ QuietApplication \/ RecordFailed \/ Killed

Quiet == ReviewSteps \/ UNCHANGED servingVars

LEMMA ServingCases ==
    [ServingNext]_servingVars =>
        \/ Planning \/ Infrastructure \/ PowerUp \/ Preparing \/ Application \/ Failing
        \/ Adopt \/ PrepareFails \/ BeginStop \/ StopPower \/ AppDeploy \/ Quiet
        \/ \E w \in Workload : \/ StartInstance(w) \/ CreatePod(w) \/ Activate(w)
                               \/ Unroute(w) \/ StopRoute(w) \/ StopGpus(w)
        \/ \E r \in command.receipts : Release(r)
  BY DEF ServingNext, StartSteps, FailureSteps, StopSteps, Planning, Infrastructure, PowerUp,
         Preparing, Application, Failing, Quiet








(* The variables keep their form. *)
LEMMA FormKept ==
    ASSUME ServingInv, [ServingNext]_servingVars
    PROVE  ServingForm'
<1> USE DEF ServingInv, ServingForm, CommandFields, HostFields, Stays
<1>1. CASE Planning
  BY ZenonT(40), <1>1 DEF Planning, AcceptPlan, Wanted, AppStopped, PlanHolds, InventoryHolds,
         DropPlan, Over, Idle, NoAttempt, BuildPlan
<1>2. CASE Infrastructure
  <2>1. CASE TerraformApply
    BY <2>1 DEF TerraformApply, Wanted, Created, Missing
  <2>2. CASE TerraformFails
    BY <2>2 DEF TerraformFails, Wanted, Created, Missing
  <2>3. CASE InfrastructureReady
    BY <2>3 DEF InfrastructureReady, Idle, Checkpoint, Aws, NoAttempt, Collected
  <2>4. ASSUME NEW w \in Workload, PatchTemplate(w) PROVE ServingForm'
    BY <2>4 DEF PatchTemplate, Wanted, PodsOf
  <2>5. ASSUME NEW w \in Workload, RegisterTemplate(w) PROVE ServingForm'
    BY <2>5 DEF RegisterTemplate, Wanted, PodsOf
  <2> QED
    BY <1>2, <2>1, <2>2, <2>3, <2>4, <2>5 DEF Infrastructure
<1>3. CASE PowerUp
  BY <1>3 DEF PowerUp, StartDatabase, StartHost, Fresh, EnterMaintenance, HostSupported,
         RestoreRevision, PrepareFirst, QuiesceAndPreview, Checkpoint
<1>4. CASE Preparing
  <2>1. CASE CheckRegister
    BY <2>1 DEF CheckRegister, Checkpoint
  <2>2. ASSUME NEW w \in Workload, BeginPrepare(w) PROVE ServingForm'
    BY <2>2 DEF BeginPrepare, Checkpoint
  <2>3. ASSUME NEW w \in Workload, ReusePod(w) PROVE ServingForm'
    BY <2>3 DEF ReusePod, Wanted, PodsOf, Registered
  <2>4. ASSUME NEW w \in Workload, ModelReady(w) PROVE ServingForm'
    BY <2>4 DEF ModelReady, Wanted
  <2> QED
    BY <1>4, <2>1, <2>2, <2>3, <2>4 DEF Preparing
<1>5. CASE Application
  BY <1>5 DEF Application, ApplyTargets, Checkpoint, RecordPrepared, Over, Idle,
         NoAttempt, LeaveMaintenance, StartApplication, CheckVerify, VerifyApplication
<1>6. CASE Failing
  BY <1>6 DEF Failing, StepFails, Working, QuietApplication, Idle, NoAttempt,
         RecordFailed, Over, Killed
<1>7. CASE Quiet
  BY <1>7 DEF Quiet, ReviewSteps, SelectReview, NoRoute, NoAttempt, Reviewing,
         EverythingStopped, SelectCheck, SelectWrite, ReviewEnds, NoReview, servingVars
<1>8. CASE Adopt
  BY <1>8 DEF Adopt, Aws, Pod, NoAttempt, Collected, Owned
<1>9. CASE PrepareFails
  BY <1>9 DEF PrepareFails, Off, Aws, Pod, NoAttempt
<1>10. CASE BeginStop
  BY <1>10 DEF BeginStop, Over, Idle, NoAttempt
<1>11. CASE StopPower
  BY <1>11 DEF StopPower, Over, Idle, Fresh, NoAttempt
<1>12. CASE AppDeploy
  BY <1>12 DEF AppDeploy
<1>13. ASSUME NEW w \in Workload, StartInstance(w) PROVE ServingForm'
  BY <1>13 DEF StartInstance, Wanted, Aws, NoAttempt
<1>14. ASSUME NEW w \in Workload, CreatePod(w) PROVE ServingForm'
  <2>1. \A p \in pods' : p.w \in Workload
    BY <1>14 DEF CreatePod, ServingInv, ServingForm
  <2>2. DOMAIN command' = CommandFields
    BY <1>14 DEF CreatePod, ServingInv, ServingForm, CommandFields
  <2> QED
    BY <1>14, <2>1, <2>2 DEF CreatePod, Stays, ServingInv, ServingForm
<1>15. ASSUME NEW w \in Workload, Activate(w) PROVE ServingForm'
  BY <1>15 DEF Activate, Wanted, NoAttempt, PodsOf, RouteTo
<1>16. ASSUME NEW w \in Workload, Unroute(w) PROVE ServingForm'
  BY <1>16 DEF Unroute, NoRoute, NoAttempt
<1>17. ASSUME NEW w \in Workload, StopRoute(w) PROVE ServingForm'
  BY <1>17 DEF StopRoute, NoRoute, NoAttempt
<1>18. ASSUME NEW w \in Workload, StopGpus(w) PROVE ServingForm'
  BY <1>18 DEF StopGpus, Off, Aws, Pod, NoAttempt, PodsOf, Managed, IsOn
<1>19. ASSUME NEW r, Release(r) PROVE ServingForm'
  <2>1. /\ pods' \subseteq pods
        /\ gpu' = [w \in Workload |-> gpu'[w]]
        /\ \A w \in Workload : gpu'[w] = gpu[w] \/ gpu'[w] = [gpu[w] EXCEPT !.state = "stopped"]
    BY <1>19 DEF Release, Off, ServingInv, ServingForm
  <2>2. DOMAIN command' = CommandFields
    BY <1>19 DEF Release, ServingInv, ServingForm, CommandFields
  <2>3. \A w \in Workload : /\ DOMAIN gpu'[w] = {"state", "model"}
                          /\ gpu'[w].state \in {"absent", "stopped", "running"}
    BY <2>1 DEF ServingInv, ServingForm
  <2> QED
    BY <1>19, <2>1, <2>2, <2>3 DEF Release, Stays, ServingInv, ServingForm
<1> QED
  BY <1>1, <1>2, <1>3, <1>4, <1>5, <1>6, <1>7, <1>8, <1>9, <1>10, <1>11, <1>12, <1>13,
     <1>14, <1>15, <1>16, <1>17, <1>18, <1>19, ServingCases

(* A command and a reviewer hold what a selection has asked for. *)
LEMMA SpecKept ==
    ASSUME ServingInv, [ServingNext]_servingVars
    PROVE  SpecHolds'
<1> USE DEF ServingInv, SpecHolds, ServingForm, CommandFields, Specification, Stays
<1>1. CASE Planning
  <2>1. CASE AcceptPlan
    BY <2>1 DEF AcceptPlan, Wanted, AppStopped, PlanHolds, InventoryHolds
  <2>2. CASE DropPlan
    BY <2>2 DEF DropPlan, Over, Idle, NoAttempt
  <2>3. ASSUME NEW kind, BuildPlan(kind) PROVE SpecHolds'
    BY <2>3 DEF BuildPlan, Idle, NoAttempt, AppStopped
  <2> QED
    BY <1>1, <2>1, <2>2, <2>3 DEF Planning
<1>2. CASE Infrastructure
  <2>1. CASE TerraformApply
    BY <2>1 DEF TerraformApply, Wanted, Created, Missing
  <2>2. CASE TerraformFails
    BY <2>2 DEF TerraformFails, Wanted, Created, Missing
  <2>3. CASE InfrastructureReady
    BY <2>3 DEF InfrastructureReady, Idle, Checkpoint, Aws, NoAttempt, Collected
  <2>4. ASSUME NEW w \in Workload, PatchTemplate(w) PROVE SpecHolds'
    BY <2>4 DEF PatchTemplate, Wanted, PodsOf
  <2>5. ASSUME NEW w \in Workload, RegisterTemplate(w) PROVE SpecHolds'
    BY <2>5 DEF RegisterTemplate, Wanted, PodsOf
  <2> QED
    BY <1>2, <2>1, <2>2, <2>3, <2>4, <2>5 DEF Infrastructure
<1>3. CASE PowerUp
  <2>1. CASE StartDatabase
    BY <2>1 DEF StartDatabase
  <2>2. CASE StartHost
    BY <2>2 DEF StartHost, Fresh
  <2>3. CASE EnterMaintenance
    BY <2>3 DEF EnterMaintenance
  <2>4. CASE HostSupported
    BY <2>4 DEF HostSupported
  <2>5. CASE RestoreRevision
    BY <2>5 DEF RestoreRevision
  <2>6. CASE PrepareFirst
    BY <2>6 DEF PrepareFirst
  <2>7. CASE QuiesceAndPreview
    BY <2>7 DEF QuiesceAndPreview, Checkpoint
  <2> QED
    BY <1>3, <2>1, <2>2, <2>3, <2>4, <2>5, <2>6, <2>7 DEF PowerUp
<1>4. CASE Preparing
  <2>1. CASE CheckRegister
    BY <2>1 DEF CheckRegister, Checkpoint
  <2>2. ASSUME NEW w \in Workload, BeginPrepare(w) PROVE SpecHolds'
    BY <2>2 DEF BeginPrepare, Checkpoint
  <2>3. ASSUME NEW w \in Workload, ReusePod(w) PROVE SpecHolds'
    BY <2>3 DEF ReusePod, Wanted, PodsOf, Registered
  <2>4. ASSUME NEW w \in Workload, ModelReady(w) PROVE SpecHolds'
    BY <2>4 DEF ModelReady, Wanted
  <2> QED
    BY <1>4, <2>1, <2>2, <2>3, <2>4 DEF Preparing
<1>5. CASE Application
  <2>1. CASE ApplyTargets
    BY <2>1 DEF ApplyTargets, Checkpoint
  <2>2. CASE RecordPrepared
    BY <2>2 DEF RecordPrepared, Over, Idle, NoAttempt
  <2>3. CASE LeaveMaintenance
    BY <2>3 DEF LeaveMaintenance, Checkpoint
  <2>4. CASE StartApplication
    BY <2>4 DEF StartApplication
  <2>5. CASE CheckVerify
    BY <2>5 DEF CheckVerify, Checkpoint
  <2>6. CASE VerifyApplication
    BY <2>6 DEF VerifyApplication, Over, Idle, NoAttempt
  <2> QED
    BY <1>5, <2>1, <2>2, <2>3, <2>4, <2>5, <2>6 DEF Application
<1>6. CASE Failing
  <2>1. CASE StepFails
    BY <2>1 DEF StepFails, Working
  <2>2. CASE QuietApplication
    BY <2>2 DEF QuietApplication, Idle, NoAttempt
  <2>3. CASE RecordFailed
    BY <2>3 DEF RecordFailed, Over, Idle, NoAttempt
  <2>4. CASE Killed
    BY <2>4 DEF Killed, Over, Idle, NoAttempt
  <2> QED
    BY <1>6, <2>1, <2>2, <2>3, <2>4 DEF Failing
<1>7. CASE Quiet
  <2>1. ASSUME NEW w \in Workload, NEW spec \in Specification, SelectReview(w, spec)
        PROVE  SpecHolds'
    BY <2>1 DEF SelectReview, Reviewing, ServingInv, SpecHolds
  <2>2. CASE SelectCheck \/ SelectWrite \/ ReviewEnds \/ UNCHANGED servingVars
    BY <2>2 DEF SelectCheck, SelectWrite, ReviewEnds, Reviewing, NoReview, servingVars,
           ServingInv, SpecHolds
  <2> QED
    BY <1>7, <2>1, <2>2 DEF Quiet, ReviewSteps
<1>8. CASE Adopt
  BY <1>8 DEF Adopt, Aws, Pod, NoAttempt, Collected, Owned
<1>9. CASE PrepareFails
  BY <1>9 DEF PrepareFails, Off, Aws, Pod, NoAttempt
<1>10. CASE BeginStop
  BY <1>10 DEF BeginStop, Over, Idle, NoAttempt
<1>11. CASE StopPower
  BY <1>11 DEF StopPower, Over, Idle, Fresh, NoAttempt
<1>12. CASE AppDeploy
  BY <1>12 DEF AppDeploy
<1>13. ASSUME NEW w \in Workload, StartInstance(w) PROVE SpecHolds'
  BY <1>13 DEF StartInstance, Wanted, Aws, NoAttempt
<1>14. ASSUME NEW w \in Workload, CreatePod(w) PROVE SpecHolds'
  BY <1>14 DEF CreatePod, Wanted, Pod, PodsOf, Registered
<1>15. ASSUME NEW w \in Workload, Activate(w) PROVE SpecHolds'
  BY <1>15 DEF Activate, Wanted, NoAttempt, PodsOf, RouteTo
<1>16. ASSUME NEW w \in Workload, Unroute(w) PROVE SpecHolds'
  BY <1>16 DEF Unroute, NoRoute, NoAttempt
<1>17. ASSUME NEW w \in Workload, StopRoute(w) PROVE SpecHolds'
  BY <1>17 DEF StopRoute, NoRoute, NoAttempt
<1>18. ASSUME NEW w \in Workload, StopGpus(w) PROVE SpecHolds'
  BY <1>18 DEF StopGpus, Off, Aws, Pod, NoAttempt, PodsOf, Managed, IsOn
<1>19. ASSUME NEW r, Release(r) PROVE SpecHolds'
  BY <1>19 DEF Release, Off, Aws, Pod, NoAttempt
<1> QED
  BY <1>1, <1>2, <1>3, <1>4, <1>5, <1>6, <1>7, <1>8, <1>9, <1>10, <1>11, <1>12, <1>13,
     <1>14, <1>15, <1>16, <1>17, <1>18, <1>19, ServingCases

(* Only Serving.activate makes a route, and it makes it of what is wanted. *)
LEMMA RouteKept ==
    ASSUME ServingInv, [ServingNext]_servingVars
    PROVE  RouteHolds'
<1> USE DEF ServingInv, RouteHolds, ServingForm, NoRoute, NoAttempt, SpecHolds,
        Specification, Stays
<1>0. ASSUME endpoint' = endpoint PROVE RouteHolds'
  BY <1>0
<1>1. CASE Planning
  BY <1>1 DEF Planning, AcceptPlan, Wanted, AppStopped, PlanHolds, InventoryHolds,
         DropPlan, Over, Idle, BuildPlan
<1>2. CASE Infrastructure
  <2>1. endpoint' = endpoint
    BY ONLY <1>2 DEF Infrastructure, TerraformApply, TerraformFails, InfrastructureReady,
            PatchTemplate, RegisterTemplate
  <2> QED
    BY <1>0, <2>1
<1>3. CASE PowerUp
  BY <1>3 DEF PowerUp, StartDatabase, StartHost, Fresh, EnterMaintenance, HostSupported,
         RestoreRevision, PrepareFirst, QuiesceAndPreview, Checkpoint
<1>4. CASE Preparing
  BY ZenonT(40), <1>4 DEF Preparing, CheckRegister, Checkpoint, BeginPrepare, ReusePod, Wanted,
         PodsOf, Registered, ModelReady
<1>5. CASE Application
  <2>1. endpoint' = endpoint
    BY ONLY <1>5 DEF Application, ApplyTargets, RecordPrepared, LeaveMaintenance,
            StartApplication, CheckVerify, VerifyApplication
  <2> QED
    BY <1>0, <2>1
<1>6. CASE Failing
  BY <1>6 DEF Failing, StepFails, Working, QuietApplication, Idle, RecordFailed, Over,
         Killed
<1>7. CASE Quiet
  BY <1>7 DEF Quiet, ReviewSteps, SelectReview, Reviewing, EverythingStopped,
         SelectCheck, SelectWrite, ReviewEnds, NoReview, servingVars
<1>8. CASE Adopt
  BY <1>8 DEF Adopt, Aws, Pod, Collected, Owned
<1>9. CASE PrepareFails
  BY <1>9 DEF PrepareFails, Off, Aws, Pod
<1>10. CASE BeginStop
  BY <1>10 DEF BeginStop, Over, Idle
<1>11. CASE StopPower
  BY <1>11 DEF StopPower, Over, Idle, Fresh
<1>12. CASE AppDeploy
  BY <1>12 DEF AppDeploy
<1>13. ASSUME NEW w \in Workload, StartInstance(w) PROVE RouteHolds'
  BY <1>13 DEF StartInstance, Wanted, Aws
<1>14. ASSUME NEW w \in Workload, CreatePod(w) PROVE RouteHolds'
  BY <1>14 DEF CreatePod, Wanted, Pod, PodsOf, Registered
<1>15. ASSUME NEW w \in Workload, Activate(w) PROVE RouteHolds'
  BY <1>15 DEF Activate, Wanted, PodsOf, RouteTo
<1>16. ASSUME NEW w \in Workload, Unroute(w) PROVE RouteHolds'
  BY <1>16 DEF Unroute
<1>17. ASSUME NEW w \in Workload, StopRoute(w) PROVE RouteHolds'
  BY <1>17 DEF StopRoute
<1>18. ASSUME NEW w \in Workload, StopGpus(w) PROVE RouteHolds'
  BY <1>18 DEF StopGpus, Off, Aws, Pod, PodsOf, Managed, IsOn
<1>19. ASSUME NEW r, Release(r) PROVE RouteHolds'
  BY <1>19 DEF Release, Off, Aws, Pod
<1> QED
  BY <1>1, <1>2, <1>3, <1>4, <1>5, <1>6, <1>7, <1>8, <1>9, <1>10, <1>11, <1>12, <1>13,
     <1>14, <1>15, <1>16, <1>17, <1>18, <1>19, ServingCases

(* The record of what is applied is written whole. *)
LEMMA AppliedKept ==
    ASSUME ServingInv, [ServingNext]_servingVars
    PROVE  AppliedHolds'
<1> USE DEF ServingInv, AppliedHolds, Stays, Record
<1>1. CASE Planning
  BY <1>1 DEF Planning, AcceptPlan, Wanted, AppStopped, PlanHolds, InventoryHolds,
         DropPlan, Over, Idle, NoAttempt, BuildPlan
<1>2. CASE Infrastructure
  BY <1>2 DEF Infrastructure, TerraformApply, Wanted, Created, Missing, TerraformFails,
         InfrastructureReady, Idle, Checkpoint, Aws, NoAttempt, Collected,
         PatchTemplate, PodsOf, RegisterTemplate
<1>3. CASE PowerUp
  BY <1>3 DEF PowerUp, StartDatabase, StartHost, Fresh, EnterMaintenance, HostSupported,
         RestoreRevision, PrepareFirst, QuiesceAndPreview, Checkpoint
<1>4. CASE Preparing
  BY <1>4 DEF Preparing, CheckRegister, Checkpoint, BeginPrepare, ReusePod, Wanted,
         PodsOf, Registered, ModelReady
<1>5. CASE Application
  BY <1>5 DEF Application, ApplyTargets, Checkpoint, RecordPrepared, Over, Idle,
         NoAttempt, LeaveMaintenance, StartApplication, CheckVerify, VerifyApplication
<1>6. CASE Failing
  BY <1>6 DEF Failing, StepFails, Working, QuietApplication, Idle, NoAttempt,
         RecordFailed, Over, Killed
<1>7. CASE Quiet
  BY <1>7 DEF Quiet, ReviewSteps, SelectReview, NoRoute, NoAttempt, Reviewing,
         EverythingStopped, SelectCheck, SelectWrite, ReviewEnds, NoReview, servingVars
<1>8. CASE Adopt
  BY <1>8 DEF Adopt, Aws, Pod, NoAttempt, Collected, Owned
<1>9. CASE PrepareFails
  BY <1>9 DEF PrepareFails, Off, Aws, Pod, NoAttempt
<1>10. CASE BeginStop
  BY <1>10 DEF BeginStop, Over, Idle, NoAttempt
<1>11. CASE StopPower
  BY <1>11 DEF StopPower, Over, Idle, Fresh, NoAttempt
<1>12. CASE AppDeploy
  BY <1>12 DEF AppDeploy
<1>13. ASSUME NEW w \in Workload, StartInstance(w) PROVE AppliedHolds'
  BY <1>13 DEF StartInstance, Wanted, Aws, NoAttempt
<1>14. ASSUME NEW w \in Workload, CreatePod(w) PROVE AppliedHolds'
  BY <1>14 DEF CreatePod, Wanted, Pod, PodsOf, Registered
<1>15. ASSUME NEW w \in Workload, Activate(w) PROVE AppliedHolds'
  BY <1>15 DEF Activate, Wanted, NoAttempt, PodsOf, RouteTo
<1>16. ASSUME NEW w \in Workload, Unroute(w) PROVE AppliedHolds'
  BY <1>16 DEF Unroute, NoRoute, NoAttempt
<1>17. ASSUME NEW w \in Workload, StopRoute(w) PROVE AppliedHolds'
  BY <1>17 DEF StopRoute, NoRoute, NoAttempt
<1>18. ASSUME NEW w \in Workload, StopGpus(w) PROVE AppliedHolds'
  BY <1>18 DEF StopGpus, Off, Aws, Pod, NoAttempt, PodsOf, Managed, IsOn
<1>19. ASSUME NEW r, Release(r) PROVE AppliedHolds'
  BY <1>19 DEF Release, Off, Aws, Pod, NoAttempt
<1> QED
  BY <1>1, <1>2, <1>3, <1>4, <1>5, <1>6, <1>7, <1>8, <1>9, <1>10, <1>11, <1>12, <1>13,
     <1>14, <1>15, <1>16, <1>17, <1>18, <1>19, ServingCases

(* The containers: a deployment starts none under the maintenance flag, and a
   start goes on only where none runs. *)
LEMMA HostKept ==
    ASSUME ServingInv, [ServingNext]_servingVars
    PROVE  HostHolds'
<1> USE DEF ServingInv, HostHolds, ServingForm, CommandFields, HostFields, AppStopped,
        Stays
<1>1. CASE Planning
  <2>1. CASE AcceptPlan
    BY <2>1 DEF AcceptPlan, Wanted, PlanHolds, InventoryHolds
  <2>2. CASE DropPlan
    BY <2>2 DEF DropPlan, Over, Idle, NoAttempt
  <2>3. ASSUME NEW kind, BuildPlan(kind) PROVE HostHolds'
    BY <2>3 DEF BuildPlan, Idle, NoAttempt
  <2> QED
    BY <1>1, <2>1, <2>2, <2>3 DEF Planning
<1>2. CASE Infrastructure
  <2>1. CASE TerraformApply
    BY <2>1 DEF TerraformApply, Wanted, Created, Missing
  <2>2. CASE TerraformFails
    BY <2>2 DEF TerraformFails, Wanted, Created, Missing
  <2>3. CASE InfrastructureReady
    BY <2>3 DEF InfrastructureReady, Idle, Checkpoint, Aws, NoAttempt, Collected
  <2>4. ASSUME NEW w \in Workload, PatchTemplate(w) PROVE HostHolds'
    BY <2>4 DEF PatchTemplate, Wanted, PodsOf
  <2>5. ASSUME NEW w \in Workload, RegisterTemplate(w) PROVE HostHolds'
    BY <2>5 DEF RegisterTemplate, Wanted, PodsOf
  <2> QED
    BY <1>2, <2>1, <2>2, <2>3, <2>4, <2>5 DEF Infrastructure
<1>3. CASE PowerUp
  <2>1. CASE StartDatabase
    BY <2>1 DEF StartDatabase, Checkpoint
  <2>2. CASE StartHost
    BY <2>2 DEF StartHost, Checkpoint, Fresh
  <2>3. CASE EnterMaintenance
    BY <2>3 DEF EnterMaintenance, Checkpoint
  <2>4. CASE HostSupported
    BY <2>4 DEF HostSupported, Checkpoint
  <2>5. CASE RestoreRevision
    BY <2>5 DEF RestoreRevision, Checkpoint
  <2>6. CASE PrepareFirst
    BY <2>6 DEF PrepareFirst, Checkpoint
  <2>7. CASE QuiesceAndPreview
    BY <2>7 DEF QuiesceAndPreview, Checkpoint
  <2> QED
    BY <1>3, <2>1, <2>2, <2>3, <2>4, <2>5, <2>6, <2>7 DEF PowerUp
<1>4. CASE Preparing
  BY ZenonT(40), <1>4 DEF Preparing, CheckRegister, Checkpoint, BeginPrepare, ReusePod, Wanted,
         PodsOf, Registered, ModelReady
<1>5. CASE Application
  <2>1. CASE ApplyTargets
    BY <2>1 DEF ApplyTargets, Checkpoint
  <2>2. CASE RecordPrepared
    BY <2>2 DEF RecordPrepared, Over, Idle, NoAttempt
  <2>3. CASE LeaveMaintenance
    BY <2>3 DEF LeaveMaintenance, Checkpoint
  <2>4. CASE StartApplication
    BY <2>4 DEF StartApplication
  <2>5. CASE CheckVerify
    BY <2>5 DEF CheckVerify, Checkpoint
  <2>6. CASE VerifyApplication
    BY <2>6 DEF VerifyApplication, Over, Idle, NoAttempt
  <2> QED
    BY <1>5, <2>1, <2>2, <2>3, <2>4, <2>5, <2>6 DEF Application
<1>6. CASE Failing
  <2>1. CASE StepFails
    BY <2>1 DEF StepFails, Working
  <2>2. CASE QuietApplication
    <3>1. command'.pc = "adopt"
      BY <2>2 DEF QuietApplication, Idle, NoAttempt
    <3>2. \/ host' = host
          \/ host' = [host EXCEPT !.flag = TRUE, !.app = FALSE]
          \/ host' = [host EXCEPT !.flag = TRUE]
      BY ONLY <2>2 DEF QuietApplication
    <3>3. host'.app => host'.up /\ host'.revision
      BY ONLY <3>2, ServingInv DEF ServingInv, HostHolds, ServingForm, HostFields
    <3> QED
      BY ONLY <3>1, <3>3 DEF HostHolds
  <2>3. CASE RecordFailed
    BY <2>3 DEF RecordFailed, Over, Idle, NoAttempt
  <2>4. CASE Killed
    BY <2>4 DEF Killed, Over, Idle, NoAttempt
  <2> QED
    BY <1>6, <2>1, <2>2, <2>3, <2>4 DEF Failing
<1>7. CASE Quiet
  BY <1>7 DEF Quiet, ReviewSteps, SelectReview, NoRoute, NoAttempt, Reviewing,
         EverythingStopped, SelectCheck, SelectWrite, ReviewEnds, NoReview, servingVars
<1>8. CASE Adopt
  BY <1>8 DEF Adopt, Aws, Pod, NoAttempt, Collected, Owned
<1>9. CASE PrepareFails
  BY <1>9 DEF PrepareFails, Off, Aws, Pod, NoAttempt
<1>10. CASE BeginStop
  <2>1. command'.pc \in {"stop-route", "idle"}
    BY <1>10 DEF BeginStop, Over, Idle
  <2>2. host'.app => host'.up /\ host'.revision
    BY <1>10 DEF BeginStop, ServingInv, ServingForm, HostFields, HostHolds
  <2> QED
    BY <2>1, <2>2 DEF HostHolds
<1>11. CASE StopPower
  BY <1>11 DEF StopPower, Over, Idle, Fresh, NoAttempt
<1>12. CASE AppDeploy
  BY <1>12 DEF AppDeploy
<1>13. ASSUME NEW w \in Workload, StartInstance(w) PROVE HostHolds'
  BY <1>13 DEF StartInstance, Wanted, Aws, NoAttempt
<1>14. ASSUME NEW w \in Workload, CreatePod(w) PROVE HostHolds'
  BY <1>14 DEF CreatePod, Wanted, Pod, PodsOf, Registered
<1>15. ASSUME NEW w \in Workload, Activate(w) PROVE HostHolds'
  BY <1>15 DEF Activate, Wanted, NoAttempt, PodsOf, RouteTo
<1>16. ASSUME NEW w \in Workload, Unroute(w) PROVE HostHolds'
  BY <1>16 DEF Unroute, NoRoute, NoAttempt
<1>17. ASSUME NEW w \in Workload, StopRoute(w) PROVE HostHolds'
  BY <1>17 DEF StopRoute, NoRoute, NoAttempt
<1>18. ASSUME NEW w \in Workload, StopGpus(w) PROVE HostHolds'
  BY <1>18 DEF StopGpus, Off, Aws, Pod, NoAttempt, PodsOf, Managed, IsOn
<1>19. ASSUME NEW r, Release(r) PROVE HostHolds'
  BY <1>19 DEF Release, Off, Aws, Pod, NoAttempt
<1> QED
  BY <1>1, <1>2, <1>3, <1>4, <1>5, <1>6, <1>7, <1>8, <1>9, <1>10, <1>11, <1>12, <1>13,
     <1>14, <1>15, <1>16, <1>17, <1>18, <1>19, ServingCases

(* What an attempt turns on is its candidate until prepare() returns and its
   receipt from then on; what Terraform created is told by the inventory. *)
LEMMA OwnKept ==
    ASSUME ServingInv, [ServingNext]_servingVars
    PROVE  OwnHolds'
<1> USE DEF ServingInv, OwnHolds, ServingForm, CommandFields, TurnedOn, Aws, Working,
        Stays
<1>1. CASE Planning
  <2>1. CASE AcceptPlan
    <3>1. command' = [command EXCEPT !.pc = "terraform"] /\ gpu' = gpu
      BY <2>1 DEF AcceptPlan
    <3>2. \A w \in Workload : command.inventory[w] = gpu[w].state
      BY <2>1 DEF AcceptPlan, InventoryHolds
    <3>3. command.candidate = {}
      BY <2>1 DEF AcceptPlan, ServingInv, OwnHolds
    <3> QED
      BY <3>1, <3>2, <3>3 DEF OwnHolds, ServingInv, ServingForm, CommandFields, TurnedOn, Aws
  <2>2. CASE DropPlan
    BY <2>2 DEF DropPlan, Over, Idle, NoAttempt
  <2>3. ASSUME NEW kind, BuildPlan(kind) PROVE OwnHolds'
    BY <2>3 DEF BuildPlan, Idle, NoAttempt, AppStopped
  <2> QED
    BY <1>1, <2>1, <2>2, <2>3 DEF Planning
<1>2. CASE Infrastructure
  <2>1. CASE TerraformApply
    BY <2>1 DEF TerraformApply, Wanted, Created, Missing
  <2>2. CASE TerraformFails
    BY SMTT(60), <2>2 DEF TerraformFails, Wanted, Created, Missing
  <2>3. CASE InfrastructureReady
    BY ZenonT(40), <2>3 DEF InfrastructureReady, Idle, Checkpoint, NoAttempt, Collected
  <2>4. ASSUME NEW w \in Workload, PatchTemplate(w) PROVE OwnHolds'
    BY <2>4 DEF PatchTemplate, Wanted, PodsOf
  <2>5. ASSUME NEW w \in Workload, RegisterTemplate(w) PROVE OwnHolds'
    BY <2>5 DEF RegisterTemplate, Wanted, PodsOf
  <2> QED
    BY <1>2, <2>1, <2>2, <2>3, <2>4, <2>5 DEF Infrastructure
<1>3. CASE PowerUp
  <2>1. CASE StartDatabase
    BY <2>1 DEF StartDatabase
  <2>2. CASE StartHost
    BY <2>2 DEF StartHost, Fresh
  <2>3. CASE EnterMaintenance
    BY <2>3 DEF EnterMaintenance
  <2>4. CASE HostSupported
    BY <2>4 DEF HostSupported
  <2>5. CASE RestoreRevision
    BY <2>5 DEF RestoreRevision
  <2>6. CASE PrepareFirst
    BY <2>6 DEF PrepareFirst
  <2>7. CASE QuiesceAndPreview
    BY <2>7 DEF QuiesceAndPreview, Checkpoint
  <2> QED
    BY <1>3, <2>1, <2>2, <2>3, <2>4, <2>5, <2>6, <2>7 DEF PowerUp
<1>4. CASE Preparing
  <2>1. CASE CheckRegister
    BY <2>1 DEF CheckRegister, Checkpoint
  <2>2. ASSUME NEW w \in Workload, BeginPrepare(w) PROVE OwnHolds'
    BY <2>2 DEF BeginPrepare, Checkpoint
  <2>3. ASSUME NEW w \in Workload, ReusePod(w) PROVE OwnHolds'
    BY <2>3 DEF ReusePod, Wanted, PodsOf, Registered
  <2>4. ASSUME NEW w \in Workload, ModelReady(w) PROVE OwnHolds'
    BY <2>4 DEF ModelReady, Wanted
  <2> QED
    BY <1>4, <2>1, <2>2, <2>3, <2>4 DEF Preparing
<1>5. CASE Application
  <2>1. CASE ApplyTargets
    BY <2>1 DEF ApplyTargets, Checkpoint
  <2>2. CASE RecordPrepared
    BY <2>2 DEF RecordPrepared, Over, Idle, NoAttempt
  <2>3. CASE LeaveMaintenance
    BY <2>3 DEF LeaveMaintenance, Checkpoint
  <2>4. CASE StartApplication
    BY <2>4 DEF StartApplication
  <2>5. CASE CheckVerify
    BY <2>5 DEF CheckVerify, Checkpoint
  <2>6. CASE VerifyApplication
    BY <2>6 DEF VerifyApplication, Over, Idle, NoAttempt
  <2> QED
    BY <1>5, <2>1, <2>2, <2>3, <2>4, <2>5, <2>6 DEF Application
<1>6. CASE Failing
  <2>1. CASE StepFails
    BY <2>1 DEF StepFails
  <2>2. CASE QuietApplication
    BY <2>2 DEF QuietApplication, Idle, NoAttempt
  <2>3. CASE RecordFailed
    BY <2>3 DEF RecordFailed, Over, Idle, NoAttempt
  <2>4. CASE Killed
    BY <2>4 DEF Killed, Over, Idle, NoAttempt
  <2> QED
    BY <1>6, <2>1, <2>2, <2>3, <2>4 DEF Failing
<1>7. CASE Quiet
  BY <1>7 DEF Quiet, ReviewSteps, SelectReview, NoRoute, NoAttempt, Reviewing,
         EverythingStopped, SelectCheck, SelectWrite, ReviewEnds, NoReview, servingVars
<1>8. CASE Adopt
  BY <1>8 DEF Adopt, Pod, NoAttempt, Collected, Owned
<1>9. CASE PrepareFails
  BY <1>9 DEF PrepareFails, Off, Pod, NoAttempt
<1>10. CASE BeginStop
  <2>1. /\ command'.pc \in {"stop-route", "idle"}
        /\ command'.inventory = [w \in Workload |-> gpu[w].state]
    BY <1>10 DEF BeginStop, Over, Idle
  <2> QED
    BY <1>10, <2>1 DEF BeginStop, OwnHolds, Working
<1>11. CASE StopPower
  BY <1>11 DEF StopPower, Over, Idle, Fresh, NoAttempt
<1>12. CASE AppDeploy
  BY <1>12 DEF AppDeploy
<1>13. ASSUME NEW w \in Workload, StartInstance(w) PROVE OwnHolds'
  BY <1>13 DEF StartInstance, Wanted, NoAttempt
<1>14. ASSUME NEW w \in Workload, CreatePod(w) PROVE OwnHolds'
  <2>1. /\ gpu' = gpu
        /\ command.pc = "prepare"
        /\ command'.inventory = command.inventory /\ command'.receipts = command.receipts
    BY ZenonT(40), <1>14 DEF CreatePod, ServingInv, ServingForm, CommandFields
  <2>2. \/ command'.pc = "load" /\ command'.candidate = {Pod(w, command.attempt)}
        \/ command'.pc = "failing" /\ command'.candidate = command.candidate
    BY <1>14 DEF CreatePod, ServingInv, ServingForm, CommandFields
  <2>3. command.candidate = {}
    BY <2>1 DEF ServingInv, OwnHolds
  <2> QED
    BY <2>1, <2>2, <2>3 DEF ServingInv, OwnHolds, Working, TurnedOn, Aws
<1>15. ASSUME NEW w \in Workload, Activate(w) PROVE OwnHolds'
  BY <1>15 DEF Activate, Wanted, NoAttempt, PodsOf, RouteTo
<1>16. ASSUME NEW w \in Workload, Unroute(w) PROVE OwnHolds'
  BY ZenonT(40), <1>16 DEF Unroute, NoRoute, NoAttempt
<1>17. ASSUME NEW w \in Workload, StopRoute(w) PROVE OwnHolds'
  BY <1>17 DEF StopRoute, NoRoute, NoAttempt
<1>18. ASSUME NEW w \in Workload, StopGpus(w) PROVE OwnHolds'
  BY <1>18 DEF StopGpus, Off, Pod, NoAttempt, PodsOf, Managed, IsOn
<1>19. ASSUME NEW r, Release(r) PROVE OwnHolds'
  <2>1. command'.pc = "unroute" /\ command'.inventory = command.inventory
    BY <1>19 DEF Release, ServingInv, ServingForm, CommandFields
  <2>2. \A v \in Workload : gpu'[v].state = "absent" => gpu[v].state = "absent"
    BY <1>19 DEF Release, Off, ServingInv, ServingForm
  <2> QED
    BY <2>1, <2>2 DEF ServingInv, OwnHolds, Working
<1> QED
  BY <1>1, <1>2, <1>3, <1>4, <1>5, <1>6, <1>7, <1>8, <1>9, <1>10, <1>11, <1>12, <1>13,
     <1>14, <1>15, <1>16, <1>17, <1>18, <1>19, ServingCases

(* The clean-up: a route that stays, and a resource that is not found again or
   not released, is trouble. *)
LEMMA CleanKept ==
    ASSUME ServingInv, [ServingNext]_servingVars
    PROVE  CleanHolds'
<1> USE DEF ServingInv, CleanHolds, ServingForm, CommandFields, TurnedOn, OwnHolds, Aws,
        Pod, NoRoute, Stays
<1>1. CASE Planning
  <2>1. CASE AcceptPlan
    BY <2>1 DEF AcceptPlan, Wanted, AppStopped, PlanHolds, InventoryHolds
  <2>2. CASE DropPlan
    BY <2>2 DEF DropPlan, Over, Idle, NoAttempt
  <2>3. ASSUME NEW kind, BuildPlan(kind) PROVE CleanHolds'
    BY <2>3 DEF BuildPlan, Idle, NoAttempt, AppStopped
  <2> QED
    BY <1>1, <2>1, <2>2, <2>3 DEF Planning
<1>2. CASE Infrastructure
  BY <1>2 DEF Infrastructure, TerraformApply, Wanted, Created, Missing, TerraformFails,
         InfrastructureReady, Idle, Checkpoint, NoAttempt, Collected, PatchTemplate,
         PodsOf, RegisterTemplate
<1>3. CASE PowerUp
  <2>1. CASE StartDatabase
    BY <2>1 DEF StartDatabase
  <2>2. CASE StartHost
    BY <2>2 DEF StartHost, Fresh
  <2>3. CASE EnterMaintenance
    BY <2>3 DEF EnterMaintenance
  <2>4. CASE HostSupported
    BY <2>4 DEF HostSupported
  <2>5. CASE RestoreRevision
    BY <2>5 DEF RestoreRevision
  <2>6. CASE PrepareFirst
    BY <2>6 DEF PrepareFirst
  <2>7. CASE QuiesceAndPreview
    BY <2>7 DEF QuiesceAndPreview, Checkpoint
  <2> QED
    BY <1>3, <2>1, <2>2, <2>3, <2>4, <2>5, <2>6, <2>7 DEF PowerUp
<1>4. CASE Preparing
  <2>1. CASE CheckRegister
    BY <2>1 DEF CheckRegister, Checkpoint
  <2>2. ASSUME NEW w \in Workload, BeginPrepare(w) PROVE CleanHolds'
    BY <2>2 DEF BeginPrepare, Checkpoint
  <2>3. ASSUME NEW w \in Workload, ReusePod(w) PROVE CleanHolds'
    BY <2>3 DEF ReusePod, Wanted, PodsOf, Registered
  <2>4. ASSUME NEW w \in Workload, ModelReady(w) PROVE CleanHolds'
    BY <2>4 DEF ModelReady, Wanted
  <2> QED
    BY <1>4, <2>1, <2>2, <2>3, <2>4 DEF Preparing
<1>5. CASE Application
  <2>1. CASE ApplyTargets
    BY <2>1 DEF ApplyTargets, Checkpoint
  <2>2. CASE RecordPrepared
    BY <2>2 DEF RecordPrepared, Over, Idle, NoAttempt
  <2>3. CASE LeaveMaintenance
    BY <2>3 DEF LeaveMaintenance, Checkpoint
  <2>4. CASE StartApplication
    BY <2>4 DEF StartApplication
  <2>5. CASE CheckVerify
    BY <2>5 DEF CheckVerify, Checkpoint
  <2>6. CASE VerifyApplication
    BY <2>6 DEF VerifyApplication, Over, Idle, NoAttempt
  <2> QED
    BY <1>5, <2>1, <2>2, <2>3, <2>4, <2>5, <2>6 DEF Application
<1>6. CASE Failing
  BY ZenonT(40), <1>6 DEF Failing, StepFails, Working, QuietApplication, Idle, NoAttempt,
         RecordFailed, Over, Killed
<1>7. CASE Quiet
  BY <1>7 DEF Quiet, ReviewSteps, SelectReview, NoAttempt, Reviewing, EverythingStopped,
         SelectCheck, SelectWrite, ReviewEnds, NoReview, servingVars
<1>8. CASE Adopt
  <2>1. PICK found \in SUBSET (Owned \cup Collected) :
          command' = [command EXCEPT !.pc = "unroute", !.candidate = {},
              !.receipts = @ \cup command.candidate \cup found,
              !.trouble = @ \/ ~(Owned \cup Collected
                                   \subseteq command.receipts \cup command.candidate \cup found)]
    BY <1>8 DEF Adopt
  <2>2. /\ command'.receipts = command.receipts \cup command.candidate \cup found
        /\ command'.todo = command.todo /\ command'.inventory = command.inventory
        /\ command'.attempt = command.attempt /\ command'.pc = "unroute"
        /\ command'.trouble = (command.trouble
             \/ ~(Owned \cup Collected
                     \subseteq command.receipts \cup command.candidate \cup found))
    BY <2>1 DEF ServingInv, ServingForm, CommandFields
  <2>3. command.pc = "adopt" /\ gpu' = gpu /\ pods' = pods /\ endpoint' = endpoint
    BY <1>8 DEF Adopt, Stays
  <2> SUFFICES ASSUME ~command'.trouble PROVE CleanHolds'
    BY <2>2 DEF CleanHolds
  <2>4. Owned \cup Collected \subseteq command'.receipts
    BY <2>2
  <2>5. ASSUME NEW w \in Workload, TurnedOn(w)' PROVE Aws(w) \in command'.receipts
    <3>1. TurnedOn(w)
      BY <2>2, <2>3, <2>5 DEF TurnedOn
    <3>2. CASE command.inventory[w] = "absent"
      <4>1. Aws(w) \in Collected
        BY <3>1, <3>2 DEF Collected, TurnedOn
      <4> QED
        BY <4>1, <2>4
    <3>3. CASE Aws(w) \in command.receipts \cup command.candidate
      BY <3>3, <2>2
    <3> QED
      BY <2>3, <3>1, <3>2, <3>3 DEF ServingInv, OwnHolds
  <2>6. ASSUME NEW p \in pods', p.by = command'.attempt PROVE Pod(p.w, p.by) \in command'.receipts
    <3>1. Pod(p.w, p.by) \in Owned
      BY <2>2, <2>3, <2>6 DEF Owned, Pod
    <3> QED
      BY <3>1, <2>4
  <2>7. \A w \in Workload \ command'.todo : endpoint'[w] = NoRoute
    BY <2>2, <2>3 DEF ServingInv, CleanHolds
  <2> QED
    BY <2>2, <2>5, <2>6, <2>7 DEF CleanHolds, Aws, Pod
<1>9. CASE PrepareFails
  BY <1>9 DEF PrepareFails, Off, NoAttempt
<1>10. CASE BeginStop
  BY ZenonT(40), <1>10 DEF BeginStop, Over, Idle, NoAttempt
<1>11. CASE StopPower
  BY <1>11 DEF StopPower, Over, Idle, Fresh, NoAttempt
<1>12. CASE AppDeploy
  BY <1>12 DEF AppDeploy
<1>13. ASSUME NEW w \in Workload, StartInstance(w) PROVE CleanHolds'
  BY <1>13 DEF StartInstance, Wanted, NoAttempt
<1>14. ASSUME NEW w \in Workload, CreatePod(w) PROVE CleanHolds'
  BY ZenonT(40), <1>14 DEF CreatePod, Wanted, PodsOf, Registered
<1>15. ASSUME NEW w \in Workload, Activate(w) PROVE CleanHolds'
  BY <1>15 DEF Activate, Wanted, NoAttempt, PodsOf, RouteTo
<1>16. ASSUME NEW w \in Workload, Unroute(w) PROVE CleanHolds'
  <2>1. /\ command.pc = "unroute" /\ gpu' = gpu /\ pods' = pods
        /\ command'.attempt = command.attempt /\ command'.receipts = command.receipts
        /\ command'.inventory = command.inventory
        /\ command'.todo = command.todo \ {w} /\ command'.pc = "unroute"
    BY ZenonT(40), <1>16 DEF Unroute, ServingInv, ServingForm, CommandFields
  <2>2. ~command'.trouble => /\ ~command.trouble /\ endpoint'[w] = NoRoute
                             /\ \A v \in Workload \ {w} : endpoint'[v] = endpoint[v]
    BY <1>16 DEF Unroute, ServingInv, ServingForm, CommandFields
  <2> QED
    BY <2>1, <2>2 DEF ServingInv, CleanHolds, TurnedOn, Aws, Pod
<1>17. ASSUME NEW w \in Workload, StopRoute(w) PROVE CleanHolds'
  BY <1>17 DEF StopRoute, NoAttempt
<1>18. ASSUME NEW w \in Workload, StopGpus(w) PROVE CleanHolds'
  BY <1>18 DEF StopGpus, Off, NoAttempt, PodsOf, Managed, IsOn
<1>19. ASSUME NEW r, Release(r) PROVE CleanHolds'
  <2>1. /\ command.pc = "unroute" /\ endpoint' = endpoint
        /\ command'.attempt = command.attempt /\ command'.receipts = command.receipts \ {r}
        /\ command'.inventory = command.inventory /\ command'.todo = command.todo
        /\ command'.pc = "unroute"
    BY <1>19 DEF Release, Stays, ServingInv, ServingForm, CommandFields
  <2>2. ~command'.trouble => ~command.trouble /\ Off({r})
    BY <1>19 DEF Release, ServingInv, ServingForm, CommandFields
  <2>3. ASSUME ~command'.trouble, NEW p \in pods', p.by = command'.attempt
        PROVE  Pod(p.w, p.by) \in command'.receipts
    BY <2>1, <2>2, <2>3 DEF Off, ServingInv, CleanHolds
  <2>4. ASSUME ~command'.trouble, NEW w \in Workload, TurnedOn(w)'
        PROVE  Aws(w) \in command'.receipts
    <3>1. Aws(w) # r /\ gpu'[w] = gpu[w]
      BY <2>2, <2>4 DEF Off, TurnedOn, ServingInv, ServingForm
    <3> QED
      BY <2>1, <2>2, <2>4, <3>1 DEF TurnedOn, ServingInv, CleanHolds
  <2> QED
    BY <2>1, <2>2, <2>3, <2>4 DEF ServingInv, CleanHolds, Aws, Pod
<1> QED
  BY <1>1, <1>2, <1>3, <1>4, <1>5, <1>6, <1>7, <1>8, <1>9, <1>10, <1>11, <1>12, <1>13,
     <1>14, <1>15, <1>16, <1>17, <1>18, <1>19, ServingCases

(* A stop: a workload that has been done is dark, or an error was counted. *)
LEMMA StopKept ==
    ASSUME ServingInv, [ServingNext]_servingVars
    PROVE  StopHolds'
<1> USE DEF ServingInv, StopHolds, ServingForm, CommandFields, PodsOf, NoRoute, Stays
<1>1. CASE Planning
  BY ZenonT(40), <1>1 DEF Planning, AcceptPlan, Wanted, AppStopped, PlanHolds, InventoryHolds,
         DropPlan, Over, Idle, NoAttempt, BuildPlan
<1>2. CASE Infrastructure
  BY <1>2 DEF Infrastructure, TerraformApply, Wanted, Created, Missing, TerraformFails,
         InfrastructureReady, Idle, Checkpoint, Aws, NoAttempt, Collected,
         PatchTemplate, RegisterTemplate
<1>3. CASE PowerUp
  BY ZenonT(40), <1>3 DEF PowerUp, StartDatabase, StartHost, Fresh, EnterMaintenance, HostSupported,
         RestoreRevision, PrepareFirst, QuiesceAndPreview, Checkpoint
<1>4. CASE Preparing
  <2>1. CASE CheckRegister
    BY <2>1 DEF CheckRegister, Checkpoint
  <2>2. ASSUME NEW w \in Workload, BeginPrepare(w) PROVE StopHolds'
    BY <2>2 DEF BeginPrepare, Checkpoint
  <2>3. ASSUME NEW w \in Workload, ReusePod(w) PROVE StopHolds'
    BY <2>3 DEF ReusePod, Wanted, Registered
  <2>4. ASSUME NEW w \in Workload, ModelReady(w) PROVE StopHolds'
    BY <2>4 DEF ModelReady, Wanted
  <2> QED
    BY <1>4, <2>1, <2>2, <2>3, <2>4 DEF Preparing
<1>5. CASE Application
  BY ZenonT(40), <1>5 DEF Application, ApplyTargets, Checkpoint, RecordPrepared, Over, Idle,
         NoAttempt, LeaveMaintenance, StartApplication, CheckVerify, VerifyApplication
<1>6. CASE Failing
  <2>1. CASE StepFails
    BY <2>1 DEF StepFails, Working
  <2>2. CASE QuietApplication
    BY <2>2 DEF QuietApplication, Idle, NoAttempt
  <2>3. CASE RecordFailed
    BY <2>3 DEF RecordFailed, Over, Idle, NoAttempt
  <2>4. CASE Killed
    BY <2>4 DEF Killed, Over, Idle, NoAttempt
  <2> QED
    BY <1>6, <2>1, <2>2, <2>3, <2>4 DEF Failing
<1>7. CASE Quiet
  BY <1>7 DEF Quiet, ReviewSteps, SelectReview, NoAttempt, Reviewing, EverythingStopped,
         SelectCheck, SelectWrite, ReviewEnds, NoReview, servingVars
<1>8. CASE Adopt
  BY <1>8 DEF Adopt, Aws, Pod, NoAttempt, Collected, Owned
<1>9. CASE PrepareFails
  BY <1>9 DEF PrepareFails, Off, Aws, Pod, NoAttempt
<1>10. CASE BeginStop
  BY ZenonT(40), <1>10 DEF BeginStop, Over, Idle, NoAttempt
<1>11. CASE StopPower
  BY <1>11 DEF StopPower, Over, Idle, Fresh, NoAttempt
<1>12. CASE AppDeploy
  BY <1>12 DEF AppDeploy
<1>13. ASSUME NEW w \in Workload, StartInstance(w) PROVE StopHolds'
  BY <1>13 DEF StartInstance, Wanted, Aws, NoAttempt
<1>14. ASSUME NEW w \in Workload, CreatePod(w) PROVE StopHolds'
  BY <1>14 DEF CreatePod, Wanted, Pod, Registered
<1>15. ASSUME NEW w \in Workload, Activate(w) PROVE StopHolds'
  BY <1>15 DEF Activate, Wanted, NoAttempt, RouteTo
<1>16. ASSUME NEW w \in Workload, Unroute(w) PROVE StopHolds'
  BY <1>16 DEF Unroute, NoAttempt
<1>17. ASSUME NEW w \in Workload, StopRoute(w) PROVE StopHolds'
  <2>1. /\ command.pc = "stop-route" /\ command'.pc = "stop-gpu"
        /\ command'.todo = command.todo /\ command'.now = {w}
        /\ command'.errors = (command.errors \/ endpoint'[w] # NoRoute)
        /\ gpu' = gpu /\ pods' = pods
    BY <1>17 DEF StopRoute, ServingInv, ServingForm, CommandFields
  <2>2. \A v \in Workload : endpoint'[v] = endpoint[v] \/ endpoint'[v] = NoRoute
    BY <1>17 DEF StopRoute, ServingInv, ServingForm
  <2>3. \A v \in Workload : command'.now = {v} => v = w
    BY <2>1
  <2> QED
    BY ZenonT(40), <2>1, <2>2, <2>3 DEF ServingInv, StopHolds, PodsOf
<1>18. ASSUME NEW w \in Workload, StopGpus(w) PROVE StopHolds'
  <2>1. PICK S \in SUBSET Managed(w) :
          /\ Off({r \in S : IsOn(r)})
          /\ command' = [command EXCEPT !.todo = @ \ {w}, !.now = {},
                !.pc = IF command.todo = {w} THEN "stop-power" ELSE "stop-route",
                !.errors = @ \/ \E r \in Managed(w) \ S : IsOn(r)]
    BY <1>18 DEF StopGpus
  <2>2. /\ command'.todo = command.todo \ {w}
        /\ command'.pc = IF command.todo = {w} THEN "stop-power" ELSE "stop-route"
        /\ command'.errors = (command.errors \/ \E r \in Managed(w) \ S : IsOn(r))
    BY <2>1 DEF ServingInv, ServingForm, CommandFields
  <2>3. command.pc = "stop-gpu" /\ command.now = {w} /\ endpoint' = endpoint
    BY <1>18 DEF StopGpus, Stays
  <2>4. ASSUME NEW v \in Workload \ command'.todo, ~command'.errors
        PROVE  endpoint'[v] = NoRoute /\ PodsOf(v)' = {} /\ gpu'[v].state # "running"
    <3>1. CASE v = w
      <4>1. endpoint'[v] = NoRoute
        BY <2>2, <2>3, <2>4, <3>1 DEF ServingInv, StopHolds
      <4>2. \A r \in Managed(w) : IsOn(r) => r \in S
        BY <2>2, <2>4
      <4>3. \A p \in PodsOf(w) : Pod(w, p.by) \in Managed(w) /\ IsOn(Pod(w, p.by))
        BY DEF Managed, PodsOf, IsOn, Pod
      <4>4. PodsOf(v)' = {}
        BY <2>1, <3>1, <4>2, <4>3 DEF Off, PodsOf
      <4>5. gpu[w].state = "running" => Aws(w) \in Managed(w) /\ IsOn(Aws(w))
        BY DEF Managed, IsOn, Aws
      <4>6. gpu'[v].state # "running"
        BY <2>1, <3>1, <4>2, <4>5 DEF Off, ServingInv, ServingForm
      <4> QED
        BY <4>1, <4>4, <4>6
    <3>2. CASE v # w
      <4>1. endpoint[v] = NoRoute /\ PodsOf(v) = {} /\ gpu[v].state # "running"
        BY <2>2, <2>3, <2>4, <3>2 DEF ServingInv, StopHolds
      <4> QED
        BY <2>1, <2>3, <4>1 DEF Off, PodsOf, ServingInv, ServingForm
    <3> QED
      BY <3>1, <3>2
  <2>5. command'.pc = "stop-power" => command'.todo = {}
    BY <2>2
  <2> QED
    BY <2>2, <2>4, <2>5 DEF StopHolds, PodsOf
<1>19. ASSUME NEW r, Release(r) PROVE StopHolds'
  BY <1>19 DEF Release, Off, Aws, Pod, NoAttempt
<1> QED
  BY <1>1, <1>2, <1>3, <1>4, <1>5, <1>6, <1>7, <1>8, <1>9, <1>10, <1>11, <1>12, <1>13,
     <1>14, <1>15, <1>16, <1>17, <1>18, <1>19, ServingCases

(* The workloads one after the other: what is brought up for one leaves the ones
   before it as they were. *)
LEMMA ServeKept ==
    ASSUME ServingInv, [ServingNext]_servingVars
    PROVE  ServeHolds'
<1> USE DEF ServingInv, ServeHolds, ServingForm, CommandFields, HostFields, PodsOf,
        TheOnePod, HasGpu, Firm, Wanted, Stays
<1>1. CASE Planning
  <2>1. CASE AcceptPlan
    BY <2>1 DEF AcceptPlan, AppStopped, PlanHolds, InventoryHolds
  <2>2. CASE DropPlan
    BY <2>2 DEF DropPlan, Over, Idle, NoAttempt
  <2>3. ASSUME NEW kind, BuildPlan(kind) PROVE ServeHolds'
    BY <2>3 DEF BuildPlan, Idle, NoAttempt, AppStopped
  <2> QED
    BY <1>1, <2>1, <2>2, <2>3 DEF Planning
<1>2. CASE Infrastructure
  <2>1. CASE TerraformApply
    BY <2>1 DEF TerraformApply, Created, Missing
  <2>2. CASE TerraformFails
    BY <2>2 DEF TerraformFails, Created, Missing
  <2>3. CASE InfrastructureReady
    BY <2>3 DEF InfrastructureReady, Idle, Checkpoint, Aws, NoAttempt, Collected
  <2>4. ASSUME NEW w \in Workload, PatchTemplate(w) PROVE ServeHolds'
    BY <2>4 DEF PatchTemplate
  <2>5. ASSUME NEW w \in Workload, RegisterTemplate(w) PROVE ServeHolds'
    BY <2>5 DEF RegisterTemplate
  <2> QED
    BY <1>2, <2>1, <2>2, <2>3, <2>4, <2>5 DEF Infrastructure
<1>3. CASE PowerUp
  <2>1. CASE StartDatabase
    BY <2>1 DEF StartDatabase
  <2>2. CASE StartHost
    BY <2>2 DEF StartHost, Fresh
  <2>3. CASE EnterMaintenance
    BY <2>3 DEF EnterMaintenance
  <2>4. CASE HostSupported
    BY <2>4 DEF HostSupported
  <2>5. CASE RestoreRevision
    BY <2>5 DEF RestoreRevision
  <2>6. CASE PrepareFirst
    BY <2>6 DEF PrepareFirst
  <2>7. CASE QuiesceAndPreview
    BY <2>7 DEF QuiesceAndPreview, Checkpoint
  <2> QED
    BY <1>3, <2>1, <2>2, <2>3, <2>4, <2>5, <2>6, <2>7 DEF PowerUp
<1>4. CASE Preparing
  <2>1. CASE CheckRegister
    BY <2>1 DEF CheckRegister, Checkpoint
  <2>2. ASSUME NEW w \in Workload, BeginPrepare(w) PROVE ServeHolds'
    BY <2>2 DEF BeginPrepare, Checkpoint
  <2>3. ASSUME NEW w \in Workload, ReusePod(w) PROVE ServeHolds'
    BY <2>3 DEF ReusePod, Registered
  <2>4. ASSUME NEW w \in Workload, ModelReady(w) PROVE ServeHolds'
    BY SMTT(40), <2>4 DEF ModelReady
  <2> QED
    BY <1>4, <2>1, <2>2, <2>3, <2>4 DEF Preparing
<1>5. CASE Application
  <2>1. CASE ApplyTargets
    BY <2>1 DEF ApplyTargets, Checkpoint
  <2>2. CASE RecordPrepared
    BY <2>2 DEF RecordPrepared, Over, Idle, NoAttempt
  <2>3. CASE LeaveMaintenance
    BY <2>3 DEF LeaveMaintenance, Checkpoint
  <2>4. CASE StartApplication
    BY <2>4 DEF StartApplication
  <2>5. CASE CheckVerify
    BY <2>5 DEF CheckVerify, Checkpoint
  <2>6. CASE VerifyApplication
    BY <2>6 DEF VerifyApplication, Over, Idle, NoAttempt
  <2> QED
    BY <1>5, <2>1, <2>2, <2>3, <2>4, <2>5, <2>6 DEF Application
<1>6. CASE Failing
  <2>1. CASE StepFails
    BY <2>1 DEF StepFails, Working
  <2>2. CASE QuietApplication
    BY <2>2 DEF QuietApplication, Idle, NoAttempt
  <2>3. CASE RecordFailed
    BY <2>3 DEF RecordFailed, Over, Idle, NoAttempt
  <2>4. CASE Killed
    BY <2>4 DEF Killed, Over, Idle, NoAttempt
  <2> QED
    BY <1>6, <2>1, <2>2, <2>3, <2>4 DEF Failing
<1>7. CASE Quiet
  BY <1>7 DEF Quiet, ReviewSteps, SelectReview, NoRoute, NoAttempt, Reviewing,
         EverythingStopped, SelectCheck, SelectWrite, ReviewEnds, NoReview, servingVars
<1>8. CASE Adopt
  BY <1>8 DEF Adopt, Aws, Pod, NoAttempt, Collected, Owned
<1>9. CASE PrepareFails
  BY <1>9 DEF PrepareFails, Off, Aws, Pod, NoAttempt
<1>10. CASE BeginStop
  <2>1. command'.pc \in {"stop-route", "idle"}
    BY <1>10 DEF BeginStop, Over, Idle
  <2> QED
    BY <2>1 DEF ServeHolds
<1>11. CASE StopPower
  BY <1>11 DEF StopPower, Over, Idle, Fresh, NoAttempt
<1>12. CASE AppDeploy
  BY <1>12 DEF AppDeploy
<1>13. ASSUME NEW w \in Workload, StartInstance(w) PROVE ServeHolds'
  BY SMTT(40), <1>13 DEF StartInstance, Aws, NoAttempt
<1>14. ASSUME NEW w \in Workload, CreatePod(w) PROVE ServeHolds'
  <2> DEFINE new == [w |-> w, by |-> command.attempt, model |-> Wanted(w).model]
  <2>1. /\ command.pc = "prepare" /\ command.now = {w}
        /\ PodsOf(w) = {} /\ pods' = pods \cup {new} /\ Wanted(w).cloud = "runpod"
        /\ gpu' = gpu /\ endpoint' = endpoint
    BY <1>14 DEF CreatePod, Stays
  <2>2. /\ command'.todo = command.todo /\ command'.now = {w}
        /\ command'.selection = command.selection
        /\ command'.pc \in {"load", "failing"}
    BY <1>14, <2>1 DEF CreatePod, ServingInv, ServingForm, CommandFields
  <2>3. \A v \in Workload : Wanted(v)' = Wanted(v)
    BY <2>2 DEF Wanted
  <2>4. PodsOf(w)' = {new} /\ new.model = Wanted(w).model
    BY <2>1 DEF PodsOf
  <2>5. HasGpu(w)'
    BY <2>1, <2>3, <2>4 DEF HasGpu, TheOnePod
  <2>6. w \in command.todo
    BY <2>1 DEF ServingInv, ServeHolds
  <2>7. ASSUME NEW v \in Workload \ command'.todo PROVE Firm(v)'
    <3>1. v # w /\ Firm(v)
      BY <2>1, <2>2, <2>6, <2>7 DEF ServingInv, ServeHolds
    <3>2. PodsOf(v)' = PodsOf(v)
      BY <2>1, <3>1 DEF PodsOf
    <3> QED
      BY <2>1, <2>3, <3>1, <3>2 DEF Firm, HasGpu, TheOnePod
  <2> QED
    BY <2>2, <2>5, <2>6, <2>7 DEF ServeHolds
<1>15. ASSUME NEW w \in Workload, Activate(w) PROVE ServeHolds'
  BY <1>15 DEF Activate, NoAttempt, RouteTo
<1>16. ASSUME NEW w \in Workload, Unroute(w) PROVE ServeHolds'
  BY <1>16 DEF Unroute, NoRoute, NoAttempt
<1>17. ASSUME NEW w \in Workload, StopRoute(w) PROVE ServeHolds'
  BY <1>17 DEF StopRoute, NoRoute, NoAttempt
<1>18. ASSUME NEW w \in Workload, StopGpus(w) PROVE ServeHolds'
  BY <1>18 DEF StopGpus, Off, Aws, Pod, NoAttempt, Managed, IsOn
<1>19. ASSUME NEW r, Release(r) PROVE ServeHolds'
  BY <1>19 DEF Release, Off, Aws, Pod, NoAttempt
<1> QED
  BY <1>1, <1>2, <1>3, <1>4, <1>5, <1>6, <1>7, <1>8, <1>9, <1>10, <1>11, <1>12, <1>13,
     <1>14, <1>15, <1>16, <1>17, <1>18, <1>19, ServingCases

(* An environment without instances, routes and commands. *)
LEMMA ServingStarts == ServingInit => ServingInv
<1> SUFFICES ASSUME ServingInit PROVE ServingInv
  OBVIOUS
<1>1. /\ command.pc = "idle" /\ DOMAIN command = CommandFields /\ command.candidate = {}
      /\ command.inventory = [w \in Workload |-> gpu[w].state]
  BY DEF ServingInit, Idle, CommandFields
<1>2. ServingForm
  BY <1>1 DEF ServingInit, ServingForm, HostFields, NoRoute
<1>5. SpecHolds /\ RouteHolds /\ AppliedHolds
  <2>1. PICK s \in FirstSpecs : selection = [id |-> 1, spec |-> s]
    BY DEF ServingInit
  <2>2. s \in [Workload -> Specification]
    BY <2>1, ServingAssumption DEF Specification
  <2> QED
    BY <2>1, <2>2 DEF ServingInit, SpecHolds, RouteHolds, AppliedHolds, Idle, NoReview
<1>3. HostHolds /\ OwnHolds
  BY <1>1 DEF ServingInit, HostHolds, OwnHolds, Working
<1>4. CleanHolds /\ StopHolds /\ ServeHolds
  BY <1>1 DEF CleanHolds, StopHolds, ServeHolds
<1> QED
  BY <1>2, <1>3, <1>4, <1>5 DEF ServingInv

------------------------------------------------------------------------------
(* At every place a command of the operators has come to, the host, the routes and
   the resources are as that place asks, whoever selects, deploys, fails or kills
   meanwhile (serving_lifecycle.py, manage_serving.py).                      *)
THEOREM ServingInvariance == ServingSpec => []ServingInv
<1>1. ServingInv /\ [ServingNext]_servingVars => ServingInv'
  BY FormKept, SpecKept, RouteKept, AppliedKept, HostKept, OwnKept, CleanKept, StopKept,
     ServeKept DEF ServingInv
<1> QED
  BY <1>1, ServingStarts, PTL DEF ServingSpec

(* A start that records a clean failure has left no GPU on that it turned on and no
   route, and a stop that reports no error leaves nothing that is billed.    *)
THEOREM CleanAfterwards == ServingSpec => NothingLeftRunning
<1>1. ASSUME ServingInv, RecordFailed, ~command.trouble PROVE FailedStartLeavesNothing
  <2>1. command.pc = "unroute" /\ command.todo = {} /\ command.receipts = {}
    BY <1>1 DEF RecordFailed
  <2> QED
    BY <1>1, <2>1 DEF ServingInv, CleanHolds, TurnedOn, FailedStartLeavesNothing
<1>2. ASSUME ServingInv, StopPower PROVE StopLeavesNothingRunning
  <2>1. command.pc = "stop-power" /\ command.todo = {}
    BY <1>2 DEF StopPower, ServingInv, StopHolds
  <2>2. endpoint' = endpoint /\ pods' = pods /\ gpu' = gpu
    BY <1>2 DEF StopPower, Stays
  <2>3. ASSUME ~command.errors
        PROVE  \A w \in Workload : endpoint[w] = NoRoute /\ PodsOf(w) = {}
                                   /\ gpu[w].state # "running"
    BY <1>2, <2>1, <2>3 DEF ServingInv, StopHolds
  <2>4. ASSUME ~command.errors PROVE pods = {}
    BY <1>2, <2>3, <2>4 DEF ServingInv, ServingForm, PodsOf
  <2> QED
    BY <2>2, <2>3, <2>4 DEF StopLeavesNothingRunning, EverythingStopped
<1>3. ServingInv => FailedStartLeavesNothing /\ StopLeavesNothingRunning
  BY <1>1, <1>2 DEF FailedStartLeavesNothing, StopLeavesNothingRunning
<1> QED
  BY <1>3, ServingInvariance, PTL DEF ServingSpec, NothingLeftRunning

(* Only these change where the application is sent, or stop what it is sent to. *)
LEMMA GpusStay ==
    ASSUME ServingInv, Planning \/ Infrastructure \/ PowerUp \/ Preparing \/ Application
                       \/ Failing \/ Adopt \/ BeginStop \/ StopPower \/ AppDeploy \/ Quiet
    PROVE  /\ endpoint' = endpoint /\ pods' = pods
           /\ \A w \in Workload : gpu[w].state = "running" => gpu'[w].state = "running"
<1>1. CASE Planning \/ PowerUp
  BY <1>1 DEF Planning, AcceptPlan, DropPlan, BuildPlan, PowerUp, StartDatabase, StartHost,
         EnterMaintenance, HostSupported, RestoreRevision, PrepareFirst, QuiesceAndPreview,
         Stays
<1>2. CASE Infrastructure
  BY <1>2 DEF ServingInv, ServingForm, Infrastructure, TerraformApply, TerraformFails,
         InfrastructureReady, PatchTemplate, RegisterTemplate, Created, Stays
<1>3. CASE Preparing
  <2>1. CASE CheckRegister
    BY <2>1 DEF CheckRegister
  <2>2. ASSUME NEW v \in Workload, BeginPrepare(v) \/ ReusePod(v)
        PROVE  endpoint' = endpoint /\ pods' = pods /\ gpu' = gpu
    BY <2>2 DEF BeginPrepare, ReusePod, Stays
  <2>3. ASSUME NEW v \in Workload, ModelReady(v)
        PROVE  /\ endpoint' = endpoint /\ pods' = pods
               /\ \A w \in Workload : gpu'[w].state = gpu[w].state
    BY <2>3 DEF ModelReady, Stays, ServingInv, ServingForm
  <2> QED
    BY <1>3, <2>1, <2>2, <2>3 DEF Preparing
<1>4. CASE Application \/ Failing
  BY <1>4 DEF Application, ApplyTargets, RecordPrepared, LeaveMaintenance,
         StartApplication, CheckVerify, VerifyApplication, Failing, StepFails,
         QuietApplication, RecordFailed, Killed, Stays
<1>5. CASE Adopt \/ BeginStop \/ StopPower \/ AppDeploy
  BY <1>5 DEF Adopt, BeginStop, StopPower, AppDeploy, Stays
<1>6. CASE Quiet
  BY <1>6 DEF Quiet, ReviewSteps, SelectReview, SelectCheck, SelectWrite, ReviewEnds,
         Reviewing, servingVars
<1> QED
  BY <1>1, <1>2, <1>3, <1>4, <1>5, <1>6

(* A route is alive as long as it stays and nothing is turned off.           *)
LEMMA LiveKept ==
    ASSUME ServingInv, NEW w \in Workload, Live(w), endpoint'[w] = endpoint[w],
           pods \subseteq pods',
           gpu[w].state = "running" => gpu'[w].state = "running"
    PROVE  Live(w)'
  BY DEF Live, Behind, IsOn, NoRoute

(* Whatever is not turned off stays on. *)
LEMMA OffSparesRest ==
    ASSUME ServingInv, NEW S, Off(S), NEW w \in Workload, Live(w), Behind(w) \notin S,
           endpoint'[w] = endpoint[w]
    PROVE  Live(w)'
<1>1. CASE endpoint[w] = NoRoute
  BY <1>1 DEF Live
<1>2. CASE endpoint[w] # NoRoute
  <2>3. IsOn(Behind(w))
    BY <1>2 DEF Live
  <2>1. CASE endpoint[w].cloud = "aws"
    <3>1. gpu[w].state = "running"
      BY <2>1, <2>3 DEF IsOn, Behind
    <3>2. Behind(w) = Aws(w)
      BY <1>2, <2>1 DEF Behind, Aws, ServingInv, RouteHolds
    <3>3. gpu'[w].state = "running"
      BY <3>1, <3>2 DEF Off
    <3> QED
      BY <2>1, <3>3 DEF Live, IsOn, Behind
  <2>2. CASE endpoint[w].cloud # "aws"
    <3>1. PICK p \in pods : p.w = w /\ p.by = endpoint[w].by
      BY <2>2, <2>3 DEF IsOn, Behind
    <3>3. Pod(p.w, p.by) = Behind(w)
      BY <1>2, <2>2, <3>1 DEF Behind, Pod, ServingInv, RouteHolds
    <3>2. p \in pods'
      BY <3>1, <3>3 DEF Off
    <3> QED
      BY <2>2, <3>1, <3>2 DEF Live, IsOn, Behind
  <2> QED
    BY <2>1, <2>2
<1> QED
  BY <1>1, <1>2 DEF Live

(* What a step takes down, nothing leads to: a route goes first, or the step has
   reported that one did not.                                                *)
LEMMA RoutesLead ==
    ASSUME ServingInv, [ServingNext]_servingVars
    PROVE  RoutesStayLive
<1> SUFFICES ASSUME NEW w \in Workload, Live(w), ~command.trouble, ~command.errors,
                    ~(command.pc = "load" /\ command.candidate = {Behind(w)})
             PROVE  Live(w)'
  BY DEF RoutesStayLive
<1>1. CASE \/ Planning \/ Infrastructure \/ PowerUp \/ Preparing \/ Application \/ Failing
           \/ Adopt \/ BeginStop \/ StopPower \/ AppDeploy \/ Quiet
  BY <1>1, GpusStay, LiveKept
<1>2. CASE PrepareFails
  <2>1. Off(command.candidate) /\ endpoint' = endpoint /\ command.pc = "load"
    BY <1>2 DEF PrepareFails, Stays
  <2>2. Behind(w) \notin command.candidate
    BY <2>1 DEF ServingInv, OwnHolds
  <2> QED
    BY <2>1, <2>2, OffSparesRest
<1>3. ASSUME NEW v \in Workload, StartInstance(v) PROVE Live(w)'
  <2>1. /\ endpoint' = endpoint /\ pods' = pods
        /\ gpu[w].state = "running" => gpu'[w].state = "running"
    BY <1>3 DEF StartInstance, Stays, ServingInv, ServingForm
  <2> QED
    BY <2>1, LiveKept
<1>4. ASSUME NEW v \in Workload, CreatePod(v) PROVE Live(w)'
  <2>1. endpoint' = endpoint /\ pods \subseteq pods' /\ gpu' = gpu
    BY <1>4 DEF CreatePod, Stays
  <2> QED
    BY <2>1, LiveKept
<1>5. ASSUME NEW v \in Workload, Activate(v) PROVE Live(w)'
  <2>1. pods' = pods /\ gpu' = gpu /\ endpoint' = [endpoint EXCEPT ![v] = RouteTo(v)]
    BY <1>5 DEF Activate
  <2>2. CASE w # v
    <3>1. endpoint'[w] = endpoint[w]
      BY <2>1, <2>2 DEF ServingInv, ServingForm
    <3> QED
      BY <2>1, <3>1, LiveKept
  <2>3. CASE w = v
    <3>1. endpoint'[w] = RouteTo(w) /\ HasGpu(w)
      BY <1>5, <2>1, <2>3 DEF Activate, ServingInv, ServingForm, ServeHolds
    <3>2. CASE Wanted(w).cloud = "aws"
      BY <2>1, <3>1, <3>2 DEF RouteTo, HasGpu, Live, IsOn, Behind
    <3>3. CASE Wanted(w).cloud # "aws"
      <4>1. PICK q \in pods : PodsOf(w) = {q}
        BY <3>1, <3>3 DEF HasGpu, TheOnePod
      <4>2. q.w = w
        BY <4>1 DEF PodsOf
      <4>3. RouteTo(w).by = q.by /\ RouteTo(w).cloud # "aws"
        BY <3>3, <4>1 DEF RouteTo
      <4> QED
        BY <2>1, <3>1, <4>2, <4>3 DEF Live, IsOn, Behind
    <3> QED
      BY <3>2, <3>3
  <2> QED
    BY <2>2, <2>3
<1>6. ASSUME NEW v \in Workload, Unroute(v) PROVE Live(w)'
  <2>1. pods' = pods /\ gpu' = gpu /\ (endpoint'[w] = endpoint[w] \/ endpoint'[w] = NoRoute)
    BY <1>6 DEF Unroute, ServingInv, ServingForm
  <2> QED
    BY <2>1, LiveKept DEF Live
<1>7. ASSUME NEW v \in Workload, StopRoute(v) PROVE Live(w)'
  <2>1. pods' = pods /\ gpu' = gpu /\ (endpoint'[w] = endpoint[w] \/ endpoint'[w] = NoRoute)
    BY <1>7 DEF StopRoute, ServingInv, ServingForm
  <2> QED
    BY <2>1, LiveKept DEF Live
<1>8. ASSUME NEW v \in Workload, StopGpus(v) PROVE Live(w)'
  <2>1. PICK S \in SUBSET Managed(v) : Off({r \in S : IsOn(r)})
    BY <1>8 DEF StopGpus
  <2>2. endpoint' = endpoint
    BY <1>8 DEF StopGpus, Stays
  <2>3. CASE w = v
    <3>1. endpoint[w] = NoRoute
      BY <1>8, <2>3 DEF StopGpus, ServingInv, StopHolds
    <3> QED
      BY <2>2, <3>1 DEF Live
  <2>4. CASE w # v
    <3>1. \A r \in S : r.w = v
      BY <2>1 DEF Managed, Aws, Pod
    <3>2. Behind(w) \notin {r \in S : IsOn(r)}
      BY <2>4, <3>1 DEF Behind
    <3> QED
      BY <2>1, <2>2, <3>2, OffSparesRest
  <2> QED
    BY <2>3, <2>4
<1>9. ASSUME NEW r, Release(r) PROVE Live(w)'
  <2>1. endpoint[w] = NoRoute /\ endpoint' = endpoint
    BY <1>9 DEF Release, Stays, ServingInv, CleanHolds
  <2> QED
    BY <2>1 DEF Live
<1> QED
  BY <1>1, <1>2, <1>3, <1>4, <1>5, <1>6, <1>7, <1>8, <1>9, ServingCases

(* No model changes under the application. *)
LEMMA ModelsWait ==
    ASSUME ServingInv, [ServingNext]_servingVars
    PROVE  ModelsChangeUnderMaintenance
<1> SUFFICES ASSUME host.app
             PROVE  /\ template' = template /\ registration' = registration
                    /\ host'.targets = host.targets
                    /\ \A w \in Workload : gpu'[w].model = gpu[w].model
  BY DEF ModelsChangeUnderMaintenance
<1>1. command.pc \notin {"terraform", "templates", "power", "quiesce", "next", "prepare",
                        "load", "register", "activate", "targets"}
  BY DEF ServingInv, HostHolds, AppStopped
<1>2. CASE Planning \/ Preparing \/ Failing \/ Quiet
  BY <1>1, <1>2 DEF Planning, AcceptPlan, DropPlan, BuildPlan, Preparing, CheckRegister,
     BeginPrepare, ReusePod, ModelReady, Failing, StepFails, QuietApplication, RecordFailed,
     Killed, Quiet, ReviewSteps, SelectReview, SelectCheck, SelectWrite, ReviewEnds,
     Reviewing, servingVars, ServingInv, ServingForm, HostFields
<1>3. CASE Infrastructure \/ PowerUp \/ Application
  BY <1>1, <1>3 DEF Infrastructure, TerraformApply, TerraformFails, InfrastructureReady,
     PatchTemplate, RegisterTemplate, PowerUp, StartDatabase, StartHost, EnterMaintenance,
     HostSupported, RestoreRevision, PrepareFirst, QuiesceAndPreview, Application,
     ApplyTargets, RecordPrepared, LeaveMaintenance, StartApplication, CheckVerify,
     VerifyApplication, ServingInv, ServingForm, HostFields
<1>4. CASE Adopt \/ BeginStop \/ StopPower \/ AppDeploy
  BY <1>4 DEF Adopt, BeginStop, StopPower, Fresh, AppDeploy, ServingInv, ServingForm,
     HostFields
<1>5. CASE PrepareFails
  BY <1>1, <1>5 DEF PrepareFails
<1>6. ASSUME NEW v \in Workload, \/ StartInstance(v) \/ CreatePod(v) \/ Activate(v)
                                \/ Unroute(v) \/ StopRoute(v)
      PROVE  /\ template' = template /\ registration' = registration /\ host' = host
             /\ gpu' = gpu
  BY <1>1, <1>6 DEF StartInstance, CreatePod, Activate, Unroute, StopRoute
<1>7. ASSUME NEW S, Off(S), NEW w \in Workload PROVE gpu'[w].model = gpu[w].model
  BY <1>7 DEF Off, ServingInv, ServingForm
<1>8. ASSUME NEW v \in Workload, StopGpus(v)
      PROVE  /\ template' = template /\ registration' = registration /\ host' = host
             /\ \E S : Off(S)
  BY <1>8 DEF StopGpus
<1>9. ASSUME NEW r, Release(r)
      PROVE  /\ template' = template /\ registration' = registration /\ host' = host
             /\ gpu' = gpu \/ \E S : Off(S)
  BY <1>9 DEF Release
<1> QED
  BY <1>2, <1>3, <1>4, <1>5, <1>6, <1>7, <1>8, <1>9, ServingCases

(* Routes go before what they lead to and come after it, and no model, Template or
   target changes under a running application.                               *)
THEOREM InOrder == ServingSpec => ServingInOrder
<1>1. ServingInv /\ [ServingNext]_servingVars => RoutesStayLive /\ ModelsChangeUnderMaintenance
  BY RoutesLead, ModelsWait
<1> QED
  BY <1>1, ServingInvariance, PTL DEF ServingSpec, ServingInOrder

(* Only the end of a start records anything as applied.                      *)
LEMMA AppliedServes ==
    ASSUME ServingInv, [ServingNext]_servingVars,
           applied' # applied, applied'.status = "applied"
    PROVE  /\ applied'.id = host.targets
           /\ \A w \in Workload : Serves(w, Wanted(w))
<1>1. VerifyApplication
  <2>10. ~Checkpoint
    BY DEF Checkpoint, Record
  <2>1. CASE Planning \/ PowerUp
    BY <2>1, <2>10 DEF Planning, AcceptPlan, DropPlan, BuildPlan, PowerUp, StartDatabase, StartHost,
       EnterMaintenance, HostSupported, RestoreRevision, PrepareFirst, QuiesceAndPreview,
       Stays
  <2>9. CASE Preparing
    BY <2>9, <2>10 DEF Preparing, CheckRegister, BeginPrepare, ReusePod, ModelReady, Stays
  <2>2. CASE Infrastructure
    BY <2>2 DEF Infrastructure, TerraformApply, TerraformFails, InfrastructureReady,
       PatchTemplate, RegisterTemplate, Stays, Checkpoint, Record
  <2>3. CASE Application
    <3>1. ASSUME RecordPrepared PROVE FALSE
      BY <3>1 DEF RecordPrepared, Record
    <3> QED
      BY <2>3, <3>1 DEF Application, ApplyTargets, LeaveMaintenance, StartApplication,
         CheckVerify, Stays, Checkpoint, Record
  <2>4. CASE Failing
    BY <2>4 DEF Failing, StepFails, QuietApplication, RecordFailed, Record, Killed, Stays
  <2>5. CASE Adopt \/ PrepareFails \/ BeginStop \/ StopPower \/ AppDeploy
    BY <2>5 DEF Adopt, PrepareFails, BeginStop, StopPower, AppDeploy, Stays
  <2>6. CASE Quiet
    BY <2>6 DEF Quiet, ReviewSteps, SelectReview, SelectCheck, SelectWrite, ReviewEnds,
       Reviewing, servingVars
  <2>7. ASSUME NEW v \in Workload, \/ StartInstance(v) \/ CreatePod(v) \/ Activate(v)
                                  \/ Unroute(v) \/ StopRoute(v) \/ StopGpus(v)
        PROVE  FALSE
    BY <2>7 DEF StartInstance, CreatePod, Activate, Unroute, StopRoute, StopGpus, Stays
  <2>8. ASSUME NEW r, Release(r) PROVE FALSE
    BY <2>8 DEF Release, Stays
  <2> QED
    BY <2>1, <2>2, <2>3, <2>4, <2>5, <2>6, <2>7, <2>8, <2>9, ServingCases
<1>2. /\ command.pc = "smoke" /\ applied'.id = command.selection.id
  BY <1>1 DEF VerifyApplication, Record
<1>3. applied'.id = host.targets /\ \A w \in Workload : Firm(w)
  BY <1>2 DEF ServingInv, ServeHolds
<1>4. ASSUME NEW w \in Workload PROVE Serves(w, Wanted(w))
  <2>1. Firm(w)
    BY <1>3
  <2>2. CASE Wanted(w).cloud = "aws"
    BY <2>1, <2>2 DEF Firm, HasGpu, Serves, IsOn, Behind
  <2>3. CASE Wanted(w).cloud # "aws"
    <3>1. PICK q \in pods : PodsOf(w) = {q} /\ q.model = Wanted(w).model
      BY <2>1, <2>3 DEF Firm, HasGpu, TheOnePod
    <3>2. q.w = w /\ endpoint[w].by = q.by
      BY <2>1, <2>3, <3>1 DEF Firm, PodsOf
    <3>3. (CHOOSE p \in PodsOf(w) : p.by = endpoint[w].by) = q
      BY <3>1, <3>2
    <3>4. IsOn(Behind(w))
      BY <2>1, <2>3, <3>2 DEF Firm, IsOn, Behind
    <3> QED
      BY <2>1, <2>3, <3>1, <3>3, <3>4 DEF Firm, Serves
  <2> QED
    BY <2>2, <2>3
<1> QED
  BY <1>3, <1>4

(* What a start records as applied is what every route leads to and what the
   database's targets name.                                                  *)
THEOREM AppliedServed == ServingSpec => AppliedMeansServed
<1>1. ServingInv /\ [ServingNext]_servingVars =>
        (applied' # applied /\ applied'.status = "applied" =>
         /\ applied'.id = host.targets
         /\ \A w \in Workload : Serves(w, Wanted(w)))
  BY AppliedServes
<1> QED
  BY <1>1, ServingInvariance, PTL DEF ServingSpec, AppliedMeansServed
=============================================================================
