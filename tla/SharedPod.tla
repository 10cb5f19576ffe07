------------------------------ MODULE SharedPod ------------------------------
(***************************************************************************)
(* The one shared RunPod Pod that serves F2 and the commands that create,  *)
(* delete and reconcile it (infra/scripts/manage_runpod.py), next to a     *)
(* second operator who registers a Console Template or rotates the secrets *)
(* of the same project (infra/scripts/manage_runpod_control.py).           *)
(*                                                                         *)
(* Nothing locks these documents: the SSM endpoint and control set, the AI *)
(* secret, the Console's Template and Secrets, the list of Pods and the    *)
(* environment the API container was last started with are read and        *)
(* written in separate calls.  A call may be refused, or take effect while *)
(* its answer is lost.                                                     *)
(***************************************************************************)
EXTENDS Naturals, FiniteSets

CONSTANTS
    PublishedRelease,     \* published releases
    DevRelease,  \* those whose manifest says release_stage dev
    Image,       \* runtime images
    MaxPods,     \* bound: Pods ever created
    MaxKeys      \* bound: generations of the F2 API keys

ASSUME SharedPodAssumption ==
    /\ DevRelease \subseteq PublishedRelease
    /\ Image # {}
    /\ MaxPods \in Nat
    /\ MaxKeys \in Nat

VARIABLES
    podList,      \* RunPod: the project's Pods
    made,      \* Pods ever created: the next Pod's id
    route,     \* SSM AI_VLLM_ENDPOINT_SET
    api,       \* the F2 endpoint and keys the API container was started with
    secret,    \* Secrets Manager: generations of the keys in the one AI document
    console,   \* RunPod Console: the Template's image and shape, the Secret values
    registered,\* SSM RUNPOD_CONTROL_SET: the image of the registered Template
    podCmd,    \* the runpod-* command that runs
    podOther   \* the register or secret-rotate command of another operator

podVars == <<podList, made, route, api, secret, console, registered, podCmd, podOther>>

NoRelease == "none"
NoPod == 0
PodIdle(result) == [pc |-> "idle", kind |-> "none", pod |-> NoPod, release |-> NoRelease,
                    keys |-> 0, image |-> "none", stale |-> FALSE, clean |-> FALSE,
                    result |-> result]
OtherIdle == [pc |-> "idle", kind |-> "none", held |-> [f2 |-> 0, openai |-> 0],
              image |-> "none"]

SharedPodInit ==
    /\ podList = {}
    /\ made = 0
    /\ route = [status |-> "offline", pod |-> NoPod, release |-> NoRelease]
    /\ api = [status |-> "offline", pod |-> NoPod, keys |-> 1]
    /\ secret = [f2 |-> 1, openai |-> 1]
    /\ \E i \in Image : console = [image |-> i, shape |-> "contract", keys |-> 1]
                        /\ registered = i
    /\ podCmd = PodIdle("none")
    /\ podOther = OtherIdle

------------------------------------------------------------------------------
(* What the documents and the checks on them mean.                           *)

Shared == {p \in podList : p.shared}

(* What a call can do: take effect, be refused, or take effect unnoticed.    *)
Outcome == {"done", "refused", "lost"}
TakesEffect(o) == o # "refused"

(* template_payload: the Template the repository asks for with an image.     *)
Expected(i) == [image |-> i, shape |-> "contract"]

(* validate_template and the doctor: the Console's Template is that one.     *)
TemplateHolds(i) == [image |-> console.image, shape |-> console.shape] = Expected(i)

(* verify_pod: what RunPod says the Pod runs, if it says so.                  *)
VerifyPod(p, i) == p.named => p.image = i

(* health: both services answer with the key the command read from AWS.      *)
Healthy(p, keys) == p.up /\ p.keys = keys

(* endpoint_value: an active endpoint names its Pod and release, an offline
   one names none.  (Its revision number is compared with nothing.)          *)
EndpointValue(status, pod, release) ==
    [status |-> status, pod |-> pod, release |-> release]
Offline == EndpointValue("offline", NoPod, NoRelease)

(* refresh_ai_endpoints.sh: the API is recreated from SSM and the secret.    *)
Rendered == [status |-> route.status, pod |-> route.pod, keys |-> secret.f2]
RefreshApi(o) == api' = IF TakesEffect(o) THEN Rendered ELSE api

(* smoke_f2.py: an analysis through the API succeeds, or, where the API is
   expected offline, is refused with F2_UNAVAILABLE.                         *)
SmokeSucceeds(expected) ==
    IF expected = "offline" THEN api.status = "offline"
    ELSE api.status = "active" /\ \E p \in podList : p.id = api.pod /\ Healthy(p, api.keys)

(* ensure_offline_without_pod: what register and rotations of F2 keys need.  *)
OfflineWithoutPod == route.status = "offline" /\ Shared = {}

------------------------------------------------------------------------------
(* runpod-create                                                             *)

Ends(result) == podCmd' = PodIdle(result)

(* main: the operational values are read once, the doctor checks the Template
   and nothing may exist or be routed yet.                                   *)
CreateStart(r, allowDev) ==
    /\ podCmd.pc = "idle"
    /\ TemplateHolds(registered)
    /\ Shared = {}
    /\ route.status = "offline"
    /\ (r \in DevRelease) = allowDev
    /\ podCmd' = [PodIdle("none") EXCEPT !.pc = "post", !.kind = "create",
                     !.release = r, !.keys = secret.f2, !.image = registered]
    /\ UNCHANGED <<podList, made, route, api, secret, console, registered, podOther>>

(* POST /pods: the Pod is made from the Console's Template and Secrets as they
   are now.  With the answer lost the command ends and knows no Pod.  (Whether
   RunPod names an image matters only where it is not the one expected.)     *)
CreatePost(o, up) ==
    /\ podCmd.pc = "post"
    /\ made < MaxPods
    /\ IF TakesEffect(o)
       THEN /\ made' = made + 1
            /\ \E named \in {TRUE, console.image = podCmd.image} :
                podList' = podList \cup
                    {[id |-> made + 1, release |-> podCmd.release,
                      image |-> console.image, named |-> named,
                      keys |-> console.keys, up |-> up, shared |-> TRUE]}
       ELSE UNCHANGED <<made, podList>>
    /\ IF o = "done" THEN podCmd' = [podCmd EXCEPT !.pc = "wait", !.pod = made + 1]
                     ELSE Ends("failed")
    /\ UNCHANGED <<route, api, secret, console, registered, podOther>>

(* wait_ready: a Pod that is not what was asked for, or never gets ready, is
   given up.                                                                 *)
WaitReady ==
    /\ podCmd.pc = "wait"
    /\ podCmd' = [podCmd EXCEPT !.pc =
          IF \E p \in podList : /\ p.id = podCmd.pod
                             /\ VerifyPod(p, podCmd.image)
                             /\ Healthy(p, podCmd.keys)
          THEN "activate" ELSE "undoDelete"]
    /\ UNCHANGED <<podList, made, route, api, secret, console, registered, podOther>>

\* Faulty: leaves the route of a write that was not answered.
AfterActivateForgets(o) == IF o = "done" THEN "refresh" ELSE "undoDelete"

(* `active` is set before the write, so that a lost answer is undone too.    *)
AfterActivate(o) == IF o = "done" THEN "refresh" ELSE "undoWrite"

CreateActivate(o) ==
    /\ podCmd.pc = "activate"
    /\ route' = IF TakesEffect(o)
                THEN EndpointValue("active", podCmd.pod, podCmd.release)
                ELSE route
    /\ podCmd' = [podCmd EXCEPT !.pc = AfterActivate(o)]
    /\ UNCHANGED <<podList, made, api, secret, console, registered, podOther>>

CreateRefresh(o) ==
    /\ podCmd.pc = "refresh"
    /\ RefreshApi(o)
    /\ podCmd' = [podCmd EXCEPT !.pc = IF o = "done" THEN "smoke" ELSE "undoWrite"]
    /\ UNCHANGED <<podList, made, route, secret, console, registered, podOther>>

CreateSmoke ==
    /\ podCmd.pc = "smoke"
    /\ IF SmokeSucceeds("active") THEN Ends("complete")
       ELSE podCmd' = [podCmd EXCEPT !.pc = "undoWrite"]
    /\ UNCHANGED <<podList, made, route, api, secret, console, registered, podOther>>

(* The handler of a failed activation: offline again, then the Pod goes, and
   what could not be done is reported as reconciliation that is required.    *)
UndoWrite(o) ==
    /\ podCmd.pc = "undoWrite"
    /\ route' = IF TakesEffect(o) THEN Offline ELSE route
    /\ podCmd' = [podCmd EXCEPT !.pc = IF o = "done" THEN "undoRefresh" ELSE "undoDelete",
                                !.stale = o # "done"]
    /\ UNCHANGED <<podList, made, api, secret, console, registered, podOther>>

UndoRefresh(o) ==
    /\ podCmd.pc = "undoRefresh"
    /\ RefreshApi(o)
    /\ podCmd' = [podCmd EXCEPT !.pc = "undoDelete", !.stale = o # "done"]
    /\ UNCHANGED <<podList, made, route, secret, console, registered, podOther>>

UndoDelete(o) ==
    /\ podCmd.pc = "undoDelete"
    /\ podList' = IF TakesEffect(o) THEN {p \in podList : p.id # podCmd.pod} ELSE podList
    /\ Ends(IF podCmd.stale \/ o # "done" THEN "reconcile" ELSE "failed")
    /\ UNCHANGED <<made, route, api, secret, console, registered, podOther>>

------------------------------------------------------------------------------
(* runpod-delete and runpod-reconcile                                        *)

(* The exact id of the single shared Pod, confirmed by the operator.         *)
DeleteStart ==
    /\ podCmd.pc = "idle"
    /\ \E p \in podList : /\ Shared = {p}
                       /\ podCmd' = [PodIdle("none") EXCEPT !.pc = "offWrite",
                                        !.kind = "delete", !.pod = p.id]
    /\ UNCHANGED <<podList, made, route, api, secret, console, registered, podOther>>

(* What reconcile finds, by the endpoint and the shared Pods it lists.       *)
ReconcileState ==
    IF Cardinality(Shared) > 1 THEN "multiple"
    ELSE IF route.status = "offline"
         THEN IF Shared = {} THEN "offline-clean" ELSE "offline-orphan"
    ELSE IF Shared = {}
         THEN IF \E p \in podList : p.id = route.pod THEN "other-pod" ELSE "pod-absent"
    ELSE IF \A p \in Shared : p.id # route.pod THEN "mismatch" ELSE "compare-health"

(* reconcile --apply: only two states are acted on.                          *)
ReconcileStart ==
    /\ podCmd.pc = "idle"
    /\ ReconcileState \in {"offline-clean", "pod-absent"}
    /\ podCmd' = [PodIdle("none") EXCEPT !.kind = "reconcile",
                     !.clean = ReconcileState = "offline-clean",
                     !.pc = IF ReconcileState = "offline-clean" THEN "offRefresh"
                                                                ELSE "offWrite"]
    /\ UNCHANGED <<podList, made, route, api, secret, console, registered, podOther>>

(* A deletion that fails says how to go on; a reconciliation just fails.     *)
Unfinished == IF podCmd.kind = "delete" THEN "reconcile" ELSE "failed"

OffWrite(o) ==
    /\ podCmd.pc = "offWrite"
    /\ route' = IF TakesEffect(o) THEN Offline ELSE route
    /\ IF o = "done" THEN podCmd' = [podCmd EXCEPT !.pc = "offRefresh"] ELSE Ends(Unfinished)
    /\ UNCHANGED <<podList, made, api, secret, console, registered, podOther>>

OffRefresh(o) ==
    /\ podCmd.pc = "offRefresh"
    /\ RefreshApi(o)
    /\ IF o # "done" THEN Ends(Unfinished)
       ELSE IF podCmd.kind = "delete" THEN podCmd' = [podCmd EXCEPT !.pc = "offDelete"]
       ELSE IF podCmd.clean THEN podCmd' = [podCmd EXCEPT !.pc = "offSmoke"]
       ELSE Ends("complete")
    /\ UNCHANGED <<podList, made, route, secret, console, registered, podOther>>

OffSmoke ==
    /\ podCmd.pc = "offSmoke"
    /\ Ends(IF SmokeSucceeds("offline") THEN "complete" ELSE "failed")
    /\ UNCHANGED <<podList, made, route, api, secret, console, registered, podOther>>

OffDelete(o) ==
    /\ podCmd.pc = "offDelete"
    /\ podList' = IF TakesEffect(o) THEN {p \in podList : p.id # podCmd.pod} ELSE podList
    /\ Ends(IF o = "done" THEN "complete" ELSE "reconcile")
    /\ UNCHANGED <<made, route, api, secret, console, registered, podOther>>

(* Ctrl-C is not an Exception: no handler runs.                              *)
PodInterrupt ==
    /\ podCmd.pc # "idle"
    /\ Ends("interrupted")
    /\ UNCHANGED <<podList, made, route, api, secret, console, registered, podOther>>

------------------------------------------------------------------------------
(* The other operator, the Console and RunPod itself.                        *)

(* rotate_secret reads the whole AI document, asks for the value, and writes
   the whole document back.                                                  *)
RotateRead(target) ==
    /\ podOther.pc = "idle"
    /\ target = "f2" => OfflineWithoutPod
    /\ secret[target] < MaxKeys
    /\ podOther' = [OtherIdle EXCEPT !.pc = "prompt", !.kind = target, !.held = secret]
    /\ UNCHANGED <<podList, made, route, api, secret, console, registered, podCmd>>

(* The F2 keys are entered as they are at the Console; both change together. *)
RotatePut ==
    /\ podOther.pc = "prompt"
    /\ secret' = [podOther.held EXCEPT ![podOther.kind] =
                     IF podOther.kind = "f2" THEN console.keys ELSE @ + 1]
    /\ podOther' = IF podOther.kind = "f2" THEN OtherIdle
                   ELSE [podOther EXCEPT !.pc = "refreshAll", !.held = OtherIdle.held]
    /\ UNCHANGED <<podList, made, route, api, console, registered, podCmd>>

(* refresh_endpoints: the whole environment of API and Worker, F2 included.  *)
RotateRefresh(o) ==
    /\ podOther.pc = "refreshAll"
    /\ RefreshApi(o)
    /\ podOther' = OtherIdle
    /\ UNCHANGED <<podList, made, route, secret, console, registered, podCmd>>

RegisterCheck(i) ==
    /\ podOther.pc = "idle"
    /\ OfflineWithoutPod
    /\ TemplateHolds(i)
    /\ registered # i
    /\ podOther' = [OtherIdle EXCEPT !.pc = "put", !.kind = "register", !.image = i]
    /\ UNCHANGED <<podList, made, route, api, secret, console, registered, podCmd>>

RegisterPut ==
    /\ podOther.pc = "put"
    /\ registered' = podOther.image
    /\ podOther' = OtherIdle
    /\ UNCHANGED <<podList, made, route, api, secret, console, podCmd>>

(* The Console's Template is edited, its Secrets are changed.                *)
ConsoleEdit ==
    /\ \/ \E i \in Image, shape \in {"contract", "drifted"} :
             console' = [console EXCEPT !.image = i, !.shape = shape]
       \/ console.keys < MaxKeys /\ console' = [console EXCEPT !.keys = @ + 1]
    /\ UNCHANGED <<podList, made, route, api, secret, registered, podCmd, podOther>>

(* A Pod gets ready, is renamed or terminated at the Console.                *)
PodChanges ==
    /\ \E p \in podList :
          \/ ~p.up /\ podList' = (podList \ {p}) \cup {[p EXCEPT !.up = TRUE]}
          \/ p.shared /\ podList' = (podList \ {p}) \cup {[p EXCEPT !.shared = FALSE]}
          \/ podList' = podList \ {p}
    /\ UNCHANGED <<made, route, api, secret, console, registered, podCmd, podOther>>

SharedPodNext ==
    \/ \E r \in PublishedRelease, allowDev \in BOOLEAN : CreateStart(r, allowDev)
    \/ \E o \in Outcome, up \in BOOLEAN : CreatePost(o, up)
    \/ WaitReady
    \/ \E o \in Outcome : CreateActivate(o)
    \/ \E o \in Outcome : CreateRefresh(o)
    \/ CreateSmoke
    \/ \E o \in Outcome : UndoWrite(o)
    \/ \E o \in Outcome : UndoRefresh(o)
    \/ \E o \in Outcome : UndoDelete(o)
    \/ DeleteStart
    \/ ReconcileStart
    \/ \E o \in Outcome : OffWrite(o)
    \/ \E o \in Outcome : OffRefresh(o)
    \/ OffSmoke
    \/ \E o \in Outcome : OffDelete(o)
    \/ PodInterrupt
    \/ \E target \in {"f2", "openai"} : RotateRead(target)
    \/ RotatePut
    \/ \E o \in Outcome : RotateRefresh(o)
    \/ \E i \in Image : RegisterCheck(i)
    \/ RegisterPut
    \/ ConsoleEdit
    \/ PodChanges

SharedPodSpec == SharedPodInit /\ [][SharedPodNext]_podVars
------------------------------------------------------------------------------
(* What runpod-create says on its own end is true, whatever was registered,
   rotated, edited or terminated meanwhile.  Complete: the endpoint leads to a
   Pod of the release asked for and of the image that was registered when the
   command began (where RunPod names the image at all), and the API was started with that endpoint and with the keys
   of that Pod.  Failed without asking for a reconciliation: nothing is routed,
   even where the activation was written and only its answer was lost, and the
   Pod the command knew of is gone.  (create, wait_ready, verify_pod)        *)
CreateReportsTheTruth ==
    [][podCmd.kind = "create" =>
        /\ podCmd'.result = "complete" =>
              /\ route.status = "active"
              /\ \E p \in podList :
                    /\ p.id = route.pod
                    /\ p.release = podCmd.release
                    /\ p.named => p.image = podCmd.image
                    /\ api = [status |-> "active", pod |-> p.id, keys |-> p.keys]
        /\ podCmd'.result = "failed" =>
              /\ route.status = "offline"
              /\ \A p \in podList' : p.id # podCmd.pod]_podVars

=============================================================================
