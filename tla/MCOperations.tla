---------------------------- MODULE MCOperations ----------------------------
(***************************************************************************)
(* The programs that the team runs beside the application, for TLC: the    *)
(* shared Pod and its secrets, the release of its model, the container in  *)
(* it, the access to the databases and the alarms.                         *)
(* They share no state: a behaviour is one of the component it began with, *)
(* and the others stay as they were.                                       *)
(***************************************************************************)
EXTENDS SharedPod, SllmRelease, PodRuntime, DbAccess, AlarmNotifier, TLC

\* The images of the Pod are interchangeable, and only safety is checked.
ImageSymmetry == Permutations(Image)

VARIABLE focus  \* the component that moves

Component == {"pod", "release", "runtime", "database", "alarm"}

-----------------------------------------------------------------------------
\* AlarmNotifier: short and long names and reasons, a recovery, other messages.
Alarm(whole, state, name, reason) ==
    [form |-> "alarm", arn |-> whole, time |-> TRUE, context |-> TRUE, state |-> state,
     name |-> name, reason |-> reason]
MCAlarms ==
    {Alarm(TRUE, "ALARM", name, reason) : name \in {2, 9}, reason \in {1, 12}}
    \cup {Alarm(FALSE, "ALARM", 2, 30), Alarm(TRUE, "OK", 2, 1), [form |-> "other"]}
MCDeliveries == {[kind |-> "pipeline"], [kind |-> "deployment"]}

-----------------------------------------------------------------------------
\* The component that moves begins anywhere, each of the others in one state.
OperationsInit ==
    /\ focus \in Component
    /\ SharedPodInit
    /\ focus # "pod" => registered = CHOOSE i \in Image : TRUE
    /\ SllmReleaseInit
    /\ focus # "release" =>
          /\ relInput.mode = "base" /\ relInput.stage = "dev" /\ ~relInput.devId
          /\ relInput.base = CHOOSE b \in BaseModel : TRUE
          /\ relInput.dataset = CHOOSE d \in Dataset : TRUE
    /\ PodRuntimeInit
    /\ focus # "runtime" =>
          supervisor.config = [mode |-> "base", adapter |-> FALSE, keys |-> "different",
                               memory |-> 85, snapshot |-> "immutable"]
    /\ DbAccessInit
    /\ focus # "database" => group = {}
    /\ AlarmNotifierInit
    /\ focus # "alarm" => event = [function |-> "alarm", records |-> <<[form |-> "other"]>>]

\* Everything but the component that moves.
Only(component) ==
    /\ focus = component
    /\ UNCHANGED focus
    /\ component # "pod" => UNCHANGED podVars
    /\ component # "release" => UNCHANGED relVars
    /\ component # "runtime" => UNCHANGED runtimeVars
    /\ component # "database" => UNCHANGED dbVars
    /\ component # "alarm" => UNCHANGED notifierVars

OperationsNext ==
    \/ Only("pod") /\ SharedPodNext
    \/ Only("release") /\ SllmReleaseNext
    \/ Only("runtime") /\ PodRuntimeNext
    \/ Only("database") /\ DbAccessNext
    \/ Only("alarm") /\ AlarmNotifierNext

OperationsSpec ==
    /\ OperationsInit
    /\ [][OperationsNext]_<<focus, podVars, relVars, runtimeVars, dbVars, notifierVars>>

=============================================================================
