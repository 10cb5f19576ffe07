------------------------- MODULE Operations_proofs -------------------------
(***************************************************************************)
(* What holds of the programs that the team runs beside the application, for*)
(* every value of their constants: passwords (DbAccess), the container     *)
(* (PodRuntime), alarms (AlarmNotifier), the release of a model (SllmRelease)*)
(* and the shared Pod (SharedPod).                                         *)
(***************************************************************************)
EXTENDS MCOperations, TLAPS

-----------------------------------------------------------------------------
(* The databases' passwords                                                  *)

Kind == {"none", "bootstrap", "sync", "rotate", "verify", "seed", "migrate", "account"}
Step == {"idle", "pending", "tunnel", "password", "validate", "promote", "unstage",
         "people", "store", "contract", "reset", "data", "profile", "verifySeed",
         "subprocess"}
Cmd == [pc : Step, kind : Kind, users : SUBSET User, current : Nat, password : Nat,
        profile : {"none"} \cup Profile]

Typed ==
    /\ group \in SUBSET User
    /\ minted \in Nat
    /\ stage \in [current : Nat, pending : Nat]
    /\ runtime \in [password : Nat, roles : BOOLEAN]
    /\ dbCmd \in Cmd

\* Which steps belong to one command only.
StepsOfKind ==
    /\ dbCmd.pc \in {"promote", "unstage"} => dbCmd.kind = "rotate"
    /\ dbCmd.pc = "store" => dbCmd.kind = "bootstrap"
    /\ dbCmd.pc # "idle" => dbCmd.kind # "none"

\* A rotation writes the staged password, and ends with the current one.
Rotating ==
    dbCmd.kind = "rotate" =>
        /\ dbCmd.pc \in {"pending", "tunnel", "password", "validate", "promote", "unstage"}
        /\ stage.current # NoPassword
        /\ dbCmd.pc \in {"tunnel", "password", "validate", "promote"} =>
              dbCmd.password = stage.pending /\ dbCmd.password # NoPassword
        /\ dbCmd.pc \in {"promote", "unstage"} => LogsIn(dbCmd.password)
        /\ dbCmd.pc = "unstage" => stage.current = dbCmd.password

\* A bootstrap writes the current password, or the first one.
Bootstrapping ==
    dbCmd.kind = "bootstrap" =>
        /\ dbCmd.pc \in {"password", "tunnel", "people", "store"}
        /\ dbCmd.current = stage.current
        /\ dbCmd.pc # "password" =>
              /\ dbCmd.password # NoPassword
              /\ dbCmd.current # NoPassword => dbCmd.password = dbCmd.current
        /\ dbCmd.pc = "store" => LogsIn(dbCmd.password)

DbInv == Typed /\ StepsOfKind /\ Rotating /\ Bootstrapping /\ RuntimePasswordIsHeld

------------------------------------------------------------------------------
(* What the updates of the records do.                                       *)

LEMMA NoCmdFields == NoCmd \in Cmd /\ NoCmd.pc = "idle" /\ NoCmd.kind = "none"
    BY DEF Cmd, NoCmd, Kind, Step, NoPassword

LEMMA PcFields ==
    ASSUME dbCmd \in Cmd, NEW p \in Step, dbCmd' = [dbCmd EXCEPT !.pc = p]
    PROVE  /\ dbCmd' \in Cmd
           /\ dbCmd'.pc = p /\ dbCmd'.kind = dbCmd.kind
           /\ dbCmd'.current = dbCmd.current /\ dbCmd'.password = dbCmd.password
    BY DEF Cmd

LEMMA PasswordFields ==
    ASSUME dbCmd \in Cmd, NEW p \in Step, NEW x \in Nat,
           dbCmd' = [dbCmd EXCEPT !.pc = p, !.password = x]
    PROVE  /\ dbCmd' \in Cmd
           /\ dbCmd'.pc = p /\ dbCmd'.kind = dbCmd.kind
           /\ dbCmd'.current = dbCmd.current /\ dbCmd'.password = x
    BY DEF Cmd

LEMMA StageFields ==
    ASSUME stage \in [current : Nat, pending : Nat], NEW x \in Nat
    PROVE  /\ stage' = [stage EXCEPT !.current = x] =>
                 /\ stage' \in [current : Nat, pending : Nat]
                 /\ stage'.current = x /\ stage'.pending = stage.pending
           /\ stage' = [stage EXCEPT !.pending = x] =>
                 /\ stage' \in [current : Nat, pending : Nat]
                 /\ stage'.pending = x /\ stage'.current = stage.current
    OBVIOUS

\* The initial states: nothing is stored and nothing runs.
LEMMA InitDb == DbAccessInit => DbInv
<1> SUFFICES ASSUME DbAccessInit PROVE DbInv
    OBVIOUS
<1>1. Typed
    BY NoCmdFields DEF DbAccessInit, Typed, NoPassword
<1> QED
    BY <1>1, NoCmdFields DEF DbAccessInit, DbInv, StepsOfKind, Rotating, Bootstrapping,
       RuntimePasswordIsHeld

\* A command that begins, with what is stored left as it is.
LEMMA BeginsStep ==
    ASSUME DbInv, UNCHANGED <<group, runtime, stage, minted>>, dbCmd' \in Cmd,
           dbCmd'.kind # "none",
           dbCmd'.pc \in {"password", "tunnel", "pending"},
           dbCmd'.kind = "bootstrap" =>
               dbCmd'.pc = "password" /\ dbCmd'.current = stage.current,
           dbCmd'.kind = "rotate" => dbCmd'.pc = "pending" /\ stage.current # NoPassword
    PROVE  DbInv'
    BY DEF DbInv, Typed, StepsOfKind, Rotating, Bootstrapping, RuntimePasswordIsHeld, LogsIn

\* A command that ends carries no password any more.
LEMMA EndsStep ==
    ASSUME DbInv, UNCHANGED <<group, runtime, stage, minted>>, dbCmd' = NoCmd
    PROVE  DbInv'
    BY NoCmdFields
       DEF DbInv, Typed, StepsOfKind, Rotating, Bootstrapping, RuntimePasswordIsHeld, LogsIn

\* A step that touches neither the passwords nor the command.
LEMMA OtherStep ==
    ASSUME DbInv, UNCHANGED <<runtime, stage, minted, dbCmd>>, group' \in SUBSET User
    PROVE  DbInv'
    BY DEF DbInv, Typed, StepsOfKind, Rotating, Bootstrapping, RuntimePasswordIsHeld, LogsIn

\* A step of a command that writes no password.
LEMMA GoesOn ==
    ASSUME DbInv, UNCHANGED <<group, runtime, stage, minted>>,
           NEW p \in Step, dbCmd' = [dbCmd EXCEPT !.pc = p], dbCmd.kind # "none",
           p \notin {"store", "unstage", "promote", "pending"},
           dbCmd.kind = "bootstrap" => dbCmd.pc = "tunnel" /\ p = "people",
           dbCmd.kind = "rotate" => dbCmd.pc = "tunnel" /\ p = "password"
    PROVE  DbInv'
<1>1. /\ dbCmd' \in Cmd
      /\ dbCmd'.pc = p /\ dbCmd'.kind = dbCmd.kind
      /\ dbCmd'.current = dbCmd.current /\ dbCmd'.password = dbCmd.password
    BY PcFields DEF DbInv, Typed
<1> HIDE DEF DbInv
<1>2. UNCHANGED <<group, runtime, stage, minted>>
    OBVIOUS
<1> QED
    BY <1>1, <1>2
       DEF DbInv, Typed, StepsOfKind, Rotating, Bootstrapping, RuntimePasswordIsHeld, LogsIn

------------------------------------------------------------------------------
(* The steps that write a password, or take one up.                          *)

LEMMA PreparePendingStep == DbInv /\ PreparePending => DbInv'
<1> SUFFICES ASSUME DbInv, PreparePending PROVE DbInv'
    OBVIOUS
<1>1. UNCHANGED <<group, runtime>> /\ dbCmd.kind = "rotate"
    BY DEF PreparePending
<1>2. CASE stage.pending # NoPassword
  <2>1. UNCHANGED <<stage, minted>>
    BY <1>2 DEF PreparePending
  <2>2. /\ dbCmd' \in Cmd /\ dbCmd'.pc = "tunnel" /\ dbCmd'.kind = "rotate"
        /\ dbCmd'.password = stage.pending
    BY <1>2, <1>1, PasswordFields DEF PreparePending, DbInv, Typed, Step
  <2> QED
    BY <1>1, <1>2, <2>1, <2>2
       DEF DbInv, Typed, StepsOfKind, Rotating, Bootstrapping, RuntimePasswordIsHeld, LogsIn
<1>3. CASE stage.pending = NoPassword
  <2>1. minted' = minted + 1 /\ minted' \in Nat /\ minted' # NoPassword
    BY <1>3 DEF PreparePending, DbInv, Typed, NoPassword
  <2>2. /\ stage' \in [current : Nat, pending : Nat]
        /\ stage'.pending = minted' /\ stage'.current = stage.current
    BY <1>3, <2>1, StageFields DEF PreparePending, StagePending, DbInv, Typed
  <2>3. /\ dbCmd' \in Cmd /\ dbCmd'.pc = "tunnel" /\ dbCmd'.kind = "rotate"
        /\ dbCmd'.password = minted'
    BY <1>3, <1>1, <2>1, PasswordFields DEF PreparePending, DbInv, Typed, Step
  <2> QED
    BY <1>1, <1>3, <2>1, <2>2, <2>3
       DEF DbInv, Typed, StepsOfKind, Rotating, Bootstrapping, RuntimePasswordIsHeld, LogsIn
<1> QED
    BY <1>2, <1>3

LEMMA RotatePasswordStep == DbInv /\ RotatePassword => DbInv'
<1> SUFFICES ASSUME DbInv, RotatePassword PROVE DbInv'
    OBVIOUS
<1>1. UNCHANGED <<group, stage, minted>> /\ dbCmd.kind = "rotate" /\ dbCmd.pc = "password"
    BY DEF RotatePassword
<1>2. runtime' \in [password : Nat, roles : BOOLEAN] /\ runtime'.password = dbCmd.password
    BY DEF RotatePassword, DbInv, Typed, Cmd
<1>3. /\ dbCmd' \in Cmd /\ dbCmd'.pc = "validate" /\ dbCmd'.kind = dbCmd.kind
      /\ dbCmd'.password = dbCmd.password
    BY PcFields DEF RotatePassword, DbInv, Typed, Step
<1> QED
    BY <1>1, <1>2, <1>3
       DEF DbInv, Typed, StepsOfKind, Rotating, Bootstrapping, RuntimePasswordIsHeld, LogsIn

LEMMA ValidateLoginStep == DbInv /\ ValidateLogin => DbInv'
<1> SUFFICES ASSUME DbInv, ValidateLogin PROVE DbInv'
    OBVIOUS
<1>1. UNCHANGED <<group, stage, runtime, minted>> /\ dbCmd.pc = "validate"
    BY DEF ValidateLogin
<1>2. CASE dbCmd.kind = "rotate"
  <2>1. LogsIn(dbCmd.password)
    BY <1>2 DEF ValidateLogin
  <2>2. /\ dbCmd' \in Cmd /\ dbCmd'.pc = "promote" /\ dbCmd'.kind = dbCmd.kind
        /\ dbCmd'.password = dbCmd.password
    BY <1>2, PcFields DEF ValidateLogin, DbInv, Typed, Step
  <2> QED
    BY <1>1, <1>2, <2>1, <2>2
       DEF DbInv, Typed, StepsOfKind, Rotating, Bootstrapping, RuntimePasswordIsHeld, LogsIn
<1>3. CASE dbCmd.kind # "rotate"
  <2>1. dbCmd' = [dbCmd EXCEPT !.pc = "contract"]
    BY <1>3 DEF ValidateLogin
  <2>2. dbCmd.kind \notin {"bootstrap", "none"}
    BY <1>1 DEF DbInv, StepsOfKind, Bootstrapping
  <2> QED
    BY <1>1, <1>3, <2>1, <2>2, GoesOn DEF Step
<1> QED
    BY <1>2, <1>3

LEMMA PromoteStep == DbInv /\ Promote => DbInv'
<1> SUFFICES ASSUME DbInv, Promote PROVE DbInv'
    OBVIOUS
<1>1. UNCHANGED <<group, runtime, minted>> /\ dbCmd.pc = "promote"
    BY DEF Promote
<1>2. /\ stage' \in [current : Nat, pending : Nat]
      /\ stage'.current = dbCmd.password /\ stage'.pending = stage.pending
    BY StageFields DEF Promote, DbInv, Typed, Cmd
<1>3. /\ dbCmd' \in Cmd /\ dbCmd'.pc = "unstage" /\ dbCmd'.kind = dbCmd.kind
      /\ dbCmd'.password = dbCmd.password
    BY PcFields DEF Promote, DbInv, Typed, Step
<1> QED
    BY <1>1, <1>2, <1>3
       DEF DbInv, Typed, StepsOfKind, Rotating, Bootstrapping, RuntimePasswordIsHeld, LogsIn

LEMMA UnstageStep == DbInv /\ Unstage => DbInv'
<1> SUFFICES ASSUME DbInv, Unstage PROVE DbInv'
    OBVIOUS
<1>1. UNCHANGED <<group, runtime, minted>> /\ dbCmd.pc = "unstage" /\ dbCmd' = NoCmd
    BY DEF Unstage
<1>2. /\ stage' \in [current : Nat, pending : Nat]
      /\ stage'.current = stage.current
    BY StageFields DEF Unstage, DbInv, Typed, NoPassword
<1> QED
    BY <1>1, <1>2, NoCmdFields
       DEF DbInv, Typed, StepsOfKind, Rotating, Bootstrapping, RuntimePasswordIsHeld, LogsIn

LEMMA BootstrapPasswordStep == DbInv /\ BootstrapPassword => DbInv'
<1> SUFFICES ASSUME DbInv, BootstrapPassword PROVE DbInv'
    OBVIOUS
<1>1. UNCHANGED <<group, runtime, stage>> /\ dbCmd.kind = "bootstrap"
    BY DEF BootstrapPassword
<1>2. CASE dbCmd.current # NoPassword
  <2>1. /\ dbCmd' \in Cmd /\ dbCmd'.pc = "tunnel" /\ dbCmd'.kind = dbCmd.kind
        /\ dbCmd'.current = dbCmd.current /\ dbCmd'.password = dbCmd.current
    BY <1>2, PasswordFields DEF BootstrapPassword, DbInv, Typed, Cmd, Step
  <2>2. minted' = minted
    BY <1>2 DEF BootstrapPassword
  <2> QED
    BY <1>1, <1>2, <2>1, <2>2
       DEF DbInv, Typed, StepsOfKind, Rotating, Bootstrapping, RuntimePasswordIsHeld, LogsIn
<1>3. CASE dbCmd.current = NoPassword
  <2>1. minted' = minted + 1 /\ minted' \in Nat /\ minted' # NoPassword
    BY <1>3 DEF BootstrapPassword, DbInv, Typed, NoPassword
  <2>2. /\ dbCmd' \in Cmd /\ dbCmd'.pc = "tunnel" /\ dbCmd'.kind = dbCmd.kind
        /\ dbCmd'.current = dbCmd.current /\ dbCmd'.password = minted'
    BY <1>3, <2>1, PasswordFields DEF BootstrapPassword, DbInv, Typed, Step
  <2> QED
    BY <1>1, <1>3, <2>1, <2>2
       DEF DbInv, Typed, StepsOfKind, Rotating, Bootstrapping, RuntimePasswordIsHeld, LogsIn
<1> QED
    BY <1>2, <1>3

LEMMA CommitRolesStep == DbInv /\ CommitRoles => DbInv'
<1> SUFFICES ASSUME DbInv, CommitRoles PROVE DbInv'
    OBVIOUS
<1>1. UNCHANGED <<group, stage, minted>> /\ dbCmd.pc = "people"
    BY DEF CommitRoles
<1>2. CASE dbCmd.kind # "bootstrap"
    BY <1>1, <1>2, EndsStep DEF CommitRoles
<1>3. CASE dbCmd.kind = "bootstrap"
  <2>0. runtime' = [password |-> dbCmd.password, roles |-> TRUE] /\ dbCmd.password \in Nat
    BY <1>3 DEF CommitRoles, DbInv, Typed, Cmd
  <2>1. runtime' \in [password : Nat, roles : BOOLEAN] /\ runtime'.password = dbCmd.password
    BY <2>0
  <2>2. CASE dbCmd.current = NoPassword
    <3>1. /\ dbCmd' \in Cmd /\ dbCmd'.pc = "store" /\ dbCmd'.kind = dbCmd.kind
          /\ dbCmd'.current = dbCmd.current /\ dbCmd'.password = dbCmd.password
      BY <1>3, <2>2, PcFields DEF CommitRoles, DbInv, Typed, Step
    <3> QED
      BY <1>1, <1>3, <2>1, <2>2, <3>1
         DEF DbInv, Typed, StepsOfKind, Rotating, Bootstrapping, RuntimePasswordIsHeld, LogsIn
  <2>3. CASE dbCmd.current # NoPassword
    <3>1. dbCmd' = NoCmd
      BY <1>3, <2>3 DEF CommitRoles
    <3> QED
      BY <1>1, <1>3, <2>1, <2>3, <3>1, NoCmdFields
         DEF DbInv, Typed, StepsOfKind, Rotating, Bootstrapping, RuntimePasswordIsHeld, LogsIn
  <2> QED
    BY <2>2, <2>3
<1> QED
    BY <1>2, <1>3

LEMMA StoreSecretStep == DbInv /\ StoreSecret => DbInv'
<1> SUFFICES ASSUME DbInv, StoreSecret PROVE DbInv'
    OBVIOUS
<1>1. UNCHANGED <<group, runtime, minted>> /\ dbCmd.pc = "store" /\ dbCmd' = NoCmd
    BY DEF StoreSecret
<1>2. /\ stage' \in [current : Nat, pending : Nat]
      /\ stage'.current = dbCmd.password
    BY StageFields DEF StoreSecret, DbInv, Typed, Cmd
<1> QED
    BY <1>1, <1>2, NoCmdFields
       DEF DbInv, Typed, StepsOfKind, Rotating, Bootstrapping, RuntimePasswordIsHeld, LogsIn

------------------------------------------------------------------------------
(* Every step keeps the invariant: one case for each action.                 *)
LEMMA StepDb == DbInv /\ [DbAccessNext]_dbVars => DbInv'
<1> SUFFICES ASSUME DbInv, [DbAccessNext]_dbVars PROVE DbInv'
    OBVIOUS
<1>0. /\ dbCmd \in Cmd /\ stage.current \in Nat /\ group \in SUBSET User
      /\ dbCmd.pc # "idle" => dbCmd.kind # "none"
      /\ dbCmd.kind = "bootstrap" => dbCmd.pc \in {"password", "tunnel", "people", "store"}
    BY DEF DbInv, Typed, StepsOfKind, Bootstrapping
<1>1. CASE BootstrapBegin
  <2>1. dbCmd' \in Cmd /\ dbCmd'.pc = "password" /\ dbCmd'.kind = "bootstrap" /\ dbCmd'.current = stage.current
    BY <1>0, <1>1 DEF BootstrapBegin, Begins, NoCmd, NoPassword, Cmd, Kind, Step
  <2> QED
    BY <1>1, <2>1, BeginsStep DEF BootstrapBegin, Begins
<1>2. CASE SyncBegin
  <2>1. dbCmd' \in Cmd /\ dbCmd'.pc = "tunnel" /\ dbCmd'.kind = "sync"
    BY <1>0, <1>2 DEF SyncBegin, Begins, NoCmd, NoPassword, Cmd, Kind, Step
  <2> QED
    BY <1>2, <2>1, BeginsStep DEF SyncBegin, Begins
<1>3. CASE RotateBegin
  <2>1. dbCmd' \in Cmd /\ dbCmd'.pc = "pending" /\ dbCmd'.kind = "rotate" /\ stage.current # NoPassword
    BY <1>0, <1>3 DEF RotateBegin, Begins, NoCmd, NoPassword, Cmd, Kind, Step
  <2> QED
    BY <1>3, <2>1, BeginsStep DEF RotateBegin, Begins
<1>4. CASE VerifyBegin
  <2>1. dbCmd' \in Cmd /\ dbCmd'.pc = "tunnel" /\ dbCmd'.kind = "verify"
    BY <1>0, <1>4 DEF VerifyBegin, Begins, NoCmd, NoPassword, Cmd, Kind, Step
  <2> QED
    BY <1>4, <2>1, BeginsStep DEF VerifyBegin, Begins
<1>5. ASSUME NEW p \in Profile, SeedBegin(p) PROVE DbInv'
  <2>1. dbCmd' \in Cmd /\ dbCmd'.pc = "tunnel" /\ dbCmd'.kind = "seed"
    BY <1>5 DEF SeedBegin, Begins, NoCmd, NoPassword, Cmd, Kind, Step
  <2> QED
    BY <1>5, <2>1, BeginsStep DEF SeedBegin, Begins
<1>6. ASSUME NEW kind \in {"migrate", "account"}, SubprocessBegin(kind) PROVE DbInv'
  <2>1. dbCmd' \in Cmd /\ dbCmd'.pc = "tunnel" /\ dbCmd'.kind = kind
    BY <1>6 DEF SubprocessBegin, Begins, NoCmd, NoPassword, Cmd, Kind, Step
  <2> QED
    BY <1>6, <2>1, BeginsStep DEF SubprocessBegin, Begins
<1>7. CASE OpenTunnel
  <2>1. CASE dbCmd' = NoCmd
    BY <1>7, <2>1, EndsStep DEF OpenTunnel
  <2>2. CASE dbCmd' = [dbCmd EXCEPT !.pc = FirstStep]
    <3>1. /\ dbCmd.pc = "tunnel" /\ dbCmd.kind # "none"
          /\ UNCHANGED <<group, runtime, stage, minted>>
      BY <1>0, <1>7 DEF OpenTunnel
    <3>2. dbCmd.kind \in Kind \ {"none"}
      BY <1>0, <3>1 DEF Cmd
    <3>3. /\ FirstStep \in Step \ {"store", "unstage", "promote", "pending"}
          /\ dbCmd.kind = "bootstrap" => FirstStep = "people"
          /\ dbCmd.kind = "rotate" => FirstStep = "password"
      BY <3>2 DEF FirstStep, Kind, Step
    <3> QED
      BY <2>2, <3>1, <3>3, GoesOn
  <2> QED
    BY <1>7, <2>1, <2>2 DEF OpenTunnel
<1>8. CASE CommandFails
    BY <1>8, EndsStep DEF CommandFails, Ended
<1>9. CASE VerifyContract
    BY <1>9, EndsStep DEF VerifyContract, Ended
<1>10. CASE VerifySeed
    BY <1>10, EndsStep DEF VerifySeed, Ended
<1>11. CASE RunSubprocess
    BY <1>11, EndsStep DEF RunSubprocess, Ended
<1>12. CASE SeedFile
  <2>1. /\ dbCmd.pc \in {"reset", "data", "profile"}
        /\ \E p \in {"data", "profile", "verifySeed"} : dbCmd' = [dbCmd EXCEPT !.pc = p]
        /\ UNCHANGED <<group, runtime, stage, minted>>
    BY <1>12 DEF SeedFile
  <2>2. dbCmd.kind \notin {"none", "bootstrap", "rotate"}
    BY <1>0, <2>1 DEF DbInv, Rotating
  <2> QED
    BY <2>1, <2>2, GoesOn DEF Step
<1>13. CASE PreparePending
    BY <1>13, PreparePendingStep
<1>14. CASE RotatePassword
    BY <1>14, RotatePasswordStep
<1>15. CASE ValidateLogin
    BY <1>15, ValidateLoginStep
<1>16. CASE Promote
    BY <1>16, PromoteStep
<1>17. CASE Unstage
    BY <1>17, UnstageStep
<1>18. CASE BootstrapPassword
    BY <1>18, BootstrapPasswordStep
<1>19. CASE CommitRoles
    BY <1>19, CommitRolesStep
<1>20. CASE StoreSecret
    BY <1>20, StoreSecretStep
<1>21. ASSUME NEW u \in User, TerminateSession(u) PROVE DbInv'
    BY <1>0, <1>21, OtherStep DEF TerminateSession
<1>22. ASSUME NEW u \in User, MembershipChanges(u) PROVE DbInv'
    BY <1>0, <1>22, OtherStep DEF MembershipChanges
<1>23. ASSUME NEW u \in User, Connects(u) PROVE DbInv'
    BY <1>0, <1>23, OtherStep DEF Connects
<1>24. CASE KillLeftTunnel
    BY <1>0, <1>24, OtherStep DEF KillLeftTunnel
<1>25. CASE UNCHANGED dbVars
    BY <1>0, <1>25, OtherStep DEF dbVars
<1> QED
    BY <1>1, <1>2, <1>3, <1>4, <1>5, <1>6, <1>7, <1>8, <1>9, <1>10, <1>11, <1>12,
       <1>13, <1>14, <1>15, <1>16, <1>17, <1>18, <1>19, <1>20, <1>21, <1>22,
       <1>23, <1>24, <1>25 DEF DbAccessNext

\* DbInv holds of every behaviour of the commands.
THEOREM DbInvariance == DbAccessSpec => []DbInv
    BY InitDb, StepDb, PTL DEF DbAccessSpec

\* Whatever command is killed wherever, the database accepts a password that
\* Secrets Manager holds (rotate_runtime, bootstrap).
THEOREM PasswordHeld == DbAccessSpec => []RuntimePasswordIsHeld
<1>1. DbInv => RuntimePasswordIsHeld
    BY DEF DbInv
<1> QED
    BY <1>1, DbInvariance, PTL

-----------------------------------------------------------------------------
(* The container                                                             *)

SupervisorStep ==
    {"bootstrap", "template", "start-sllm", "wait-sllm", "start-stt", "wait-stt", "watch",
     "stop", "exited"}

(* The first engine has listed its model by the time the second is started. *)
FirstEngineLoaded ==
    \/ supervisor.pc \in {"start-stt", "wait-stt", "watch"}
    \/ process[<<"stt", "vllm">>] # "none"
    => process[<<"sllm", "vllm">>] \in {"ready", "dead"}

(* All that a caller can be told, in the order in which it is told. *)
Begun == {<<200>>, <<400>>}
Answers == Begun \cup {<<s>> : s \in {401, 404, 413, 502}} \cup {<<200, 413>>, <<400, 413>>}

RequestHolds(r) ==
    /\ DOMAIN request[r] = {"pc", "reply", "over", "service"}
    /\ request[r].pc \in {"new", "forwarded", "streaming", "done", "cut"}
    /\ request[r].pc \in {"new", "forwarded"} => request[r].reply = <<>>
    /\ request[r].pc = "streaming" => request[r].reply \in Begun
    /\ request[r].pc \in {"done", "cut"} => request[r].reply \in Answers

RuntimeInv ==
    /\ DOMAIN supervisor = {"pc", "config", "signal", "exit"}
    /\ supervisor.pc \in SupervisorStep
    /\ process \in [ProcessName -> {"none", "loading", "ready", "dead"}]
    /\ FirstEngineLoaded
    /\ DOMAIN request = Request
    /\ \A r \in Request : RequestHolds(r)

LEMMA Engines ==
    /\ <<"sllm", "vllm">> \in ProcessName /\ <<"stt", "vllm">> \in ProcessName
    /\ <<"sllm", "vllm">> # <<"stt", "vllm">>
    /\ \A s \in Service, part \in {"vllm", "proxy"} : <<s, part>> \in ProcessName
  BY DEF ProcessName, Service

LEMMA RuntimeStarts == PodRuntimeInit => RuntimeInv
<1> SUFFICES ASSUME PodRuntimeInit PROVE RuntimeInv
  OBVIOUS
<1>1. PICK c \in Configuration :
        supervisor = [pc |-> "bootstrap", config |-> c, signal |-> FALSE, exit |-> "none"]
  BY DEF PodRuntimeInit
<1>2. DOMAIN supervisor = {"pc", "config", "signal", "exit"} /\ supervisor.pc = "bootstrap"
  BY <1>1
<1>3. FirstEngineLoaded
  BY <1>2, Engines DEF PodRuntimeInit, FirstEngineLoaded
<1>4. ASSUME NEW r \in Request PROVE RequestHolds(r)
  <2>1. request[r] = [pc |-> "new", reply |-> <<>>, over |-> FALSE, service |-> "none"]
    BY DEF PodRuntimeInit
  <2> QED
    BY <2>1 DEF RequestHolds
<1> QED
  BY <1>2, <1>3, <1>4 DEF PodRuntimeInit, RuntimeInv, SupervisorStep

(* A step of the supervisor alone: the first engine has loaded when the step
   goes on to the second.                                                    *)
LEMMA SupervisorStepKeeps ==
    ASSUME RuntimeInv, UNCHANGED <<process, request>>,
           DOMAIN supervisor' = {"pc", "config", "signal", "exit"},
           supervisor'.pc \in SupervisorStep,
           supervisor'.pc \in {"start-stt", "wait-stt", "watch"} =>
               \/ supervisor.pc \in {"start-stt", "wait-stt", "watch"}
               \/ process[<<"sllm", "vllm">>] = "ready"
    PROVE  RuntimeInv'
  BY DEF RuntimeInv, FirstEngineLoaded, RequestHolds

LEMMA GoesOnly ==
    ASSUME RuntimeInv, NEW pc, Goes(pc)
    PROVE  supervisor'.pc = pc /\ DOMAIN supervisor' = {"pc", "config", "signal", "exit"}
  BY DEF RuntimeInv, Goes

LEMMA SupervisorGoes ==
    ASSUME RuntimeInv,
           \/ Bootstrap \/ Signalled \/ PrepareTemplate \/ Watch
           \/ \E s \in Service : WaitForModel(s)
    PROVE  RuntimeInv'
<1>1. CASE Bootstrap
  <2>1. /\ DOMAIN supervisor' = {"pc", "config", "signal", "exit"}
        /\ supervisor'.pc \in {"template", "exited"}
    BY <1>1 DEF Bootstrap, RuntimeInv
  <2> QED
    BY <1>1, <2>1, SupervisorStepKeeps DEF Bootstrap, SupervisorStep
<1>2. CASE Signalled
  <2>1. DOMAIN supervisor' = {"pc", "config", "signal", "exit"} /\ supervisor'.pc = supervisor.pc
    BY <1>2 DEF Signalled, RuntimeInv
  <2> QED
    BY <1>2, <2>1, SupervisorStepKeeps DEF Signalled, RuntimeInv
<1>3. CASE PrepareTemplate
  <2>1. DOMAIN supervisor' = {"pc", "config", "signal", "exit"} /\ supervisor'.pc \in {"start-sllm", "stop"}
    BY <1>3, GoesOnly DEF PrepareTemplate, Starting
  <2> QED
    BY <1>3, <2>1, SupervisorStepKeeps DEF PrepareTemplate, SupervisorStep
<1>4. CASE Watch
  <2>1. DOMAIN supervisor' = {"pc", "config", "signal", "exit"} /\ supervisor'.pc = "stop"
    BY <1>4, GoesOnly DEF Watch
  <2> QED
    BY <1>4, <2>1, SupervisorStepKeeps DEF Watch, SupervisorStep
<1>5. ASSUME NEW s \in Service, WaitForModel(s) PROVE RuntimeInv'
  <2>1. CASE Goes("stop")
    <3>1. DOMAIN supervisor' = {"pc", "config", "signal", "exit"} /\ supervisor'.pc = "stop"
      BY <2>1, GoesOnly
    <3> QED
      BY <1>5, <3>1, SupervisorStepKeeps DEF WaitForModel, SupervisorStep
  <2>2. CASE ModelListed(s) /\ Goes(After(s))
    <3>1. /\ DOMAIN supervisor' = {"pc", "config", "signal", "exit"}
          /\ supervisor'.pc \in {"start-stt", "watch"}
      BY <2>2, GoesOnly DEF After, Starting
    <3>2. CASE s = "sllm"
      <4>1. process[<<"sllm", "vllm">>] = "ready"
        BY <2>2, <3>2 DEF ModelListed
      <4> QED
        BY <1>5, <3>1, <4>1, SupervisorStepKeeps DEF WaitForModel, SupervisorStep
    <3>3. CASE s = "stt"
      <4>1. supervisor.pc = "wait-stt"
        BY <1>5, <3>3 DEF WaitForModel, Waiting
      <4> QED
        BY <1>5, <3>1, <4>1, SupervisorStepKeeps DEF WaitForModel, SupervisorStep
    <3> QED
      BY <3>2, <3>3 DEF Service
  <2> QED
    BY <1>5, <2>1, <2>2 DEF WaitForModel
<1> QED
  BY <1>1, <1>2, <1>3, <1>4, <1>5

(* A process is started when its service's turn has come. *)
LEMMA StartServiceKeeps ==
    ASSUME RuntimeInv, NEW s \in Service, StartService(s)
    PROVE  RuntimeInv'
<1>1. supervisor.pc = Starting[s] /\ UNCHANGED request
  BY DEF StartService
<1>2. PICK part \in {"vllm", "proxy"} :
        /\ process[<<s, part>>] = "none"
        /\ part = "proxy" => process[<<s, "vllm">>] # "none"
        /\ \/ /\ process' = [process EXCEPT ![<<s, part>>] = "loading"]
              /\ IF part = "proxy" THEN Goes(Waiting[s]) ELSE UNCHANGED supervisor
           \/ Goes("stop") /\ UNCHANGED process
  BY DEF StartService
<1>3. CASE Goes("stop") /\ UNCHANGED process
  <2>1. DOMAIN supervisor' = {"pc", "config", "signal", "exit"} /\ supervisor'.pc = "stop"
    BY <1>3, GoesOnly
  <2> QED
    BY <1>1, <1>3, <2>1, SupervisorStepKeeps DEF SupervisorStep
<1>4. CASE /\ process' = [process EXCEPT ![<<s, part>>] = "loading"]
           /\ IF part = "proxy" THEN Goes(Waiting[s]) ELSE UNCHANGED supervisor
  <2>1. process' \in [ProcessName -> {"none", "loading", "ready", "dead"}]
    BY <1>4, Engines DEF RuntimeInv
  <2>2. /\ DOMAIN supervisor' = {"pc", "config", "signal", "exit"}
        /\ supervisor'.pc \in {supervisor.pc, Waiting[s]}
    BY <1>4, GoesOnly DEF RuntimeInv
  <2>3. CASE s = "sllm"
    <3>1. supervisor.pc = "start-sllm" /\ Waiting[s] = "wait-sllm"
      BY <1>1, <2>3 DEF Starting, Waiting
    <3>2. process'[<<"stt", "vllm">>] = process[<<"stt", "vllm">>]
      BY <1>4, <2>3, Engines DEF RuntimeInv
    <3>3. process'[<<"sllm", "vllm">>] = process[<<"sllm", "vllm">>]
          \/ process[<<"sllm", "vllm">>] = "none"
      BY <1>2, <1>4, <2>3, Engines DEF RuntimeInv
    <3>4. FirstEngineLoaded'
      BY <2>2, <3>1, <3>2, <3>3 DEF RuntimeInv, FirstEngineLoaded
    <3> QED
      BY <1>1, <2>1, <2>2, <3>1, <3>4 DEF RuntimeInv, RequestHolds, SupervisorStep
  <2>4. CASE s = "stt"
    <3>1. supervisor.pc = "start-stt" /\ Waiting[s] = "wait-stt"
      BY <1>1, <2>4 DEF Starting, Waiting
    <3>2. process'[<<"sllm", "vllm">>] = process[<<"sllm", "vllm">>]
      BY <1>4, <2>4, Engines DEF RuntimeInv
    <3>3. FirstEngineLoaded'
      BY <3>1, <3>2 DEF RuntimeInv, FirstEngineLoaded
    <3> QED
      BY <1>1, <2>1, <2>2, <3>1, <3>3 DEF RuntimeInv, RequestHolds, SupervisorStep
  <2> QED
    BY <2>3, <2>4 DEF Service
<1> QED
  BY <1>2, <1>3, <1>4

(* Engines get ready and die; none goes back to loading. *)
LEMMA ProcessesKeep ==
    ASSUME RuntimeInv,
           StopProcesses \/ \E n \in ProcessName : ProcessReady(n) \/ ProcessDies(n)
    PROVE  RuntimeInv'
<1>1. UNCHANGED request
  BY DEF StopProcesses, ProcessReady, ProcessDies
<1>2. /\ DOMAIN supervisor' = {"pc", "config", "signal", "exit"}
      /\ supervisor'.pc \in {supervisor.pc, "exited"}
  BY DEF RuntimeInv, StopProcesses, ProcessReady, ProcessDies
<1>3. process' \in [ProcessName -> {"none", "loading", "ready", "dead"}]
  BY DEF RuntimeInv, StopProcesses, ProcessReady, ProcessDies
<1>4. \A n \in ProcessName :
        /\ process'[n] = "none" <=> process[n] = "none"
        /\ process[n] \in {"ready", "dead"} => process'[n] \in {"ready", "dead"}
  BY DEF RuntimeInv, StopProcesses, ProcessReady, ProcessDies, IsUp
<1>5. FirstEngineLoaded'
  BY <1>2, <1>4, Engines DEF RuntimeInv, FirstEngineLoaded
<1> QED
  BY <1>1, <1>2, <1>3, <1>5 DEF RuntimeInv, RequestHolds, SupervisorStep

(* A step of one request. *)
LEMMA OneRequest ==
    ASSUME RuntimeInv, NEW r \in Request, UNCHANGED <<supervisor, process>>, NEW next,
           request' = [request EXCEPT ![r] = next],
           DOMAIN next = {"pc", "reply", "over", "service"},
           \/ next.pc = "forwarded" /\ next.reply = <<>>
           \/ next.pc = "streaming" /\ next.reply \in Begun
           \/ next.pc \in {"done", "cut"} /\ next.reply \in Answers
    PROVE  RuntimeInv'
<1>1. \A q \in Request : q # r => RequestHolds(q)'
  BY DEF RuntimeInv, RequestHolds
<1>2. RequestHolds(r)'
  BY DEF RuntimeInv, RequestHolds
<1> QED
  BY <1>1, <1>2 DEF RuntimeInv, FirstEngineLoaded

LEMMA Appended ==
    ASSUME NEW first \in Nat, NEW status \in Nat
    PROVE  Append(<<>>, status) = <<status>> /\ Append(<<first>>, status) = <<first, status>>
<1>1. Append(<<first>>, status) \in Seq(Nat) /\ Len(Append(<<first>>, status)) = 2
  OBVIOUS
<1>2. Append(<<first>>, status)[1] = first
  OBVIOUS
<1>3. Append(<<first>>, status)[2] = status
  OBVIOUS
<1>4. Append(<<first>>, status) = <<first, status>>
  <2>1. \A both \in Seq(Nat) :
          Len(both) = 2 /\ both[1] = first /\ both[2] = status => both = <<first, status>>
    OBVIOUS
  <2> QED
    BY <1>1, <1>2, <1>3, <2>1
<1>5. Append(<<>>, status) = <<status>>
  OBVIOUS
<1> QED
  BY <1>4, <1>5

(* Reply adds a status to what the caller was told. *)
LEMMA ReplyKeeps ==
    ASSUME RuntimeInv, NEW r \in Request, UNCHANGED <<supervisor, process>>,
           NEW status, NEW pc, Reply(r, status, pc),
           \/ pc = "streaming" /\ Append(request[r].reply, status) \in Begun
           \/ pc = "done" /\ Append(request[r].reply, status) \in Answers
    PROVE  RuntimeInv'
<1> DEFINE next == [request[r] EXCEPT !.reply = Append(@, status), !.pc = pc]
<1>1. /\ DOMAIN next = {"pc", "reply", "over", "service"}
      /\ next.pc = pc /\ next.reply = Append(request[r].reply, status)
  BY DEF RuntimeInv, RequestHolds
<1>2. request' = [request EXCEPT ![r] = next]
  BY DEF Reply, RuntimeInv
<1> HIDE DEF next
<1> QED
  BY <1>1, <1>2, OneRequest

LEMMA ReceiveKeeps ==
    ASSUME RuntimeInv, NEW r \in Request, NEW s \in Service, NEW a \in Authorization,
           NEW p \in Route, NEW l \in Length, Receive(r, s, a, p, l)
    PROVE  RuntimeInv'
<1>1. UNCHANGED <<supervisor, process>> /\ request[r].pc = "new"
  BY DEF Receive
<1>2. request[r].reply = <<>>
  BY <1>1 DEF RuntimeInv, RequestHolds
<1>3. ASSUME NEW status \in {200, 401, 404, 413}, Reply(r, status, "done") PROVE RuntimeInv'
  <2>1. Append(request[r].reply, status) \in Answers
    BY <1>2, Appended DEF Answers, Begun
  <2> QED
    BY <1>1, <1>3, <2>1, ReplyKeeps
<1>4. ASSUME request' = [request EXCEPT ![r].pc = "forwarded", ![r].service = s,
                                        ![r].over = l = "unknown"]
      PROVE  RuntimeInv'
  <2> DEFINE next == [request[r] EXCEPT !.pc = "forwarded", !.service = s,
                                        !.over = l = "unknown"]
  <2>1. /\ DOMAIN next = {"pc", "reply", "over", "service"}
        /\ next.pc = "forwarded" /\ next.reply = request[r].reply
    BY DEF RuntimeInv, RequestHolds
  <2>2. request' = [request EXCEPT ![r] = next]
    BY <1>4 DEF RuntimeInv
  <2> HIDE DEF next
  <2> QED
    BY <1>1, <1>2, <2>1, <2>2, OneRequest
<1>5. \/ \E status \in {200, 401, 404, 413} : Reply(r, status, "done")
      \/ request' = [request EXCEPT ![r].pc = "forwarded", ![r].service = s,
                                    ![r].over = l = "unknown"]
  BY DEF Receive
<1> QED
  BY <1>3, <1>4, <1>5

LEMMA UpstreamKeeps ==
    ASSUME RuntimeInv, NEW r \in Request,
           UpstreamAnswers(r) \/ UpstreamEnds(r) \/ UpstreamBreaks(r) \/ BodyOverLimit(r)
    PROVE  RuntimeInv'
<1>1. UNCHANGED <<supervisor, process>>
  BY DEF UpstreamAnswers, UpstreamEnds, UpstreamBreaks, BodyOverLimit
<1>2. RequestHolds(r) /\ r \in DOMAIN request
  BY DEF RuntimeInv
<1>3. CASE UpstreamAnswers(r)
  <2>1. request[r].reply = <<>>
    BY <1>2, <1>3 DEF UpstreamAnswers, RequestHolds
  <2>2. PICK status \in {200, 400} : Reply(r, status, "streaming")
    BY <1>3 DEF UpstreamAnswers
  <2>3. Append(request[r].reply, status) \in Begun
    BY <2>1, <2>2, Appended DEF Begun
  <2> QED
    BY <1>1, <2>2, <2>3, ReplyKeeps
<1>4. ASSUME NEW pc \in {"done", "cut"}, request[r].reply \in Answers,
             request' = [request EXCEPT ![r].pc = pc, ![r].over = FALSE]
      PROVE  RuntimeInv'
  <2> DEFINE next == [request[r] EXCEPT !.pc = pc, !.over = FALSE]
  <2>1. /\ DOMAIN next = {"pc", "reply", "over", "service"}
        /\ next.pc = pc /\ next.reply = request[r].reply
    BY <1>2 DEF RequestHolds
  <2>2. request' = [request EXCEPT ![r] = next]
    BY <1>2, <1>4
  <2> HIDE DEF next
  <2> QED
    BY <1>1, <1>4, <2>1, <2>2, OneRequest
<1>5. CASE UpstreamEnds(r)
  BY <1>2, <1>4, <1>5 DEF UpstreamEnds, RequestHolds, Answers
<1>6. CASE UpstreamBreaks(r)
  <2>1. CASE request[r].pc = "forwarded"
    <3>1. request[r].reply = <<>>
      BY <1>2, <2>1 DEF RequestHolds
    <3>2. Reply(r, 502, "done")
      BY <1>6, <3>1 DEF UpstreamBreaks, Prepared
    <3>3. Append(request[r].reply, 502) \in Answers
      BY <3>1, Appended DEF Answers
    <3> QED
      BY <1>1, <3>2, <3>3, ReplyKeeps
  <2>2. CASE request[r].pc = "streaming"
    <3>1. request[r].reply \in Begun
      BY <1>2, <2>2 DEF RequestHolds
    <3>2. request[r].reply # <<>>
      BY <3>1 DEF Begun
    <3>3. request' = [request EXCEPT ![r].pc = "cut", ![r].over = FALSE]
      BY <1>6, <3>2 DEF UpstreamBreaks, Prepared
    <3> QED
      BY <1>4, <3>1, <3>3 DEF Answers
  <2> QED
    BY <1>6, <2>1, <2>2 DEF UpstreamBreaks
<1>7. CASE BodyOverLimit(r)
  <2>1. request[r].reply \in {<<>>} \cup Begun
    BY <1>2, <1>7 DEF BodyOverLimit, RequestHolds
  <2>2. ASSUME NEW reply \in {<<>>} \cup Begun PROVE Append(reply, 413) \in Answers
    <3>1. reply \in {<<>>, <<200>>, <<400>>}
      BY <2>2 DEF Begun
    <3>2. 200 \in Nat /\ 400 \in Nat /\ 413 \in Nat
      OBVIOUS
    <3>3. CASE reply = <<>>
      BY <3>2, <3>3, Appended DEF Answers
    <3>4. CASE reply = <<200>>
      BY <3>2, <3>4, Appended DEF Answers
    <3>5. CASE reply = <<400>>
      BY <3>2, <3>5, Appended DEF Answers
    <3> QED
      BY <3>1, <3>3, <3>4, <3>5
  <2> QED
    BY <1>1, <1>7, <2>1, <2>2, ReplyKeeps DEF BodyOverLimit
<1> QED
  BY <1>3, <1>5, <1>6, <1>7

LEMMA RuntimeStep == RuntimeInv /\ [PodRuntimeNext]_runtimeVars => RuntimeInv'
<1> SUFFICES ASSUME RuntimeInv, [PodRuntimeNext]_runtimeVars PROVE RuntimeInv'
  OBVIOUS
<1>1. CASE UNCHANGED runtimeVars
  BY <1>1 DEF runtimeVars, RuntimeInv, FirstEngineLoaded, RequestHolds
<1>2. CASE PodRuntimeNext
  BY <1>2, SupervisorGoes, StartServiceKeeps, ProcessesKeep, ReceiveKeeps, UpstreamKeeps
     DEF PodRuntimeNext
<1> QED
  BY <1>1, <1>2

(* The invariant of the container, on which the theorem below rests. *)
THEOREM RuntimeInvariance == PodRuntimeSpec => []RuntimeInv
  BY RuntimeStarts, RuntimeStep, PTL DEF PodRuntimeSpec

(* No second status in any answer but the one that the proxy itself adds. *)
LEMMA AnswersHold ==
    ASSUME NEW reply \in Answers \cup {<<>>}, NEW i \in 2..Len(reply)
    PROVE  reply[i] = 413 /\ reply[1] \in {200, 400}
  BY DEF Answers, Begun

(* The two engines never load the one GPU together, and no status is put inside
   an answer that was begun, except the one for a body over the limit.  (run,
   _wait_for_model, proxy, request_body)                                     *)
THEOREM OneLoad == PodRuntimeSpec => []OneLoadOneStatus
<1>1. ASSUME RuntimeInv PROVE EnginesLoadInTurn
  BY <1>1 DEF RuntimeInv, FirstEngineLoaded, EnginesLoadInTurn
<1>2. ASSUME RuntimeInv PROVE NoStatusInsideAnAnswer
  <2>1. ASSUME NEW r \in Request PROVE request[r].reply \in Answers \cup {<<>>}
    BY <1>2 DEF RuntimeInv, RequestHolds, Answers
  <2> QED
    BY <2>1, AnswersHold DEF NoStatusInsideAnAnswer
<1>3. RuntimeInv => OneLoadOneStatus
  BY <1>1, <1>2 DEF OneLoadOneStatus
<1> QED
  BY <1>3, RuntimeInvariance, PTL

-----------------------------------------------------------------------------
(* The alarms                                                                *)

Whys == {"delivery", "pipeline", "timeout", "search"}

(* A failure for which the search is not to blame, or had no time, or hung. *)
Failure ==
    {f \in [why : Whys, began : Nat, prompt : BOOLEAN] :
        f.why = "search" /\ f.prompt => LambdaTicks <= f.began + SearchTicks}

(* A record that must be told was told. *)
Told(r) == event.function = "delivery" \/ IsAlarm(event.records[r]) => toldOf[r] # <<>>

AtRecord == {"starting", "polling", "stopping", "reading", "send"}
Invocation ==
    [pc : AtRecord \cup {"record"}, at : Nat \ {0}, clock : 0 .. LambdaTicks, began : Nat,
     prompt : BOOLEAN, detail : DetailLengths \cup {None}]

(* What prompt calls have used of the time since the search began. *)
Used == [record |-> 0, starting |-> 0, reading |-> 0, polling |-> WaitTicks + CallTicks,
         stopping |-> WaitTicks + CallTicks, send |-> SearchTicks]
ClockHolds ==
    /\ invocation \in Invocation
    /\ invocation.pc = "record" => invocation.prompt /\ invocation.detail = None
    /\ invocation.prompt => invocation.clock <= invocation.began + Used[invocation.pc]

(* The running invocation is at a record of the event or past the last one, it
   has told the records before, and what it composes is a record to be told.  *)
InvocationHolds ==
    /\ invocation.pc \in AtRecord \cup {"record", "ended", "lost"}
    /\ invocation.pc \in AtRecord \cup {"record"} =>
          /\ ClockHolds
          /\ \A r \in EventRecords : r < invocation.at => Told(r)
    /\ invocation.pc \in AtRecord => invocation.at \in EventRecords
    /\ invocation.pc \in Searching => event.function = "alarm"
    /\ invocation.pc = "reading" => event.function = "delivery"
    /\ invocation.pc \in AtRecord /\ event.function = "alarm" => IsAlarm(Current)
    /\ invocation.pc = "ended" => \A r \in EventRecords : Told(r)

NotifierInv ==
    /\ event.function \in {"alarm", "delivery"}
    /\ event.records \in Seq(Alarms \cup Deliveries)
    /\ event.function = "alarm" => event.records \in Seq(Alarms)
    /\ toldOf \in [EventRecords -> Seq(0 .. ContentLimit)]
    /\ failures \in Seq(Failure)
    /\ InvocationHolds

(* A section takes no more than what is left of the message. *)
LEMMA SectionFits ==
    ASSUME NEW prefix \in Nat, NEW length \in Nat, NEW available \in Nat, NEW maximum \in Nat
    PROVE  FitSection(prefix, length, available, maximum) \in 0 .. available
  BY DEF FitSection, Least

(* The links, the reason and the detail never make a message too long. *)
LEMMA ContentFits ==
    ASSUME AlarmNotifierAssumption, NEW a \in Alarms, IsAlarm(a),
           NEW detail \in DetailLengths \cup {None}
    PROVE  AlarmContent(a, detail) \in 0 .. ContentLimit
<1>1. a.name \in Nat /\ a.reason \in Nat
  BY DEF AlarmNotifierAssumption, IsAlarm
<1>2. Heading(a) \in 0 .. ContentLimit
  BY <1>1 DEF AlarmNotifierAssumption, Heading, Least
<1>3. LinksSection(a) \in Nat
  BY DEF AlarmNotifierAssumption, LinksSection, Links
<1>4. WithLinks(a) \in 0 .. ContentLimit
  BY <1>2, <1>3 DEF AlarmNotifierAssumption, WithLinks
<1>5. WithReason(a) \in 0 .. ContentLimit
  <2>1. ContentLimit - WithLinks(a) \in Nat
    BY <1>4 DEF AlarmNotifierAssumption
  <2>2. FitSection(ReasonPrefix, a.reason, ContentLimit - WithLinks(a), ReasonLimit)
            \in 0 .. ContentLimit - WithLinks(a)
    BY <1>1, <2>1, SectionFits DEF AlarmNotifierAssumption
  <2> QED
    BY <1>4, <2>2 DEF AlarmNotifierAssumption, WithReason
<1>6. ASSUME detail \in Nat
      PROVE  WithReason(a) + FitSection(DetailPrefix, detail, ContentLimit - WithReason(a),
                                        ContentLimit) \in 0 .. ContentLimit
  <2>1. ContentLimit - WithReason(a) \in Nat
    BY <1>5 DEF AlarmNotifierAssumption
  <2>2. FitSection(DetailPrefix, detail, ContentLimit - WithReason(a), ContentLimit)
            \in 0 .. ContentLimit - WithReason(a)
    BY <1>6, <2>1, SectionFits DEF AlarmNotifierAssumption
  <2> QED
    BY <1>5, <2>2 DEF AlarmNotifierAssumption
<1>7. CASE detail = None
  BY <1>5, <1>7 DEF AlarmContent, AlarmNotifierAssumption
<1>8. CASE detail # None
  <2>1. detail \in Nat
    BY <1>8 DEF AlarmNotifierAssumption
  <2> QED
    BY <1>6, <1>8, <2>1 DEF AlarmContent
<1> QED
  BY <1>7, <1>8

(* What a call leaves of the invocation, however long it took. *)
LEMMA Spent ==
    ASSUME AlarmNotifierAssumption, ClockHolds, NEW time \in CallTimes, NEW pc \in AtRecord,
           NEW detail \in DetailLengths \cup {None}, Spends(time, pc, detail)
    PROVE  /\ invocation' \in Invocation
           /\ invocation'.pc = pc /\ invocation'.at = invocation.at
           /\ invocation'.began = invocation.began
           /\ invocation'.clock = invocation.clock + time
           /\ invocation'.prompt => invocation.prompt /\ time <= CallTicks
<1>1. time \in Nat /\ invocation.clock + time \in 0 .. LambdaTicks
  BY DEF CallTimes, AlarmNotifierAssumption, ClockHolds, Invocation
<1>2. (invocation.prompt /\ time <= CallTicks) \in BOOLEAN
  OBVIOUS
<1>3. invocation' = [invocation EXCEPT !.pc = pc, !.clock = invocation.clock + time,
                        !.detail = detail, !.prompt = (invocation.prompt /\ time <= CallTicks)]
  BY Zenon DEF Spends
<1>4. invocation'.prompt = (invocation.prompt /\ time <= CallTicks)
  BY <1>3, Zenon DEF ClockHolds, Invocation
<1> QED
  BY <1>1, <1>2, <1>3, <1>4 DEF ClockHolds, Invocation

(* The clock after a sleep: not beyond the deadline, unless the call was.     *)
LEMMA WakesInTime ==
    ASSUME AlarmNotifierAssumption, ClockHolds, NEW time \in CallTimes
    PROVE  /\ Woken(invocation.clock + time) \in 0 .. LambdaTicks
           /\ \/ Woken(invocation.clock + time) <= invocation.clock + time
              \/ Woken(invocation.clock + time) <= invocation.began + WaitTicks
  BY DEF CallTimes, AlarmNotifierAssumption, ClockHolds, Invocation, Woken, Least

(* A step that goes on with its record, its clock in order, keeps the rest. *)
LEMMA RecordGoesOn ==
    ASSUME NotifierInv, UNCHANGED <<event, toldOf, failures>>,
           invocation.pc \in AtRecord, ClockHolds',
           invocation'.pc \in AtRecord, invocation'.at = invocation.at,
           invocation'.pc \in Searching => event.function = "alarm",
           invocation'.pc = "reading" => event.function = "delivery"
    PROVE  NotifierInv'
<1>1. InvocationHolds'
  BY DEF NotifierInv, InvocationHolds, Told, IsAlarm, Current, EventRecords, AtRecord
<1> QED
  BY <1>1 DEF NotifierInv, EventRecords

LEMMA NextRecordKeeps ==
    ASSUME AlarmNotifierAssumption, NotifierInv, NextRecord
    PROVE  NotifierInv'
<1>1. UNCHANGED <<event, toldOf, failures>> /\ invocation.pc = "record"
  BY DEF NextRecord
<1>2. /\ ClockHolds /\ invocation \in Invocation
      /\ \A r \in EventRecords : r < invocation.at => Told(r)
      /\ EventRecords = 1 .. Len(event.records) /\ Len(event.records) \in Nat
  BY <1>1 DEF NotifierInv, InvocationHolds, EventRecords, ClockHolds
<1>3. \A r \in EventRecords : Told(r)' = Told(r)
  BY <1>1 DEF Told, EventRecords
<1>4. InvocationHolds'
  <2>1. CASE invocation.at > Len(event.records)
    <3>1. invocation'.pc = "ended"
      BY <2>1 DEF NextRecord
    <3>2. \A r \in EventRecords : Told(r)
      BY <1>2, <2>1 DEF Invocation
    <3> QED
      BY <1>1, <1>3, <3>1, <3>2 DEF InvocationHolds, AtRecord, EventRecords, Searching
  <2>2. CASE invocation.at <= Len(event.records) /\ event.function = "alarm" /\ ~IsAlarm(Current)
    <3>. ~(invocation.at > Len(event.records))
      BY <1>2, <2>2 DEF Invocation
    <3>1. invocation' = Running(invocation.at + 1, invocation.clock)
      BY <2>2, Zenon DEF NextRecord
    <3>2. invocation'.pc = "record" /\ invocation'.at = invocation.at + 1
      BY <3>1 DEF Running
    <3>3. ClockHolds'
      BY <1>2, <3>1 DEF ClockHolds, Invocation, Running, Used
    <3>4. Told(invocation.at)
      BY <2>2 DEF Told, Current
    <3>5. \A r \in EventRecords : r < invocation.at + 1 => Told(r)
      BY <1>2, <3>4 DEF Invocation
    <3> QED
      BY <1>1, <1>2, <1>3, <3>2, <3>3, <3>5
         DEF InvocationHolds, AtRecord, EventRecords, Searching
  <2>3. CASE invocation.at <= Len(event.records) /\ (event.function = "alarm" => IsAlarm(Current))
    <3>1. invocation.at \in EventRecords
      BY <1>2, <2>3 DEF Invocation
    <3>2. PICK pc \in {"starting", "reading", "send"} :
             /\ invocation' = [invocation EXCEPT !.pc = pc]
             /\ pc = "starting" => event.function = "alarm"
             /\ pc = "reading" => event.function = "delivery"
      <4>1. ~(invocation.at > Len(event.records))
        BY <1>2, <2>3 DEF Invocation
      <4> DEFINE to == IF event.function = "alarm" /\ Enriched(Current) THEN "starting"
                       ELSE IF event.function = "delivery" /\ Current.kind = "pipeline"
                            THEN "reading" ELSE "send"
      <4>2. invocation' = [invocation EXCEPT !.pc = to]
        BY <2>3, <4>1, Zenon DEF NextRecord
      <4> QED
        BY <4>2
    <3>3. invocation'.pc = pc /\ invocation'.at = invocation.at
      BY <1>2, <3>2 DEF Invocation
    <3>4. ClockHolds'
      <4>1. /\ invocation.clock <= invocation.began /\ invocation.prompt
            /\ invocation.clock \in Nat /\ invocation.began \in Nat
        BY <1>1, <1>2 DEF ClockHolds, Invocation, Used
      <4>2. /\ invocation' \in Invocation /\ invocation'.pc # "record"
            /\ invocation'.clock = invocation.clock /\ invocation'.began = invocation.began
        BY <1>2, <3>2 DEF Invocation, AtRecord
      <4>3. Used[invocation'.pc] \in Nat
        BY <3>3 DEF Used, SearchTicks, AlarmNotifierAssumption
      <4> QED
        BY <4>1, <4>2, <4>3 DEF ClockHolds
    <3> QED
      BY <1>1, <1>2, <1>3, <2>3, <3>1, <3>2, <3>3, <3>4
         DEF InvocationHolds, AtRecord, EventRecords, IsAlarm, Current, Searching
  <2> QED
    BY <1>2, <2>1, <2>2, <2>3 DEF Invocation
<1> QED
  BY <1>1, <1>4 DEF NotifierInv, EventRecords

LEMMA QueryStartsKeeps ==
    ASSUME AlarmNotifierAssumption, NotifierInv, QueryStarts
    PROVE  NotifierInv'
<1>1. /\ UNCHANGED <<event, toldOf, failures>> /\ event.function = "alarm"
      /\ invocation.pc = "starting" /\ ClockHolds
  BY DEF QueryStarts, NotifierInv, InvocationHolds, Searching, AtRecord
<1>2. PICK time \in CallTimes, pc \in {"polling", "send"} : Spends(time, pc, None)
  BY DEF QueryStarts
<1>3. /\ invocation' \in Invocation /\ invocation'.pc = pc
      /\ invocation'.at = invocation.at /\ invocation'.began = invocation.began
      /\ invocation'.clock = invocation.clock + time
      /\ invocation'.prompt => invocation.prompt /\ time <= CallTicks
  BY <1>1, <1>2, Spent DEF AtRecord
<1>4. ClockHolds'
  BY <1>1, <1>3 DEF ClockHolds, Invocation, Used, SearchTicks, AlarmNotifierAssumption, CallTimes
<1> QED
  BY <1>1, <1>3, <1>4, RecordGoesOn DEF AtRecord, Searching

LEMMA QueryPolledKeeps ==
    ASSUME AlarmNotifierAssumption, NotifierInv, QueryPolled
    PROVE  NotifierInv'
<1>1. /\ UNCHANGED <<event, toldOf, failures>> /\ event.function = "alarm"
      /\ invocation.pc = "polling" /\ ClockHolds
  BY DEF QueryPolled, NotifierInv, InvocationHolds, Searching, AtRecord
<1>2. CASE PastDeadline
  <2>1. invocation' = [invocation EXCEPT !.pc = "stopping"]
    BY <1>2 DEF QueryPolled
  <2>2. ClockHolds' /\ invocation'.pc = "stopping" /\ invocation'.at = invocation.at
    BY <1>1, <2>1 DEF ClockHolds, Invocation, Used, AtRecord
  <2> QED
    BY <1>1, <2>2, RecordGoesOn DEF AtRecord, Searching
<1>3. CASE ~PastDeadline
  <2>1. invocation.clock < invocation.began + WaitTicks
    BY <1>1, <1>3 DEF PastDeadline, ClockHolds, Invocation, AlarmNotifierAssumption
  <2>2. PICK time \in CallTimes :
           \/ \E detail \in DetailLengths \cup {None} : Spends(time, "send", detail)
           \/ Spends(time, "stopping", None)
           \/ invocation' = [invocation EXCEPT !.clock = Woken(@ + time),
                                               !.prompt = @ /\ time <= CallTicks]
    BY <1>3 DEF QueryPolled
  <2>3. CASE invocation' = [invocation EXCEPT !.clock = Woken(@ + time),
                                             !.prompt = @ /\ time <= CallTicks]
    <3>1. (invocation.prompt /\ time <= CallTicks) \in BOOLEAN
      OBVIOUS
    <3>2. invocation'.prompt = (invocation.prompt /\ time <= CallTicks)
      BY <1>1, <2>3, Zenon DEF ClockHolds, Invocation
    <3>3. Woken(invocation.clock + time) \in 0 .. LambdaTicks
      BY <1>1, WakesInTime
    <3>4. invocation' = [invocation EXCEPT !.clock = Woken(invocation.clock + time),
                             !.prompt = (invocation.prompt /\ time <= CallTicks)]
      BY <2>3, Zenon
    <3>5. /\ invocation' \in Invocation /\ invocation'.pc = "polling"
          /\ invocation'.at = invocation.at /\ invocation'.began = invocation.began
          /\ invocation'.clock = Woken(invocation.clock + time)
      BY <1>1, <3>1, <3>3, <3>4 DEF ClockHolds, Invocation
    <3>6. ASSUME invocation'.prompt
          PROVE  invocation'.clock <= invocation'.began + WaitTicks + CallTicks
      <4>1. time <= CallTicks
        BY <3>2, <3>6, Zenon
      <4>2. time \in Int /\ invocation.clock + time <= invocation.began + WaitTicks + CallTicks
        BY <1>1, <2>1, <4>1 DEF ClockHolds, Invocation, AlarmNotifierAssumption, CallTimes
      <4> QED
        BY <1>1, <3>5, <4>2, WakesInTime DEF ClockHolds, Invocation, AlarmNotifierAssumption
    <3>7. ClockHolds'
      BY <3>5, <3>6 DEF ClockHolds, Invocation, Used, AlarmNotifierAssumption
    <3> QED
      BY <1>1, <3>5, <3>7, RecordGoesOn DEF AtRecord, Searching
  <2>4. ASSUME NEW pc \in {"send", "stopping"}, NEW detail \in DetailLengths \cup {None},
               Spends(time, pc, detail)
        PROVE  NotifierInv'
    <3>1. /\ invocation' \in Invocation /\ invocation'.pc = pc
          /\ invocation'.at = invocation.at /\ invocation'.began = invocation.began
          /\ invocation'.clock = invocation.clock + time
          /\ invocation'.prompt => invocation.prompt /\ time <= CallTicks
      BY <1>1, <2>4, Spent DEF AtRecord
    <3>2. ClockHolds'
      BY <1>1, <2>1, <3>1
         DEF ClockHolds, Invocation, Used, SearchTicks, AlarmNotifierAssumption, CallTimes
    <3> QED
      BY <1>1, <3>1, <3>2, RecordGoesOn DEF AtRecord, Searching
  <2> QED
    BY <2>2, <2>3, <2>4
<1> QED
  BY <1>2, <1>3

LEMMA QueryStoppedKeeps ==
    ASSUME AlarmNotifierAssumption, NotifierInv, QueryStopped
    PROVE  NotifierInv'
<1>1. /\ UNCHANGED <<event, toldOf, failures>>
      /\ invocation.pc = "stopping" /\ ClockHolds
  BY DEF QueryStopped, NotifierInv, InvocationHolds, AtRecord
<1>2. PICK time \in CallTimes : Spends(time, "send", None)
  BY DEF QueryStopped
<1>3. /\ invocation' \in Invocation /\ invocation'.pc = "send"
      /\ invocation'.at = invocation.at /\ invocation'.began = invocation.began
      /\ invocation'.clock = invocation.clock + time
      /\ invocation'.prompt => invocation.prompt /\ time <= CallTicks
  BY <1>1, <1>2, Spent DEF AtRecord
<1>4. ClockHolds'
  BY <1>1, <1>3 DEF ClockHolds, Invocation, Used, SearchTicks, AlarmNotifierAssumption, CallTimes
<1> QED
  BY <1>1, <1>3, <1>4, RecordGoesOn DEF AtRecord, Searching

(* What was told stays told when the invocation is repeated. *)
LEMMA InvocationFailsKeeps ==
    ASSUME AlarmNotifierAssumption, NotifierInv, invocation.pc \in AtRecord,
           NEW why \in Whys, NEW prompt \in BOOLEAN, InvocationFails(why, prompt),
           why = "search" /\ prompt => LambdaTicks <= invocation.began + SearchTicks
    PROVE  NotifierInv'
<1>1. invocation.began \in Nat
  BY DEF NotifierInv, InvocationHolds, ClockHolds, Invocation
<1> DEFINE failure == [why |-> why, began |-> invocation.began, prompt |-> prompt]
<1>2. failure \in Failure
  BY <1>1 DEF Failure
<1>3. UNCHANGED <<event, toldOf>> /\ failures' = Append(failures, failure)
  BY DEF InvocationFails
<1> HIDE DEF failure
<1>4. failures' \in Seq(Failure)
  BY <1>2, <1>3 DEF NotifierInv
<1>5. \/ invocation' = Running(1, 0)
      \/ invocation'.pc = "lost"
  BY DEF InvocationFails
<1>6. EventRecords = 1 .. Len(event.records) /\ Len(event.records) \in Nat
  BY DEF NotifierInv, EventRecords
<1>7. InvocationHolds'
  <2>1. CASE invocation' = Running(1, 0)
    <3>1. ClockHolds' /\ invocation'.pc = "record" /\ invocation'.at = 1
      BY <2>1 DEF ClockHolds, Invocation, Used, Running, AlarmNotifierAssumption
    <3> QED
      BY <1>3, <1>6, <3>1 DEF InvocationHolds, AtRecord, EventRecords, Searching
  <2>2. CASE invocation'.pc = "lost"
    BY <2>2 DEF InvocationHolds, AtRecord, Searching
  <2> QED
    BY <1>5, <2>1, <2>2
<1> QED
  BY <1>3, <1>4, <1>7 DEF NotifierInv, EventRecords

LEMMA PipelineReadKeeps ==
    ASSUME AlarmNotifierAssumption, NotifierInv, PipelineRead
    PROVE  NotifierInv'
<1>1. invocation.pc = "reading" /\ ClockHolds
  BY DEF PipelineRead, NotifierInv, InvocationHolds, AtRecord
<1>2. CASE InvocationFails("pipeline", invocation.prompt)
  BY <1>1, <1>2, InvocationFailsKeeps DEF Whys, AtRecord, ClockHolds, Invocation
<1>3. CASE /\ \E time \in CallTimes : Spends(time, "send", None)
           /\ UNCHANGED <<event, toldOf, failures>>
  <2>1. PICK time \in CallTimes : Spends(time, "send", None)
    BY <1>3
  <2>2. /\ invocation' \in Invocation /\ invocation'.pc = "send"
        /\ invocation'.at = invocation.at /\ invocation'.began = invocation.began
        /\ invocation'.clock = invocation.clock + time
        /\ invocation'.prompt => invocation.prompt /\ time <= CallTicks
    BY <1>1, <2>1, Spent DEF AtRecord
  <2>3. ClockHolds'
    BY <1>1, <2>2 DEF ClockHolds, Invocation, Used, SearchTicks, AlarmNotifierAssumption, CallTimes
  <2> QED
    BY <1>1, <1>3, <2>2, <2>3, RecordGoesOn DEF AtRecord, Searching
<1> QED
  BY <1>2, <1>3 DEF PipelineRead

LEMMA LambdaTimesOutKeeps ==
    ASSUME AlarmNotifierAssumption, NotifierInv, LambdaTimesOut
    PROVE  NotifierInv'
<1> DEFINE inTime == invocation.prompt /\ LambdaTicks <= invocation.clock + CallTicks
           why == IF invocation.pc \in Searching THEN "search" ELSE "timeout"
<1>1. invocation.pc \in AtRecord /\ ClockHolds
  BY DEF LambdaTimesOut, NotifierInv, InvocationHolds, AtRecord, Searching
<1>2. InvocationFails(why, inTime)
  BY DEF LambdaTimesOut
<1>3. inTime \in BOOLEAN
  OBVIOUS
<1>4. ASSUME why = "search", inTime
      PROVE  LambdaTicks <= invocation.began + SearchTicks
  <2>1. invocation.pc \in Searching /\ invocation.prompt
    BY <1>4
  <2>2. LambdaTicks <= invocation.clock + CallTicks
    BY <1>4
  <2>3. invocation.clock <= invocation.began + WaitTicks + CallTicks
    BY <1>1, <2>1 DEF Searching, ClockHolds, Invocation, Used, AlarmNotifierAssumption
  <2> QED
    BY <1>1, <2>2, <2>3 DEF ClockHolds, Invocation, SearchTicks, AlarmNotifierAssumption
<1>5. why \in Whys
  BY DEF Whys
<1> HIDE DEF inTime, why
<1> QED
  BY <1>1, <1>2, <1>3, <1>4, <1>5, InvocationFailsKeeps

LEMMA SomethingAppended ==
    ASSUME NEW S, NEW told \in Seq(S), NEW length \in S
    PROVE  Append(told, length) # <<>>
<1>1. Len(Append(told, length)) = Len(told) + 1 /\ Len(told) \in Nat
  OBVIOUS
<1>2. ASSUME Append(told, length) = <<>> PROVE Len(Append(told, length)) = 0
  BY <1>2
<1> QED
  BY <1>1, <1>2

LEMMA SendDoneKeeps ==
    ASSUME AlarmNotifierAssumption, NotifierInv, SendDone
    PROVE  NotifierInv'
<1>1. /\ UNCHANGED <<event, failures>>
      /\ invocation.pc = "send" /\ invocation.at \in EventRecords
      /\ ClockHolds /\ invocation.at \in Nat \ {0}
      /\ toldOf' = [toldOf EXCEPT ![invocation.at] = Append(@, ContentLength)]
  BY DEF SendDone, NotifierInv, InvocationHolds, AtRecord, ClockHolds, Invocation
<1>2. ContentLength \in 0 .. ContentLimit
  <2>1. CASE event.function = "alarm"
    <3>1. Current \in Alarms /\ IsAlarm(Current)
      BY <1>1, <2>1 DEF NotifierInv, InvocationHolds, AtRecord, Current, EventRecords
    <3>2. invocation.detail \in DetailLengths \cup {None}
      BY <1>1 DEF ClockHolds, Invocation
    <3> QED
      BY <2>1, <3>1, <3>2, ContentFits DEF ContentLength
  <2>2. CASE event.function # "alarm"
    BY <2>2 DEF ContentLength, AlarmNotifierAssumption
  <2> QED
    BY <2>1, <2>2
<1>3. toldOf[invocation.at] \in Seq(0 .. ContentLimit)
  BY <1>1 DEF NotifierInv
<1>4. Append(toldOf[invocation.at], ContentLength) \in Seq(0 .. ContentLimit)
  BY <1>2, <1>3
<1>5. toldOf' \in [EventRecords -> Seq(0 .. ContentLimit)]
  BY <1>1, <1>4 DEF NotifierInv
<1>6. Append(toldOf[invocation.at], ContentLength) # <<>>
  BY <1>2, <1>3, SomethingAppended
<1>7. toldOf'[invocation.at] # <<>>
  BY <1>1, <1>6 DEF NotifierInv
<1>8. ClockHolds' /\ invocation'.pc = "record" /\ invocation'.at = invocation.at + 1
  <2>1. PICK time \in CallTimes : invocation' = Running(invocation.at + 1, invocation.clock + time)
    BY DEF SendDone
  <2>2. invocation.clock + time \in 0 .. LambdaTicks
    BY <1>1 DEF CallTimes, ClockHolds, Invocation, AlarmNotifierAssumption
  <2> QED
    BY <1>1, <2>1, <2>2 DEF ClockHolds, Invocation, Used, Running
<1>9. \A r \in EventRecords : r < invocation.at + 1 => Told(r)'
  <2>1. ASSUME NEW r \in EventRecords, r < invocation.at + 1 PROVE Told(r)'
    <3>1. CASE r = invocation.at
      BY <1>7, <3>1 DEF Told
    <3>2. CASE r # invocation.at
      <4>1. r \in Nat
        BY DEF NotifierInv, EventRecords
      <4>2. Told(r) /\ toldOf'[r] = toldOf[r]
        BY <1>1, <2>1, <3>2, <4>1 DEF NotifierInv, InvocationHolds, AtRecord
      <4> QED
        BY <1>1, <4>2 DEF Told
    <3> QED
      BY <3>1, <3>2
  <2> QED
    BY <2>1
<1>10. InvocationHolds'
  BY <1>1, <1>8, <1>9 DEF InvocationHolds, AtRecord, EventRecords, Searching
<1> QED
  BY <1>1, <1>5, <1>10 DEF NotifierInv, EventRecords

LEMMA NotifierStarts ==
    ASSUME AlarmNotifierAssumption, AlarmNotifierInit
    PROVE  NotifierInv
<1>1. ClockHolds /\ invocation.pc = "record" /\ invocation.at = 1
  BY DEF AlarmNotifierInit, Running, ClockHolds, Invocation, Used, AlarmNotifierAssumption
<1>2. \/ event.function = "alarm" /\ event.records \in SeqOf(Alarms, RecordLimit)
      \/ event.function = "delivery" /\ event.records \in SeqOf(Deliveries, RecordLimit)
  BY DEF AlarmNotifierInit
<1>3. \/ event.function = "alarm" /\ event.records \in Seq(Alarms)
      \/ event.function = "delivery" /\ event.records \in Seq(Deliveries)
  BY <1>2 DEF SeqOf
<1>4. event.records \in Seq(Alarms \cup Deliveries)
  BY <1>3
<1>5. EventRecords = 1 .. Len(event.records) /\ Len(event.records) \in Nat
  BY <1>4 DEF EventRecords
<1>6. InvocationHolds
  BY <1>1, <1>5 DEF InvocationHolds, AtRecord, Searching
<1>7. toldOf \in [EventRecords -> Seq(0 .. ContentLimit)] /\ failures \in Seq(Failure)
  BY DEF AlarmNotifierInit
<1> QED
  BY <1>3, <1>4, <1>6, <1>7 DEF NotifierInv

LEMMA NotifierStep ==
    ASSUME AlarmNotifierAssumption, NotifierInv, [AlarmNotifierNext]_notifierVars
    PROVE  NotifierInv'
<1>1. CASE UNCHANGED notifierVars
  BY <1>1 DEF notifierVars, NotifierInv, InvocationHolds, EventRecords, Told, Current, ClockHolds
<1>2. CASE SendFails
  <2>1. invocation.pc = "send" /\ ClockHolds
    BY <1>2 DEF SendFails, NotifierInv, InvocationHolds, AtRecord
  <2> QED
    BY <1>2, <2>1, InvocationFailsKeeps DEF SendFails, Whys, AtRecord, ClockHolds, Invocation
<1>3. CASE AlarmNotifierNext
  BY <1>2, <1>3, NextRecordKeeps, QueryStartsKeeps, QueryPolledKeeps, QueryStoppedKeeps,
     PipelineReadKeeps, SendDoneKeeps, LambdaTimesOutKeeps DEF AlarmNotifierNext
<1> QED
  BY <1>1, <1>3

(* The invariant of an invocation, on which the theorem below rests. *)
THEOREM NotifierInvariance == AlarmNotifierSpec => []NotifierInv
  BY AlarmNotifierAssumption, NotifierStarts, NotifierStep, PTL DEF AlarmNotifierSpec

(* The search fails no invocation by an error; its calls being prompt, it hands
   the alarm on within SearchTicks and can run the function out of time only if
   less than that was left when it began; an invocation that ends has told every
   alarm, and every message fits.  (_recent_error, _best_effort_stop,
   alarm_message, handler)                                                    *)
THEOREM SearchInItsTime == AlarmNotifierSpec => []SearchLeavesTime
<1>1. NotifierInv => SearchLeavesTime
  <2> SUFFICES ASSUME NotifierInv PROVE SearchLeavesTime
    OBVIOUS
  <2>1. ASSUME NEW i \in DOMAIN failures
        PROVE  /\ failures[i].why \in {"delivery", "pipeline", "timeout", "search"}
               /\ failures[i].why = "search" /\ failures[i].prompt =>
                     LambdaTicks <= failures[i].began + SearchTicks
    <3>1. failures[i] \in Failure
      BY <2>1 DEF NotifierInv
    <3> QED
      BY <3>1 DEF Failure, Whys
  <2>2. invocation.pc = "send" /\ invocation.prompt =>
            invocation.clock <= invocation.began + SearchTicks
    BY DEF NotifierInv, InvocationHolds, ClockHolds, Used, AtRecord
  <2>3. \A r \in EventRecords : \A i \in DOMAIN toldOf[r] : toldOf[r][i] <= ContentLimit
    BY AlarmNotifierAssumption DEF NotifierInv, AlarmNotifierAssumption
  <2> QED
    BY <2>1, <2>2, <2>3 DEF NotifierInv, InvocationHolds, Told, SearchLeavesTime
<1> QED
  BY <1>1, NotifierInvariance, PTL

-----------------------------------------------------------------------------
(* The release                                                               *)

BundleFields == {"manifest", "summary", "approval", "adapter", "members", "intact"}
ManifestFields == {"schema", "devId", "stamp", "mode", "stage", "base", "adapter", "dataset",
                   "summary", "approval"}

InputHolds ==
    /\ relInput.mode \in {"lora", "base"} /\ relInput.stage \in {"dev", "verified"}
    /\ relInput.stage = "dev" => relInput.evaluation = NoFile /\ relInput.approval = NoFile
    /\ relInput.training # NoFile => relInput.training.adapter \in Adapter

(* A bundle that nobody edited passes the publisher's inspection. *)
DeskHolds(p) ==
    relDesk[p] # NoFile =>
        /\ DOMAIN relDesk[p] = BundleFields
        /\ DOMAIN relDesk[p].manifest = ManifestFields
        /\ relDesk[p].intact =>
              /\ Inspects(relDesk[p])
              /\ relDesk[p].manifest.mode = relInput.mode
              /\ relDesk[p].manifest.stage = relInput.stage

(* A publisher puts what it inspected, and the manifest after its own bundle. *)
AtManifest == {"headManifest", "putManifest", "verifyManifest"}
AtObject == {"headBundle", "putBundle", "verifyBundle"} \cup AtManifest
PublishHolds(p) ==
    /\ relPub[p] \in AtObject => Inspects(relDesk[p])
    /\ relPub[p] \in AtManifest => relBucket.bundle = {BundleObject(relDesk[p])}

(* The two objects of the bucket are of one bundle that was inspected. *)
BucketHolds ==
    /\ DOMAIN relBucket = {"bundle", "manifest"}
    /\ \A b \in relBucket.bundle : b.sha = b.body /\ Inspects(b.body)
    /\ relBucket.manifest # {} => relBucket.bundle # {}
    /\ \A m \in relBucket.manifest, b \in relBucket.bundle : m.body = b.body.manifest

(* A Pod was created with the checksum of an inspected bundle and its manifest,
   and what it unpacks is that bundle.                                       *)
BootHolds ==
    /\ DOMAIN relBoot = {"pc", "release", "count"}
    /\ relBoot.pc # "off" =>
          Inspects(relReview.sha) /\ relReview.manifest = relReview.sha.manifest
    /\ relBoot.pc \in {"unpacked", "served"} => relBoot.release = relReview.sha

ReleaseInv ==
    /\ InputHolds
    /\ DOMAIN relDesk = Publisher /\ DOMAIN relPub = Publisher
    /\ \A p \in Publisher : DeskHolds(p) /\ PublishHolds(p)
    /\ BucketHolds
    /\ BootHolds

LEMMA ReleaseStarts == SllmReleaseInit => ReleaseInv
<1> SUFFICES ASSUME SllmReleaseInit PROVE ReleaseInv
  OBVIOUS
<1>1. InputHolds
  BY DEF SllmReleaseInit, InputHolds, Training
<1>2. BootHolds
  BY DEF SllmReleaseInit, BootHolds
<1>3. BucketHolds
  BY DEF SllmReleaseInit, BucketHolds
<1> QED
  BY <1>1, <1>2, <1>3
     DEF SllmReleaseInit, ReleaseInv, DeskHolds, PublishHolds, AtObject, AtManifest

------------------------------------------------------------------------------
(* The packager's checks imply the publisher's.                              *)

LEMMA ManifestIs ==
    ASSUME NEW in, NEW stamp
    PROVE  LET m == ManifestOf(in, stamp) IN
           /\ DOMAIN m = ManifestFields
           /\ m.schema = 2 /\ m.devId = in.devId /\ m.mode = in.mode /\ m.stage = in.stage
           /\ m.base = BaseOf(in) /\ m.dataset = in.dataset
           /\ m.summary = in.evaluation /\ m.approval = in.approval
           /\ m.adapter = IF in.mode = "lora" THEN in.training.adapter ELSE NoFile
  BY DEF ManifestOf, ManifestFields

LEMMA BundleIs ==
    ASSUME NEW in, NEW stamp
    PROVE  LET b == BundleOf(in, stamp) IN
           /\ DOMAIN b = BundleFields
           /\ b.manifest = ManifestOf(in, stamp)
           /\ b.summary = in.evaluation /\ b.approval = in.approval
           /\ b.adapter = b.manifest.adapter /\ b.members = "plain"
  BY DEF BundleOf, BundleFields

(* The model that the approval names is the one that is packaged. *)
LEMMA SelectedIsPackaged ==
    ASSUME NEW in, Packages(in), in.stage = "verified", in.mode \in {"lora", "base"}
    PROVE  LET x == Selected(in.evaluation, in.approval.selected) IN
           /\ x \in in.evaluation.models /\ x.label = in.approval.selected
           /\ x.model = BaseOf(in)
           /\ x.adapter = IF in.mode = "lora" THEN in.training.adapter ELSE NoFile
<1> DEFINE x == Selected(in.evaluation, in.approval.selected)
<1>1. EvaluationAccepted(in) /\ ApprovalAccepted(in)
  BY DEF Packages
<1>2. x \in in.evaluation.models /\ x.label = in.approval.selected
  BY <1>1 DEF ApprovalAccepted, Selected
<1>3. CASE in.mode = "lora"
  <2>1. x.model = in.training.model /\ x.adapter = in.training.adapter
    BY <1>3 DEF Packages, TrainingAccepted
  <2> QED
    BY <1>2, <1>3, <2>1 DEF BaseOf
<1>4. CASE in.mode = "base"
  <2>1. x.adapter = NoFile
    BY <1>1, <1>2, <1>4 DEF EvaluationAccepted
  <2> QED
    BY <1>2, <1>4, <2>1 DEF BaseOf
<1> QED
  BY <1>3, <1>4

LEMMA PackagedInspects ==
    ASSUME SllmReleaseAssumption, InputHolds, Packages(relInput), NEW stamp
    PROVE  Inspects(BundleOf(relInput, stamp))
<1> DEFINE b == BundleOf(relInput, stamp)
           m == ManifestOf(relInput, stamp)
<1>1. /\ m.schema = 2 /\ m.devId = relInput.devId /\ m.mode = relInput.mode
      /\ m.stage = relInput.stage /\ m.base = BaseOf(relInput) /\ m.dataset = relInput.dataset
      /\ m.summary = relInput.evaluation /\ m.approval = relInput.approval
      /\ m.adapter = IF relInput.mode = "lora" THEN relInput.training.adapter ELSE NoFile
  BY ManifestIs
<1>2. /\ b.manifest = m /\ b.summary = relInput.evaluation /\ b.approval = relInput.approval
      /\ b.adapter = m.adapter /\ b.members = "plain"
  BY BundleIs
<1> HIDE DEF b, m
<1>3. /\ relInput.stage = "dev" => relInput.devId
      /\ relInput.mode = "lora" <=> relInput.training # NoFile
      /\ relInput.stage = "verified" <=> relInput.evaluation # NoFile
      /\ relInput.stage = "verified" <=> relInput.approval # NoFile
  BY DEF Packages
<1>4. ManifestValid(m)
  BY <1>1, <1>3 DEF ManifestValid, InputHolds, SllmReleaseAssumption
<1>5. relInput.stage = "verified" => PromotionHolds(b)
  <2> SUFFICES ASSUME relInput.stage = "verified" PROVE PromotionHolds(b)
    OBVIOUS
  <2>1. EvaluationAccepted(relInput) /\ ApprovalAccepted(relInput)
    BY DEF Packages
  <2>2. relInput.mode \in {"lora", "base"}
    BY DEF InputHolds
  <2> DEFINE x == Selected(relInput.evaluation, relInput.approval.selected)
  <2>3. /\ x \in relInput.evaluation.models /\ x.label = relInput.approval.selected
        /\ x.model = BaseOf(relInput)
        /\ x.adapter = IF relInput.mode = "lora" THEN relInput.training.adapter ELSE NoFile
    BY <2>2, SelectedIsPackaged
  <2>4. Selected(b.summary, b.approval.selected) = x
    BY <1>2
  <2> HIDE DEF x
  <2> QED
    BY <1>1, <1>2, <2>1, <2>3, <2>4 DEF PromotionHolds, EvaluationAccepted, ApprovalAccepted
<1>6. Inspects(b)
  BY <1>1, <1>2, <1>3, <1>4, <1>5 DEF Inspects, InputHolds
<1> QED
  BY <1>6 DEF b

(* The same bundle in the first schema is inspected for less. *)
LEMMA LegacyInspects ==
    ASSUME NEW b, NEW c, Inspects(b), DOMAIN b = BundleFields,
           DOMAIN b.manifest = ManifestFields,
           c = [b EXCEPT !.manifest.schema = 1],
           b.manifest.mode = "lora", b.manifest.stage = "verified"
    PROVE  /\ Inspects(c) /\ DOMAIN c = BundleFields /\ DOMAIN c.manifest = ManifestFields
           /\ c.manifest.mode = b.manifest.mode /\ c.manifest.stage = b.manifest.stage
<1>1. /\ DOMAIN c = BundleFields
      /\ c.manifest = [b.manifest EXCEPT !.schema = 1]
      /\ c.summary = b.summary /\ c.approval = b.approval /\ c.adapter = b.adapter
      /\ c.members = b.members
  BY DEF BundleFields
<1> DEFINE m == c.manifest
<1>2. /\ DOMAIN m = ManifestFields /\ m.schema = 1
      /\ m.devId = b.manifest.devId /\ m.mode = b.manifest.mode /\ m.stage = b.manifest.stage
      /\ m.base = b.manifest.base /\ m.adapter = b.manifest.adapter
      /\ m.dataset = b.manifest.dataset /\ m.summary = b.manifest.summary
      /\ m.approval = b.manifest.approval
  BY <1>1 DEF ManifestFields
<1> HIDE DEF m
<1>3. ManifestValid(m)
  BY <1>2 DEF Inspects, ManifestValid
<1>4. PromotionHolds(c)
  <2>1. PromotionHolds(b)
    BY DEF Inspects
  <2> QED
    BY <1>1, <1>2, <2>1 DEF PromotionHolds, m
<1>5. Inspects(c)
  BY <1>1, <1>2, <1>3, <1>4 DEF Inspects, m
<1> QED
  BY <1>1, <1>2, <1>5 DEF m

------------------------------------------------------------------------------
(* The publishers' disks.                                                    *)

LEMMA DeskStep ==
    ASSUME ReleaseInv, NEW p \in Publisher, NEW bundle,
           relPub[p] = "idle", relDesk' = [relDesk EXCEPT ![p] = bundle],
           UNCHANGED <<relInput, relPub, relBucket, relReview, relDisk, relBoot>>,
           DeskHolds(p)'
    PROVE  ReleaseInv'
<1>1. InputHolds' /\ BucketHolds' /\ BootHolds'
  BY DEF ReleaseInv, InputHolds, BucketHolds, BootHolds
<1>2. ASSUME NEW q \in Publisher PROVE DeskHolds(q)' /\ PublishHolds(q)'
  BY DEF ReleaseInv, DeskHolds, PublishHolds, AtObject, AtManifest
<1> QED
  BY <1>1, <1>2 DEF ReleaseInv

LEMMA PackageReleaseKeeps ==
    ASSUME SllmReleaseAssumption, ReleaseInv, NEW p \in Publisher, PackageRelease(p)
    PROVE  ReleaseInv'
<1>1. PICK stamp : relDesk' = [relDesk EXCEPT ![p] = BundleOf(relInput, stamp)]
  BY DEF PackageRelease
<1> DEFINE b == BundleOf(relInput, stamp)
<1>2. Inspects(b)
  BY PackagedInspects DEF PackageRelease, ReleaseInv
<1>3. /\ DOMAIN b = BundleFields /\ b.manifest = ManifestOf(relInput, stamp)
      /\ DOMAIN b.manifest = ManifestFields
      /\ b.manifest.mode = relInput.mode /\ b.manifest.stage = relInput.stage
  BY BundleIs, ManifestIs
<1>4. relDesk'[p] = b /\ relInput' = relInput
  BY <1>1 DEF ReleaseInv, PackageRelease
<1> HIDE DEF b
<1>5. DeskHolds(p)'
  BY <1>2, <1>3, <1>4 DEF DeskHolds
<1> QED
  BY <1>1, <1>5, DeskStep DEF PackageRelease

LEMMA LegacyBundleKeeps ==
    ASSUME ReleaseInv, NEW p \in Publisher, LegacyBundle(p)
    PROVE  ReleaseInv'
<1> DEFINE c == [relDesk[p] EXCEPT !.manifest.schema = 1]
<1>1. relDesk' = [relDesk EXCEPT ![p] = c]
  BY DEF LegacyBundle, ReleaseInv
<1>2. relDesk[p] # NoFile /\ relInput.stage = "verified" /\ relInput.mode = "lora"
  BY DEF LegacyBundle
<1>3. /\ DOMAIN relDesk[p] = BundleFields /\ DOMAIN relDesk[p].manifest = ManifestFields
      /\ relDesk[p].intact =>
            /\ Inspects(relDesk[p])
            /\ relDesk[p].manifest.mode = "lora" /\ relDesk[p].manifest.stage = "verified"
  BY <1>2 DEF ReleaseInv, DeskHolds
<1>4. /\ DOMAIN c = BundleFields /\ DOMAIN c.manifest = ManifestFields
      /\ c.intact = relDesk[p].intact
  BY <1>3 DEF BundleFields, ManifestFields
<1>5. c.intact => /\ Inspects(c)
                  /\ c.manifest.mode = "lora" /\ c.manifest.stage = "verified"
  BY <1>3, <1>4, LegacyInspects
<1>6. relDesk'[p] = c /\ relInput' = relInput
  BY <1>1 DEF ReleaseInv, LegacyBundle
<1> HIDE DEF c
<1>7. DeskHolds(p)'
  BY <1>2, <1>4, <1>5, <1>6 DEF DeskHolds
<1> QED
  BY <1>1, <1>7, DeskStep DEF LegacyBundle

LEMMA DamageBundleKeeps ==
    ASSUME ReleaseInv, NEW p \in Publisher, DamageBundle(p)
    PROVE  ReleaseInv'
<1>1. DOMAIN relDesk[p] = BundleFields /\ DOMAIN relDesk[p].manifest = ManifestFields
  BY DEF DamageBundle, ReleaseInv, DeskHolds
<1>2. ASSUME NEW c, relDesk' = [relDesk EXCEPT ![p] = c], DOMAIN c = BundleFields,
             c.manifest = relDesk[p].manifest, c.intact = FALSE
      PROVE  ReleaseInv'
  <2>1. relDesk'[p] = c
    BY <1>2 DEF ReleaseInv
  <2>2. DeskHolds(p)'
    BY <1>1, <1>2, <2>1 DEF DeskHolds
  <2> QED
    BY <1>2, <2>2, DeskStep DEF DamageBundle
<1>3. ASSUME NEW a, relDesk' = [relDesk EXCEPT ![p].adapter = a, ![p].intact = FALSE]
      PROVE  ReleaseInv'
  <2> DEFINE c == [relDesk[p] EXCEPT !.adapter = a, !.intact = FALSE]
  <2>1. DOMAIN c = BundleFields /\ c.manifest = relDesk[p].manifest /\ c.intact = FALSE
    BY <1>1 DEF BundleFields
  <2>2. relDesk' = [relDesk EXCEPT ![p] = c]
    BY <1>3 DEF ReleaseInv
  <2> HIDE DEF c
  <2> QED
    BY <1>2, <2>1, <2>2
<1>4. ASSUME relDesk' = [relDesk EXCEPT ![p].summary = NoFile, ![p].intact = FALSE]
      PROVE  ReleaseInv'
  <2> DEFINE c == [relDesk[p] EXCEPT !.summary = NoFile, !.intact = FALSE]
  <2>1. DOMAIN c = BundleFields /\ c.manifest = relDesk[p].manifest /\ c.intact = FALSE
    BY <1>1 DEF BundleFields
  <2>2. relDesk' = [relDesk EXCEPT ![p] = c]
    BY <1>4 DEF ReleaseInv
  <2> HIDE DEF c
  <2> QED
    BY <1>2, <2>1, <2>2
<1>5. ASSUME relDesk' = [relDesk EXCEPT ![p].members = "link", ![p].intact = FALSE]
      PROVE  ReleaseInv'
  <2> DEFINE c == [relDesk[p] EXCEPT !.members = "link", !.intact = FALSE]
  <2>1. DOMAIN c = BundleFields /\ c.manifest = relDesk[p].manifest /\ c.intact = FALSE
    BY <1>1 DEF BundleFields
  <2>2. relDesk' = [relDesk EXCEPT ![p] = c]
    BY <1>5 DEF ReleaseInv
  <2> HIDE DEF c
  <2> QED
    BY <1>2, <2>1, <2>2
<1> QED
  BY <1>3, <1>4, <1>5 DEF DamageBundle

------------------------------------------------------------------------------
(* Publishing.                                                               *)

(* A publisher goes on and leaves the bucket as it is. *)
LEMMA PubStep ==
    ASSUME ReleaseInv, NEW p \in Publisher, NEW pc, relPub' = [relPub EXCEPT ![p] = pc],
           UNCHANGED <<relInput, relDesk, relBucket, relReview, relDisk, relBoot>>,
           pc \in AtObject => Inspects(relDesk[p]),
           pc \in AtManifest => relBucket.bundle = {BundleObject(relDesk[p])}
    PROVE  ReleaseInv'
<1>1. InputHolds' /\ BucketHolds' /\ BootHolds'
  BY DEF ReleaseInv, InputHolds, BucketHolds, BootHolds
<1>2. ASSUME NEW q \in Publisher PROVE DeskHolds(q)' /\ PublishHolds(q)'
  BY DEF ReleaseInv, DeskHolds, PublishHolds
<1> QED
  BY <1>1, <1>2 DEF ReleaseInv

LEMMA StartPublishKeeps ==
    ASSUME ReleaseInv, NEW p \in Publisher, StartPublish(p)
    PROVE  ReleaseInv'
  BY PubStep DEF StartPublish, AtManifest

LEMMA PublishAgainKeeps ==
    ASSUME ReleaseInv, NEW p \in Publisher, PublishAgain(p)
    PROVE  ReleaseInv'
<1>1. InputHolds' /\ BucketHolds' /\ BootHolds'
  BY DEF PublishAgain, ReleaseInv, InputHolds, BucketHolds, BootHolds
<1>2. /\ DOMAIN relDesk' = Publisher /\ DOMAIN relPub' = Publisher
      /\ relPub'[p] = "idle" /\ relDesk'[p] \in {relDesk[p], NoFile}
      /\ \A q \in Publisher : q # p => relDesk'[q] = relDesk[q] /\ relPub'[q] = relPub[q]
      /\ UNCHANGED <<relInput, relBucket>>
  BY DEF PublishAgain, ReleaseInv
<1>3. ASSUME NEW q \in Publisher PROVE DeskHolds(q)' /\ PublishHolds(q)'
  BY <1>2 DEF ReleaseInv, DeskHolds, PublishHolds, AtObject, AtManifest
<1> QED
  BY <1>1, <1>2, <1>3 DEF ReleaseInv

(* The looks at an object: only a publisher whose own bundle is there goes on to
   the manifest.                                                             *)
LEMMA LooksKeep ==
    ASSUME ReleaseInv, NEW p \in Publisher,
           \/ HeadObject(p, "bundle", "headBundle", "putBundle", "headManifest")
           \/ VerifyObject(p, "bundle", "verifyBundle", "headManifest")
           \/ HeadObject(p, "manifest", "headManifest", "putManifest", "idle")
           \/ VerifyObject(p, "manifest", "verifyManifest", "idle")
    PROVE  ReleaseInv'
<1>1. UNCHANGED <<relInput, relDesk, relBucket, relReview, relDisk, relBoot>>
  BY DEF HeadObject, VerifyObject
<1>2. relPub[p] \in AtObject /\ Inspects(relDesk[p])
  BY DEF HeadObject, VerifyObject, ReleaseInv, PublishHolds, AtObject, AtManifest
<1>3. CASE \/ HeadObject(p, "bundle", "headBundle", "putBundle", "headManifest")
           \/ VerifyObject(p, "bundle", "verifyBundle", "headManifest")
  <2>1. PICK pc \in {"putBundle", "headManifest", "refused"} :
          /\ relPub' = [relPub EXCEPT ![p] = pc]
          /\ pc = "headManifest" => relBucket["bundle"] = {ObjectOf(p, "bundle")}
    BY <1>3 DEF HeadObject, VerifyObject
  <2>2. pc \in AtManifest => relBucket.bundle = {BundleObject(relDesk[p])}
    BY <2>1 DEF AtManifest, ObjectOf
  <2> QED
    BY <1>1, <1>2, <2>1, <2>2, PubStep
<1>4. CASE \/ HeadObject(p, "manifest", "headManifest", "putManifest", "idle")
           \/ VerifyObject(p, "manifest", "verifyManifest", "idle")
  <2>1. relPub[p] \in AtManifest
    BY <1>4 DEF HeadObject, VerifyObject, AtManifest
  <2>2. relBucket.bundle = {BundleObject(relDesk[p])}
    BY <2>1 DEF ReleaseInv, PublishHolds
  <2>3. \E pc : relPub' = [relPub EXCEPT ![p] = pc]
    BY <1>4 DEF HeadObject, VerifyObject
  <2> QED
    BY <1>1, <1>2, <2>2, <2>3, PubStep
<1> QED
  BY <1>3, <1>4

(* A bundle is put only where none is, so no manifest is there either. *)
LEMMA PutBundleKeeps ==
    ASSUME ReleaseInv, NEW p \in Publisher, PutObject(p, "bundle", "putBundle", "verifyBundle")
    PROVE  ReleaseInv'
<1>1. relPub[p] = "putBundle" /\ Inspects(relDesk[p])
  BY DEF PutObject, ReleaseInv, PublishHolds, AtObject
<1>2. UNCHANGED <<relInput, relDesk, relReview, relDisk, relBoot>>
  BY DEF PutObject
<1>3. CASE relBucket["bundle"] # {}
  <2>1. relPub' = [relPub EXCEPT ![p] = "refused"] /\ UNCHANGED relBucket
    BY <1>3 DEF PutObject, MayPut
  <2> QED
    BY <1>2, <2>1, PubStep DEF AtObject, AtManifest
<1>4. CASE relBucket["bundle"] = {}
  <2>1. PICK pc \in {"verifyBundle", "refused"} : relPub' = [relPub EXCEPT ![p] = pc]
    BY <1>4 DEF PutObject, MayPut
  <2>2. relBucket' = [relBucket EXCEPT !["bundle"] = {BundleObject(relDesk[p])}]
    BY <1>4 DEF PutObject, MayPut, ObjectOf
  <2>3. /\ DOMAIN relBucket' = {"bundle", "manifest"}
        /\ relBucket'.bundle = {BundleObject(relDesk[p])}
        /\ relBucket'.manifest = relBucket.manifest /\ relBucket.manifest = {}
    BY <1>4, <2>2 DEF ReleaseInv, BucketHolds
  <2>4. BundleObject(relDesk[p]).sha = relDesk[p] /\ BundleObject(relDesk[p]).body = relDesk[p]
    BY DEF BundleObject
  <2>5. BucketHolds'
    BY <1>1, <2>3, <2>4 DEF BucketHolds
  <2>6. InputHolds' /\ BootHolds'
    BY <1>2 DEF ReleaseInv, InputHolds, BootHolds
  <2>7. ASSUME NEW q \in Publisher PROVE DeskHolds(q)' /\ PublishHolds(q)'
    <3>1. relPub[q] \notin AtManifest
      <4>1. ASSUME relPub[q] \in AtManifest PROVE relBucket.bundle # {}
        BY <4>1 DEF ReleaseInv, PublishHolds
      <4> QED
        BY <1>4, <4>1
    <3>2. relPub'[q] = IF q = p THEN pc ELSE relPub[q]
      BY <2>1 DEF ReleaseInv
    <3>3. relPub'[q] \notin AtManifest
      BY <2>1, <3>1, <3>2 DEF AtManifest
    <3>4. relPub'[q] \in AtObject => Inspects(relDesk[q])
      BY <1>1, <3>2 DEF ReleaseInv, PublishHolds
    <3> QED
      BY <1>2, <3>3, <3>4 DEF ReleaseInv, DeskHolds, PublishHolds
  <2>8. DOMAIN relPub' = Publisher /\ DOMAIN relDesk' = Publisher
    BY <1>2, <2>1 DEF ReleaseInv
  <2> QED
    BY <2>5, <2>6, <2>7, <2>8 DEF ReleaseInv
<1> QED
  BY <1>3, <1>4

(* A manifest is put next to its own bundle. *)
LEMMA PutManifestKeeps ==
    ASSUME ReleaseInv, NEW p \in Publisher,
           PutObject(p, "manifest", "putManifest", "verifyManifest")
    PROVE  ReleaseInv'
<1>1. relPub[p] = "putManifest" /\ Inspects(relDesk[p])
      /\ relBucket.bundle = {BundleObject(relDesk[p])}
  BY DEF PutObject, ReleaseInv, PublishHolds, AtObject, AtManifest
<1>2. UNCHANGED <<relInput, relDesk, relReview, relDisk, relBoot>>
  BY DEF PutObject
<1>3. CASE relBucket["manifest"] # {}
  <2>1. relPub' = [relPub EXCEPT ![p] = "refused"] /\ UNCHANGED relBucket
    BY <1>3 DEF PutObject, MayPut
  <2> QED
    BY <1>2, <2>1, PubStep DEF AtObject, AtManifest
<1>4. CASE relBucket["manifest"] = {}
  <2>1. PICK pc \in {"verifyManifest", "refused"} : relPub' = [relPub EXCEPT ![p] = pc]
    BY <1>4 DEF PutObject, MayPut
  <2>2. relBucket' = [relBucket EXCEPT !["manifest"] = {ManifestObject(relDesk[p])}]
    BY <1>4 DEF PutObject, MayPut, ObjectOf
  <2>3. /\ DOMAIN relBucket' = {"bundle", "manifest"}
        /\ relBucket'.bundle = relBucket.bundle
        /\ relBucket'.manifest = {ManifestObject(relDesk[p])}
    BY <2>2 DEF ReleaseInv, BucketHolds
  <2>4. /\ BundleObject(relDesk[p]).body = relDesk[p]
        /\ ManifestObject(relDesk[p]).body = relDesk[p].manifest
    BY DEF BundleObject, ManifestObject
  <2>5. BucketHolds'
    BY <1>1, <2>3, <2>4 DEF ReleaseInv, BucketHolds
  <2>6. InputHolds' /\ BootHolds'
    BY <1>2 DEF ReleaseInv, InputHolds, BootHolds
  <2>7. ASSUME NEW q \in Publisher PROVE DeskHolds(q)' /\ PublishHolds(q)'
    BY <1>1, <1>2, <2>1, <2>3 DEF ReleaseInv, DeskHolds, PublishHolds
  <2>8. DOMAIN relPub' = Publisher /\ DOMAIN relDesk' = Publisher
    BY <1>2, <2>1 DEF ReleaseInv
  <2> QED
    BY <2>5, <2>6, <2>7, <2>8 DEF ReleaseInv
<1> QED
  BY <1>3, <1>4

------------------------------------------------------------------------------
(* The Pod.                                                                  *)

LEMMA BootStep ==
    ASSUME ReleaseInv, UNCHANGED <<relInput, relDesk, relPub, relBucket>>, BootHolds'
    PROVE  ReleaseInv'
  BY DEF ReleaseInv, InputHolds, DeskHolds, PublishHolds, BucketHolds

LEMMA ReviewReleaseKeeps == ReleaseInv /\ ReviewRelease => ReleaseInv'
<1> SUFFICES ASSUME ReleaseInv, ReviewRelease PROVE ReleaseInv'
  OBVIOUS
<1>1. PICK m \in relBucket.manifest, b \in relBucket.bundle :
        relReview' = [manifest |-> m.body, sha |-> b.sha]
  BY DEF ReviewRelease
<1>2. b.sha = b.body /\ Inspects(b.body) /\ m.body = b.body.manifest
  BY DEF ReleaseInv, BucketHolds
<1>3. relReview'.sha = b.body /\ relReview'.manifest = m.body
  BY <1>1, <1>2
<1>4. DOMAIN relBoot' = {"pc", "release", "count"} /\ relBoot'.pc = "start"
  BY DEF ReviewRelease, ReleaseInv, BootHolds
<1>5. BootHolds'
  BY <1>2, <1>3, <1>4 DEF BootHolds
<1> QED
  BY <1>5, BootStep DEF ReviewRelease

LEMMA BootKeeps ==
    ASSUME ReleaseInv, BootCached \/ BootDownload \/ BootInstall \/ BootAgain
    PROVE  ReleaseInv'
<1>1. UNCHANGED <<relInput, relDesk, relPub, relBucket, relReview>> /\ relBoot.pc # "off"
  BY DEF BootCached, BootDownload, BootInstall, BootAgain
<1>2. /\ DOMAIN relBoot = {"pc", "release", "count"}
      /\ Inspects(relReview.sha) /\ relReview.manifest = relReview.sha.manifest
  BY <1>1 DEF ReleaseInv, BootHolds
<1>3. ASSUME DOMAIN relBoot' = {"pc", "release", "count"},
             relBoot'.pc \in {"unpacked", "served"} => relBoot'.release = relReview.sha
      PROVE  ReleaseInv'
  <2>1. BootHolds'
    BY <1>1, <1>2, <1>3 DEF BootHolds
  <2> QED
    BY <1>1, <2>1, BootStep
<1>4. CASE BootCached
  BY <1>2, <1>3, <1>4 DEF BootCached, CacheHolds
<1>5. CASE BootDownload
  <2>1. PICK got : relBoot' = IF got = relReview.sha /\ got.members = "plain"
                              THEN [relBoot EXCEPT !.pc = "unpacked", !.release = got]
                              ELSE [relBoot EXCEPT !.pc = "refused"]
    BY <1>5 DEF BootDownload
  <2> QED
    BY <1>2, <1>3, <2>1
<1>6. CASE BootInstall
  <2>1. relBoot.release = relReview.sha
    BY <1>6 DEF BootInstall, ReleaseInv, BootHolds
  <2> QED
    BY <1>2, <1>3, <1>6, <2>1 DEF BootInstall
<1>7. CASE BootAgain
  BY <1>3, <1>7 DEF BootAgain
<1> QED
  BY <1>4, <1>5, <1>6, <1>7

LEMMA ReleaseStep ==
    ASSUME SllmReleaseAssumption, ReleaseInv, [SllmReleaseNext]_relVars
    PROVE  ReleaseInv'
<1>1. CASE UNCHANGED relVars
  BY <1>1, BootStep DEF relVars, ReleaseInv, BootHolds
<1>2. ASSUME NEW p \in Publisher, Publish(p) PROVE ReleaseInv'
  BY <1>2, LooksKeep, PutBundleKeeps, PutManifestKeeps DEF Publish
<1>3. CASE SllmReleaseNext
  BY <1>2, <1>3, PackageReleaseKeeps, LegacyBundleKeeps, DamageBundleKeeps, StartPublishKeeps,
     PublishAgainKeeps, ReviewReleaseKeeps, BootKeeps DEF SllmReleaseNext
<1> QED
  BY <1>1, <1>3

(* The invariant of a release, on which the theorem below rests. *)
THEOREM ReleaseInvariance == SllmReleaseSpec => []ReleaseInv
  BY SllmReleaseAssumption, ReleaseStarts, ReleaseStep, PTL DEF SllmReleaseSpec

(* What the packager writes the publisher accepts, and what a Pod serves is the
   release that its creator reviewed, with its own manifest and adapter.
   (package_release, inspect_bundle, publish, release, bootstrap)            *)
THEOREM ReleaseReviewed == SllmReleaseSpec => []ReleaseIsReviewed
<1>1. ReleaseInv => PackagedReleaseInspects
  BY DEF ReleaseInv, DeskHolds, PackagedReleaseInspects
<1>2. ReleaseInv => ServedReleaseIsReviewed
  BY DEF ReleaseInv, BootHolds, ServedReleaseIsReviewed
<1>3. ReleaseInv => ReleaseIsReviewed
  BY <1>1, <1>2 DEF ReleaseIsReviewed
<1> QED
  BY <1>3, ReleaseInvariance, PTL

-----------------------------------------------------------------------------
(* The shared Pod                                                            *)

CmdFields == {"pc", "kind", "pod", "release", "keys", "image", "stale", "clean", "result"}
PodFields == {"id", "release", "image", "named", "keys", "up", "shared"}

CreateStep == {"post", "wait", "activate", "refresh", "smoke", "undoWrite", "undoRefresh",
               "undoDelete"}
OffStep == {"offWrite", "offRefresh", "offSmoke", "offDelete"}

(* Every Pod was made once, under an id of its own. *)
PodsHold ==
    /\ made \in Nat
    /\ \A p \in podList : DOMAIN p = PodFields /\ p.id \in 1 .. made
    /\ \A p, q \in podList : p.id = q.id => p = q

(* A command that creates a Pod has not said how it ended, and knows the Pod it
   made.                                                                     *)
CmdHolds ==
    /\ DOMAIN podCmd = CmdFields
    /\ podCmd.pc \in CreateStep \cup OffStep \cup {"idle"}
    /\ podCmd.kind = "create" <=> podCmd.pc \in CreateStep
    /\ podCmd.kind = "create" => podCmd.result = "none"
    /\ podCmd.pod \in 0 .. made
    /\ podCmd.pc = "post" => podCmd.pod = NoPod

(* The Pod of the command, while it is there, is of the release asked for, and
   from its first health on what verify_pod accepts.                         *)
PodOfCmd ==
    \A p \in podList : p.id = podCmd.pod =>
        /\ podCmd.pc \in {"wait", "activate", "refresh", "smoke"} => p.release = podCmd.release
        /\ podCmd.pc \in {"activate", "refresh", "smoke"} => VerifyPod(p, podCmd.image)

ApiHolds ==
    \E status, pod, keys : api = [status |-> status, pod |-> pod, keys |-> keys]

(* What the command has written to the route, and what the API was last started
   with: a refresh for another secret only repeats it.                       *)
RouteHolds ==
    /\ podCmd.pc \in {"post", "wait", "activate", "undoRefresh"} => route.status = "offline"
    /\ podCmd.pc = "undoDelete" /\ ~podCmd.stale => route.status = "offline"
    /\ podCmd.pc \in {"refresh", "smoke"} => route.status = "active" /\ route.pod = podCmd.pod
    /\ podCmd.pc = "smoke" => api.status = route.status /\ api.pod = route.pod

PodInv == PodsHold /\ CmdHolds /\ PodOfCmd /\ RouteHolds /\ ApiHolds

LEMMA PodStarts == SharedPodInit => PodInv
<1> SUFFICES ASSUME SharedPodInit PROVE PodInv
  OBVIOUS
<1>1. ApiHolds
  BY DEF SharedPodInit, ApiHolds
<1>2. PodsHold /\ CmdHolds /\ PodOfCmd /\ RouteHolds
  BY DEF SharedPodInit, PodsHold, CmdHolds, PodOfCmd, RouteHolds, PodIdle, CmdFields,
         CreateStep, OffStep, NoPod
<1> QED
  BY <1>1, <1>2 DEF PodInv

LEMMA ApiKept ==
    ASSUME PodInv, UNCHANGED api
    PROVE  ApiHolds'
  BY DEF PodInv, ApiHolds

(* A command that ends leaves nothing behind that the invariant speaks of. *)
LEMMA CmdEnds ==
    ASSUME NEW result, Ends(result), PodsHold', ApiHolds'
    PROVE  PodInv'
<1>1. /\ podCmd'.pc = "idle" /\ podCmd'.kind = "none" /\ podCmd'.pod = 0
      /\ DOMAIN podCmd' = CmdFields
  BY DEF Ends, PodIdle, CmdFields, NoPod
<1> QED
  BY <1>1 DEF PodInv, PodsHold, CmdHolds, PodOfCmd, RouteHolds, CreateStep, OffStep, NoPod

LEMMA RefreshedApi ==
    ASSUME PodInv, NEW o, RefreshApi(o)
    PROVE  ApiHolds'
  BY DEF RefreshApi, Rendered, PodInv, ApiHolds

(* Pods that go, get ready or are renamed. *)
LEMMA PodsGo ==
    ASSUME PodInv, UNCHANGED made, NEW P, podList' = podList \ P
    PROVE  PodsHold' /\ (PodOfCmd' \/ podCmd' # podCmd)
  BY DEF PodInv, PodsHold, PodOfCmd

LEMMA CreateStartKeeps ==
    ASSUME PodInv, NEW r, NEW allowDev, CreateStart(r, allowDev)
    PROVE  PodInv'
<1>1. /\ UNCHANGED <<podList, made, route, api>> /\ route.status = "offline"
      /\ podCmd' = [PodIdle("none") EXCEPT !.pc = "post", !.kind = "create",
                       !.release = r, !.keys = secret.f2, !.image = registered]
  BY DEF CreateStart
<1>2. /\ podCmd'.pc = "post" /\ podCmd'.kind = "create" /\ podCmd'.pod = 0
      /\ podCmd'.result = "none" /\ DOMAIN podCmd' = CmdFields
  BY <1>1 DEF PodIdle, NoPod, CmdFields
<1> QED
  BY <1>1, <1>2, ApiKept DEF PodInv, PodsHold, CmdHolds, PodOfCmd, RouteHolds, CreateStep, NoPod

LEMMA CreatePostKeeps ==
    ASSUME PodInv, NEW o \in Outcome, NEW up, CreatePost(o, up)
    PROVE  PodInv'
<1> DEFINE Made(named) ==
             [id |-> made + 1, release |-> podCmd.release, image |-> console.image,
              named |-> named, keys |-> console.keys, up |-> up, shared |-> TRUE]
<1>made. PICK named :
        \/ made' = made + 1 /\ podList' = podList \cup {Made(named)}
        \/ UNCHANGED <<made, podList>> /\ o = "refused"
  BY DEF CreatePost, TakesEffect
<1> DEFINE new == Made(named)
<1>1. /\ UNCHANGED <<route, api>> /\ podCmd.pc = "post"
      /\ \/ made' = made + 1 /\ podList' = podList \cup {new}
         \/ UNCHANGED <<made, podList>> /\ o = "refused"
  BY <1>made DEF CreatePost
<1>2. DOMAIN new = PodFields /\ new.id = made + 1 /\ new.release = podCmd.release
  BY DEF PodFields
<1> HIDE DEF new
<1>3. made \in Nat /\ \A p \in podList : p.id \in 1 .. made /\ p.id # made + 1
  BY DEF PodInv, PodsHold
<1>4. PodsHold'
  BY <1>1, <1>2, <1>3 DEF PodInv, PodsHold
<1>5. CASE o # "done"
  BY <1>1, <1>4, <1>5, CmdEnds, ApiKept DEF CreatePost, PodInv, RouteHolds
<1>6. CASE o = "done"
  <2>1. podCmd' = [podCmd EXCEPT !.pc = "wait", !.pod = made + 1]
    BY <1>6 DEF CreatePost
  <2>2. /\ podCmd'.pc = "wait" /\ podCmd'.pod = made + 1 /\ podCmd'.kind = podCmd.kind
        /\ podCmd'.result = podCmd.result /\ podCmd'.release = podCmd.release
        /\ DOMAIN podCmd' = CmdFields
    BY <2>1 DEF PodInv, CmdHolds, CmdFields
  <2>3. made' = made + 1 /\ podList' = podList \cup {new}
    BY <1>1, <1>6
  <2>4. CmdHolds'
    BY <1>1, <1>3, <2>2, <2>3 DEF PodInv, CmdHolds, CreateStep
  <2>5. PodOfCmd'
    BY <1>2, <1>3, <2>2, <2>3 DEF PodOfCmd
  <2>6. RouteHolds'
    BY <1>1, <2>2 DEF PodInv, RouteHolds
  <2> QED
    BY <1>1, <1>4, <2>4, <2>5, <2>6, ApiKept DEF PodInv
<1> QED
  BY <1>5, <1>6

(* The command goes on with its Pod. *)
CmdGoes(pc) == podCmd' = [podCmd EXCEPT !.pc = pc]

LEMMA CmdGoesOnly ==
    ASSUME PodInv, NEW pc, CmdGoes(pc)
    PROVE  /\ podCmd'.pc = pc /\ DOMAIN podCmd' = CmdFields
           /\ \A f \in CmdFields \ {"pc"} : podCmd'[f] = podCmd[f]
           /\ podCmd'.kind = podCmd.kind /\ podCmd'.result = podCmd.result
           /\ podCmd'.pod = podCmd.pod /\ podCmd'.release = podCmd.release
           /\ podCmd'.image = podCmd.image /\ podCmd'.stale = podCmd.stale
  BY DEF PodInv, CmdHolds, CmdFields, CmdGoes

LEMMA WaitReadyKeeps == PodInv /\ WaitReady => PodInv'
<1> SUFFICES ASSUME PodInv, WaitReady PROVE PodInv'
  OBVIOUS
<1>1. UNCHANGED <<podList, made, route, api>> /\ podCmd.pc = "wait" /\ route.status = "offline"
  BY DEF WaitReady, PodInv, RouteHolds
<1>2. \/ CmdGoes("activate") /\ \E p \in podList : p.id = podCmd.pod /\ VerifyPod(p, podCmd.image)
      \/ CmdGoes("undoDelete")
  BY DEF WaitReady, CmdGoes
<1>3. \E pc \in {"activate", "undoDelete"} : CmdGoes(pc)
  BY <1>2
<1>4. PodsHold' /\ CmdHolds'
  BY <1>1, <1>3, CmdGoesOnly DEF PodInv, PodsHold, CmdHolds, CreateStep
<1>5. RouteHolds'
  BY <1>1, <1>3, CmdGoesOnly DEF PodInv, RouteHolds
<1>6. CASE CmdGoes("undoDelete")
  <2>1. PodOfCmd'
    BY <1>6, CmdGoesOnly DEF PodOfCmd
  <2> QED
    BY <1>1, <1>4, <1>5, <2>1, ApiKept DEF PodInv
<1>7. CASE CmdGoes("activate") /\ \E p \in podList : p.id = podCmd.pod /\ VerifyPod(p, podCmd.image)
  <2>1. \A p \in podList : p.id = podCmd.pod => VerifyPod(p, podCmd.image)
    BY <1>7 DEF PodInv, PodsHold
  <2>2. PodOfCmd'
    BY <1>1, <1>7, <2>1, CmdGoesOnly DEF PodInv, PodOfCmd
  <2> QED
    BY <1>1, <1>4, <1>5, <2>2, ApiKept DEF PodInv
<1> QED
  BY <1>2, <1>6, <1>7

LEMMA CreateActivateKeeps ==
    ASSUME PodInv, NEW o \in Outcome, CreateActivate(o)
    PROVE  PodInv'
<1>1. /\ UNCHANGED <<podList, made, api>> /\ podCmd.pc = "activate"
      /\ \/ o = "done" /\ CmdGoes("refresh")
            /\ route' = EndpointValue("active", podCmd.pod, podCmd.release)
         \/ CmdGoes("undoWrite")
  BY DEF CreateActivate, AfterActivate, TakesEffect, CmdGoes
<1>2. CASE o = "done" /\ CmdGoes("refresh")
           /\ route' = EndpointValue("active", podCmd.pod, podCmd.release)
  <2>1. route'.status = "active" /\ route'.pod = podCmd.pod
    BY <1>2 DEF EndpointValue
  <2> QED
    BY <1>1, <1>2, <2>1, CmdGoesOnly, ApiKept DEF PodInv, PodsHold, CmdHolds, PodOfCmd, RouteHolds, CreateStep
<1>3. CASE CmdGoes("undoWrite")
  BY <1>1, <1>3, CmdGoesOnly, ApiKept DEF PodInv, PodsHold, CmdHolds, PodOfCmd, RouteHolds, CreateStep
<1> QED
  BY <1>1, <1>2, <1>3

LEMMA CreateRefreshKeeps ==
    ASSUME PodInv, NEW o \in Outcome, CreateRefresh(o)
    PROVE  PodInv'
<1>1. /\ UNCHANGED <<podList, made, route>> /\ podCmd.pc = "refresh" /\ RefreshApi(o)
      /\ \/ o = "done" /\ CmdGoes("smoke")
         \/ CmdGoes("undoWrite")
  BY DEF CreateRefresh, CmdGoes
<1>2. ApiHolds'
  BY <1>1, RefreshedApi
<1>3. CASE o = "done" /\ CmdGoes("smoke")
  <2>1. api'.status = route.status /\ api'.pod = route.pod
    BY <1>1, <1>3 DEF RefreshApi, Rendered, TakesEffect
  <2> QED
    BY <1>1, <1>2, <1>3, <2>1, CmdGoesOnly DEF PodInv, PodsHold, CmdHolds, PodOfCmd, RouteHolds, CreateStep
<1>4. CASE CmdGoes("undoWrite")
  BY <1>1, <1>2, <1>4, CmdGoesOnly DEF PodInv, PodsHold, CmdHolds, PodOfCmd, RouteHolds, CreateStep
<1> QED
  BY <1>1, <1>3, <1>4

LEMMA CreateSmokeKeeps == PodInv /\ CreateSmoke => PodInv'
<1> SUFFICES ASSUME PodInv, CreateSmoke PROVE PodInv'
  OBVIOUS
<1>1. UNCHANGED <<podList, made, route, api>> /\ podCmd.pc = "smoke"
  BY DEF CreateSmoke
<1>2. CASE Ends("complete")
  BY <1>1, <1>2, CmdEnds, ApiKept DEF PodInv, PodsHold, RouteHolds
<1>3. CASE CmdGoes("undoWrite")
  BY <1>1, <1>3, CmdGoesOnly, ApiKept DEF PodInv, PodsHold, CmdHolds, PodOfCmd, RouteHolds, CreateStep
<1> QED
  BY <1>2, <1>3 DEF CreateSmoke, CmdGoes

(* The undoing keeps in mind whether the route may still be active. *)
LEMMA UndoWriteKeeps ==
    ASSUME PodInv, NEW o \in Outcome, UndoWrite(o)
    PROVE  PodInv'
<1>1. /\ UNCHANGED <<podList, made, api>> /\ podCmd.pc = "undoWrite"
      /\ o = "done" => route'.status = "offline"
  BY DEF UndoWrite, TakesEffect, Offline, EndpointValue
<1>2. PICK pc \in {"undoRefresh", "undoDelete"} :
        /\ podCmd' = [podCmd EXCEPT !.pc = pc, !.stale = o # "done"]
        /\ o # "done" => pc = "undoDelete"
  BY DEF UndoWrite
<1>3. /\ podCmd'.pc = pc /\ podCmd'.stale = (o # "done") /\ DOMAIN podCmd' = CmdFields
      /\ podCmd'.kind = podCmd.kind /\ podCmd'.result = podCmd.result
      /\ podCmd'.pod = podCmd.pod
  BY <1>2 DEF PodInv, CmdHolds, CmdFields
<1>4. RouteHolds'
  BY <1>1, <1>2, <1>3 DEF PodInv, RouteHolds
<1> QED
  BY <1>1, <1>2, <1>3, <1>4, ApiKept DEF PodInv, PodsHold, CmdHolds, PodOfCmd, CreateStep

LEMMA UndoRefreshKeeps ==
    ASSUME PodInv, NEW o \in Outcome, UndoRefresh(o)
    PROVE  PodInv'
<1>1. /\ UNCHANGED <<podList, made, route>> /\ podCmd.pc = "undoRefresh" /\ RefreshApi(o)
      /\ podCmd' = [podCmd EXCEPT !.pc = "undoDelete", !.stale = o # "done"]
  BY DEF UndoRefresh
<1>2. ApiHolds' /\ route.status = "offline"
  BY <1>1, RefreshedApi DEF PodInv, RouteHolds
<1>3. /\ podCmd'.pc = "undoDelete" /\ DOMAIN podCmd' = CmdFields
      /\ podCmd'.kind = podCmd.kind /\ podCmd'.result = podCmd.result
      /\ podCmd'.pod = podCmd.pod
  BY <1>1 DEF PodInv, CmdHolds, CmdFields
<1> QED
  BY <1>1, <1>2, <1>3 DEF PodInv, PodsHold, CmdHolds, PodOfCmd, RouteHolds, CreateStep

LEMMA UndoDeleteKeeps ==
    ASSUME PodInv, NEW o \in Outcome, UndoDelete(o)
    PROVE  PodInv'
<1>1. \E P : podList' = podList \ P
  <2>1. {p \in podList : p.id # podCmd.pod} = podList \ {p \in podList : p.id = podCmd.pod}
        /\ podList = podList \ {}
    OBVIOUS
  <2> QED
    BY <2>1 DEF UndoDelete
<1>2. PodsHold'
  BY <1>1, PodsGo DEF UndoDelete
<1> QED
  BY <1>2, CmdEnds, ApiKept DEF UndoDelete, PodInv, RouteHolds

(* What deletes and reconciles is no command that creates. *)
LEMMA OffBegins ==
    ASSUME PodInv, UNCHANGED <<podList, made, route, api>>, podCmd'.pc \in OffStep,
           podCmd'.kind \in {"delete", "reconcile"}, podCmd'.pod \in 0 .. made,
           DOMAIN podCmd' = CmdFields
    PROVE  PodInv'
  BY ApiKept DEF PodInv, PodsHold, CmdHolds, PodOfCmd, RouteHolds, CreateStep, OffStep

LEMMA OffStartsKeep ==
    ASSUME PodInv, DeleteStart \/ ReconcileStart
    PROVE  PodInv'
<1>1. CASE DeleteStart
  <2>1. PICK p \in podList : podCmd' = [PodIdle("none") EXCEPT !.pc = "offWrite",
                                           !.kind = "delete", !.pod = p.id]
    BY <1>1 DEF DeleteStart
  <2>2. /\ podCmd'.pc = "offWrite" /\ podCmd'.kind = "delete" /\ podCmd'.pod = p.id
        /\ DOMAIN podCmd' = CmdFields
    BY <2>1 DEF PodIdle, CmdFields
  <2>3. p.id \in 0 .. made
    BY DEF PodInv, PodsHold
  <2> QED
    BY <1>1, <2>2, <2>3, OffBegins DEF DeleteStart, OffStep
<1>2. CASE ReconcileStart
  <2>1. /\ podCmd'.pc \in {"offWrite", "offRefresh"} /\ podCmd'.kind = "reconcile"
        /\ podCmd'.pod = 0 /\ DOMAIN podCmd' = CmdFields
    BY <1>2 DEF ReconcileStart, PodIdle, CmdFields, NoPod
  <2>2. 0 \in 0 .. made
    BY DEF PodInv, PodsHold
  <2> QED
    BY <1>2, <2>1, <2>2, OffBegins DEF ReconcileStart, OffStep
<1> QED
  BY <1>1, <1>2

LEMMA OffKeeps ==
    ASSUME PodInv, NEW o \in Outcome, OffWrite(o) \/ OffRefresh(o) \/ OffSmoke \/ OffDelete(o)
    PROVE  PodInv'
<1>1. /\ UNCHANGED made /\ podCmd.pc \in OffStep
      /\ podCmd.kind # "create"
  BY DEF OffWrite, OffRefresh, OffSmoke, OffDelete, OffStep, PodInv, CmdHolds, CreateStep
<1>2. ApiHolds'
  BY RefreshedApi, ApiKept DEF OffWrite, OffRefresh, OffSmoke, OffDelete, PodInv, RouteHolds
<1>3. PodsHold'
  <2>1. \E P : podList' = podList \ P
    <3>1. {p \in podList : p.id # podCmd.pod} = podList \ {p \in podList : p.id = podCmd.pod}
          /\ podList = podList \ {}
      OBVIOUS
    <3> QED
      BY <3>1 DEF OffWrite, OffRefresh, OffSmoke, OffDelete
  <2> QED
    BY <1>1, <2>1, PodsGo
<1>4. \/ \E result : Ends(result)
      \/ \E pc \in OffStep : CmdGoes(pc) /\ podList' = podList
  BY DEF OffWrite, OffRefresh, OffSmoke, OffDelete, OffStep, CmdGoes
<1>5. CASE \E result : Ends(result)
  BY <1>2, <1>3, <1>5, CmdEnds
<1>6. ASSUME NEW pc \in OffStep, CmdGoes(pc), podList' = podList PROVE PodInv'
  <2>1. CmdHolds'
    BY <1>1, <1>6, CmdGoesOnly DEF PodInv, CmdHolds, CreateStep, OffStep
  <2>2. PodOfCmd' /\ RouteHolds'
    BY <1>2, <1>6, CmdGoesOnly DEF PodOfCmd, RouteHolds, OffStep
  <2> QED
    BY <1>2, <1>3, <2>1, <2>2 DEF PodInv
<1> QED
  BY <1>4, <1>5, <1>6

(* What the other operator, the Console and RunPod do. *)
LEMMA OthersKeep ==
    ASSUME PodInv, UNCHANGED <<podList, made, route, podCmd>>,
           api' = api \/ \E o : RefreshApi(o)
    PROVE  PodInv'
<1>1. ApiHolds'
  BY RefreshedApi, ApiKept DEF PodInv, RouteHolds
<1>2. \/ api' = api
      \/ api'.status = route.status /\ api'.pod = route.pod
  BY DEF RefreshApi, Rendered
<1>3. RouteHolds'
  BY <1>1, <1>2 DEF PodInv, RouteHolds
<1> QED
  BY <1>1, <1>3 DEF PodInv, PodsHold, CmdHolds, PodOfCmd

LEMMA PodChangesKeep == PodInv /\ PodChanges => PodInv'
<1> SUFFICES ASSUME PodInv, PodChanges PROVE PodInv'
  OBVIOUS
<1>1. UNCHANGED <<made, route, api, podCmd>>
  BY DEF PodChanges
<1>2. PICK p \in podList :
        \/ podList' = (podList \ {p}) \cup {[p EXCEPT !.up = TRUE]}
        \/ podList' = (podList \ {p}) \cup {[p EXCEPT !.shared = FALSE]}
        \/ podList' = podList \ {p}
  BY DEF PodChanges
<1>3. ASSUME NEW q, DOMAIN q = PodFields, q.id = p.id, q.release = p.release, q.image = p.image,
             q.named = p.named,
             podList' = (podList \ {p}) \cup {q}
      PROVE  PodsHold' /\ PodOfCmd'
  BY <1>1, <1>3 DEF PodInv, PodsHold, PodOfCmd, VerifyPod
<1>4. DOMAIN p = PodFields
  BY DEF PodInv, PodsHold
<1>5. CASE podList' = (podList \ {p}) \cup {[p EXCEPT !.up = TRUE]}
  <2> DEFINE q == [p EXCEPT !.up = TRUE]
  <2>1. DOMAIN q = PodFields /\ q.id = p.id /\ q.release = p.release /\ q.image = p.image
        /\ q.named = p.named
    BY <1>4 DEF PodFields
  <2>2. podList' = (podList \ {p}) \cup {q}
    BY <1>5
  <2> HIDE DEF q
  <2> QED
    BY <1>1, <1>3, <2>1, <2>2, ApiKept DEF PodInv, CmdHolds, RouteHolds
<1>6. CASE podList' = (podList \ {p}) \cup {[p EXCEPT !.shared = FALSE]}
  <2> DEFINE q == [p EXCEPT !.shared = FALSE]
  <2>1. DOMAIN q = PodFields /\ q.id = p.id /\ q.release = p.release /\ q.image = p.image
        /\ q.named = p.named
    BY <1>4 DEF PodFields
  <2>2. podList' = (podList \ {p}) \cup {q}
    BY <1>6
  <2> HIDE DEF q
  <2> QED
    BY <1>1, <1>3, <2>1, <2>2, ApiKept DEF PodInv, CmdHolds, RouteHolds
<1>7. CASE podList' = podList \ {p}
  BY <1>1, <1>7, ApiKept DEF PodInv, PodsHold, CmdHolds, PodOfCmd, RouteHolds
<1> QED
  BY <1>2, <1>5, <1>6, <1>7

LEMMA PodStep == PodInv /\ [SharedPodNext]_podVars => PodInv'
<1> SUFFICES ASSUME PodInv, [SharedPodNext]_podVars PROVE PodInv'
  OBVIOUS
<1>1. CASE UNCHANGED podVars
  BY <1>1, OthersKeep DEF podVars
<1>2. CASE \/ \E target \in {"f2", "openai"} : RotateRead(target)
           \/ RotatePut \/ RegisterPut \/ ConsoleEdit
           \/ \E o \in Outcome : RotateRefresh(o)
           \/ \E i \in Image : RegisterCheck(i)
  BY <1>2, OthersKeep
     DEF RotateRead, RotatePut, RegisterPut, ConsoleEdit, RotateRefresh, RegisterCheck
<1>3. CASE PodInterrupt
  BY <1>3, CmdEnds, ApiKept DEF PodInterrupt, PodInv, PodsHold, RouteHolds
<1>4. CASE \/ \E r \in PublishedRelease, allowDev \in BOOLEAN : CreateStart(r, allowDev)
           \/ \E o \in Outcome, up \in BOOLEAN : CreatePost(o, up)
           \/ WaitReady \/ CreateSmoke
           \/ \E o \in Outcome : CreateActivate(o) \/ CreateRefresh(o)
  BY <1>4, CreateStartKeeps, CreatePostKeeps, WaitReadyKeeps, CreateSmokeKeeps,
     CreateActivateKeeps, CreateRefreshKeeps
<1>5. CASE \E o \in Outcome : UndoWrite(o) \/ UndoRefresh(o) \/ UndoDelete(o)
  BY <1>5, UndoWriteKeeps, UndoRefreshKeeps, UndoDeleteKeeps
<1>6. CASE \/ DeleteStart \/ ReconcileStart \/ OffSmoke
           \/ \E o \in Outcome : OffWrite(o) \/ OffRefresh(o) \/ OffDelete(o)
  BY <1>6, OffStartsKeep, OffKeeps DEF Outcome
<1>7. CASE PodChanges
  BY <1>7, PodChangesKeep
<1> QED
  BY <1>1, <1>2, <1>3, <1>4, <1>5, <1>6, <1>7 DEF SharedPodNext

(* The invariant of the shared Pod, on which the theorem below rests. *)
THEOREM PodInvariance == SharedPodSpec => []PodInv
  BY PodStarts, PodStep, PTL DEF SharedPodSpec

(* Where a command that creates says how it ended. *)
LEMMA CreateEnds ==
    ASSUME PodInv, SharedPodNext, podCmd.kind = "create",
           podCmd'.result \in {"complete", "failed"}
    PROVE  \/ CreateSmoke /\ Ends("complete") /\ SmokeSucceeds("active")
           \/ \E o \in Outcome, up \in BOOLEAN : CreatePost(o, up) /\ Ends("failed")
           \/ \E o \in Outcome : UndoDelete(o) /\ o = "done" /\ ~podCmd.stale
<1>1. podCmd.pc \in CreateStep /\ podCmd.pc \notin OffStep /\ podCmd.result = "none"
  BY DEF PodInv, CmdHolds, CreateStep, OffStep
<1>2. podCmd' # podCmd /\ \A pc : ~CmdGoes(pc)
  BY <1>1, CmdGoesOnly
<1>3. \A result : Ends(result) => podCmd'.result = result
  BY DEF Ends, PodIdle
<1>4. \A o \in Outcome : UndoWrite(o) \/ UndoRefresh(o) => podCmd'.result = podCmd.result
  BY DEF UndoWrite, UndoRefresh, PodInv, CmdHolds, CmdFields
<1>5. ASSUME NEW o \in Outcome, NEW up \in BOOLEAN, CreatePost(o, up) PROVE Ends("failed")
  <2>1. podCmd' # [podCmd EXCEPT !.pc = "wait", !.pod = made + 1]
    BY <1>1 DEF PodInv, CmdHolds, CmdFields
  <2> QED
    BY <1>5, <2>1 DEF CreatePost
<1>6. CreateSmoke => Ends("complete") /\ SmokeSucceeds("active")
  BY <1>2 DEF CreateSmoke, CmdGoes
<1>7. ASSUME NEW o \in Outcome, UndoDelete(o) PROVE o = "done" /\ ~podCmd.stale
  BY <1>3, <1>7 DEF UndoDelete
<1>8. ~PodInterrupt
  BY <1>3 DEF PodInterrupt
<1>9. \A r, allowDev : ~CreateStart(r, allowDev)
  BY <1>1 DEF CreateStart, CreateStep
<1>10. /\ ~WaitReady
       /\ \A o \in Outcome : ~CreateActivate(o) /\ ~CreateRefresh(o)
       /\ \A o \in Outcome : ~UndoWrite(o) /\ ~UndoRefresh(o)
  <2>1. ~WaitReady
    BY <1>2 DEF WaitReady, CmdGoes
  <2>2. \A o \in Outcome : ~CreateActivate(o) /\ ~CreateRefresh(o)
    BY <1>2 DEF CreateActivate, CreateRefresh, CmdGoes
  <2>3. \A o \in Outcome : ~UndoWrite(o) /\ ~UndoRefresh(o)
    BY <1>1, <1>4
  <2> QED
    BY <2>1, <2>2, <2>3
<1>11. /\ ~DeleteStart /\ ~ReconcileStart /\ ~OffSmoke
       /\ \A o \in Outcome : ~OffWrite(o) /\ ~OffRefresh(o) /\ ~OffDelete(o)
  BY <1>1 DEF DeleteStart, ReconcileStart, OffSmoke, OffWrite, OffRefresh, OffDelete, CreateStep
<1>12. /\ ~RotatePut /\ ~RegisterPut /\ ~ConsoleEdit /\ ~PodChanges
       /\ \A target : ~RotateRead(target)
       /\ \A o : ~RotateRefresh(o)
       /\ \A i : ~RegisterCheck(i)
  BY <1>2 DEF RotateRead, RotatePut, RotateRefresh, RegisterCheck, RegisterPut, ConsoleEdit,
              PodChanges
<1> QED
  BY <1>5, <1>6, <1>7, <1>8, <1>9, <1>10, <1>11, <1>12 DEF SharedPodNext

(* Complete is said only where the answers came from the command's Pod. *)
LEMMA CompleteIsTrue ==
    ASSUME PodInv, CreateSmoke, SmokeSucceeds("active")
    PROVE  /\ route.status = "active"
           /\ \E p \in podList :
                 /\ p.id = route.pod
                 /\ p.release = podCmd.release
                 /\ VerifyPod(p, podCmd.image)
                 /\ api = [status |-> "active", pod |-> p.id, keys |-> p.keys]
<1>1. podCmd.pc = "smoke"
  BY DEF CreateSmoke
<1>2. /\ route.status = "active" /\ route.pod = podCmd.pod
      /\ api.status = "active" /\ api.pod = route.pod
  BY <1>1 DEF PodInv, RouteHolds
<1>3. PICK p \in podList : p.id = api.pod /\ p.keys = api.keys
  BY DEF SmokeSucceeds, Healthy
<1>4. p.release = podCmd.release /\ VerifyPod(p, podCmd.image)
  BY <1>1, <1>2, <1>3 DEF PodInv, PodOfCmd
<1>5. api = [status |-> "active", pod |-> p.id, keys |-> p.keys]
  <2>1. PICK status, pod, keys : api = [status |-> status, pod |-> pod, keys |-> keys]
    BY DEF PodInv, ApiHolds
  <2> QED
    BY <1>2, <1>3, <2>1
<1> QED
  BY <1>2, <1>3, <1>4, <1>5

(* Failed is said only where nothing is routed and the Pod is gone. *)
LEMMA FailedIsTrue ==
    ASSUME PodInv, NEW o \in Outcome,
           \/ \E up \in BOOLEAN : CreatePost(o, up)
           \/ UndoDelete(o) /\ o = "done" /\ ~podCmd.stale
    PROVE  route.status = "offline" /\ \A p \in podList' : p.id # podCmd.pod
<1>1. CASE \E up \in BOOLEAN : CreatePost(o, up)
  <2>1. podCmd.pod = 0 /\ route.status = "offline"
    BY <1>1 DEF CreatePost, PodInv, CmdHolds, RouteHolds, NoPod
  <2>2. \A p \in podList' : p.id = made + 1 \/ p \in podList
    BY <1>1 DEF CreatePost
  <2>3. \A p \in podList' : p.id # 0
    BY <2>2 DEF PodInv, PodsHold
  <2> QED
    BY <2>1, <2>3
<1>2. CASE UndoDelete(o) /\ o = "done" /\ ~podCmd.stale
  BY <1>2 DEF UndoDelete, TakesEffect, PodInv, RouteHolds
<1> QED
  BY <1>1, <1>2

(* What runpod-create says on its own end is true, whatever was registered,
   rotated, edited or terminated meanwhile and whichever answer was lost.
   (create, wait_ready, verify_pod, ensure_offline_without_pod)              *)
THEOREM CreateIsTrue == SharedPodSpec => CreateReportsTheTruth
<1> DEFINE A == podCmd.kind = "create" =>
        /\ podCmd'.result = "complete" =>
              /\ route.status = "active"
              /\ \E p \in podList :
                    /\ p.id = route.pod
                    /\ p.release = podCmd.release
                    /\ p.named => p.image = podCmd.image
                    /\ api = [status |-> "active", pod |-> p.id, keys |-> p.keys]
        /\ podCmd'.result = "failed" =>
              /\ route.status = "offline"
              /\ \A p \in podList' : p.id # podCmd.pod
<1>1. ASSUME PodInv, SharedPodNext PROVE A
  <2> SUFFICES ASSUME podCmd.kind = "create", podCmd'.result \in {"complete", "failed"} PROVE A
    OBVIOUS
  <2>1. \A result : Ends(result) => podCmd'.result = result
    BY DEF Ends, PodIdle
  <2>2. CASE CreateSmoke /\ Ends("complete") /\ SmokeSucceeds("active")
    BY <1>1, <2>1, <2>2, CompleteIsTrue DEF VerifyPod
  <2>3. CASE \E o \in Outcome, up \in BOOLEAN : CreatePost(o, up) /\ Ends("failed")
    BY <1>1, <2>1, <2>3, FailedIsTrue
  <2>4. CASE \E o \in Outcome : UndoDelete(o) /\ o = "done" /\ ~podCmd.stale
    <3>1. podCmd'.result = "failed"
      BY <2>1, <2>4 DEF UndoDelete
    <3> QED
      BY <1>1, <2>4, <3>1, FailedIsTrue
  <2> QED
    BY <1>1, <2>2, <2>3, <2>4, CreateEnds
<1>2. PodInv /\ [SharedPodNext]_podVars => [A]_podVars
  BY <1>1
<1> QED
  BY <1>2, PodInvariance, PTL DEF SharedPodSpec, CreateReportsTheTruth

-----------------------------------------------------------------------------
(* The union *)

\* A behaviour of the union, seen by any of its components, is one of that
\* component: what TLC checks of the union it checks of each of them, and what
\* is proved of a component holds in the union.
THEOREM UnionOfComponents ==
    OperationsSpec =>
        /\ SharedPodSpec
        /\ SllmReleaseSpec
        /\ PodRuntimeSpec
        /\ DbAccessSpec
        /\ AlarmNotifierSpec
<1>1. OperationsInit =>
          /\ SharedPodInit
          /\ SllmReleaseInit
          /\ PodRuntimeInit
          /\ DbAccessInit
          /\ AlarmNotifierInit
    BY DEF OperationsInit
<1>2. ASSUME [OperationsNext]_<<focus, podVars, relVars, runtimeVars, dbVars, notifierVars>>
      PROVE  /\ [SharedPodNext]_podVars
             /\ [SllmReleaseNext]_relVars
             /\ [PodRuntimeNext]_runtimeVars
             /\ [DbAccessNext]_dbVars
             /\ [AlarmNotifierNext]_notifierVars
    BY <1>2 DEF OperationsNext, Only
<1>3. OperationsSpec => SharedPodSpec
    BY <1>1, <1>2, PTL DEF OperationsSpec, SharedPodSpec
<1>4. OperationsSpec => SllmReleaseSpec
    BY <1>1, <1>2, PTL DEF OperationsSpec, SllmReleaseSpec
<1>5. OperationsSpec => PodRuntimeSpec
    BY <1>1, <1>2, PTL DEF OperationsSpec, PodRuntimeSpec
<1>6. OperationsSpec => DbAccessSpec
    BY <1>1, <1>2, PTL DEF OperationsSpec, DbAccessSpec
<1>7. OperationsSpec => AlarmNotifierSpec
    BY <1>1, <1>2, PTL DEF OperationsSpec, AlarmNotifierSpec
<1> QED
    BY <1>3, <1>4, <1>5, <1>6, <1>7

=============================================================================
