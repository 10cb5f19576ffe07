------------------------------- MODULE DbAccess -------------------------------
(***************************************************************************)
(* The roles, the runtime password and the schema of the development       *)
(* database, as infra/scripts/manage_db_access.py changes them: bootstrap, *)
(* sync-team, rotate-runtime, verify, seed-f3, migrate and                 *)
(* create-session-account.                                                 *)
(*                                                                         *)
(* A command works on the database through an SSM tunnel, as one           *)
(* transaction of the master user, and on Secrets Manager outside of it.   *)
(* It may be killed between any two of its calls.                          *)
(***************************************************************************)
EXTENDS Naturals, FiniteSets

CONSTANTS
    User,         \* team members
    Profile,      \* F3 model profiles
    MaxPasswords  \* bound: runtime passwords ever made

ASSUME DbAccessAssumption == MaxPasswords \in Nat

VARIABLES
    group,    \* IAM group team-db-tunnel
    people,   \* the personal roles, as committed
    session,  \* users with an open database session
    runtime,  \* pg_authid: the password of app_runtime; the fixed roles exist
    stage,    \* Secrets Manager: the passwords staged AWSCURRENT and AWSPENDING
    minted,   \* passwords made so far
    content,  \* migrations applied, the F3 synthetic seed, session accounts
    tunnel,   \* the port-forwarding process of the command, one left behind
    dbCmd     \* the command that runs

dbVars == <<group, people, session, runtime, stage, minted, content, tunnel, dbCmd>>

NoPassword == 0
NoCmd == [pc |-> "idle", kind |-> "none", users |-> {}, current |-> NoPassword,
          password |-> NoPassword, profile |-> "none"]

DbAccessInit ==
    /\ group \in SUBSET User
    /\ people = [u \in User |-> "absent"]
    /\ session = {}
    /\ runtime = [password |-> NoPassword, roles |-> FALSE]
    /\ stage = [current |-> NoPassword, pending |-> NoPassword]
    /\ minted = 0
    /\ content = [schema |-> FALSE, seed |-> "none", accounts |-> 0]
    /\ tunnel = [open |-> FALSE, left |-> FALSE]
    /\ dbCmd = NoCmd

------------------------------------------------------------------------------
(* Each command reads what it needs before it asks for --apply.              *)

Begins(cmd) ==
    /\ dbCmd.pc = "idle"
    /\ dbCmd' = cmd
    /\ UNCHANGED <<group, people, session, runtime, stage, minted, content, tunnel>>

(* list_group_users, get_runtime_secret.                                     *)
BootstrapBegin ==
    Begins([NoCmd EXCEPT !.pc = "password", !.kind = "bootstrap", !.users = group,
                         !.current = stage.current])

SyncBegin ==
    Begins([NoCmd EXCEPT !.pc = "tunnel", !.kind = "sync", !.users = group])

RotateBegin ==
    /\ stage.current # NoPassword
    /\ Begins([NoCmd EXCEPT !.pc = "pending", !.kind = "rotate", !.current = stage.current])

VerifyBegin ==
    /\ stage.current # NoPassword
    /\ Begins([NoCmd EXCEPT !.pc = "tunnel", !.kind = "verify", !.current = stage.current])

SeedBegin(p) ==
    Begins([NoCmd EXCEPT !.pc = "tunnel", !.kind = "seed", !.profile = p])

(* migrate, create-session-account: a subprocess through the tunnel.         *)
SubprocessBegin(kind) == Begins([NoCmd EXCEPT !.pc = "tunnel", !.kind = kind])

(* What is done first through the tunnel.                                    *)
FirstStep == CASE dbCmd.kind = "rotate" -> "password"
               [] dbCmd.kind \in {"bootstrap", "sync"} -> "people"
               [] dbCmd.kind = "verify" -> "validate"
               [] dbCmd.kind = "seed" -> "reset"
               [] dbCmd.kind \in {"migrate", "account"} -> "subprocess"

(* PortForward.__enter__: whatever listens on the local port is taken for the
   tunnel, also a process that was left behind: one that has not listened when
   the wait for it times out is not terminated.                              *)
OpenTunnel ==
    /\ dbCmd.pc = "tunnel"
    /\ \/ /\ tunnel' = [tunnel EXCEPT !.open = TRUE]
          /\ dbCmd' = [dbCmd EXCEPT !.pc = FirstStep]
       \/ /\ dbCmd' = NoCmd
          /\ \E left \in BOOLEAN : tunnel' = [tunnel EXCEPT !.left = @ \/ left]
    /\ UNCHANGED <<group, people, session, runtime, stage, minted, content>>

(* PortForward.__exit__.                                                     *)
CloseTunnel == tunnel' = [tunnel EXCEPT !.open = FALSE]
Ended == dbCmd' = NoCmd /\ CloseTunnel

(* An error in a step rolls the transaction back; a kill does too.           *)
CommandFails ==
    /\ dbCmd.pc # "idle"
    /\ Ended
    /\ UNCHANGED <<group, people, session, runtime, stage, minted, content>>

------------------------------------------------------------------------------
(* rotate-runtime                                                            *)

\* Faulty: keeps the new password in memory only.
StageNothing(new) == stage

(* A pending password of an interrupted rotation is taken up again, a new one
   is stored before the database is told.                                    *)
StagePending(new) == [stage EXCEPT !.pending = new]

PreparePending ==
    /\ dbCmd.kind = "rotate"
    /\ dbCmd.pc = "pending"
    /\ IF stage.pending # NoPassword
       THEN /\ dbCmd' = [dbCmd EXCEPT !.pc = "tunnel", !.password = stage.pending]
            /\ UNCHANGED <<stage, minted>>
       ELSE /\ minted < MaxPasswords
            /\ minted' = minted + 1
            /\ stage' = StagePending(minted + 1)
            /\ dbCmd' = [dbCmd EXCEPT !.pc = "tunnel", !.password = minted + 1]
    /\ UNCHANGED <<group, people, session, runtime, content, tunnel>>

(* ensure_role, committed on its own.                                        *)
RotatePassword ==
    /\ dbCmd.kind = "rotate"
    /\ dbCmd.pc = "password"
    /\ runtime' = [runtime EXCEPT !.password = dbCmd.password]
    /\ dbCmd' = [dbCmd EXCEPT !.pc = "validate"]
    /\ UNCHANGED <<group, people, session, stage, minted, content, tunnel>>

(* validate_runtime_connection: a login as app_runtime.                      *)
LogsIn(password) == runtime.password = password /\ password # NoPassword

ValidateLogin ==
    /\ dbCmd.pc = "validate"
    /\ LogsIn(IF dbCmd.kind = "rotate" THEN dbCmd.password ELSE dbCmd.current)
    /\ IF dbCmd.kind = "rotate"
       THEN dbCmd' = [dbCmd EXCEPT !.pc = "promote"] /\ CloseTunnel
       ELSE dbCmd' = [dbCmd EXCEPT !.pc = "contract"] /\ UNCHANGED tunnel
    /\ UNCHANGED <<group, people, session, runtime, stage, minted, content>>

(* AWSCURRENT is moved, then AWSPENDING is taken away: two calls.            *)
Promote ==
    /\ dbCmd.pc = "promote"
    /\ stage' = [stage EXCEPT !.current = dbCmd.password]
    /\ dbCmd' = [dbCmd EXCEPT !.pc = "unstage"]
    /\ UNCHANGED <<group, people, session, runtime, minted, content, tunnel>>

Unstage ==
    /\ dbCmd.pc = "unstage"
    /\ stage' = [stage EXCEPT !.pending = NoPassword]
    /\ dbCmd' = NoCmd
    /\ UNCHANGED <<group, people, session, runtime, minted, content, tunnel>>

------------------------------------------------------------------------------
(* bootstrap and sync-team                                                   *)

(* The first bootstrap makes a password, a later one sets the current again. *)
BootstrapPassword ==
    /\ dbCmd.kind = "bootstrap"
    /\ dbCmd.pc = "password"
    /\ IF dbCmd.current # NoPassword
       THEN dbCmd' = [dbCmd EXCEPT !.pc = "tunnel", !.password = dbCmd.current]
            /\ UNCHANGED minted
       ELSE /\ minted < MaxPasswords
            /\ minted' = minted + 1
            /\ dbCmd' = [dbCmd EXCEPT !.pc = "tunnel", !.password = minted + 1]
    /\ UNCHANGED <<group, people, session, runtime, stage, content, tunnel>>

ManagedRoles == {u \in User : people[u] # "absent"}
Removed == ManagedRoles \ dbCmd.users

(* sync_personal_roles ends the sessions of removed users at once, while what
   it says of their roles is not visible before the commit.                  *)
TerminateSession(u) ==
    /\ dbCmd.pc = "people"
    /\ u \in Removed \cap session
    /\ session' = session \ {u}
    /\ UNCHANGED <<group, people, runtime, stage, minted, content, tunnel, dbCmd>>

(* The commit: configure_fixed_roles of a bootstrap and the personal roles.  *)
PersonalRoles ==
    [u \in User |-> IF u \in dbCmd.users THEN "login"
                    ELSE IF u \in ManagedRoles THEN "nologin" ELSE "absent"]

CommitRoles ==
    /\ dbCmd.pc = "people"
    /\ people' = PersonalRoles
    /\ CloseTunnel
    /\ IF dbCmd.kind = "bootstrap"
       THEN /\ runtime' = [password |-> dbCmd.password, roles |-> TRUE]
            /\ dbCmd' = IF dbCmd.current = NoPassword THEN [dbCmd EXCEPT !.pc = "store"]
                                                      ELSE NoCmd
       ELSE UNCHANGED runtime /\ dbCmd' = NoCmd
    /\ UNCHANGED <<group, session, stage, minted, content>>

(* The first runtime secret is stored after the database has the password.   *)
StoreSecret ==
    /\ dbCmd.pc = "store"
    /\ stage' = [stage EXCEPT !.current = dbCmd.password]
    /\ dbCmd' = NoCmd
    /\ UNCHANGED <<group, people, session, runtime, minted, content, tunnel>>

------------------------------------------------------------------------------
(* verify, seed-f3, migrate, create-session-account                          *)

(* verify_fixed_role_contract.                                               *)
VerifyContract ==
    /\ dbCmd.pc = "contract"
    /\ runtime.roles
    /\ Ended
    /\ UNCHANGED <<group, people, session, runtime, stage, minted, content>>

(* psql runs three files one after the other and stops at the first error;
   the rows of the earlier files stay.                                       *)
SeedFile ==
    /\ content.schema
    /\ \/ /\ dbCmd.pc = "reset"
          /\ content' = [content EXCEPT !.seed = "empty"]
          /\ dbCmd' = [dbCmd EXCEPT !.pc = "data"]
       \/ /\ dbCmd.pc = "data"
          /\ content' = [content EXCEPT !.seed = "unconfigured"]
          /\ dbCmd' = [dbCmd EXCEPT !.pc = "profile"]
       \/ /\ dbCmd.pc = "profile"
          /\ content' = [content EXCEPT !.seed = dbCmd.profile]
          /\ dbCmd' = [dbCmd EXCEPT !.pc = "verifySeed"]
    /\ UNCHANGED <<group, people, session, runtime, stage, minted, tunnel>>

(* verify_f3_seed_output: every check passed and the profile is selected.    *)
SeedVerified == content.seed = dbCmd.profile

VerifySeed ==
    /\ dbCmd.pc = "verifySeed"
    /\ SeedVerified
    /\ Ended
    /\ UNCHANGED <<group, people, session, runtime, stage, minted, content>>

RunSubprocess ==
    /\ dbCmd.pc = "subprocess"
    /\ content' = IF dbCmd.kind = "migrate" THEN [content EXCEPT !.schema = TRUE]
                  ELSE [content EXCEPT !.accounts = 1]
    /\ dbCmd.kind = "account" => content.schema
    /\ Ended
    /\ UNCHANGED <<group, people, session, runtime, stage, minted>>

------------------------------------------------------------------------------
(* The team: membership changes in IAM, people connect and leave.            *)
MembershipChanges(u) ==
    /\ group' = IF u \in group THEN group \ {u} ELSE group \cup {u}
    /\ UNCHANGED <<people, session, runtime, stage, minted, content, tunnel, dbCmd>>

Connects(u) ==
    /\ people[u] = "login"
    /\ u \notin session
    /\ session' = session \cup {u}
    /\ UNCHANGED <<group, people, runtime, stage, minted, content, tunnel, dbCmd>>

(* The operator frees the port of a process that was left behind.            *)
KillLeftTunnel ==
    /\ tunnel.left
    /\ tunnel' = [tunnel EXCEPT !.left = FALSE]
    /\ UNCHANGED <<group, people, session, runtime, stage, minted, content, dbCmd>>

DbAccessNext ==
    \/ BootstrapBegin \/ SyncBegin \/ RotateBegin \/ VerifyBegin
    \/ \E p \in Profile : SeedBegin(p)
    \/ \E kind \in {"migrate", "account"} : SubprocessBegin(kind)
    \/ OpenTunnel \/ CommandFails
    \/ PreparePending \/ RotatePassword \/ ValidateLogin \/ Promote \/ Unstage
    \/ BootstrapPassword
    \/ \E u \in User : TerminateSession(u)
    \/ CommitRoles \/ StoreSecret
    \/ VerifyContract \/ SeedFile \/ VerifySeed \/ RunSubprocess
    \/ \E u \in User : MembershipChanges(u)
    \/ \E u \in User : Connects(u)
    \/ KillLeftTunnel

DbAccessSpec == DbAccessInit /\ [][DbAccessNext]_dbVars
------------------------------------------------------------------------------
(* Once the runtime secret exists, the database accepts a password that
   Secrets Manager holds: the current one, or, while a rotation is under way or
   was interrupted, the pending one that the next rotation takes up again.  No
   kill between two calls leaves the application locked out by a password that
   nobody knows.  (rotate_runtime, bootstrap)                                *)
RuntimePasswordIsHeld ==
    stage.current # NoPassword =>
        \/ LogsIn(stage.current)
        \/ LogsIn(stage.pending)

=============================================================================
