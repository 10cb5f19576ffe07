----------------------------- MODULE UserSession -----------------------------
(***************************************************************************)
(* The login sessions of the API (domain/authentication): requests that    *)
(* authenticate with one user_session row at the same time, slide its idle *)
(* expiry, end it and log it out.                                          *)
(*                                                                         *)
(* A request reads the clock when its authentication begins, reads the     *)
(* row, and writes only the columns it changes, in a transaction of its    *)
(* own: nothing locks the row between the read and the write.              *)
(***************************************************************************)
EXTENDS Integers

CONSTANTS
    Call,         \* HTTP requests in progress
    IdleTimeout,  \* idle_timeout_minutes
    AbsoluteTimeout,
    UpdateEvery,  \* last_seen_update_seconds
    MaxDelay,     \* bound: how long one request takes
    MaxClock      \* bound: the clock

ASSUME SessionAssumption ==
    /\ IdleTimeout \in Nat \ {0} /\ AbsoluteTimeout \in Nat \ {0} /\ UpdateEvery \in Nat \ {0}
    /\ MaxDelay \in Nat /\ MaxClock \in Nat

VARIABLES
    authClock,   \* the clock of the API
    sessionRow,  \* the row of user_session
    userActive,  \* app_user.is_active
    authCall,    \* requests
    accepted     \* when the last accepted request began, the longest pause so far

sessionVars == <<authClock, sessionRow, userActive, authCall, accepted>>

NoCall == [pc |-> "none"]
Least(a, b) == IF a < b THEN a ELSE b
Greatest(a, b) == IF a < b THEN b ELSE a

(* issue_development_session                                                 *)
Issued(at) ==
    [lastSeen |-> at, idle |-> Least(at + IdleTimeout, at + AbsoluteTimeout),
     absolute |-> at + AbsoluteTimeout, revoked |-> "no"]

SessionInit ==
    /\ authClock = 0
    /\ sessionRow = Issued(0)
    /\ userActive = TRUE
    /\ authCall = [c \in Call |-> NoCall]
    /\ accepted = [last |-> 0, pause |-> 0]

------------------------------------------------------------------------------
Ages ==
    /\ authClock < MaxClock
    /\ \A c \in Call : authCall[c] # NoCall => authClock - authCall[c].at < MaxDelay
    /\ authClock' = authClock + 1
    /\ UNCHANGED <<sessionRow, userActive, authCall, accepted>>

Deactivate ==
    /\ userActive
    /\ userActive' = FALSE
    /\ UNCHANGED <<authClock, sessionRow, authCall, accepted>>

CallGoes(c, pc) == authCall' = [authCall EXCEPT ![c].pc = pc]
CallEnds(c) == authCall' = [authCall EXCEPT ![c] = NoCall]

(* A request with the cookie; DELETE /auth/session logs out afterwards.      *)
Arrive(c, logout) ==
    /\ authCall[c] = NoCall
    /\ authCall' = [authCall EXCEPT ![c] = [pc |-> "read", at |-> authClock, logout |-> logout]]
    /\ UNCHANGED <<authClock, sessionRow, userActive, accepted>>

Expired(row, at) == row.idle <= at \/ row.absolute <= at
SlideDue(row, at) == at - row.lastSeen >= UpdateEvery

ReadSession(c) ==
    LET call == authCall[c] IN
    /\ call.pc = "read"
    /\ IF sessionRow.revoked # "no" THEN CallEnds(c)
       ELSE IF Expired(sessionRow, call.at) THEN CallGoes(c, "expire")
       ELSE authCall' = [authCall EXCEPT ![c] =
               [pc |-> "user", at |-> call.at, logout |-> call.logout, row |-> sessionRow]]
    /\ UNCHANGED <<authClock, sessionRow, userActive, accepted>>

ExpireSession(c) ==
    /\ authCall[c].pc = "expire"
    /\ sessionRow' = [sessionRow EXCEPT !.revoked = "EXPIRED"]
    /\ CallEnds(c)
    /\ UNCHANGED <<authClock, userActive, accepted>>

(* Accepted: the request goes on to its handler.                             *)
Accepts(c) ==
    LET at == authCall[c].at IN
    /\ accepted' = [last |-> Greatest(accepted.last, at),
                    pause |-> Greatest(accepted.pause, at - accepted.last)]
    /\ IF authCall[c].logout
       THEN authCall' = [authCall EXCEPT ![c] = [pc |-> "logout", at |-> at]]
       ELSE CallEnds(c)

\* Faulty: notes the visit and leaves the term.
SlidSeenOnly(row, read, at) == [row EXCEPT !.lastSeen = at]

(* Only the columns that changed are written.                                *)
Slid(row, read, at) ==
    [row EXCEPT !.lastSeen = at, !.idle = Least(at + IdleTimeout, read.absolute)]

FindUser(c) ==
    LET call == authCall[c] IN
    /\ call.pc = "user"
    /\ IF ~userActive THEN CallEnds(c) /\ UNCHANGED accepted
       ELSE IF SlideDue(call.row, call.at) THEN CallGoes(c, "slide") /\ UNCHANGED accepted
       ELSE Accepts(c)
    /\ UNCHANGED <<authClock, sessionRow, userActive>>

Slide(c) ==
    LET call == authCall[c] IN
    /\ call.pc = "slide"
    /\ sessionRow' = Slid(sessionRow, call.row, call.at)
    /\ Accepts(c)
    /\ UNCHANGED <<authClock, userActive>>

(* revoke_session, after the CSRF token was checked.                         *)
Logout(c) ==
    /\ authCall[c].pc = "logout"
    /\ sessionRow' = IF sessionRow.revoked = "no"
                     THEN [sessionRow EXCEPT !.revoked = "USER_LOGOUT"] ELSE sessionRow
    /\ CallEnds(c)
    /\ UNCHANGED <<authClock, userActive, accepted>>

(* A wrong CSRF token, a lost connection to the database.                    *)
CallFails(c) ==
    /\ authCall[c] # NoCall
    /\ CallEnds(c)
    /\ UNCHANGED <<authClock, sessionRow, userActive, accepted>>

SessionNext ==
    \/ Ages \/ Deactivate
    \/ \E c \in Call :
          \/ \E logout \in BOOLEAN : Arrive(c, logout)
          \/ ReadSession(c) \/ ExpireSession(c) \/ FindUser(c) \/ Slide(c) \/ Logout(c)
          \/ CallFails(c)

SessionSpec == SessionInit /\ [][SessionNext]_sessionVars
------------------------------------------------------------------------------
(* A session ends when it must and no earlier.  One that is used again and again
   is not ended for idleness, however its requests overlap and whichever of them
   writes last: before the absolute limit it ends only after a pause of the idle
   timeout, less the time one request takes and once more the longer of that
   time and the interval in which last_seen_at is not updated.  One that was
   logged out or has expired is never usable again, also when a request that
   read it before slides it after.
   (authenticate_session, revoke_session)                                    *)
SessionKeepsItsTerm ==
    [][/\ sessionRow.revoked # "EXPIRED" /\ sessionRow'.revoked = "EXPIRED" =>
             \/ sessionRow.absolute <= authClock
             \/ Greatest(accepted.pause, authClock - accepted.last)
                   >= IdleTimeout - MaxDelay - Greatest(UpdateEvery, MaxDelay)
       /\ sessionRow.revoked # "no" => sessionRow'.revoked # "no"]_sessionVars

=============================================================================
