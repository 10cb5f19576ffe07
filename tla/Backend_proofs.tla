--------------------------- MODULE Backend_proofs ---------------------------
(***************************************************************************)
(* What holds of the backend's own parts for every value of their           *)
(* constants: a session ends by its rules and not before (UserSession), the *)
(* analysis of voice memos never runs twice at a time, leaves no file behind*)
(* and ticks only what was said and not yet filled in (VoiceMemo), and the  *)
(* pages of the agenda show every entry once (Agenda).                      *)
(***************************************************************************)
EXTENDS MCBackend, FiniteSetTheorems,
        WellFoundedInduction, TLAPS

-----------------------------------------------------------------------------
(* The session                                                               *)

(* How far a row that is slid out of order can lie behind the last visit. *)
Lag == Greatest(UpdateEvery, MaxDelay)

RowHolds ==
    /\ DOMAIN sessionRow = {"lastSeen", "idle", "absolute", "revoked"}
    /\ sessionRow.lastSeen \in Nat
    /\ sessionRow.absolute = AbsoluteTimeout
    /\ sessionRow.idle = Least(sessionRow.lastSeen + IdleTimeout, AbsoluteTimeout)

VisitsHold ==
    /\ accepted.last \in Nat /\ accepted.pause \in Nat
    /\ accepted.last <= authClock
    /\ accepted.last <= sessionRow.lastSeen + Lag

(* The session was not used for as long as it takes to end it, or a visit of a
   request that was already under way came in between, after a long pause.   *)
WasIdle(at) ==
    \/ AbsoluteTimeout <= at
    \/ accepted.pause >= IdleTimeout - MaxDelay - Lag
    \/ at - accepted.last >= IdleTimeout - Lag

CallFields(pc) ==
    CASE pc \in {"read", "expire"} -> {"pc", "at", "logout"}
      [] pc \in {"user", "slide"} -> {"pc", "at", "logout", "row"}
      [] pc = "logout" -> {"pc", "at"}
      [] OTHER -> {"pc"}

(* No request is older than the bound; one that is about to accept a visit
   without noting it is not far from the visit the row notes.                *)
CallHolds(c) ==
    /\ authCall[c].pc \in {"none", "read", "expire", "user", "slide", "logout"}
    /\ DOMAIN authCall[c] = CallFields(authCall[c].pc)
    /\ authCall[c].pc # "none" =>
          /\ authCall[c].at \in Nat
          /\ authCall[c].at <= authClock /\ authClock <= authCall[c].at + MaxDelay
    /\ authCall[c].pc \in {"user", "slide"} =>
          authCall[c].row.lastSeen \in Nat /\ authCall[c].row.absolute = AbsoluteTimeout
    /\ authCall[c].pc = "user" /\ ~SlideDue(authCall[c].row, authCall[c].at) =>
          authCall[c].at <= sessionRow.lastSeen + Lag
    /\ authCall[c].pc = "expire" => WasIdle(authCall[c].at)

SessionInv ==
    /\ authClock \in Nat
    /\ RowHolds
    /\ VisitsHold
    /\ DOMAIN authCall = Call
    /\ \A c \in Call : CallHolds(c)

LEMMA LagBounds ==
    SessionAssumption => Lag \in Nat /\ Lag >= UpdateEvery /\ Lag >= MaxDelay
  BY DEF SessionAssumption, Lag, Greatest

(* A step of one request.  What the others rely on is the visit that the row
   notes and what made the session idle.                                     *)
LEMMA OneCall ==
    ASSUME SessionInv, NEW c \in Call, NEW call,
           authCall' = [authCall EXCEPT ![c] = call],
           UNCHANGED authClock,
           RowHolds', VisitsHold', CallHolds(c)',
           \A d \in Call : d # c /\ authCall[d].pc = "user"
                               /\ ~SlideDue(authCall[d].row, authCall[d].at) =>
               authCall[d].at <= sessionRow'.lastSeen + Lag,
           \A d \in Call : d # c /\ authCall[d].pc = "expire" =>
               WasIdle(authCall[d].at)'
    PROVE  SessionInv'
<1>1. \A d \in Call : d # c => authCall'[d] = authCall[d]
  BY DEF SessionInv
<1>2. ASSUME NEW d \in Call, d # c PROVE CallHolds(d)'
  <2>1. CallHolds(d) /\ authCall'[d] = authCall[d]
    BY <1>1, <1>2 DEF SessionInv
  <2>2. authCall[d].pc = "expire" => WasIdle(authCall[d].at)'
    BY <1>2, <2>1
  <2>3. authCall[d].pc = "user" /\ ~SlideDue(authCall[d].row, authCall[d].at) =>
          authCall[d].at <= sessionRow'.lastSeen + Lag
    BY <1>2
  <2> QED
    BY <2>1, <2>2, <2>3 DEF CallHolds, SlideDue, Lag, Greatest, CallFields
<1> QED
  BY <1>2 DEF SessionInv

(* A step of one request that leaves the session as it is. *)
LEMMA CallOnly ==
    ASSUME SessionInv, NEW c \in Call, NEW call,
           authCall' = [authCall EXCEPT ![c] = call],
           UNCHANGED <<authClock, sessionRow, accepted>>,
           CallHolds(c)'
    PROVE  SessionInv'
<1>1. RowHolds' /\ VisitsHold'
  BY DEF SessionInv, RowHolds, VisitsHold, Lag, Greatest
<1>2. \A d \in Call : d # c /\ authCall[d].pc = "user"
                          /\ ~SlideDue(authCall[d].row, authCall[d].at) =>
               authCall[d].at <= sessionRow'.lastSeen + Lag
  BY DEF SessionInv, CallHolds
<1>3. \A d \in Call : d # c /\ authCall[d].pc = "expire" => WasIdle(authCall[d].at)'
  BY DEF SessionInv, CallHolds, WasIdle, Lag, Greatest
<1> QED
  BY <1>1, <1>2, <1>3, OneCall

LEMMA NoCallHolds ==
    ASSUME NEW c \in Call, authCall'[c] = NoCall
    PROVE  CallHolds(c)'
  BY DEF NoCall, CallHolds, CallFields

LEMMA AgesKeeps ==
    ASSUME SessionInv, SessionAssumption, Ages
    PROVE  SessionInv'
<1>1. /\ authClock \in Nat /\ authClock' = authClock + 1
      /\ UNCHANGED <<sessionRow, userActive, authCall, accepted>>
      /\ Lag \in Nat
  BY LagBounds DEF Ages, SessionInv
<1>2. RowHolds' /\ VisitsHold'
  BY <1>1 DEF SessionInv, RowHolds, VisitsHold, Lag, Greatest
<1>3. ASSUME NEW c \in Call PROVE CallHolds(c)'
  <2>1. authCall[c].pc # "none" =>
          /\ authCall[c].at <= authClock' /\ authClock' <= authCall[c].at + MaxDelay
    <3>1. authCall[c].pc # "none" => authClock - authCall[c].at < MaxDelay
      BY DEF Ages, NoCall
    <3> QED
      BY <1>1, <3>1 DEF SessionInv, CallHolds, SessionAssumption
  <2>2. authCall[c].pc = "expire" => WasIdle(authCall[c].at)'
    BY <1>1 DEF SessionInv, CallHolds, WasIdle, Lag, Greatest
  <2> QED
    BY <1>1, <2>1, <2>2 DEF SessionInv, CallHolds, SlideDue, Lag, Greatest, CallFields
<1> QED
  BY <1>1, <1>2, <1>3 DEF SessionInv

LEMMA DeactivateKeeps ==
    ASSUME SessionInv, Deactivate
    PROVE  SessionInv'
  BY DEF Deactivate, SessionInv, RowHolds, VisitsHold, CallHolds, WasIdle, SlideDue, Lag, Greatest,
     CallFields

LEMMA ArriveKeeps ==
    ASSUME SessionInv, SessionAssumption, NEW c \in Call, NEW logout \in BOOLEAN, Arrive(c, logout)
    PROVE  SessionInv'
<1> DEFINE call == [pc |-> "read", at |-> authClock, logout |-> logout]
<1>1. /\ authCall' = [authCall EXCEPT ![c] = call]
      /\ UNCHANGED <<authClock, sessionRow, accepted>>
  BY DEF Arrive
<1>2. authCall'[c] = call /\ authClock \in Nat
  BY <1>1 DEF SessionInv
<1>3. CallHolds(c)'
  BY <1>1, <1>2 DEF CallHolds, CallFields, SessionAssumption
<1> QED
  BY <1>1, <1>3, CallOnly

(* A session that is found idle has not been visited since the row was noted,
   but for what the row may lag behind.                                      *)
LEMMA ExpiredWasIdle ==
    ASSUME SessionInv, SessionAssumption, NEW at \in Nat, Expired(sessionRow, at)
    PROVE  WasIdle(at)
<1>1. CASE sessionRow.absolute <= at
  BY <1>1 DEF SessionInv, RowHolds, WasIdle
<1>2. CASE sessionRow.idle <= at /\ ~(AbsoluteTimeout <= at)
  <2>1. sessionRow.lastSeen + IdleTimeout <= at
    BY <1>2 DEF SessionInv, RowHolds, Least, SessionAssumption
  <2>2. accepted.last <= sessionRow.lastSeen + Lag
    BY DEF SessionInv, VisitsHold
  <2>3. accepted.last \in Nat /\ sessionRow.lastSeen \in Nat /\ Lag \in Nat /\ IdleTimeout \in Nat
    BY LagBounds DEF SessionInv, VisitsHold, RowHolds, SessionAssumption
  <2>4. at - accepted.last >= IdleTimeout - Lag
    BY <2>1, <2>2, <2>3
  <2> QED
    BY <2>4 DEF WasIdle
<1> QED
  BY <1>1, <1>2 DEF Expired, WasIdle

LEMMA ReadSessionKeeps ==
    ASSUME SessionInv, SessionAssumption, NEW c \in Call, ReadSession(c)
    PROVE  SessionInv'
<1> DEFINE call == authCall[c]
<1>1. /\ call.pc = "read" /\ CallHolds(c)
      /\ UNCHANGED <<authClock, sessionRow, userActive, accepted>>
  BY DEF ReadSession, SessionInv
<1>2. CASE sessionRow.revoked # "no"
  <2>1. authCall' = [authCall EXCEPT ![c] = NoCall]
    BY <1>2 DEF ReadSession, CallEnds
  <2>2. authCall'[c] = NoCall
    BY <2>1 DEF SessionInv
  <2> QED
    BY <1>1, <2>1, <2>2, NoCallHolds, CallOnly
<1>3. CASE sessionRow.revoked = "no" /\ Expired(sessionRow, call.at)
  <2> DEFINE next == [call EXCEPT !.pc = "expire"]
  <2>1. authCall' = [authCall EXCEPT ![c] = next]
    BY <1>3 DEF ReadSession, CallGoes
  <2>2. /\ next.pc = "expire" /\ next.at = call.at /\ DOMAIN next = {"pc", "at", "logout"}
    BY <1>1 DEF CallHolds, CallFields
  <2> HIDE DEF next
  <2>3. authCall'[c] = next
    BY <2>1 DEF SessionInv
  <2>4. WasIdle(next.at)
    BY <1>1, <1>3, <2>2, ExpiredWasIdle DEF CallHolds
  <2>5. WasIdle(authCall[c].at)'
    BY <1>1, <2>2, <2>3, <2>4 DEF WasIdle, Lag, Greatest
  <2>6. CallHolds(c)'
    BY <1>1, <2>2, <2>3, <2>5 DEF CallHolds, CallFields
  <2> QED
    BY <1>1, <2>1, <2>6, CallOnly
<1>4. CASE sessionRow.revoked = "no" /\ ~Expired(sessionRow, call.at)
  <2> DEFINE next == [pc |-> "user", at |-> call.at, logout |-> call.logout, row |-> sessionRow]
  <2>1. authCall' = [authCall EXCEPT ![c] = next]
    BY <1>4 DEF ReadSession
  <2>2. authCall'[c] = next
    BY <2>1 DEF SessionInv
  <2>3. ~SlideDue(sessionRow, call.at) => call.at <= sessionRow.lastSeen + Lag
    BY <1>1, LagBounds DEF SlideDue, SessionInv, RowHolds, CallHolds, SessionAssumption
  <2>4. CallHolds(c)'
    BY <1>1, <2>2, <2>3 DEF CallHolds, CallFields, SessionInv, RowHolds, SlideDue, Lag, Greatest
  <2> QED
    BY <1>1, <2>1, <2>4, CallOnly
<1> QED
  BY <1>2, <1>3, <1>4

(* A visit that is noted may come after a long pause, but never makes less of
   the idle time that another request has seen.                              *)
LEMMA VisitKeepsIdle ==
    ASSUME SessionInv, SessionAssumption, NEW c \in Call, authCall[c].pc # "none",
           accepted' = [last |-> Greatest(accepted.last, authCall[c].at),
                        pause |-> Greatest(accepted.pause, authCall[c].at - accepted.last)],
           NEW at \in Nat, at <= authClock, WasIdle(at)
    PROVE  \/ AbsoluteTimeout <= at
           \/ accepted'.pause >= IdleTimeout - MaxDelay - Lag
           \/ at - accepted'.last >= IdleTimeout - Lag
<1>1. PICK last \in Nat, pause \in Nat, mine \in Nat, lag \in Nat :
        last = accepted.last /\ pause = accepted.pause /\ mine = authCall[c].at /\ lag = Lag
  BY LagBounds DEF SessionInv, VisitsHold, CallHolds
<1>2. authClock <= mine + MaxDelay /\ authClock \in Nat
  BY <1>1 DEF SessionInv, CallHolds
<1>3. accepted'.last = Greatest(last, mine) /\ accepted'.pause = Greatest(pause, mine - last)
  BY <1>1
<1>4. MaxDelay \in Nat /\ IdleTimeout \in Nat
  BY DEF SessionAssumption
<1>5. CASE pause >= IdleTimeout - MaxDelay - lag
  <2>1. Greatest(pause, mine - last) >= pause /\ Greatest(pause, mine - last) \in Int
    BY DEF Greatest
  <2> QED
    BY <1>1, <1>3, <1>4, <1>5, <2>1
<1>6. CASE at - last >= IdleTimeout - lag /\ mine <= last
  <2>1. Greatest(last, mine) = last
    BY <1>6 DEF Greatest
  <2> QED
    BY <1>1, <1>3, <1>6, <2>1
<1>7. CASE at - last >= IdleTimeout - lag /\ mine > last
  <2>1. mine - last >= IdleTimeout - MaxDelay - lag
    BY <1>2, <1>4, <1>7
  <2>2. Greatest(pause, mine - last) >= mine - last
    BY DEF Greatest
  <2>3. Greatest(pause, mine - last) \in Int
    BY DEF Greatest
  <2> QED
    BY <1>1, <1>3, <1>4, <2>1, <2>2, <2>3
<1> QED
  BY <1>1, <1>5, <1>6, <1>7 DEF WasIdle

(* A visit is accepted over a row that notes one which is not far from it. *)
LEMMA AcceptKeeps ==
    ASSUME SessionInv, SessionAssumption, NEW c \in Call,
           authCall[c].pc \in {"user", "slide"}, Accepts(c), authClock' = authClock,
           RowHolds',
           authCall[c].at <= sessionRow'.lastSeen + Lag,
           accepted.last <= sessionRow'.lastSeen + Lag,
           \A d \in Call : d # c /\ authCall[d].pc = "user"
                               /\ ~SlideDue(authCall[d].row, authCall[d].at) =>
               authCall[d].at <= sessionRow'.lastSeen + Lag
    PROVE  SessionInv'
<1> DEFINE at == authCall[c].at
           next == IF authCall[c].logout THEN [pc |-> "logout", at |-> at] ELSE NoCall
<1>1. /\ authCall' = [authCall EXCEPT ![c] = next]
      /\ accepted' = [last |-> Greatest(accepted.last, at),
                      pause |-> Greatest(accepted.pause, at - accepted.last)]
  BY DEF Accepts, CallEnds
<1>2. /\ at \in Nat /\ at <= authClock /\ authClock <= at + MaxDelay
      /\ authCall[c].pc # "none"
  BY DEF SessionInv, CallHolds
<1>3. VisitsHold'
  <2>1. accepted.last \in Nat /\ accepted.pause \in Nat /\ accepted.last <= authClock
    BY DEF SessionInv, VisitsHold
  <2>2. accepted'.last \in Nat /\ accepted'.pause \in Nat
    BY <1>1, <1>2, <2>1 DEF Greatest
  <2>3. accepted'.last <= authClock' /\ accepted'.last <= sessionRow'.lastSeen + Lag
    BY <1>1, <1>2, <2>1 DEF Greatest
  <2> QED
    BY <2>2, <2>3 DEF VisitsHold, Lag, Greatest
<1>4. authCall'[c] = next
  BY <1>1 DEF SessionInv
<1>5. CallHolds(c)'
  BY <1>2, <1>4 DEF CallHolds, CallFields, NoCall
<1>6. ASSUME NEW d \in Call, d # c, authCall[d].pc = "expire" PROVE WasIdle(authCall[d].at)'
  <2>1. authCall'[d] = authCall[d]
    BY <1>1, <1>6 DEF SessionInv
  <2>2. authCall[d].at \in Nat /\ authCall[d].at <= authClock /\ WasIdle(authCall[d].at)
    BY <1>6 DEF SessionInv, CallHolds
  <2>3. \/ AbsoluteTimeout <= authCall[d].at
        \/ accepted'.pause >= IdleTimeout - MaxDelay - Lag
        \/ authCall[d].at - accepted'.last >= IdleTimeout - Lag
    BY <1>1, <1>2, <2>2, VisitKeepsIdle
  <2> QED
    BY <2>1, <2>3 DEF WasIdle, Lag, Greatest
<1> QED
  BY <1>1, <1>3, <1>5, <1>6, OneCall

LEMMA FindUserKeeps ==
    ASSUME SessionInv, SessionAssumption, NEW c \in Call, FindUser(c)
    PROVE  SessionInv'
<1> DEFINE call == authCall[c]
<1>1. /\ call.pc = "user" /\ CallHolds(c)
      /\ UNCHANGED <<authClock, sessionRow, userActive>>
  BY DEF FindUser, SessionInv
<1>2. CASE ~userActive
  <2>1. authCall' = [authCall EXCEPT ![c] = NoCall] /\ accepted' = accepted
    BY <1>2 DEF FindUser, CallEnds
  <2>2. authCall'[c] = NoCall
    BY <2>1 DEF SessionInv
  <2> QED
    BY <1>1, <2>1, <2>2, NoCallHolds, CallOnly
<1>3. CASE userActive /\ SlideDue(call.row, call.at)
  <2> DEFINE next == [call EXCEPT !.pc = "slide"]
  <2>1. authCall' = [authCall EXCEPT ![c] = next] /\ accepted' = accepted
    BY <1>3 DEF FindUser, CallGoes
  <2>2. /\ next.pc = "slide" /\ next.at = call.at /\ next.row = call.row
        /\ DOMAIN next = {"pc", "at", "logout", "row"}
    BY <1>1 DEF CallHolds, CallFields
  <2> HIDE DEF next
  <2>3. authCall'[c] = next
    BY <2>1 DEF SessionInv
  <2>4. CallHolds(c)'
    BY <1>1, <2>2, <2>3 DEF CallHolds, CallFields
  <2> QED
    BY <1>1, <2>1, <2>4, CallOnly
<1>4. CASE userActive /\ ~SlideDue(call.row, call.at)
  <2>1. Accepts(c)
    BY <1>4 DEF FindUser
  <2>2. RowHolds' /\ call.at <= sessionRow'.lastSeen + Lag
    BY <1>1, <1>4 DEF SessionInv, RowHolds, CallHolds
  <2>3. accepted.last <= sessionRow'.lastSeen + Lag
    BY <1>1 DEF SessionInv, VisitsHold
  <2>4. \A d \in Call : d # c /\ authCall[d].pc = "user"
                            /\ ~SlideDue(authCall[d].row, authCall[d].at) =>
               authCall[d].at <= sessionRow'.lastSeen + Lag
    BY <1>1 DEF SessionInv, CallHolds
  <2> QED
    BY <1>1, <2>1, <2>2, <2>3, <2>4, AcceptKeeps
<1> QED
  BY <1>2, <1>3, <1>4

(* However late a row is slid, no visit is far from the one it notes: all of
   them are of requests in progress or before.                               *)
LEMMA SlideKeeps ==
    ASSUME SessionInv, SessionAssumption, NEW c \in Call, Slide(c)
    PROVE  SessionInv'
<1> DEFINE call == authCall[c]
           row == [sessionRow EXCEPT !.lastSeen = call.at,
                                     !.idle = Least(call.at + IdleTimeout, call.row.absolute)]
<1>1. /\ call.pc = "slide" /\ CallHolds(c)
      /\ sessionRow' = row /\ Accepts(c)
      /\ UNCHANGED <<authClock, userActive>>
  BY DEF Slide, Slid, SessionInv
<1>2. /\ DOMAIN row = DOMAIN sessionRow /\ row.lastSeen = call.at
      /\ row.idle = Least(call.at + IdleTimeout, call.row.absolute)
      /\ row.absolute = sessionRow.absolute
  BY DEF SessionInv, RowHolds
<1> HIDE DEF row
<1>3. /\ call.at \in Nat /\ call.row.absolute = AbsoluteTimeout
      /\ authClock <= call.at + MaxDelay /\ authClock \in Nat
  BY <1>1 DEF SessionInv, CallHolds
<1>4. RowHolds'
  BY <1>1, <1>2, <1>3 DEF SessionInv, RowHolds
<1>5. authClock <= sessionRow'.lastSeen + Lag
  BY <1>1, <1>2, <1>3, LagBounds DEF SessionAssumption
<1>6. call.at <= sessionRow'.lastSeen + Lag
  BY <1>1, <1>2, <1>3, LagBounds DEF SessionAssumption
<1>7. accepted.last <= sessionRow'.lastSeen + Lag
  BY <1>1, <1>2, <1>3, <1>5, LagBounds DEF SessionInv, VisitsHold
<1>8. \A d \in Call : authCall[d].pc = "user" => authCall[d].at <= sessionRow'.lastSeen + Lag
  BY <1>1, <1>2, <1>3, <1>5, LagBounds DEF SessionInv, CallHolds
<1> QED
  BY <1>1, <1>4, <1>6, <1>7, <1>8, AcceptKeeps

(* Steps that end the session leave what the others have seen. *)
LEMMA RevokedKeeps ==
    ASSUME SessionInv, NEW c \in Call, NEW why,
           sessionRow' = sessionRow \/ sessionRow' = [sessionRow EXCEPT !.revoked = why],
           CallEnds(c), UNCHANGED <<authClock, accepted>>
    PROVE  SessionInv'
<1>1. /\ authCall' = [authCall EXCEPT ![c] = NoCall] /\ authCall'[c] = NoCall
  BY DEF CallEnds, SessionInv
<1>2. /\ DOMAIN sessionRow' = DOMAIN sessionRow /\ sessionRow'.lastSeen = sessionRow.lastSeen
      /\ sessionRow'.idle = sessionRow.idle /\ sessionRow'.absolute = sessionRow.absolute
  BY DEF SessionInv, RowHolds
<1>3. RowHolds' /\ VisitsHold'
  BY <1>2 DEF SessionInv, RowHolds, VisitsHold, Lag, Greatest
<1>4. \A d \in Call : d # c /\ authCall[d].pc = "user"
                          /\ ~SlideDue(authCall[d].row, authCall[d].at) =>
               authCall[d].at <= sessionRow'.lastSeen + Lag
  BY <1>2 DEF SessionInv, CallHolds
<1>5. \A d \in Call : d # c /\ authCall[d].pc = "expire" => WasIdle(authCall[d].at)'
  BY <1>1 DEF SessionInv, CallHolds, WasIdle, Lag, Greatest
<1> QED
  BY <1>1, <1>3, <1>4, <1>5, NoCallHolds, OneCall

LEMMA SessionStarts == SessionAssumption /\ SessionInit => SessionInv
<1> SUFFICES ASSUME SessionAssumption, SessionInit PROVE SessionInv
  OBVIOUS
<1>1. RowHolds
  BY DEF SessionInit, Issued, RowHolds, Least, SessionAssumption
<1>2. VisitsHold
  BY LagBounds DEF SessionInit, Issued, VisitsHold
<1>3. \A c \in Call : CallHolds(c)
  BY DEF SessionInit, NoCall, CallHolds, CallFields
<1> QED
  BY <1>1, <1>2, <1>3 DEF SessionInit, SessionInv

(* SessionInv is inductive. *)
LEMMA SessionStep ==
    ASSUME SessionInv, SessionAssumption, [SessionNext]_sessionVars
    PROVE  SessionInv'
<1>1. CASE Ages \/ Deactivate
  BY <1>1, AgesKeeps, DeactivateKeeps
<1>2. CASE \E c \in Call, logout \in BOOLEAN : Arrive(c, logout)
  BY <1>2, ArriveKeeps
<1>3. CASE \E c \in Call : ReadSession(c) \/ FindUser(c) \/ Slide(c)
  BY <1>3, ReadSessionKeeps, FindUserKeeps, SlideKeeps
<1>4. CASE \E c \in Call : ExpireSession(c) \/ Logout(c) \/ CallFails(c)
  BY <1>4, RevokedKeeps DEF ExpireSession, Logout, CallFails
<1>5. CASE UNCHANGED sessionVars
  BY <1>5 DEF sessionVars, SessionInv, RowHolds, VisitsHold, CallHolds, WasIdle, SlideDue, Lag,
     Greatest, CallFields
<1> QED
  BY <1>1, <1>2, <1>3, <1>4, <1>5 DEF SessionNext

(* The row notes a visit that is never far from the last one, and a request
   that is about to end the session has seen it idle.                        *)
THEOREM SessionInvariance == SessionSpec => []SessionInv
<1>1. SessionInit => SessionInv
  BY SessionStarts, SessionAssumption
<1>2. SessionInv /\ [SessionNext]_sessionVars => SessionInv'
  BY SessionStep, SessionAssumption
<1> QED
  BY <1>1, <1>2, PTL DEF SessionSpec

(* Who ends a session as expired has found it over its absolute limit, or not
   visited for the idle timeout less what the row may lag behind.            *)
LEMMA ExpiresWhenIdle ==
    ASSUME SessionInv, SessionAssumption, NEW c \in Call, ExpireSession(c)
    PROVE  \/ sessionRow.absolute <= authClock
           \/ Greatest(accepted.pause, authClock - accepted.last)
                 >= IdleTimeout - MaxDelay - Lag
<1>1. /\ WasIdle(authCall[c].at) /\ authCall[c].at \in Nat /\ authCall[c].at <= authClock
      /\ authClock \in Nat /\ accepted.last \in Nat /\ accepted.pause \in Nat
      /\ sessionRow.absolute = AbsoluteTimeout
  BY DEF ExpireSession, SessionInv, CallHolds, VisitsHold, RowHolds
<1>2. /\ MaxDelay \in Nat /\ IdleTimeout \in Nat /\ AbsoluteTimeout \in Nat /\ Lag \in Nat
  BY LagBounds DEF SessionAssumption
<1>3. CASE AbsoluteTimeout <= authCall[c].at
  BY <1>1, <1>2, <1>3
<1>4. CASE accepted.pause >= IdleTimeout - MaxDelay - Lag
  BY <1>1, <1>2, <1>4 DEF Greatest
<1>5. CASE authCall[c].at - accepted.last >= IdleTimeout - Lag
  <2>1. authClock - accepted.last >= IdleTimeout - MaxDelay - Lag
    BY <1>1, <1>2, <1>5
  <2> QED
    BY <1>1, <1>2, <2>1 DEF Greatest
<1> QED
  BY <1>1, <1>3, <1>4, <1>5 DEF WasIdle

(* A session that is used again and again is not ended for idleness, and one
   that has ended stays so, whichever request writes last.                   *)
THEOREM TermKept == SessionSpec => SessionKeepsItsTerm
<1> DEFINE NotEarly ==
        sessionRow.revoked # "EXPIRED" /\ sessionRow'.revoked = "EXPIRED" =>
             \/ sessionRow.absolute <= authClock
             \/ Greatest(accepted.pause, authClock - accepted.last)
                   >= IdleTimeout - MaxDelay - Greatest(UpdateEvery, MaxDelay)
      StaysEnded == sessionRow.revoked # "no" => sessionRow'.revoked # "no"
<1>1. SessionInv /\ SessionNext => NotEarly
  <2> SUFFICES ASSUME SessionInv, SessionNext, sessionRow.revoked # "EXPIRED",
                      sessionRow'.revoked = "EXPIRED"
               PROVE  \/ sessionRow.absolute <= authClock
                      \/ Greatest(accepted.pause, authClock - accepted.last)
                            >= IdleTimeout - MaxDelay - Greatest(UpdateEvery, MaxDelay)
    OBVIOUS
  <2>1. \E c \in Call : ExpireSession(c)
    <3>1. DOMAIN sessionRow = {"lastSeen", "idle", "absolute", "revoked"}
      BY DEF SessionInv, RowHolds
    <3>2. \A c \in Call : Slide(c) => sessionRow'.revoked = sessionRow.revoked
      BY <3>1 DEF Slide, Slid
    <3>3. \A c \in Call : Logout(c) => sessionRow'.revoked \in {sessionRow.revoked, "USER_LOGOUT"}
      BY <3>1 DEF Logout
    <3> QED
      BY <3>2, <3>3 DEF SessionNext, Ages, Deactivate, Arrive, ReadSession, FindUser, CallFails
  <2> QED
    BY <2>1, ExpiresWhenIdle, SessionAssumption DEF Lag
<1>2. SessionInv /\ SessionNext => StaysEnded
  <2> SUFFICES ASSUME SessionInv, SessionNext, sessionRow.revoked # "no"
               PROVE  sessionRow'.revoked # "no"
    OBVIOUS
  <2>1. DOMAIN sessionRow = {"lastSeen", "idle", "absolute", "revoked"}
    BY DEF SessionInv, RowHolds
  <2>2. \A c \in Call : Slide(c) => sessionRow'.revoked = sessionRow.revoked
    BY <2>1 DEF Slide, Slid
  <2>3. \A c \in Call : Logout(c) => sessionRow' = sessionRow
    BY DEF Logout
  <2>4. \A c \in Call : ExpireSession(c) => sessionRow'.revoked = "EXPIRED"
    BY <2>1 DEF ExpireSession
  <2> QED
    BY <2>2, <2>3, <2>4 DEF SessionNext, Ages, Deactivate, Arrive, ReadSession, FindUser, CallFails
<1>3. SessionInv /\ [SessionNext]_sessionVars => [NotEarly /\ StaysEnded]_sessionVars
  BY <1>1, <1>2
<1> QED
  BY <1>3, SessionInvariance, PTL DEF SessionSpec, SessionKeepsItsTerm

-----------------------------------------------------------------------------
(* The voice memo                                                            *)

(* An answer ticks only what was heard and what the form left empty. *)
WhatHolds(what) ==
    what.outcome = "analysed" =>
        \A p \in what.proposals :
            p.ticked => p.field \in what.analysis.heard \ what.form.filled

(* A request between the claim of the slot and its end. *)
InRoute(m) == uploader[m].at \in {"parsing", "copying", "waiting", "leaving"}

(* Who has the slot: the request, then its task, then both. *)
HasSlot(m) == InRoute(m) \/ m = analysisTask

RequestHolds(m) ==
    /\ uploader[m].at \in {"away", "parsing", "copying", "waiting", "leaving", "answered"}
    /\ uploader[m].at \in {"leaving", "answered"} => WhatHolds(uploader[m].what)
    /\ uploader[m].at \in {"parsing", "copying"} => m # analysisTask
    /\ uploader[m].at = "copying" => m \in audio
    /\ uploader[m].at = "waiting" => m = analysisTask
    /\ InRoute(m) => lifespan = "serving"

(* Only the task of the slot is there, and its file until it is done. *)
TaskHolds(m) ==
    /\ memoJob[m].at \in {"none", "queued", "transcribing", "analysing", "done"}
    /\ memoJob[m].at # "none" <=> m = analysisTask
    /\ m \in Working => /\ DOMAIN memoJob[m] = {"at", "form"} /\ memoJob[m].form \in Forms
                        /\ m \in audio
                        /\ lifespan # "closed"
    /\ memoJob[m].at = "done" => WhatHolds(memoJob[m].what)
    /\ m \in audio => m \in Working \/ At(m, "copying")

VoiceInv ==
    /\ DOMAIN uploader = Memo /\ DOMAIN memoJob = Memo
    /\ audio \subseteq Memo
    /\ analysisTask \in Memo \cup {Nothing}
    /\ \A m \in Memo : RequestHolds(m) /\ TaskHolds(m) /\ (HasSlot(m) => slot)
    /\ \A m, n \in Memo : HasSlot(m) /\ HasSlot(n) => m = n
    /\ onDone => analysisTask # Nothing /\ ~InRoute(analysisTask)

(* The slot is claimed only when nobody has it. *)
LEMMA ClaimKeeps ==
    ASSUME VoiceInv, NEW m \in Memo, Claim(m)
    PROVE  VoiceInv'
<1>1. /\ UNCHANGED <<analysisTask, audio, memoJob, onDone, lifespan>>
      /\ lifespan = "serving" /\ uploader[m].at \in {"away", "answered"}
      /\ \/ /\ slot /\ slot' = slot
            /\ uploader' = [uploader EXCEPT ![m] = [at |-> "answered", what |-> [outcome |-> "busy"]]]
         \/ /\ ~slot /\ slot' = TRUE
            /\ uploader' = [uploader EXCEPT ![m] = [at |-> "parsing"]]
  BY DEF Claim, UploaderGoes
<1>2. ASSUME NEW n \in Memo PROVE RequestHolds(n)'
  BY <1>1 DEF VoiceInv, RequestHolds, InRoute, HasSlot, At, WhatHolds
<1>3. ASSUME NEW n \in Memo PROVE TaskHolds(n)'
  BY <1>1 DEF VoiceInv, RequestHolds, TaskHolds, HasSlot, InRoute, Working, At, NoJob, WhatHolds
<1>4. \A n \in Memo : HasSlot(n)' => slot'
  BY <1>1 DEF VoiceInv, RequestHolds, HasSlot, InRoute, At
<1>5. \A n, k \in Memo : HasSlot(n)' /\ HasSlot(k)' => n = k
  BY <1>1 DEF VoiceInv, RequestHolds, HasSlot, InRoute, At
<1>6. (onDone => analysisTask # Nothing /\ ~InRoute(analysisTask))'
  BY <1>1 DEF VoiceInv, RequestHolds, TaskHolds, HasSlot, InRoute, At
<1> QED
  BY <1>1, <1>2, <1>3, <1>4, <1>5, <1>6 DEF VoiceInv

LEMMA BeginCopyKeeps ==
    ASSUME VoiceInv, NEW m \in Memo, BeginCopy(m)
    PROVE  VoiceInv'
<1>1. /\ UNCHANGED <<slot, analysisTask, memoJob, onDone, lifespan>>
      /\ uploader[m].at = "parsing"
      /\ uploader' = [uploader EXCEPT ![m] = [at |-> "copying"]]
      /\ audio' = audio \cup {m}
  BY DEF BeginCopy, At, UploaderGoes
<1>2. ASSUME NEW n \in Memo PROVE RequestHolds(n)'
  BY <1>1 DEF VoiceInv, RequestHolds, InRoute, HasSlot, At
<1>3. ASSUME NEW n \in Memo PROVE TaskHolds(n)'
  BY <1>1 DEF VoiceInv, RequestHolds, TaskHolds, HasSlot, InRoute, Working, At, NoJob
<1>4. \A n \in Memo : HasSlot(n)' => slot'
  BY <1>1 DEF VoiceInv, RequestHolds, HasSlot, InRoute, At
<1>5. \A n, k \in Memo : HasSlot(n)' /\ HasSlot(k)' => n = k
  BY <1>1 DEF VoiceInv, RequestHolds, HasSlot, InRoute, At
<1>6. (onDone => analysisTask # Nothing /\ ~InRoute(analysisTask))'
  BY <1>1 DEF VoiceInv, RequestHolds, TaskHolds, HasSlot, InRoute, At
<1> QED
  BY <1>1, <1>2, <1>3, <1>4, <1>5, <1>6 DEF VoiceInv

LEMMA RefuseKeeps ==
    ASSUME VoiceInv, NEW m \in Memo, Refuse(m)
    PROVE  VoiceInv'
<1>1. /\ UNCHANGED <<slot, analysisTask, memoJob, onDone, lifespan>>
      /\ uploader[m].at \in {"parsing", "copying"}
      /\ uploader' = [uploader EXCEPT ![m] = [at |-> "leaving", what |-> [outcome |-> "refused"]]]
      /\ audio' = audio \ {m}
  BY DEF Refuse, UploaderGoes
<1>2. ASSUME NEW n \in Memo PROVE RequestHolds(n)'
  BY <1>1 DEF VoiceInv, RequestHolds, InRoute, HasSlot, At, WhatHolds
<1>3. ASSUME NEW n \in Memo PROVE TaskHolds(n)'
  BY <1>1 DEF VoiceInv, RequestHolds, TaskHolds, HasSlot, InRoute, Working, At, NoJob, WhatHolds
<1>4. \A n \in Memo : HasSlot(n)' => slot'
  BY <1>1 DEF VoiceInv, RequestHolds, HasSlot, InRoute, At
<1>5. \A n, k \in Memo : HasSlot(n)' /\ HasSlot(k)' => n = k
  BY <1>1 DEF VoiceInv, RequestHolds, HasSlot, InRoute, At
<1>6. (onDone => analysisTask # Nothing /\ ~InRoute(analysisTask))'
  BY <1>1 DEF VoiceInv, RequestHolds, TaskHolds, HasSlot, InRoute, At
<1> QED
  BY <1>1, <1>2, <1>3, <1>4, <1>5, <1>6 DEF VoiceInv

(* The task takes the file and the slot over from the request. *)
LEMMA StartTaskKeeps ==
    ASSUME VoiceInv, NEW m \in Memo, NEW form \in Forms, StartTask(m, form)
    PROVE  VoiceInv'
<1>1. /\ UNCHANGED <<slot, audio, onDone, lifespan>>
      /\ uploader[m].at = "copying"
      /\ uploader' = [uploader EXCEPT ![m] = [at |-> "waiting"]]
      /\ analysisTask' = m
      /\ memoJob' = [memoJob EXCEPT ![m] = [at |-> "queued", form |-> form]]
  BY DEF StartTask, At, UploaderGoes
<1>2. \A n \in Memo : n # m => ~InRoute(n) /\ n # analysisTask
  BY <1>1 DEF VoiceInv, HasSlot, InRoute
<1>3. ASSUME NEW n \in Memo PROVE RequestHolds(n)'
  <2>1. CASE n # m
    BY <1>1, <1>2, <2>1 DEF VoiceInv, RequestHolds, InRoute
  <2>2. CASE n = m
    BY <1>1, <2>2 DEF VoiceInv, RequestHolds, InRoute
  <2> QED
    BY <2>1, <2>2
<1>4. ASSUME NEW n \in Memo PROVE TaskHolds(n)'
  <2>1. CASE n # m
    BY <1>1, <1>2, <2>1 DEF VoiceInv, TaskHolds, Working, At
  <2>2. CASE n = m
    BY <1>1, <1>2, <2>2 DEF VoiceInv, RequestHolds, TaskHolds, InRoute, Working, At
  <2> QED
    BY <2>1, <2>2
<1>5. \A n \in Memo : HasSlot(n)' => slot'
  BY <1>1, <1>2 DEF VoiceInv, RequestHolds, HasSlot, InRoute, At
<1>6. \A n, k \in Memo : HasSlot(n)' /\ HasSlot(k)' => n = k
  BY <1>1, <1>2 DEF VoiceInv, RequestHolds, HasSlot, InRoute, At
<1>7. (onDone => analysisTask # Nothing /\ ~InRoute(analysisTask))'
  BY <1>1, <1>2 DEF VoiceInv, RequestHolds, TaskHolds, HasSlot, InRoute, At
<1> QED
  BY <1>1, <1>3, <1>4, <1>5, <1>6, <1>7 DEF VoiceInv

LEMMA CallerLeavesKeeps ==
    ASSUME VoiceInv, NEW m \in Memo, CallerLeaves(m)
    PROVE  VoiceInv'
<1>1. /\ UNCHANGED <<slot, analysisTask, audio, memoJob, onDone, lifespan>>
      /\ uploader[m].at = "waiting"
      /\ uploader' = [uploader EXCEPT ![m] = [at |-> "leaving", what |-> [outcome |-> "gone"]]]
  BY DEF CallerLeaves, At, UploaderGoes
<1>2. ASSUME NEW n \in Memo PROVE RequestHolds(n)'
  BY <1>1 DEF VoiceInv, RequestHolds, InRoute, HasSlot, At, WhatHolds
<1>3. ASSUME NEW n \in Memo PROVE TaskHolds(n)'
  BY <1>1 DEF VoiceInv, RequestHolds, TaskHolds, HasSlot, InRoute, Working, At, NoJob, WhatHolds
<1>4. \A n \in Memo : HasSlot(n)' => slot'
  BY <1>1 DEF VoiceInv, RequestHolds, HasSlot, InRoute, At
<1>5. \A n, k \in Memo : HasSlot(n)' /\ HasSlot(k)' => n = k
  BY <1>1 DEF VoiceInv, RequestHolds, HasSlot, InRoute, At
<1>6. (onDone => analysisTask # Nothing /\ ~InRoute(analysisTask))'
  BY <1>1 DEF VoiceInv, RequestHolds, TaskHolds, HasSlot, InRoute, At
<1> QED
  BY <1>1, <1>2, <1>3, <1>4, <1>5, <1>6 DEF VoiceInv

LEMMA AnsweredKeeps ==
    ASSUME VoiceInv, NEW m \in Memo, Answered(m)
    PROVE  VoiceInv'
<1>1. /\ UNCHANGED <<slot, analysisTask, audio, memoJob, onDone, lifespan>>
      /\ uploader[m].at = "waiting" /\ WhatHolds(memoJob[m].what)
      /\ uploader' = [uploader EXCEPT ![m] = [at |-> "leaving", what |-> memoJob[m].what]]
  BY DEF Answered, At, UploaderGoes, VoiceInv, TaskHolds
<1>2. ASSUME NEW n \in Memo PROVE RequestHolds(n)'
  BY <1>1 DEF VoiceInv, RequestHolds, InRoute, HasSlot, At
<1>3. ASSUME NEW n \in Memo PROVE TaskHolds(n)'
  BY <1>1 DEF VoiceInv, RequestHolds, TaskHolds, HasSlot, InRoute, Working, At, NoJob
<1>4. \A n \in Memo : HasSlot(n)' => slot'
  BY <1>1 DEF VoiceInv, RequestHolds, HasSlot, InRoute, At
<1>5. \A n, k \in Memo : HasSlot(n)' /\ HasSlot(k)' => n = k
  BY <1>1 DEF VoiceInv, RequestHolds, HasSlot, InRoute, At
<1>6. (onDone => analysisTask # Nothing /\ ~InRoute(analysisTask))'
  BY <1>1 DEF VoiceInv, RequestHolds, TaskHolds, HasSlot, InRoute, At
<1> QED
  BY <1>1, <1>2, <1>3, <1>4, <1>5, <1>6 DEF VoiceInv

(* The request leaves while its task goes on: the slot stays with the task. *)
LEMMA RunsOnKeeps ==
    ASSUME VoiceInv, NEW m \in Memo, LeaveRoute(m), TaskRunsOn
    PROVE  VoiceInv'
<1>1. /\ UNCHANGED <<slot, analysisTask, memoJob, audio, lifespan>>
      /\ uploader[m].at = "leaving" /\ WhatHolds(uploader[m].what)
      /\ uploader' = [uploader EXCEPT ![m] = [at |-> "answered", what |-> uploader[m].what]]
      /\ onDone' = TRUE
      /\ analysisTask = m
  <2>1. analysisTask \in Memo
    BY DEF TaskRunsOn, VoiceInv
  <2>2. uploader[m].at = "leaving"
    BY DEF LeaveRoute, At
  <2>3. analysisTask = m
    BY <2>1, <2>2 DEF VoiceInv, HasSlot, InRoute
  <2> QED
    BY <2>2, <2>3 DEF LeaveRoute, UploaderGoes, VoiceInv, RequestHolds
<1>2. \A n \in Memo : n # m => ~InRoute(n) /\ n # analysisTask
  BY <1>1 DEF VoiceInv, HasSlot, InRoute
<1>3. ASSUME NEW n \in Memo PROVE RequestHolds(n)'
  BY <1>1, <1>2 DEF VoiceInv, RequestHolds, InRoute, HasSlot, At
<1>4. ASSUME NEW n \in Memo PROVE TaskHolds(n)'
  BY <1>1, <1>2 DEF VoiceInv, RequestHolds, TaskHolds, HasSlot, InRoute, Working, At, NoJob
<1>5. \A n \in Memo : HasSlot(n)' => slot'
  BY <1>1, <1>2 DEF VoiceInv, RequestHolds, HasSlot, InRoute, At
<1>6. \A n, k \in Memo : HasSlot(n)' /\ HasSlot(k)' => n = k
  <2>1. \A n \in Memo : n # m => ~HasSlot(n)'
    BY <1>1, <1>2 DEF VoiceInv, HasSlot, InRoute
  <2> QED
    BY <2>1
<1>7. (onDone => analysisTask # Nothing /\ ~InRoute(analysisTask))'
  BY <1>1, <1>2 DEF VoiceInv, TaskRunsOn, InRoute
<1> QED
  BY <1>1, <1>3, <1>4, <1>5, <1>6, <1>7 DEF VoiceInv

(* The request leaves and nothing of it is left. *)
LEMMA LeavesFreeKeeps ==
    ASSUME VoiceInv, VoiceAssumption, NEW m \in Memo, LeaveRoute(m), ~TaskRunsOn
    PROVE  VoiceInv'
<1>1. /\ UNCHANGED <<onDone, audio, lifespan>>
      /\ uploader[m].at = "leaving" /\ WhatHolds(uploader[m].what)
      /\ uploader' = [uploader EXCEPT ![m] = [at |-> "answered", what |-> uploader[m].what]]
      /\ slot' = FALSE /\ analysisTask' = Nothing
      /\ memoJob' = [n \in Memo |-> IF n = analysisTask THEN NoJob ELSE memoJob[n]]
  BY DEF LeaveRoute, At, UploaderGoes, ReleaseSlot, VoiceInv, RequestHolds
<1>2. /\ \A n \in Memo : n # m => ~InRoute(n) /\ n # analysisTask
      /\ onDone = FALSE
  BY <1>1 DEF VoiceInv, HasSlot, InRoute
<1>3. \A n \in Memo : n \notin audio /\ memoJob'[n].at = "none"
  BY <1>1, <1>2 DEF VoiceInv, TaskHolds, Working, At, TaskRunsOn, InRoute, NoJob
<1>4. ASSUME NEW n \in Memo PROVE RequestHolds(n)'
  BY <1>1, <1>2, <1>3 DEF VoiceInv, RequestHolds, InRoute, HasSlot, At, VoiceAssumption
<1>5. ASSUME NEW n \in Memo PROVE TaskHolds(n)'
  BY <1>1, <1>2, <1>3 DEF VoiceInv, RequestHolds, TaskHolds, HasSlot, InRoute, Working, At, NoJob, VoiceAssumption
<1>6. \A n \in Memo : HasSlot(n)' => slot'
  BY <1>1, <1>2, <1>3 DEF VoiceInv, RequestHolds, HasSlot, InRoute, At
<1>7. \A n, k \in Memo : HasSlot(n)' /\ HasSlot(k)' => n = k
  BY <1>1, <1>2, <1>3 DEF VoiceInv, RequestHolds, HasSlot, InRoute, At
<1>8. (onDone => analysisTask # Nothing /\ ~InRoute(analysisTask))'
  BY <1>1, <1>2, <1>3 DEF VoiceInv, RequestHolds, TaskHolds, HasSlot, InRoute, At
<1> QED
  BY <1>1, <1>4, <1>5, <1>6, <1>7, <1>8 DEF VoiceInv

LEMMA TaskReleasesKeeps ==
    ASSUME VoiceInv, VoiceAssumption, TaskReleases
    PROVE  VoiceInv'
<1>1. /\ UNCHANGED <<uploader, audio, lifespan>>
      /\ onDone /\ onDone' = FALSE
      /\ analysisTask \in Memo /\ memoJob[analysisTask].at = "done"
      /\ slot' = FALSE /\ analysisTask' = Nothing
      /\ memoJob' = [n \in Memo |-> IF n = analysisTask THEN NoJob ELSE memoJob[n]]
  BY DEF TaskReleases, ReleaseSlot, VoiceInv
<1>2. \A n \in Memo : ~InRoute(n)
  BY <1>1 DEF VoiceInv, HasSlot
<1>3. \A n \in Memo : n \notin audio /\ memoJob'[n].at = "none"
  BY <1>1, <1>2 DEF VoiceInv, TaskHolds, Working, At, InRoute, NoJob
<1>4. ASSUME NEW n \in Memo PROVE RequestHolds(n)'
  BY <1>1, <1>2, <1>3 DEF VoiceInv, RequestHolds, InRoute, HasSlot, At, VoiceAssumption
<1>5. ASSUME NEW n \in Memo PROVE TaskHolds(n)'
  BY <1>1, <1>2, <1>3 DEF VoiceInv, RequestHolds, TaskHolds, HasSlot, InRoute, Working, At, NoJob, VoiceAssumption
<1>6. \A n \in Memo : HasSlot(n)' => slot'
  BY <1>1, <1>2, <1>3 DEF VoiceInv, RequestHolds, HasSlot, InRoute, At
<1>7. \A n, k \in Memo : HasSlot(n)' /\ HasSlot(k)' => n = k
  BY <1>1, <1>2, <1>3 DEF VoiceInv, RequestHolds, HasSlot, InRoute, At
<1>8. (onDone => analysisTask # Nothing /\ ~InRoute(analysisTask))'
  BY <1>1, <1>2, <1>3 DEF VoiceInv, RequestHolds, TaskHolds, HasSlot, InRoute, At
<1> QED
  BY <1>1, <1>4, <1>5, <1>6, <1>7, <1>8 DEF VoiceInv

(* The task goes on to its next part. *)
LEMMA JobGoesKeeps ==
    ASSUME VoiceInv, NEW m \in Memo, NEW from, NEW to, JobGoes(m, from, to),
           from \in {"queued", "transcribing"}, to \in {"transcribing", "analysing"}
    PROVE  VoiceInv'
<1>1. memoJob[m].at = from /\ m \in Working /\ DOMAIN memoJob[m] = {"at", "form"}
  BY DEF JobGoes, Working, VoiceInv, TaskHolds
<1> DEFINE next == [memoJob[m] EXCEPT !.at = to]
<1>2. next.at = to /\ next.form = memoJob[m].form /\ DOMAIN next = {"at", "form"}
  BY <1>1
<1>3. /\ UNCHANGED <<slot, analysisTask, uploader, audio, onDone, lifespan>>
      /\ memoJob' = [memoJob EXCEPT ![m] = next]
  BY DEF JobGoes
<1> HIDE DEF next
<1>4. ASSUME NEW n \in Memo PROVE RequestHolds(n)'
  BY <1>3, <1>1, <1>2 DEF VoiceInv, RequestHolds, InRoute, HasSlot, At
<1>5. ASSUME NEW n \in Memo PROVE TaskHolds(n)'
  BY <1>3, <1>1, <1>2 DEF VoiceInv, RequestHolds, TaskHolds, HasSlot, InRoute, Working, At, NoJob
<1>6. \A n \in Memo : HasSlot(n)' => slot'
  BY <1>3, <1>1, <1>2 DEF VoiceInv, RequestHolds, HasSlot, InRoute, At
<1>7. \A n, k \in Memo : HasSlot(n)' /\ HasSlot(k)' => n = k
  BY <1>3, <1>1, <1>2 DEF VoiceInv, RequestHolds, HasSlot, InRoute, At
<1>8. (onDone => analysisTask # Nothing /\ ~InRoute(analysisTask))'
  BY <1>3, <1>1, <1>2 DEF VoiceInv, RequestHolds, TaskHolds, HasSlot, InRoute, At
<1> QED
  BY <1>3, <1>4, <1>5, <1>6, <1>7, <1>8 DEF VoiceInv

(* The task ends and its file is gone. *)
LEMMA EndJobKeeps ==
    ASSUME VoiceInv, NEW m \in Memo, NEW what, memoJob[m].at \in {"transcribing", "analysing"},
           WhatHolds(what), EndJob(m, what)
    PROVE  VoiceInv'
<1>1. /\ UNCHANGED <<slot, analysisTask, uploader, onDone, lifespan>>
      /\ memoJob' = [memoJob EXCEPT ![m] = [at |-> "done", what |-> what]]
      /\ audio' = audio \ {m}
  BY DEF EndJob
<1>2. m = analysisTask
  BY DEF VoiceInv, TaskHolds
<1>3. ASSUME NEW n \in Memo PROVE RequestHolds(n)'
  BY <1>1, <1>2 DEF VoiceInv, RequestHolds, InRoute, HasSlot, At
<1>4. ASSUME NEW n \in Memo PROVE TaskHolds(n)'
  BY <1>1, <1>2 DEF VoiceInv, RequestHolds, TaskHolds, HasSlot, InRoute, Working, At, NoJob
<1>5. \A n \in Memo : HasSlot(n)' => slot'
  BY <1>1, <1>2 DEF VoiceInv, RequestHolds, HasSlot, InRoute, At
<1>6. \A n, k \in Memo : HasSlot(n)' /\ HasSlot(k)' => n = k
  BY <1>1, <1>2 DEF VoiceInv, RequestHolds, HasSlot, InRoute, At
<1>7. (onDone => analysisTask # Nothing /\ ~InRoute(analysisTask))'
  BY <1>1, <1>2 DEF VoiceInv, RequestHolds, TaskHolds, HasSlot, InRoute, At
<1> QED
  BY <1>1, <1>3, <1>4, <1>5, <1>6, <1>7 DEF VoiceInv

(* A ticked proposal is for a field that the open form has and left empty, or
   for one of a form that nobody has open.                                   *)
LEMMA ProposalsFillGaps ==
    ASSUME VoiceAssumption, NEW form \in Forms, NEW analysis,
           NEW p \in Proposals(form, analysis), p.ticked
    PROVE  p.field \in analysis.heard \ form.filled
<1> DEFINE ledger == LedgerOf(analysis.type)
           filled == IF form.ledger = ledger THEN form.filled ELSE {}
<1>1. /\ ledger # Nothing /\ ~Mismatch(form.ledger, ledger)
      /\ p \in {[field |-> f, ticked |-> f \notin filled] : f \in Proposable(analysis, ledger)}
  BY DEF Proposals
<1>2. form.ledger = ledger \/ form.filled = {}
  BY <1>1 DEF Mismatch, VoiceAssumption
<1>3. PICK f \in Proposable(analysis, ledger) : p = [field |-> f, ticked |-> f \notin filled]
  BY <1>1
<1>4. p.field = f /\ f \notin filled
  BY <1>3
<1> QED
  BY <1>2, <1>4 DEF Proposable

LEMMA AnalysedKeeps ==
    ASSUME VoiceInv, VoiceAssumption, NEW m \in Memo, NEW analysis \in Analyses,
           Analysed(m, analysis)
    PROVE  VoiceInv'
<1>1. memoJob[m].form \in Forms
  BY DEF Analysed, VoiceInv, TaskHolds, Working
<1>2. WhatHolds([outcome |-> "analysed", form |-> memoJob[m].form, analysis |-> analysis,
                 proposals |-> Proposals(memoJob[m].form, analysis)])
  BY <1>1, ProposalsFillGaps DEF WhatHolds
<1> QED
  BY <1>2, EndJobKeeps DEF Analysed

LEMMA NotFinishedKeeps ==
    ASSUME VoiceInv, NEW m \in Memo, NotTranscribed(m) \/ NotAnalysed(m)
    PROVE  VoiceInv'
<1>1. WhatHolds([outcome |-> "failed"])
  BY DEF WhatHolds
<1> QED
  BY <1>1, EndJobKeeps DEF NotTranscribed, NotAnalysed

(* The clients are closed only when no analysis needs them. *)
LEMMA ShutdownKeeps ==
    ASSUME VoiceInv, VoiceAssumption, BeginShutdown \/ CloseClients
    PROVE  VoiceInv'
<1>1. /\ UNCHANGED <<slot, analysisTask, uploader, audio, memoJob, onDone>>
      /\ \/ lifespan' = "stopping" /\ \A n \in Memo : ~InRoute(n)
         \/ lifespan' = "closed" /\ lifespan # "serving" /\ ~TaskRunsOn
  BY DEF BeginShutdown, CloseClients, InRoute, VoiceInv
<1>2. lifespan' = "closed" => Working = {}
  BY <1>1 DEF VoiceInv, TaskHolds, Working, TaskRunsOn, VoiceAssumption
<1>3. ASSUME NEW n \in Memo PROVE RequestHolds(n)'
  BY <1>1, <1>2 DEF VoiceInv, RequestHolds, InRoute, HasSlot, At
<1>4. ASSUME NEW n \in Memo PROVE TaskHolds(n)'
  BY <1>1, <1>2 DEF VoiceInv, RequestHolds, TaskHolds, HasSlot, InRoute, Working, At, NoJob
<1>5. \A n \in Memo : HasSlot(n)' => slot'
  BY <1>1, <1>2 DEF VoiceInv, RequestHolds, HasSlot, InRoute, At
<1>6. \A n, k \in Memo : HasSlot(n)' /\ HasSlot(k)' => n = k
  BY <1>1, <1>2 DEF VoiceInv, RequestHolds, HasSlot, InRoute, At
<1>7. (onDone => analysisTask # Nothing /\ ~InRoute(analysisTask))'
  BY <1>1, <1>2 DEF VoiceInv, RequestHolds, TaskHolds, HasSlot, InRoute, At
<1> QED
  BY <1>1, <1>3, <1>4, <1>5, <1>6, <1>7 DEF VoiceInv

LEMMA VoiceStarts == VoiceAssumption /\ VoiceInit => VoiceInv
  BY DEF VoiceAssumption, VoiceInit, VoiceInv, RequestHolds, TaskHolds, HasSlot, InRoute, Working,
     At, Away, NoJob

(* VoiceInv is inductive. *)
LEMMA VoiceStep ==
    ASSUME VoiceInv, VoiceAssumption, [VoiceNext]_voiceVars
    PROVE  VoiceInv'
<1>1. CASE \E m \in Memo : Claim(m) \/ BeginCopy(m) \/ Refuse(m)
  BY <1>1, ClaimKeeps, BeginCopyKeeps, RefuseKeeps
<1>2. CASE \E m \in Memo, form \in Forms : StartTask(m, form)
  BY <1>2, StartTaskKeeps
<1>3. CASE \E m \in Memo : CallerLeaves(m) \/ Answered(m) \/ LeaveRoute(m)
  BY <1>3, CallerLeavesKeeps, AnsweredKeeps, RunsOnKeeps, LeavesFreeKeeps
<1>4. CASE \E m \in Memo : StartThread(m) \/ Transcribed(m)
  BY <1>4, JobGoesKeeps DEF StartThread, Transcribed
<1>5. CASE \E m \in Memo : NotTranscribed(m) \/ NotAnalysed(m)
  BY <1>5, NotFinishedKeeps
<1>6. CASE \E m \in Memo, analysis \in Analyses : Analysed(m, analysis)
  BY <1>6, AnalysedKeeps
<1>7. CASE TaskReleases
  BY <1>7, TaskReleasesKeeps
<1>8. CASE BeginShutdown \/ CloseClients
  BY <1>8, ShutdownKeeps
<1>9. CASE UNCHANGED voiceVars
  BY <1>9 DEF voiceVars, VoiceInv, RequestHolds, TaskHolds, HasSlot, InRoute, Working, At
<1> QED
  BY <1>1, <1>2, <1>3, <1>4, <1>5, <1>6, <1>7, <1>8, <1>9 DEF VoiceNext

(* The slot has one holder, who alone has a file and a task. *)
THEOREM VoiceInvariance == VoiceSpec => []VoiceInv
<1>1. VoiceInit => VoiceInv
  BY VoiceStarts, VoiceAssumption
<1>2. VoiceInv /\ [VoiceNext]_voiceVars => VoiceInv'
  BY VoiceStep, VoiceAssumption
<1> QED
  BY <1>1, <1>2, PTL DEF VoiceSpec

(* One analysis and one audio file at a time, with the slot and the clients,
   and no ticked proposal over what the broker has written.                  *)
THEOREM VoiceMemoSafe == VoiceSpec => []VoiceMemoIsSafe
<1>1. ASSUME VoiceInv PROVE AnalysisKeepsItsSlot
  <2>1. Working \subseteq audio
    BY <1>1 DEF VoiceInv, TaskHolds, Working
  <2>2. \A m \in audio : m \in Memo /\ HasSlot(m)
    BY <1>1 DEF VoiceInv, TaskHolds, Working, HasSlot, InRoute, At
  <2>3. \A m \in audio : slot /\ lifespan # "closed"
    BY <1>1, <2>2 DEF VoiceInv, TaskHolds, RequestHolds, InRoute, At
  <2>4. Cardinality(audio \cup Working) <= 1
    <3>1. CASE audio = {}
      BY <2>1, <3>1, FS_EmptySet
    <3>2. CASE audio # {}
      <4>1. PICK m : m \in audio
        BY <3>2
      <4>2. audio \cup Working = {m}
        BY <1>1, <2>1, <2>2, <4>1 DEF VoiceInv
      <4>3. Cardinality({m}) = 1
        BY FS_Singleton
      <4> QED
        BY <4>2, <4>3
    <3> QED
      BY <3>1, <3>2
  <2> QED
    BY <2>1, <2>3, <2>4 DEF AnalysisKeepsItsSlot
<1>2. VoiceInv => TickedProposalsFillGaps
  BY DEF VoiceInv, RequestHolds, WhatHolds, TickedProposalsFillGaps
<1> QED
  BY <1>1, <1>2, VoiceInvariance, PTL DEF VoiceMemoIsSafe

-----------------------------------------------------------------------------
(* The agenda                                                                *)

(* Entries of any ledger. *)
Entries ==
    [category : Int, due : Int, unit : AgendaUnit \cup {Null}, listing : AgendaListing \cup {Null},
     requirement : AgendaRequirement \cup {Null}, event : AgendaEvent \cup {Null}]

(* A set of natural numbers that is not empty has a least element. *)
LEMMA LeastOfSet ==
    ASSUME NEW S, S \subseteq Nat, S # {}
    PROVE  \E x \in S : \A y \in S : x <= y
<1> DEFINE R == {ss \in Nat \X Nat : ss[1] < ss[2]}
<1>1. \E x \in S : \A y \in S : ~(<<y, x>> \in R)
  <2>1. IsWellFoundedOn(R, Nat)
    BY NatLessThanWellFounded DEF OpToRel
  <2> HIDE DEF R
  <2> QED
    BY <2>1, WFMin
<1>2. ASSUME NEW x \in Nat, NEW y \in Nat, y < x PROVE <<y, x>> \in R
  BY <1>2
<1>3. PICK x \in S : \A y \in S : ~(<<y, x>> \in R)
  BY <1>1
<1> HIDE DEF R
<1>4. \A y \in S : x <= y
  <2> TAKE y \in S
  <2>1. x \in Nat /\ y \in Nat
    OBVIOUS
  <2>2. ~(y < x)
    BY <1>2, <1>3, <2>1
  <2> QED
    BY <2>1, <2>2
<1> QED
  BY <1>4

LEMMA Keys ==
    ASSUME NEW x
    PROVE  /\ DOMAIN OrderKey(x) = 1..10
           /\ OrderKey(x)[1] = x.due /\ OrderKey(x)[2] = x.category
           /\ OrderKey(x)[3] = NullsLast(x.unit) /\ OrderKey(x)[4] = x.unit
           /\ OrderKey(x)[5] = NullsLast(x.listing) /\ OrderKey(x)[6] = x.listing
           /\ OrderKey(x)[7] = NullsLast(x.requirement) /\ OrderKey(x)[8] = x.requirement
           /\ OrderKey(x)[9] = NullsLast(x.event) /\ OrderKey(x)[10] = x.event
  BY DEF OrderKey

LEMMA EntryKeys ==
    ASSUME AgendaAssumption, NEW x \in Entries
    PROVE  \A i \in 1..10 : OrderKey(x)[i] \in Int
<1>1. /\ x.due \in Int /\ x.category \in Int /\ x.unit \in Int /\ x.listing \in Int
      /\ x.requirement \in Int /\ x.event \in Int
  BY DEF Entries, AgendaAssumption, Null
<1>2. /\ NullsLast(x.unit) \in Int /\ NullsLast(x.listing) \in Int
      /\ NullsLast(x.requirement) \in Int /\ NullsLast(x.event) \in Int
  BY DEF NullsLast
<1> QED
  BY <1>1, <1>2, Keys

(* Entries that the order does not tell apart are one entry. *)
LEMMA OrderIsTotal ==
    ASSUME AgendaAssumption, NEW x \in Entries, NEW y \in Entries, ~Before(x, y), ~Before(y, x)
    PROVE  x = y
<1> DEFINE a == OrderKey(x)
           b == OrderKey(y)
<1>1. DOMAIN a = 1..10 /\ DOMAIN b = 1..10 /\ \A i \in 1..10 : a[i] \in Int /\ b[i] \in Int
  BY Keys, EntryKeys
<1>2. ASSUME NEW i \in 1..10, \A j \in 1..i - 1 : a[j] = b[j] PROVE a[i] = b[i]
  <2>1. ~(a[i] < b[i]) /\ ~(b[i] < a[i])
    BY <1>1, <1>2 DEF Before
  <2> HIDE DEF a, b
  <2> QED
    BY <2>1, <1>1
<1> HIDE DEF a, b
<1>3. a[1] = b[1]
  BY <1>2
<1>4. a[2] = b[2]
  BY <1>2, <1>3
<1>5. a[3] = b[3]
  BY <1>2, <1>3, <1>4
<1>6. a[4] = b[4]
  BY <1>2, <1>3, <1>4, <1>5
<1>7. a[5] = b[5]
  BY <1>2, <1>3, <1>4, <1>5, <1>6
<1>8. a[6] = b[6]
  BY <1>2, <1>3, <1>4, <1>5, <1>6, <1>7
<1>9. a[7] = b[7]
  BY <1>2, <1>3, <1>4, <1>5, <1>6, <1>7, <1>8
<1>10. a[8] = b[8]
  BY <1>2, <1>3, <1>4, <1>5, <1>6, <1>7, <1>8, <1>9
<1>11. a[9] = b[9]
  BY <1>2, <1>3, <1>4, <1>5, <1>6, <1>7, <1>8, <1>9, <1>10
<1>12. a[10] = b[10]
  BY <1>2, <1>3, <1>4, <1>5, <1>6, <1>7, <1>8, <1>9, <1>10, <1>11
<1> QED
  BY <1>3, <1>4, <1>6, <1>8, <1>10, <1>12, Keys DEF a, b, Entries

LEMMA OrderingShape ==
    ASSUME NEW S, IsFiniteSet(S), NEW s \in Orderings(S)
    PROVE  /\ Cardinality(S) \in Nat
           /\ s \in [1..Cardinality(S) -> S] /\ s \in Seq(S) /\ Len(s) = Cardinality(S)
           /\ \A i, j \in 1..Cardinality(S) : i # j => s[i] # s[j]
           /\ \A x \in S : \E i \in 1..Cardinality(S) : s[i] = x
           /\ \A i, j \in 1..Cardinality(S) : i < j => ~Before(s[j], s[i])
<1> DEFINE n == Cardinality(S)
<1>1. n \in Nat /\ IsFiniteSet(1..n) /\ Cardinality(1..n) = n
  BY FS_CardinalityType, FS_Interval
<1>2. s \in [1..n -> S] /\ \A i, j \in 1..n : i # j => s[i] # s[j]
  BY DEF Orderings, SetToSeqs
<1>3. s \in Injection(1..n, S)
  BY <1>2 DEF Injection, IsInjective
<1>4. s \in Surjection(1..n, S)
  BY <1>1, <1>3, FS_Injection
<1>5. \A i, j \in 1..n : i < j => ~Before(s[j], s[i])
  BY <1>2 DEF Orderings
<1> HIDE DEF n
<1>6. s \in Seq(S) /\ Len(s) = n
  BY <1>1, <1>2
<1>7. \A x \in S : \E i \in 1..n : s[i] = x
  BY <1>4 DEF Surjection
<1> QED
  BY <1>1, <1>2, <1>5, <1>6, <1>7 DEF n

(* A finite set of entries has one ordering. *)
LEMMA OneOrdering ==
    ASSUME AgendaAssumption, NEW S \in SUBSET Entries, IsFiniteSet(S),
           NEW s \in Orderings(S), NEW t \in Orderings(S)
    PROVE  s = t
<1> DEFINE n == Cardinality(S)
<1>1. /\ n \in Nat /\ s \in [1..n -> S] /\ t \in [1..n -> S]
      /\ \A i, j \in 1..n : i # j => s[i] # s[j] /\ t[i] # t[j]
      /\ \A x \in S : \E i \in 1..n : s[i] = x
      /\ \A x \in S : \E i \in 1..n : t[i] = x
      /\ \A i, j \in 1..n : i < j => ~Before(s[j], s[i]) /\ ~Before(t[j], t[i])
  BY OrderingShape
<1> HIDE DEF n
<1>2. SUFFICES ASSUME NEW k \in 1..n, s[k] # t[k], \A i \in 1..k-1 : s[i] = t[i] PROVE FALSE
  <2> DEFINE D == {i \in 1..n : s[i] # t[i]}
  <2>1. CASE D = {}
    <3>1. \A i \in 1..n : s[i] = t[i]
      BY <2>1
    <3> QED
      BY <1>1, <3>1
  <2>2. CASE D # {}
    <3>1. D \subseteq Nat
      BY <1>1
    <3> HIDE DEF D
    <3>2. PICK k \in D : \A i \in D : k <= i
      BY <3>1, <2>2, LeastOfSet
    <3> QED
      BY <3>2, <1>1, <1>2 DEF D
  <2> QED
    BY <2>1, <2>2
<1>3. PICK j \in 1..n : t[j] = s[k]
  BY <1>1
<1>4. PICK h \in 1..n : s[h] = t[k]
  BY <1>1
<1>5. j > k /\ h > k
  <2>1. j # k /\ h # k
    BY <1>2, <1>3, <1>4
  <2>2. ~(j < k)
    <3> SUFFICES ASSUME j < k PROVE FALSE
      OBVIOUS
    <3>1. j \in 1..k-1
      BY <1>1
    <3>2. s[j] = s[k]
      BY <1>2, <1>3, <3>1
    <3> QED
      BY <1>1, <2>1, <3>2
  <2>3. ~(h < k)
    <3> SUFFICES ASSUME h < k PROVE FALSE
      OBVIOUS
    <3>1. h \in 1..k-1
      BY <1>1
    <3>2. t[h] = t[k]
      BY <1>2, <1>4, <3>1
    <3> QED
      BY <1>1, <2>1, <3>2
  <2> QED
    BY <1>1, <2>1, <2>2, <2>3
<1>6. ~Before(s[k], t[k]) /\ ~Before(t[k], s[k])
  BY <1>1, <1>3, <1>4, <1>5
<1> QED
  BY <1>1, <1>2, <1>6, OrderIsTotal

LEMMA SameCount ==
    ASSUME NEW A, IsFiniteSet(A), NEW B, NEW f \in [A -> B],
           \A x, y \in A : f[x] = f[y] => x = y, \A b \in B : \E x \in A : f[x] = b
    PROVE  IsFiniteSet(B) /\ Cardinality(B) = Cardinality(A)
<1>1. f \in Bijection(A, B)
  BY DEF Bijection, Injection, Surjection, IsInjective
<1> QED
  BY <1>1, FS_Bijection DEF ExistsBijection

(* ROW_NUMBER: the places of a kind are numbered 1, 2, ... without a gap. *)
Places(s, k) == {j \in DOMAIN s : s[j].category = k}
Number(s, k) == [j \in Places(s, k) |-> Cardinality({h \in 1..j : s[h].category = k})]

LEMMA RowNumbers ==
    ASSUME NEW n \in Nat, NEW s, DOMAIN s = 1..n, NEW k
    PROVE  LET J == Places(s, k)
               m == Cardinality(J)
               r == Number(s, k) IN
           /\ IsFiniteSet(J) /\ m \in Nat
           /\ r \in [J -> 1..m]
           /\ \A i, j \in J : i < j => r[i] < r[j]
           /\ \A b \in 1..m : \E j \in J : r[j] = b
<1> DEFINE J == Places(s, k)
           m == Cardinality(J)
           R(j) == {h \in 1..j : s[h].category = k}
           r == Number(s, k)
<1>1. J \subseteq 1..n /\ IsFiniteSet(J) /\ m \in Nat
  <2>1. J \subseteq 1..n
    BY DEF Places
  <2>2. IsFiniteSet(1..n)
    BY FS_Interval
  <2>3. IsFiniteSet(J)
    BY <2>1, <2>2, FS_Subset
  <2> QED
    BY <2>1, <2>3, FS_CardinalityType
<1>2. ASSUME NEW j \in J
      PROVE  R(j) \subseteq J /\ j \in R(j) /\ IsFiniteSet(R(j)) /\ Cardinality(R(j)) \in 1..m
  <2>1. j \in 1..n /\ s[j].category = k
    BY DEF Places
  <2>2. R(j) \subseteq J /\ j \in R(j)
    BY <2>1 DEF Places
  <2> HIDE DEF R, J
  <2>3. IsFiniteSet(R(j)) /\ Cardinality(R(j)) <= m /\ Cardinality(R(j)) \in Nat
    BY <2>2, <1>1, FS_Subset, FS_CardinalityType
  <2>4. Cardinality(R(j)) # 0
    BY <2>2, <2>3, FS_EmptySet
  <2> QED
    BY <2>2, <2>3, <2>4, <1>1
<1>3. r = [j \in J |-> Cardinality(R(j))]
  BY DEF Number
<1>4. r \in [J -> 1..m]
  <2> HIDE DEF R, J, m
  <2> QED
    BY <1>2, <1>3
<1>5. ASSUME NEW i \in J, NEW j \in J, i < j PROVE r[i] < r[j]
  <2>1. i \in 1..n /\ j \in 1..n
    BY <1>1
  <2>2. R(i) \subseteq R(j) /\ j \notin R(i)
    BY <2>1, <1>5
  <2>3. r[i] = Cardinality(R(i)) /\ r[j] = Cardinality(R(j))
    BY <1>3
  <2>4. /\ j \in R(j) /\ IsFiniteSet(R(j)) /\ Cardinality(R(j)) \in 1..m
        /\ Cardinality(R(i)) \in 1..m
    BY <1>2
  <2> HIDE DEF R, J, r, m
  <2>5. Cardinality(R(i)) <= Cardinality(R(j)) /\ Cardinality(R(i)) # Cardinality(R(j))
    BY <2>2, <2>4, FS_Subset
  <2> QED
    BY <2>3, <2>4, <2>5, <1>1
<1> HIDE DEF r
<1>6. r \in Injection(J, 1..m)
  <2>1. \A i, j \in J : r[i] = r[j] => i = j
    <3> SUFFICES ASSUME NEW i \in J, NEW j \in J, r[i] = r[j], i # j PROVE FALSE
      OBVIOUS
    <3>1. i \in Nat /\ j \in Nat /\ r[i] \in Nat /\ r[j] \in Nat
      BY <1>1, <1>4
    <3>2. i < j \/ j < i
      BY <3>1
    <3> QED
      BY <3>1, <3>2, <1>5
  <2> QED
    BY <1>4, <2>1 DEF Injection, IsInjective
<1>7. IsFiniteSet(1..m) /\ Cardinality(1..m) = m
  BY <1>1, FS_Interval
<1> HIDE DEF J
<1>8. r \in Surjection(J, 1..m)
  BY <1>6, <1>7, FS_Injection
<1>9. \A b \in 1..m : \E j \in J : r[j] = b
  BY <1>8 DEF Surjection
<1> QED
  BY <1>1, <1>4, <1>5, <1>9 DEF J, r

(* Of each kind the earliest are kept, up to the limit. *)
LEMMA KeptOfKind ==
    ASSUME AgendaAssumption, NEW S, IsFiniteSet(S), NEW s \in Orderings(S), NEW k
    PROVE  /\ Kept(s) \subseteq S
           /\ Cardinality(OfKind(Kept(s), k)) =
                 IF Cardinality(OfKind(S, k)) < PerCategoryLimit
                 THEN Cardinality(OfKind(S, k)) ELSE PerCategoryLimit
           /\ \A x \in OfKind(Kept(s), k), y \in OfKind(S \ Kept(s), k) : ~Before(y, x)
<1> DEFINE n == Cardinality(S)
           J == Places(s, k)
           m == Cardinality(J)
           r == Number(s, k)
           c == IF m < PerCategoryLimit THEN m ELSE PerCategoryLimit
           KJ == {j \in J : r[j] <= PerCategoryLimit}
           few == {j \in DOMAIN s :
                      Cardinality({h \in 1 .. j : s[h].category = s[j].category}) <= PerCategoryLimit}
<1>1. /\ n \in Nat /\ s \in [1..n -> S]
      /\ \A i, j \in 1..n : i # j => s[i] # s[j]
      /\ \A x \in S : \E i \in 1..n : s[i] = x
      /\ \A i, j \in 1..n : i < j => ~Before(s[j], s[i])
  BY OrderingShape
<1> HIDE DEF n
<1>2. /\ IsFiniteSet(J) /\ m \in Nat /\ r \in [J -> 1..m]
      /\ \A i, j \in J : i < j => r[i] < r[j]
      /\ \A b \in 1..m : \E j \in J : r[j] = b
  BY <1>1, RowNumbers
<1>3. J \subseteq 1..n /\ \A j \in 1..n : j \in J <=> s[j].category = k
  BY <1>1 DEF Places
<1>4. \A j \in J : {h \in 1..j : s[h].category = s[j].category} = {h \in 1..j : s[h].category = k}
  BY <1>3
<1>5. \A j \in J : r[j] = Cardinality({h \in 1..j : s[h].category = s[j].category})
  BY <1>4 DEF Number
<1>6. Kept(s) = {s[i] : i \in few} /\ few \subseteq 1..n
  BY <1>1 DEF Kept
<1>7. \A j \in J : j \in few <=> j \in KJ
  BY <1>1, <1>3, <1>5
<1> HIDE DEF J, r, m, few
<1>8. Kept(s) \subseteq S
  BY <1>1, <1>6
<1>9. \A j \in J : s[j] \in Kept(s) <=> j \in KJ
  <2> HIDE DEF KJ
  <2> QED
    BY <1>1, <1>3, <1>6, <1>7
<1>10. Cardinality(OfKind(S, k)) = m
  <2> DEFINE f == [j \in J |-> s[j]]
  <2>1. f \in [J -> OfKind(S, k)]
    BY <1>1, <1>3 DEF OfKind
  <2>2. \A i, j \in J : f[i] = f[j] => i = j
    BY <1>1, <1>3
  <2>3. \A x \in OfKind(S, k) : \E j \in J : f[j] = x
    BY <1>1, <1>3 DEF OfKind
  <2> HIDE DEF f
  <2> QED
    BY <1>2, <2>1, <2>2, <2>3, SameCount DEF m
<1>11. IsFiniteSet(KJ) /\ Cardinality(KJ) = c
  <2> DEFINE f == [j \in KJ |-> r[j]]
  <2>1. c \in Nat /\ c <= m
    BY <1>2 DEF AgendaAssumption
  <2>2. f \in [KJ -> 1..c]
    BY <1>2 DEF AgendaAssumption
  <2>3. \A i, j \in KJ : f[i] = f[j] => i = j
    <3> SUFFICES ASSUME NEW i \in KJ, NEW j \in KJ, r[i] = r[j], i # j PROVE FALSE
      OBVIOUS
    <3>1. i \in J /\ j \in J /\ i \in Int /\ j \in Int /\ r[i] \in Int /\ r[j] \in Int
      BY <1>1, <1>2, <1>3
    <3>2. i < j \/ j < i
      BY <3>1
    <3> QED
      BY <3>1, <3>2, <1>2
  <2>4. \A b \in 1..c : \E j \in KJ : f[j] = b
    <3> TAKE b \in 1..c
    <3>1. b \in 1..m /\ b <= PerCategoryLimit
      BY <2>1, <1>2 DEF AgendaAssumption
    <3>2. PICK j \in J : r[j] = b
      BY <3>1, <1>2
    <3> QED
      BY <3>1, <3>2
  <2>5. IsFiniteSet(KJ)
    BY <1>2, FS_Subset
  <2> HIDE DEF f, KJ, c
  <2>6. Cardinality(1..c) = Cardinality(KJ)
    BY <2>2, <2>3, <2>4, <2>5, SameCount
  <2>7. Cardinality(1..c) = c
    BY <2>1, FS_Interval
  <2> QED
    BY <2>5, <2>6, <2>7
<1>12. Cardinality(OfKind(Kept(s), k)) = c
  <2> DEFINE f == [j \in KJ |-> s[j]]
  <2>1. f \in [KJ -> OfKind(Kept(s), k)]
    BY <1>1, <1>3, <1>9 DEF OfKind
  <2>2. \A i, j \in KJ : f[i] = f[j] => i = j
    BY <1>1, <1>3
  <2>3. \A x \in OfKind(Kept(s), k) : \E j \in KJ : f[j] = x
    BY <1>1, <1>3, <1>8, <1>9 DEF OfKind
  <2> HIDE DEF f, KJ, c
  <2> QED
    BY <1>11, <2>1, <2>2, <2>3, SameCount
<1>13. ASSUME NEW x \in OfKind(Kept(s), k), NEW y \in OfKind(S \ Kept(s), k)
       PROVE  ~Before(y, x)
  <2>1. PICK i \in KJ : s[i] = x
    BY <1>1, <1>3, <1>8, <1>9 DEF OfKind
  <2>2. PICK j \in J : s[j] = y /\ j \notin KJ
    BY <1>1, <1>3, <1>9 DEF OfKind
  <2>3. i \in J /\ i \in 1..n /\ j \in 1..n /\ r[i] \in Int /\ r[j] \in Int
    BY <2>1, <1>2, <1>3
  <2>4. r[i] < r[j]
    BY <2>1, <2>2, <2>3 DEF AgendaAssumption
  <2>5. ~(j < i) /\ i # j
    BY <1>2, <2>2, <2>3, <2>4
  <2>6. i < j
    BY <2>3, <2>5
  <2> QED
    BY <1>1, <2>1, <2>2, <2>3, <2>6
<1> QED
  BY <1>8, <1>10, <1>12, <1>13

(* The members of an agenda are finitely many entries. *)
LEMMA FiniteImage ==
    ASSUME NEW A, IsFiniteSet(A), NEW B, NEW f \in [A -> B], \A b \in B : \E x \in A : f[x] = b
    PROVE  IsFiniteSet(B)
<1>1. f \in Surjection(A, B)
  BY DEF Surjection
<1> QED
  BY <1>1, FS_Surjection

LEMMA MembersTyped ==
    ASSUME AgendaAssumption, NEW g \in AgendaLedgers, NEW asOf \in Int
    PROVE  Members(g, asOf) \subseteq Entries /\ IsFiniteSet(Members(g, asOf))
<1>1. /\ AgendaUnit \subseteq Nat \ {0} /\ AgendaListing \subseteq Nat \ {0}
      /\ AgendaRequirement \subseteq Nat \ {0} /\ AgendaEvent \subseteq Nat \ {0}
      /\ IsFiniteSet(AgendaUnit) /\ IsFiniteSet(AgendaListing)
      /\ IsFiniteSet(AgendaRequirement) /\ IsFiniteSet(AgendaEvent)
      /\ RevalidationDays \in Int
  BY DEF AgendaAssumption
<1>2. UnitMembers(g, asOf) \subseteq Entries /\ IsFiniteSet(UnitMembers(g, asOf))
  <2> DEFINE A == {x \in AgendaUnit : g.unit[x].live /\ InWindow(g.unit[x].expiry, asOf)}
             f == [u \in A |-> Entry(System.TENANCY_EXPIRY, g.unit[u].expiry, u, Null, Null, Null)]
  <2>1. A \subseteq AgendaUnit /\ IsFiniteSet(A)
    BY <1>1, FS_Subset
  <2>2. UnitMembers(g, asOf) = {f[u] : u \in A}
    BY DEF UnitMembers
  <2>3. \A u \in A : f[u] \in Entries
    BY <2>1 DEF Entries, Entry, System, AgendaLedgers
  <2> HIDE DEF A, f
  <2>4. f \in [A -> UnitMembers(g, asOf)]
    BY <2>2 DEF f
  <2> QED
    BY <2>1, <2>2, <2>3, <2>4, FiniteImage
<1>3. ListingMembers(g, asOf) \subseteq Entries /\ IsFiniteSet(ListingMembers(g, asOf))
  <2> DEFINE A == {x \in AgendaListing :
                 /\ g.listing[x].open /\ g.unit[g.listing[x].unit].live
                 /\ g.listing[x].received # NoDate
                 /\ g.listing[x].received <= Latest(asOf) - RevalidationDays}
             f == [l \in A |-> Entry(System.LISTING_REVALIDATION,
                                     g.listing[l].received + RevalidationDays,
                                     g.listing[l].unit, l, Null, Null)]
  <2>1. A \subseteq AgendaListing /\ IsFiniteSet(A)
    BY <1>1, FS_Subset
  <2>2. ListingMembers(g, asOf) = {f[u] : u \in A}
    BY DEF ListingMembers
  <2>3. \A u \in A : f[u] \in Entries
    <3> TAKE u \in A
    <3>1. g.listing[u].unit \in AgendaUnit /\ g.listing[u].received \in Int /\ u \in AgendaListing
      BY <2>1 DEF AgendaLedgers
    <3>2. g.listing[u].received + RevalidationDays \in Int
      BY <3>1, <1>1
    <3>3. f[u] = Entry(2, g.listing[u].received + RevalidationDays, g.listing[u].unit, u, Null, Null)
      BY DEF System
    <3> HIDE DEF f, A
    <3> QED
      BY <3>1, <3>2, <3>3 DEF Entries, Entry
  <2> HIDE DEF A, f
  <2>4. f \in [A -> ListingMembers(g, asOf)]
    BY <2>2 DEF f
  <2> QED
    BY <2>1, <2>2, <2>3, <2>4, FiniteImage
<1>4. RequirementMembers(g, asOf) \subseteq Entries /\ IsFiniteSet(RequirementMembers(g, asOf))
  <2> DEFINE Dates == {"CLIENT_TENANCY_EXPIRY", "REQUEST_EXPIRY", "MOVE_IN"}
             A(k) == {q \in AgendaRequirement :
                        /\ g.requirement[q].live /\ g.requirement[q].active
                        /\ InWindow(g.requirement[q][k], asOf)}
             f(k) == [q \in A(k) |-> Entry(System[k], g.requirement[q][k], Null, Null, q, Null)]
             B(k) == {f(k)[q] : q \in A(k)}
  <2>1. ASSUME NEW k \in Dates PROVE B(k) \subseteq Entries /\ IsFiniteSet(B(k))
    <3>1. A(k) \subseteq AgendaRequirement /\ IsFiniteSet(A(k))
      BY <1>1, FS_Subset
    <3>2. \A q \in A(k) : f(k)[q] \in Entries
      BY <3>1, <2>1 DEF Entries, Entry, System, AgendaLedgers
    <3>3. f(k) \in [A(k) -> B(k)] /\ \A b \in B(k) : \E q \in A(k) : f(k)[q] = b
      OBVIOUS
    <3> HIDE DEF A, f
    <3>4. IsFiniteSet(B(k))
      <4> HIDE DEF B
      <4> QED
        BY <3>1, <3>3, FiniteImage
    <3> QED
      BY <3>2, <3>4
  <2>2. RequirementMembers(g, asOf) =
          (B("CLIENT_TENANCY_EXPIRY") \cup B("REQUEST_EXPIRY")) \cup B("MOVE_IN")
    <3>1. RequirementMembers(g, asOf) \subseteq
            (B("CLIENT_TENANCY_EXPIRY") \cup B("REQUEST_EXPIRY")) \cup B("MOVE_IN")
      <4> SUFFICES ASSUME NEW x \in RequirementMembers(g, asOf)
                   PROVE  \E k \in Dates : x \in B(k)
        OBVIOUS
      <4>1. PICK q \in AgendaRequirement, k \in Dates :
              /\ g.requirement[q].live /\ g.requirement[q].active
              /\ InWindow(g.requirement[q][k], asOf)
              /\ x = Entry(System[k], g.requirement[q][k], Null, Null, q, Null)
        BY DEF RequirementMembers
      <4>2. q \in A(k) /\ x = f(k)[q]
        BY <4>1
      <4> QED
        BY <4>2
    <3>2. ASSUME NEW k \in Dates, NEW x \in B(k) PROVE x \in RequirementMembers(g, asOf)
      <4>1. PICK q \in A(k) : x = f(k)[q]
        OBVIOUS
      <4>2. /\ q \in {y \in AgendaRequirement : g.requirement[y].live /\ g.requirement[y].active}
            /\ k \in {y \in Dates : InWindow(g.requirement[q][y], asOf)}
            /\ x = Entry(System[k], g.requirement[q][k], Null, Null, q, Null)
        BY <4>1
      <4> QED
        BY <4>2 DEF RequirementMembers
    <3> QED
      BY <3>1, <3>2
  <2> HIDE DEF B
  <2> QED
    BY <2>1, <2>2, FS_Union
<1>5. EventMembers(g, asOf) \subseteq Entries /\ IsFiniteSet(EventMembers(g, asOf))
  <2> DEFINE A == {x \in AgendaEvent : g.event[x].live /\ InWindow(g.event[x].date, asOf)}
             f == [e \in A |-> Entry(g.event[e].category, g.event[e].date, Null, Null, Null, e)]
  <2>1. A \subseteq AgendaEvent /\ IsFiniteSet(A)
    BY <1>1, FS_Subset
  <2>2. EventMembers(g, asOf) = {f[u] : u \in A}
    BY DEF EventMembers
  <2>3. \A u \in A : f[u] \in Entries
    BY <2>1 DEF Entries, Entry, AgendaLedgers
  <2> HIDE DEF A, f
  <2>4. f \in [A -> EventMembers(g, asOf)]
    BY <2>2 DEF f
  <2> QED
    BY <2>1, <2>2, <2>3, <2>4, FiniteImage
<1>6. Members(g, asOf) = ((UnitMembers(g, asOf) \cup ListingMembers(g, asOf))
                            \cup RequirementMembers(g, asOf)) \cup EventMembers(g, asOf)
  BY DEF Members
<1> QED
  BY ONLY <1>2, <1>3, <1>4, <1>5, <1>6, FS_Union

(* Only what is there is a member: an entry of no event has a unit that is live
   or a requirement that is.                                                 *)
LEMMA MemberFound ==
    ASSUME AgendaAssumption, NEW g \in AgendaLedgers, NEW asOf \in Int, NEW x \in Members(g, asOf)
    PROVE  \/ x.event # Null
           \/ /\ x.unit # Null => g.unit[x.unit].live
              /\ x.requirement # Null => g.requirement[x.requirement].live
<1>1. CASE x \in UnitMembers(g, asOf)
  BY <1>1 DEF UnitMembers, Entry
<1>2. CASE x \in ListingMembers(g, asOf)
  BY <1>2 DEF ListingMembers, Entry
<1>3. CASE x \in RequirementMembers(g, asOf)
  BY <1>3 DEF RequirementMembers, Entry
<1>4. CASE x \in EventMembers(g, asOf)
  BY <1>4 DEF EventMembers, Entry, AgendaAssumption, Null
<1> QED
  BY <1>1, <1>2, <1>3, <1>4 DEF Members

ScreenFields ==
    {"pc", "asOf", "offset", "total", "totals", "page", "read", "skipped", "quiet", "oneDay"}

AgendaTyped ==
    /\ agendaLedger \in AgendaLedgers
    /\ DOMAIN agendaScreen = ScreenFields
    /\ agendaScreen.pc \in {"count", "categories", "rows", "details", "done"}
    /\ agendaScreen.asOf \in Int /\ agendaToday \in Int
    /\ agendaScreen.offset \in Nat
    /\ agendaScreen.offset = 0 => agendaScreen.read = <<>>
    /\ agendaScreen.page \in Seq(Entries)
    /\ agendaScreen.quiet \in BOOLEAN /\ agendaScreen.oneDay \in BOOLEAN

(* What an office without changes lists on the day of the request, as one sequence. *)
Listings ==
    UNION {Orderings(Kept(ranked)) : ranked \in Orderings(Listed)}

(* While nothing changes and the day is the same, what has been read so far is the beginning of that
   sequence, and the page at hand is what comes next.                        *)
PagesHold ==
    /\ agendaScreen.skipped = {}
    /\ \A rows \in Listings :
          /\ agendaScreen.read =
                SubSeq(rows, 1, IF agendaScreen.offset < Len(rows)
                                THEN agendaScreen.offset ELSE Len(rows))
          /\ agendaScreen.pc = "details" => agendaScreen.page = PageOf(rows, agendaScreen.offset)
          /\ agendaScreen.pc = "done" => Len(rows) <= agendaScreen.offset
    /\ agendaScreen.pc \in {"details", "done"} => Listings # {}

CountsHold ==
    LET M == Listed IN
    /\ agendaScreen.pc \in {"categories", "rows", "details", "done"} =>
          agendaScreen.total = Cardinality(M)
    /\ agendaScreen.pc \in {"rows", "details", "done"} =>
          agendaScreen.totals = [k \in {x.category : x \in M} |-> Cardinality(OfKind(M, k))]

(* What was skipped stays away: nothing that was deleted comes back. *)
Gone(x) ==
    /\ x.event = Null
    /\ \/ x.unit # Null /\ ~agendaLedger.unit[x.unit].live
       \/ x.requirement # Null /\ ~agendaLedger.requirement[x.requirement].live

AgendaInv ==
    /\ AgendaTyped
    /\ \A x \in agendaScreen.skipped : x \in Entries /\ Gone(x)
    /\ agendaScreen.quiet => CountsHold
    /\ agendaScreen.quiet /\ agendaScreen.oneDay => PagesHold

(* One sequence is listed, and it is of the members. *)
LEMMA ListedShape ==
    ASSUME AgendaAssumption, AgendaTyped, NEW rows \in Listings
    PROVE  /\ rows \in Seq(Listed) /\ rows \in Seq(Entries)
           /\ \A other \in Listings : other = rows
<1> DEFINE M == Listed
<1>1. M \subseteq Entries /\ IsFiniteSet(M)
  BY MembersTyped DEF AgendaTyped, Listed
<1> HIDE DEF M
<1>2. PICK ranked \in Orderings(M) : rows \in Orderings(Kept(ranked))
  BY DEF Listings, M
<1>3. Kept(ranked) \subseteq M /\ IsFiniteSet(Kept(ranked))
  <2>1. Kept(ranked) \subseteq M
    BY <1>1, <1>2, KeptOfKind
  <2> QED
    BY <1>1, <2>1, FS_Subset
<1>4. rows \in Seq(Kept(ranked))
  BY <1>2, <1>3, OrderingShape
<1>5. rows \in Seq(M) /\ rows \in Seq(Entries)
  BY <1>1, <1>3, <1>4
<1>6. ASSUME NEW other \in Listings PROVE other = rows
  <2>1. PICK again \in Orderings(M) : other \in Orderings(Kept(again))
    BY <1>6 DEF Listings, M
  <2>2. again = ranked
    BY <1>1, <1>2, <2>1, OneOrdering
  <2> QED
    BY <1>1, <1>2, <1>3, <2>1, <2>2, OneOrdering
<1> QED
  BY <1>5, <1>6 DEF M

LEMMA AgendaStarts == AgendaInit => AgendaInv
<1> SUFFICES ASSUME AgendaInit PROVE AgendaInv
  OBVIOUS
<1>1. agendaLedger \in AgendaLedgers
  BY AgendaAssumption DEF AgendaInit, AgendaAssumption
<1>2. /\ DOMAIN agendaScreen = ScreenFields
      /\ agendaScreen.pc = "count" /\ agendaScreen.offset = 0 /\ agendaScreen.page = <<>>
      /\ agendaScreen.read = <<>> /\ agendaScreen.skipped = {}
      /\ agendaScreen.quiet = TRUE /\ agendaScreen.oneDay = TRUE
      /\ agendaScreen.asOf \in Int /\ agendaToday \in Int
  BY AgendaAssumption DEF AgendaInit, ScreenFields, AgendaAssumption
<1>3. AgendaTyped
  <2>1. <<>> \in Seq(Entries)
    OBVIOUS
  <2>2. agendaScreen.page \in Seq(Entries)
    BY <1>2, <2>1
  <2>3. /\ DOMAIN agendaScreen = ScreenFields
        /\ agendaScreen.pc \in {"count", "categories", "rows", "details", "done"}
        /\ agendaScreen.offset \in Nat
        /\ agendaScreen.offset = 0 => agendaScreen.read = <<>>
        /\ agendaScreen.asOf \in Int /\ agendaToday \in Int
    BY <1>2
  <2>4. agendaScreen.quiet \in BOOLEAN /\ agendaScreen.oneDay \in BOOLEAN
    BY <1>2, Zenon
  <2> QED
    BY <1>1, <2>2, <2>3, <2>4 DEF AgendaTyped
<1>4. PagesHold
  <2> SUFFICES ASSUME NEW rows \in Listings
               PROVE  <<>> = SubSeq(rows, 1, IF 0 < Len(rows) THEN 0 ELSE Len(rows))
    BY <1>2 DEF PagesHold
  <2>1. rows \in Seq(Entries)
    BY <1>3, ListedShape, AgendaAssumption
  <2> QED
    BY <2>1
<1> QED
  BY <1>2, <1>3, <1>4 DEF AgendaInv, CountsHold

(* A change of the ledger ends what is known of the pages, and takes away. *)
LEMMA ChangeKeeps ==
    ASSUME AgendaInv, NEW g \in AgendaLedgers, Change(g),
           \A u \in AgendaUnit : ~agendaLedger.unit[u].live => ~g.unit[u].live,
           \A q \in AgendaRequirement :
               ~agendaLedger.requirement[q].live => ~g.requirement[q].live
    PROVE  AgendaInv'
<1>1. /\ agendaLedger' = g /\ agendaScreen' = [agendaScreen EXCEPT !.quiet = FALSE]
      /\ agendaToday' = agendaToday
  BY DEF Change
<1>2. AgendaTyped'
  BY <1>1 DEF AgendaInv, AgendaTyped, ScreenFields
<1>3. agendaScreen'.quiet = FALSE /\ agendaScreen'.skipped = agendaScreen.skipped
  BY <1>1 DEF AgendaInv, AgendaTyped, ScreenFields
<1>4. ASSUME NEW x \in agendaScreen.skipped PROVE x \in Entries /\ Gone(x)'
  <2>1. x \in Entries /\ Gone(x)
    BY DEF AgendaInv
  <2>2. x.unit # Null => x.unit \in AgendaUnit
    BY <2>1 DEF Entries
  <2>3. x.requirement # Null => x.requirement \in AgendaRequirement
    BY <2>1 DEF Entries
  <2> QED
    BY <1>1, <2>1, <2>2, <2>3 DEF Gone
<1> QED
  BY <1>2, <1>3, <1>4 DEF AgendaInv

LEMMA ChangesKeep ==
    ASSUME AgendaInv
    PROVE  /\ \A u \in AgendaUnit : DeleteUnitOf(u) => AgendaInv'
           /\ \A l \in AgendaListing : CloseListing(l) => AgendaInv'
           /\ \A q \in AgendaRequirement : DeleteRequirementOf(q) => AgendaInv'
           /\ \A e \in AgendaEvent, d \in Int : MoveEvent(e, d) => AgendaInv'
<1> DEFINE g == agendaLedger
<1>1. g \in AgendaLedgers
  BY DEF AgendaInv, AgendaTyped
<1>2. ASSUME NEW u \in AgendaUnit, DeleteUnitOf(u) PROVE AgendaInv'
  <2> DEFINE h == [g EXCEPT !.unit[u].live = FALSE]
  <2>1. h \in AgendaLedgers
    <3> DEFINE row == [g.unit[u] EXCEPT !.live = FALSE]
    <3>1. h.unit = [g.unit EXCEPT ![u] = row]
      BY <1>1 DEF AgendaLedgers
    <3>2. g.unit \in [AgendaUnit -> [live : BOOLEAN, expiry : Int]]
      BY <1>1 DEF AgendaLedgers
    <3>3. row \in [live : BOOLEAN, expiry : Int]
      BY <3>2
    <3> HIDE DEF row
    <3>4. h.unit \in [AgendaUnit -> [live : BOOLEAN, expiry : Int]]
      BY ZenonT(40), <3>1, <3>2, <3>3
    <3> QED
      BY <1>1, <3>4 DEF AgendaLedgers
  <2>2. /\ \A v \in AgendaUnit : ~g.unit[v].live => ~h.unit[v].live
        /\ h.requirement = g.requirement
    BY <1>1 DEF AgendaLedgers
  <2> QED
    BY <1>2, <2>1, <2>2, ChangeKeeps DEF DeleteUnitOf
<1>3. ASSUME NEW l \in AgendaListing, CloseListing(l) PROVE AgendaInv'
  <2> DEFINE h == [g EXCEPT !.listing[l].open = FALSE]
  <2>1. h \in AgendaLedgers /\ h.unit = g.unit /\ h.requirement = g.requirement
    <3> DEFINE row == [g.listing[l] EXCEPT !.open = FALSE]
    <3>1. h.listing = [g.listing EXCEPT ![l] = row]
      BY <1>1 DEF AgendaLedgers
    <3>2. g.listing \in [AgendaListing -> [open : BOOLEAN, unit : AgendaUnit, received : Int]]
      BY <1>1 DEF AgendaLedgers
    <3>3. row \in [open : BOOLEAN, unit : AgendaUnit, received : Int]
      BY <3>2
    <3> HIDE DEF row
    <3>4. h.listing \in [AgendaListing -> [open : BOOLEAN, unit : AgendaUnit, received : Int]]
      BY ZenonT(40), <3>1, <3>2, <3>3
    <3> QED
      BY <1>1, <3>4 DEF AgendaLedgers
  <2> QED
    BY <1>3, <2>1, ChangeKeeps DEF CloseListing
<1>4. ASSUME NEW q \in AgendaRequirement, DeleteRequirementOf(q) PROVE AgendaInv'
  <2> DEFINE h == [g EXCEPT !.requirement[q].live = FALSE]
  <2>1. h \in AgendaLedgers
    BY ZenonT(40), <1>1 DEF AgendaLedgers
  <2>2. /\ \A v \in AgendaRequirement : ~g.requirement[v].live => ~h.requirement[v].live
        /\ h.unit = g.unit
    BY <1>1 DEF AgendaLedgers
  <2> QED
    BY <1>4, <2>1, <2>2, ChangeKeeps DEF DeleteRequirementOf
<1>5. ASSUME NEW e \in AgendaEvent, NEW d \in Int, MoveEvent(e, d) PROVE AgendaInv'
  <2> DEFINE h == [g EXCEPT !.event[e].date = d]
  <2>1. h \in AgendaLedgers /\ h.unit = g.unit /\ h.requirement = g.requirement
    BY ZenonT(40), <1>1 DEF AgendaLedgers
  <2> QED
    BY <1>5, <2>1, ChangeKeeps DEF MoveEvent
<1> QED
  BY <1>2, <1>3, <1>4, <1>5

(* Before anything is read, every listing begins with it. *)
LEMMA NothingRead ==
    ASSUME NEW rows \in Seq(Entries)
    PROVE  <<>> = SubSeq(rows, 1, IF 0 < Len(rows) THEN 0 ELSE Len(rows))
  OBVIOUS

(* A request begins: the window may be that of another day than the last one's. *)
LEMMA CountKeeps == AgendaInv /\ CountAgenda => AgendaInv'
<1> SUFFICES ASSUME AgendaInv, CountAgenda PROVE AgendaInv'
  OBVIOUS
<1> DEFINE oneDay == agendaScreen.oneDay
                        /\ (agendaScreen.offset = 0 \/ agendaScreen.asOf = agendaToday)
           total == Cardinality(Members(agendaLedger, agendaToday))
<1>1. /\ agendaLedger' = agendaLedger /\ agendaToday' = agendaToday /\ agendaScreen.pc = "count"
      /\ agendaScreen' = [agendaScreen EXCEPT !.pc = "categories", !.asOf = agendaToday,
                                              !.oneDay = oneDay, !.total = total]
  BY DEF CountAgenda, Step
<1>2. oneDay \in BOOLEAN /\ (oneDay => agendaScreen.oneDay
                             /\ (agendaScreen.offset = 0 \/ agendaScreen.asOf = agendaToday))
  OBVIOUS
<1> HIDE DEF oneDay
<1>3. /\ DOMAIN agendaScreen' = ScreenFields /\ agendaScreen'.pc = "categories"
      /\ agendaScreen'.asOf = agendaToday /\ agendaScreen'.total = total
      /\ agendaScreen'.offset = agendaScreen.offset /\ agendaScreen'.page = agendaScreen.page
      /\ agendaScreen'.read = agendaScreen.read /\ agendaScreen'.skipped = agendaScreen.skipped
      /\ agendaScreen'.quiet = agendaScreen.quiet
  BY <1>1 DEF AgendaInv, AgendaTyped, ScreenFields
<1>4. agendaScreen'.oneDay = oneDay
  BY <1>1, Zenon DEF AgendaInv, AgendaTyped, ScreenFields
<1>5. AgendaTyped'
  <2>1. agendaScreen'.quiet \in BOOLEAN /\ agendaScreen'.oneDay \in BOOLEAN
    BY <1>2, <1>3, <1>4, Zenon DEF AgendaInv, AgendaTyped
  <2> QED
    BY <1>1, <1>3, <2>1 DEF AgendaInv, AgendaTyped
<1>6. \A x \in agendaScreen'.skipped : x \in Entries /\ Gone(x)'
  BY <1>1, <1>3 DEF AgendaInv, Gone
<1>7. Listed' = Members(agendaLedger, agendaToday)
  BY <1>1, <1>3 DEF Listed
<1>8. CountsHold'
  BY <1>3, <1>7 DEF CountsHold
<1>9. ASSUME agendaScreen'.quiet, agendaScreen'.oneDay PROVE PagesHold'
  <2>1. PagesHold /\ (agendaScreen.offset = 0 \/ agendaScreen.asOf = agendaToday)
    BY <1>2, <1>3, <1>4, <1>9, Zenon DEF AgendaInv
  <2>2. CASE agendaScreen.offset = 0
    <3>1. agendaScreen'.read = <<>> /\ agendaScreen'.offset = 0 /\ agendaScreen'.skipped = {}
      BY <1>3, <2>1, <2>2 DEF AgendaInv, AgendaTyped, PagesHold
    <3>2. \A rows \in Listings' : rows \in Seq(Entries)
      <4> SUFFICES ASSUME NEW rows \in Listings' PROVE rows \in Seq(Entries)
        OBVIOUS
      <4>1. Members(agendaLedger, agendaToday) \subseteq Entries
            /\ IsFiniteSet(Members(agendaLedger, agendaToday))
        BY MembersTyped, AgendaAssumption DEF AgendaInv, AgendaTyped
      <4>2. PICK ranked \in Orderings(Members(agendaLedger, agendaToday)) :
               rows \in Orderings(Kept(ranked))
        BY <1>7 DEF Listings
      <4>3. Kept(ranked) \subseteq Members(agendaLedger, agendaToday)
        BY <4>1, <4>2, KeptOfKind, AgendaAssumption
      <4>4. IsFiniteSet(Kept(ranked))
        BY <4>1, <4>3, FS_Subset
      <4>5. rows \in Seq(Kept(ranked))
        BY <4>2, <4>4, OrderingShape
      <4> QED
        BY <4>1, <4>3, <4>5
    <3> QED
      BY <1>3, <3>1, <3>2, NothingRead DEF PagesHold
  <2>3. CASE agendaScreen.asOf = agendaToday
    <3>1. Listings' = Listings
      BY <1>7, <2>3 DEF Listings, Listed
    <3> QED
      BY <1>3, <2>1, <3>1 DEF PagesHold
  <2> QED
    BY <2>1, <2>2, <2>3
<1> QED
  BY <1>5, <1>6, <1>8, <1>9 DEF AgendaInv

LEMMA CategoriesKeep == AgendaInv /\ CountCategories => AgendaInv'
<1> SUFFICES ASSUME AgendaInv, CountCategories PROVE AgendaInv'
  OBVIOUS
<1> DEFINE totals == [k \in {x.category : x \in Listed} |-> Cardinality(OfKind(Listed, k))]
<1>1. /\ agendaLedger' = agendaLedger /\ agendaToday' = agendaToday
      /\ agendaScreen.pc = "categories"
      /\ agendaScreen' = [agendaScreen EXCEPT !.pc = "rows", !.totals = totals]
  BY DEF CountCategories, Step
<1> HIDE DEF totals
<1>2. /\ DOMAIN agendaScreen' = ScreenFields /\ agendaScreen'.pc = "rows"
      /\ agendaScreen'.asOf = agendaScreen.asOf /\ agendaScreen'.total = agendaScreen.total
      /\ agendaScreen'.totals = totals
      /\ agendaScreen'.offset = agendaScreen.offset /\ agendaScreen'.page = agendaScreen.page
      /\ agendaScreen'.read = agendaScreen.read /\ agendaScreen'.skipped = agendaScreen.skipped
      /\ agendaScreen'.quiet = agendaScreen.quiet /\ agendaScreen'.oneDay = agendaScreen.oneDay
  BY <1>1 DEF AgendaInv, AgendaTyped, ScreenFields
<1>3. Listed' = Listed /\ Listings' = Listings
  BY <1>1, <1>2 DEF Listed, Listings
<1>4. AgendaTyped'
  BY <1>1, <1>2 DEF AgendaInv, AgendaTyped
<1>5. \A x \in agendaScreen'.skipped : x \in Entries /\ Gone(x)'
  BY <1>1, <1>2 DEF AgendaInv, Gone
<1>6. agendaScreen.quiet /\ agendaScreen.oneDay => PagesHold'
  BY <1>2, <1>3 DEF AgendaInv, PagesHold
<1>7. agendaScreen.quiet => CountsHold'
  BY <1>1, <1>2, <1>3 DEF AgendaInv, CountsHold, totals
<1> QED
  BY <1>2, <1>4, <1>5, <1>6, <1>7 DEF AgendaInv

LEMMA MidnightKeeps == AgendaInv /\ MidnightPasses => AgendaInv'
<1> SUFFICES ASSUME AgendaInv, MidnightPasses PROVE AgendaInv'
  OBVIOUS
<1>1. /\ agendaToday' = agendaToday + 1
      /\ UNCHANGED <<agendaLedger, agendaScreen>>
  BY DEF MidnightPasses
<1> QED
  BY <1>1 DEF AgendaInv, AgendaTyped, PagesHold, CountsHold, Listings, Listed, Gone

LEMMA Joined ==
    ASSUME NEW S, NEW rows \in Seq(S), NEW a \in 0..Len(rows), NEW b \in a..Len(rows)
    PROVE  /\ SubSeq(rows, a + 1, b) \in Seq(S) /\ Len(SubSeq(rows, a + 1, b)) = b - a
           /\ SubSeq(rows, 1, a) \o SubSeq(rows, a + 1, b) = SubSeq(rows, 1, b)
<1>1. Len(rows) \in Nat /\ a \in Nat /\ b \in Nat /\ a <= b /\ b <= Len(rows)
  OBVIOUS
<1>2. /\ SubSeq(rows, 1, a) \in Seq(S) /\ Len(SubSeq(rows, 1, a)) = a
      /\ \A i \in 1..a : SubSeq(rows, 1, a)[i] = rows[i]
  BY <1>1
<1>3. /\ SubSeq(rows, 1, b) \in Seq(S) /\ Len(SubSeq(rows, 1, b)) = b
      /\ \A i \in 1..b : SubSeq(rows, 1, b)[i] = rows[i]
  BY <1>1
<1>4. SubSeq(rows, a + 1, b) = [i \in 1..(b - a) |-> rows[a + i]]
  BY <1>1
<1>5. /\ SubSeq(rows, a + 1, b) \in Seq(S) /\ Len(SubSeq(rows, a + 1, b)) = b - a
      /\ \A i \in 1..(b - a) : SubSeq(rows, a + 1, b)[i] = rows[a + i]
  BY <1>1, <1>4
<1> DEFINE x == SubSeq(rows, 1, a)
           y == SubSeq(rows, a + 1, b)
           z == SubSeq(rows, 1, b)
<1> HIDE DEF x, y, z
<1>6. x \o y \in Seq(S) /\ Len(x \o y) = b
  BY <1>1, <1>2, <1>5 DEF x, y
<1>7. ASSUME NEW i \in 1..b PROVE (x \o y)[i] = z[i]
  <2>1. CASE i <= a
    BY <1>1, <1>2, <1>3, <1>5, <2>1 DEF x, y, z
  <2>2. CASE i > a
    <3>1. i - a \in 1..(b - a) /\ a + (i - a) = i
      BY <1>1, <2>2
    <3>2. y[i - a] = rows[i]
      BY <1>5, <3>1 DEF y
    <3>3. (x \o y)[i] = y[i - a]
      BY <1>1, <1>2, <1>5, <2>2, <3>1 DEF x, y
    <3> QED
      BY <1>3, <3>2, <3>3 DEF z
  <2>3. i <= a \/ i > a
    BY <1>1
  <2> QED
    BY <2>1, <2>2, <2>3
<1>8. x \o y = z
  BY <1>3, <1>6, <1>7 DEF z
<1> QED
  BY <1>5, <1>8 DEF x, y, z

(* A page goes on where the ones before it ended. *)
LEMMA PageOfRows ==
    ASSUME AgendaAssumption, NEW S, NEW rows \in Seq(S), NEW o \in Nat
    PROVE  /\ PageOf(rows, o) \in Seq(S)
           /\ Len(PageOf(rows, o)) # PageLimit => Len(rows) <= o + PageLimit
           /\ SubSeq(rows, 1, IF o < Len(rows) THEN o ELSE Len(rows)) \o PageOf(rows, o)
                = SubSeq(rows, 1, IF o + PageLimit < Len(rows)
                                  THEN o + PageLimit ELSE Len(rows))
<1> DEFINE n == Len(rows)
           b == IF o + PageLimit < n THEN o + PageLimit ELSE n
<1>1. PageLimit \in Nat \ {0} /\ n \in Nat
  BY DEF AgendaAssumption
<1>2. PageOf(rows, o) = SubSeq(rows, o + 1, b)
  BY DEF PageOf
<1>3. CASE o < n
  <2>1. o \in 0..n /\ b \in o..n
    BY <1>1, <1>3
  <2>2. b - o # PageLimit => n <= o + PageLimit
    BY <1>1, <1>3
  <2> HIDE DEF b
  <2>3. /\ SubSeq(rows, o + 1, b) \in Seq(S) /\ Len(SubSeq(rows, o + 1, b)) = b - o
        /\ SubSeq(rows, 1, o) \o SubSeq(rows, o + 1, b) = SubSeq(rows, 1, b)
    BY <2>1, Joined
  <2> QED
    BY <1>2, <1>3, <2>2, <2>3 DEF b
<1>4. CASE ~(o < n)
  <2>1. b = n /\ n <= o + PageLimit
    BY <1>1, <1>4
  <2>2. SubSeq(rows, o + 1, n) = <<>>
    BY <1>1, <1>4
  <2>3. rows \o <<>> = rows /\ SubSeq(rows, 1, n) = rows
    BY <1>1
  <2>4. <<>> \in Seq(S)
    OBVIOUS
  <2> HIDE DEF b
  <2> QED
    BY <1>2, <1>4, <2>1, <2>2, <2>3, <2>4 DEF b
<1> QED
  BY <1>3, <1>4

LEMMA ListKeeps == AgendaInv /\ ListAgenda => AgendaInv'
<1> SUFFICES ASSUME AgendaInv, ListAgenda PROVE AgendaInv'
  OBVIOUS
<1>0. PICK ranked \in Orderings(Listed) : \E rows \in Orderings(Kept(ranked)) :
        Step([agendaScreen EXCEPT !.pc = "details", !.page = PageOf(rows, agendaScreen.offset)])
  BY DEF ListAgenda
<1>1. PICK rows \in Orderings(Kept(ranked)) :
        Step([agendaScreen EXCEPT !.pc = "details", !.page = PageOf(rows, agendaScreen.offset)])
  BY <1>0
<1>2. /\ agendaScreen.pc = "rows" /\ rows \in Listings
      /\ agendaLedger' = agendaLedger /\ agendaToday' = agendaToday
  BY <1>1 DEF ListAgenda, Step, Listings
<1>3. /\ DOMAIN agendaScreen' = ScreenFields /\ agendaScreen'.pc = "details"
      /\ agendaScreen'.offset = agendaScreen.offset
      /\ agendaScreen'.page = PageOf(rows, agendaScreen.offset)
      /\ agendaScreen'.read = agendaScreen.read /\ agendaScreen'.skipped = agendaScreen.skipped
      /\ agendaScreen'.total = agendaScreen.total /\ agendaScreen'.totals = agendaScreen.totals
      /\ agendaScreen'.quiet = agendaScreen.quiet /\ agendaScreen'.oneDay = agendaScreen.oneDay
      /\ agendaScreen'.asOf = agendaScreen.asOf
  BY <1>1 DEF Step, AgendaInv, AgendaTyped, ScreenFields
<1>4. Listings' = Listings /\ Listed' = Listed
  BY <1>2, <1>3 DEF Listings, Listed
<1>5. rows \in Seq(Entries) /\ \A other \in Listings : other = rows
  BY <1>2, ListedShape, AgendaAssumption DEF AgendaInv
<1>6. AgendaTyped'
  BY <1>2, <1>3, <1>5, PageOfRows, AgendaAssumption DEF AgendaInv, AgendaTyped
<1>7. \A x \in agendaScreen'.skipped : x \in Entries /\ Gone(x)'
  BY <1>2, <1>3 DEF AgendaInv, Gone
<1>8. agendaScreen.quiet /\ agendaScreen.oneDay => PagesHold'
  BY <1>2, <1>3, <1>4, <1>5 DEF AgendaInv, PagesHold
<1>9. agendaScreen.quiet => CountsHold'
  BY <1>2, <1>3, <1>4 DEF AgendaInv, CountsHold
<1> QED
  BY <1>3, <1>6, <1>7, <1>8, <1>9 DEF AgendaInv

LEMMA DetailsKeep == AgendaInv /\ LoadDetails => AgendaInv'
<1> SUFFICES ASSUME AgendaInv, LoadDetails PROVE AgendaInv'
  OBVIOUS
<1> DEFINE s == agendaScreen
           missing == {x \in ToSet(s.page) : ~TargetFound(x)}
<1>1. s.pc = "details" /\ agendaLedger' = agendaLedger /\ agendaToday' = agendaToday
  BY DEF LoadDetails, Step
<1>2. /\ DOMAIN s' = ScreenFields
      /\ s'.pc = IF Len(s.page) = PageLimit THEN "count" ELSE "done"
      /\ s'.offset = s.offset + PageLimit /\ s'.page = <<>>
      /\ s'.read = s.read \o s.page /\ s'.skipped = s.skipped \cup missing
      /\ s'.total = s.total /\ s'.totals = s.totals /\ s'.quiet = s.quiet
      /\ s'.oneDay = s.oneDay /\ s'.asOf = s.asOf
  BY DEF LoadDetails, Step, AgendaInv, AgendaTyped, ScreenFields
<1>3. Listings' = Listings /\ Listed' = Listed
  BY <1>1, <1>2 DEF Listings, Listed
<1>4. missing \subseteq Entries
  BY DEF ToSet, AgendaInv, AgendaTyped
<1>5. AgendaTyped'
  <2>1. s.offset + PageLimit \in Nat \ {0}
    BY AgendaAssumption DEF AgendaAssumption, AgendaInv, AgendaTyped
  <2>2. <<>> \in Seq(Entries)
    OBVIOUS
  <2> QED
    BY <1>1, <1>2, <2>1, <2>2 DEF AgendaInv, AgendaTyped
<1>6. ASSUME NEW x \in s'.skipped PROVE x \in Entries /\ Gone(x)'
  <2>1. CASE x \in s.skipped
    BY <1>1, <2>1 DEF AgendaInv, Gone
  <2>2. CASE x \in missing
    <3>1. ~TargetFound(x)
      BY <2>2
    <3> QED
      BY <1>1, <1>4, <2>2, <3>1 DEF TargetFound, UnitFound, RequirementFound, Gone
  <2> QED
    BY <1>2, <2>1, <2>2
<1>7. ASSUME s.quiet, s.oneDay PROVE PagesHold'
  <2>1. PagesHold
    BY <1>7 DEF AgendaInv
  <2>2. PICK rows \in Listings : TRUE
    BY <1>1, <2>1 DEF PagesHold
  <2>3. /\ rows \in Seq(Listed) /\ rows \in Seq(Entries)
        /\ \A other \in Listings : other = rows
    BY <2>2, ListedShape, AgendaAssumption DEF AgendaInv
  <2>4. /\ s.page = PageOf(rows, s.offset)
        /\ s.read = SubSeq(rows, 1, IF s.offset < Len(rows) THEN s.offset ELSE Len(rows))
    BY <1>1, <2>1 DEF PagesHold
  <2>5. s.offset \in Nat
    BY DEF AgendaInv, AgendaTyped
  <2>6. missing = {}
    <3> SUFFICES ASSUME NEW x \in ToSet(s.page), ~TargetFound(x) PROVE FALSE
      OBVIOUS
    <3>1. s.page \in Seq(Listed)
      <4>1. PageOf(rows, s.offset) \in Seq(Listed)
        BY ONLY <2>3, <2>5, PageOfRows, AgendaAssumption
      <4> QED
        BY ONLY <2>4, <4>1
    <3>2. x \in Listed
      BY <3>1 DEF ToSet
    <3> QED
      BY <3>2, MemberFound, AgendaAssumption
      DEF AgendaInv, AgendaTyped, Listed, TargetFound, UnitFound, RequirementFound
  <2>7. s'.skipped = {}
    BY <1>2, <2>1, <2>6 DEF PagesHold
  <2>8. /\ Len(s.page) # PageLimit => Len(rows) <= s.offset + PageLimit
        /\ s.read \o s.page =
              SubSeq(rows, 1, IF s.offset + PageLimit < Len(rows)
                              THEN s.offset + PageLimit ELSE Len(rows))
    BY <2>3, <2>4, <2>5, PageOfRows, AgendaAssumption
  <2>9. s'.pc # "details" /\ (s'.pc = "done" => Len(s.page) # PageLimit)
    BY <1>2
  <2>10. s'.offset = s.offset + PageLimit /\ s'.read = s.read \o s.page
    BY <1>2
  <2> HIDE DEF s, missing
  <2> QED
    BY <1>3, <2>2, <2>3, <2>7, <2>8, <2>9, <2>10 DEF PagesHold, s
<1>8. s.quiet => CountsHold'
  BY <1>1, <1>2, <1>3 DEF AgendaInv, CountsHold
<1> QED
  BY <1>2, <1>5, <1>6, <1>7, <1>8 DEF AgendaInv

(* What a screen has read is the beginning of what is listed, as long as nothing
   changes and the answers are for one day (list_agenda, load_agenda).       *)
THEOREM AgendaInvariance == AgendaSpec => []AgendaInv
<1>1. AgendaInv /\ [AgendaNext]_agendaVars => AgendaInv'
  <2> SUFFICES ASSUME AgendaInv, [AgendaNext]_agendaVars PROVE AgendaInv'
    OBVIOUS
  <2>1. CASE UNCHANGED agendaVars
    BY <2>1 DEF agendaVars, AgendaInv, AgendaTyped, PagesHold, CountsHold, Listings, Listed, Gone
  <2>2. Earliest(agendaToday) \in Int /\ Latest(agendaToday) + 1 \in Int
    BY AgendaAssumption DEF AgendaAssumption, Earliest, Latest, AgendaInv, AgendaTyped
  <2>3. CASE AgendaNext
    BY <2>2, <2>3, CountKeeps, CategoriesKeep, ListKeeps, DetailsKeep, ChangesKeep, MidnightKeeps
       DEF AgendaNext
  <2> QED
    BY <2>1, <2>3
<1> QED
  BY <1>1, AgendaStarts, PTL DEF AgendaSpec

(* While nobody changes the ledger, the counts are exact for the day of the last
   answer, and if all answers were for one day, the pages together show of every
   kind the earliest entries up to the limit, each once; what is left out of a page
   has been deleted (list_agenda, load_agenda).                              *)
THEOREM EachOnce == AgendaSpec => []PagesShowEachOnce
<1>1. AgendaInv => PagesShowEachOnce
  <2> SUFFICES ASSUME AgendaInv PROVE PagesShowEachOnce
    OBVIOUS
  <2> DEFINE s == agendaScreen
             M == Listed
             shown == ToSet(s.read) \ s.skipped
  <2>1. s.skipped \cap M = {}
    <3> SUFFICES ASSUME NEW x \in M, x \in s.skipped PROVE FALSE
      OBVIOUS
    <3>1. Gone(x)
      BY DEF AgendaInv
    <3> QED
      BY <3>1, MemberFound, AgendaAssumption DEF AgendaInv, AgendaTyped, Listed, Gone
  <2>3. ASSUME s.pc = "done", s.quiet
        PROVE  /\ s.total = Cardinality(M)
               /\ s.totals = [k \in {x.category : x \in M} |-> Cardinality(OfKind(M, k))]
    BY <2>3 DEF AgendaInv, CountsHold
  <2>4. ASSUME s.pc = "done", s.quiet
        PROVE  /\ s.total = Cardinality(M)
               /\ \A k \in DOMAIN s.totals : s.totals[k] = Cardinality(OfKind(M, k))
               /\ {x.category : x \in M} = DOMAIN s.totals
    <3> HIDE DEF s, M
    <3> QED
      BY <2>3, <2>4
  <2>2. ASSUME s.pc = "done", s.quiet, s.oneDay
        PROVE  /\ Cardinality(shown) = Len(s.read)
               /\ \A k \in DOMAIN s.totals :
                     /\ Cardinality(OfKind(shown, k)) =
                           IF s.totals[k] < PerCategoryLimit THEN s.totals[k] ELSE PerCategoryLimit
                     /\ \A x \in OfKind(shown, k), y \in OfKind(M \ shown, k) : x.due <= y.due
    <3>1. PagesHold
      BY <2>2 DEF AgendaInv
    <3>2. M \subseteq Entries /\ IsFiniteSet(M)
      BY MembersTyped, AgendaAssumption DEF AgendaInv, AgendaTyped, Listed
    <3>0. PICK rows \in Listings : TRUE
      BY <2>2, <3>1 DEF PagesHold
    <3>3. PICK ranked \in Orderings(M) : rows \in Orderings(Kept(ranked)) /\ rows \in Listings
      BY <3>0 DEF Listings
    <3>4. rows \in Seq(Entries)
      BY <3>3, ListedShape, AgendaAssumption DEF AgendaInv
    <3>5. s.read = rows
      <4>1. /\ Len(rows) <= s.offset
            /\ s.read = SubSeq(rows, 1, IF s.offset < Len(rows) THEN s.offset ELSE Len(rows))
        BY <2>2, <3>1, <3>3 DEF PagesHold
      <4>2. s.offset \in Nat
        BY DEF AgendaInv, AgendaTyped
      <4> QED
        BY <3>4, <4>1, <4>2
    <3> HIDE DEF M
    <3>6. Kept(ranked) \subseteq M /\ IsFiniteSet(Kept(ranked))
      <4>1. Kept(ranked) \subseteq M
        BY <3>2, <3>3, KeptOfKind, AgendaAssumption
      <4> QED
        BY <3>2, <4>1, FS_Subset
    <3>7. Len(rows) = Cardinality(Kept(ranked)) /\ ToSet(rows) = Kept(ranked)
      <4>1. /\ rows \in [1..Cardinality(Kept(ranked)) -> Kept(ranked)]
            /\ Len(rows) = Cardinality(Kept(ranked))
            /\ \A x \in Kept(ranked) : \E i \in 1..Cardinality(Kept(ranked)) : rows[i] = x
        BY <3>3, <3>6, OrderingShape
      <4> QED
        BY <4>1 DEF ToSet
    <3>8. shown = Kept(ranked)
      BY <3>1, <3>5, <3>7 DEF PagesHold
    <3>9. s.totals = [k \in {x.category : x \in M} |-> Cardinality(OfKind(M, k))]
      BY <2>2, <2>3
    <3>10. ASSUME NEW k, NEW x \in OfKind(Kept(ranked), k), NEW y \in OfKind(M \ Kept(ranked), k)
           PROVE  x.due <= y.due
      <4>1. ~Before(y, x)
        BY <3>2, <3>3, KeptOfKind, AgendaAssumption
      <4>2. x \in Entries /\ y \in Entries
        BY <3>2, <3>6 DEF OfKind
      <4>3. ~(OrderKey(y)[1] < OrderKey(x)[1])
        BY <4>1, Keys DEF Before
      <4> QED
        BY <4>2, <4>3, Keys DEF Entries
    <3>11. \A k \in DOMAIN s.totals :
             Cardinality(OfKind(Kept(ranked), k)) =
                IF s.totals[k] < PerCategoryLimit THEN s.totals[k] ELSE PerCategoryLimit
      <4> TAKE k \in DOMAIN s.totals
      <4>1. s.totals[k] = Cardinality(OfKind(M, k))
        BY <3>9
      <4>2. ranked \in Orderings(M)
        BY <3>3
      <4>3. Cardinality(OfKind(Kept(ranked), k)) =
               IF Cardinality(OfKind(M, k)) < PerCategoryLimit
               THEN Cardinality(OfKind(M, k)) ELSE PerCategoryLimit
        BY <3>2, <4>2, KeptOfKind, AgendaAssumption
      <4> HIDE DEF s
      <4> QED
        BY <4>1, <4>3
    <3> HIDE DEF s, shown
    <3> QED
      BY <3>5, <3>7, <3>8, <3>9, <3>10, <3>11
  <2> QED
    BY <2>1, <2>2, <2>4 DEF PagesShowEachOnce
<1> QED
  BY <1>1, AgendaInvariance, PTL

-----------------------------------------------------------------------------
(* The union *)

\* A behaviour of the union, seen by any of its components, is one of that
\* component: what TLC checks of the union it checks of each of them, and what
\* is proved of a component holds in the union.
THEOREM UnionOfComponents ==
    BackendSpec => LedgerSpec /\ SessionSpec /\ AgendaSpec /\ VoiceSpec /\ Spec
<1>1. BackendInit => LedgerInit /\ SessionInit /\ AgendaInit /\ VoiceInit /\ Init
    BY DEF BackendInit
<1>2. ASSUME [BackendNext]_<<focus, ledgerVars, sessionVars, agendaVars, voiceVars, vars>>
      PROVE  /\ [LedgerNext]_ledgerVars
             /\ [SessionNext]_sessionVars
             /\ [AgendaNext]_agendaVars
             /\ [VoiceNext]_voiceVars
             /\ [Next]_vars
    BY <1>2 DEF BackendNext, Only
<1>3. BackendSpec => LedgerSpec
    BY <1>1, <1>2, PTL DEF BackendSpec, LedgerSpec
<1>4. BackendSpec => SessionSpec
    BY <1>1, <1>2, PTL DEF BackendSpec, SessionSpec
<1>5. BackendSpec => AgendaSpec
    BY <1>1, <1>2, PTL DEF BackendSpec, AgendaSpec
<1>6. BackendSpec => VoiceSpec
    BY <1>1, <1>2, PTL DEF BackendSpec, VoiceSpec
<1>7. BackendSpec => Spec
    BY <1>1, <1>2, PTL DEF BackendSpec, Spec
<1> QED
    BY <1>3, <1>4, <1>5, <1>6, <1>7

=============================================================================
