--------------------------- MODULE Chatbot_proofs ---------------------------
(***************************************************************************)
(* Proofs of the safety of Chatbot for every set of conversations, of      *)
(* instances and of keys, and every bound.                                 *)
(*                                                                         *)
(* Rows and transcripts change in few ways, whoever changes them and       *)
(* however late: DataSteps says so once for all actions, and the           *)
(* invariants of the rows are proved from it.  Slots depend on tasks and   *)
(* submissions alone, and have an invariant of their own.                  *)
(*                                                                         *)
(* The event stream looks at revisions and rests on the rows: whoever      *)
(* writes a row that changes its status gives it a new revision            *)
(* (ChatEvents).  What a question is taken to mean keeps no state with     *)
(* them (ChatQuery).                                                       *)
(***************************************************************************)
EXTENDS ChatEvents, ChatQuery, FiniteSetTheorems, TLAPS

\* A question is admitted (the part of Accept that the rows see).
Admits(c, k, r) ==
    /\ Acceptable(c, k)
    /\ \A q \in Request : (req[q].status = "NONE") <=> (q >= r)
    /\ req' = [req EXCEPT ![r] =
          [status |-> "ACCEPTED", conv |-> c, key |-> k, revision |-> 1,
           clock |-> "fresh"]]
    /\ conv' = [conv EXCEPT ![c].log =
          Append(@, [role |-> "user", request |-> r])]

\* An active request moves; if it is COMPLETED, its answer is written.
Moves(r) ==
    /\ Active(r)
    /\ \E row \in RequestRow :
        /\ row.conv = req[r].conv /\ row.key = req[r].key
        /\ req' = [req EXCEPT ![r] = row]
        /\ \/ row.status # "COMPLETED" /\ conv' = conv
           \/ /\ row.status = "COMPLETED"
              /\ \E call \in Answer :
                    conv' = [conv EXCEPT ![req[r].conv] = Answered(@, r, call)]

DataStep ==
    \/ UNCHANGED <<req, conv>>
    \/ \E c \in Conversation : Create(c) \/ Reset(c) \/ Remove(c)
    \/ \E c \in Conversation, k \in Key, r \in Request : Admits(c, k, r)
    \/ \E r \in Request : Moves(r)

-----------------------------------------------------------------------------
(* Rows. *)

\* A stored request has a whole row; one that is not is NoRequest or Deleted.
LEMMA Rows ==
    ASSUME TypeOK, NEW r \in Request
    PROVE  /\ Stored(r) => req[r] \in RequestRow
           /\ Active(r) => Stored(r)
           /\ Stored(r) \/ req[r] = NoRequest \/ req[r] = Deleted
           /\ ~Stored(r) => ~(req[r].status \in ActiveStatus \cup TerminalStatus)
           /\ NoRequest.status = "NONE" /\ Deleted.status = "DELETED"
BY DEF TypeOK, Stored, Active, RequestRow, NoRequest, Deleted, ActiveStatus,
       TerminalStatus

\* A row with another status, revision and clock is a row.
Updated(row, s, n, t) ==
    [row EXCEPT !.status = s, !.revision = n, !.clock = t]

LEMMA RowUpdate ==
    ASSUME NEW old \in RequestRow, NEW s \in ActiveStatus \cup TerminalStatus,
           NEW n \in Nat, NEW t \in Clock
    PROVE  /\ Updated(old, s, n, t) \in RequestRow
           /\ Updated(old, s, n, t).conv = old.conv
           /\ Updated(old, s, n, t).key = old.key
           /\ Updated(old, s, n, t).status = s
BY DEF RequestRow, Updated

\* The rows that the transitions and the sweep write.
LEMMA MovedRow ==
    ASSUME NEW r \in Request, NEW call \in Call \cup {"CANCELLED"},
           req[r] \in RequestRow, Active(r)
    PROVE  /\ Moved(r, call) \in RequestRow
           /\ Moved(r, call).conv = req[r].conv
           /\ Moved(r, call).key = req[r].key
           /\ Moved(r, call).status = StatusOf(r, call)
           /\ StatusOf(r, call) = "COMPLETED" <=> call \in Answer
<1>1. /\ StatusOf(r, call) \in ActiveStatus \cup TerminalStatus
      /\ StatusOf(r, call) = "COMPLETED" <=> call \in Answer
    BY DEF StatusOf, Call, Answer, Active, ActiveStatus, TerminalStatus
<1>2. /\ req[r].revision + 1 \in Nat
      /\ req[r].clock \in Clock
    BY DEF RequestRow
<1>3. PICK s \in ActiveStatus \cup TerminalStatus,
           t \in Clock :
        /\ s = StatusOf(r, call)
        /\ Moved(r, call) = Updated(req[r], s, req[r].revision + 1, t)
    BY <1>1, <1>2 DEF Moved, Updated, Clock
<1>4. LET row == Updated(req[r], s, req[r].revision + 1, t)
      IN  /\ row \in RequestRow /\ row.status = s
          /\ row.conv = req[r].conv /\ row.key = req[r].key
    BY <1>2, RowUpdate
<1> QED
    BY <1>1, <1>3, <1>4

LEMMA InterruptedRow ==
    ASSUME NEW r \in Request, req[r] \in RequestRow
    PROVE  /\ Interrupted(r) \in RequestRow
           /\ Interrupted(r).conv = req[r].conv
           /\ Interrupted(r).key = req[r].key
           /\ Interrupted(r).status = "INTERRUPTED"
<1>1. req[r].revision + 1 \in Nat
    BY DEF RequestRow
<1>2. Interrupted(r) =
        Updated(req[r], "INTERRUPTED", req[r].revision + 1, "fresh")
    BY DEF Interrupted, Updated
<1>3. LET row == Updated(req[r], "INTERRUPTED", req[r].revision + 1, "fresh")
      IN  /\ row \in RequestRow /\ row.status = "INTERRUPTED"
          /\ row.conv = req[r].conv /\ row.key = req[r].key
    BY ZenonT(40), <1>1, RowUpdate DEF TerminalStatus, Clock
<1> QED
    BY <1>2, <1>3

\* A transition is a move of the rows, or nothing.
LEMMA TransitionMoves ==
    ASSUME TypeOK, NEW r \in Request, NEW call \in Call \cup {"CANCELLED"},
           Transition(r, call)
    PROVE  Moves(r) \/ UNCHANGED <<req, conv>>
<1>1. CASE ~Active(r)
    BY <1>1 DEF Transition
<1>2. CASE Active(r)
  <2>1. req[r] \in RequestRow
    BY <1>2, Rows
  <2>2. /\ req' = [req EXCEPT ![r] = Moved(r, call)]
        /\ conv' = IF call \in Answer
                   THEN [conv EXCEPT ![req[r].conv] = Answered(@, r, call)]
                   ELSE conv
    BY <1>2 DEF Transition
  <2>3. CASE call \in Answer
    BY <1>2, <2>1, <2>2, <2>3, MovedRow DEF Moves
  <2>4. CASE call \notin Answer
    BY <1>2, <2>1, <2>2, <2>4, MovedRow DEF Moves
  <2> QED
    BY <2>3, <2>4
<1> QED
    BY <1>1, <1>2

\* The clock and the sweep move a request, too.
LEMMA ClockMoves ==
    ASSUME TypeOK, NEW r \in Request, Active(r), UNCHANGED conv,
           \/ \E t \in Clock :
                 req' = [req EXCEPT ![r].clock = t]
           \/ req' = [req EXCEPT ![r] = Interrupted(r)]
    PROVE  Moves(r)
<1>1. req[r] \in RequestRow /\ req \in [Request -> RequestRow \cup {NoRequest, Deleted}]
    BY Rows DEF TypeOK
<1>2. req[r].status # "COMPLETED"
    BY DEF Active, ActiveStatus
<1>3. ASSUME NEW t \in Clock,
             req' = [req EXCEPT ![r].clock = t]
      PROVE  Moves(r)
  <2> DEFINE row == [req[r] EXCEPT !.clock = t]
  <2>1. /\ row \in RequestRow /\ row.status # "COMPLETED"
        /\ row.conv = req[r].conv /\ row.key = req[r].key
    BY <1>1, <1>2 DEF RequestRow
  <2>2. req' = [req EXCEPT ![r] = row]
    BY <1>1, <1>3
  <2> HIDE DEF row
  <2> QED
    BY <2>1, <2>2 DEF Moves
<1>4. CASE req' = [req EXCEPT ![r] = Interrupted(r)]
    BY <1>1, <1>4, InterruptedRow DEF Moves
<1> QED
    BY <1>3, <1>4

\* What any step does to rows and transcripts.
LEMMA DataSteps ==
    ASSUME TypeOK, Next
    PROVE  DataStep
<1>1. ASSUME NEW c \in Conversation, Create(c) \/ Reset(c) \/ Remove(c)
      PROVE  DataStep
    BY <1>1 DEF DataStep
<1>2. ASSUME NEW i \in Instance, NEW c \in Conversation, NEW k \in Key,
             Accept(i, c, k)
      PROVE  DataStep
  <2>1. PICK r \in Request : Admits(c, k, r)
    BY <1>2, Zenon DEF Accept, Admits
  <2> QED
    BY <2>1 DEF DataStep
<1>3. ASSUME NEW i \in Instance,
             \/ SubmitBegin(i) \/ Refuse(i) \/ SubmitEnds(i)
             \/ Start(i) \/ CloseBegin(i) \/ Exit(i) \/ Crash(i)
      PROVE  DataStep
    BY <1>3 DEF SubmitBegin, Refuse, SubmitEnds, Start, CloseBegin, Exit,
                Crash, DataStep
<1>4. ASSUME NEW r \in Request,
             \/ Begins(r) \/ StepFails(r) \/ LastCallFails(r) \/ Works(r)
      PROVE  DataStep
    BY <1>4 DEF Begins, StepFails, LastCallFails, Works, Reports, Answers,
                FindsItEnded, DataStep
<1>5. ASSUME NEW r \in Request, NEW call, Commit(r, call)
      PROVE  DataStep
  <2>1. call \in Call
    BY <1>5 DEF Commit, TypeOK
  <2> QED
    BY <1>5, <2>1, TransitionMoves DEF Commit, DataStep
<1>6. ASSUME NEW r \in Request, Cancel(r)
      PROVE  DataStep
    BY <1>6, TransitionMoves DEF Cancel, DataStep
<1>7. ASSUME NEW i \in Instance, NEW r \in Request, CloseTask(i, r)
      PROVE  DataStep
    BY <1>7, TransitionMoves DEF CloseTask, Call, DataStep
<1>8. ASSUME NEW r \in Request,
             \/ \E i \in Instance : Heartbeat(i, r)
             \/ HeartbeatLapses(r) \/ DeadlinePasses(r) \/ InterruptStale(r)
      PROVE  DataStep
    BY <1>8, ClockMoves DEF Heartbeat, HeartbeatLapses, DeadlinePasses,
       InterruptStale, Swept, Clock, DataStep
<1> QED
    BY <1>1, <1>2, <1>3, <1>4, <1>5, <1>6, <1>7, <1>8 DEF Next, Proceeds

-----------------------------------------------------------------------------
(* The invariant of rows and transcripts. *)

\* A transcript mentions only stored requests of its own conversation, so that
\* a request that is new to the table is new to the transcript.
StoredIn(r, c) == Stored(r) /\ req[r].conv = c

LogOfStored ==
    \A c \in Conversation :
        \A n \in DOMAIN conv[c].log :
            \E r \in Request : conv[c].log[n].request = r /\ StoredIn(r, c)

\* The question in progress is the last message, so that its answer comes
\* right behind it.
PendingIsLast ==
    \A r \in Request : Active(r) =>
        LET log == conv[req[r].conv].log IN
        log # <<>> /\ log[Len(log)].request = r

RowsInv ==
    /\ OneActiveRequest /\ SubmittedOnce
    /\ LogOfStored /\ PendingIsLast /\ TranscriptInTurns

DataTypeOK ==
    /\ conv \in [Conversation -> ConversationRow]
    /\ req \in [Request -> RequestRow \cup {NoRequest, Deleted}]

LEMMA AppendFacts ==
    ASSUME NEW S, NEW s \in Seq(S), NEW e \in S
    PROVE  /\ Append(s, e) \in Seq(S)
           /\ Len(Append(s, e)) = Len(s) + 1
           /\ DOMAIN Append(s, e) = DOMAIN s \cup {Len(s) + 1}
           /\ Len(s) + 1 \notin DOMAIN s
           /\ Append(s, e)[Len(s) + 1] = e
           /\ \A n \in DOMAIN s : Append(s, e)[n] = s[n]
OBVIOUS

\* An admitted question: which request, which conversation, and no other.
LEMMA AdmitsFacts ==
    ASSUME DataTypeOK, NEW c \in Conversation, NEW k \in Key, NEW r \in Request,
           Admits(c, k, r)
    PROVE  /\ DataTypeOK'
           /\ ~Stored(r) /\ Active(r)' /\ req'[r].conv = c /\ req'[r].key = k
           /\ \A q \in Request \ {r} : req'[q] = req[q]
           /\ \A d \in Conversation \ {c} : conv'[d] = conv[d]
           /\ conv[c].log \in Seq(Message)
           /\ conv'[c].log = Append(conv[c].log, [role |-> "user", request |-> r])
<1> DEFINE row == [status |-> "ACCEPTED", conv |-> c, key |-> k, revision |-> 1,
                   clock |-> "fresh"]
           message == [role |-> "user", request |-> r]
<1>1. row \in RequestRow
    BY DEF RequestRow, ActiveStatus, Clock
<1>2. message \in Message
    BY DEF Message
<1>3. conv[c] \in ConversationRow /\ conv[c].log \in Seq(Message)
    BY DEF DataTypeOK, ConversationRow
<1>4. Append(conv[c].log, message) \in Seq(Message)
    BY <1>2, <1>3, AppendFacts
<1>5. /\ req' = [req EXCEPT ![r] = row]
      /\ conv' = [conv EXCEPT ![c].log = Append(@, message)]
    BY DEF Admits
<1>6. /\ req' \in [Request -> RequestRow \cup {NoRequest, Deleted}]
      /\ req'[r] = row
      /\ \A q \in Request \ {r} : req'[q] = req[q]
    BY <1>1, <1>5 DEF DataTypeOK
<1>7. /\ conv'[c] = [conv[c] EXCEPT !.log = Append(conv[c].log, message)]
      /\ conv' = [conv EXCEPT ![c] = conv'[c]]
      /\ \A d \in Conversation \ {c} : conv'[d] = conv[d]
    BY <1>5 DEF DataTypeOK
<1>8. /\ conv'[c] \in ConversationRow
      /\ conv'[c].log = Append(conv[c].log, message)
    BY <1>3, <1>4, <1>7 DEF ConversationRow
<1>9. req[r].status = "NONE"
    BY DEF Admits, Request
<1>10. ~Stored(r)
    BY <1>9 DEF Stored, ActiveStatus, TerminalStatus
<1>11. Active(r)' /\ req'[r].conv = c /\ req'[r].key = k
    BY <1>6 DEF Active, ActiveStatus
<1>12. conv' \in [Conversation -> ConversationRow]
    BY <1>7, <1>8 DEF DataTypeOK
<1>13. DataTypeOK'
    BY <1>6, <1>12 DEF DataTypeOK
<1> HIDE DEF row
<1> QED
    BY <1>3, <1>6, <1>7, <1>8, <1>10, <1>11, <1>13

\* A request that moves: its own row, and at its end perhaps one message.
LEMMA MovesFacts ==
    ASSUME DataTypeOK, NEW r \in Request, Moves(r)
    PROVE  /\ DataTypeOK'
           /\ Active(r) /\ Stored(r) /\ Stored(r)' /\ req[r].conv \in Conversation
           /\ req'[r].conv = req[r].conv /\ req'[r].key = req[r].key
           /\ \A q \in Request \ {r} : req'[q] = req[q]
           /\ \A c \in Conversation \ {req[r].conv} : conv'[c] = conv[c]
           /\ conv[req[r].conv].log \in Seq(Message)
           /\ \/ req'[r].status # "COMPLETED" /\ conv' = conv
              \/ /\ req'[r].status = "COMPLETED"
                 /\ conv'[req[r].conv].log =
                      Append(conv[req[r].conv].log,
                             [role |-> "assistant", request |-> r])
<1> DEFINE c == req[r].conv
           message == [role |-> "assistant", request |-> r]
<1>1. PICK row \in RequestRow :
        /\ row.conv = c /\ row.key = req[r].key
        /\ req' = [req EXCEPT ![r] = row]
        /\ \/ row.status # "COMPLETED" /\ conv' = conv
           \/ /\ row.status = "COMPLETED"
              /\ \E call \in Answer : conv' = [conv EXCEPT ![c] = Answered(@, r, call)]
    BY DEF Moves
<1>2. Active(r) /\ Stored(r) /\ c \in Conversation
    BY <1>1 DEF Moves, RequestRow, Active, Stored
<1>3. conv[c] \in ConversationRow /\ conv[c].log \in Seq(Message)
    BY <1>2 DEF DataTypeOK, ConversationRow
<1>4. message \in Message
    BY DEF Message
<1>5. Append(conv[c].log, message) \in Seq(Message)
    BY <1>3, <1>4, AppendFacts
<1>6. /\ req' \in [Request -> RequestRow \cup {NoRequest, Deleted}]
      /\ req'[r] = row
      /\ \A q \in Request \ {r} : req'[q] = req[q]
    BY <1>1 DEF DataTypeOK
<1>7. Stored(r)'
    BY <1>6 DEF Stored, RequestRow
<1>8. ASSUME conv' = conv
      PROVE  /\ conv' \in [Conversation -> ConversationRow]
             /\ \A d \in Conversation \ {c} : conv'[d] = conv[d]
    BY <1>8 DEF DataTypeOK
<1>9. ASSUME NEW call \in Answer, conv' = [conv EXCEPT ![c] = Answered(@, r, call)]
      PROVE  /\ conv' \in [Conversation -> ConversationRow]
             /\ \A d \in Conversation \ {c} : conv'[d] = conv[d]
             /\ conv'[c].log = Append(conv[c].log, message)
  <2>1. conv[c].version + 1 \in Nat
    BY <1>3 DEF ConversationRow
  <2>2. /\ Answered(conv[c], r, call) \in ConversationRow
        /\ Answered(conv[c], r, call).log = Append(conv[c].log, message)
    BY <1>3, <1>5, <2>1 DEF Answered, ConversationRow
  <2> QED
    BY <1>2, <1>9, <2>2 DEF DataTypeOK
<1>10. /\ conv' \in [Conversation -> ConversationRow]
       /\ \A d \in Conversation \ {c} : conv'[d] = conv[d]
       /\ \/ row.status # "COMPLETED" /\ conv' = conv
          \/ /\ row.status = "COMPLETED"
             /\ conv'[c].log = Append(conv[c].log, message)
    BY <1>1, <1>8, <1>9
<1>11. DataTypeOK'
    BY <1>6, <1>10 DEF DataTypeOK
<1> HIDE DEF c, message
<1> QED
    BY <1>1, <1>2, <1>3, <1>6, <1>7, <1>10, <1>11 DEF c, message

\* A request's turn in a transcript.
Turn(log, r, status) ==
    LET mine == {n \in DOMAIN log : log[n].request = r} IN
    \E n \in mine :
        /\ log[n].role = "user"
        /\ IF status = "COMPLETED"
           THEN mine = {n, n + 1} /\ log[n + 1].role = "assistant"
           ELSE mine = {n}

LEMMA TurnsUnfold ==
    TranscriptInTurns <=>
        \A r \in Request :
            Stored(r) => Turn(conv[req[r].conv].log, r, req[r].status)
BY DEF TranscriptInTurns, Turn

\* Messages of other requests leave a turn as it is.
LEMMA TurnKept ==
    ASSUME NEW log \in Seq(Message), NEW e \in Message, NEW r, NEW status,
           e.request # r, Turn(log, r, status)
    PROVE  Turn(Append(log, e), r, status)
<1> DEFINE longer == Append(log, e)
           mine == {n \in DOMAIN log : log[n].request = r}
           mineNow == {n \in DOMAIN longer : longer[n].request = r}
<1>1. /\ DOMAIN longer = DOMAIN log \cup {Len(log) + 1}
      /\ longer[Len(log) + 1] = e
      /\ \A n \in DOMAIN log : longer[n] = log[n]
    BY AppendFacts
<1>2. mineNow = mine
    BY <1>1
<1>3. PICK n \in mine :
        /\ log[n].role = "user"
        /\ IF status = "COMPLETED"
           THEN mine = {n, n + 1} /\ log[n + 1].role = "assistant"
           ELSE mine = {n}
    BY DEF Turn
<1>4. longer[n].role = "user"
    BY <1>1, <1>3
<1>5. CASE status = "COMPLETED"
  <2>1. n + 1 \in mine
    BY <1>3, <1>5
  <2>2. longer[n + 1].role = "assistant"
    BY <1>1, <1>3, <1>5, <2>1
  <2> HIDE DEF mine, longer
  <2> QED
    BY <1>2, <1>3, <1>4, <1>5, <2>2 DEF Turn, longer
<1>6. CASE status # "COMPLETED"
  <2> HIDE DEF mine, longer
  <2> QED
    BY <1>2, <1>3, <1>4, <1>6 DEF Turn, longer
<1> QED
    BY <1>5, <1>6

\* The question of a request that is new to the transcript opens its turn.
LEMMA TurnOpens ==
    ASSUME NEW log \in Seq(Message), NEW r \in Request, NEW status,
           status # "COMPLETED", \A n \in DOMAIN log : log[n].request # r
    PROVE  Turn(Append(log, [role |-> "user", request |-> r]), r, status)
<1> DEFINE e == [role |-> "user", request |-> r]
           longer == Append(log, e)
<1>1. e \in Message
    BY DEF Message
<1>2. /\ DOMAIN longer = DOMAIN log \cup {Len(log) + 1}
      /\ longer[Len(log) + 1] = e
      /\ \A n \in DOMAIN log : longer[n] = log[n]
    BY <1>1, AppendFacts
<1>3. {n \in DOMAIN longer : longer[n].request = r} = {Len(log) + 1}
    BY <1>2
<1>4. longer[Len(log) + 1].role = "user"
    BY <1>2
<1> HIDE DEF longer
<1> QED
    BY <1>3, <1>4 DEF Turn, longer

\* The answer right behind the question completes the turn.
LEMMA TurnCloses ==
    ASSUME NEW log \in Seq(Message), NEW r \in Request, NEW status,
           status # "COMPLETED", Turn(log, r, status),
           log # <<>>, log[Len(log)].request = r
    PROVE  Turn(Append(log, [role |-> "assistant", request |-> r]), r, "COMPLETED")
<1> DEFINE e == [role |-> "assistant", request |-> r]
           longer == Append(log, e)
<1>1. e \in Message
    BY DEF Message
<1>2. /\ DOMAIN longer = DOMAIN log \cup {Len(log) + 1}
      /\ longer[Len(log) + 1] = e
      /\ \A n \in DOMAIN log : longer[n] = log[n]
    BY <1>1, AppendFacts
<1>3. Len(log) \in DOMAIN log
    OBVIOUS
<1>4. /\ {n \in DOMAIN log : log[n].request = r} = {Len(log)}
      /\ log[Len(log)].role = "user"
    BY <1>3 DEF Turn
<1>5. {n \in DOMAIN longer : longer[n].request = r} = {Len(log), Len(log) + 1}
    BY <1>2, <1>4
<1>6. /\ longer[Len(log)].role = "user"
      /\ longer[Len(log) + 1].role = "assistant"
    BY <1>2, <1>3, <1>4
<1> HIDE DEF longer
<1> QED
    BY <1>5, <1>6 DEF Turn, longer

-----------------------------------------------------------------------------
(* The steps of rows and transcripts keep the invariant. *)

\* Creation and reset touch no row and no message.
LEMMA CreateResetStep ==
    ASSUME DataTypeOK, RowsInv, NEW c \in Conversation, Create(c) \/ Reset(c)
    PROVE  DataTypeOK' /\ RowsInv'
<1>1. req' = req
    BY DEF Create, Reset
<1>2. conv[c] \in ConversationRow /\ conv[c].version + 1 \in Nat
    BY DEF DataTypeOK, ConversationRow
<1>3. PICK row \in ConversationRow :
        row.log = conv[c].log /\ conv' = [conv EXCEPT ![c] = row]
  <2>1. CASE Create(c)
    <3>1. [conv[c] EXCEPT !.state = "open"] \in ConversationRow
      BY <1>2 DEF ConversationRow
    <3>2. [conv[c] EXCEPT !.state = "open"].log = conv[c].log
      BY <1>2 DEF ConversationRow
    <3>3. conv' = [conv EXCEPT ![c] = [conv[c] EXCEPT !.state = "open"]]
      BY <2>1 DEF Create, DataTypeOK
    <3> QED
      BY <3>1, <3>2, <3>3
  <2>2. CASE Reset(c)
    <3> DEFINE row == [conv[c] EXCEPT !.filters = 0, !.version = conv[c].version + 1]
    <3>1. row \in ConversationRow /\ row.log = conv[c].log
      BY <1>2 DEF ConversationRow
    <3>2. conv' = [conv EXCEPT ![c] = row]
      BY <2>2 DEF Reset, DataTypeOK
    <3> HIDE DEF row
    <3> QED
      BY <3>1, <3>2
  <2> QED
    BY <2>1, <2>2
<1>4. /\ DataTypeOK'
      /\ \A d \in Conversation : conv'[d].log = conv[d].log
    BY <1>1, <1>3 DEF DataTypeOK
<1>5. \A r \in Request : Stored(r) => req[r].conv \in Conversation
    BY DEF DataTypeOK, RequestRow, NoRequest, Deleted, Stored, ActiveStatus,
           TerminalStatus
<1>6. OneActiveRequest' /\ SubmittedOnce' /\ LogOfStored'
    BY <1>1, <1>4 DEF RowsInv, OneActiveRequest, SubmittedOnce, LogOfStored,
       StoredIn, Stored, Active
<1>7. PendingIsLast'
    BY <1>1, <1>4, <1>5 DEF RowsInv, PendingIsLast, Stored, Active
<1>8. TranscriptInTurns'
  <2>1. \A r \in Request : Stored(r) => Turn(conv[req[r].conv].log, r, req[r].status)
    BY TurnsUnfold DEF RowsInv
  <2>2. \A r \in Request : Stored(r)' => Turn(conv'[req'[r].conv].log, r, req'[r].status)
    BY <1>1, <1>4, <1>5, <2>1 DEF Stored
  <2> QED
    BY <2>2 DEF TranscriptInTurns, Turn
<1> QED
    BY <1>4, <1>6, <1>7, <1>8 DEF RowsInv

\* A removal takes the rows of the conversation and its transcript together.
LEMMA RemoveStep ==
    ASSUME DataTypeOK, RowsInv, NEW c \in Conversation, Remove(c)
    PROVE  DataTypeOK' /\ RowsInv'
<1> DEFINE row == [conv[c] EXCEPT !.state = "gone", !.log = <<>>, !.filters = 0]
<1>1. conv[c] \in ConversationRow
    BY DEF DataTypeOK
<1>2. row \in ConversationRow /\ row.log = <<>>
  <2>1. <<>> \in Seq(Message)
    OBVIOUS
  <2> QED
    BY <1>1, <2>1 DEF ConversationRow
<1>3. conv' = [conv EXCEPT ![c] = row]
    BY DEF Remove, DataTypeOK
<1> HIDE DEF row
<1>4. /\ conv' \in [Conversation -> ConversationRow]
      /\ conv'[c].log = <<>>
      /\ \A d \in Conversation \ {c} : conv'[d] = conv[d]
    BY <1>2, <1>3 DEF DataTypeOK
<1>5. /\ req' \in [Request -> RequestRow \cup {NoRequest, Deleted}]
      /\ \A r \in Request :
            \/ Stored(r) /\ req[r].conv = c /\ ~Stored(r)' /\ ~Active(r)'
            \/ ~(Stored(r) /\ req[r].conv = c) /\ req'[r] = req[r]
    BY DEF Remove, DataTypeOK, Stored, Active, Deleted, ActiveStatus, TerminalStatus
<1>6. \A r \in Request : Stored(r) => req[r].conv \in Conversation
    BY DEF DataTypeOK, RequestRow, NoRequest, Deleted, Stored, ActiveStatus,
           TerminalStatus
<1>7. \A r \in Request :
        /\ Stored(r)' => Stored(r) /\ req[r].conv # c /\ req'[r] = req[r]
        /\ Active(r)' => Active(r) /\ Stored(r)'
    BY <1>5 DEF Stored, Active
<1>8. DataTypeOK'
    BY <1>4, <1>5 DEF DataTypeOK
<1>9. OneActiveRequest' /\ SubmittedOnce'
    BY <1>7 DEF RowsInv, OneActiveRequest, SubmittedOnce
<1>10. LogOfStored'
  <2>1. ASSUME NEW d \in Conversation \ {c}, NEW r \in Request, StoredIn(r, d)
        PROVE  StoredIn(r, d)'
    BY <1>5, <2>1 DEF StoredIn, Stored
  <2>2. ASSUME NEW d \in Conversation, NEW n \in DOMAIN conv'[d].log
        PROVE  \E q \in Request : conv'[d].log[n].request = q /\ StoredIn(q, d)'
    <3>1. d # c /\ conv'[d] = conv[d]
      BY <1>4
    <3> QED
      BY <2>1, <3>1 DEF RowsInv, LogOfStored
  <2> QED
    BY <2>2 DEF LogOfStored
<1>11. PendingIsLast'
    BY <1>4, <1>6, <1>7 DEF RowsInv, PendingIsLast
<1>12. TranscriptInTurns'
  <2>1. \A r \in Request : Stored(r) => Turn(conv[req[r].conv].log, r, req[r].status)
    BY TurnsUnfold DEF RowsInv
  <2>2. \A r \in Request : Stored(r)' => Turn(conv'[req'[r].conv].log, r, req'[r].status)
    BY <1>4, <1>6, <1>7, <2>1
  <2> QED
    BY <2>2 DEF TranscriptInTurns, Turn
<1> QED
    BY <1>8, <1>9, <1>10, <1>11, <1>12 DEF RowsInv

\* An admitted question is the only one in progress, the only one under its
\* key, and new to the transcript, of which it is the last message.
LEMMA AdmitsStep ==
    ASSUME DataTypeOK, RowsInv, NEW c \in Conversation, NEW k \in Key,
           NEW r \in Request, Admits(c, k, r)
    PROVE  DataTypeOK' /\ RowsInv'
<1> DEFINE e == [role |-> "user", request |-> r]
<1>1. /\ DataTypeOK'
      /\ ~Stored(r) /\ Active(r)' /\ req'[r].conv = c /\ req'[r].key = k
      /\ \A q \in Request \ {r} : req'[q] = req[q]
      /\ \A d \in Conversation \ {c} : conv'[d] = conv[d]
      /\ conv[c].log \in Seq(Message)
      /\ conv'[c].log = Append(conv[c].log, e)
    BY AdmitsFacts
<1>2. e \in Message
    BY DEF Message
<1>3. Acceptable(c, k)
    BY DEF Admits
<1>4. \A q \in Request \ {r} :
        /\ Stored(q)' <=> Stored(q)
        /\ Active(q)' <=> Active(q)
    BY <1>1 DEF Stored, Active
<1>5. \A q \in Request : Stored(q) => req[q].conv \in Conversation
    BY DEF DataTypeOK, RequestRow, NoRequest, Deleted, Stored, ActiveStatus,
           TerminalStatus
<1>6. OneActiveRequest'
    BY <1>1, <1>3, <1>4 DEF RowsInv, OneActiveRequest, Acceptable, ActiveOf
<1>7. SubmittedOnce'
    BY <1>1, <1>3, <1>4 DEF RowsInv, SubmittedOnce, Acceptable, Submitted
<1>8. ASSUME NEW q \in Request, NEW d \in Conversation, StoredIn(q, d)
      PROVE  q # r /\ StoredIn(q, d)'
    BY <1>1, <1>4, <1>8 DEF StoredIn
<1> HIDE DEF e
<1>9. /\ DOMAIN conv'[c].log = DOMAIN conv[c].log \cup {Len(conv[c].log) + 1}
      /\ conv'[c].log[Len(conv[c].log) + 1] = e
      /\ Len(conv'[c].log) = Len(conv[c].log) + 1
      /\ conv'[c].log # <<>>
      /\ \A n \in DOMAIN conv[c].log : conv'[c].log[n] = conv[c].log[n]
    BY <1>1, <1>2, AppendFacts
<1>10. Stored(r)' /\ e.request = r
    BY <1>1 DEF Active, Stored, e
<1>11. LogOfStored'
  <2>1. ASSUME NEW d \in Conversation, NEW n \in DOMAIN conv'[d].log
        PROVE  \E q \in Request : conv'[d].log[n].request = q /\ StoredIn(q, d)'
    <3>1. CASE conv'[d].log[n] = e /\ d = c
      BY <1>1, <1>10, <3>1 DEF StoredIn
    <3>2. CASE n \in DOMAIN conv[d].log /\ conv'[d].log[n] = conv[d].log[n]
      BY <1>8, <3>2 DEF RowsInv, LogOfStored
    <3> QED
      BY <1>1, <1>9, <3>1, <3>2
  <2> QED
    BY <2>1 DEF LogOfStored
<1>12. PendingIsLast'
  <2> SUFFICES ASSUME NEW q \in Request, Active(q)'
               PROVE  LET log == conv'[req'[q].conv].log IN
                      log # <<>> /\ log[Len(log)].request = q
    BY DEF PendingIsLast
  <2>1. CASE q = r
    BY <1>1, <1>9, <1>10, <2>1
  <2>2. CASE q # r
    <3>1. Active(q) /\ Stored(q) /\ req'[q] = req[q]
      BY <1>1, <1>4, <2>2 DEF Active, Stored
    <3>2. req[q].conv \in Conversation \ {c}
      BY <1>3, <1>5, <3>1 DEF Acceptable, ActiveOf
    <3> QED
      BY <1>1, <3>1, <3>2 DEF RowsInv, PendingIsLast
  <2> QED
    BY <2>1, <2>2
<1>13. TranscriptInTurns'
  <2> SUFFICES ASSUME NEW q \in Request, Stored(q)'
               PROVE  Turn(conv'[req'[q].conv].log, q, req'[q].status)
    BY DEF TranscriptInTurns, Turn
  <2>1. CASE q = r
    <3>1. req'[r].status # "COMPLETED"
      BY <1>1 DEF Active, ActiveStatus
    <3>2. \A n \in DOMAIN conv[c].log : conv[c].log[n].request # r
      BY <1>8 DEF RowsInv, LogOfStored
    <3> QED
      BY <1>1, <2>1, <3>1, <3>2, TurnOpens DEF e
  <2>2. CASE q # r
    <3>1. Stored(q) /\ req'[q] = req[q] /\ req[q].conv \in Conversation
      BY <1>1, <1>4, <1>5, <2>2
    <3>2. Turn(conv[req[q].conv].log, q, req[q].status)
      BY <3>1, TurnsUnfold DEF RowsInv
    <3>3. CASE req[q].conv = c
      BY <1>1, <1>2, <1>10, <2>2, <3>1, <3>2, <3>3, TurnKept
    <3>4. CASE req[q].conv # c
      BY <1>1, <3>1, <3>2, <3>4
    <3> QED
      BY <3>3, <3>4
  <2> QED
    BY <2>1, <2>2
<1> QED
    BY <1>1, <1>6, <1>7, <1>11, <1>12, <1>13 DEF RowsInv

\* A request that moves stays what it is in its conversation; its answer comes
\* behind its question, since no other request can have written there.
LEMMA MovesStep ==
    ASSUME DataTypeOK, RowsInv, NEW r \in Request, Moves(r)
    PROVE  DataTypeOK' /\ RowsInv'
<1> DEFINE c == req[r].conv
           e == [role |-> "assistant", request |-> r]
<1>1. /\ DataTypeOK'
      /\ Active(r) /\ Stored(r) /\ Stored(r)' /\ c \in Conversation
      /\ req'[r].conv = c /\ req'[r].key = req[r].key
      /\ \A q \in Request \ {r} : req'[q] = req[q]
      /\ \A d \in Conversation \ {c} : conv'[d] = conv[d]
      /\ conv[c].log \in Seq(Message)
      /\ \/ req'[r].status # "COMPLETED" /\ conv' = conv
         \/ /\ req'[r].status = "COMPLETED"
            /\ conv'[c].log = Append(conv[c].log, e)
    BY MovesFacts
<1>2. e \in Message /\ e.request = r
    BY DEF Message
<1> HIDE DEF c, e
<1>3. \A q \in Request :
        /\ Stored(q)' <=> Stored(q)
        /\ Active(q)' => Active(q)
        /\ req'[q].conv = req[q].conv
        /\ Stored(q) => req'[q].key = req[q].key
    BY <1>1 DEF Stored, Active, c
<1>4. \A q \in Request : Stored(q) => req[q].conv \in Conversation
    BY DEF DataTypeOK, RequestRow, NoRequest, Deleted, Stored, ActiveStatus,
           TerminalStatus
<1>5. OneActiveRequest' /\ SubmittedOnce'
    BY <1>3 DEF RowsInv, OneActiveRequest, SubmittedOnce
<1>6. ASSUME NEW q \in Request, NEW d \in Conversation, StoredIn(q, d)
      PROVE  StoredIn(q, d)'
    BY <1>3, <1>6 DEF StoredIn
<1>7. CASE conv' = conv /\ req'[r].status # "COMPLETED"
  <2>1. LogOfStored'
    BY <1>7, <1>6 DEF RowsInv, LogOfStored
  <2>2. PendingIsLast'
    BY <1>3, <1>7 DEF RowsInv, PendingIsLast
  <2>3. TranscriptInTurns'
    <3> SUFFICES ASSUME NEW q \in Request, Stored(q)'
                 PROVE  Turn(conv'[req'[q].conv].log, q, req'[q].status)
      BY DEF TranscriptInTurns, Turn
    <3>1. Turn(conv[req[q].conv].log, q, req[q].status)
      BY <1>3, TurnsUnfold DEF RowsInv
    <3>2. CASE q = r
      <4>1. req[r].status # "COMPLETED"
        BY <1>1 DEF Active, ActiveStatus
      <4> QED
        BY SMTT(20), <1>3, <1>7, <3>1, <3>2, <4>1 DEF Turn
    <3>3. CASE q # r
      BY <1>1, <1>7, <3>1, <3>3
    <3> QED
      BY <3>2, <3>3
  <2> QED
    BY <1>1, <1>5, <2>1, <2>2, <2>3 DEF RowsInv
<1>8. CASE /\ req'[r].status = "COMPLETED"
           /\ conv'[c].log = Append(conv[c].log, e)
  <2>1. /\ DOMAIN conv'[c].log = DOMAIN conv[c].log \cup {Len(conv[c].log) + 1}
        /\ conv'[c].log[Len(conv[c].log) + 1] = e
        /\ \A n \in DOMAIN conv[c].log : conv'[c].log[n] = conv[c].log[n]
    BY <1>1, <1>2, <1>8, AppendFacts
  <2>2. LogOfStored'
    <3>1. ASSUME NEW d \in Conversation, NEW n \in DOMAIN conv'[d].log
          PROVE  \E q \in Request : conv'[d].log[n].request = q /\ StoredIn(q, d)'
      <4>1. CASE conv'[d].log[n] = e /\ d = c
        BY <1>1, <1>2, <4>1 DEF StoredIn
      <4>2. CASE n \in DOMAIN conv[d].log /\ conv'[d].log[n] = conv[d].log[n]
        BY <1>6, <4>2 DEF RowsInv, LogOfStored
      <4> QED
        BY <1>1, <2>1, <4>1, <4>2
    <3> QED
      BY <3>1 DEF LogOfStored
  <2>3. PendingIsLast'
    <3> SUFFICES ASSUME NEW q \in Request, Active(q)'
                 PROVE  LET log == conv'[req'[q].conv].log IN
                        log # <<>> /\ log[Len(log)].request = q
      BY DEF PendingIsLast
    <3>1. Active(q) /\ Stored(q) /\ q # r
      BY <1>3, <1>8 DEF Active, Stored, ActiveStatus
    <3>2. req[q].conv \in Conversation \ {c}
      BY <1>1, <1>4, <3>1 DEF RowsInv, OneActiveRequest, c
    <3> QED
      BY <1>1, <3>1, <3>2 DEF RowsInv, PendingIsLast
  <2>4. TranscriptInTurns'
    <3> SUFFICES ASSUME NEW q \in Request, Stored(q)'
                 PROVE  Turn(conv'[req'[q].conv].log, q, req'[q].status)
      BY DEF TranscriptInTurns, Turn
    <3>1. /\ Turn(conv[req[q].conv].log, q, req[q].status)
          /\ req[q].conv \in Conversation
      BY <1>3, <1>4, TurnsUnfold DEF RowsInv
    <3>2. CASE q = r
      <4>1. req[r].status # "COMPLETED"
        BY <1>1 DEF Active, ActiveStatus
      <4>2. conv[c].log # <<>> /\ conv[c].log[Len(conv[c].log)].request = r
        BY <1>1 DEF RowsInv, PendingIsLast, c
      <4>3. Turn(conv[c].log, r, req[r].status)
        BY <3>1, <3>2 DEF c
      <4> QED
        BY <1>1, <1>8, <3>2, <4>1, <4>2, <4>3, TurnCloses DEF e
    <3>3. CASE q # r /\ req[q].conv = c
      BY ZenonT(40), <1>1, <1>2, <1>8, <3>1, <3>3, TurnKept
    <3>4. CASE q # r /\ req[q].conv # c
      BY <1>1, <3>1, <3>4
    <3> QED
      BY <3>2, <3>3, <3>4
  <2> QED
    BY <1>1, <1>5, <2>2, <2>3, <2>4 DEF RowsInv
<1> QED
    BY <1>1, <1>7, <1>8

-----------------------------------------------------------------------------
(* Instances, tasks and calls. *)

InstanceRow ==
    [phase: {"new", "up", "closing", "down"}, walk: SUBSET Request,
     submit: [at: {"none", "accepting", "accepted"}, request: Request \cup {0}]]

TaskTypeOK ==
    /\ inst \in [Instance -> InstanceRow]
    /\ task \in [Request -> [at: Place, on: Instance \cup {NoInstance}]]
    /\ calls \in [Request -> SUBSET Call]

LEMMA TypeParts == TypeOK <=> DataTypeOK /\ TaskTypeOK
BY DEF TypeOK, DataTypeOK, TaskTypeOK, InstanceRow

\* Where tasks go: a request that has no task on an instance gets none by
\* anything but the end of its submission.
Stays(r) == task'[r] = task[r]
GoesOn(r) == task[r].at # "over" /\ task'[r].on = task[r].on
IsOver(r) == task'[r].at = "over"
KeepsTasks == \A r \in Request : Stays(r) \/ GoesOn(r) \/ IsOver(r)

\* A submission in progress has found a slot.
Submitting(i) == inst[i].submit.at \in {"accepting", "accepted"}
KeepsSubmissions ==
    \A i \in Instance : Submitting(i)' => Submitting(i) \/ HasSlot(i)

LEMMA SubmissionSteps ==
    ASSUME TaskTypeOK, NEW i \in Instance,
           \/ SubmitBegin(i) \/ Refuse(i) \/ Start(i) \/ CloseBegin(i) \/ Exit(i)
           \/ \E c \in Conversation, k \in Key : Accept(i, c, k)
    PROVE  TaskTypeOK' /\ KeepsTasks /\ KeepsSubmissions
<1>1. inst[i] \in InstanceRow
    BY DEF TaskTypeOK
<1>2. UNCHANGED <<task, calls>>
    BY DEF SubmitBegin, Refuse, Start, CloseBegin, Exit, Accept
<1>3. PICK row \in InstanceRow :
        /\ inst' = [inst EXCEPT ![i] = row]
        /\ row.submit.at # "none" => Submitting(i) \/ HasSlot(i)
  <2>1. CASE SubmitBegin(i)
    <3> DEFINE row == [inst[i] EXCEPT !.submit = [inst[i].submit EXCEPT !.at = "accepting"]]
    <3>1. row \in InstanceRow
      BY <1>1 DEF InstanceRow
    <3>2. inst' = [inst EXCEPT ![i] = row]
      BY <2>1 DEF SubmitBegin, TaskTypeOK
    <3> HIDE DEF row
    <3> QED
      BY <2>1, <3>1, <3>2 DEF SubmitBegin
  <2>2. CASE Refuse(i)
    <3> DEFINE row == [inst[i] EXCEPT !.submit = NoSubmit]
    <3>1. row \in InstanceRow /\ row.submit.at = "none"
      BY <1>1 DEF InstanceRow, NoSubmit
    <3>2. inst' = [inst EXCEPT ![i] = row]
      BY <2>2 DEF Refuse, TaskTypeOK
    <3> HIDE DEF row
    <3> QED
      BY <3>1, <3>2
  <2>3. CASE Start(i)
    <3> DEFINE row == [inst[i] EXCEPT !.phase = "up"]
    <3>1. row \in InstanceRow /\ row.submit = inst[i].submit
      BY <1>1 DEF InstanceRow
    <3>2. inst' = [inst EXCEPT ![i] = row]
      BY <2>3 DEF Start, TaskTypeOK
    <3> HIDE DEF row
    <3> QED
      BY <1>1, <3>1, <3>2 DEF Submitting, InstanceRow
  <2>4. CASE CloseBegin(i)
    <3> DEFINE row == [inst[i] EXCEPT !.phase = "closing", !.walk = Tasks(i)]
    <3>1. Tasks(i) \subseteq Request
      BY DEF Tasks
    <3>2. row \in InstanceRow /\ row.submit = inst[i].submit
      BY <1>1, <3>1 DEF InstanceRow
    <3>3. inst' = [inst EXCEPT ![i] = row]
      BY <2>4 DEF CloseBegin, TaskTypeOK
    <3> HIDE DEF row
    <3> QED
      BY <1>1, <3>2, <3>3 DEF Submitting, InstanceRow
  <2>5. CASE Exit(i)
    <3> DEFINE row == [inst[i] EXCEPT !.phase = "down", !.submit = NoSubmit]
    <3>1. row \in InstanceRow /\ row.submit.at = "none"
      BY <1>1 DEF InstanceRow, NoSubmit
    <3>2. inst' = [inst EXCEPT ![i] = row]
      BY <2>5 DEF Exit, TaskTypeOK
    <3> HIDE DEF row
    <3> QED
      BY <3>1, <3>2
  <2>6. ASSUME NEW c \in Conversation, NEW k \in Key, Accept(i, c, k)
        PROVE  \E row \in InstanceRow :
                  /\ inst' = [inst EXCEPT ![i] = row]
                  /\ row.submit.at # "none" => Submitting(i) \/ HasSlot(i)
    <3>1. PICK r \in Request :
            inst' = [inst EXCEPT ![i].submit = [at |-> "accepted", request |-> r]]
      BY <2>6, Zenon DEF Accept
    <3> DEFINE row == [inst[i] EXCEPT !.submit = [at |-> "accepted", request |-> r]]
    <3>2. row \in InstanceRow
      BY <1>1 DEF InstanceRow
    <3>3. inst' = [inst EXCEPT ![i] = row]
      BY <3>1 DEF TaskTypeOK
    <3>4. Submitting(i)
      BY <2>6 DEF Accept, Submitting
    <3> HIDE DEF row
    <3> QED
      BY <3>2, <3>3, <3>4
  <2> QED
    BY <2>1, <2>2, <2>3, <2>4, <2>5, <2>6
<1>4. TaskTypeOK'
    BY <1>2, <1>3 DEF TaskTypeOK
<1>5. KeepsTasks
    BY <1>2 DEF KeepsTasks, Stays
<1>6. KeepsSubmissions
    BY <1>3 DEF KeepsSubmissions, Submitting, TaskTypeOK
<1> QED
    BY <1>4, <1>5, <1>6

\* A step of one task.
LEMMA OneTaskSteps ==
    ASSUME TaskTypeOK, NEW r \in Request,
           \/ Begins(r) \/ StepFails(r) \/ LastCallFails(r) \/ Works(r)
           \/ \E call \in Call : Commit(r, call)
    PROVE  TaskTypeOK' /\ KeepsTasks /\ KeepsSubmissions
<1>1. inst' = inst
    BY DEF Begins, StepFails, LastCallFails, Works, Reports, Answers,
           FindsItEnded, Commit
<1>2. task[r] \in [at: Place, on: Instance \cup {NoInstance}] /\ calls[r] \subseteq Call
    BY DEF TaskTypeOK
<1>3. PICK place \in Place, some \in SUBSET Call :
        /\ task' = [task EXCEPT ![r].at = place]
        /\ calls' = [calls EXCEPT ![r] = some]
        /\ place = task[r].at \/ task[r].at # "over"
  <2>1. CASE Begins(r)
    <3>1. calls[r] \cup {"RUNNING"} \in SUBSET Call
      BY <1>2 DEF Call
    <3> QED
      BY <2>1, <3>1 DEF Begins, Place, Timed
  <2>2. CASE StepFails(r)
    <3>1. calls[r] \cup {"FAILED"} \in SUBSET Call
      BY <1>2 DEF Call
    <3> QED
      BY <2>2, <3>1 DEF StepFails, Failable, Place, Timed
  <2>3. CASE LastCallFails(r)
    <3>1. calls[r] \ Awaits(task[r].at) \in SUBSET Call
      BY <1>2
    <3> QED
      BY <2>3, <3>1 DEF LastCallFails, Place
  <2>4. CASE Reports(r)
    <3>1. calls[r] \cup {"STAGE"} \in SUBSET Call
      BY <1>2 DEF Call
    <3> QED
      BY <2>4, <3>1 DEF Reports, Place, Timed
  <2>5. ASSUME NEW call \in Answer, Answers(r, call)
        PROVE  \E place \in Place, some \in SUBSET Call :
                  /\ task' = [task EXCEPT ![r].at = place]
                  /\ calls' = [calls EXCEPT ![r] = some]
                  /\ place = task[r].at \/ task[r].at # "over"
    <3>1. calls[r] \cup {call} \in SUBSET Call
      BY <1>2 DEF Call
    <3> QED
      BY <2>5, <3>1 DEF Answers, Place, Timed
  <2>6. CASE FindsItEnded(r)
    <3>1. calls' = [calls EXCEPT ![r] = calls[r]]
      BY <2>6 DEF FindsItEnded, TaskTypeOK
    <3> QED
      BY <1>2, <2>6, <3>1 DEF FindsItEnded, Place
  <2>7. ASSUME NEW call \in Call, Commit(r, call)
        PROVE  \E place \in Place, some \in SUBSET Call :
                  /\ task' = [task EXCEPT ![r].at = place]
                  /\ calls' = [calls EXCEPT ![r] = some]
                  /\ place = task[r].at \/ task[r].at # "over"
    <3> DEFINE awaited == call \in Awaits(task[r].at)
               place == IF awaited THEN After(task[r].at, Active(r)) ELSE task[r].at
               some == (calls[r] \ {call}) \cup
                       (IF awaited /\ place = "interrupt" THEN {"INTERRUPTED"} ELSE {})
    <3>1. place \in Place /\ some \in SUBSET Call
      BY <1>2 DEF After, Place, Timed, Call
    <3>2. place = task[r].at \/ task[r].at # "over"
      BY DEF Awaits
    <3>3. task' = [task EXCEPT ![r].at = place] /\ calls' = [calls EXCEPT ![r] = some]
      BY <2>7 DEF Commit
    <3> HIDE DEF place, some
    <3> QED
      BY <3>1, <3>2, <3>3
  <2> QED
    BY <2>1, <2>2, <2>3, <2>4, <2>5, <2>6, <2>7 DEF Works
<1>4. TaskTypeOK'
    BY <1>1, <1>2, <1>3 DEF TaskTypeOK
<1>5. KeepsTasks
    BY <1>3 DEF KeepsTasks, Stays, GoesOn, TaskTypeOK
<1>6. KeepsSubmissions
    BY <1>1 DEF KeepsSubmissions, Submitting
<1> QED
    BY <1>4, <1>5, <1>6

\* The stop of one task while its instance closes.
LEMMA CloseTaskStep ==
    ASSUME TaskTypeOK, NEW i \in Instance, NEW r \in Request, CloseTask(i, r)
    PROVE  TaskTypeOK' /\ KeepsTasks /\ KeepsSubmissions
<1>1. inst[i] \in InstanceRow
    BY DEF TaskTypeOK
<1>2. PICK row \in InstanceRow :
        inst' = [inst EXCEPT ![i] = row] /\ row.submit = inst[i].submit
  <2> DEFINE row == [inst[i] EXCEPT !.walk = inst[i].walk \ {r}]
  <2>1. inst[i].walk \ {r} \in SUBSET Request
    BY <1>1 DEF InstanceRow
  <2>2. row \in InstanceRow /\ row.submit = inst[i].submit
    BY <1>1, <2>1 DEF InstanceRow
  <2>3. inst' = [inst EXCEPT ![i] = row]
    BY DEF CloseTask, TaskTypeOK
  <2> HIDE DEF row
  <2> QED
    BY <2>2, <2>3
<1>3. /\ task' \in [Request -> [at: Place, on: Instance \cup {NoInstance}]]
      /\ calls' \in [Request -> SUBSET Call]
  <2>1. calls[r] \cup {"INTERRUPTED"} \in SUBSET Call
    BY DEF TaskTypeOK, Call
  <2> QED
    BY <2>1 DEF CloseTask, TaskTypeOK, Place
<1>4. KeepsTasks
    BY DEF CloseTask, KeepsTasks, Stays, GoesOn, IsOver, TaskTypeOK, Timed
<1>5. TaskTypeOK'
    BY <1>2, <1>3 DEF TaskTypeOK
<1>6. KeepsSubmissions
    BY <1>2 DEF KeepsSubmissions, Submitting, TaskTypeOK
<1> QED
    BY <1>4, <1>5, <1>6

\* A crash takes the tasks of the instance and its submission.
LEMMA CrashStep ==
    ASSUME TaskTypeOK, NEW i \in Instance, Crash(i)
    PROVE  TaskTypeOK' /\ KeepsTasks /\ KeepsSubmissions
<1> DEFINE row == [phase |-> "down", submit |-> NoSubmit, walk |-> {}]
<1>1. row \in InstanceRow /\ row.submit.at = "none"
    BY DEF InstanceRow, NoSubmit
<1>2. inst' = [inst EXCEPT ![i] = row]
    BY DEF Crash
<1> HIDE DEF row
<1>3. task' \in [Request -> [at: Place, on: Instance \cup {NoInstance}]]
    BY DEF Crash, TaskTypeOK, Place
<1>4. calls' \in [Request -> SUBSET Call]
    BY DEF Crash, TaskTypeOK
<1>5. TaskTypeOK'
    BY <1>1, <1>2, <1>3, <1>4 DEF TaskTypeOK
<1>6. KeepsTasks
    BY DEF Crash, KeepsTasks, Stays, IsOver, TaskTypeOK
<1>7. KeepsSubmissions
    BY <1>1, <1>2 DEF KeepsSubmissions, Submitting, TaskTypeOK
<1> QED
    BY <1>5, <1>6, <1>7

\* A submission ends with one new task, on the instance that had the slot.
LEMMA SubmitEndsStep ==
    ASSUME TaskTypeOK, NEW i \in Instance, SubmitEnds(i)
    PROVE  /\ TaskTypeOK' /\ KeepsSubmissions
           /\ Submitting(i) /\ ~Submitting(i)'
           /\ \E r \in Request :
                \A q \in Request :
                    task'[q] = task[q] \/ (q = r /\ task'[q].on = i)
<1> DEFINE row == [inst[i] EXCEPT !.submit = NoSubmit]
           r == inst[i].submit.request
<1>1. inst[i] \in InstanceRow
    BY DEF TaskTypeOK
<1>2. row \in InstanceRow /\ row.submit.at = "none"
    BY <1>1 DEF InstanceRow, NoSubmit
<1>3. inst' = [inst EXCEPT ![i] = row]
    BY DEF SubmitEnds, TaskTypeOK
<1> HIDE DEF row
<1>4. /\ task' = [task EXCEPT ![r] = [at |-> "new", on |-> i]]
      /\ calls' = calls
    BY DEF SubmitEnds
<1>5. [at |-> "new", on |-> i] \in [at: Place, on: Instance \cup {NoInstance}]
    BY DEF Place
<1>6. TaskTypeOK'
    BY <1>2, <1>3, <1>4, <1>5 DEF TaskTypeOK
<1>7. Submitting(i)
    BY DEF SubmitEnds, Submitting
<1>8. ~Submitting(i)' /\ KeepsSubmissions
    BY <1>2, <1>3 DEF KeepsSubmissions, Submitting, TaskTypeOK
<1>9. r \in Request \cup {0}
    BY <1>1 DEF InstanceRow
<1>10. \A q \in Request : task'[q] = task[q] \/ (q = r /\ task'[q].on = i)
    BY <1>4 DEF TaskTypeOK
<1>11. 1 \in Request
    BY ChatConstants DEF Request
<1> HIDE DEF r
<1>12. \E s \in Request :
          \A q \in Request : task'[q] = task[q] \/ (q = s /\ task'[q].on = i)
  <2>1. CASE r \in Request
    BY <1>10, <2>1
  <2>2. CASE r \notin Request
    BY <1>10, <1>11, <2>2
  <2> QED
    BY <2>1, <2>2
<1> QED
    BY <1>6, <1>7, <1>8, <1>12

\* What any other step does to instances and tasks.
LEMMA TaskSteps ==
    ASSUME TaskTypeOK, Next
    PROVE  /\ TaskTypeOK' /\ KeepsSubmissions
           /\ KeepsTasks \/ \E i \in Instance : SubmitEnds(i)
<1>1. CASE UNCHANGED <<inst, task, calls>>
    BY <1>1 DEF TaskTypeOK, KeepsSubmissions, Submitting, KeepsTasks, Stays
<1>2. ASSUME NEW c \in Conversation, Create(c) \/ Reset(c) \/ Remove(c)
      PROVE  UNCHANGED <<inst, task, calls>>
    BY <1>2 DEF Create, Reset, Remove
<1>3. ASSUME NEW r \in Request,
             \/ Cancel(r) \/ HeartbeatLapses(r) \/ DeadlinePasses(r)
             \/ InterruptStale(r) \/ \E i \in Instance : Heartbeat(i, r)
      PROVE  UNCHANGED <<inst, task, calls>>
    BY <1>3 DEF Cancel, HeartbeatLapses, DeadlinePasses, InterruptStale, Heartbeat
<1>4. ASSUME NEW r \in Request, NEW call, Commit(r, call)
      PROVE  call \in Call
    BY <1>4 DEF Commit, TaskTypeOK
<1> QED
    BY <1>1, <1>2, <1>3, <1>4, SubmissionSteps, OneTaskSteps, CloseTaskStep,
       CrashStep, SubmitEndsStep DEF Next, Proceeds

-----------------------------------------------------------------------------
(* Slots. *)

\* The slot a submission has found is still there when its task is created:
\* submissions of an instance take turns, and tasks only end meanwhile.
SlotsInv ==
    /\ SlotsBound
    /\ \A i \in Instance : Submitting(i) => HasSlot(i)

LEMMA TasksFinite ==
    \A i \in Instance : IsFiniteSet(Tasks(i)) /\ Cardinality(Tasks(i)) \in Nat
<1> TAKE i \in Instance
<1>1. IsFiniteSet(Request)
    BY ChatConstants, FS_Interval DEF Request
<1>2. Tasks(i) \subseteq Request
    BY DEF Tasks
<1> QED
    BY <1>1, <1>2, FS_Subset, FS_CardinalityType

\* A step that creates no task frees slots or leaves them.
LEMMA SlotsKept ==
    ASSUME SlotsInv, KeepsTasks, KeepsSubmissions
    PROVE  SlotsInv'
<1>1. ASSUME NEW i \in Instance
      PROVE  Cardinality(Tasks(i)') \in Nat /\ Cardinality(Tasks(i)') <= Cardinality(Tasks(i))
  <2>1. Tasks(i)' \subseteq Tasks(i)
    BY DEF Tasks, KeepsTasks, Stays, GoesOn, IsOver
  <2>2. IsFiniteSet(Tasks(i))
    BY TasksFinite
  <2> QED
    BY <2>1, <2>2, FS_Subset, FS_CardinalityType
<1>2. SlotsBound'
    BY <1>1, TasksFinite, ChatConstants DEF SlotsInv, SlotsBound
<1>3. ASSUME NEW i \in Instance, Submitting(i)'
      PROVE  HasSlot(i)'
  <2>1. HasSlot(i)
    BY <1>3 DEF KeepsSubmissions, SlotsInv
  <2> QED
    BY <1>1, <2>1, TasksFinite, ChatConstants DEF HasSlot
<1> QED
    BY <1>2, <1>3 DEF SlotsInv

\* The end of a submission takes the one slot it had found.
LEMMA SlotTaken ==
    ASSUME SlotsInv, KeepsSubmissions, NEW i \in Instance, NEW r \in Request,
           Submitting(i), ~Submitting(i)',
           \A q \in Request : task'[q] = task[q] \/ (q = r /\ task'[q].on = i)
    PROVE  SlotsInv'
<1>1. ASSUME NEW j \in Instance, j # i
      PROVE  Cardinality(Tasks(j)') \in Nat /\ Cardinality(Tasks(j)') <= Cardinality(Tasks(j))
  <2>1. Tasks(j)' \subseteq Tasks(j)
    BY <1>1 DEF Tasks
  <2>2. IsFiniteSet(Tasks(j))
    BY TasksFinite
  <2> QED
    BY <2>1, <2>2, FS_Subset, FS_CardinalityType
<1>2. Cardinality(Tasks(i)') <= Capacity
  <2>1. Tasks(i)' \subseteq Tasks(i) \cup {r}
    BY DEF Tasks
  <2>2. /\ IsFiniteSet(Tasks(i)) /\ Cardinality(Tasks(i)) \in Nat
        /\ Cardinality(Tasks(i)) < Capacity
    BY TasksFinite DEF SlotsInv, HasSlot
  <2>3. /\ IsFiniteSet(Tasks(i) \cup {r})
        /\ Cardinality(Tasks(i) \cup {r}) \in Nat
        /\ Cardinality(Tasks(i) \cup {r}) <= Cardinality(Tasks(i)) + 1
    <3>1. /\ IsFiniteSet(Tasks(i) \cup {r})
          /\ Cardinality(Tasks(i) \cup {r}) =
               IF r \in Tasks(i) THEN Cardinality(Tasks(i))
               ELSE Cardinality(Tasks(i)) + 1
      BY <2>2, FS_AddElement
    <3> QED
      BY <2>2, <3>1
  <2>4. /\ Cardinality(Tasks(i)') <= Cardinality(Tasks(i) \cup {r})
        /\ Cardinality(Tasks(i)') \in Nat
    BY <2>1, <2>3, FS_Subset, FS_CardinalityType
  <2> QED
    BY <2>2, <2>3, <2>4, ChatConstants
<1>3. SlotsBound'
  <2> SUFFICES ASSUME NEW j \in Instance PROVE Cardinality(Tasks(j)') <= Capacity
    BY DEF SlotsBound
  <2>1. CASE j # i
    BY <1>1, <2>1, TasksFinite, ChatConstants DEF SlotsInv, SlotsBound
  <2> QED
    BY <1>2, <2>1
<1>4. ASSUME NEW j \in Instance, Submitting(j)'
      PROVE  HasSlot(j)'
  <2>1. j # i
    BY <1>4
  <2>2. HasSlot(j)
    BY <1>4 DEF KeepsSubmissions, SlotsInv
  <2> QED
    BY <1>1, <2>1, <2>2, TasksFinite, ChatConstants DEF HasSlot
<1> QED
    BY <1>3, <1>4 DEF SlotsInv

-----------------------------------------------------------------------------
(* The invariant. *)

IInv == TypeOK /\ RowsInv /\ SlotsInv

\* Nothing is stored, nobody serves, no task exists.
LEMMA InitIInv == Init => IInv
<1> SUFFICES ASSUME Init PROVE IInv
    OBVIOUS
<1>1. DataTypeOK
  <2>1. [state |-> "new", version |-> 1, filters |-> 0, log |-> <<>>]
          \in ConversationRow
    <3>1. <<>> \in Seq(Message)
      OBVIOUS
    <3> QED
      BY <3>1 DEF ConversationRow
  <2> QED
    BY <2>1 DEF Init, DataTypeOK
<1>2. TaskTypeOK
  <2>1. [phase |-> "new", submit |-> NoSubmit, walk |-> {}] \in InstanceRow
    BY DEF InstanceRow, NoSubmit
  <2>2. [at |-> "none", on |-> NoInstance]
          \in [at: Place, on: Instance \cup {NoInstance}]
    BY DEF Place
  <2> QED
    BY <2>1, <2>2 DEF Init, TaskTypeOK
<1>3. \A r \in Request : ~Stored(r) /\ ~Active(r)
    BY DEF Init, NoRequest, Stored, Active, ActiveStatus, TerminalStatus
<1>4. \A c \in Conversation : DOMAIN conv[c].log = {}
    BY DEF Init
<1>5. RowsInv
    BY <1>3, <1>4 DEF RowsInv, OneActiveRequest, SubmittedOnce, LogOfStored,
       PendingIsLast, TranscriptInTurns
<1>6. \A i \in Instance : Tasks(i) = {}
    BY ChatConstants DEF Init, Tasks
<1>7. SlotsInv
    BY <1>6, FS_EmptySet, ChatConstants DEF SlotsInv, SlotsBound, HasSlot
<1> QED
    BY <1>1, <1>2, <1>5, <1>7, TypeParts DEF IInv

\* Steps of instances and tasks that touch no row.
LEMMA RowsUntouched ==
    ASSUME RowsInv, UNCHANGED <<req, conv>>
    PROVE  RowsInv'
<1>1. \A r \in Request : Stored(r) => Turn(conv[req[r].conv].log, r, req[r].status)
    BY TurnsUnfold DEF RowsInv
<1>2. \A r \in Request : Stored(r)' => Turn(conv'[req'[r].conv].log, r, req'[r].status)
    BY <1>1 DEF Stored
<1>3. TranscriptInTurns'
    BY <1>2 DEF TranscriptInTurns, Turn
<1>4. OneActiveRequest' /\ SubmittedOnce'
    BY DEF RowsInv, OneActiveRequest, SubmittedOnce, Stored, Active
<1>5. LogOfStored'
    BY DEF RowsInv, LogOfStored, StoredIn, Stored
<1>6. PendingIsLast'
    BY DEF RowsInv, PendingIsLast, Active
<1> QED
    BY <1>3, <1>4, <1>5, <1>6 DEF RowsInv

LEMMA NextIInv == IInv /\ [Next]_vars => IInv'
<1> SUFFICES ASSUME IInv, [Next]_vars PROVE IInv'
    OBVIOUS
<1>1. CASE UNCHANGED vars
  <2>1. TypeOK'
    BY <1>1 DEF vars, IInv, TypeOK
  <2>2. RowsInv'
    BY <1>1, RowsUntouched DEF vars, IInv
  <2>3. SlotsInv'
    BY <1>1 DEF vars, IInv, SlotsInv, SlotsBound, Submitting, HasSlot, Tasks
  <2> QED
    BY <2>1, <2>2, <2>3 DEF IInv
<1>2. CASE Next
  <2>1. DataTypeOK /\ TaskTypeOK /\ RowsInv /\ SlotsInv
    BY TypeParts DEF IInv
  <2>2. DataTypeOK' /\ RowsInv'
    <3>1. CASE UNCHANGED <<req, conv>>
      BY <2>1, <3>1, RowsUntouched DEF DataTypeOK
    <3> QED
      BY <1>2, <2>1, <3>1, DataSteps, CreateResetStep, RemoveStep, AdmitsStep,
         MovesStep DEF DataStep, IInv
  <2>3. TaskTypeOK' /\ SlotsInv'
    BY <1>2, <2>1, TaskSteps, SlotsKept, SubmitEndsStep, SlotTaken
  <2> QED
    BY <2>2, <2>3
    DEF IInv, TypeOK, DataTypeOK, TaskTypeOK, InstanceRow
<1> QED
    BY <1>1, <1>2

\* The inductive invariant holds of rows, transcripts and slots, whatever instances do.
THEOREM Invariance == Spec => []IInv
BY InitIInv, NextIInv, PTL DEF Spec

\* Every variable has its type.
THEOREM TypeCorrect == Spec => []TypeOK
<1>1. IInv => TypeOK
    BY DEF IInv
<1> QED
    BY <1>1, Invariance, PTL

\* No two questions of a conversation are in progress (accept).
THEOREM OneActive == Spec => []OneActiveRequest
<1>1. IInv => OneActiveRequest
    BY DEF IInv, RowsInv
<1> QED
    BY <1>1, Invariance, PTL

\* No client_request_id is taken twice in a conversation (accept).
THEOREM AskedOnce == Spec => []SubmittedOnce
<1>1. IInv => SubmittedOnce
    BY DEF IInv, RowsInv
<1> QED
    BY <1>1, Invariance, PTL

\* A transcript is one of turns, whatever came late (transition, accept).
THEOREM Turns == Spec => []TranscriptInTurns
<1>1. IInv => TranscriptInTurns
    BY DEF IInv, RowsInv
<1> QED
    BY <1>1, Invariance, PTL

\* An instance keeps to its slots (submit, remove).
THEOREM Slots == Spec => []SlotsBound
<1>1. IInv => SlotsBound
    BY DEF IInv, SlotsInv
<1> QED
    BY <1>1, Invariance, PTL

-----------------------------------------------------------------------------
(* What a broker sees: the four variables of ChatConversation. *)

State == [c \in Conversation |-> conv[c].state]
Outcomes == [r \in Request |-> Outcome(r)]
AskedIn == [r \in Request |-> IF Stored(r) THEN req[r].conv ELSE "nowhere"]
Context == [c \in Conversation |-> conv[c].filters]

\* How rows read as outcomes.
LEMMA OutcomeOfRow ==
    ASSUME DataTypeOK, NEW r \in Request
    PROVE  /\ Active(r) <=> Outcome(r) = "pending"
           /\ Stored(r) <=> Outcome(r) \in {"pending", "answered", "unanswered"}
           /\ Stored(r) => req[r].conv \in Conversation
           /\ req[r].status = "NONE" => Outcome(r) = "none"
           /\ req[r].status = "DELETED" => Outcome(r) = "erased"
           /\ req[r].status = "COMPLETED" => Outcome(r) = "answered"
           /\ req[r].status \in {"FAILED", "CANCELLED", "INTERRUPTED"} =>
                 Outcome(r) = "unanswered"
BY DEF DataTypeOK, RequestRow, NoRequest, Deleted, Outcome, Active, Stored,
       ActiveStatus, TerminalStatus

\* A row that stays leaves its outcome as it is.
LEMMA OutcomeKept ==
    ASSUME NEW r \in Request, req'[r] = req[r]
    PROVE  Outcome(r)' = Outcome(r) /\ Stored(r)' = Stored(r)
BY DEF Outcome, Active, Stored

LEMMA PendingMeansActive ==
    ASSUME DataTypeOK, NEW c \in Conversation, ActiveOf(c) = {}
    PROVE  ~ \E r \in Request : Outcomes[r] = "pending" /\ AskedIn[r] = c
BY OutcomeOfRow DEF ActiveOf, Outcomes, AskedIn, Active, Stored

\* A conversation is created, or reset.
LEMMA CreateOpens ==
    ASSUME DataTypeOK, NEW c \in Conversation, Create(c)
    PROVE  Conversations!Open(c)
<1>1. conv[c] \in ConversationRow
    BY DEF DataTypeOK
<1>2. /\ req' = req
      /\ conv' = [conv EXCEPT ![c] = [conv[c] EXCEPT !.state = "open"]]
    BY DEF Create, DataTypeOK
<1>3. /\ conv'[c].state = "open" /\ conv'[c].filters = conv[c].filters
      /\ \A d \in Conversation \ {c} : conv'[d] = conv[d]
    BY <1>1, <1>2 DEF DataTypeOK, ConversationRow
<1>4. Outcomes' = Outcomes /\ AskedIn' = AskedIn
    BY <1>2, OutcomeKept DEF Outcomes, AskedIn
<1>5. State' = [State EXCEPT ![c] = "open"] /\ Context' = Context
    BY <1>3 DEF State, Context
<1>6. State[c] = "new"
    BY DEF Create, State
<1> QED
    BY <1>4, <1>5, <1>6, Zenon
    DEF Conversations!Open, State, Outcomes, AskedIn, Context

LEMMA ResetResets ==
    ASSUME DataTypeOK, NEW c \in Conversation, Reset(c)
    PROVE  Conversations!Reset(c)
<1>1. conv[c] \in ConversationRow
    BY DEF DataTypeOK
<1>2. /\ req' = req
      /\ conv' = [conv EXCEPT ![c] =
            [conv[c] EXCEPT !.filters = 0, !.version = conv[c].version + 1]]
    BY DEF Reset, DataTypeOK
<1>3. /\ conv'[c].state = conv[c].state /\ conv'[c].filters = 0
      /\ \A d \in Conversation \ {c} : conv'[d] = conv[d]
    BY <1>1, <1>2 DEF DataTypeOK, ConversationRow
<1>4. Outcomes' = Outcomes /\ AskedIn' = AskedIn
    BY <1>2, OutcomeKept DEF Outcomes, AskedIn
<1>5. State' = State /\ Context' = [Context EXCEPT ![c] = 0]
    BY <1>3 DEF State, Context
<1>6. State[c] = "open"
    BY DEF Reset, Resettable, State
<1>7. ~ \E r \in Request : Outcomes[r] = "pending" /\ AskedIn[r] = c
    BY PendingMeansActive DEF Reset, Resettable
<1> QED
    BY <1>4, <1>5, <1>6, <1>7, Zenon
    DEF Conversations!Reset, Conversations!Pending, State, Outcomes, AskedIn, Context

\* A conversation is removed with its questions.
LEMMA RemoveErases ==
    ASSUME DataTypeOK, NEW c \in Conversation, Remove(c)
    PROVE  Conversations!Erase(c)
<1>1. conv[c] \in ConversationRow
    BY DEF DataTypeOK
<1>2. conv' = [conv EXCEPT ![c] =
          [conv[c] EXCEPT !.state = "gone", !.log = <<>>, !.filters = 0]]
    BY DEF Remove, DataTypeOK
<1>3. /\ conv'[c].state = "gone" /\ conv'[c].filters = 0
      /\ \A d \in Conversation \ {c} : conv'[d] = conv[d]
    BY <1>1, <1>2 DEF DataTypeOK, ConversationRow
<1>4. /\ State' = [State EXCEPT ![c] = "gone"]
      /\ Context' = [Context EXCEPT ![c] = 0]
    BY <1>3 DEF State, Context
<1>5. State[c] = "open"
    BY DEF Remove, State
<1>6. ASSUME NEW r \in Request
      PROVE  IF Outcomes[r] \in {"pending", "answered", "unanswered"} /\ AskedIn[r] = c
             THEN Outcomes'[r] = "erased" /\ AskedIn'[r] = "nowhere"
             ELSE Outcomes'[r] = Outcomes[r] /\ AskedIn'[r] = AskedIn[r]
  <2>1. Outcomes[r] \in {"pending", "answered", "unanswered"} <=> Stored(r)
    BY OutcomeOfRow DEF Outcomes
  <2>2. CASE Stored(r) /\ req[r].conv = c
    <3>1. req'[r] = Deleted
      BY <2>2 DEF Remove
    <3>2. req'[r].status = "DELETED"
      BY <3>1 DEF Deleted
    <3>3. Outcome(r)' = "erased" /\ ~Stored(r)'
      BY <3>2 DEF Outcome, Active, Stored, ActiveStatus, TerminalStatus
    <3> QED
      BY <2>1, <2>2, <3>3 DEF Outcomes, AskedIn
  <2>3. CASE ~(Stored(r) /\ req[r].conv = c)
    <3>1. req'[r] = req[r]
      BY <2>3 DEF Remove
    <3>2. Outcome(r)' = Outcome(r) /\ Stored(r)' = Stored(r)
      BY <3>1, OutcomeKept
    <3>3. ~(Outcomes[r] \in {"pending", "answered", "unanswered"} /\ AskedIn[r] = c)
      BY <2>1, <2>3 DEF AskedIn
    <3> QED
      BY <3>1, <3>2, <3>3 DEF Outcomes, AskedIn
  <2> QED
    BY <2>2, <2>3
<1>7. /\ Outcomes' = [r \in Request |->
            IF Outcomes[r] \in {"pending", "answered", "unanswered"} /\ AskedIn[r] = c
            THEN "erased" ELSE Outcomes[r]]
      /\ AskedIn' = [r \in Request |->
            IF Outcomes[r] \in {"pending", "answered", "unanswered"} /\ AskedIn[r] = c
            THEN "nowhere" ELSE AskedIn[r]]
    BY <1>6 DEF Outcomes, AskedIn
<1> QED
    BY <1>4, <1>5, <1>7, Zenon
    DEF Conversations!Erase, Conversations!Asked, State, Outcomes, AskedIn, Context

\* A question is admitted.
LEMMA AdmitsAsks ==
    ASSUME DataTypeOK, NEW c \in Conversation, NEW k \in Key, NEW r \in Request,
           Admits(c, k, r)
    PROVE  Conversations!Ask(c, r)
<1>1. /\ DataTypeOK'
      /\ ~Stored(r) /\ Active(r)' /\ req'[r].conv = c /\ req'[r].key = k
      /\ \A q \in Request \ {r} : req'[q] = req[q]
      /\ \A d \in Conversation \ {c} : conv'[d] = conv[d]
      /\ conv[c].log \in Seq(Message)
      /\ conv'[c].log = Append(conv[c].log, [role |-> "user", request |-> r])
    BY AdmitsFacts
<1>2. conv[c] \in ConversationRow
    BY DEF DataTypeOK
<1>3. conv' = [conv EXCEPT ![c] = [conv[c] EXCEPT !.log =
          Append(conv[c].log, [role |-> "user", request |-> r])]]
    BY DEF Admits, DataTypeOK
<1>4. /\ conv'[c].state = conv[c].state /\ conv'[c].filters = conv[c].filters
      /\ \A d \in Conversation \ {c} : conv'[d] = conv[d]
    BY <1>2, <1>3 DEF DataTypeOK, ConversationRow
<1>5. State' = State /\ Context' = Context
    BY <1>4 DEF State, Context
<1>6. req[r].status = "NONE"
    BY DEF Admits, Request
<1>7. Outcomes[r] = "none"
    BY <1>6, OutcomeOfRow DEF Outcomes
<1>8. Outcome(r)' = "pending"
    BY <1>1 DEF Outcome, Active, ActiveStatus
<1>9. Stored(r)'
    BY <1>1 DEF Active, Stored
<1>10. \A q \in Request \ {r} : Outcome(q)' = Outcome(q) /\ Stored(q)' = Stored(q)
    BY <1>1, OutcomeKept
<1>11. /\ Outcomes' = [Outcomes EXCEPT ![r] = "pending"]
       /\ AskedIn' = [AskedIn EXCEPT ![r] = c]
    BY <1>1, <1>8, <1>9, <1>10 DEF Outcomes, AskedIn
<1>12. State[c] = "open"
    BY DEF Admits, Acceptable, State
<1>13. ~ \E q \in Request : Outcomes[q] = "pending" /\ AskedIn[q] = c
    BY PendingMeansActive DEF Admits, Acceptable
<1> QED
    BY <1>5, <1>7, <1>11, <1>12, <1>13, Zenon
    DEF Conversations!Ask, Conversations!Pending, State, Outcomes, AskedIn, Context

\* What a move writes beside messages: at most the conditions in force.
LEMMA MovesContext ==
    ASSUME DataTypeOK, NEW r \in Request, Moves(r)
    PROVE  /\ State' = State
           /\ \/ Context' = Context
              \/ /\ req'[r].status = "COMPLETED"
                 /\ Context' = [Context EXCEPT ![req[r].conv] = r]
<1> DEFINE c == req[r].conv
<1>1. PICK row \in RequestRow :
        /\ req' = [req EXCEPT ![r] = row]
        /\ \/ row.status # "COMPLETED" /\ conv' = conv
           \/ /\ row.status = "COMPLETED"
              /\ \E call \in Answer : conv' = [conv EXCEPT ![c] = Answered(@, r, call)]
    BY DEF Moves
<1>2. req'[r] = row
    BY <1>1 DEF DataTypeOK
<1>3. conv[c] \in ConversationRow /\ c \in Conversation
    BY MovesFacts DEF DataTypeOK
<1>4. ASSUME NEW call \in Answer, conv' = [conv EXCEPT ![c] = Answered(@, r, call)]
      PROVE  /\ State' = State
             /\ Context' = Context \/ Context' = [Context EXCEPT ![c] = r]
  <2> DEFINE row2 == Answered(conv[c], r, call)
  <2>1. /\ row2.state = conv[c].state
        /\ row2.filters = conv[c].filters \/ row2.filters = r
    BY <1>3 DEF Answered, ConversationRow
  <2> HIDE DEF row2
  <2>2. conv' = [conv EXCEPT ![c] = row2]
    BY <1>4 DEF row2
  <2>3. /\ conv'[c] = row2 /\ \A d \in Conversation \ {c} : conv'[d] = conv[d]
    BY <1>3, <2>2 DEF DataTypeOK
  <2> HIDE DEF c
  <2>4. State' = State
    BY <1>3, <2>1, <2>3 DEF State
  <2>5. CASE row2.filters = conv[c].filters
    <3>1. Context' = Context
      BY <1>3, <2>3, <2>5 DEF Context
    <3> QED
      BY <2>4, <3>1
  <2>6. CASE row2.filters = r
    <3>1. Context' = [Context EXCEPT ![c] = r]
      BY <1>3, <2>3, <2>6 DEF Context
    <3> QED
      BY <2>4, <3>1
  <2> QED
    BY <2>1, <2>5, <2>6
<1>5. CASE conv' = conv
    BY <1>5 DEF State, Context
<1> QED
    BY <1>1, <1>2, <1>4, <1>5

\* A question is settled by the move that ends it; no other shows.
LEMMA MovesSettles ==
    ASSUME DataTypeOK, NEW r \in Request, Moves(r)
    PROVE  Conversations!Settle(r) \/ UNCHANGED Conversations!vars
<1>1. /\ DataTypeOK' /\ Active(r) /\ Stored(r) /\ Stored(r)'
      /\ req'[r].conv = req[r].conv
      /\ \A q \in Request \ {r} : req'[q] = req[q]
    BY MovesFacts
<1>2. /\ State' = State
      /\ \/ Context' = Context
         \/ /\ req'[r].status = "COMPLETED"
            /\ Context' = [Context EXCEPT ![req[r].conv] = r]
    BY MovesContext
<1>3. \A q \in Request \ {r} : Outcome(q)' = Outcome(q) /\ Stored(q)' = Stored(q)
    BY <1>1, OutcomeKept
<1>4. AskedIn' = AskedIn /\ AskedIn[r] = req[r].conv
    BY <1>1, <1>3 DEF AskedIn
<1>5. /\ Outcomes' = [Outcomes EXCEPT ![r] = Outcome(r)']
      /\ Outcomes[r] = "pending"
    BY <1>1, <1>3, OutcomeOfRow DEF Outcomes
<1>6. CASE req'[r].status = "COMPLETED"
  <2>1. Outcome(r)' = "answered"
    BY <1>6 DEF Outcome, Active, ActiveStatus
  <2> QED
    BY <1>2, <1>4, <1>5, <2>1, Zenon
    DEF Conversations!Settle, State, Outcomes, AskedIn, Context
<1>7. CASE req'[r].status \in {"FAILED", "CANCELLED", "INTERRUPTED"}
  <2>1. Outcome(r)' = "unanswered" /\ req'[r].status # "COMPLETED"
    BY <1>7 DEF Outcome, Active, ActiveStatus
  <2> QED
    BY <1>2, <1>4, <1>5, <2>1, Zenon
    DEF Conversations!Settle, State, Outcomes, AskedIn, Context
<1>8. CASE req'[r].status \in ActiveStatus
  <2>1. Outcome(r)' = "pending" /\ req'[r].status # "COMPLETED"
    BY <1>8 DEF Outcome, Active, ActiveStatus
  <2>2. Outcomes' = Outcomes /\ Context' = Context
    BY <1>2, <1>5, <2>1 DEF Outcomes
  <2> QED
    BY <1>2, <1>4, <2>2, Zenon
    DEF Conversations!vars, State, Outcomes, AskedIn, Context
<1> QED
    BY <1>1, <1>6, <1>7, <1>8 DEF Stored, TerminalStatus

\* The chatbot implements what a broker is promised.
THEOREM Refinement == Spec => ImplementsConversation
<1>1. Init => Conversations!Init
  <2> SUFFICES ASSUME Init PROVE Conversations!Init
    OBVIOUS
  <2>1. DataTypeOK /\ \A r \in Request : req[r].status = "NONE"
    BY InitIInv, TypeParts DEF IInv, Init, NoRequest
  <2>2. \A r \in Request : Outcome(r) = "none" /\ ~Stored(r)
    BY <2>1, OutcomeOfRow
  <2>3. /\ State = [c \in Conversation |-> "new"]
        /\ Outcomes = [r \in Request |-> "none"]
        /\ AskedIn = [r \in Request |-> "nowhere"]
        /\ Context = [c \in Conversation |-> 0]
    BY <2>2 DEF Init, State, Outcomes, AskedIn, Context
  <2> QED
    BY <2>3, Zenon DEF Conversations!Init, State, Outcomes, AskedIn, Context
<1>2. IInv /\ [Next]_vars => [Conversations!Next]_(Conversations!vars)
  <2> SUFFICES ASSUME IInv, [Next]_vars
               PROVE  [Conversations!Next]_(Conversations!vars)
    OBVIOUS
  <2>1. DataTypeOK
    BY TypeParts DEF IInv
  <2>2. ASSUME UNCHANGED <<req, conv>> PROVE UNCHANGED Conversations!vars
    <3>1. State' = State /\ Outcomes' = Outcomes /\ AskedIn' = AskedIn /\ Context' = Context
      BY <2>2, OutcomeKept DEF State, Outcomes, AskedIn, Context
    <3> QED
      BY <3>1, Zenon DEF Conversations!vars, State, Outcomes, AskedIn, Context
  <2>3. CASE UNCHANGED vars
    BY <2>2, <2>3 DEF vars
  <2>4. CASE Next
    <3>1. DataStep
      BY <2>4, DataSteps DEF IInv
    <3> QED
      BY <2>1, <2>2, <3>1, CreateOpens, ResetResets, RemoveErases, AdmitsAsks,
         MovesSettles DEF DataStep, Conversations!Next
  <2> QED
    BY <2>3, <2>4
<1> QED
    BY <1>1, <1>2, Invariance, PTL
    DEF Spec, ImplementsConversation, Conversations!Spec

-----------------------------------------------------------------------------
(* The event stream                                                          *)

\* What a step may do to the status and the revision of a request.
Revised(r) ==
    Stored(r)' =>
        \/ req[r].status = "NONE"
        \/ /\ Stored(r)
           /\ req'[r].status = req[r].status /\ req'[r].revision = req[r].revision
        \/ Active(r) /\ req'[r].revision = req[r].revision + 1

\* A row that is rewritten in place says what its next status and revision are.
LEMMA RowRevised ==
    ASSUME TypeOK, NEW q \in Request, Active(q), NEW row,
           req' = [req EXCEPT ![q] = row],
           \/ row.revision = req[q].revision + 1
           \/ row.status = req[q].status /\ row.revision = req[q].revision
    PROVE  \A r \in Request : Revised(r)
<1> SUFFICES ASSUME NEW r \in Request, Stored(r)' PROVE Revised(r)
    BY DEF Revised
<1>1. CASE r = q
  <2>1. req'[q] = row /\ Stored(q)
    BY DEF TypeOK, Active, Stored
  <2> QED
    BY <1>1, <2>1 DEF Revised
<1>2. CASE r # q
  <2>1. req'[r] = req[r] /\ Stored(r)
    BY <1>2 DEF TypeOK, Stored
  <2> QED
    BY <2>1 DEF Revised
<1> QED
    BY <1>1, <1>2

\* Nothing is revised by who leaves the requests alone.
LEMMA NotRevised ==
    ASSUME UNCHANGED req
    PROVE  \A r \in Request : Revised(r)
    BY DEF Revised, Stored

\* A transition is a revision.
LEMMA TransitionRevises ==
    ASSUME TypeOK, NEW q \in Request, NEW call \in Call \cup {"CANCELLED"},
           Transition(q, call)
    PROVE  \A r \in Request : Revised(r)
<1>1. CASE ~Active(q)
    BY <1>1, NotRevised DEF Transition
<1>2. CASE Active(q)
  <2>1. req[q] \in RequestRow
    BY <1>2, Rows
  <2>2. Moved(q, call).revision = req[q].revision + 1
    BY <2>1 DEF Moved, RequestRow
  <2>3. req' = [req EXCEPT ![q] = Moved(q, call)]
    BY <1>2 DEF Transition
  <2> QED
    BY <1>2, <2>2, <2>3, RowRevised
<1> QED
    BY <1>1, <1>2

\* A clock that moves is no revision, an interruption is one.
LEMMA ClockRevises ==
    ASSUME TypeOK, NEW q \in Request, Active(q),
           \/ \E t \in Clock : req' = [req EXCEPT ![q].clock = t]
           \/ req' = [req EXCEPT ![q] = Interrupted(q)]
    PROVE  \A r \in Request : Revised(r)
<1>1. req[q] \in RequestRow
    BY Rows
<1>2. ASSUME NEW t \in Clock, req' = [req EXCEPT ![q].clock = t]
      PROVE  \A r \in Request : Revised(r)
  <2> DEFINE row == [req[q] EXCEPT !.clock = t]
  <2>1. row.status = req[q].status /\ row.revision = req[q].revision
    BY <1>1 DEF RequestRow
  <2>2. req' = [req EXCEPT ![q] = row]
    BY <1>2
  <2> HIDE DEF row
  <2> QED
    BY <2>1, <2>2, RowRevised
<1>3. CASE req' = [req EXCEPT ![q] = Interrupted(q)]
  <2>1. Interrupted(q).revision = req[q].revision + 1
    BY <1>1 DEF Interrupted, RequestRow
  <2> QED
    BY <1>3, <2>1, RowRevised
<1> QED
    BY <1>2, <1>3

\* Whoever writes the row of a request, a new status has a new revision.
LEMMA RevisionSteps ==
    ASSUME TypeOK, Next
    PROVE  \A r \in Request : Revised(r)
<1> DEFINE Goal == \A r \in Request : Revised(r)
<1>1. ASSUME UNCHANGED req PROVE Goal
    BY <1>1, NotRevised
<1> HIDE DEF Goal
<1>2. ASSUME NEW c \in Conversation, Create(c) \/ Reset(c) PROVE Goal
    BY <1>1, <1>2 DEF Create, Reset
<1>3. ASSUME NEW c \in Conversation, Remove(c) PROVE Goal
  <2> SUFFICES ASSUME NEW r \in Request, Stored(r)' PROVE Revised(r)
    BY DEF Revised, Goal
  <2>1. req'[r] = Deleted \/ req'[r] = req[r]
    BY <1>3 DEF Remove
  <2>2. req'[r] = req[r] /\ Stored(r)
    BY <2>1 DEF Stored, Deleted, ActiveStatus, TerminalStatus
  <2> QED
    BY <2>2 DEF Revised
<1>4. ASSUME NEW i \in Instance, NEW c \in Conversation, NEW k \in Key,
             Accept(i, c, k)
      PROVE  Goal
  <2>1. PICK q \in Request : Admits(c, k, q)
    BY <1>4, Zenon DEF Accept, Admits
  <2> SUFFICES ASSUME NEW r \in Request, Stored(r)' PROVE Revised(r)
    BY DEF Revised, Goal
  <2>2. CASE r = q
    BY <2>1, <2>2 DEF Admits, Revised, Request
  <2>3. CASE r # q
    <3>1. req'[r] = req[r]
      BY <2>1, <2>3 DEF Admits, TypeOK
    <3> QED
      BY <3>1 DEF Revised, Stored
  <2> QED
    BY <2>2, <2>3
<1>5. ASSUME NEW i \in Instance,
             \/ SubmitBegin(i) \/ Refuse(i) \/ SubmitEnds(i)
             \/ Start(i) \/ CloseBegin(i) \/ Exit(i) \/ Crash(i)
      PROVE  Goal
    BY <1>1, <1>5 DEF SubmitBegin, Refuse, SubmitEnds, Start, CloseBegin, Exit,
                      Crash
<1>6. ASSUME NEW r \in Request,
             \/ Begins(r) \/ StepFails(r) \/ LastCallFails(r) \/ Works(r)
      PROVE  Goal
    BY <1>1, <1>6 DEF Begins, StepFails, LastCallFails, Works, Reports, Answers,
                      FindsItEnded
<1>7. ASSUME NEW r \in Request, NEW call, Commit(r, call) PROVE Goal
  <2>1. call \in Call /\ Transition(r, call)
    BY <1>7 DEF Commit, TypeOK
  <2> QED
    BY <2>1, TransitionRevises DEF Goal
<1>8. ASSUME NEW r \in Request, Cancel(r) PROVE Goal
    BY <1>8, TransitionRevises DEF Cancel, Goal
<1>9. ASSUME NEW i \in Instance, NEW r \in Request, CloseTask(i, r) PROVE Goal
  <2>1. Transition(r, "INTERRUPTED") \/ UNCHANGED req
    BY <1>9 DEF CloseTask
  <2>2. CASE Transition(r, "INTERRUPTED")
    BY <2>2, TransitionRevises DEF Call, Goal
  <2> QED
    BY <1>1, <2>1, <2>2
<1>10. ASSUME NEW r \in Request,
              \/ \E i \in Instance : Heartbeat(i, r)
              \/ HeartbeatLapses(r) \/ DeadlinePasses(r) \/ InterruptStale(r)
       PROVE  Goal
    BY <1>10, ClockRevises DEF Heartbeat, HeartbeatLapses, DeadlinePasses,
       InterruptStale, Swept, Clock, Goal
<1> QED
    BY <1>2, <1>3, <1>4, <1>5, <1>6, <1>7, <1>8, <1>9, <1>10 DEF Next, Proceeds, Goal

-----------------------------------------------------------------------------
(* The invariant of the streams. *)

Told == ActiveStatus \cup TerminalStatus \cup {"NONE"}

StreamTyped ==
    stream \in [Request -> [at: {"none", "open", "closed", "left"},
                            seen: Nat, told: Told]]

\* Nobody is subscribed to a request that does not exist.
NoneHasNoStream ==
    \A r \in Request : req[r].status = "NONE" => stream[r].at = "none"

\* A client has seen no revision that is still to come, and who has seen the
\* revision of an ending was told the ending.
SeenIsTold ==
    \A r \in Request : stream[r].at # "none" /\ Stored(r) =>
        /\ stream[r].seen <= req[r].revision
        /\ stream[r].seen = req[r].revision => stream[r].told = req[r].status
        /\ stream[r].at = "closed" => /\ req[r].status \in TerminalStatus
                                      /\ stream[r].seen = req[r].revision

StreamInv == StreamTyped /\ NoneHasNoStream /\ SeenIsTold

\* Nobody is subscribed at first.
LEMMA InitStreams == EventsInit => StreamInv
    BY DEF EventsInit, StreamInv, StreamTyped, NoneHasNoStream, SeenIsTold,
           NoStream, Told

\* A step of the chatbot.
LEMMA ChatbotKeepsStreams ==
    ASSUME StreamInv, TypeOK, TypeOK', Next, UNCHANGED stream
    PROVE  StreamInv'
<1>1. \A r \in Request : Revised(r)
    BY RevisionSteps
<1>2. NoneHasNoStream'
  <2>1. DataStep
    BY DataSteps
  <2> SUFFICES ASSUME NEW r \in Request, req'[r].status = "NONE"
               PROVE  req[r].status = "NONE"
    BY DEF StreamInv, NoneHasNoStream
  <2>2. CASE UNCHANGED req
    BY <2>2
  <2>3. ASSUME NEW c \in Conversation, Create(c) \/ Reset(c) \/ Remove(c)
        PROVE  req[r].status = "NONE"
    BY <2>3 DEF Create, Reset, Remove, Deleted
  <2>4. ASSUME NEW q \in Request, NEW row, row.status # "NONE",
               req' = [req EXCEPT ![q] = row]
        PROVE  req[r].status = "NONE"
    BY <2>4 DEF TypeOK
  <2>5. ASSUME NEW c \in Conversation, NEW k \in Key, NEW q \in Request,
               Admits(c, k, q)
        PROVE  req[r].status = "NONE"
    BY <2>4, <2>5 DEF Admits
  <2>6. ASSUME NEW q \in Request, Moves(q)
        PROVE  req[r].status = "NONE"
    BY <2>4, <2>6 DEF Moves, RequestRow, ActiveStatus, TerminalStatus
  <2> QED
    BY <2>1, <2>2, <2>3, <2>5, <2>6 DEF DataStep
<1>3. SeenIsTold'
  <2> SUFFICES ASSUME NEW r \in Request, stream[r].at # "none", Stored(r)'
               PROVE  SeenIsTold!(r)'
    BY DEF SeenIsTold
  <2>1. Revised(r) /\ req[r].status # "NONE"
    BY <1>1 DEF StreamInv, NoneHasNoStream
  <2>2. Stored(r) /\ req[r] \in RequestRow /\ req'[r] \in RequestRow
    <3>1. Stored(r)
      BY <2>1, Rows DEF Revised
    <3> QED
      BY <3>1, Rows DEF TypeOK, Stored, NoRequest, Deleted, ActiveStatus, TerminalStatus
  <2>3. /\ stream[r].seen <= req[r].revision
        /\ stream[r].seen = req[r].revision => stream[r].told = req[r].status
        /\ stream[r].at = "closed" => /\ req[r].status \in TerminalStatus
                                      /\ stream[r].seen = req[r].revision
    BY <2>2 DEF StreamInv, SeenIsTold
  <2>4. stream[r].seen \in Nat /\ req[r].revision \in Nat
    BY <2>2 DEF StreamInv, StreamTyped, RequestRow
  <2>5. CASE req'[r].status = req[r].status /\ req'[r].revision = req[r].revision
    BY <2>3, <2>5
  <2>6. CASE Active(r) /\ req'[r].revision = req[r].revision + 1
    BY <2>3, <2>4, <2>6 DEF Active, ActiveStatus, TerminalStatus
  <2> QED
    BY <2>1, <2>5, <2>6 DEF Revised
<1> QED
    BY <1>2, <1>3 DEF StreamInv, StreamTyped

\* A row that is sent is seen and told as it is.
LEMMA SentRow ==
    ASSUME TypeOK, NEW r \in Request, Stored(r)
    PROVE  /\ Sent(r) \in [at: {"none", "open", "closed", "left"},
                           seen: Nat, told: Told]
           /\ Sent(r).seen = req[r].revision /\ Sent(r).told = req[r].status
           /\ Sent(r).at = "closed" <=> req[r].status \in TerminalStatus
           /\ Sent(r).at \in {"open", "closed"}
<1>1. req[r] \in RequestRow
    BY Rows
<1> QED
    BY <1>1 DEF Sent, Told, RequestRow

\* One stream that changes: to what was sent, or without a word.
LEMMA OneStream ==
    ASSUME StreamInv, UNCHANGED vars, NEW r \in Request,
           NEW s \in [at: {"none", "open", "closed", "left"},
                      seen: Nat, told: Told],
           stream' = [stream EXCEPT ![r] = s],
           s.at # "none" => req[r].status # "NONE",
           Stored(r) /\ s.at # "none" =>
               /\ s.seen <= req[r].revision
               /\ s.seen = req[r].revision => s.told = req[r].status
               /\ s.at = "closed" => /\ req[r].status \in TerminalStatus
                                     /\ s.seen = req[r].revision
    PROVE  StreamInv'
<1>1. UNCHANGED req
    BY DEF vars
<1>2. /\ stream'[r] = s /\ StreamTyped'
      /\ \A q \in Request \ {r} : stream'[q] = stream[q]
    BY DEF StreamInv, StreamTyped
<1>3. NoneHasNoStream'
    BY <1>1, <1>2 DEF StreamInv, NoneHasNoStream
<1>4. SeenIsTold'
  <2> SUFFICES ASSUME NEW q \in Request PROVE SeenIsTold!(q)'
    BY DEF SeenIsTold
  <2>1. Stored(q)' <=> Stored(q)
    BY <1>1 DEF Stored
  <2>2. CASE q = r
    BY <1>1, <1>2, <2>1, <2>2
  <2>3. CASE q # r
    BY <1>1, <1>2, <2>1, <2>3 DEF StreamInv, SeenIsTold
  <2> QED
    BY <2>2, <2>3
<1> QED
    BY <1>2, <1>3, <1>4 DEF StreamInv

\* Sending the row.
LEMMA SendsRow ==
    ASSUME StreamInv, TypeOK, UNCHANGED vars, NEW r \in Request, Stored(r),
           req[r].status # "NONE", stream' = [stream EXCEPT ![r] = Sent(r)]
    PROVE  StreamInv'
<1>1. PICK s : s = Sent(r)
    OBVIOUS
<1>2. req[r].revision \in Nat
    BY Rows DEF RequestRow
<1>3. /\ s \in [at: {"none", "open", "closed", "left"}, seen: Nat, told: Told]
      /\ s.seen = req[r].revision /\ s.told = req[r].status
      /\ s.at = "closed" => req[r].status \in TerminalStatus
      /\ stream' = [stream EXCEPT ![r] = s]
    BY <1>1, SentRow
<1>4. s.seen <= req[r].revision
    BY <1>2, <1>3
<1> QED
    BY <1>3, <1>4, OneStream

\* A subscription begins with the row as it is.
LEMMA SubscribeStep ==
    ASSUME StreamInv, TypeOK, NEW r \in Request, Subscribe(r)
    PROVE  StreamInv'
<1>1. Stored(r) /\ UNCHANGED vars /\ stream' = [stream EXCEPT ![r] = Sent(r)]
    BY DEF Subscribe
<1>2. req[r].status # "NONE"
    BY <1>1 DEF Stored, ActiveStatus, TerminalStatus
<1> QED
    BY <1>1, <1>2, SendsRow

\* A client leaves knowing what it knew.
LEMMA DisconnectStep ==
    ASSUME StreamInv, TypeOK, NEW r \in Request, Disconnect(r)
    PROVE  StreamInv'
<1>1. /\ stream[r].at = "open" /\ UNCHANGED vars
      /\ stream' = [stream EXCEPT ![r].at = "left"]
    BY DEF Disconnect
<1> DEFINE s == [stream[r] EXCEPT !.at = "left"]
<1>2. /\ s \in [at: {"none", "open", "closed", "left"}, seen: Nat, told: Told]
      /\ s.at = "left" /\ s.seen = stream[r].seen /\ s.told = stream[r].told
    BY DEF StreamInv, StreamTyped
<1>3. stream' = [stream EXCEPT ![r] = s]
    BY <1>1
<1> HIDE DEF s
<1>4. req[r].status # "NONE"
    BY <1>1 DEF StreamInv, NoneHasNoStream
<1>5. Stored(r) => /\ s.seen <= req[r].revision
                   /\ s.seen = req[r].revision => s.told = req[r].status
    BY <1>1, <1>2 DEF StreamInv, SeenIsTold
<1> QED
    BY <1>1, <1>2, <1>3, <1>4, <1>5, OneStream

\* A poll sends what is new and closes on an ending, sent now or before.
LEMMA PollStep ==
    ASSUME StreamInv, TypeOK, NEW r \in Request, Poll(r)
    PROVE  StreamInv'
<1>1. stream[r].at = "open" /\ UNCHANGED vars
    BY DEF Poll
<1>2. req[r].status # "NONE"
    BY <1>1 DEF StreamInv, NoneHasNoStream
<1>3. stream[r] \in [at: {"none", "open", "closed", "left"}, seen: Nat, told: Told]
    BY DEF StreamInv, StreamTyped
<1>4. CASE ~Stored(r)
  <2> DEFINE s == [stream[r] EXCEPT !.at = "closed"]
  <2>1. s \in [at: {"none", "open", "closed", "left"}, seen: Nat, told: Told]
    BY <1>3
  <2>2. stream' = [stream EXCEPT ![r] = s]
    BY <1>4 DEF Poll
  <2> HIDE DEF s
  <2> QED
    BY <1>1, <1>2, <1>4, <2>1, <2>2, OneStream
<1>5. CASE Stored(r) /\ req[r].revision > stream[r].seen
  <2>1. stream' = [stream EXCEPT ![r] = Sent(r)]
    BY <1>5 DEF Poll
  <2> QED
    BY <1>1, <1>2, <1>5, <2>1, SendsRow
<1>6. CASE Stored(r) /\ ~(req[r].revision > stream[r].seen)
  <2> DEFINE s == [stream[r] EXCEPT !.at = Sent(r).at]
  <2>1. /\ s \in [at: {"none", "open", "closed", "left"}, seen: Nat, told: Told]
        /\ s.at = Sent(r).at /\ s.seen = stream[r].seen /\ s.told = stream[r].told
    BY <1>3, <1>6, SentRow
  <2>2. stream' = [stream EXCEPT ![r] = s]
    BY <1>6 DEF Poll
  <2> HIDE DEF s
  <2>3. stream[r].seen <= req[r].revision /\ req[r].revision \in Nat
    BY <1>1, <1>6, Rows DEF StreamInv, SeenIsTold, RequestRow
  <2>4. stream[r].seen = req[r].revision
    BY <1>3, <1>6, <2>3
  <2>5. stream[r].told = req[r].status
    BY <1>1, <1>6, <2>4 DEF StreamInv, SeenIsTold
  <2> QED
    BY <1>1, <1>2, <1>6, <2>1, <2>2, <2>3, <2>4, <2>5, SentRow, OneStream
<1> QED
    BY <1>4, <1>5, <1>6

-----------------------------------------------------------------------------
(* The theorems. *)

\* Beside the streams the chatbot is what it is alone.
THEOREM StreamsOnlyWatch == EventsSpec => Spec
<1>1. EventsInit => Init
    BY DEF EventsInit
<1>2. [EventsNext]_eventVars => [Next]_vars
    BY DEF EventsNext, eventVars, Subscribe, Poll, Disconnect
<1> QED
    BY <1>1, <1>2, PTL DEF EventsSpec, Spec

\* A client's stream keeps up with its request, whatever happens to that.
THEOREM StreamInvariance == EventsSpec => []StreamInv
<1>1. StreamInv /\ TypeOK /\ TypeOK' /\ [EventsNext]_eventVars => StreamInv'
  <2> SUFFICES ASSUME StreamInv, TypeOK, TypeOK', [EventsNext]_eventVars
               PROVE  StreamInv'
    OBVIOUS
  <2>1. CASE Next /\ UNCHANGED stream
    BY <2>1, ChatbotKeepsStreams
  <2>2. ASSUME NEW r \in Request, Subscribe(r) \/ Poll(r) \/ Disconnect(r)
        PROVE  StreamInv'
    BY <2>2, SubscribeStep, PollStep, DisconnectStep
  <2>3. CASE UNCHANGED eventVars
    BY <2>3 DEF eventVars, vars, StreamInv, StreamTyped, NoneHasNoStream,
                SeenIsTold, Stored
  <2> QED
    BY <2>1, <2>2, <2>3 DEF EventsNext
<1> QED
    BY <1>1, InitStreams, StreamsOnlyWatch, TypeCorrect, PTL DEF EventsSpec

\* A client whose stream was closed by the server knows how its request ended.
THEOREM EndIsTold == EventsSpec => []StreamTellsTheEnd
<1>1. StreamInv => StreamTellsTheEnd
    BY DEF StreamInv, SeenIsTold, StreamTellsTheEnd
<1> QED
    BY <1>1, StreamInvariance, PTL

\* A client beside the conversation: whatever it is told and whenever it leaves,
\* the broker sees questions asked one at a time and settled once.
THEOREM StreamsSeeConversations == EventsSpec => ImplementsConversation
    BY StreamsOnlyWatch, Refinement

\* An ending that a client was told is the ending of its request, whether the
\* stream goes on, was closed or was left.
ToldIsFinal ==
    \A r \in Request :
        stream[r].told \in TerminalStatus /\ Stored(r) => req[r].status = stream[r].told

\* Who has not subscribed was told nothing.
UntoldBefore == \A r \in Request : stream[r].at = "none" => stream[r].told = "NONE"

\* No row leaves an ending, so nothing that was told of one is taken back.
\* (transition, interrupt_stale, stream_request_events)
THEOREM EndingToldIsFinal == EventsSpec => []ToldIsFinal
<1>1. EventsInit => ToldIsFinal /\ UntoldBefore
    BY DEF EventsInit, ToldIsFinal, UntoldBefore, NoStream, TerminalStatus
<1>2. UntoldBefore /\ StreamInv /\ [EventsNext]_eventVars => UntoldBefore'
  <2> SUFFICES ASSUME UntoldBefore, StreamInv, [EventsNext]_eventVars,
                      NEW r \in Request, stream'[r].at = "none"
               PROVE  stream'[r].told = "NONE"
    BY DEF UntoldBefore
  <2>1. CASE UNCHANGED stream
    BY <2>1 DEF UntoldBefore
  <2>2. ASSUME NEW q \in Request, Subscribe(q) \/ Poll(q) \/ Disconnect(q)
        PROVE  stream'[r].told = "NONE"
    <3>1. stream'[r] = stream[r] \/ (q = r /\ stream'[r].at # "none")
      BY <2>2 DEF Subscribe, Poll, Disconnect, StreamInv, StreamTyped, Sent
    <3> QED
      BY <3>1 DEF UntoldBefore
  <2> QED
    BY <2>1, <2>2 DEF EventsNext, eventVars
<1>3. ToldIsFinal /\ UntoldBefore /\ StreamInv /\ TypeOK /\ TypeOK' /\ [EventsNext]_eventVars
          => ToldIsFinal'
  <2> SUFFICES ASSUME ToldIsFinal, UntoldBefore, StreamInv, TypeOK, TypeOK',
                      [EventsNext]_eventVars
               PROVE  ToldIsFinal'
    OBVIOUS
  <2> SUFFICES ASSUME NEW r \in Request, stream'[r].told \in TerminalStatus, Stored(r)'
               PROVE  req'[r].status = stream'[r].told
    BY DEF ToldIsFinal
  <2>1. CASE Next /\ UNCHANGED stream
    <3>1. Revised(r)
      BY <2>1, RevisionSteps
    <3>2. req[r].status # "NONE"
      BY <2>1 DEF StreamInv, NoneHasNoStream, UntoldBefore, TerminalStatus
    <3>3. Stored(r)
      BY <3>1, <3>2, Rows DEF Revised
    <3>4. req[r].status = stream[r].told
      BY <2>1, <3>3 DEF ToldIsFinal
    <3>5. req'[r].status = req[r].status
      BY <2>1, <3>1, <3>2, <3>4 DEF Revised, Active, ActiveStatus, TerminalStatus
    <3> QED
      BY <2>1, <3>4, <3>5
  <2>2. ASSUME NEW q \in Request, Subscribe(q) \/ Poll(q) \/ Disconnect(q)
        PROVE  req'[r].status = stream'[r].told
    <3>1. UNCHANGED req /\ Stored(r)
      BY <2>2 DEF Subscribe, Poll, Disconnect, vars, Stored
    <3>2. \/ stream'[r].told = stream[r].told
          \/ stream'[r].told = req[r].status
      BY <2>2, <3>1 DEF Subscribe, Poll, Disconnect, StreamInv, StreamTyped, Sent
    <3> QED
      BY <3>1, <3>2 DEF ToldIsFinal
  <2>3. CASE UNCHANGED eventVars
    BY <2>3 DEF eventVars, vars, ToldIsFinal, Stored
  <2> QED
    BY <2>1, <2>2, <2>3 DEF EventsNext
<1> QED
    BY <1>1, <1>2, <1>3, StreamInvariance, StreamsOnlyWatch, TypeCorrect, PTL DEF EventsSpec

-----------------------------------------------------------------------------
(* The conditions of a search                                                *)

(* A condition was said in one of these questions. *)
SaidIn(questions, f, v) ==
    IF f \in EnumFields
    THEN ValuesOf(f, v) \subseteq UNION {q.names[f] : q \in questions}
    ELSE \E q \in questions : v \in q.text \/ (f = "status" /\ q.text \cap StatusWord # {})

AllSaid(questions, conditions) ==
    \A f \in DOMAIN conditions : SaidIn(questions, f, conditions[f])

(* The questions that a search will belong to once it is stored. *)
Belonging == Sources \cup (IF asked.mode = "refine" THEN saidSince ELSE {})

AskedShape ==
    \/ asked = NoQuestion
    \/ \E q, referred, day, attempt : asked = Interpreting(q, referred, day, attempt)
    \/ \E q, day, tool, mode, conditions :
          asked = [pc |-> "searching", question |-> q, day |-> day, tool |-> tool,
                   mode |-> mode, conditions |-> conditions]

(* While a search runs, no other turn begins: the questions it was read from
   are still the last ones when it is stored.                                *)
SearchWasSaid ==
    asked.pc = "searching" =>
        /\ AllSaid(Belonging, asked.conditions)
        /\ \A f \in EnumFields \cap DOMAIN asked.conditions :
              asked.question.names[f] # {} =>
                  ValuesOf(f, asked.conditions[f]) \subseteq asked.question.names[f]

(* A search runs only on an amount that can be read. *)
PriceReadable ==
    asked.pc = "searching" /\ asked.tool = "buyers" /\ Has(asked.conditions, "price_expression") =>
        Readable(AmountPhrase, asked.conditions["price_expression"])

QueryInv ==
    /\ AskedShape
    /\ AllSaid(saidSince, activeSearch.conditions)
    /\ SearchWasSaid
    /\ PriceReadable

-----------------------------------------------------------------------------

LEMMA QueryInitHolds == ChatQueryInit => QueryInv
  BY DEF ChatQueryInit, QueryInv, AskedShape, AllSaid, SearchWasSaid, PriceReadable, NoCondition,
         NoQuestion

(* A turn that stores no search leaves the active one as it is. *)
LEMMA QueryOver ==
    ASSUME QueryInv, asked' = NoQuestion, UNCHANGED <<activeSearch, saidSince>>
    PROVE  QueryInv'
  BY DEF QueryInv, AskedShape, AllSaid, SearchWasSaid, PriceReadable, NoQuestion, SaidIn

LEMMA LedgerMovesKeeps ==
    ASSUME QueryInv, UNCHANGED <<activeSearch, turns, asked, saidSince>>
    PROVE  QueryInv'
<1>1. Sources' = Sources
  BY DEF Sources, LastTurn
<1>2. Belonging' = Belonging
  BY <1>1 DEF Belonging
<1> QED
  BY <1>2 DEF QueryInv, AskedShape, AllSaid, SearchWasSaid, PriceReadable, SaidIn

LEMMA InterpretingKeeps ==
    ASSUME QueryInv, NEW q, NEW referred, NEW day, NEW attempt,
           asked' = Interpreting(q, referred, day, attempt), UNCHANGED <<activeSearch, saidSince>>
    PROVE  QueryInv'
  BY DEF QueryInv, AskedShape, AllSaid, SearchWasSaid, PriceReadable, Interpreting, SaidIn

LEMMA RefusedKeeps == QueryInv /\ AnswerRefused => QueryInv'
<1> SUFFICES ASSUME QueryInv, AnswerRefused PROVE QueryInv'
  OBVIOUS
<1>1. UNCHANGED <<activeSearch, saidSince>>
  BY DEF AnswerRefused
<1>2. CASE asked' = NoQuestion
  BY <1>1, <1>2, QueryOver
<1>3. CASE asked' = [asked EXCEPT !.attempt = @ + 1]
  <2>1. PICK q, referred, day, attempt : asked = Interpreting(q, referred, day, attempt)
    BY DEF AnswerRefused, MayInterpret, QueryInv, AskedShape, NoQuestion
  <2>2. asked' = Interpreting(q, referred, day, attempt + 1)
    BY <1>3, <2>1 DEF Interpreting
  <2> QED
    BY <1>1, <2>2, InterpretingKeeps
<1> QED
  BY <1>2, <1>3 DEF AnswerRefused

(* What the model gives was said now, or was said before and the search is
   refined.                                                                  *)
LEMMA GivenWasSaid ==
    ASSUME AllSaid(saidSince, activeSearch.conditions),
           NEW i, NEW f, Authorised(i, f)
    PROVE  /\ SaidIn(Sources \cup (IF i.mode = "refine" THEN saidSince ELSE {}), f, i.filters[f])
           /\ f \in EnumFields /\ NamedNow(f) # {} => ValuesOf(f, i.filters[f]) \subseteq NamedNow(f)
<1> DEFINE S == Sources \cup (IF i.mode = "refine" THEN saidSince ELSE {})
<1>1. ASSUME Inherited(i, f) PROVE SaidIn(S, f, i.filters[f])
  <2>1. i.mode = "refine" /\ SaidIn(saidSince, f, i.filters[f])
    BY <1>1 DEF Inherited, Refines, ActiveHas, AllSaid
  <2>2. saidSince \subseteq S
    BY <2>1
  <2> QED
    BY <2>1, <2>2 DEF SaidIn
<1>2. CASE f \in EnumFields
  <2>1. asked.question \in Sources
    BY DEF Sources
  <2>2. Named(f) \subseteq UNION {q.names[f] : q \in Sources}
    BY <2>1 DEF Named, NamedNow
  <2>3. ValuesOf(f, i.filters[f]) \subseteq Named(f) \/ (Inherited(i, f) /\ Named(f) = {})
    BY <1>2 DEF Authorised
  <2>4. NamedNow(f) # {} => Named(f) = NamedNow(f)
    BY DEF Named
  <2> QED
    BY <1>1, <1>2, <2>2, <2>3, <2>4 DEF SaidIn
<1>3. CASE f \notin EnumFields
  <2>1. Inherited(i, f) \/ i.filters[f] \in SaidText
    BY <1>3 DEF Authorised
  <2> QED
    BY <1>1, <1>3, <2>1 DEF SaidIn, SaidText
<1> QED
  BY <1>2, <1>3

LEMMA SearchBeginKeeps ==
    ASSUME QueryInv, NEW i, SearchBegin(i)
    PROVE  QueryInv'
<1> DEFINE c == Merged(i)
           S == Sources \cup (IF i.mode = "refine" THEN saidSince ELSE {})
           old == IF i.mode = "refine" THEN activeSearch.conditions ELSE NoCondition
           value(f) == IF f \in Given(i) THEN i.filters[f] ELSE old[f]
<1>1. /\ asked' = [pc |-> "searching", question |-> asked.question, day |-> asked.day,
                   tool |-> i.tool, mode |-> i.mode, conditions |-> c]
      /\ UNCHANGED <<activeSearch, turns, saidSince>>
  BY DEF SearchBegin, Searching
<1>2. /\ ChangeRespected(i)
      /\ \A f \in Given(i) : Authorised(i, f)
      /\ i.mode = "refine" => Refines(i)
  BY DEF SearchBegin, IntentValid, NormalizesTo
<1>3. AllSaid(saidSince, activeSearch.conditions)
  BY DEF QueryInv
<1>4. /\ DOMAIN c = Given(i) \cup DOMAIN old
      /\ \A f \in DOMAIN c :
            c[f] = IF f = "status" /\ value(f) \in StatusWord THEN OpenStatus(i.tool) ELSE value(f)
  BY DEF Merged
<1>5. \A f \in DOMAIN old : i.mode = "refine" /\ old[f] = activeSearch.conditions[f]
                            /\ f \in DOMAIN activeSearch.conditions
  BY DEF NoCondition
<1>6. Belonging' = S
  <2>1. Sources' = Sources
    BY <1>1 DEF Sources, LastTurn
  <2> QED
    BY <1>1, <2>1 DEF Belonging
<1>7. \A f \in DOMAIN c : SaidIn(S, f, value(f))
  <2> SUFFICES ASSUME NEW f \in DOMAIN c PROVE SaidIn(S, f, value(f))
    OBVIOUS
  <2>1. CASE f \in Given(i)
    BY <1>2, <1>3, <2>1, GivenWasSaid
  <2>2. CASE f \notin Given(i)
    <3>1. f \in DOMAIN old
      BY <1>4, <2>2
    <3>2. SaidIn(saidSince, f, value(f)) /\ saidSince \subseteq S
      BY <1>3, <1>5, <2>2, <3>1 DEF AllSaid
    <3> QED
      BY <3>2 DEF SaidIn
  <2> QED
    BY <2>1, <2>2
<1>8. \A f \in DOMAIN c : SaidIn(S, f, c[f])
  <2> SUFFICES ASSUME NEW f \in DOMAIN c PROVE SaidIn(S, f, c[f])
    OBVIOUS
  <2>1. SaidIn(S, f, value(f))
    BY <1>7
  <2> HIDE DEF S, value, c
  <2>2. CASE f = "status" /\ value(f) \in StatusWord
    BY <2>1, <2>2 DEF SaidIn, EnumFields
  <2>3. CASE ~(f = "status" /\ value(f) \in StatusWord)
    BY <1>4, <2>1, <2>3
  <2> QED
    BY <2>2, <2>3
<1>9. ASSUME NEW f \in EnumFields \cap DOMAIN c, asked.question.names[f] # {}
      PROVE  ValuesOf(f, c[f]) \subseteq asked.question.names[f]
  <2>1. c[f] = value(f)
    BY <1>4 DEF EnumFields
  <2>2. CASE f \in Given(i)
    BY <1>2, <1>3, <1>9, <2>1, <2>2, GivenWasSaid DEF NamedNow
  <2>3. CASE f \notin Given(i)
    <3>1. f \in DOMAIN old
      BY <1>4, <2>3
    <3>2. Effective(i, f) = ValuesOf(f, c[f])
      BY <1>5, <2>1, <2>3, <3>1 DEF Effective
    <3>3. Effective(i, f) \subseteq NamedNow(f)
      BY <1>2, <1>5, <1>9, <3>1 DEF ChangeRespected, NamedNow
    <3> QED
      BY <3>2, <3>3 DEF NamedNow
  <2> QED
    BY <2>2, <2>3
<1> HIDE DEF c, S, value, old
<1>10. AskedShape'
  BY <1>1 DEF AskedShape
<1>11. SearchWasSaid'
  BY <1>1, <1>6, <1>8, <1>9 DEF SearchWasSaid, AllSaid
<1>12. PriceReadable'
  BY <1>1 DEF PriceReadable, SearchBegin, NormalizesTo, AmountClear, c
<1> QED
  BY <1>1, <1>3, <1>10, <1>11, <1>12 DEF QueryInv, AllSaid, SaidIn

LEMMA SearchEndKeeps == QueryInv /\ SearchEnd => QueryInv'
<1> SUFFICES ASSUME QueryInv, SearchEnd PROVE QueryInv'
  OBVIOUS
<1>1. asked' = NoQuestion
  BY DEF SearchEnd, CompletedWithoutSearch, Completed
<1>2. CASE NameAmbiguous(asked.conditions)
  BY <1>1, <1>2, QueryOver DEF SearchEnd, CompletedWithoutSearch
<1>3. CASE ~NameAmbiguous(asked.conditions)
  <2>1. /\ activeSearch' = [tool |-> asked.tool, conditions |-> asked.conditions]
        /\ saidSince' = Belonging
    BY <1>3 DEF SearchEnd, Belonging
  <2>2. AllSaid(Belonging, asked.conditions)
    BY DEF SearchEnd, QueryInv, SearchWasSaid
  <2>3. AllSaid(saidSince', activeSearch'.conditions)
    BY <2>1, <2>2
  <2> QED
    BY <1>1, <2>3 DEF QueryInv, AskedShape, SearchWasSaid, PriceReadable, NoQuestion, AllSaid,
           SaidIn
<1> QED
  BY <1>2, <1>3

LEMMA QueryStep == QueryInv /\ [ChatQueryNext]_chatQueryVars => QueryInv'
<1> SUFFICES ASSUME QueryInv, [ChatQueryNext]_chatQueryVars PROVE QueryInv'
  OBVIOUS
<1>1. CASE LedgerMoves
  BY <1>1, LedgerMovesKeeps DEF LedgerMoves
<1>2. ASSUME NEW q \in Question, NEW referred \in {None} \cup DOMAIN turns, Ask(q, referred)
      PROVE  QueryInv'
  BY <1>2, InterpretingKeeps DEF Ask
<1>3. CASE AnswerAtOnce
  BY <1>3, QueryOver DEF AnswerAtOnce, CompletedWithoutSearch, Completed
<1>4. CASE AnswerRefused
  BY <1>4, RefusedKeeps
<1>5. CASE AskEnds
  BY <1>5, QueryOver DEF AskEnds
<1>6. CASE SearchEnd
  BY <1>6, SearchEndKeeps
<1>7. ASSUME NEW i \in Intent, ModelAnswersWithoutSearch(i) PROVE QueryInv'
  BY <1>7, QueryOver DEF ModelAnswersWithoutSearch, CompletedWithoutSearch, Completed
<1>8. ASSUME NEW i \in Intent, SearchBegin(i) PROVE QueryInv'
  BY <1>8, SearchBeginKeeps
<1>9. ASSUME NEW i \in Intent, OpenResult(i) PROVE QueryInv'
  BY <1>9, QueryOver DEF OpenResult, CompletedWithoutSearch, Completed
<1>10. CASE UNCHANGED chatQueryVars
  BY <1>10, LedgerMovesKeeps DEF chatQueryVars
<1> QED
  BY <1>1, <1>2, <1>3, <1>4, <1>5, <1>6, <1>7, <1>8, <1>9, <1>10 DEF ChatQueryNext

-----------------------------------------------------------------------------

(* The search that runs, and the one that is active, were said by the user. *)
THEOREM QueryInvariance == ChatQuerySpec => []QueryInv
<1>1. QueryInv /\ [ChatQueryNext]_chatQueryVars => QueryInv'
  BY QueryStep
<1> QED
  BY <1>1, QueryInitHolds, PTL DEF ChatQuerySpec

(* Whatever the model answers, and over any number of refinements, the active
   search holds only what the user said in a question that belongs to it.    *)
THEOREM SaidByTheUser == ChatQuerySpec => []ConditionsWereSaid
<1>1. QueryInv => ConditionsWereSaid
  BY DEF QueryInv, AllSaid, SaidIn, SearchWasSaid, ConditionsWereSaid
<1> QED
  BY <1>1, QueryInvariance, PTL

-----------------------------------------------------------------------------
(* Budgets                                                                   *)

LEMMA IntervalsMeet ==
    ASSUME NEW a \in Int, NEW b \in Int, NEW c \in Int, NEW d \in Int, a <= b, c <= d
    PROVE  (\E x \in a .. b : x >= c /\ x <= d) <=> a <= d /\ c <= b
<1>1. ASSUME a <= d, c <= b PROVE \E x \in a .. b : x >= c /\ x <= d
  <2>1. CASE a >= c
    BY <1>1, <2>1
  <2>2. CASE a < c
    BY <1>1, <2>2
  <2> QED
    BY <2>1, <2>2
<1> QED
  BY <1>1

(* Spans in whole units overlap as their amounts in half units do: an end that
   does not belong to the phrase is half a unit off.                         *)
LEMMA BoundsOverlap ==
    ASSUME NEW e \in DOMAIN AmountPhrase, Readable(AmountPhrase, e), MeansSome(AmountPhrase[e]),
           NEW low \in Nat \cup {None}, NEW high \in Nat \cup {None},
           low # None /\ high # None => low <= high
    PROVE  SpanMeets(low, high, BoundsOf(AmountPhrase[e]))
             <=> \E x \in Budget([low |-> low, high |-> high]) : Means(AmountPhrase[e], x)
<1> DEFINE p == AmountPhrase[e]
           l == Coalesce(low, high)
           h == Coalesce(high, low)
<1>1. None \notin Int
  BY ChatQueryAssumption
<1>2. \/ p \in [form : {"exactly", "atMost", "below", "atLeast", "above"}, n : Nat, m : {None}]
      \/ p \in [form : {"range", "fromBelow", "aboveTo", "aboveBelow"}, n : Nat, m : Nat]
  BY ChatQueryAssumption
<1>3. p.m # None => p.n <= p.m
  BY DEF Readable
<1>4. MeansSome(p)
  OBVIOUS
<1> HIDE DEF p
<1>5. CASE low = None /\ high = None
  BY <1>5 DEF SpanMeets, Budget
<1>6. CASE low # None \/ high # None
  <2>1. l \in Nat /\ h \in Nat /\ l <= h
    BY <1>6 DEF Coalesce
  <2>2. Budget([low |-> low, high |-> high]) = 2 * l .. 2 * h
    BY <1>6 DEF Budget
  <2>3. \A b : SpanMeets(low, high, b) <=>
           /\ b.min # None => IF b.minIn THEN h >= b.min ELSE h > b.min
           /\ b.max # None => IF b.maxIn THEN l <= b.max ELSE l < b.max
    BY <1>6 DEF SpanMeets
  <2> HIDE DEF l, h
  <2>4. SUFFICES SpanMeets(low, high, BoundsOf(p)) <=> \E x \in 2 * l .. 2 * h : Means(p, x)
    BY <2>2 DEF p
  <2> DEFINE I == 2 * l .. 2 * h
  <2>14. /\ 2 * l \in Int /\ 2 * h \in Int /\ 2 * l <= 2 * h
         /\ I \subseteq Int /\ \A x : x \in I <=> x \in Int /\ 2 * l <= x /\ x <= 2 * h
    BY <2>1
  <2>5. CASE p.form = "exactly"
    <3>1. /\ BoundsOf(p) = Bound(p.n, p.n, TRUE, TRUE)
          /\ \A x \in Int : Means(p, x) <=> x >= 2 * p.n /\ x <= 2 * p.n
      BY <1>2, <2>5 DEF BoundsOf, Means
    <3>2. SpanMeets(low, high, BoundsOf(p)) <=> h >= p.n /\ l <= p.n
      BY <1>1, <1>2, <2>3, <2>5, <3>1 DEF Bound
    <3>3. (\E x \in I : Means(p, x)) <=> \E x \in I : x >= 2 * p.n /\ x <= 2 * p.n
      BY <2>14, <3>1
    <3>4. 2 * p.n <= 2 * p.n /\ 2 * p.n \in Int /\ 2 * p.n \in Int
      BY <1>2, <1>3, <1>4, <2>5, <3>1 DEF MeansSome
    <3>5. (\E x \in I : x >= 2 * p.n /\ x <= 2 * p.n) <=> 2 * l <= 2 * p.n /\ 2 * p.n <= 2 * h
      BY <2>14, <3>4, IntervalsMeet
    <3>6. (2 * l <= 2 * p.n /\ 2 * p.n <= 2 * h) <=> h >= p.n /\ l <= p.n
      BY <1>2, <2>1, <2>5
    <3> QED
      BY <3>2, <3>3, <3>5, <3>6
  <2>6. CASE p.form = "atMost"
    <3>1. /\ BoundsOf(p) = Bound(None, p.n, TRUE, TRUE)
          /\ \A x \in Int : Means(p, x) <=> x <= 2 * p.n
      BY <1>2, <2>6 DEF BoundsOf, Means
    <3>2. SpanMeets(low, high, BoundsOf(p)) <=> l <= p.n
      BY <1>1, <1>2, <2>3, <2>6, <3>1 DEF Bound
    <3>3. (\E x \in I : Means(p, x)) <=> \E x \in I : x <= 2 * p.n
      BY <2>14, <3>1
    <3>5. (\E x \in I : x <= 2 * p.n) <=> 2 * l <= 2 * p.n
      BY <1>2, <2>6, <2>14
    <3>6. (2 * l <= 2 * p.n) <=> l <= p.n
      BY <1>2, <2>1, <2>6
    <3> QED
      BY <3>2, <3>3, <3>5, <3>6
  <2>7. CASE p.form = "below"
    <3>1. /\ BoundsOf(p) = Bound(None, p.n, TRUE, FALSE)
          /\ \A x \in Int : Means(p, x) <=> x <= 2 * p.n - 1
      BY <1>2, <2>7 DEF BoundsOf, Means
    <3>2. SpanMeets(low, high, BoundsOf(p)) <=> l < p.n
      BY <1>1, <1>2, <2>3, <2>7, <3>1 DEF Bound
    <3>3. (\E x \in I : Means(p, x)) <=> \E x \in I : x <= 2 * p.n - 1
      BY <2>14, <3>1
    <3>5. (\E x \in I : x <= 2 * p.n - 1) <=> 2 * l <= 2 * p.n - 1
      BY <1>2, <2>7, <2>14
    <3>6. (2 * l <= 2 * p.n - 1) <=> l < p.n
      BY <1>2, <2>1, <2>7
    <3> QED
      BY <3>2, <3>3, <3>5, <3>6
  <2>8. CASE p.form = "atLeast"
    <3>1. /\ BoundsOf(p) = Bound(p.n, None, TRUE, TRUE)
          /\ \A x \in Int : Means(p, x) <=> x >= 2 * p.n
      BY <1>2, <2>8 DEF BoundsOf, Means
    <3>2. SpanMeets(low, high, BoundsOf(p)) <=> h >= p.n
      BY <1>1, <1>2, <2>3, <2>8, <3>1 DEF Bound
    <3>3. (\E x \in I : Means(p, x)) <=> \E x \in I : x >= 2 * p.n
      BY <2>14, <3>1
    <3>5. (\E x \in I : x >= 2 * p.n) <=> 2 * p.n <= 2 * h
      BY <1>2, <2>8, <2>14
    <3>6. (2 * p.n <= 2 * h) <=> h >= p.n
      BY <1>2, <2>1, <2>8
    <3> QED
      BY <3>2, <3>3, <3>5, <3>6
  <2>9. CASE p.form = "above"
    <3>1. /\ BoundsOf(p) = Bound(p.n, None, FALSE, TRUE)
          /\ \A x \in Int : Means(p, x) <=> x >= 2 * p.n + 1
      BY <1>2, <2>9 DEF BoundsOf, Means
    <3>2. SpanMeets(low, high, BoundsOf(p)) <=> h > p.n
      BY <1>1, <1>2, <2>3, <2>9, <3>1 DEF Bound
    <3>3. (\E x \in I : Means(p, x)) <=> \E x \in I : x >= 2 * p.n + 1
      BY <2>14, <3>1
    <3>5. (\E x \in I : x >= 2 * p.n + 1) <=> 2 * p.n + 1 <= 2 * h
      BY <1>2, <2>9, <2>14
    <3>6. (2 * p.n + 1 <= 2 * h) <=> h > p.n
      BY <1>2, <2>1, <2>9
    <3> QED
      BY <3>2, <3>3, <3>5, <3>6
  <2>10. CASE p.form = "range"
    <3>1. /\ BoundsOf(p) = Bound(p.n, p.m, TRUE, TRUE)
          /\ \A x \in Int : Means(p, x) <=> x >= 2 * p.n /\ x <= 2 * p.m
      BY <1>2, <2>10 DEF BoundsOf, Means
    <3>2. SpanMeets(low, high, BoundsOf(p)) <=> h >= p.n /\ l <= p.m
      BY <1>1, <1>2, <2>3, <2>10, <3>1 DEF Bound
    <3>3. (\E x \in I : Means(p, x)) <=> \E x \in I : x >= 2 * p.n /\ x <= 2 * p.m
      BY <2>14, <3>1
    <3>4. 2 * p.n <= 2 * p.m /\ 2 * p.n \in Int /\ 2 * p.m \in Int
      BY <1>2, <1>3, <1>4, <2>10, <3>1 DEF MeansSome
    <3>5. (\E x \in I : x >= 2 * p.n /\ x <= 2 * p.m) <=> 2 * l <= 2 * p.m /\ 2 * p.n <= 2 * h
      BY <2>14, <3>4, IntervalsMeet
    <3>6. (2 * l <= 2 * p.m /\ 2 * p.n <= 2 * h) <=> h >= p.n /\ l <= p.m
      BY <1>2, <2>1, <2>10
    <3> QED
      BY <3>2, <3>3, <3>5, <3>6
  <2>11. CASE p.form = "fromBelow"
    <3>1. /\ BoundsOf(p) = Bound(p.n, p.m, TRUE, FALSE)
          /\ \A x \in Int : Means(p, x) <=> x >= 2 * p.n /\ x <= 2 * p.m - 1
      BY <1>2, <2>11 DEF BoundsOf, Means
    <3>2. SpanMeets(low, high, BoundsOf(p)) <=> h >= p.n /\ l < p.m
      BY <1>1, <1>2, <2>3, <2>11, <3>1 DEF Bound
    <3>3. (\E x \in I : Means(p, x)) <=> \E x \in I : x >= 2 * p.n /\ x <= 2 * p.m - 1
      BY <2>14, <3>1
    <3>4. 2 * p.n <= 2 * p.m - 1 /\ 2 * p.n \in Int /\ 2 * p.m - 1 \in Int
      BY <1>2, <1>3, <1>4, <2>11, <3>1 DEF MeansSome
    <3>5. (\E x \in I : x >= 2 * p.n /\ x <= 2 * p.m - 1) <=> 2 * l <= 2 * p.m - 1 /\ 2 * p.n <= 2 * h
      BY <2>14, <3>4, IntervalsMeet
    <3>6. (2 * l <= 2 * p.m - 1 /\ 2 * p.n <= 2 * h) <=> h >= p.n /\ l < p.m
      BY <1>2, <2>1, <2>11
    <3> QED
      BY <3>2, <3>3, <3>5, <3>6
  <2>12. CASE p.form = "aboveTo"
    <3>1. /\ BoundsOf(p) = Bound(p.n, p.m, FALSE, TRUE)
          /\ \A x \in Int : Means(p, x) <=> x >= 2 * p.n + 1 /\ x <= 2 * p.m
      BY <1>2, <2>12 DEF BoundsOf, Means
    <3>2. SpanMeets(low, high, BoundsOf(p)) <=> h > p.n /\ l <= p.m
      BY <1>1, <1>2, <2>3, <2>12, <3>1 DEF Bound
    <3>3. (\E x \in I : Means(p, x)) <=> \E x \in I : x >= 2 * p.n + 1 /\ x <= 2 * p.m
      BY <2>14, <3>1
    <3>4. 2 * p.n + 1 <= 2 * p.m /\ 2 * p.n + 1 \in Int /\ 2 * p.m \in Int
      BY <1>2, <1>3, <1>4, <2>12, <3>1 DEF MeansSome
    <3>5. (\E x \in I : x >= 2 * p.n + 1 /\ x <= 2 * p.m) <=> 2 * l <= 2 * p.m /\ 2 * p.n + 1 <= 2 * h
      BY <2>14, <3>4, IntervalsMeet
    <3>6. (2 * l <= 2 * p.m /\ 2 * p.n + 1 <= 2 * h) <=> h > p.n /\ l <= p.m
      BY <1>2, <2>1, <2>12
    <3> QED
      BY <3>2, <3>3, <3>5, <3>6
  <2>13. CASE p.form = "aboveBelow"
    <3>1. /\ BoundsOf(p) = Bound(p.n, p.m, FALSE, FALSE)
          /\ \A x \in Int : Means(p, x) <=> x >= 2 * p.n + 1 /\ x <= 2 * p.m - 1
      BY <1>2, <2>13 DEF BoundsOf, Means
    <3>2. SpanMeets(low, high, BoundsOf(p)) <=> h > p.n /\ l < p.m
      BY <1>1, <1>2, <2>3, <2>13, <3>1 DEF Bound
    <3>3. (\E x \in I : Means(p, x)) <=> \E x \in I : x >= 2 * p.n + 1 /\ x <= 2 * p.m - 1
      BY <2>14, <3>1
    <3>4. 2 * p.n + 1 <= 2 * p.m - 1 /\ 2 * p.n + 1 \in Int /\ 2 * p.m - 1 \in Int
      BY <1>2, <1>3, <1>4, <2>13, <3>1 DEF MeansSome
    <3>5. (\E x \in I : x >= 2 * p.n + 1 /\ x <= 2 * p.m - 1) <=> 2 * l <= 2 * p.m - 1 /\ 2 * p.n + 1 <= 2 * h
      BY <2>14, <3>4, IntervalsMeet
    <3>6. (2 * l <= 2 * p.m - 1 /\ 2 * p.n + 1 <= 2 * h) <=> h > p.n /\ l < p.m
      BY <1>2, <2>1, <2>13
    <3> QED
      BY <3>2, <3>3, <3>5, <3>6
  <2> QED
    BY <1>2, <2>5, <2>6, <2>7, <2>8, <2>9, <2>10, <2>11, <2>12, <2>13
<1> QED
  BY <1>5, <1>6 DEF p

(* A search without the condition on the price asks the same of a buyer but for his
   budget.                                                                   *)
LEMMA PriceApart ==
    ASSUME NEW r, NEW c, Has(c, "price_expression")
    PROVE  LET others == [f \in DOMAIN c \ {"price_expression"} |-> c[f]]
           IN BuyerFound(r, c) <=>
                /\ BuyerFound(r, others)
                /\ SpanMeets(r.low, r.high, BoundsOf(AmountPhrase[c["price_expression"]]))
<1> DEFINE others == [f \in DOMAIN c \ {"price_expression"} |-> c[f]]
           Meets(f) == SpanMeets(r.low, r.high, PhraseBounds(c, f))
           MeetsOthers(f) == SpanMeets(r.low, r.high, PhraseBounds(others, f))
<1>1. \A f : f # "price_expression" => (Has(others, f) <=> Has(c, f))
  BY DEF Has
<1>2. \A f : f # "price_expression" /\ Has(c, f) => others[f] = c[f]
  BY DEF Has
<1>3. BoundFields(c) = BoundFields(others) \cup {"price_expression"}
  BY DEF BoundFields, Has
<1>4. \A f \in BoundFields(others) : f # "price_expression" /\ Has(c, f)
  BY DEF BoundFields, Has
<1>5. \A f \in BoundFields(others) : PhraseBounds(others, f) = PhraseBounds(c, f)
  BY <1>2, <1>4 DEF PhraseBounds
<1>6. PhraseBounds(c, "price_expression") = BoundsOf(AmountPhrase[c["price_expression"]])
  BY DEF PhraseBounds
<1>7. (\A f \in BoundFields(c) : Meets(f)) <=>
        (\A f \in BoundFields(others) : MeetsOthers(f)) /\ Meets("price_expression")
  BY <1>3, <1>5
<1> HIDE DEF Meets, MeetsOthers, others
<1>8. BuyerFound(r, others) <=>
        /\ Has(c, "complex_name") => r.complexes \cap Matching(c["complex_name"]) # {}
        /\ Has(c, "status") => r.status = c["status"]
        /\ Has(c, "transaction_type") => c["transaction_type"] \in r.deals
        /\ \A f \in BoundFields(others) : MeetsOthers(f)
  BY <1>1, <1>2 DEF BuyerFound, MeetsOthers
<1>9. BuyerFound(r, c) <=>
        /\ Has(c, "complex_name") => r.complexes \cap Matching(c["complex_name"]) # {}
        /\ Has(c, "status") => r.status = c["status"]
        /\ Has(c, "transaction_type") => c["transaction_type"] \in r.deals
        /\ \A f \in BoundFields(c) : Meets(f)
  BY DEF BuyerFound, Meets
<1>10. Meets("price_expression")
         <=> SpanMeets(r.low, r.high, BoundsOf(AmountPhrase[c["price_expression"]]))
  BY <1>6 DEF Meets
<1> QED
  BY <1>7, <1>8, <1>9, <1>10 DEF others

(* A buyer is shown exactly when his budget and the phrase share an amount, for every
   ledger, every phrase and every other condition.                           *)
THEOREM BudgetsOverlap == ChatQuerySpec => []BudgetsOverlapTheQuestion
<1>1. QueryInv => BudgetsOverlapTheQuestion
  <2> DEFINE c == asked.conditions
             e == c["price_expression"]
             others == [f \in DOMAIN c \ {"price_expression"} |-> c[f]]
  <2> SUFFICES ASSUME QueryInv, asked.pc = "searching", asked.tool = "buyers",
                      Has(c, "price_expression"), MeansSome(AmountPhrase[e]),
                      NEW id \in DOMAIN LedgerRow \ gone,
                      LedgerRow[id].ledger = "buyers", InOrder(LedgerRow[id])
               PROVE  (id \in RowsFound("buyers", c)) =
                        ((\E x \in Budget(LedgerRow[id]) : Means(AmountPhrase[e], x))
                           /\ id \in RowsFound("buyers", others))
    BY DEF BudgetsOverlapTheQuestion
  <2> DEFINE r == LedgerRow[id]
  <2>1. e \in DOMAIN AmountPhrase /\ Readable(AmountPhrase, e)
    BY DEF QueryInv, PriceReadable, Readable
  <2>2. r.low \in Nat \cup {None} /\ r.high \in Nat \cup {None}
    BY ChatQueryAssumption
  <2>3. Budget(r) = Budget([low |-> r.low, high |-> r.high])
    BY DEF Budget
  <2>4. SpanMeets(r.low, r.high, BoundsOf(AmountPhrase[e]))
          <=> \E x \in Budget(r) : Means(AmountPhrase[e], x)
    BY <2>1, <2>2, <2>3, BoundsOverlap DEF InOrder
  <2>5. BuyerFound(r, c) <=>
          /\ BuyerFound(r, others)
          /\ SpanMeets(r.low, r.high, BoundsOf(AmountPhrase[e]))
    BY PriceApart
  <2>6. \A d : id \in RowsFound("buyers", d) <=> r.ours /\ BuyerFound(r, d)
    BY DEF RowsFound
  <2> QED
    BY <2>4, <2>5, <2>6
<1> QED
  BY <1>1, QueryInvariance, PTL

=============================================================================
